SPECIFICATION Spec
CONSTANTS
    BSIZE = 2
    NDIRECT = 1
    LOGSIZE = 6
    IPB = 8
    BPB = 64
    size = 21
    nblocks = 11
    ninodes = 4
    nlog = 6
    HostDirs <- TwoDirs
    UINT = 64
    p1 = p1
    p2 = p2
    Procs <- TwoProcs
    Bytes = {1, 2}
    Byte <- OneByte
    Files = {f1}
    ReadSizes = {1, 63}
    MaxUnlinks = 1
    WriteSizes = {4}
    NoFile = NoFile
SYMMETRY Symmetry
INVARIANTS
    
    BlocksAccounted
PROPERTIES
    ImplementsFlatFile
