SPECIFICATION FairSpec
CONSTANTS
    p1 = p1
    p2 = p2
    s1 = s1
    s2 = s2
    s3 = s3
    s4 = s4
    v1 = v1
    v2 = v2
    Procs <- TwoProcs
    Sectors <- ThreeSectors
    Vals <- TwoVals
    NBUF = 2
    MaxPinned = 1
    FaultyDisk = FALSE
    NoProc = NoProc
    NoSector = NoSector
    NoData = NoData
INVARIANTS
    CacheIsSound
PROPERTIES
    ImplementsBlockStore
    WaitsEnd
