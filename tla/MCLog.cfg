SPECIFICATION FairSpec
CONSTANTS
    p1 = p1
    p2 = p2
    b1 = b1
    b2 = b2
    b3 = b3
    Procs <- MCProcs
    Blocks <- MCBlocks
    Vals <- MCVals
    LOGSIZE = 3
    NLog = 3
    NoProc = NoProc
    NotCached = NotCached
INVARIANTS
    OneTransaction
    ReadsSeeLatestWrite
    CommittedLogIsWhole
PROPERTIES
    HomeWritesAreCommitted
    ImplementsAtomicDisk
    LogProgresses
