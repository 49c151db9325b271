SPECIFICATION Spec
CONSTANTS
    NPAGES = 17
    PGSIZE = 2
    NPTENTRIES = 2
    UPDES = 2
    NPROC = 2
    NFILE = 3
    NOFILE = 2
    WORD = 64
    Brks <- MCBrks
    Programs <- MCPrograms
    FailSets <- MCFailSets
INVARIANTS
    PagesAccounted
    SizeIsMapped
    FilesCounted
PROPERTIES
    FailedCallsUndo
