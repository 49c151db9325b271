SPECIFICATION FairSpec
CONSTANTS
    c1 = c1
    c2 = c2
    CPUs <- OneCPU
    NPROC = 3
    MaxPid = 3
    NoCPU = NoCPU
PROPERTIES
    RunnableRuns
    OrphansAreReaped
    KilledWaiterExits
