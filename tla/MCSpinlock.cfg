SPECIFICATION Spec
CONSTANTS
    c1 = c1
    c2 = c2
    t1 = t1
    t2 = t2
    CPUs <- MCCPUs
    Threads <- MCThreads
    NLocks = 2
    PTable = 1
    MaxDepth = 3
    NoCPU = NoCPU
SYMMETRY Symmetry
INVARIANTS
    LockDiscipline
    InterruptFlagRestored
