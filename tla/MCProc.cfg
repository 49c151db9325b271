SPECIFICATION Spec
CONSTANTS
    c1 = c1
    c2 = c2
    CPUs <- TwoCPUs
    NPROC = 3
    MaxPid = 4
    NoCPU = NoCPU
SYMMETRY Symmetry
INVARIANTS
    TableIsSound
    NothingIsMissed
