SPECIFICATION Spec
CONSTANTS
    Procs = {p1, p2}
    NoProc = NoProc
    Entries = {"a", "b"}
    Calls <- MCCalls
    ninodes = 4
SYMMETRY Symmetry
INVARIANT
    WritesAreInTransactions
