SPECIFICATION FairSpec
CONSTANTS
    p1 = p1
    p2 = p2
    Readers <- TwoReaders
    Letters = {"x"}
    INPUT_BUF = 3
    W = 6
    MaxN = 2
    NoProc = NoProc
INVARIANTS
    InputIsSound
PROPERTIES
    DeliversLines
    SleepersWake
