SPECIFICATION FairSpec
CONSTANTS
    w1 = w1
    r1 = r1
    Writers <- OneWriter
    Readers <- OneReader
    Bytes = {0, 1}
    PIPESIZE = 2
    W = 4
    MaxN = 3
    NoProc = NoProc
INVARIANTS
    PipeIsSound
PROPERTIES
    IsByteStream
    CallsReturn
