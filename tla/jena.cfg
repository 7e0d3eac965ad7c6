SPECIFICATION Spec
CONSTANTS
    t1 = t1
    t2 = t2
    Threads <- MCThreads
    NoProc = NoProc
    MaxProcs = 3
    MaxCalls = 2
    MaxStray = 1
INVARIANTS TypeOK CallerInStep OneRunner
PROPERTY EveryCallEnds
