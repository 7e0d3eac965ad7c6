SPECIFICATION Spec
CONSTANTS
    c1 = c1
    c2 = c2
    c3 = c3
    Calls <- MCCalls
    NoCall = NoCall
    Torn = Torn
    NoProc = NoProc
    MaxProcs = 2
INVARIANT ServingKeepsWorkerAlive
