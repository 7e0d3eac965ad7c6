\* Two clients; every kind of failure.
SPECIFICATION Spec
CONSTANTS
    Ids = {i1, i2}
    NoId = NoId
    Servers = {alive, dead}
    Reachable = {alive}
    EnvServer = env
    Clients = {c1, c2}
    Faults = {"db", "build", "crash"}
SYMMETRY IdSymmetry
INVARIANTS
    OneActiveProfile
    OnlyProbedProfilesServe
