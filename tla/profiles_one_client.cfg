\* One client: requests do not overlap; every kind of failure.
SPECIFICATION Spec
CONSTANTS
    Ids = {i1, i2, i3}
    NoId = NoId
    Servers = {alive, dead}
    Reachable = {alive}
    EnvServer = env
    Clients = {c1}
    Faults = {"db", "build", "crash"}
INVARIANTS
    TypeOK
    BoundProfileExists
    RecordAgrees
PROPERTIES
    ActivatedServerAnswers
    CompletedActivationHeals
    ServingKept
