\* Two clients, nothing fails: a profile is edited between its probe and its activation.
SPECIFICATION Spec
CONSTANTS
    Ids = {i1, i2}
    NoId = NoId
    Servers = {alive, dead}
    Reachable = {alive}
    EnvServer = env
    Clients = {c1, c2}
    Faults = {}
PROPERTY
    ActivatedServerAnswers
