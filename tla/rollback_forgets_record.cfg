\* One client, and a rebind that fails (the crash only keeps a start without the store from being final): what the rollback leaves in the record.
SPECIFICATION Spec
CONSTANTS
    Ids = {i1, i2}
    NoId = NoId
    Servers = {alive, dead}
    Reachable = {alive}
    EnvServer = env
    Clients = {c1}
    Faults = {"build", "crash"}
PROPERTY
    RollbackRestoresRecord
