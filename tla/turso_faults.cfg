CONSTANTS
    Rows = {1}
    Contents <- Orders2
    Requests = {r1, r2}
    r1 = r1  r2 = r2
    Clients = {sync}
    Sync = sync
    sync = sync
    pending = pending  paid = paid
    MaxHandles = 2
    MaxWrites = 2
    MaxFaults = 1
    Faults = {"restart", "delete", "snapshot", "lag", "coalesce", "crash", "disconnect"}
    PageSize = 1
    Direct = FALSE
    Workers = 2
    Retention = 2
    None = None
SPECIFICATION Spec
INVARIANTS   NoLostWakeup
SYMMETRY Symmetry
CHECK_DEADLOCK FALSE
