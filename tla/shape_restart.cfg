CONSTANTS
    Rows = {1}
    Contents <- Orders1
    Requests = {r1, r2}
    r1 = r1  r2 = r2
    Clients = {sync}
    Sync = sync
    sync = sync
    pending = pending  paid = paid
    MaxHandles = 2
    MaxWrites = 1
    MaxFaults = 1
    Faults = {"restart"}
    PageSize = 1
    Direct = TRUE
    Workers = 2
    Retention = 0
    None = None
SPECIFICATION Spec
INVARIANTS UpToDateMeansCurrent
CHECK_DEADLOCK FALSE
