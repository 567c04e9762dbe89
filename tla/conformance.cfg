CONSTANTS
    Rows = {1, 2}
    Contents <- Items
    Requests = {r1, r2}
    r1 = r1  r2 = r2
    Clients = {"a", "b"}
    MaxHandles = 4
    MaxWrites = 4
    MaxFaults = 1
    Faults = {"coalesce"}
    PageSize = 3
    Direct = TRUE
    Workers = 1
    Retention = 0
    None = None
SPECIFICATION FairSpec
PROPERTIES SuiteEnds 
CHECK_DEADLOCK FALSE
