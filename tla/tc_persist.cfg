CONSTANTS
    k1 = k1  k2 = k2  k3 = k3  r1 = r1  c1 = c1  c2 = c2
    Keys = {k1, k2, k3}
    Rows = {r1}
    Inserted = Inserted
    None = None
    RowsOf <- RowsOfAll
    ListKeys = {}
    TtlKeys = {}
    Clients = {c1, c2}
    KeysOf <- OwnKeys
    Ops = {"put", "delete", "set_persist", "invalidate"}
    Persist = {TRUE, FALSE}
    PutCaps = {1, 2}
    InstanceCap = 2
    MaxVersion = 1
    CountSlack = 1
SPECIFICATION Spec
INVARIANTS PersistWithinCap CountCoversPersisted
