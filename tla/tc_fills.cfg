CONSTANTS
    k1 = k1  k2 = k2  k3 = k3  r1 = r1  c1 = c1  c2 = c2
    Keys = {k1}
    Rows = {r1}
    Inserted = Inserted
    None = None
    RowsOf <- RowsOfLists
    ListKeys = {k1}
    TtlKeys = {}
    Clients = {c1, c2}
    KeysOf <- AllKeys
    Ops = {"get", "put", "invalidate", "flush", "evict"}
    Persist = {FALSE}
    PutCaps = {1}
    InstanceCap = 1
    MaxVersion = 2
    CountSlack = 1
SPECIFICATION Spec
INVARIANTS TypeOK DiskCovered DiskStaleOnlyByRace CopiesStaleOnlyByRace
