CONSTANTS
    k1 = k1  k2 = k2  k3 = k3  r1 = r1  c1 = c1  c2 = c2
    Keys = {k1}
    Rows = {r1}
    Inserted = Inserted
    None = None
    RowsOf <- RowsOfAll
    ListKeys = {}
    TtlKeys = {}
    Clients = {c1, c2}
    KeysOf <- AllKeys
    Ops = {"put", "invalidate", "evict", "stop", "disk_error"}
    Persist = {FALSE}
    PutCaps = {1}
    InstanceCap = 1
    MaxVersion = 2
    CountSlack = 1
SPECIFICATION Spec
INVARIANTS DiskCovered DiskStaleOnlyByRace
