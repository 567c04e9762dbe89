CONSTANTS
    k1 = k1  k2 = k2  k3 = k3
    Keys = {k1, k2, k3}
    KeyOrder <- Order3
    None = None
    Sizes = {1, 2}
    Cap = 3
    Events = {"set_persist", "delete", "write_error", "flush", "ttl", "restart"}
    MaxWrites = 5
SPECIFICATION Spec
INVARIANTS IndexAgrees BytesExact
PROPERTIES PutKeepsCap EvictsOldest
CHECK_DEADLOCK FALSE
