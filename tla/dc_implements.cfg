CONSTANTS
    k1 = k1  k2 = k2  k3 = k3
    Keys = {k1, k2}
    KeyOrder <- Order2
    None = None
    Sizes = {1, 2}
    Cap = 2
    Events = {"set_persist", "delete", "write_error", "flush", "ttl", "restart", "vm_restart", "vm_crash"}
    MaxWrites = 3
SPECIFICATION Spec
PROPERTIES ImplementsDiskStore
CHECK_DEADLOCK FALSE
