CONSTANTS
    n1 = n1  n2 = n2  a = a  b = b  cfg = cfg  other = other
    Nodes = {n1}
    Wal <- WalFaults
    Tables = {a, b, cfg, other}
    Infra = {cfg}
    Unconfigured = {other}
    Cap = 1
    Tasks = {1, 2}
    Faults = {"tailer_crash", "node_crash", "supervisor_crash", "worker_error", "sweep_error", "lookup_error", "db_error"}
    MaxConnects = 2
    None = None
SPECIFICATION Spec
INVARIANTS TypeOK SemaphoreExact AcksKept
CHECK_DEADLOCK FALSE
