CONSTANTS
    n1 = n1  n2 = n2  a = a  b = b  cfg = cfg  other = other
    Nodes = {n1}
    Wal <- WalTwo
    Tables = {a, b, cfg, other}
    Infra = {cfg}
    Unconfigured = {other}
    Cap = 2
    Tasks = {1, 2}
    Faults = {}
    MaxConnects = 1
    None = None
SPECIFICATION Spec
INVARIANTS ConfirmedAreHandled
CHECK_DEADLOCK FALSE
