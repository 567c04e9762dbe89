CONSTANTS
    n1 = n1  n2 = n2  a = a  b = b  cfg = cfg  other = other
    Nodes = {n1}
    Wal <- WalFlow
    Tables = {a, b, cfg, other}
    Infra = {cfg}
    Unconfigured = {other}
    Cap = 1
    Tasks = {1, 2}
    Faults = {"tailer_crash", "db_error"}
    MaxConnects = 2
    None = None
SPECIFICATION FairSpec
INVARIANTS NothingForgotten ResumesWithoutGap
PROPERTIES EventuallyHandled EventuallyConfirmed
CHECK_DEADLOCK FALSE
