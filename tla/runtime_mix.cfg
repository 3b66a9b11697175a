SPECIFICATION Spec
CONSTANTS
    p1 = p1  p2 = p2
    Clients = {p1, p2}
    Worker = Worker  Boot = Boot
    meta = meta  rs = rs
    Cores = {meta, rs}  FirstCore = meta
    Ops = {"rebuild", "apply_legacy", "restart_legacy", "change_core", "patch"}
    Outside = {}
    Faults = {"build", "api", "start", "restore"}
    MaxProf = 1  MaxMode = 2  MaxOps = 3
    MaxFailures = 4  MaxCrashes = 1  MaxOutside = 1
SYMMETRY ClientSymmetry
CONSTRAINT MCBounds
INVARIANT SwitchAlone
INVARIANT SnapshotsTrue
CHECK_DEADLOCK FALSE
