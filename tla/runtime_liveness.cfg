SPECIFICATION FairSpec
CONSTANTS
    p1 = p1
    Clients = {p1}
    Worker = Worker  Boot = Boot
    meta = meta
    Cores = {meta}  FirstCore = meta
    Ops = {"patch"}
    Outside = {"restart", "recover"}
    Faults = {"readback", "save"}
    MaxProf = 2  MaxMode = 1  MaxOps = 1
    MaxFailures = 1  MaxCrashes = 0  MaxOutside = 1
PROPERTY EveryoneReturns
PROPERTY ProfilesReach
CHECK_DEADLOCK FALSE
