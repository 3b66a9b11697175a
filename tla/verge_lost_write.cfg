CONSTANTS
    app = app
    session = session
    clash = clash
    f1 = f1
    f2 = f2
    Order <- MCOne
    Fields = {f1, f2}
    Coupled = {}
    Routes = {"effects"}
    MaxWrites = 3
    MaxOps = 1
    MaxFailures = 0
    MaxCrashes = 0
SPECIFICATION Spec
PROPERTIES
    MutationKeepsOthers
CHECK_DEADLOCK FALSE
