CONSTANTS
    app = app
    session = session
    clash = clash
    f1 = f1
    f2 = f2
    Order <- MCThree
    Fields = {f1, f2}
    Coupled = {app}
    Routes = {"pure", "effects", "replace"}
    MaxWrites = 2
    MaxOps = 1
    MaxFailures = 2
    MaxCrashes = 1
    ScSlots = {"c1"}
    ScCheckers = {1, 2}
    ScMaxOps = 2
    ScMaxFails = 1
    SpFields = {"mixed", "external"}
    SpPorts = {1, 2, 3, 4}
    SpStrategies <- MCStrategies
    SpDefault = 1
    SpMaxOps = 3
    AwBases = {"main", "tray", "profile"}
    AwMaxAsks = 3
    AwMaxFails = 1
    AwMaxMoves = 2
SPECIFICATION SettingsSpec
CONSTRAINT MCSettingsBounds
INVARIANTS
    MirrorsAgree
    AnswerIsHonest
    LegacyFileCurrent
    ScCoreFollowsService
    SpPortsStay
    AwOpens
PROPERTIES
    SagaKeepsOthers
CHECK_DEADLOCK FALSE
