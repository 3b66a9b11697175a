CONSTANTS
    req = req
    adv = adv
    a = a
    b = b
    Subs <- MCOne
    Required <- MCRequired
    Values <- MCValues
    Strategy = "Sequential"
    Kinds = {"upsert_state", "effect", "effect_timeout", "if_version"}
    MaxVersion = 2
    MaxCancels = 2
    MaxForeign = 1
SPECIFICATION FairSpec
INVARIANTS
    ChangeIdInStep
PROPERTIES
    ImplementsCommitLog
    TimedWritesEnd
CHECK_DEADLOCK FALSE
