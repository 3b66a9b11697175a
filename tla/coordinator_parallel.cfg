CONSTANTS
    req = req
    adv = adv
    a = a
    b = b
    Subs <- MCBoth
    Required <- MCRequired
    Values <- MCValues
    Strategy = "Parallel"
    Kinds = {"effect"}
    MaxVersion = 1
    MaxCancels = 1
    MaxForeign = 0
SPECIFICATION Spec
INVARIANTS
    TypeOK
    PermitTracksWriter
    OutcomeAgreement
    NoStrandedPrepare
PROPERTIES
    CommitNeedsRequiredAcks
SYMMETRY MCSymmetry
CHECK_DEADLOCK FALSE
