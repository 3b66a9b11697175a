SPECIFICATION DesktopSpec
CONSTANTS
    p1 = p1
    p2 = p2
    old = old
    new = new
    other = other
    mine = mine
    absent = absent
    Paths = {p1, p2}
    Contents = {old, new, other}
    Links = {other}
    First = old
    Start = p1
    Mine = mine
    Absent = absent
    Ids = {1, 2, 3}
    Platforms = {TRUE, FALSE}
    Troubles = {"fault", "crash"}
    LateFaults = FALSE
    MaxRev = 2
    MaxFaults = 1
    MaxCrashes = 2
    MaxEdits = 1
    MmDisks <- MCDisks
    MmMaxFaults = 2
    MmMaxCrashes = 1
    MmMaxStarts = 3
    KvWebKeys = {"web"}
    KvInnerKeys = {"hotkeys"}
    KvWebValues = {"a"}
    NoValue = NoValue
    KvCapacity = 2
    KvMaxCommits = 3
    HkKeys = {"k1", "k2"}
    HkBadKey = "bad"
    HkFuncs = {"f", "g"}
    HkOddFunc = "odd"
    HkLists <- MCHotkeyLists
    HkLegacy <- MCLegacyHotkeys
    HkMaxStarts = 2
    TpAnswers <- MCAnswers
    TpModes = {"rule", "global"}
    TpCallers = {"loop", "command"}
    TpTasks = {"t1"}
    TpMaxChanges = 2
    LiLevels = {"info", "warn"}
    LiTargets = {"a", "b"}
    LiStamps = {1, 2}
    LiQueries <- MCQueries
    LiMaxLines = 3
    AlProcs = {1, 2}
    AlPlatforms = {"unix", "windows"}
    AlMaxFails = 1
INVARIANTS
    Settled
    MmUserDataKept
    HkSettled
    TpTraySound
    LiQueryFaithful
    AlNothingLost
PROPERTIES
    EditsKept
    JournalsDrain
CONSTRAINT MCDesktopBounds
CHECK_DEADLOCK FALSE
