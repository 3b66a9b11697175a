SPECIFICATION Spec
CONSTANTS
  PsValues = {d, a, x}
  PsDefault = d
  PsUnbuildable = {x}
  PsWriters = {w1, w2}
  SoPorts = {p1, p2}
  SoUserPort = u
  SoTasks = {t1, t2}
  CcKinds = {conn, mem}
  CcConnections = conn
  CcStreams = {s1, s2, s3}
  CcReports <- MCReports
  CcLimit = 1
  CcMaxReport = 50
  CcMaxBox = 2
  CcMaxTimers = 1
  MgSteps <- MCSteps
  MgIntroduced <- MCIntroduced
  MgTargets = {1, 2}
  TsSlots = {r1, r2}
  TsKeep = 1
  TsMaxIds = 3
  TsMaxList = 3
  CuCores = {c1, c2}
  CuFirst = c1
  CuReleases = 2
  CuUpdaters = {u1, u2}
  PlFiles = {"f1", "f2"}
  PlComposition = "comp"
  PlTransforms = {"t1", "t2"}
  PlProfiles <- MCProfiles
  PlRaw <- MCRaw
  PlOverlays <- MCOverlays
  PlBuiltins = 1
  WdVariants = {"large", "small"}
  WdProcs = {1, 2, 3}
  WdMaxFails = 1
  WdBuffer = 2
INVARIANTS PsDurable SoGuarded CcStreamKept MgNoneSkipped CuUpdatesSound PlBuildSound
           WdNoneLeftOver
CHECK_DEADLOCK FALSE
CONSTRAINT MCBounds
