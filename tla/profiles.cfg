SPECIFICATION Spec
CONSTANTS
  c1 = c1
  c2 = c2
  t1 = t1
  u1 = u1
  u2 = u2
  NoUid = NoUid
  ConfigUids = {c1, c2}
  TransformUids = {t1}
  Urls = {u1, u2}
  Intervals = {1, 2}
  AddDefinitions <- MCDefinitions
  StartDocuments <- MCDocuments
  MaxRevision = 3
  MaxTarget = 2
  MaxImports = 1
INVARIANTS DocumentValid FilesBelong SchedulesMatch ExternalFresh RefreshOwned
PROPERTIES RebuildAsked
CHECK_DEADLOCK FALSE
