SPECIFICATION SoSpec
CONSTANTS
  SoPorts = {p1, p2}
  SoUserPort = u
  SoTasks = {t1, t2}
INVARIANT SoOriginalRecorded
