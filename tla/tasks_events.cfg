SPECIFICATION TsSpec
CONSTANTS
  TsSlots = {r1, r2}
  TsKeep = 1
  TsMaxIds = 3
  TsMaxList = 3
INVARIANT TsListed
