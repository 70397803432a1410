SPECIFICATION CyclicSpec

CONSTANTS
  Callers = {c1}
  MaxItems = 2
  Capacity = 1
  AddSlots = 1
  Periods = {1, 2}
  Configs <- MCConfigs
  MaxBurst = 1
  CompactFactor = 1
  CompactSlack = 1
  CountMax = 2
  LastInstant = 3
  MaxTime = 2
  MaxCalls = 2

INVARIANTS
  CyclicTypeOK
  UpdateIsEscorted
  DeadlinesAreKept
  EverythingIsCounted

CHECK_DEADLOCK FALSE
