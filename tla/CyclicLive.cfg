SPECIFICATION FairCyclicSpec

CONSTANTS
  Callers = {c1}
  MaxItems = 1
  Capacity = 1
  AddSlots = 1
  Periods = {1, 2}
  Configs <- MCConfigs
  MaxBurst = 2
  CompactFactor = 1
  CompactSlack = 1
  CountMax = 9
  LastInstant = 9
  MaxTime = 2
  MaxCalls = 2

PROPERTIES
  CallsTakeEffect

CHECK_DEADLOCK FALSE
