SPECIFICATION ReceptionSpec
CONSTANTS
  MaxPermits = 2
  Ids = {1, 2}
  s1 = s1
  s2 = s2
  t1 = t1
  t2 = t2
  Subscribers = {}
  SubscribeConfigs <- MCSubscribeConfigs
  MaxSeconds = 2
  Requests = {t1}
  ResponseSpecs <- WindowSpecs
  MaxInFlight = 1
  ResponseBuffer = 1
  Setups <- WindowSetups
INVARIANTS
  WindowIsComplete
CHECK_DEADLOCK FALSE
