SPECIFICATION FairReceptionSpec
CONSTANTS
  MaxPermits = 2
  Ids = {1, 2}
  s1 = s1
  s2 = s2
  t1 = t1
  t2 = t2
  Subscribers = {s1, s2}
  SubscribeConfigs <- MCSubscribeConfigs
  MaxSeconds = 2
  Requests = {t1, t2}
  ResponseSpecs <- MCResponseSpecs
  MaxInFlight = 1
  ResponseBuffer = 1
  Setups <- MCSetups
INVARIANTS
  ReceptionTypeOK
  SlotIsEscorted
  SleeperIsWoken
  FramesAreAccounted
  FramesKeepOrder
  AnswersHaveNoGap
PROPERTIES
  SubscribeReturns
  LossIsHeard
CHECK_DEADLOCK FALSE
