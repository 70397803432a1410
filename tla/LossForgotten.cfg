SPECIFICATION RuntimeFairSpec

CONSTANTS
  MaxAttempts = Unlimited
  Unlimited = Unlimited
  AttemptMax = 1
  MaxOpens = 2
  QueueBound = 1
  Policies = {"Hold"}
  Closers = {}
  Filters = {f1}
  Rejected = {}
  Asked = {}
  Handles = {"link"}
  Droppable = {}
  HealthCheck = FALSE
  Silence = FALSE
  Losable = {"tx"}
  Capacity = 1
  RetryLimit = 0
  Senders = {s1}
  MaxFrames = 1
  TxMayPanic = TRUE

PROPERTIES
  LossIsFinal

CHECK_DEADLOCK FALSE
