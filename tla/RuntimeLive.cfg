SPECIFICATION RuntimeFairSpec

CONSTANTS
  MaxAttempts = Unlimited
  Unlimited = Unlimited
  AttemptMax = 1
  MaxOpens = 1
  QueueBound = 1
  Policies = {"Hold"}
  Closers = {}
  Filters = {f1}
  Rejected = {}
  Asked = {}
  Handles = {"link"}
  Droppable = {"link"}
  HealthCheck = FALSE
  Silence = FALSE
  Losable = {"tx"}
  Capacity = 1
  RetryLimit = 0
  Senders = {s1}
  MaxFrames = 1
  TxMayPanic = TRUE

PROPERTIES
  FramesAreAnswered
  KeepsContracts

CHECK_DEADLOCK FALSE
