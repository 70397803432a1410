SPECIFICATION RuntimeSpec

CONSTANTS
  MaxAttempts = Unlimited
  Unlimited = Unlimited
  AttemptMax = 1
  MaxOpens = 2
  QueueBound = 1
  Policies = {"Hold", "FailFast"}
  Closers = {}
  Filters = {f1}
  Rejected = {}
  Asked = {}
  Handles = {"link"}
  Droppable = {}
  HealthCheck = FALSE
  Silence = FALSE
  Losable = {"tx"}
  Capacity = 1
  RetryLimit = 0
  Senders = {s1}
  MaxFrames = 2
  TxMayPanic = TRUE

INVARIANTS
  RuntimeTypeOK
  WaitFindsChange
  GateHasTransport

PROPERTIES
  ExpiredIsNotTaken
  ImplementsFrameQueue

CHECK_DEADLOCK FALSE
