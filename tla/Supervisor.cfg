SPECIFICATION SupervisorSpec

CONSTANTS
  MaxAttempts = 1
  Unlimited = Unlimited
  AttemptMax = 2
  MaxOpens = 2
  QueueBound = 1
  Policies = {"DropAll"}
  Closers = {c1}
  Filters = {f1, f2}
  Rejected = {f2}
  Asked = {f1, f2}
  Handles = {"link"}
  Droppable = {"link"}
  HealthCheck = TRUE
  Silence = TRUE
  Losable = {"supervisor", "tx", "cyclic"}

INVARIANTS
  OneLiveTransport
  QuietWindow
  EndIsAnnounced

PROPERTIES
  CloseAwaitsCleanup
  FilterIsReplayed
  ImplementsLifecycle

CHECK_DEADLOCK FALSE
