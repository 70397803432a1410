SPECIFICATION SupervisorFairSpec

CONSTANTS
  MaxAttempts = Unlimited
  Unlimited = Unlimited
  AttemptMax = 1
  MaxOpens = 1
  QueueBound = 2
  Policies = {"Hold"}
  Closers = {c1}
  Filters = {f1}
  Rejected = {}
  Asked = {}
  Handles = {"link", "subscription", "pending"}
  Droppable = {"link", "subscription", "pending"}
  HealthCheck = FALSE
  Silence = FALSE
  Losable = {}

PROPERTIES
  CloseCompletes
  HandlesGoneEnds

CHECK_DEADLOCK FALSE
