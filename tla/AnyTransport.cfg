SPECIFICATION AnyFairSpec
CONSTANTS
  c1 = c1
  rx = rx
  tx = tx
  MaxOpens = 2
  MaxMessages = 3
  Setups <- MCSetups
  Callers = {c1}
  SendRetries = 1
  SocketTasks = {rx, tx}
  Direction <- MCDirection
  SocketFrames = 2
  SendRoom = 1
INVARIANTS
  AnyTypeOK
  NoStrayCalls
  NothingSleeps
  EveryMessageIsKept
  NothingLeaks
PROPERTIES
  CloseReturns
  RecvHearsClose
  ClosedIsFinal
CHECK_DEADLOCK FALSE
