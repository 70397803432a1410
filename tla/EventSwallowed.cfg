SPECIFICATION AnySpec
CONSTANTS
  c1 = c1
  rx = rx
  tx = tx
  MaxOpens = 2
  MaxMessages = 4
  Setups <- OddSetups
  Callers = {c1}
  SendRetries = 1
  SocketTasks = {rx, tx}
  Direction <- MCDirection
  SocketFrames = 2
  SendRoom = 1
INVARIANTS
  NothingSleeps
CHECK_DEADLOCK FALSE
