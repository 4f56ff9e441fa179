SPECIFICATION LiveSpec
CONSTANTS
  None = None
  Foreign = Foreign
  w1 = w1
  u1 = u1
  all = all
  r1 = r1
  p1 = p1
  Buffer = 2
  Pipe = 1
  MaxPCM = 4
  Entries = {1, 2}
  MaxRetries = 1
  Conns = {1, 2}
  MaxClients = 1
  QueueChunks = 2
  Password = TRUE
  MaxChunks = 3
INVARIANTS StopHolds NothingStranded ClientsStayCurrent FileComplete
PROPERTIES StopsReturn Recovers ClosesEnd FinishEnds EventuallyDelivered
CHECK_DEADLOCK FALSE
