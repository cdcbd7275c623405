\* The client's window is 2 counters and looks 2 ahead, with 4 counters per
\* key and three time windows.  The server's is 3, refreshed every 2, with 4
\* counters of the ratcheted key, one new time window and one change of
\* endpoint, whose ports belong to different workers.  Words have 4 bits.
CONSTANTS
  ReorderWindow = 2
  FutureWindow = 2
  MaxCounter = 3
  MaxClock = 2
  TagWindow = 3
  RefreshEvery = 2
  RecoveryRange = 3
  Workers = {0, 1}
  Endpoints = {1, 2}
  IpOf <- OneIp
  WorkerOf <- PortModulo
  Home = 1
  MaxInit = 1
  MaxCtr = 3
  MaxTw = 1
  MaxMoves = 1
  Half = 4
SPECIFICATION WindowsSpec
INVARIANTS
  IInv AtMostOnce NoFalseReplay
  SessInv ReplayRefused FastPathHeadroom FreshAccepted
  BitsExact
