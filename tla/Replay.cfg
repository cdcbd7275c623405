\* One endpoint, so that all datagrams are handled by one worker, in turn.
CONSTANTS
  ReorderWindow = 2
  FutureWindow = 3
  MaxCounter = 0
  MaxClock = 0
  TagWindow = 3
  RefreshEvery = 2
  RecoveryRange = 3
  Workers = {0, 1}
  Endpoints = {1}
  IpOf <- OneIp
  WorkerOf <- PortModulo
  Home = 1
  MaxInit = 1
  MaxCtr = 3
  MaxTw = 1
  MaxMoves = 0
  Half = 4
SPECIFICATION WindowsSpec
PROPERTY NoReplay
