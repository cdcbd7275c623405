\* The first data of a connection overtakes a retry of its handshake.
CONSTANTS
  Downlink = FALSE
  MaxConn = 4
  MaxSessions = 8
  MaxInFlight = 3
  MaxFaults = 1
SPECIFICATION Spec
PROPERTIES RetryKeepsSession
