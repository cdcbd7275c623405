\* A network that loses datagrams and lets them overtake one another, server restarts, rekeys,
\* traffic towards the client.
CONSTANTS
  Downlink = TRUE
  MaxConn = 7
  MaxSessions = 16
  MaxInFlight = 3
  MaxFaults = 4
SPECIFICATION Spec
INVARIANTS RatchetAgreement IInv
PROPERTIES Recovery
