\* Two workers beside the cleanup task and two clients behind one address, with
\* a client database.
CONSTANTS
  Workers = {w1, w2}
  NumClients = 2
  Modes = {TRUE}
  IPs = {a}
  MaxPerIp = 3
  MaxVpnIp = 2
  MaxSessions = 3
  MaxIds = 3
  MaxHandshakes = 3
  None = None
SPECIFICATION BoundedSpec
INVARIANT OwnersRouted
