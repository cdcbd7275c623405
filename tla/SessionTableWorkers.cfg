\* Two workers, two clients on two public addresses, with and without a client
\* database.
CONSTANTS
  Workers = {w1, w2}
  NumClients = 2
  Modes = {TRUE, FALSE}
  IPs = {a, b}
  MaxPerIp = 2
  MaxVpnIp = 2
  MaxSessions = 3
  MaxIds = 3
  MaxHandshakes = 3
  None = None
SPECIFICATION BoundedSpec
SYMMETRY WorkerAndIpSymmetry
INVARIANTS IInv NoLeakedAttempt RoutedToOwner
PROPERTY OtherClientsUntouched
