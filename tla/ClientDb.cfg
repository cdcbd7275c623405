\* The panel's operations one at a time beside the server, its restarts included.
CONSTANTS
  Procs = {p1}
  Names = {m, n}
  Ops = {"create", "delete", "rename", "toggle"}
  MaxOctet = 2
  MaxIds = 2
  MaxStat = 1
  None = None
SPECIFICATION Spec
SYMMETRY RequestAndNameSymmetry
INVARIANTS UniqueAddresses IInv
PROPERTY StatsKept
\* The server does not start from a file that does not parse: it may stop for good.
CHECK_DEADLOCK FALSE
