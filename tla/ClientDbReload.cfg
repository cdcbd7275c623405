\* Additions and removals: does every client in the file reach the server?
CONSTANTS
  Procs = {p1}
  Names = {m, n}
  Ops = {"add", "remove"}
  MaxOctet = 2
  MaxIds = 2
  MaxStat = 0
  None = None
SPECIFICATION Spec
PROPERTY HotReload
