\* Does a client stay in the file until it is removed?
CONSTANTS
  Procs = {p1}
  Names = {n}
  Ops = {"add"}
  MaxOctet = 2
  MaxIds = 1
  MaxStat = 0
  None = None
SPECIFICATION Spec
PROPERTY AddedClientKept
