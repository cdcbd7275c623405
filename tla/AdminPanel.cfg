CONSTANTS
  MaxClients = 2
  MaxGroups = 2
  MaxItems = 2
  Names = {n1, n2}
  None = None
  Tours <- SafetyTours
  MaxFills = 2
  MaxLabels = 2
SPECIFICATION Spec
INVARIANTS TypeOK OneSubmission EditFormSettles QuietMeansFresh
PROPERTIES DeleteOnlyConfirmed
