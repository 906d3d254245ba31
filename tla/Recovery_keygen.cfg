SPECIFICATION FairSpec
CONSTANTS
  n1 = n1  n2 = n2
  Nodes = {n1, n2}
  WorkType = "EcKeygen"
  Presigned = FALSE
  MaxTypes = 4
  SizePerNode = 1
  MaxLost = 4
  Hasty = {n1, n2}
INVARIANTS OwnMessagesAnswerable StuckIsAsked
PROPERTY Recovers
CHECK_DEADLOCK FALSE
