SPECIFICATION FairSpec
CONSTANTS
  n1 = n1  n2 = n2
  Nodes = {n1, n2}
  WorkType = "EdSigning"
  Presigned = FALSE
  MaxTypes = 3
  SizePerNode = 1
  MaxLost = 1
  Hasty = {}
PROPERTY Recovers
CHECK_DEADLOCK FALSE
