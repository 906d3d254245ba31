SPECIFICATION Spec
CONSTANTS
  p1 = p1  p2 = p2
  WorkType = "EcSigning"
  BatchSize = 1
  HasPresign = FALSE
  Peers = {p1}
INVARIANT AllMessagesSent
CHECK_DEADLOCK FALSE
