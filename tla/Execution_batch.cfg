SPECIFICATION FairSpec
CONSTANTS
  p1 = p1  p2 = p2
  WorkType = "EdSigning"
  BatchSize = 2
  HasPresign = FALSE
  Peers = {p1}
INVARIANTS
  OutcomeUnderWay ReportsOnce SuccessIsWhole NoMessageForgotten SentIsWhole AllMessagesSent
PROPERTY ExecutionReports
CHECK_DEADLOCK FALSE
