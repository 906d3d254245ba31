CONSTANTS
  n1 = n1  n2 = n2  n3 = n3
  Nodes = {n1, n2, n3}
  Hash <- MCHash
  WorkType = "EcSigning"
  Threshold = 1
  Presigns <- MCPresigns
  LeaderTimeout = 2
  MemberTimeout = 1
SPECIFICATION FairSpec
INVARIANTS Agreement GroupIsAble BlockedBounded
PROPERTIES ImplementsSelection NoNeedlessFailure EveryoneDecides
CHECK_DEADLOCK FALSE
