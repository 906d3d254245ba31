SPECIFICATION FairSpec
CONSTANTS
  m1 = m1  m2 = m2  m3 = m3
  Nobody = Nobody
  Msgs = {m1, m2, m3}
  Window = 2
  MaxBreaks = 1
INVARIANTS FramesWhole NoWriterStuck
PROPERTIES WrittenIsDelivered WritersReturn
CHECK_DEADLOCK FALSE
