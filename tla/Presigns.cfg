SPECIFICATION FairSpec
CONSTANTS
  i1 = i1  i2 = i2  i3 = i3
  g1 = g1  g2 = g2
  c1 = c1  c2 = c2  c3 = c3
  Ids = {i1, i2, i3}
  Groups = {g1, g2}
  GroupOf <- MCGroupOf
  Calls = {c1, c2, c3}
  BatchSize <- MCBatchSize
INVARIANTS HandedOutOnce MemoryMatchesDb
PROPERTY CallsReturn
