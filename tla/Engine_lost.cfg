SPECIFICATION Spec
CONSTANTS
  k1 = k1  k2 = k2  s1 = s1
  m1 = m1
  p1 = p1
  t1 = t1  t2 = t2  t3 = t3
  None = None
  Works = {k1, k2, s1}
  WorkType <- MCWorkType
  Threads = {t1, t2, t3}
  MaxWorker = 1
  MaxSubmits = 1
  Peers = {p1}
  Parties <- MCParties
  Msgs = {m1}
  WorkOf <- MCWorkOf
  From <- MCFrom
PROPERTIES OnlyPopRemoves
CHECK_DEADLOCK FALSE
