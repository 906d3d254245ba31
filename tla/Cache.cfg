SPECIFICATION Spec
CONSTANTS
  a1 = a1  a2 = a2  a3 = a3  a4 = a4  a5 = a5  b1 = b1
  s1 = s1  s2 = s2  w1 = w1  w2 = w2
  Nil = Nil
  Msgs = {a1, a2, a3, a4, a5, b1}
  Works = {w1, w2}
  WorkOf <- MCWorkOf
  Senders = {s1, s2}
  From <- MCFrom
  MaxMessagePerNode = 4
  MaxPops = 2
PROPERTIES ImplementsCache LossOnlyAtLimitOrShared
CHECK_DEADLOCK FALSE
