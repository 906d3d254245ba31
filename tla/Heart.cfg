SPECIFICATION Spec
CONSTANTS
  k1 = k1  k2 = k2  s1 = s1
  Keygens = {k1, k2}
  Keysigns = {s1}
  Algo <- MCAlgo
  MaxSubmits <- MCMaxSubmits
  MaxCalls = 4
  MaxCrashes = 1
INVARIANTS PostedKeyIsStored RequestAttached EcAccountedFor 
CHECK_DEADLOCK FALSE
