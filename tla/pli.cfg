CONSTANTS
  NULL = NULL
  STORE = STORE
  g1 = g1  g2 = g2  g3 = g3
  k1 = k1  k2 = k2  k3 = k3  k4 = k4  k5 = k5
  i1 = i1  i2 = i2
  b1 = b1  b2 = b2
  GATE = {g1, g2, g3}
  Simple <- SimpleGates
  NODE = {k1, k2, k3, k4, k5}
  DELAYS = {0, 2}
  W = 3
  MaxTime = 3
  Instance = {i1, i2}
  SCB = {b1, b2}
  LONGDELAYS <- LongDelays
  MaxPlanned = 3
SPECIFICATION PliSpec
INVARIANTS
  PointersSound
  DelaysKept
PROPERTIES
  ImplementsAgenda
  NextTimeIsTold
SYMMETRY Alike
CHECK_DEADLOCK FALSE
