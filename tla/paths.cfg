CONSTANTS
  NONE = NONE
  a = a  b = b  g1 = g1  g2 = g2  n3 = n3  m = m  k = k  n1 = n1  as = as
  INPUT = {a, b}
  NET = {n3, m, k, n1}
  GATE = {g1, g2}
  Drivers <- DriversOf
  Ports <- PortsOf
  PATH <- InOrder
  Paths <- ThePaths
  Delays <- TheDelays
  VALUE = {0, 1}
  GateDelays = {0, 1}
  MaxStore = 2
  MaxTime = 6
SPECIFICATION FairSpec
INVARIANTS
  PathSound
  XPessimism
PROPERTIES
  LatestWins
  ImplementsLine
  Settles
CHECK_DEADLOCK FALSE
