CONSTANTS
  NULL = NULL
  NONE = NONE
  p1 = p1  p2 = p2
  n1 = n1  n2 = n2
  a1 = a1
  b1 = b1
  g1 = g1  g2 = g2
  m1 = m1
  e1 = e1  e2 = e2
  rise = rise  fall = fall
  SCB = {p1, p2, n1, n2}
  Blocks <- TwoProcesses
  NET = {n1, n2}
  ASSIGN = {}
  GATE = {}
  MONITOR = {m1}
  EVENT = {e1, e2}
  VALUE = {rise, fall}
  NetDelay <- Delay0
  AssignDelay <- AssignUp
  Fanout <- FullFanout
  DELAYS = {0, 1}
  MaxTime = 2
  MaxSteps = 3
SPECIFICATION FairSpec
INVARIANTS
  ListsConsistent
PROPERTIES
  AdvanceWhenOver
  NoTurnLost
  AppendsInOrder
  ReadyRuns
  Ends
