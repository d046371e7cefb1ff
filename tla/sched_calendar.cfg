CONSTANTS
  NULL = NULL
  NONE = NONE
  p1 = p1  p2 = p2
  n1 = n1  n2 = n2
  a1 = a1
  b1 = b1
  g1 = g1  g2 = g2
  m1 = m1
  e1 = e1  e2 = e2
  rise = rise  fall = fall
  SCB = {p1, n1, a1, b1}
  Blocks <- OneProcess
  NET = {n1}
  ASSIGN = {a1}
  GATE = {g1, g2}
  MONITOR = {m1}
  EVENT = {}
  VALUE = {rise, fall}
  NetDelay <- DelayUp
  AssignDelay <- AssignUp
  Fanout <- OtherFanout
  DELAYS = {0, 1, 2}
  MaxTime = 2
  MaxSteps = 3
SPECIFICATION Spec
INVARIANTS
  PlansAhead
PROPERTIES
  RunsInDueOrder
  FinalIsLast
