SPECIFICATION FairSpec
CONSTANTS
  SCB = {s1, s2, s3, s4, s5, s6}
  CONTEXT = {c1, c2, c3, c4, c5, c6, c7, c8, c9}
  TOP = TOP
  NULL = NULL
  Programs <- Handled
INVARIANTS
  ProcessesConsistent
  NoFault
PROPERTIES
  BystandersKept
  TaskCallsHonoured
  JoinsEnd
