CONSTANTS
  NULL = NULL
  s1 = s1  v1 = v1  v2 = v2  m1 = m1  m2 = m2  f1 = f1
  k1 = k1  k2 = k2  k3 = k3
  STROBE = {s1, v1, v2}
  MONITOR = {m1, m2}
  INSTANCE_PLI = {f1}
  NODE = {k1, k2}
  MaxQueue = 2
  DUMPVARS = {v1, v2}
  SCOPE <- Blocks
  DECL <- Variables
  Module <- Instances
  Tops <- Top
  Down <- Within
  Decls <- Declares
  Args <- TwoCalls
SPECIFICATION DumpSpec
INVARIANTS
  QueuesSound
  FileIsCurrent
PROPERTIES
  HeaderReadsBack
  NextPass
