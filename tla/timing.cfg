CONSTANTS
  NULL = NULL
  d = d  ck = ck
  su = su  ho = ho  wi = wi  pe = pe  sk = sk  re = re  sh = sh
  r1 = r1  r2 = r2
  DECL = {d, ck}
  Width <- Widths
  STATEMENT = {su, ho, wi, pe, sk, re, sh}
  Stmt <- AllKinds
  REG = {r1, r2}
  Limits <- FirstLimits
  NewLimits <- LaterLimits
  Stored <- Vectors
  MaxTime = 3
  MaxPasses = 3
SPECIFICATION Spec
INVARIANTS
  ChecksSound
  ReportsViolations
  NoticeStays
  TogglesCounted
CHECK_DEADLOCK FALSE
