CONSTANTS
  NONE = NONE
  r1 = r1  r2 = r2  r3 = r3
  a = a  b = b  c = c
  g1 = g1  g2 = g2  g3 = g3
  REG = {r1, r2, r3}
  NETS = {a, b, c}
  GATE = {g1, g2, g3}
  Designs <- AllDesigns
  MaxTime = 2
SPECIFICATION Spec
INVARIANTS
  GatesSound
  SettledIsConsistent
  SidesAgree
PROPERTIES
  Inertial
