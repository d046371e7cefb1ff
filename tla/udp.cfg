CONSTANTS
  NULL = NULL
  DESIGN <- Designs
SPECIFICATION Spec
INVARIANTS
  OutputIsRow
CHECK_DEADLOCK FALSE
