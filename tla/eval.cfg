SPECIFICATION StoreSpec
CONSTANTS
  BITS = 4
  Samples <- MCSamples
  Few <- MCFew
  Contexts = {1, 6}
  Decls <- MCDecls
  DECL = 10
  LSB = 1
  Lists <- MCLists
  Repeats <- MCRepeats
  Lvals <- MCLvals
  LvalLists <- MCLvalLists
  MaxTokens = 4
PROPERTIES
  Evaluates
  Framed
  Assigns
CHECK_DEADLOCK FALSE
