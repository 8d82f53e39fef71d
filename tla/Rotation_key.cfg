SPECIFICATION RotationSpec
CONSTANTS
  Careful = TRUE
  NvsFails = FALSE
  MaxTokens = 3
  MaxDrops = 0
  MaxBoots = 0
INVARIANTS KeyFollows
CHECK_DEADLOCK FALSE
