\* A block that jumps into its own middle.
CONSTANTS
  Views <- SelfLoop
  MaxEdges = 256
  MaxJumps = 16
SPECIFICATION Spec
INVARIANT OnlyTransfers
CHECK_DEADLOCK FALSE
