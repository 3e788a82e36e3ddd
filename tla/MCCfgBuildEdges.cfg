\* A function with 257 jumps to its first instruction.
CONSTANTS
  Views <- CommonTarget
  MaxEdges = 256
  MaxJumps = 16
SPECIFICATION Spec
INVARIANT NoAssertFails
CHECK_DEADLOCK FALSE
