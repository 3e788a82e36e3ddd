\* A value that takes two rounds of a loop to arrive.
SPECIFICATION Spec
CONSTANTS
  Temps <- MCTemps
  ConstVal <- MCConstVal
  StackRegs <- MCStackRegs
  Programs <- TwoRounds
  QueueLen = 512
  MaxBranches = 8
  MaxTbs = 64
  MaxCalls = 6
INVARIANTS ContributorsFound
CHECK_DEADLOCK FALSE
