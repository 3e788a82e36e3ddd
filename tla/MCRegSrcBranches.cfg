\* Sixteen paths from a definition to its use.
SPECIFICATION Spec
CONSTANTS
  Temps <- MCTemps
  ConstVal <- MCConstVal
  StackRegs <- MCStackRegs
  Programs <- FourBranches
  QueueLen = 512
  MaxBranches = 8
  MaxTbs = 64
  MaxCalls = 6
INVARIANTS BranchesFit
CHECK_DEADLOCK FALSE
