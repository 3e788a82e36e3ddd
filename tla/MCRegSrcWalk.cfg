\* A loop over a linked list: a load whose address it defines itself.
SPECIFICATION Spec
CONSTANTS
  Temps <- MCTemps
  ConstVal <- MCConstVal
  StackRegs <- MCStackRegs
  Programs <- ListWalk
  QueueLen = 512
  MaxBranches = 8
  MaxTbs = 64
  MaxCalls = 6
PROPERTIES Terminates
CHECK_DEADLOCK FALSE
