\* Programs of four blocks in which no address depends on itself.
SPECIFICATION Spec
CONSTANTS
  Temps <- MCTemps
  ConstVal <- MCConstVal
  StackRegs <- MCStackRegs
  Programs <- GroundedPrograms
  QueueLen = 64
  MaxBranches = 8
  MaxTbs = 4
  MaxCalls = 6
INVARIANTS TypeOK SearchExact OnlyDefinitions TreeExact FoldSound StoresFound NoReentry RowsTell
PROPERTIES Terminates
CHECK_DEADLOCK FALSE
