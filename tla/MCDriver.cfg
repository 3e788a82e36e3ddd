\* Command lines over six files and stdin.
SPECIFICATION Spec
CONSTANTS
  HOST_LE = TRUE
  CommandLines <- MCCommandLines
  named_options <- NamedOptions
  pos_options <- PosOptions
  Dashed <- MCDashed
  strtoul <- MCstrtoul
  RegTuple <- MCRegTuple
  ULONG_MAX = 255
  OffsetRange = 16
  OperandRange = 256
  Files <- MCFiles
  Worlds <- MCWorlds
  Archs = {"ARM", "MIPS"}
  MaxStdin = 6
  InsnSize = 2
  MaxInsns = 2
  Ops <- MCOps
INVARIANTS TypeOK EachWordOnce IntactWhenRead BytesRead ExitStatusTells
PROPERTIES FirstWins Terminates
CHECK_DEADLOCK FALSE
