\* compute_max_stack_size on every graph of three blocks; QueueFactor is the
\* factor 10 of the source.
CONSTANTS
  Programs <- SmallPrograms
  Top = 3
  QueueFactor = 10
  Uninit = Uninit
SPECIFICATION FairSpec
INVARIANT TypeOK
INVARIANT SolvedWhenDone
INVARIANT ExactWhenDone
INVARIANT CellsTell
PROPERTY EntryRises
PROPERTY Terminates
\* the analysis returns
CHECK_DEADLOCK FALSE
