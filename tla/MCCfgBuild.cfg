\* The control-flow graph of every small view; MaxEdges and MaxJumps are the
\* sizes 256 and 16 of the source.
CONSTANTS
  Views <- SmallViews
  MaxEdges = 256
  MaxJumps = 16
SPECIFICATION FairSpec
INVARIANT TypeOK
INVARIANT Tiled
INVARIANT Mirror
INVARIANT FallthroughToNext
INVARIANT TransfersCovered
INVARIANT DotIsGraph
PROPERTY CodeKept
PROPERTY Terminates
\* main goes on to the analyses
CHECK_DEADLOCK FALSE
