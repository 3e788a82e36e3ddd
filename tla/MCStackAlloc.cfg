\* pages of three bytes; requests for nothing, part of a page, a page and more
CONSTANTS
  Page = 3
  Sizes = {0, 1, 3, 4}
  MaxBlocks = 4
  MaxLive = 4
  MaxMarks = 2
SPECIFICATION Spec
INVARIANT TypeOK
INVARIANT Laid
INVARIANT NothingLeaks
PROPERTY IsArena
\* the program exits or frees the arena
CHECK_DEADLOCK FALSE
