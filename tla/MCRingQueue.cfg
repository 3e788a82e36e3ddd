\* every length from 0 to 3, so that both indices wrap more than once
CONSTANTS
  Elem = {e1, e2, e3}
  Lengths = {0, 1, 2, 3}
  None = None
SPECIFICATION Spec
INVARIANT TypeOK
PROPERTY IsFifo
\* a failed assertion stops the program
CHECK_DEADLOCK FALSE
