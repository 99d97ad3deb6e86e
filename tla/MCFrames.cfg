CONSTANTS
  BITS = 3
  NFRAMES = 11
  Ranges <- MCRanges
SPECIFICATION Spec
PROPERTY AllocsLowestIdle
\* The machine stops when no frame is idle.
CHECK_DEADLOCK FALSE
