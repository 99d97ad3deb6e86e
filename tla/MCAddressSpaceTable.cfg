\* The code against its remark on pt_now.
CONSTANTS
  W = 14
  KDIR = 8
  NFRAMES = 55
  LOADS = 1
  Headers <- MCHeaders
SPECIFICATION Spec
INVARIANT EnteredInOwnTable
