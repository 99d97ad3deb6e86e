CONSTANTS
  NSectors = 3
  WORDS = 2
  COUNT = 2
  MaxNum = 3
  MaxOps = 3
  Ops = {"read", "write", "detect", "reset"}
  Lags = {TRUE, FALSE}
  Idents <- Identified
  BITS = 4
  NULL = NULL
SPECIFICATION Spec
INVARIANTS
  Lockstep
  ReadExact
  WritesExact
  FailuresPanic
PROPERTY
  CallsEnd
CHECK_DEADLOCK FALSE
