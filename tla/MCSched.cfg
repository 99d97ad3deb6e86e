\* One user program, as the code boots, up to three; the first may fault.
CONSTANTS
  MAX_TASK_NUM = 4
  TTL = 2
  SPAWNS = 3
  Faulty = {1}
SPECIFICATION FairSpec
INVARIANTS
  TaskTableSound
  HandlerUninterrupted
  SuspendedInKernel
  InServiceExact
  NestingBounded
  BoundedWaiting
PROPERTY RoundRobin
\* A fault stops the machine.
CHECK_DEADLOCK FALSE
