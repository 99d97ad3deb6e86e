\* The code's own boot, against the remark that TSS.ESP0 is to be restored.
CONSTANTS
  MAX_TASK_NUM = 2
  TTL = 2
  SPAWNS = 1
  Faulty = {}
SPECIFICATION Spec
INVARIANT EntryOnOwnStack
