CONSTANTS
  idle = idle
  cleanupd = cleanupd
  a = a
  b = b
  Task = {idle, cleanupd, a}
  Idle = idle
  BootList <- MCBootList
  BootPriority <- MCPriority
  BootCleaners = {idle, cleanupd}
  Priority = {0}
  MAX_TASKS = 4
  QUANTUM = 1
  MaxSleep = 1
  TICK_MOD = 2
  COUNT_MOD = 5
  MaxId = 4
  MaxStarts = 1
  NULL = NULL
SPECIFICATION Spec
INVARIANT TypeOK
VIEW View
INVARIANTS RunningIsCurrent OwnStack StackInUseIsAllocated ListIsAlloc ScanAgrees
PROPERTY TickLeavesRunnable
