CONSTANTS
  idle = idle
  cleanupd = cleanupd
  a = a
  b = b
  Task = {idle, a, b}
  Idle = idle
  BootList <- TwoWorkers
  BootPriority <- MCPriority
  BootCleaners = {idle}
  Priority = {0}
  MAX_TASKS = 4
  QUANTUM = 1
  MaxSleep = 1
  TICK_MOD = 2
  COUNT_MOD = 5
  MaxId = 3
  MaxStarts = 0
  NULL = NULL
SPECIFICATION LiveSpec
PROPERTIES SleepTerminates TopPriorityRuns
