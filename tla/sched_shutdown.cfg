CONSTANTS
  idle = idle
  cleanupd = cleanupd
  a = a
  Task = {idle, cleanupd, a}
  Idle = idle
  BootList <- MCBootList
  BootPriority <- MCPriority
  BootCleaners = {idle, cleanupd}
  Priority = {0}
  MAX_TASKS = 4
  QUANTUM = 1
  MaxSleep = 1
  TICK_MOD = 3
  COUNT_MOD = 5
  MaxId = 3
  MaxStarts = 1
  NULL = NULL
SPECIFICATION ControlSpec
INVARIANT ShutdownUnmounts
