SPECIFICATION Spec
CONSTANTS
  HEAP = 32
  MaxRequest = 9
  BIG = 4
  Frames = 11
  UserPages = 3
  HeapStart = 1
  AltPages = 2
  MemoryMaps = {{0, 1, 2, 3, 4}, {1, 2, 4, 5}}
  KernelHeap = {0}
  BitmapPages = 1
  MmioFrame = 8
  Devices = {7, 8}
  Spaces = {"a", "b"}
  Programs <- MCPrograms
  CHUNK = 2
  EXEC_MAX_SIZE = 8
  EXEC_CODE_BASE = 7
  FirstBase = 8
  SLOT = 2
  KernelImage = {1, 2, 3, 4, 5, 6}
  KernelHeapPages = {2, 3, 4, 5, 6}
  KernelBase = 12
  LastPage = 13
  LowestCode = 1
  StackPages = 1
  MaxLoads = 3
  UserTasks = {"u", "v"}
  Readers = {"u"}
  Fds = {3, 4}
  Sockets = {1, 2}
  KEYBOARD_BUFFER_SIZE = 2
  CountWidth = 4
  MaxLine = 2
  MaxScancodes = 3
  Clients = {"c", "d"}
  Daemon = "daemon"
  QueueSlots = {1, 2, 3}
  MAX_MESSAGES_PER_QUEUE = 2
  MaxRequests <- MCRequests
  TmpBlocks = {1, 2, 3}
  Names = {"a", "b"}
  Handles = {"h", "i"}
  CharDevs = {"null", "random", "urandom"}
  EntropyPool = 3
  MaxSize = 2
  Firmwares <- MCAllFirmwares
  LowFrame = 9
  RomFrame = 10
  CacheSize = 2
  MAX_ACPI_TABLES = 2
INVARIANTS TypeOK HeapSound MappingSound ExecSound KeyboardFifo CallResources IpcSound MemFsSound
CHECK_DEADLOCK FALSE
