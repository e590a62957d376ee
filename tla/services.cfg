SPECIFICATION Spec
CONSTANTS
  Size = 4
  Blocks = 2
  PerBlock = 2
  MaxChunk = 2
  Retries = 3
  IoChunk = 2
  CountMod = 3
  MaxN = 3
  PartStart = 1
  PartSize = 2
  IdeLayouts <- MCLayouts
  HbaPorts = {0, 1}
  CmdSlots = 2
  PoolSize = 9
  Lbas = {"a"}
  Sectors = 7
  ALIGN = 2
  LbaWidth = 16
  Sizes = {1, 2}
  FirstSectors <- MCFirst
  Width = 2
  Height = 2
  BootHeight = 5
  BUFFER_LINE_MULTIPLIER = 1
  MIN_BUFFER_LINES = 3
  MAX_BUFFER_LINES = 4
  COMMAND_HISTORY_SIZE = 1
  InputMax = 1
  CwdPrompt = 1
  UserPrompt = 1
  Painters = {"main"}
  MaxAdded = 4
  LineMax = 2
  EDITOR_MAX_LINES = 3
  EDITOR_TAB_SIZE = 2
  ViewHeight = 2
  Files <- MCFiles
  MaxKeys = 3
  Devices <- MCDevices
  LateTypes = {"net", "ide"}
  DRIVER_MAX_TYPES = 4
  KEYBOARD_MAX_LAYOUTS = 2
  LayoutFiles <- MCLayoutFiles
  SerialWriters = {"p", "q"}
  SERIAL_TX_QUEUE_SIZE = 3
  SERIAL_RX_QUEUE_SIZE = 3
  UartFifo = 2
  MaxWritten = 6
  MaxArrived = 3
VIEW View
INVARIANTS TypeOK RightSectors SuccessIsComplete CommandsSound TableSound  EditorSound LayoutsOwned SerialSound
CHECK_DEADLOCK FALSE
