SPECIFICATION PartitionsSpec
CONSTANTS
  Sectors = 7
  ALIGN = 2
  LbaWidth = 16
  Sizes = {1, 2}
  FirstSectors <- MCFirst
PROPERTY DeletesOnlyOne
CHECK_DEADLOCK FALSE
