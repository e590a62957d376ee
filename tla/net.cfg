SPECIFICATION FairSpec
CONSTANTS
  Ring = 3
  MaxFrames = 5
  MaxResets = 1
  Pcbs = {0, 1}
  RxSize = 2
  Window = 3
  Answer = 2
  SynTries = 2
  MaxConnects = 2
  MaxFlight = 1
  MaxRcv = 4
  Faults = TRUE
  Servers = {"s1", "s2"}
  MaxRetries = 1
  MaxXid = 2
  MaxMail = 2
  Hosts = {"gw", "a", "b"}
  Gateway = "gw"
  Macs = {"m", "n"}
  CacheSize = 2
  MaxAge = 1
  MaxClock = 2
  ArpTries = 2
  MaxDepth = 2
  Names = {"x", "y"}
  DnsTries = 2
  MaxQueries = 3
  MaxNested = 2
INVARIANTS TypeOK CardIsFifo StreamIntact AddressesRight
PROPERTIES DhcpEnds
CHECK_DEADLOCK FALSE
