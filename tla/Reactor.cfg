SPECIFICATION FairSpec
CONSTANTS
  Conns <- TwoConns
  Pieces = 1
  MaxFds = 6
  MaxEvents = 2
  EpollFails = {"conn"}
INVARIANTS KernelAgrees NoStaleEvent OneWayOn ActiveExact
PROPERTIES ConnectionsEnd BeatsGoOn
CHECK_DEADLOCK FALSE
