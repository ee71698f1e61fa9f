\* More hosts than threads, the last of them beyond the address space.
CONSTANTS
  MaxThreads = 3
  MaxHosts = 8
  BaseAddress = 10
  MaxAddress = 15
SPECIFICATION Spec
INVARIANTS
  EachHostHasOneWorker
  ProbesStayInside
  ScanComplete
PROPERTIES
  NoDeviceIsLost
  ScanReturns
  ImplementsHostScan
