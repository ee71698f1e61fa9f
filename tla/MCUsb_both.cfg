\* Two searches at the same time; then two objects at the same time.
CONSTANTS
  s1 = s1
  s2 = s2
  o1 = o1
  o2 = o2
  Ftdi = Ftdi
  Any = Any
  Unread = Unread
  NoDevice = NoDevice
  Ethernet = Ethernet
  Requests <- Asked
  Objects <- TwoObjects
  MaxHandles = 2
  Devices <- Bus
  Searchers <- TwoSearchers
SPECIFICATION UsbSpec
CONSTRAINT FewTogether
SYMMETRY Exchange
INVARIANTS
  NothingIsMissed
  OneIdentificationIsExact
  NoDeviceTwice
  ContextOutlivesUse
  HandlesAreLive
  OnlyCarelessLeaks
  ReportedCanBeOpened
  OpenedFits
  ContextIsMade
CHECK_DEADLOCK FALSE
