\* The claim at libkommpot.h:232.
CONSTANTS
  s1 = s1
  s2 = s2
  o1 = o1
  o2 = o2
  Ftdi = Ftdi
  Any = Any
  Unread = Unread
  NoDevice = NoDevice
  Ethernet = Ethernet
  Requests <- Asked
  Objects <- TwoObjects
  MaxHandles = 2
  Devices <- TwoBuses
  Searchers <- OneSearcher
SPECIFICATION UsbSpec
INVARIANT OpenedIsReported
CHECK_DEADLOCK FALSE
