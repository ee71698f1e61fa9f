\* A pattern for the address: the claim at libkommpot.h:261.
CONSTANTS
  n1 = n1
  n2 = n2
  lo = lo
  Mac = Mac
  ZeroMac = ZeroMac
  NotMac = NotMac
  Null = Null
  Refused = Refused
  Octets = 3
  OctetBits = 1
  Segments = 2
  SegmentBits = 4
  IndexBits = 4
  MaxEntries = 4
  Names <- EthernetNames
  Entries <- TheEntries
  Hosts <- TheHosts
  Requests <- PatternRequests
SPECIFICATION Spec
INVARIANT PatternsFindHosts
CHECK_DEADLOCK FALSE
