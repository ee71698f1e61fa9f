\* Every list of up to four entries; then two devices, of which the second may
\* be opened again while it is open.
CONSTANTS
  n1 = n1
  n2 = n2
  lo = lo
  Mac = Mac
  ZeroMac = ZeroMac
  NotMac = NotMac
  Null = Null
  Refused = Refused
  Octets = 3
  OctetBits = 1
  Segments = 2
  SegmentBits = 4
  IndexBits = 4
  MaxEntries = 4
  Names <- EthernetNames
  Entries <- TheEntries
  Hosts <- TheHosts
  Requests <- TheRequests
  s1 = s1
  s2 = s2
  d1 = d1
  d2 = d2
  Invalid = Invalid
  Sockets <- TwoSockets
  Descriptors <- TwoDescriptors
  Reopened <- SecondSocket
  MaxBytes = 2
SPECIFICATION EthernetSpec
CONSTRAINT NotStrayed
INVARIANTS
  KeptAreComplete
  FieldsBelongTogether
  FoundOncePerPair
  IsOpenIsTrue
  DescriptorHasOneObject
  OnlyFailedCallsLeak
PROPERTY CallsReturn
