\* Addresses of four bits, host indices of seven: the test of an index with the
\* highest uint64_t.
CONSTANTS
  Octets = 2
  OctetBits = 2
  Segments = 2
  SegmentBits = 4
  IndexBits = 7
  Refused = Refused
  SegmentValues = {0, 15}
  Indices = {0, 1, 15, 16, 112, 127}
SPECIFICATION CallsSpec
INVARIANT OverflowIsRefused
CHECK_DEADLOCK FALSE
