\* open() of a device that is open: the claim at libkommpot.h:328.
CONSTANTS
  s1 = s1
  s2 = s2
  d1 = d1
  d2 = d2
  Invalid = Invalid
  Sockets <- SecondSocket
  Descriptors <- TwoDescriptors
  Reopened <- SecondSocket
  MaxBytes = 2
SPECIFICATION SocketSafetySpec
PROPERTY OpenedMeansConnected
