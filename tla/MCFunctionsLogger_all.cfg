\* Every pattern of up to four characters, every value of up to four letters.
\* IPv4: three octets of two bits, written in binary.  IPv6: three segments of
\* four bits, written in two digits of base four.  Texts of six characters.
\* Two enumerations that log while the settings change.
CONSTANTS
  a = a
  b = b
  Star = Star
  Question = Question
  Terminator = Terminator
  Null = Null
  MaxPattern = 4
  MaxValue = 4
  Letters <- TwoLetters
  Patterns <- AllPatterns
  Values <- AllValues
  Octets = 3
  OctetBits = 2
  Segments = 3
  SegmentBits = 4
  IndexBits = 8
  Refused = Refused
  SegmentValues = {0, 1, 2, 8, 12, 15}
  Indices = {0, 1, 2, 3, 4, 7, 8, 14, 15, 16, 17, 31, 32, 60, 62, 63, 64, 65, 128, 239, 240, 254, 255}
  OctetBase = 2
  SegmentBase = 4
  SegmentDigits = 2
  Dot = Dot
  Colon = Colon
  Nul = Nul
  Typed = {0, 1, Dot, Colon, Nul, Other}
  MaxText = 6
  t1 = t1
  t2 = t2
  c1 = c1
  c2 = c2
  App = App
  NoCallback = NoCallback
  Tasks <- TwoTasks
  Callbacks <- TwoCallbacks
  MaxCalls = 4
SPECIFICATION FunctionsLoggerSpec
INVARIANTS
  PointersInBounds
  AnswerIsRight
  NewAddressAdds
  MaskRoundTrip
  CountFitsNetwork
  TextIsCanonical
  OnlyCarelessFaults
  LoggerIsCurrent
  OldCallbackIsOver
PROPERTY Returns
