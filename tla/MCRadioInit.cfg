CONSTANTS
  a = a
  b = b
  r = r
  s = s
  Inherit = Inherit
  NoAddress = NoAddress
  MaxPipes = 5
  Channel = 2
  RateBits = "default"
  WatchdogTimeout = 1
  Trials <- MCTrials
SPECIFICATION Spec
INVARIANTS
  TypeOK
  AcceptedIsRight
  GoodChipAccepted
PROPERTIES
  Recovers
