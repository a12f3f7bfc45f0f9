CONSTANTS
  a = a
  b = b
  r = r
  s = s
  Inherit = Inherit
  NoAddress = NoAddress
  MaxPipes = 5
  Channel = 0
  RateBits = "zero"
  WatchdogTimeout = 1
  Trials <- Undisturbed
SPECIFICATION Spec
INVARIANTS
  RegsOkMeansReadBack
