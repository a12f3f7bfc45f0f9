CONSTANTS
  dynamic = dynamic
  fixed = fixed
  corrupt = corrupt
  NoFrame = NoFrame
  Frames = {dynamic, fixed, corrupt}
  FixedFrames = {fixed}
  CorruptFrames = {fixed, corrupt}
  FifoDepth = 3
  GuardLimit = 4
  WatchdogTimeout = 1
  CounterMax = 1
  IrqPin = TRUE
SPECIFICATION Spec
INVARIANTS
  TypeOK
  LineArmed
PROPERTIES
  MissedIsExplained
  DiscardIsCounted
