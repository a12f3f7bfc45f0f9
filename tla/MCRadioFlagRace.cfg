CONSTANTS
  dynamic = dynamic
  fixed = fixed
  corrupt = corrupt
  NoFrame = NoFrame
  Frames = {dynamic, fixed, corrupt}
  FixedFrames = {fixed}
  CorruptFrames = {fixed, corrupt}
  FifoDepth = 2
  GuardLimit = 2
  WatchdogTimeout = 1
  CounterMax = 1
  IrqPin = TRUE
SPECIFICATION Spec
PROPERTIES
  MissedMeansNoInterrupt
