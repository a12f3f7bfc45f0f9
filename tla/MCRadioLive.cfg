CONSTANTS
  dynamic = dynamic
  fixed = fixed
  corrupt = corrupt
  NoFrame = NoFrame
  Frames = {dynamic, fixed, corrupt}
  FixedFrames = {fixed}
  CorruptFrames = {fixed, corrupt}
  FifoDepth = 2
  GuardLimit = 3
  WatchdogTimeout = 0
  CounterMax = 0
  IrqPin = TRUE
SPECIFICATION Spec
PROPERTIES
  ImplementsChannel
  LoopReturns
  LineReleased
