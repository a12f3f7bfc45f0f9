CONSTANTS
  dynamic = dynamic
  fixed = fixed
  NoFrame = NoFrame
  Ghost = Ghost
  Frames = {dynamic, fixed}
  FixedFrames = {fixed}
  CorruptFrames = {}
  FifoDepth = 2
  GuardLimit = 2
  WatchdogTimeout = 1
  CounterMax = 0
  IrqPin = TRUE
  MaxFaults = 2
SPECIFICATION FaultSpec
INVARIANTS
  FaultTypeOK
  GhostsAreRare
  StatusMatchesChip
PROPERTIES
  
  Diagnosed
