CONSTANTS
  plain = plain
  sealed = sealed
  NoValue = NoValue
  Devices = {plain, sealed}
  Listed <- MCListed
  SenderOf <- MCSenderOf
  Encrypted <- MCEncrypted
  SlotsOf <- MCSlotsOf
  TimeoutOf <- Ageing
  Values = {}
  Frames = {}
  MinLength = 7
  MicBytes = 1
  MaxEvents = 2
  IdMod = 3
  ClockMod = 5
  SweepPeriod = 1
  LoopLag = 0
  Copies = 2
  Senders <- AllSenders
SPECIFICATION LinkSpec
INVARIANTS
  ExactlyOnce
PROPERTIES
  RepeatsAreSilent
CHECK_DEADLOCK FALSE
