CONSTANTS
  plain = plain
  sealed = sealed
  twin = twin
  temp = temp
  low = low
  high = high
  NoValue = NoValue
  Devices = {plain, sealed, twin}
  Listed <- MCListed
  SenderOf <- MCSenderOf
  Encrypted <- MCEncrypted
  SlotsOf <- MCSlotsOf
  TimeoutOf <- MCTimeoutOf
  Values <- MCValues
  Frames <- MCFrames
  MinLength = 7
  MicBytes = 1
  MaxEvents = 2
  IdMod = 2
  ClockMod = 6
  SweepPeriod = 1
  LoopLag = 0
SPECIFICATION HubSpec
PROPERTIES
  ConnectedByValidFrames
