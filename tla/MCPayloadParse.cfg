CONSTANTS
  temp = temp
  door = door
  text = text
  low = low
  high = high
  NoValue = NoValue
  NameType = text
  Known <- MCKnown
  Slots <- MCSlots
  Types = {temp, door, text}
  Values = {low, high}
  EventCodes = {"press", "hold"}
  Room = 9
  MaxKinds = 4
  MaxEvents = 4
  IdMod = 2
SPECIFICATION ParseSpec
INVARIANTS
  ParseTypeOK
  ReadingsAsMeant
  EventsAsMeant
  NothingLeftOut
PROPERTIES
  NamedOnce
