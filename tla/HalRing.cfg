\* Two modules share three slots; a third address is read by nobody here.
SPECIFICATION Spec
CONSTANTS
  m1 = m1
  m2 = m2
  all = all
  away = away
  none = none
  Module = {m1, m2}
  Dest = {m1, m2, all, away}
  Broadcast = all
  NoModule = none
  Size = 3
  MaxSends = 6
INVARIANTS
  RingInOrder
PROPERTIES
  BusImplemented
  RoomReturns
