SPECIFICATION FairSpec
CONSTANTS
  x = x  y = y
  Elem = {x, y}
  Raw = Raw
  MaxSize = 3
  IndexMod = 4
INVARIANTS
  QueueInv
  NoSlotRace
  SizesConservative
PROPERTIES
  ImplementsBoundedQueue
  FullWaitEnds
  EmptyWaitEnds
