SPECIFICATION SpecWithCrossings
CONSTANTS
  Slots = {1, 2}
  Size = 16
  EventSize = 4
  CrossingSize = 6
  BlockSize = 2
  BlockEvents = 2
  MaxKids = 1
  Threads = {1, 2}
  Events = {1, 2}
INVARIANT CollectedWhenDone
CHECK_DEADLOCK FALSE
