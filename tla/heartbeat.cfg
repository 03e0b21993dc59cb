SPECIFICATION FairSpec
CONSTANTS
  p1 = p1
  p2 = p2
  w1 = w1
  Nobody = Nobody
  Process <- MCProcess2
  Owner <- MCOwner1
  OwnerOf <- MCOwnerOf2
  MaxToken = 5
  Events = {1, 2, 3}
  Material = {1, 3}
  EventLimit = 2
  MaxFaults = 1
INVARIANTS TypeOK NoEventSkipped
PROPERTIES CursorNeverRegresses StaleHolderPowerless ConsumerSpec EventuallyPassed
CHECK_DEADLOCK FALSE
