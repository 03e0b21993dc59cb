SPECIFICATION FairSpec
CONSTANTS
  p1 = p1
  p2 = p2
  p3 = p3
  w1 = w1
  w3 = w3
  Nobody = Nobody
  Owner <- MCOwner
  Process <- MCProcess3
  OwnerOf <- MCOwnerOf3
  Pollers = {p1, p2}
  MaxToken = 4
  MaxRows = 2
  Lapsing = {1}
  MaxFaults = 1
INVARIANTS NoRowSkipped CountedOnce NothingLost
PROPERTIES SignalCursorNeverRegresses PassedOrReconciling
CHECK_DEADLOCK FALSE
