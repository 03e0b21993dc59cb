SPECIFICATION Spec
CONSTANTS
  p1 = p1
  p2 = p2
  None = None
  Process <- MCProcess
  Mandate <- MCMandate
  Key <- MCKey
  RootKey <- MCKey
  Scope <- MCScope
  Question <- MCQuestion
  Content <- MCContent
  MaxTries = 2
  MaxCalls = 3
  MaxFaults = 1
SYMMETRY MCSymmetry
INVARIANTS LedgerNeverIncomplete OneAttempt
PROPERTIES LedgerHistory
CHECK_DEADLOCK FALSE
