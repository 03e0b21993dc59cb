SPECIFICATION HistorySpec
CONSTANTS
  Mandate <- MCMandate
  Key <- MCKey
  RootKey <- MCRootKey
  Scope <- MCScope
  Content <- MCContent
  MaxTime = 7
INVARIANTS ActiveIsUnrevoked AuthorityIsDerived
PROPERTIES RevokedStaysRevoked
CHECK_DEADLOCK FALSE
