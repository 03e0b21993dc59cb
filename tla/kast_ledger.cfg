SPECIFICATION Spec
CONSTANTS
  c1 = c1
  c2 = c2
  c3 = c3
  s1 = s1
  s2 = s2
  m1 = m1
  m2 = m2
  f1 = f1
  Nobody = Nobody
  Closer <- MCCloser
  Session <- MCSession
  SessionOf <- MCSessionOf
  Maintainer = {m1}
  Fingerprint = {f1}
  Security = {}
  Severity = {0, 2}
  MaxTime = 1
  MaxFaults = 1
SYMMETRY MCSymmetry
INVARIANTS RecurrenceExact ReceiptNamesEntries PromotedIsJustified
PROPERTIES NothingUndone
CHECK_DEADLOCK FALSE
