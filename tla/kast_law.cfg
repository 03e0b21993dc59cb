SPECIFICATION Spec
CONSTANTS
  r1 = r1
  r2 = r2
  p1 = p1
  a = a
  b = b
  Nobody = Nobody
  None = None
  Run <- MCRun
  Prefix = {p1}
  PrefixOf <- MCPrefixOf
  Overlay = {a, b}
  MaxMoves = 1
  MaxFaults = 1
SYMMETRY MCSymmetry
INVARIANTS AdoptedAsVerified OutcomeTruthful WorkspacesOwned
CHECK_DEADLOCK FALSE
