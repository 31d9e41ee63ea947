CONSTANTS
  t1 = t1
  t2 = t2
  m1 = m1
  m2 = m2
  loc = loc
  gbl = gbl
  Mappings = {m1, m2}
  Setups <- AllSetups
  MaxIds = 128
  Word = 16
  NoSegment = NoSegment
SPECIFICATION Spec
CHECK_DEADLOCK FALSE
SYMMETRY ThreadSymmetry
INVARIANTS TypeOK Tracked CounterIsList WithinLimit Survives PoliciesAgree
