CONSTANTS
  a = a
  b = b
  c = c
  Procs = {a, b, c}
  Free = Free
  Total = 6
  Crashes = TRUE
SPECIFICATION Spec
CHECK_DEADLOCK FALSE
INVARIANTS TypeOK OneSlotEach CountCovers SharesFit
SYMMETRY ProcSymmetry
