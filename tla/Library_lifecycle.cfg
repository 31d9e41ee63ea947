CONSTANTS
  t1 = t1
  t2 = t2
  m1 = m1
  m2 = m2
  d1 = d1
  d2 = d2
  p1 = p1
  p2 = p2
  q1 = q1
  g1 = g1
  a1 = a1
  a2 = a2
  None = None
  Threads = {t1, t2}
  Mappings = {m1, m2}
  Drivers = {d1, d2}
  Policies = {p1, p2}
  Quotas = {q1}
  Groups = {g1}
  Addresses = {a1, a2}
  InitMax = 2
SPECIFICATION Spec
SYMMETRY Symmetry
INVARIANTS TypeOK AccessFindsMapping NoDangling NoLeak
