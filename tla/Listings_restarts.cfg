CONSTANTS
  p1 = p1
  p2 = p2
  l1 = l1
  n1 = n1
  n2 = n2
  nb = nb
  Processes = {p1, p2}
  Lists = {l1}
  Names = {n1, n2, nb}
  Blank = {nb}
  Files <- OneFile
  Generators = {TRUE, FALSE}
  Signs = {TRUE, FALSE}
  MaxTime = 1
  MaxIds = 2
SPECIFICATION Spec
INVARIANTS NameKeepsId NothingIsForgotten
SYMMETRY ProcessSymmetry
