SPECIFICATION Spec
CONSTANTS
  p1 = p1
  p2 = p2
  t1 = t1
  t2 = t2
  i1 = i1
  i2 = i2
  i3 = i3
  planA = planA
  planB = planB
  Procs = {p1, p2}
  Plans = {planA, planB}
  NoPlan = NoPlan
  Temps = {t1, t2}
  Final = Final
  Inodes = {i1, i2, i3}
  NoFile = NoFile
  Nobody = Nobody
  MaxTransitions = 3
SYMMETRY Symmetry
INVARIANT TypeOK OneWriter AckedIsDurable PublishedIsWhole ResidueIsCanonical IInv
PROPERTY KeepsPromise
