SPECIFICATION Spec
CONSTANTS
  p1 = p1
  p2 = p2
  planA = planA
  planB = planB
  Procs = {p1, p2}
  Plans = {planA, planB}
  NoPlan = NoPlan
  Nobody = Nobody
  FaultModels = {{"kill", "error", "refuse"}, {"power", "refuse"}}
SYMMETRY Symmetry
INVARIANT OneMutator RootsSurvive WriteAhead MarkerIsLast AuthorizedIsComplete NeverStranded
PROPERTY OnlyTakenAway
