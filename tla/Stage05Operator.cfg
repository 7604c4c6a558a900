SPECIFICATION OperatorSpec
CONSTANTS
  p1 = p1
  planA = planA
  Procs = {p1}
  Plans = {planA}
  NoPlan = NoPlan
  Nobody = Nobody
  FaultModels = {{"kill", "error", "refuse"}}
PROPERTY EveryRunEnds RollbackCompletes
