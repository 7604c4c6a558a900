SPECIFICATION ResolverSpec
CONSTANTS
  p1 = p1
  p2 = p2
  planA = planA
  Procs = {p1, p2}
  Resolvers = {p1}
  Plans = {planA}
  NoPlan = NoPlan
  Nobody = Nobody
  FaultModels = {{}}
  MaxVersion = 1
INVARIANT AuthorizedThroughout OneInstant
