SPECIFICATION OperatorSpec
CONSTANTS
  p1 = p1
  k1 = k1
  k2 = k2
  k3 = k3
  n1 = n1
  n2 = n2
  Procs = {p1}
  Nobody = Nobody
  Ids = {k1, k2, k3}
  NoId = NoId
  Names = {n1, n2}
  NoName = NoName
  FaultModels = {{"kill", "error", "late"}, {"power", "late"}}
INVARIANT MetadataIsTrue EveryLiveKeyIsRecorded LiveKeyIsNotLost
PROPERTY CreateConverges RevokeConverges
