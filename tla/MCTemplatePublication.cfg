SPECIFICATION Spec
CONSTANTS
  s1 = s1
  s2 = s2
  v1 = v1
  v2 = v2
  Scripts = {s1, s2}
  Versions = {v1, v2}
  MaxFaults = 2
  MaxDefinition = 2
INVARIANT RecordIsTrue
PROPERTY PublicIsJournaled DeletesOnlyLeftovers DebrisNeverBlocks
CHECK_DEADLOCK FALSE
