SPECIFICATION Spec
CONSTANTS
  Cidrs <- MCCidrs
  NonPublic <- MCNonPublic
  BroadSize = 2
  FaultModels = {{"error"}, {"kill", "reboot", "foreign"}}
  MaxErrors = 2
INVARIANT ManifestIsUsable SuccessIsExact FailureRestores ApplyRepairs
