SPECIFICATION Spec
CONSTANTS
  Cidrs <- MCCidrs
  NonPublic <- MCNonPublic
  BroadSize = 2
  FaultModels = {{"kill"}}
  MaxErrors = 1
INVARIANT ApplyReconcilesItsOwn
