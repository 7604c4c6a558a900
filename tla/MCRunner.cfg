SPECIFICATION Spec
CONSTANTS
  Streams = {"stdout", "stderr"}
  Limit = 1
  MaxOutput = 2
CHECK_DEADLOCK FALSE
INVARIANT SuccessIsComplete NothingOutlives NoStraySignal
PROPERTY RunReturns
