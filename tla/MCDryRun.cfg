SPECIFICATION DryRunSpec
CONSTANTS
  ServiceNames <- MCServiceNames
  Worker = "worker"
  IdMin = 1
  IdMax = 4
  Excluded = {2}
  MaxChanges = 1
  Probed = {"cpu"}
  Hosts <- MCHosts
  Outages <- MCOutages
  Directories = {"install", "state"}
  MaxDeviations = 2
INVARIANT PlanIsSafe CarriedOutIsStable GatesAgree ExitsAgree DirectoriesAreJudgedTogether
CHECK_DEADLOCK FALSE
