CONSTANTS
  Processes = {p}
  Users = {u, v, w}
  Deployers = {d, e}
  FetchNum = 2
  MaxRows = 3
  MaxCrashes = 1
SPECIFICATION Spec
INVARIANTS NoOvertaking RunningHasDeployer
PROPERTIES ResultSettled Deployed
CHECK_DEADLOCK FALSE
