CONSTANTS
  Job = 10
  Subs <- TwoSubs
  Clients <- TwoClients
  Serves <- TwiceServes
  MaxRuns = 2
SPECIFICATION Spec
INVARIANT OneInstance
CHECK_DEADLOCK FALSE
