CONSTANTS
  Job = 10
  Subs <- TwoSubs
  Clients <- TwoClients
  Serves <- BranchServes
  MaxRuns = 2
SPECIFICATION Spec
INVARIANT StepsUnderJob
CHECK_DEADLOCK FALSE
