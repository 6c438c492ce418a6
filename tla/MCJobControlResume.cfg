CONSTANTS
  Jobs <- PairJobs
  Subs <- PairSubs
  ParentOf <- PairParent
  EnqueuingProcess <- PairEnqueuing
  NextProcesses <- PairNext
  CanRecover <- PairSubs
  MaxBatchArgs = {1}
  MaxRuns <- TwoRuns
  MaxFiles = 1
SPECIFICATION Spec
PROPERTY ResumesAfterFailure
CHECK_DEADLOCK FALSE
