CONSTANTS
  Jobs <- WfJobs
  Subs <- ChainSubs
  ParentOf <- ChainParent
  EnqueuingProcess <- ChainEnqueuing
  NextProcesses <- ChainNext
  CanRecover <- ChainSubs
  MaxBatchArgs = {1}
  MaxRuns <- ChainRuns
  MaxFiles = 1
  Unreliable = FALSE
SPECIFICATION WorkflowSpec
INVARIANT KilledIsFailed
PROPERTY RunsEnd
CHECK_DEADLOCK FALSE
