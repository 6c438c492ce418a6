CONSTANTS
  Jobs <- ForkJob
  Subs <- ForkSubs
  ParentOf <- ForkParent
  EnqueuingProcess <- ForkEnqueuing
  NextProcesses <- ForkNext
  CanRecover <- ForkSubs
  MaxBatchArgs = {1}
  MaxRuns <- ForkRuns
  MaxFiles = 1
  Unreliable = FALSE
SPECIFICATION WorkflowSpec
INVARIANT KilledIsFailed
CHECK_DEADLOCK FALSE
