CONSTANTS
  Jobs <- WfJobs
  Subs <- JoinSubs
  ParentOf <- JoinParent
  EnqueuingProcess <- JoinEnqueuing
  NextProcesses <- JoinNext
  CanRecover <- JoinSubs
  MaxBatchArgs = {1, 2}
  MaxRuns <- JoinRuns
  MaxFiles = 1
  Unreliable = TRUE
SPECIFICATION WorkflowSpec
INVARIANTS EveryStepRan StepOrder NothingLeftClaimed DeliveredOnce OutputOfSuccess RerunsAreAccepted
CHECK_DEADLOCK FALSE
