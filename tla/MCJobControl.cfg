CONSTANTS
  Jobs <- ChainJobs
  Subs <- ChainSubs
  ParentOf <- ChainParent
  EnqueuingProcess <- ChainEnqueuing
  NextProcesses <- ChainNext
  CanRecover <- ChainSubs
  MaxBatchArgs = {1, 2}
  MaxRuns <- ChainRuns
  MaxFiles = 1
SPECIFICATION Spec
INVARIANTS TypeOK OneInstance StepsUnderJob RunOwnsBatch OneTarget InOrder
  Conservation ArchivedConsumed Provenance
PROPERTIES TargetKept ArchivedOnSuccess KeepsLedger
CHECK_DEADLOCK FALSE
