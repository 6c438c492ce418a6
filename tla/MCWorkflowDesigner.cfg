CONSTANTS
  Users = {u1}
  Kinds = {"source", "operator", "persistentStore"}
  MaxSteps = 2
  MaxFailures = 2
  MaxLinks = 2
  MaxNext = 2
SPECIFICATION Spec
INVARIANTS TypeOK NamesExist ChartClosed StartsAreLive DeletionUnlinks NothingHidden
