CONSTANTS
  Users = {u1}
  Kinds = {"source", "operator"}
  MaxSteps = 3
  MaxFailures = 0
  MaxLinks = 2
  MaxNext = 2
SPECIFICATION Spec
INVARIANT DrawnIsStored
CHECK_DEADLOCK FALSE
