CONSTANTS
  Parent = 9
  Sources = {1, 2}
  Operators = {3, 4}
  Sinks = {5}
  Graphs <- TwoGraphs
SPECIFICATION Spec
INVARIANTS RunsOnce InputsFirst Coverage
PROPERTY Decides
CHECK_DEADLOCK FALSE
