CONSTANTS
  Killers = {k, l}
  MaxExecutes = 2
SPECIFICATION Spec
INVARIANTS KilledIsDead CanBeKilled
PROPERTY OverForGood
SYMMETRY Symmetry
CHECK_DEADLOCK FALSE
