SPECIFICATION Spec
CONSTANTS
  Makes <- AllMakes
  MaxFailures = 0
INVARIANT
  EveryColumnAssigned
CHECK_DEADLOCK FALSE
