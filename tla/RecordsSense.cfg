SPECIFICATION Spec
CONSTANTS
  Makes <- AllMakes
  MaxFailures = 0
INVARIANT
  StoredAsDescribed
CHECK_DEADLOCK FALSE
