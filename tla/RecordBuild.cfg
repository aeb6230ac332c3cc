SPECIFICATION Spec
CONSTANTS
  Makes <- AllMakes
  MaxFailures = 2
INVARIANTS
  TypeOK
  AnswersReachTheirField
  ValuesOfKnownOrigin
  NoOtherGaps
CHECK_DEADLOCK FALSE
