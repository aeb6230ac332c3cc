SPECIFICATION Spec
CONSTANTS
  NoValue = NoValue
  Values <- MCValues
  ArgLists <- DocArgLists
  Places <- BuiltPlace
  Existing <- MCExisting
  Getters <- MCGetters
  MaxTag = 2
  Listed <- MCListed
  Self <- MCSelf
  Symbols <- MCSymbols
  Older = Older
  Absent = Absent
  Empty = Empty
  t1 = t1
  t2 = t2
  Tables <- MCTables
INVARIANT
  SurveyIsWritten
CHECK_DEADLOCK FALSE
