SPECIFICATION Spec
CONSTANTS
  NoValue = NoValue
  Values <- MCValues
  ArgLists <- MCArgLists
  Places <- MCPlaces
  Existing <- MCExisting
  Getters <- MCGetters
  MaxTag = 2
  Listed <- MCListed
  Self <- MCSelf
  Symbols <- MCSymbols
  Older = Older
  Absent = Absent
  Empty = Empty
  t1 = t1
  t2 = t2
  Tables <- MCTables
INVARIANTS
  TypeOK
  OptionsResolved
  OutdirNeverDefaults
  RefusalTouchesNothing
  StoresWhatWasRead
  SurveyIsWhole
  OdbcGoesOn
PROPERTY
  Ends
CHECK_DEADLOCK FALSE
