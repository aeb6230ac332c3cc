SPECIFICATION Spec
CONSTANTS
  Characters <- MCCharacters
  Files <- MCFiles
  Comments <- MCComments
  TempDirs <- MCTempDirs
INVARIANTS
  TypeOK
  ProceduresSent
  CommentReadsBack
  PathReadsBack
PROPERTY
  LoopsAdvance
CHECK_DEADLOCK FALSE
