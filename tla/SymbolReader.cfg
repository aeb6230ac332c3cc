SPECIFICATION Spec
CONSTANTS
  l1 = l1
  l2 = l2
  MaxSymbols = 3
  NoLine = NoLine
  NoDetails = NoDetails
  BatchSize = 2
  IncludeBatch = 2
  Lines <- MCLines
  Pdbs <- MCPdbs
INVARIANTS
  TypeOK
  SymbolRowsFollowItems
  SrcIdsDense
  SrcLineIsOwn
  DetailsReachOwnCompiland
  OneRowPerSymbol
  LinesCountedTwice
  IncludedFollowsFiles
  ReadToEnd
PROPERTIES
  Terminates
  ImplementsTableCopy
CHECK_DEADLOCK FALSE
