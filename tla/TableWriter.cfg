SPECIFICATION Spec
CONSTANTS
  Names <- MCNames
  Structs <- MCStructs
  Characters <- MCCharacters
  Texts <- MCTexts
  Separators <- MCSeparators
  Width = 1
  MaxRows = 2
INVARIANTS
  TypeOK
  ColumnsAligned
  LoadsBack
  CsvReadsBack
CHECK_DEADLOCK FALSE
