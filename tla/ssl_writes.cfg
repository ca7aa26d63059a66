SPECIFICATION FairSpec
CONSTANTS
  Data <- MCData
  Texts <- MCTexts
  LineEnd <- MCLineEnd
  MaxRecord = 2
  Chunk = 4
  Scalars = {1, 2}
  Heap = {1, 2}
  Repeats = TRUE
  MaxHanded = 9
  MaxMoves = 1
  MaxErrors = 1
INVARIANTS
  TypeOK
  HandedInOrder
  RepeatFits
PROPERTIES
  WriteCompletes
