SPECIFICATION FairSpec
CONSTANTS
  Data <- MCData
  MaxSent = 3
  Lengths <- MCLengths
  MaxErrors = 1
INVARIANTS
  TypeOK
  QueuesInOrder
PROPERTIES
  ImplementsStream
  NothingLeftBehind
  EverythingRead
