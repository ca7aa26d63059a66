CONSTANTS
  Threads = {main, t1, t2}
  Main = main
  Blocks = {b1, b2}
  NoThread = NoThread
  NoBlock = NoBlock
  Buckets = 2
  MaxLoad = 4
SPECIFICATION FairSpec
CHECK_DEADLOCK FALSE
INVARIANTS
  TypeOK
  NoFault
  ChainsSound
  BlocksAccounted
  SomeCallCanStep
  RefcntExact
  NoLeak
  ObjectKeepsSocket
PROPERTIES
  ImplementsTable
  MutexReleased
