CONSTANTS
  Threads = {main, t1, t2}
  Main = main
  Blocks = {b1, b2}
  NoThread = NoThread
  NoBlock = NoBlock
  Buckets = 2
  MaxLoad = 5
SPECIFICATION Spec
CHECK_DEADLOCK FALSE
INVARIANT NeverLeaks
SYMMETRY Interchangeable
