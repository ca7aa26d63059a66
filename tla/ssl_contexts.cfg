SPECIFICATION Spec
CONSTANTS
  Threads = {main, t1, t2}
  Main = main
  Socks = {s1, s2, s3}
  NoThread = NoThread
  NoSock = NoSock
  MaxCtx = 2
CONSTRAINT NoneStale
SYMMETRY Interchangeable
CHECK_DEADLOCK FALSE
INVARIANTS
  TypeOK
  CountExact
  LiveWhileUsed
  FreedWhenUnused
