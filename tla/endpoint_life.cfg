SPECIFICATION Spec
CONSTANTS
  Fds = {f1, f2}
  NoFd = NoFd
  Addrs = {a1, a2}
  NoAddr = NoAddr
  AnyAddr = AnyAddr
  MaxTimeout = 1
  Usages <- Lives
SYMMETRY Interchangeable
CHECK_DEADLOCK FALSE
INVARIANTS
  TypeOK
  StateIsReal
  ModeAgrees
  DescriptorsAccounted
  PeerIsRemote
  FileLeadsToSocket
