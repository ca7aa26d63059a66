SPECIFICATION Spec
CONSTANTS
  Chunk = 2
  MaxSent = 5
  Sent <- MCSent
  Sep <- MCSep
  Maxima = {0, 1, 3}
INVARIANTS
  TypeOK
  InOrder
  LineBounded
  PacketExact
  PacketStops
