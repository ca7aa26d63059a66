SPECIFICATION Spec
CONSTANTS
  Chunk = 2
  MaxSent = 4
  Sent <- MCSent
  Sep <- MCSep
  Maxima = {0, 2, 3}
  Lengths = {3}
INVARIANTS
  TypeOK
  InOrder
  LineStops
  PacketExact
  PeeksOnFullChunk
