\* One player, every kind of packet; the ring and the clock both wrap.
SPECIFICATION Spec
CONSTANTS
  Players = {p1}
  MediaKinds = {"key", "inter", "audio"}
  HeaderKinds = {"avc", "meta"}
  BufferSize = 3
  PopBatch = 2
  Latency = 1
  TSMod = 4
  FrameIntervals = {0, 1}
  MaxIndex = 6
  NoPacket = NoPacket
  p1 = p1
  p2 = p2
CHECK_DEADLOCK FALSE
INVARIANTS
  TypeOK
  RingIntact
  CursorBounded
  SecondHeaderGiven
  BatchComplete
PROPERTIES
  LiveGopKept
  SkipLands
