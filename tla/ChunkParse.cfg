\* Two chunk streams, two messages on each, cut anywhere.
SPECIFICATION FairSpec
CONSTANTS
  audio = audio
  video = video
  Csids = {audio, video}
  Messages <- MCMessages
  HandshakeSize = 2
  HeaderSize <- MCHeaderSize
  FirstChunkSize = 2
  MaxMessages = 2
  MaxWire = 4
  NoPacket = NoPacket
CHECK_DEADLOCK FALSE
INVARIANTS
  InStep
  Reassembled
PROPERTIES
  AllDelivered
