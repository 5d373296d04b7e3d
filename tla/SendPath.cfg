\* Two kinds of packets; sending_ holds the headers of one or two of them.
SPECIFICATION FairSpec
CONSTANTS
  small = small
  large = large
  Packets = {small, large}
  Chunks <- MCChunks
  ChunkSize = 2
  SendingSize = 5
  FirstMax = 2
  NextMax = 1
  FirstSizes = {1, 2}
  NextSizes = {1}
  S0S1Size = 1
  S0S1S2Size = 2
  IovMax = 3
  MaxBatch = 2
  MaxMessages = 2
  MaxPlays = 2
CHECK_DEADLOCK FALSE
INVARIANTS
  HeadersFit
  HeadersKept
  PayloadKept
  WriteArmed
PROPERTIES
  OnWriteInOrder
  Drains
