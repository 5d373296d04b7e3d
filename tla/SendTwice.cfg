\* A message is built while an earlier one is half sent.
SPECIFICATION Spec
CONSTANTS
  small = small
  large = large
  Packets = {small, large}
  Chunks <- MCChunks
  ChunkSize = 2
  SendingSize = 7
  FirstMax = 2
  NextMax = 1
  FirstSizes = {1}
  NextSizes = {1}
  S0S1Size = 1
  S0S1S2Size = 2
  IovMax = 3
  MaxBatch = 0
  MaxMessages = 2
  MaxPlays = 1
CHECK_DEADLOCK FALSE
INVARIANTS
  QueuedOnce
