---------------------------- MODULE MCChunkParse ----------------------------
(***************************************************************************)
(* ChunkParse with messages of a few bytes.                                *)
(***************************************************************************)
EXTENDS ChunkParse

CONSTANTS audio, video

\* Media of one chunk and of two, an empty message, longer and shorter chunks
\* and an end.
MCMessages ==
  {[kind |-> "Media", len |-> 3, size |-> 1],
   [kind |-> "Media", len |-> 0, size |-> 1],
   [kind |-> "SetChunkSize", len |-> 1, size |-> 3],
   [kind |-> "SetChunkSize", len |-> 1, size |-> 1],
   [kind |-> "End", len |-> 1, size |-> 1]}

MCHeaderSize == [fmt \in 0 .. 3 |-> IF fmt = 0 THEN 3 ELSE IF fmt = 3 THEN 1 ELSE 2]

=============================================================================
