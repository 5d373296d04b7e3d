----------------------------- MODULE MCSendPath -----------------------------
(***************************************************************************)
(* SendPath on a sending_ of a few bytes.                                  *)
(***************************************************************************)
EXTENDS SendPath

CONSTANTS small, large

\* A packet of one chunk and one of two.
MCChunks == [p \in Packets |-> IF p = small THEN 1 ELSE 2]

=============================================================================
