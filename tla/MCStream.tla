------------------------------ MODULE MCStream ------------------------------
(***************************************************************************)
(* Stream on a ring of a few slots.                                        *)
(***************************************************************************)
EXTENDS Stream, TLC

CONSTANTS p1, p2

MCSymmetry == Permutations(Players)

=============================================================================
