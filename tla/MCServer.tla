------------------------------ MODULE MCServer ------------------------------
(***************************************************************************)
(* Two descriptors, a check every two ticks, wheels of three seconds.      *)
(***************************************************************************)
EXTENDS Server

CONSTANTS f1, f2

=============================================================================
