--------------------------- MODULE MCLiveDirectory ---------------------------
(***************************************************************************)
(* LiveDirectory with a publisher, a player, and a connection that sends   *)
(* the commands of both.                                                   *)
(***************************************************************************)
EXTENDS LiveDirectory

CONSTANTS a, b, v, live, x

=============================================================================
