------------------------------ MODULE MCRelay ------------------------------
(***************************************************************************)
(* Relay on two loops: one player on the publisher's loop, one elsewhere.  *)
(***************************************************************************)
EXTENDS Relay

CONSTANTS here, there, local, remote

MCHome == [p \in Players |-> IF p = local THEN here ELSE there]

=============================================================================
