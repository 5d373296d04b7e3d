--------------------------- MODULE MCTimingWheel ---------------------------
(***************************************************************************)
(* Two calls on wheels of 3 seconds, 2 minutes, 2 hours and 2 days.        *)
(***************************************************************************)
EXTENDS TimingWheel

CONSTANTS c1, c2

MCAfterDelays == {0, 2, 4, 11, 23}
MCEveryDelays == {1, 6, 8}

=============================================================================
