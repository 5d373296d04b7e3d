------------------------------ MODULE MCBuffer ------------------------------
(***************************************************************************)
(* Bytes of two values, an array of at most seven of them, strings of at   *)
(* most three, integers of one and two bytes.                              *)
(***************************************************************************)
EXTENDS Buffer

MCStrings == UNION {[1 .. n -> Byte] : n \in 0 .. 3}

\* Network order: every integer has exactly one form.
ASSUME OneForm ==
  \A w \in Widths : \A x \in Ints(w) :
    \E s \in [1 .. w -> Byte] :
      \A t \in [1 .. w -> Byte] : Queue!Value(t, w) = x <=> t = s

=============================================================================
