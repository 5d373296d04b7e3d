----------------------------- MODULE MCMessage -----------------------------
(***************************************************************************)
(* The two computations on what a message holds, which share no state: the *)
(* values of a command, and the timestamps of audio and video.  One of     *)
(* them runs while the other rests at its start.                           *)
(*                                                                         *)
(* Commands with at most two arguments, nested two deep: inside an object  *)
(* or array one of every kind of member, next to a sibling.  Twelve        *)
(* timestamps, so that a few packets go around the wrap.                   *)
(***************************************************************************)
EXTENDS Amf0, Corrector

MCStrings == {"", "a", "bc"}
MCKeys == {"app", "k"}
MCLength == [s \in MCStrings \cup MCKeys |-> Len(s)]

Leaves ==
  {Plain("number", "1"), Plain("bool", "1"), Plain("string", "bc"),
   Plain("null", ""), Plain("undefined", "")}

\* All values with members from those of a set.
Around(values) ==
  UNION {{Value(type, "", members) : members \in [keys -> values], type \in Nested} :
         keys \in SUBSET MCKeys}

Inner == Around({Plain("string", "a"), Plain("undefined", "")})

Outer == Around(Leaves \cup {v \in Inner : Cardinality(DOMAIN v.members) <= 1})

MCArguments ==
  {<<v>> : v \in Outer} \cup
  {<<v, w>> : v \in Leaves \cup Inner, w \in Leaves \cup Inner \cup {Plain("string", "a"), Plain("string", "")}}

MessageInit == Init /\ CorrectorInit

MessageNext ==
  \/ CorrectorInit /\ UNCHANGED correctorVars /\ Next
  \/ Init /\ UNCHANGED vars /\ CorrectorNext

MessageSpec == MessageInit /\ [][MessageNext]_<<vars, correctorVars>>

=============================================================================
