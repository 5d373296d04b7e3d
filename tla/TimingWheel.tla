---------------------------- MODULE TimingWheel ----------------------------
(***************************************************************************)
(* SsmsTimingWheel as its event loop uses it: calls are asked for from     *)
(* outside of a tick (RunAfter, RunEvery) and from the calls that a tick   *)
(* runs (the second round of RunEvery); OnTiming turns the wheels at most  *)
(* once per call of it, when the second it reads is another one than the   *)
(* last time.                                                              *)
(***************************************************************************)
EXTENDS Wheels, FiniteSets

CONSTANTS
  Ids,          \* calls of RunAfter and RunEvery
  AfterDelays,  \* delays RunAfter is asked for
  EveryDelays   \* periods RunEvery is asked for (0 would never return)

ASSUME DelayAssumption ==
  /\ AfterDelays \subseteq Nat /\ EveryDelays \subseteq Nat \ {0}
  /\ \A s \in AfterDelays \cup EveryDelays : Representable(s)

VARIABLES
  wheels_,   \* the four wheels
  counts_,   \* ticks so far; only counts_ % DAY is ever read
  moved,     \* the second read next differs from last_ts_ (last_ts_ is 0 at first)
  asked,     \* auxiliary: each id's delay and period, delay -1 before it is asked
  age,       \* auxiliary: ticks since an id was asked for or last ran
  ran        \* auxiliary: what the last step ran, with the age at which it ran

wheelVars == <<wheels_, counts_, moved>>
auxVars   == <<asked, age, ran>>
vars      == <<wheelVars, auxVars>>

Never == [delay |-> -1, period |-> 0]

Init ==
  /\ wheels_ = EmptyWheels
  /\ counts_ = 0
  /\ moved = TRUE
  /\ asked = [id \in Ids |-> Never]
  /\ age = [id \in Ids |-> 0]
  /\ ran = {}

----------------------------------------------------------------------------

\* The system clock shows another second.  A clock that is set back does the
\* same: the difference is unsigned.
SecondPassed ==
  /\ ~moved
  /\ moved' = TRUE
  /\ UNCHANGED <<wheels_, counts_, auxVars>>

\* A call from outside of OnTiming, for an id that is not waiting.
Ask(id, seconds, period) ==
  LET call == [id |-> id, period |-> period]
      w    == RunAfter([wheels |-> wheels_, ran |-> <<>>], seconds, call)
  IN /\ asked[id] = Never
     /\ wheels_' = w.wheels
     /\ ran' = {[id |-> w.ran[i].id, delay |-> seconds, age |-> 0] : i \in DOMAIN w.ran}
     /\ asked' = [asked EXCEPT ![id] =
                    IF seconds = 0 THEN Never ELSE [delay |-> seconds, period |-> period]]
     /\ age' = [age EXCEPT ![id] = 0]
     /\ UNCHANGED <<counts_, moved>>

CallRunAfter(id) == \E s \in AfterDelays : Ask(id, s, 0)

CallRunEvery(id) == \E s \in EveryDelays : Ask(id, s, s)

\* OnTiming that finds another second; one that does not returns at once.
OnTiming ==
  LET count == (counts_ + 1) % DAY
      w     == Tick(wheels_, count)
      fired == {w.ran[i].id : i \in DOMAIN w.ran}
  IN /\ moved
     /\ moved' = FALSE
     /\ counts_' = count
     /\ wheels_' = w.wheels
     /\ ran' = {[id |-> id, delay |-> asked[id].delay, age |-> age[id] + 1] : id \in fired}
     /\ asked' = [id \in Ids |-> IF id \in fired /\ asked[id].period = 0
                                 THEN Never ELSE asked[id]]
     /\ age' = [id \in Ids |-> IF id \in fired \/ asked[id] = Never
                               THEN 0 ELSE age[id] + 1]

Next ==
  \/ SecondPassed
  \/ OnTiming
  \/ \E id \in Ids : CallRunAfter(id) \/ CallRunEvery(id)

Spec == Init /\ [][Next]_vars /\ WF_vars(SecondPassed) /\ WF_vars(OnTiming)

----------------------------------------------------------------------------

\* One unit of each wheel that a delay is kept in, one after the other: those
\* for which something is left when the larger units are taken off.
Late(s) ==
  (IF s % MINUTE > 0 THEN 1 ELSE 0) +
  (IF s % HOUR >= MINUTE THEN MINUTE ELSE 0) +
  (IF s % DAY >= HOUR THEN HOUR ELSE 0) +
  (IF s >= DAY THEN DAY ELSE 0)

\* The tasks that hold a call, each as its wheel, its slot and its place in it.
Places(id) ==
  {p \in UNION {{type} \X UNION {{i} \X DOMAIN wheels_[type][i] : i \in DOMAIN wheels_[type]} :
                type \in WheelTypes} :
     wheels_[p[1]][p[2][1]][p[2][2]].call.id = id}

(* A call runs neither before the ticks it was asked for nor later than one  *)
(* unit of each wheel it is kept in: RunAfter hands what is left of a delay  *)
(* from wheel to wheel, and each of them may be out of phase by one slot.    *)
OnTime ==
  /\ \A r \in ran : r.age >= r.delay
  /\ \A id \in Ids : asked[id] # Never => age[id] <= asked[id].delay + Late(asked[id].delay)

(* Between two ticks every call that is still to run is in exactly one slot  *)
(* of one wheel, and one that has run for good is in none: a slot that is    *)
(* popped while its tasks put themselves back neither drops nor doubles one. *)
KeptOnce ==
  \A id \in Ids : Cardinality(Places(id)) = IF asked[id] = Never THEN 0 ELSE 1

=============================================================================
