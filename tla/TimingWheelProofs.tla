------------------------- MODULE TimingWheelProofs -------------------------
(***************************************************************************)
(* OnTime and KeptOnce for every length of the wheels, any delays and      *)
(* periods the wheels can hold, and any number of calls.                   *)
(*                                                                         *)
(* What a call still has to wait can be read off the wheels: the ticks     *)
(* until its slot is popped, then what is left of its delay, then at most  *)
(* one unit of each wheel that takes that.  The inductive invariant says   *)
(* that a call that is to run stands in one slot and no other, and that    *)
(* its age and these ticks together are between its delay and its delay    *)
(* plus Late.  A tick turns four wheels, and what is popped from one of    *)
(* them is put back while the others have turned or not: most lemmas       *)
(* follow one call x through one turn.                                     *)
(***************************************************************************)
EXTENDS TimingWheel, FiniteSetTheorems, WellFoundedInduction, TLAPS

\* A set of numbers has a least one.
LEMMA LeastNat ==
  ASSUME NEW T, T \subseteq Nat, T # {}
  PROVE  \E m \in T : \A x \in T : m <= x
<1>1. PICK m \in T : \A y \in T : ~(<<y, m>> \in OpToRel(<, Nat))
  BY NatLessThanWellFounded, WFMin
<1>2. ASSUME NEW y \in T PROVE m <= y
  <2>1. <<y, m>> \in Nat \X Nat
    OBVIOUS
  <2>2. ~(y < m)
    BY <1>1, <2>1 DEF OpToRel
  <2>. QED BY <2>2
<1>. QED BY <1>2

\* What holds of 0 and of each number after one of which it holds, holds of all.
LEMMA IntervalInduction ==
  ASSUME NEW N \in Nat, NEW T, 0 \in T, \A i \in 1 .. N : i - 1 \in T => i \in T
  PROVE  0 .. N \subseteq T
<1>. SUFFICES ASSUME ~(0 .. N \subseteq T) PROVE FALSE
  OBVIOUS
<1>. DEFINE Out == {i \in 0 .. N : i \notin T}
<1>1. Out \subseteq Nat /\ Out # {}
  OBVIOUS
<1>2. PICK m \in Out : \A x \in Out : m <= x
  <2>. HIDE DEF Out
  <2>. QED BY <1>1, LeastNat
<1>3. m \in 1 .. N /\ m \notin T
  OBVIOUS
<1>4. m - 1 \in 0 .. N /\ m - 1 \notin Out
  BY <1>2, <1>3
<1>. QED BY <1>3, <1>4

\* A function on 0 .. N that starts with x and goes on as F says.
Recursion(S, x, N, F) ==
  \E f \in [0 .. N -> S] : f[0] = x /\ \A i \in 1 .. N : f[i] = F[i][f[i - 1]]

\* There is one, whatever the step: what the definition of a recursive function
\* chooses is there to be chosen.
LEMMA RecursionExists ==
  ASSUME NEW S, NEW x \in S, NEW N \in Nat, NEW F \in [1 .. N -> [S -> S]]
  PROVE  Recursion(S, x, N, F)
<1>. DEFINE Upto(n, f) == f[0] = x /\ \A i \in 1 .. n : f[i] = F[i][f[i - 1]]
            T == {n \in 0 .. N : \E f \in [0 .. n -> S] : Upto(n, f)}
<1>1. 0 \in T
  <2>. DEFINE g == [i \in 0 .. 0 |-> x]
  <2>1. g \in [0 .. 0 -> S] /\ Upto(0, g)
    OBVIOUS
  <2>. HIDE DEF g, Upto
  <2>2. \E f \in [0 .. 0 -> S] : Upto(0, f)
    BY <2>1
  <2>. QED BY <2>2
<1>2. ASSUME NEW n \in 1 .. N, n - 1 \in T PROVE n \in T
  <2>1. PICK f \in [0 .. n - 1 -> S] : Upto(n - 1, f)
    BY <1>2
  <2>. DEFINE g == [i \in 0 .. n |-> IF i = n THEN F[n][f[n - 1]] ELSE f[i]]
  <2>2. f[n - 1] \in S /\ F[n][f[n - 1]] \in S
    OBVIOUS
  <2>3. g \in [0 .. n -> S]
    BY <2>2
  <2>4. \A i \in 0 .. n - 1 : g[i] = f[i]
    OBVIOUS
  <2>5. g[n] = F[n][g[n - 1]]
    <3>1. n \in 0 .. n /\ n - 1 \in 0 .. n - 1
      OBVIOUS
    <3>2. g[n] = F[n][f[n - 1]]
      BY <3>1
    <3>3. g[n - 1] = f[n - 1]
      BY <2>4, <3>1
    <3>. HIDE DEF g
    <3>. QED BY <3>2, <3>3
  <2>6. Upto(n, g)
    <3>. HIDE DEF g
    <3>1. g[0] = x
      BY <2>1, <2>4
    <3>2. ASSUME NEW i \in 1 .. n PROVE g[i] = F[i][g[i - 1]]
      <4>1. CASE i = n
        BY <4>1, <2>5
      <4>2. CASE i # n
        <5>1. i \in 1 .. n - 1 /\ i - 1 \in 0 .. n - 1 /\ i \in 0 .. n - 1
          BY <4>2
        <5>. QED BY <5>1, <2>1, <2>4
      <4>. QED BY <4>1, <4>2
    <3>. QED BY <3>1, <3>2
  <2>. HIDE DEF g
  <2>. QED BY <2>3, <2>6, SMTT(30)
<1>3. N \in T
  <2>. HIDE DEF T
  <2>1. 0 .. N \subseteq T
    BY <1>1, <1>2, IntervalInduction
  <2>. QED BY <2>1
<1>. QED BY <1>3 DEF Recursion

----------------------------------------------------------------------------
(* Types. *)

\* What the wheels can hold, and the values they take: lists of tasks, one for each
\* slot, of which each has less left than the unit of its wheel.
Periods == {p \in Nat : Representable(p)}
Calls   == [id : Ids, period : Periods]
Held(t) == [call : Calls, extra : 0 .. Unit(t) - 1]
Shape(t) == [0 .. Slots(t) - 1 -> Seq(Held(t))]

WheelsType ==
  {W \in [WheelTypes -> UNION {Shape(t) : t \in WheelTypes}] :
     \A t \in WheelTypes : W[t] \in Shape(t)}

State == [wheels : WheelsType, ran : Seq(Calls)]

\* A length that is so many times another is that many times at least once.
LEMMA DivPositive ==
  ASSUME NEW a \in Nat \ {0}, NEW b \in Nat \ {0}, a % b = 0
  PROVE  a \div b \in Nat \ {0} /\ b <= a /\ a = b * (a \div b)
  OBVIOUS

\* What UnitAssumption says of all four wheels at once.
LEMMA Units ==
  /\ MINUTE \in Nat \ {0} /\ HOUR \in Nat \ {0} /\ DAY \in Nat \ {0}
  /\ MINUTE <= HOUR /\ HOUR <= DAY
  /\ Unit("Second") = 1 /\ Unit("Minute") = MINUTE /\ Unit("Hour") = HOUR /\ Unit("Day") = DAY
  /\ \A t \in WheelTypes : Unit(t) \in Nat \ {0} /\ Slots(t) \in Nat \ {0}
  <1>1. /\ MINUTE \in Nat \ {0} /\ HOUR \in Nat \ {0} /\ DAY \in Nat \ {0}
        /\ HOUR % MINUTE = 0 /\ DAY % HOUR = 0
        /\ DAY_SLOTS \in Nat \ {0}
    BY UnitAssumption
  <1>2. HOUR \div MINUTE \in Nat \ {0} /\ DAY \div HOUR \in Nat \ {0}
        /\ MINUTE <= HOUR /\ HOUR <= DAY
    BY <1>1, DivPositive
  <1>3. /\ Slots("Second") = MINUTE
        /\ Slots("Minute") = HOUR \div MINUTE
        /\ Slots("Hour") = DAY \div HOUR
        /\ Slots("Day") = DAY_SLOTS
    BY DEF Slots
  <1>4. Unit("Second") = 1 /\ Unit("Minute") = MINUTE /\ Unit("Hour") = HOUR /\ Unit("Day") = DAY
    BY DEF Unit
  <1> QED BY <1>1, <1>2, <1>3, <1>4 DEF WheelTypes

\* The slot Insert takes: there is one, it is not the first, and what is left is
\* less than its unit.
LEMMA DivIs ==
  ASSUME NEW a \in Nat, NEW b \in Nat \ {0}
  PROVE  /\ a \div b \in Nat /\ a % b \in 0 .. b - 1
         /\ a = b * (a \div b) + (a % b)
         /\ a >= b => a \div b > 0
  <1>1. a \div b \in Nat /\ a % b \in 0 .. b - 1 /\ a = b * (a \div b) + (a % b)
    OBVIOUS
  <1>2. a >= b => a \div b # 0
    BY <1>1
  <1> QED BY <1>1, <1>2

\* The same with names for the quotient and the remainder: the provers multiply
\* names, not quotients.
LEMMA Divided ==
  ASSUME NEW a \in Nat, NEW b \in Nat \ {0}
  PROVE  \E q \in Nat, r \in 0 .. b - 1 : q = a \div b /\ r = a % b /\ a = b * q + r
  <1>1. PICK q : q = a \div b
    OBVIOUS
  <1>2. PICK r : r = a % b
    OBVIOUS
  <1>3. q \in Nat /\ r \in 0 .. b - 1 /\ a = b * q + r
    BY <1>1, <1>2, DivIs
  <1> QED BY <1>1, <1>2, <1>3

\* Less than k times b has a quotient below k.
LEMMA DivBelow ==
  ASSUME NEW a \in Nat, NEW b \in Nat \ {0}, NEW k \in Nat, a < b * k
  PROVE  a \div b < k
  <1>1. PICK q \in Nat : q = a \div b /\ a >= b * q
    BY DivIs
  <1>2. ASSUME q >= k PROVE FALSE
    <2>1. b * q >= b * k
      BY <1>2
    <2> QED BY <1>1, <2>1
  <1> QED BY <1>1, <1>2

\* A delay that can be held has a wheel, and a slot of it other than the next.
LEMMA SlotIs ==
  ASSUME NEW s \in Nat \ {0}, Representable(s)
  PROVE  /\ WheelFor(s) \in WheelTypes
         /\ s \div Unit(WheelFor(s)) \in 1 .. Slots(WheelFor(s)) - 1
         /\ s % Unit(WheelFor(s)) \in 0 .. Unit(WheelFor(s)) - 1
         /\ s >= Unit(WheelFor(s))
  <1>0. /\ MINUTE \in Nat \ {0} /\ HOUR \in Nat \ {0} /\ DAY \in Nat \ {0}
        /\ HOUR % MINUTE = 0 /\ DAY % HOUR = 0
        /\ DAY_SLOTS \in Nat \ {0} /\ MINUTE <= HOUR /\ HOUR <= DAY
    BY UnitAssumption, Units
  <1>1. CASE s < MINUTE
    <2>1. WheelFor(s) = "Second"
      <3>1. ~(s >= MINUTE /\ s < HOUR) /\ ~(s >= HOUR /\ s < DAY)
        BY <1>0, <1>1
      <3> QED BY <1>1, <3>1 DEF WheelFor
    <2>2. s \div 1 = s /\ s % 1 = 0
      OBVIOUS
    <2> QED BY <1>0, <1>1, <2>1, <2>2 DEF Unit, Slots, WheelTypes
  <1>2. CASE s >= MINUTE /\ s < HOUR
    <2>1. WheelFor(s) = "Minute"
      <3>1. ~(s < MINUTE) /\ ~(s >= HOUR /\ s < DAY)
        BY <1>0, <1>2
      <3> QED BY <1>2, <3>1 DEF WheelFor
    <2>2. HOUR \div MINUTE \in Nat /\ s < MINUTE * (HOUR \div MINUTE)
      BY <1>0, <1>2, DivPositive
    <2>3. s \div MINUTE < HOUR \div MINUTE
      BY <1>0, <2>2, DivBelow
    <2>4. s \div MINUTE \in Nat /\ s \div MINUTE > 0 /\ s % MINUTE \in 0 .. MINUTE - 1
      BY <1>0, <1>2, DivIs
    <2>5. Unit("Minute") = MINUTE /\ Slots("Minute") = HOUR \div MINUTE /\ "Minute" \in WheelTypes
      BY DEF Unit, Slots, WheelTypes
    <2> QED BY <1>2, <2>1, <2>2, <2>3, <2>4, <2>5
  <1>3. CASE s >= HOUR /\ s < DAY
    <2>1. WheelFor(s) = "Hour"
      <3>1. ~(s < MINUTE) /\ ~(s >= MINUTE /\ s < HOUR)
        BY <1>0, <1>3
      <3> QED BY <1>3, <3>1 DEF WheelFor
    <2>2. DAY \div HOUR \in Nat /\ s < HOUR * (DAY \div HOUR)
      BY <1>0, <1>3, DivPositive
    <2>3. s \div HOUR < DAY \div HOUR
      BY <1>0, <2>2, DivBelow
    <2>4. s \div HOUR \in Nat /\ s \div HOUR > 0 /\ s % HOUR \in 0 .. HOUR - 1
      BY <1>0, <1>3, DivIs
    <2>5. Unit("Hour") = HOUR /\ Slots("Hour") = DAY \div HOUR /\ "Hour" \in WheelTypes
      BY DEF Unit, Slots, WheelTypes
    <2> QED BY <1>3, <2>1, <2>2, <2>3, <2>4, <2>5
  <1>4. CASE s >= DAY
    <2>1. WheelFor(s) = "Day"
      <3>1. ~(s < MINUTE) /\ ~(s >= MINUTE /\ s < HOUR) /\ ~(s >= HOUR /\ s < DAY)
        BY <1>0, <1>4
      <3> QED BY <3>1 DEF WheelFor
    <2>3. s \div DAY < DAY_SLOTS
      BY DEF Representable
    <2>4. s \div DAY \in Nat /\ s \div DAY > 0 /\ s % DAY \in 0 .. DAY - 1
      BY <1>0, <1>4, DivIs
    <2>5. Unit("Day") = DAY /\ Slots("Day") = DAY_SLOTS /\ "Day" \in WheelTypes
      BY DEF Unit, Slots, WheelTypes
    <2> QED BY <1>0, <1>4, <2>1, <2>3, <2>4, <2>5
  <1> QED BY <1>0, <1>1, <1>2, <1>3, <1>4

----------------------------------------------------------------------------
(* A slot. *)

\* A list without a task of x ...
Free(q, x) == \A m \in 1 .. Len(q) : q[m].call.id # x

\* ... one whose n-th task is the only one of x ...
Single(q, x, n, task) ==
  /\ n \in 1 .. Len(q) /\ q[n] = task
  /\ \A m \in 1 .. Len(q) : q[m].call.id = x <=> m = n

\* ... and one with a single such task somewhere.
Once(q, x, task) == \E n \in 1 .. Len(q) : Single(q, x, n, task)

\* r is q and after it tasks of others than x.
More(x, q, r) ==
  /\ Len(q) <= Len(r)
  /\ \A m \in 1 .. Len(r) : IF m <= Len(q) THEN r[m] = q[m] ELSE r[m].call.id # x

\* More is an order that keeps what is known of x.
LEMMA MoreSelf ==
  ASSUME NEW S, NEW q \in Seq(S), NEW x
  PROVE  More(x, q, q)
  BY DEF More

LEMMA MoreTrans ==
  ASSUME NEW S, NEW x, NEW q \in Seq(S), NEW r \in Seq(S), NEW s \in Seq(S),
         More(x, q, r), More(x, r, s)
  PROVE  More(x, q, s)
  BY DEF More

LEMMA MoreFree ==
  ASSUME NEW S, NEW x, NEW q \in Seq(S), NEW r \in Seq(S), More(x, q, r), Free(q, x)
  PROVE  Free(r, x)
  BY DEF More, Free

LEMMA MoreOnce ==
  ASSUME NEW S, NEW x, NEW q \in Seq(S), NEW r \in Seq(S), NEW task, More(x, q, r),
         Once(q, x, task)
  PROVE  Once(r, x, task)
  <1>1. PICK n \in 1 .. Len(q) : Single(q, x, n, task)
    BY DEF Once
  <1>2. Single(r, x, n, task)
    BY <1>1 DEF Single, More
  <1>3. n \in 1 .. Len(r)
    BY <1>2 DEF Single
  <1> QED BY <1>2, <1>3 DEF Once

\* A task of another call leaves x alone; one of its own is its only one if the list
\* was free of it.
LEMMA AppendOther ==
  ASSUME NEW S, NEW x, NEW q \in Seq(S), NEW task \in S, task.call.id # x
  PROVE  More(x, q, Append(q, task))
  BY DEF More

LEMMA AppendOwn ==
  ASSUME NEW S, NEW q \in Seq(S), NEW task \in S, Free(q, task.call.id)
  PROVE  Once(Append(q, task), task.call.id, task)
  <1>1. Single(Append(q, task), task.call.id, Len(q) + 1, task)
    BY DEF Single, Free
  <1> QED BY <1>1 DEF Once

----------------------------------------------------------------------------
(* All the slots. *)

\* The slots of a wheel, and that they hold lists of its tasks.
Slot(t) == 0 .. Slots(t) - 1

LEMMA SlotType ==
  ASSUME NEW W \in WheelsType, NEW t \in WheelTypes
  PROVE  /\ W[t] \in Shape(t)
         /\ \A j \in Slot(t) : W[t][j] \in Seq(Held(t))
         /\ W = [u \in WheelTypes |-> W[u]]
  <1>1. W[t] \in Shape(t)
    BY DEF WheelsType
  <1>2. \A j \in Slot(t) : W[t][j] \in Seq(Held(t))
    BY <1>1 DEF Shape, Slot
  <1>3. W \in [WheelTypes -> UNION {Shape(u) : u \in WheelTypes}]
    BY DEF WheelsType
  <1>4. W = [u \in WheelTypes |-> W[u]]
    BY <1>3
  <1> QED BY <1>1, <1>2, <1>4

\* One wheel is another one.
LEMMA WheelType ==
  ASSUME NEW W \in WheelsType, NEW t \in WheelTypes, NEW wheel \in Shape(t)
  PROVE  /\ [W EXCEPT ![t] = wheel] \in WheelsType
         /\ [W EXCEPT ![t] = wheel][t] = wheel
         /\ \A u \in WheelTypes \ {t} : [W EXCEPT ![t] = wheel][u] = W[u]
  <1>1. \A u \in WheelTypes : W[u] \in Shape(u)
    BY DEF WheelsType
  <1>2. W \in [WheelTypes -> UNION {Shape(u) : u \in WheelTypes}]
    BY DEF WheelsType
  <1>3. [W EXCEPT ![t] = wheel] \in [WheelTypes -> UNION {Shape(u) : u \in WheelTypes}]
    BY <1>2
  <1>4. \A u \in WheelTypes : [W EXCEPT ![t] = wheel][u] = IF u = t THEN wheel ELSE W[u]
    BY <1>2
  <1>5. \A u \in WheelTypes : [W EXCEPT ![t] = wheel][u] \in Shape(u)
    BY <1>1, <1>4
  <1> QED BY <1>3, <1>4, <1>5 DEF WheelsType


\* Where a delay is kept.
Place(s) == s \div Unit(WheelFor(s))
TaskOf(s, call) == [call |-> call, extra |-> s % Unit(WheelFor(s))]

\* From W to V a call was put in, and nothing else.
Put(W, V, s, call) ==
  /\ V[WheelFor(s)][Place(s)] = Append(W[WheelFor(s)][Place(s)], TaskOf(s, call))
  /\ \A u \in WheelTypes : \A j \in Slot(u) :
       u # WheelFor(s) \/ j # Place(s) => V[u][j] = W[u][j]

\* What Insert does to a slot, and that it leaves the others alone.
LEMMA InsertIs ==
  ASSUME NEW W \in WheelsType, NEW s \in Nat \ {0}, Representable(s), NEW call \in Calls
  PROVE  Insert(W, s, call) \in WheelsType /\ Put(W, Insert(W, s, call), s, call)
  <1> DEFINE t    == WheelFor(s)
             k    == Place(s)
             task == TaskOf(s, call)
             wheel == [W[t] EXCEPT ![k] = Append(@, task)]
  <1>1. t \in WheelTypes /\ k \in Slot(t) /\ task \in Held(t)
    BY SlotIs DEF Slot, Held, Place, TaskOf
  <1>2. Insert(W, s, call) = [W EXCEPT ![t][k] = Append(@, task)]
    BY DEF Insert, Place, TaskOf
  <1> HIDE DEF t, k, task
  <1>3. W[t] \in [Slot(t) -> Seq(Held(t))]
    BY <1>1, SlotType DEF Shape, Slot
  <1>4. wheel \in Shape(t) /\ wheel[k] = Append(W[t][k], task)
        /\ \A j \in Slot(t) \ {k} : wheel[j] = W[t][j]
    <2>1. PICK q \in [Slot(t) -> Seq(Held(t))] : q = W[t]
      BY <1>3
    <2>3. PICK r \in Seq(Held(t)) : r = Append(q[k], task)
      <3>0. PICK S : S = Held(t)
        OBVIOUS
      <3>1. q[k] \in Seq(S) /\ task \in S
        BY <1>1, <2>1, <3>0
      <3>2. Append(q[k], task) \in Seq(S)
        BY <3>1
      <3> QED BY <3>0, <3>2
    <2>4. wheel = [q EXCEPT ![k] = r]
      BY <2>1, <2>3
    <2>5. /\ [q EXCEPT ![k] = r] \in [Slot(t) -> Seq(Held(t))]
          /\ [q EXCEPT ![k] = r][k] = r
          /\ \A j \in Slot(t) \ {k} : [q EXCEPT ![k] = r][j] = q[j]
      BY <1>1
    <2> HIDE DEF wheel
    <2>6. wheel \in [Slot(t) -> Seq(Held(t))]
      BY <2>4, <2>5
    <2>7. wheel[k] = Append(W[t][k], task) /\ \A j \in Slot(t) \ {k} : wheel[j] = W[t][j]
      BY <2>1, <2>3, <2>4, <2>5
    <2> QED BY <2>6, <2>7 DEF Shape, Slot
  <1>5. [W EXCEPT ![t][k] = Append(@, task)] = [W EXCEPT ![t] = wheel]
    OBVIOUS
  <1> HIDE DEF wheel
  <1>6. /\ [W EXCEPT ![t] = wheel] \in WheelsType
        /\ [W EXCEPT ![t] = wheel][t] = wheel
        /\ \A u \in WheelTypes \ {t} : [W EXCEPT ![t] = wheel][u] = W[u]
    BY <1>1, <1>4, WheelType
  <1>7. PICK V : V = Insert(W, s, call)
    OBVIOUS
  <1>8. /\ V \in WheelsType /\ V[t][k] = Append(W[t][k], task)
        /\ \A u \in WheelTypes : \A j \in Slot(u) : u # t \/ j # k => V[u][j] = W[u][j]
    BY <1>1, <1>2, <1>4, <1>5, <1>6, <1>7
  <1> QED BY <1>7, <1>8 DEF Put, t, k, task

----------------------------------------------------------------------------
(* A call that runs. *)

\* The call of x has run.
Ran(w, x) == \E i \in 1 .. Len(w.ran) : w.ran[i].id = x

\* From w to v only calls of others than x were put in or ran.
Beside(x, w, v) ==
  /\ \A t \in WheelTypes : \A j \in Slot(t) : More(x, w.wheels[t][j], v.wheels[t][j])
  /\ Ran(v, x) <=> Ran(w, x)

\* Beside, too, is an order.
LEMMA BesideSelf ==
  ASSUME NEW x, NEW w \in State
  PROVE  Beside(x, w, w)
  <1>1. w.wheels \in WheelsType
    BY DEF State
  <1>2. \A t \in WheelTypes : \A j \in Slot(t) : More(x, w.wheels[t][j], w.wheels[t][j])
    BY <1>1, SlotType, MoreSelf
  <1> QED BY <1>2 DEF Beside

LEMMA BesideTrans ==
  ASSUME NEW x, NEW w \in State, NEW v \in State, NEW u \in State,
         Beside(x, w, v), Beside(x, v, u)
  PROVE  Beside(x, w, u)
  <1>1. w.wheels \in WheelsType /\ v.wheels \in WheelsType /\ u.wheels \in WheelsType
    BY DEF State
  <1>2. ASSUME NEW t \in WheelTypes, NEW j \in Slot(t)
        PROVE  More(x, w.wheels[t][j], u.wheels[t][j])
    <2>1. /\ w.wheels[t][j] \in Seq(Held(t)) /\ v.wheels[t][j] \in Seq(Held(t))
          /\ u.wheels[t][j] \in Seq(Held(t))
      BY <1>1, SlotType
    <2>2. More(x, w.wheels[t][j], v.wheels[t][j]) /\ More(x, v.wheels[t][j], u.wheels[t][j])
      BY DEF Beside
    <2> QED BY <2>1, <2>2, MoreTrans
  <1> QED BY <1>2 DEF Beside

\* Who has run after one more call has.
LEMMA RanAppend ==
  ASSUME NEW calls \in Seq(Calls), NEW call \in Calls, NEW wheels, NEW wheels2, NEW x
  PROVE  Ran([wheels |-> wheels2, ran |-> Append(calls, call)], x)
           <=> Ran([wheels |-> wheels, ran |-> calls], x) \/ call.id = x
  <1>1. Len(Append(calls, call)) = Len(calls) + 1 /\ Append(calls, call)[Len(calls) + 1] = call
        /\ \A i \in 1 .. Len(calls) : Append(calls, call)[i] = calls[i]
    OBVIOUS
  <1> DEFINE r == Append(calls, call)
  <1> HIDE DEF r
  <1>2. (\E i \in 1 .. Len(r) : r[i].id = x) <=> (\E i \in 1 .. Len(calls) : calls[i].id = x) \/ call.id = x
    BY <1>1 DEF r
  <1> QED BY <1>2 DEF Ran, r


\* RunAfter: what it puts in and what it runs.
RunAfterDoes(w, s, call, v) ==
  /\ v \in State
  /\ s > 0 => Put(w.wheels, v.wheels, s, call) /\ \A x : Ran(v, x) <=> Ran(w, x)
  /\ s = 0 => \A x : Ran(v, x) <=> Ran(w, x) \/ call.id = x
  /\ s = 0 /\ call.period = 0 => v.wheels = w.wheels
  /\ s = 0 /\ call.period > 0 => Put(w.wheels, v.wheels, call.period, call)

\* RunAfter does so for all a task may be popped with.
LEMMA RunAfterIs ==
  ASSUME NEW w \in State, NEW s \in Periods, NEW call \in Calls
  PROVE  RunAfterDoes(w, s, call, RunAfter(w, s, call))
  <1>0. PICK v : v = RunAfter(w, s, call)
    OBVIOUS
  <1>1. /\ w.wheels \in WheelsType /\ w.ran \in Seq(Calls)
        /\ w = [wheels |-> w.wheels, ran |-> w.ran]
    BY DEF State
  <1>2. s \in Nat /\ Representable(s) /\ call.period \in Nat /\ Representable(call.period)
    BY DEF Periods, Calls
  <1>a. Append(w.ran, call) \in Seq(Calls)
    BY <1>1
  <1>3. CASE s > 0
    <2>0. PICK V : V = Insert(w.wheels, s, call)
      OBVIOUS
    <2>1. v = [wheels |-> V, ran |-> w.ran]
      BY <1>0, <1>1, <1>2, <1>3, <2>0 DEF RunAfter
    <2>2. V \in WheelsType /\ Put(w.wheels, V, s, call)
      BY <1>1, <1>2, <1>3, <2>0, InsertIs
    <2>4. v \in State
      BY <1>1, <2>1, <2>2 DEF State
    <2>5. \A x : Ran(v, x) <=> Ran(w, x)
      BY <2>1 DEF Ran
    <2>6. Put(w.wheels, v.wheels, s, call)
      BY <2>1, <2>2
    <2> QED BY <1>0, <1>3, <2>4, <2>5, <2>6 DEF RunAfterDoes
  <1>4. CASE s = 0 /\ call.period = 0
    <2>0. v = [w EXCEPT !.ran = Append(@, call)]
      BY <1>0, <1>4 DEF RunAfter
    <2>1. v = [wheels |-> w.wheels, ran |-> Append(w.ran, call)]
      <3>1. PICK r : r = Append(w.ran, call)
        OBVIOUS
      <3> QED BY <1>1, <2>0, <3>1
    <2>2. v \in State /\ v.wheels = w.wheels
      BY <1>1, <1>a, <2>1 DEF State
    <2>3. \A x : Ran(v, x) <=> Ran(w, x) \/ call.id = x
      BY <1>1, <2>1, RanAppend
    <2> QED BY <1>0, <1>4, <2>2, <2>3 DEF RunAfterDoes
  <1>5. CASE s = 0 /\ call.period > 0
    <2>0. PICK V : V = Insert(w.wheels, call.period, call)
      OBVIOUS
    <2>1. v = [wheels |-> V, ran |-> Append(w.ran, call)]
      BY <1>0, <1>1, <1>2, <1>5, <2>0 DEF RunAfter
    <2>2. V \in WheelsType /\ Put(w.wheels, V, call.period, call)
      BY <1>1, <1>2, <1>5, <2>0, InsertIs
    <2>4. v \in State
      BY <1>1, <1>a, <2>1, <2>2 DEF State
    <2>5. \A x : Ran(v, x) <=> Ran(w, x) \/ call.id = x
      BY <1>1, <2>1, RanAppend
    <2>6. Put(w.wheels, v.wheels, call.period, call)
      BY <2>1, <2>2
    <2> QED BY <1>0, <1>5, <2>4, <2>5, <2>6 DEF RunAfterDoes
  <1> QED BY <1>2, <1>3, <1>4, <1>5

\* What is put for another call leaves x alone, and so does all of another's RunAfter.
LEMMA PutBeside ==
  ASSUME NEW x, NEW w \in State, NEW v \in State, NEW s \in Nat \ {0}, Representable(s),
         NEW call \in Calls, call.id # x, Put(w.wheels, v.wheels, s, call), Ran(v, x) <=> Ran(w, x)
  PROVE  Beside(x, w, v)
  <1> DEFINE t    == WheelFor(s)
             k    == Place(s)
             task == TaskOf(s, call)
  <1>1. w.wheels \in WheelsType /\ v.wheels \in WheelsType
    BY DEF State
  <1>2. t \in WheelTypes /\ k \in 1 .. Slots(t) - 1 /\ task \in Held(t) /\ task.call.id # x
    BY SlotIs DEF Held, Place, TaskOf
  <1>3. /\ v.wheels[t][k] = Append(w.wheels[t][k], task)
        /\ \A u \in WheelTypes : \A j \in Slot(u) :
             u # t \/ j # k => v.wheels[u][j] = w.wheels[u][j]
    BY DEF Put
  <1> HIDE DEF t, k, task
  <1>4. ASSUME NEW u \in WheelTypes, NEW j \in Slot(u)
        PROVE  More(x, w.wheels[u][j], v.wheels[u][j])
    <2>0. PICK S : S = Held(u)
      OBVIOUS
    <2>1. w.wheels[u][j] \in Seq(S)
      BY <1>1, <2>0, SlotType
    <2>2. CASE u = t /\ j = k
      <3>1. task \in S
        BY <1>2, <2>0, <2>2
      <3>2. More(x, w.wheels[u][j], Append(w.wheels[u][j], task))
        BY <1>2, <2>1, <3>1, AppendOther
      <3> QED BY <1>3, <2>2, <3>2
    <2>3. CASE u # t \/ j # k
      BY <1>3, <2>1, <2>3, MoreSelf
    <2> QED BY <2>2, <2>3
  <1> QED BY <1>4 DEF Beside

LEMMA RunAfterBeside ==
  ASSUME NEW x, NEW w \in State, NEW s \in Periods, NEW call \in Calls, call.id # x
  PROVE  Beside(x, w, RunAfter(w, s, call))
  <1>1. PICK v : v = RunAfter(w, s, call)
    OBVIOUS
  <1>3. s \in Nat /\ Representable(s) /\ call.period \in Nat /\ Representable(call.period)
    BY DEF Periods, Calls
  <1>2. RunAfterDoes(w, s, call, v)
    BY <1>1, RunAfterIs
  <1>r. v \in State /\ (Ran(v, x) <=> Ran(w, x))
    BY <1>2, <1>3 DEF RunAfterDoes
  <1>4. CASE s > 0
    <2>1. Put(w.wheels, v.wheels, s, call)
      BY <1>2, <1>4 DEF RunAfterDoes
    <2> QED BY <1>1, <1>r, <1>3, <1>4, <2>1, PutBeside
  <1>5. CASE s = 0 /\ call.period > 0
    <2>1. Put(w.wheels, v.wheels, call.period, call)
      BY <1>2, <1>5 DEF RunAfterDoes
    <2> QED BY <1>1, <1>r, <1>3, <1>5, <2>1, PutBeside
  <1>6. CASE s = 0 /\ call.period = 0
    <2>1. v.wheels = w.wheels
      BY <1>2, <1>6 DEF RunAfterDoes
    <2>2. Beside(x, w, w)
      BY BesideSelf
    <2> QED BY <1>1, <1>r, <2>1, <2>2 DEF Beside
  <1> QED BY <1>3, <1>4, <1>5, <1>6

----------------------------------------------------------------------------
(* The tasks of a slot, one after the other. *)

\* What a task has left can be asked for again.
LEMMA ExtraIs ==
  ASSUME NEW t \in WheelTypes, NEW e \in 0 .. Unit(t) - 1
  PROVE  e \in Periods
  <1>1. Unit(t) \in Nat /\ Unit(t) <= DAY
    BY Units DEF WheelTypes
  <1>2. e \in Nat /\ e < DAY * 1
    BY <1>1, Units
  <1>3. e \div DAY < 1
    BY <1>2, DivBelow, Units
  <1>4. DAY_SLOTS \in Nat \ {0} /\ e \div DAY \in Int
    BY <1>2, Units, UnitAssumption
  <1> QED BY <1>2, <1>3, <1>4 DEF Periods, Representable

\* The values RunAll goes through.
Runs(w, tasks, f) ==
  /\ f \in [0 .. Len(tasks) -> State]
  /\ f[0] = w
  /\ \A i \in 1 .. Len(tasks) : f[i] = RunAfter(f[i - 1], tasks[i].extra, tasks[i].call)

\* What RunAll hands to RunAfter is of the right kind, so RunAll goes through states
\* of the wheels.
LEMMA TaskIs ==
  ASSUME NEW t \in WheelTypes, NEW tasks \in Seq(Held(t)), NEW i \in 1 .. Len(tasks)
  PROVE  tasks[i].extra \in Periods /\ tasks[i].call \in Calls
  <1>1. tasks[i] \in Held(t)
    OBVIOUS
  <1>2. tasks[i].extra \in 0 .. Unit(t) - 1 /\ tasks[i].call \in Calls
    BY <1>1 DEF Held
  <1> QED BY <1>2, ExtraIs

LEMMA RunAllIs ==
  ASSUME NEW t \in WheelTypes, NEW tasks \in Seq(Held(t)), NEW w \in State
  PROVE  \E f : Runs(w, tasks, f) /\ RunAll(w, tasks) = f[Len(tasks)]
  <1> DEFINE N == Len(tasks)
             R(v, i) == RunAfter(v, tasks[i].extra, tasks[i].call)
             F == [i \in 1 .. N |-> [v \in State |-> R(v, i)]]
             G(g) == [n \in 0 .. N |->
                        IF n = 0 THEN w ELSE RunAfter(g[n - 1], tasks[n].extra, tasks[n].call)]
             after == CHOOSE g : g = G(g)
  <1>1. N \in Nat
    OBVIOUS
  <1>2. \A i \in 1 .. N : \A v \in State : R(v, i) \in State
    BY TaskIs, RunAfterIs DEF RunAfterDoes
  <1>3. F \in [1 .. N -> [State -> State]]
    <2> HIDE DEF R, N
    <2> QED BY <1>2
  <1>4. PICK f \in [0 .. N -> State] : f[0] = w /\ \A i \in 1 .. N : f[i] = F[i][f[i - 1]]
    <2>. HIDE DEF F, N
    <2>1. Recursion(State, w, N, F)
      BY <1>1, <1>3, RecursionExists
    <2>. QED BY <2>1 DEF Recursion
  <1>5. \A i \in 1 .. N : f[i] = R(f[i - 1], i)
    <2>1. \A i \in 1 .. N : i - 1 \in 0 .. N /\ f[i - 1] \in State
      BY <1>1
    <2> HIDE DEF R, N
    <2>2. \A i \in 1 .. N : \A v \in State : F[i][v] = R(v, i)
      OBVIOUS
    <2> HIDE DEF F
    <2>. QED BY <1>4, <2>1, <2>2
  <1>6. f = G(f)
    <2>2. f = [i \in 0 .. N |-> f[i]]
      OBVIOUS
    <2>3. \A i \in 0 .. N : f[i] = IF i = 0 THEN w ELSE R(f[i - 1], i)
      <3> HIDE DEF F, R
      <3> QED BY <1>1, <1>4, <1>5
    <2>. HIDE DEF F, N
    <2>. QED BY <2>2, <2>3, Zenon
  <1>7. after = G(after)
    BY <1>6
  <1>8. RunAll(w, tasks) = after[N]
    BY DEF RunAll
  <1> HIDE DEF F
  <1>9. after[0] = w /\ \A i \in 1 .. N : after[i] = R(after[i - 1], i)
    <2>. HIDE DEF after, R
    <2>1. 0 \in 0 .. N /\ \A i \in 1 .. N : i \in 0 .. N /\ i # 0
      BY <1>1
    <2>. HIDE DEF N
    <2>2. \A i \in 0 .. N : after[i] = IF i = 0 THEN w ELSE R(after[i - 1], i)
      BY <1>7, Zenon DEF R
    <2>. QED BY <2>1, <2>2
  <1> HIDE DEF after
  <1>10. \A i \in 0 .. N : after[i] \in State
    <2>. DEFINE T == {i \in 0 .. N : after[i] \in State}
    <2> HIDE DEF R
    <2>1. 0 \in T /\ \A i \in 1 .. N : i - 1 \in T => i \in T
      BY <1>1, <1>2, <1>9
    <2>. HIDE DEF T
    <2>2. 0 .. N \subseteq T
      BY <1>1, <2>1, IntervalInduction
    <2>. QED BY <2>2 DEF T
  <1>11. after = [n \in 0 .. N |-> after[n]]
    <2> HIDE DEF N
    <2>1. G(after) = [n \in 0 .. N |-> G(after)[n]]
      OBVIOUS
    <2> HIDE DEF G
    <2> QED BY <1>7, <2>1
  <1>12. Runs(w, tasks, after)
    <2>1. after \in [0 .. N -> State]
      BY <1>10, <1>11
    <2> QED BY <1>9, <2>1 DEF Runs
  <1> QED BY <1>8, <1>12

\* As long as the tasks are of other calls, RunAll leaves x alone.
LEMMA RunsChain ==
  ASSUME NEW t \in WheelTypes, NEW tasks \in Seq(Held(t)), NEW w \in State, NEW f,
         Runs(w, tasks, f), NEW x, NEW a \in 0 .. Len(tasks), NEW b \in a .. Len(tasks),
         \A m \in a + 1 .. b : tasks[m].call.id # x
  PROVE  Beside(x, f[a], f[b])
  <1> DEFINE N == Len(tasks)
             T == {i \in 0 .. b : i >= a => Beside(x, f[a], f[i])}
  <1>1. N \in Nat /\ b \in Nat
    OBVIOUS
  <1>2. \A i \in 0 .. N : f[i] \in State
    BY DEF Runs
  <1>3. 0 \in T
    <2>1. Beside(x, f[a], f[a])
      BY <1>2, BesideSelf
    <2> QED BY <2>1
  <1>4. ASSUME NEW i \in 1 .. b, i - 1 \in T PROVE i \in T
    <2>1. CASE i < a
      BY <2>1
    <2>2. CASE i = a
      <3>1. Beside(x, f[a], f[a])
        BY <1>2, BesideSelf
      <3> QED BY <2>2, <3>1
    <2>3. CASE i > a
      <3>1. Beside(x, f[a], f[i - 1])
        BY <1>4, <2>3
      <3>2. i \in a + 1 .. b /\ i \in 1 .. N /\ i - 1 \in 0 .. N /\ i \in 0 .. N /\ a \in 0 .. N
        BY <2>3
      <3>3. tasks[i].extra \in Periods /\ tasks[i].call \in Calls /\ tasks[i].call.id # x
        BY <3>2, TaskIs
      <3>4. f[i] = RunAfter(f[i - 1], tasks[i].extra, tasks[i].call)
        BY <3>2 DEF Runs
      <3>5. Beside(x, f[i - 1], f[i])
        BY <1>2, <3>2, <3>3, <3>4, RunAfterBeside
      <3>6. Beside(x, f[a], f[i])
        BY <1>2, <3>1, <3>2, <3>5, BesideTrans
      <3> QED BY <3>6
    <2> QED BY <2>1, <2>2, <2>3
  <1> HIDE DEF T
  <1>5. 0 .. b \subseteq T
    BY <1>1, <1>3, <1>4, IntervalInduction
  <1>6. b \in T
    BY <1>1, <1>5
  <1> QED BY <1>6 DEF T

\* A slot without x: whatever runs, x's tasks stay.
LEMMA RunAllFree ==
  ASSUME NEW t \in WheelTypes, NEW tasks \in Seq(Held(t)), NEW w \in State, NEW x, Free(tasks, x)
  PROVE  RunAll(w, tasks) \in State /\ Beside(x, w, RunAll(w, tasks))
  <1>1. PICK f : Runs(w, tasks, f) /\ RunAll(w, tasks) = f[Len(tasks)]
    BY RunAllIs
  <1>2. Len(tasks) \in Nat
    OBVIOUS
  <1>3. f[Len(tasks)] \in State /\ f[0] = w
    BY <1>1, <1>2 DEF Runs
  <1>4. \A m \in 0 + 1 .. Len(tasks) : tasks[m].call.id # x
    BY DEF Free
  <1>5. Beside(x, f[0], f[Len(tasks)])
    <2>1. 0 \in 0 .. Len(tasks) /\ Len(tasks) \in 0 .. Len(tasks)
      BY <1>2
    <2> QED BY <1>1, <1>4, <2>1, RunsChain
  <1> QED BY <1>1, <1>3, <1>5

\* A slot with one task of x: others run before and after it.
LEMMA RunAllOnce ==
  ASSUME NEW t \in WheelTypes, NEW tasks \in Seq(Held(t)), NEW w \in State, NEW x, NEW task,
         Once(tasks, x, task)
  PROVE  /\ RunAll(w, tasks) \in State
         /\ task \in Held(t)
         /\ \E u \in State : /\ Beside(x, w, u)
                             /\ Beside(x, RunAfter(u, task.extra, task.call), RunAll(w, tasks))
  <1>1. PICK f : Runs(w, tasks, f) /\ RunAll(w, tasks) = f[Len(tasks)]
    BY RunAllIs
  <1>2. PICK n \in Nat : Single(tasks, x, n, task)
    BY DEF Once
  <1>3. /\ Len(tasks) \in Nat /\ n \in 1 .. Len(tasks) /\ tasks[n] = task
        /\ \A m \in 1 .. Len(tasks) : m # n => tasks[m].call.id # x
    BY <1>2 DEF Single
  <1>4. /\ f[Len(tasks)] \in State /\ f[n - 1] \in State /\ f[0] = w
        /\ f[n] = RunAfter(f[n - 1], task.extra, task.call)
    BY <1>1, <1>3 DEF Runs
  <1>5. Beside(x, f[0], f[n - 1])
    <2>1. \A m \in 0 + 1 .. n - 1 : tasks[m].call.id # x
      BY <1>3
    <2>2. 0 \in 0 .. Len(tasks) /\ n - 1 \in 0 .. Len(tasks)
      BY <1>3
    <2> QED BY <1>1, <2>1, <2>2, RunsChain
  <1>6. Beside(x, f[n], f[Len(tasks)])
    <2>1. \A m \in n + 1 .. Len(tasks) : tasks[m].call.id # x
      BY <1>3
    <2>2. n \in 0 .. Len(tasks) /\ Len(tasks) \in n .. Len(tasks)
      BY <1>3
    <2> QED BY <1>1, <2>1, <2>2, RunsChain
  <1>7. task \in Held(t)
    BY <1>3
  <1> QED BY <1>1, <1>4, <1>5, <1>6, <1>7

----------------------------------------------------------------------------
(* Where a call is. *)

\* No slot holds x, those of Z aside.
Nowhere(W, x, Z) ==
  \A u \in WheelTypes : \A j \in Slot(u) : <<u, j>> \in Z \/ Free(W[u][j], x)

\* One slot holds x, in one task, those of Z aside.
At(W, x, Z, t, i, task) ==
  /\ t \in WheelTypes /\ i \in Slot(t) /\ <<t, i>> \notin Z
  /\ Once(W[t][i], x, task)
  /\ \A u \in WheelTypes : \A j \in Slot(u) :
       (u = t /\ j = i) \/ <<u, j>> \in Z \/ Free(W[u][j], x)

\* A step that leaves x alone leaves its task where it is.
LEMMA BesideNowhere ==
  ASSUME NEW x, NEW Z, NEW w \in State, NEW v \in State, Beside(x, w, v), Nowhere(w.wheels, x, Z)
  PROVE  Nowhere(v.wheels, x, Z)
  <1>1. w.wheels \in WheelsType /\ v.wheels \in WheelsType
    BY DEF State
  <1>2. ASSUME NEW u \in WheelTypes, NEW j \in Slot(u), Free(w.wheels[u][j], x)
        PROVE  Free(v.wheels[u][j], x)
    <2>1. w.wheels[u][j] \in Seq(Held(u)) /\ v.wheels[u][j] \in Seq(Held(u))
      BY <1>1, SlotType
    <2>2. More(x, w.wheels[u][j], v.wheels[u][j])
      BY DEF Beside
    <2> QED BY <1>2, <2>1, <2>2, MoreFree
  <1> QED BY <1>2 DEF Nowhere

LEMMA BesideAt ==
  ASSUME NEW x, NEW Z, NEW w \in State, NEW v \in State, Beside(x, w, v),
         NEW t, NEW i, NEW task, At(w.wheels, x, Z, t, i, task)
  PROVE  At(v.wheels, x, Z, t, i, task)
  <1>1. w.wheels \in WheelsType /\ v.wheels \in WheelsType
    BY DEF State
  <1>2. ASSUME NEW u \in WheelTypes, NEW j \in Slot(u)
        PROVE  /\ w.wheels[u][j] \in Seq(Held(u)) /\ v.wheels[u][j] \in Seq(Held(u))
               /\ More(x, w.wheels[u][j], v.wheels[u][j])
    BY <1>1, SlotType DEF Beside
  <1>3. \A u \in WheelTypes : \A j \in Slot(u) :
          Free(w.wheels[u][j], x) => Free(v.wheels[u][j], x)
    BY <1>2, MoreFree
  <1>4. t \in WheelTypes /\ i \in Slot(t) /\ Once(w.wheels[t][i], x, task)
    BY DEF At
  <1>5. Once(v.wheels[t][i], x, task)
    BY <1>2, <1>4, MoreOnce
  <1> QED BY <1>3, <1>5 DEF At

\* A call that is put in is where it was put.
LEMMA PutAt ==
  ASSUME NEW W \in WheelsType, NEW V, NEW s \in Nat \ {0}, Representable(s), NEW call \in Calls,
         Put(W, V, s, call), NEW Z, Nowhere(W, call.id, Z), <<WheelFor(s), Place(s)>> \notin Z
  PROVE  At(V, call.id, Z, WheelFor(s), Place(s), TaskOf(s, call))
  <1> DEFINE t    == WheelFor(s)
             k    == Place(s)
             task == TaskOf(s, call)
             x    == call.id
  <1>1. t \in WheelTypes /\ k \in Slot(t) /\ task \in Held(t) /\ task.call = call
    BY SlotIs DEF Slot, Held, Place, TaskOf
  <1>2. /\ V[t][k] = Append(W[t][k], task)
        /\ \A u \in WheelTypes : \A j \in Slot(u) : u # t \/ j # k => V[u][j] = W[u][j]
    BY DEF Put
  <1>3. <<t, k>> \notin Z
    OBVIOUS
  <1> HIDE DEF t, k, task
  <1>4. Once(V[t][k], x, task)
    <2>1. Free(W[t][k], x)
      BY <1>1, <1>3 DEF Nowhere
    <2>2. W[t][k] \in Seq(Held(t))
      BY <1>1, SlotType
    <2> QED BY <1>1, <1>2, <2>1, <2>2, AppendOwn
  <1>5. \A u \in WheelTypes : \A j \in Slot(u) :
          (u = t /\ j = k) \/ <<u, j>> \in Z \/ Free(V[u][j], x)
    BY <1>2 DEF Nowhere
  <1>6. At(V, x, Z, t, k, task)
    BY <1>1, <1>3, <1>4, <1>5 DEF At
  <1> QED BY <1>6 DEF t, k, task

----------------------------------------------------------------------------
(* A wheel turns. *)

\* The wheels after wheel t has turned: slot 0 is gone.
Shifted(W, t) ==
  [W EXCEPT ![t] = [i \in 0 .. Slots(t) - 1 |-> IF i < Slots(t) - 1 THEN W[t][i + 1] ELSE <<>>]]

\* What popping does to the slots, and to a task that is not in the popped one.
LEMMA ShiftedIs ==
  ASSUME NEW W \in WheelsType, NEW t \in WheelTypes
  PROVE  /\ Shifted(W, t) \in WheelsType
         /\ \A u \in WheelTypes \ {t} : Shifted(W, t)[u] = W[u]
         /\ \A i \in Slot(t) : Shifted(W, t)[t][i] = IF i + 1 \in Slot(t) THEN W[t][i + 1] ELSE <<>>
  <1> DEFINE n == Slots(t)
             turned == [i \in 0 .. n - 1 |-> IF i < n - 1 THEN W[t][i + 1] ELSE <<>>]
  <1>1. n \in Nat \ {0}
    BY Units
  <1>2. \A j \in 0 .. n - 1 : W[t][j] \in Seq(Held(t))
    BY SlotType DEF Slot
  <1>3. ASSUME NEW i \in 0 .. n - 1
        PROVE  (IF i < n - 1 THEN W[t][i + 1] ELSE <<>>) \in Seq(Held(t))
    <2>1. i < n - 1 => i + 1 \in 0 .. n - 1
      BY <1>1
    <2>2. <<>> \in Seq(Held(t))
      OBVIOUS
    <2> QED BY <1>2, <2>1, <2>2
  <1>4. turned \in [0 .. n - 1 -> Seq(Held(t))]
    <2> HIDE DEF n
    <2> QED BY <1>3
  <1>5. turned \in Shape(t)
    BY <1>4 DEF Shape
  <1>6. Shifted(W, t) = [W EXCEPT ![t] = turned]
    BY DEF Shifted
  <1>7. \A i \in Slot(t) : turned[i] = IF i + 1 \in Slot(t) THEN W[t][i + 1] ELSE <<>>
    <2>1. \A i \in 0 .. n - 1 : i < n - 1 <=> i + 1 \in 0 .. n - 1
      BY <1>1
    <2>2. Slot(t) = 0 .. n - 1
      BY DEF Slot
    <2> HIDE DEF n
    <2> QED BY <2>1, <2>2
  <1> HIDE DEF turned, n
  <1>8. /\ [W EXCEPT ![t] = turned] \in WheelsType
        /\ [W EXCEPT ![t] = turned][t] = turned
        /\ \A u \in WheelTypes \ {t} : [W EXCEPT ![t] = turned][u] = W[u]
    BY <1>5, WheelType
  <1>9. PICK V : V = [W EXCEPT ![t] = turned]
    OBVIOUS
  <1>10. V \in WheelsType /\ V[t] = turned /\ \A u \in WheelTypes \ {t} : V[u] = W[u]
    BY <1>8, <1>9
  <1> QED BY <1>6, <1>7, <1>9, <1>10

LEMMA ShiftedNowhere ==
  ASSUME NEW W \in WheelsType, NEW t \in WheelTypes, NEW x, Nowhere(W, x, {<<t, 0>>})
  PROVE  Nowhere(Shifted(W, t), x, {})
  <1>1. Free(<<>>, x)
    BY DEF Free
  <1>2. ASSUME NEW u \in WheelTypes, NEW j \in Slot(u)
        PROVE  Free(Shifted(W, t)[u][j], x)
    <2>1. CASE u # t
      <3>1. Shifted(W, t)[u] = W[u]
        BY <2>1, ShiftedIs
      <3>2. <<u, j>> # <<t, 0>>
        BY <2>1
      <3> QED BY <3>1, <3>2 DEF Nowhere
    <2>2. CASE u = t
      <3>1. Shifted(W, t)[t][j] = IF j + 1 \in Slot(t) THEN W[t][j + 1] ELSE <<>>
        BY <2>2, ShiftedIs
      <3>2. <<t, j + 1>> # <<t, 0>>
        BY <2>2, Units DEF Slot
      <3> QED BY <1>1, <2>2, <3>1, <3>2 DEF Nowhere
    <2> QED BY <2>1, <2>2
  <1> QED BY <1>2 DEF Nowhere

LEMMA ShiftedAt ==
  ASSUME NEW W \in WheelsType, NEW t \in WheelTypes, NEW x, NEW u, NEW i, NEW task,
         At(W, x, {<<t, 0>>}, u, i, task)
  PROVE  At(Shifted(W, t), x, {}, u, IF u = t THEN i - 1 ELSE i, task)
  <1>0. u \in WheelTypes /\ i \in Slot(u) /\ <<u, i>> # <<t, 0>> /\ Once(W[u][i], x, task)
    BY DEF At
  <1> DEFINE k == IF u = t THEN i - 1 ELSE i
             V == Shifted(W, t)
  <1>1. k \in Slot(u) /\ i \in Int /\ (u = t => k + 1 = i)
    BY <1>0, Units DEF Slot
  <1>2. V[u][k] = W[u][i]
    BY <1>0, <1>1, ShiftedIs
  <1>3. Free(<<>>, x)
    BY DEF Free
  <1>4. ASSUME NEW y \in WheelTypes, NEW j \in Slot(y), ~(y = u /\ j = k)
        PROVE  Free(V[y][j], x)
    <2>1. CASE y # t
      <3>1. V[y] = W[y]
        BY <2>1, ShiftedIs
      <3>2. <<y, j>> # <<t, 0>> /\ ~(y = u /\ j = i)
        BY <1>4, <2>1
      <3> QED BY <3>1, <3>2 DEF At
    <2>2. CASE y = t
      <3>1. V[t][j] = IF j + 1 \in Slot(t) THEN W[t][j + 1] ELSE <<>>
        BY <2>2, ShiftedIs
      <3>2. <<t, j + 1>> # <<t, 0>> /\ ~(t = u /\ j + 1 = i)
        BY <1>1, <1>4, <2>2, Units DEF Slot
      <3> QED BY <1>3, <2>2, <3>1, <3>2 DEF At
    <2> QED BY <2>1, <2>2
  <1> HIDE DEF V, k
  <1>5. At(V, x, {}, u, k, task)
    BY <1>0, <1>1, <1>2, <1>4 DEF At
  <1> QED BY <1>5 DEF V, k

\* PopFront runs the tasks of the first slot and shifts the wheel they have left.
LEMMA PopFrontIs ==
  ASSUME NEW w \in State, NEW t \in WheelTypes, NEW v \in State, v = RunAll(w, w.wheels[t][0])
  PROVE  PopFront(w, t) = [wheels |-> Shifted(v.wheels, t), ran |-> v.ran]
  <1>1. v = [wheels |-> v.wheels, ran |-> v.ran]
    BY DEF State
  <1> DEFINE turned == [i \in 0 .. Slots(t) - 1 |->
                          IF i < Slots(t) - 1 THEN v.wheels[t][i + 1] ELSE <<>>]
  <1>2. PopFront(w, t) = [v EXCEPT !.wheels[t] = turned]
    BY DEF PopFront
  <1>3. Shifted(v.wheels, t) = [v.wheels EXCEPT ![t] = turned]
    BY DEF Shifted
  <1> HIDE DEF turned
  <1> QED BY <1>1, <1>2, <1>3

----------------------------------------------------------------------------
(* Ticks. *)

\* Remainders.
LEMMA ModUnique ==
  ASSUME NEW b \in Nat \ {0}, NEW q \in Int, NEW r \in 0 .. b - 1
  PROVE  (b * q + r) % b = r
  OBVIOUS

LEMMA ModSmall ==
  ASSUME NEW b \in Nat \ {0}, NEW r \in 0 .. b - 1
  PROVE  r % b = r
  OBVIOUS

LEMMA ModMod ==
  ASSUME NEW a \in Nat \ {0}, NEW b \in Nat \ {0}, a % b = 0, NEW s \in Nat
  PROVE  (s % a) % b = s % b
  <1>1. PICK m \in Nat : a = b * m
    <2>1. PICK m \in Nat, z \in 0 .. b - 1 : m = a \div b /\ z = a % b /\ a = b * m + z
      BY Divided
    <2> QED BY <2>1
  <1>2. PICK q \in Nat, r \in Nat : s = a * q + r /\ r = s % a
    <2>1. PICK q \in Nat, r \in 0 .. a - 1 : q = s \div a /\ r = s % a /\ s = a * q + r
      BY Divided
    <2>2. q \in Nat /\ r \in Nat /\ s = a * q + r /\ r = s % a
      BY <2>1
    <2> QED BY <2>2, Zenon
  <1>3. PICK k \in Nat, e \in 0 .. b - 1 : r = b * k + e /\ e = r % b
    <2>1. PICK k \in Nat, e \in 0 .. b - 1 : k = r \div b /\ e = r % b /\ r = b * k + e
      BY Divided
    <2> QED BY <2>1
  <1>4. s = b * (m * q + k) + e
    <2>1. PICK x \in Nat : x = m * q
      OBVIOUS
    <2>2. a * q = b * x
      BY <1>1, <2>1
    <2>3. b * (x + k) = b * x + b * k
      OBVIOUS
    <2>4. PICK y \in Nat : y = b * x
      OBVIOUS
    <2>5. PICK z \in Nat : z = b * k
      OBVIOUS
    <2>6. s = y + (z + e)
      BY <1>2, <1>3, <2>2, <2>4, <2>5
    <2>7. s = b * (x + k) + e
      BY <2>3, <2>4, <2>5, <2>6
    <2> QED BY <2>1, <2>7
  <1>5. m * q + k \in Int
    OBVIOUS
  <1>6. s % b = e
    BY <1>4, <1>5, ModUnique
  <1> QED BY <1>2, <1>3, <1>6

\* The wheels that turn before another one in a tick: those of smaller units.
Before(t) ==
  CASE t = "Second" -> {}
    [] t = "Minute" -> {"Second"}
    [] t = "Hour"   -> {"Second", "Minute"}
    [] t = "Day"    -> {"Second", "Minute", "Hour"}

\* Every unit goes into the larger ones and into a day, after which counts_ starts anew.
LEMMA Divides ==
  /\ MINUTE % MINUTE = 0 /\ HOUR % MINUTE = 0 /\ DAY % MINUTE = 0 /\ DAY % HOUR = 0
  /\ \A t \in WheelTypes : DAY % Unit(t) = 0
  /\ \A t \in WheelTypes : \A u \in Before(t) : u \in WheelTypes /\ Unit(t) % Unit(u) = 0
  <1>1. HOUR % MINUTE = 0 /\ DAY % HOUR = 0
    BY UnitAssumption
  <1>2. DAY % MINUTE = 0
    <2>1. (DAY % HOUR) % MINUTE = DAY % MINUTE
      BY <1>1, ModMod, Units
    <2>2. 0 % MINUTE = 0
      BY Units
    <2> QED BY <1>1, <2>1, <2>2
  <1>3. \A n \in Nat \ {0} : n % 1 = 0 /\ n % n = 0
    <2>1. ASSUME NEW n \in Nat \ {0} PROVE n % n = 0
      <3>1. (n * 1 + 0) % n = 0
        BY ModUnique
      <3> QED BY <3>1
    <2> QED BY <2>1
  <1>4. \A t \in WheelTypes : DAY % Unit(t) = 0
    BY <1>1, <1>2, <1>3, Units DEF WheelTypes
  <1>5. \A t \in WheelTypes : \A u \in Before(t) : u \in WheelTypes /\ Unit(t) % Unit(u) = 0
    <2>1. Before("Second") = {} /\ Before("Minute") = {"Second"}
          /\ Before("Hour") = {"Second", "Minute"} /\ Before("Day") = {"Second", "Minute", "Hour"}
      BY DEF Before
    <2> QED BY <1>1, <1>2, <1>3, <2>1, Units DEF WheelTypes
  <1> QED BY <1>1, <1>2, <1>3, <1>4, <1>5, Units

\* One unit for the wheel a delay is put into, then what is left of it.
LEMMA LateIs ==
  ASSUME NEW s \in Nat \ {0}
  PROVE  Late(s) = Unit(WheelFor(s)) + Late(s % Unit(WheelFor(s)))
  <1>0. /\ MINUTE \in Nat \ {0} /\ HOUR \in Nat \ {0} /\ DAY \in Nat \ {0}
        /\ MINUTE <= HOUR /\ HOUR <= DAY
    BY Units
  <1>1. CASE s < MINUTE
    <2>1. WheelFor(s) = "Second"
      <3>1. ~(s >= MINUTE /\ s < HOUR) /\ ~(s >= HOUR /\ s < DAY)
        BY <1>0, <1>1
      <3> QED BY <1>1, <3>1 DEF WheelFor
    <2>2. s % MINUTE = s /\ s % HOUR = s /\ s % DAY = s
      BY <1>0, <1>1, ModSmall
    <2>3. 0 % MINUTE = 0 /\ 0 % HOUR = 0 /\ 0 % DAY = 0
      BY <1>0, ModSmall
    <2>4. s % 1 = 0
      OBVIOUS
    <2> QED BY <1>0, <1>1, <2>1, <2>2, <2>3, <2>4, Units DEF Late
  <1>2. CASE s >= MINUTE /\ s < HOUR
    <2>1. WheelFor(s) = "Minute"
      <3>1. ~(s < MINUTE) /\ ~(s >= HOUR /\ s < DAY)
        BY <1>0, <1>2
      <3> QED BY <1>2, <3>1 DEF WheelFor
    <2>2. PICK r \in 0 .. MINUTE - 1 : r = s % MINUTE
      BY <1>0, DivIs
    <2>3. s % HOUR = s /\ s % DAY = s
      BY <1>0, <1>2, ModSmall
    <2>4. r % MINUTE = r /\ r % HOUR = r /\ r % DAY = r
      BY <1>0, ModSmall
    <2> QED BY <1>0, <1>2, <2>1, <2>2, <2>3, <2>4, Units DEF Late
  <1>3. CASE s >= HOUR /\ s < DAY
    <2>1. WheelFor(s) = "Hour"
      <3>1. ~(s < MINUTE) /\ ~(s >= MINUTE /\ s < HOUR)
        BY <1>0, <1>3
      <3> QED BY <1>3, <3>1 DEF WheelFor
    <2>2. PICK r \in 0 .. HOUR - 1 : r = s % HOUR
      BY <1>0, DivIs
    <2>3. s % DAY = s
      BY <1>0, <1>3, ModSmall
    <2>4. r % MINUTE = s % MINUTE
      BY <1>0, <2>2, ModMod, Divides
    <2>5. r % HOUR = r /\ r % DAY = r
      BY <1>0, ModSmall
    <2> QED BY <1>0, <1>3, <2>1, <2>2, <2>3, <2>4, <2>5, Units DEF Late
  <1>4. CASE s >= DAY
    <2>1. WheelFor(s) = "Day"
      <3>1. ~(s < MINUTE) /\ ~(s >= MINUTE /\ s < HOUR) /\ ~(s >= HOUR /\ s < DAY)
        BY <1>0, <1>4
      <3> QED BY <3>1 DEF WheelFor
    <2>2. PICK r \in 0 .. DAY - 1 : r = s % DAY
      BY <1>0, DivIs
    <2>4. r % MINUTE = s % MINUTE /\ r % HOUR = s % HOUR
      BY <1>0, <2>2, ModMod, Divides
    <2>5. r % DAY = r
      BY <1>0, ModSmall
    <2> QED BY <1>0, <1>4, <2>1, <2>2, <2>4, <2>5, Units DEF Late
  <1> QED BY <1>0, <1>1, <1>2, <1>3, <1>4

LEMMA LateType == ASSUME NEW s \in Nat PROVE Late(s) \in Nat
  BY Units DEF Late

LEMMA LateNone == Late(0) = 0
  <1>1. 0 % MINUTE = 0 /\ 0 % HOUR = 0 /\ 0 % DAY = 0
    BY ModSmall, Units
  <1> QED BY <1>1, Units DEF Late

\* The ticks until the slot i of wheel t is popped, during the tick count: the
\* wheels of P have had their turn.
Left(t, i, P, count) ==
  i * Unit(t) + (IF count % Unit(t) # 0 THEN Unit(t) - (count % Unit(t))
                 ELSE IF t \in P THEN Unit(t) ELSE 0)

\* The ticks until a task runs, between two ticks.
Due(t, i, extra, count) ==
  i * Unit(t) + (Unit(t) - (count % Unit(t))) + extra + Late(extra)

\* Before the first turn of a tick and after the last.
LEMMA LeftStart ==
  ASSUME NEW t \in WheelTypes, NEW i \in Nat, NEW count \in 0 .. DAY - 1
  PROVE  Left(t, i, {}, (count + 1) % DAY) = i * Unit(t) + (Unit(t) - (count % Unit(t))) - 1
  <1>1. PICK U \in Nat \ {0} : U = Unit(t) /\ DAY % U = 0
    BY Units, Divides
  <1>2. PICK q \in Nat, r \in 0 .. U - 1 : q = count \div U /\ r = count % U /\ count = U * q + r
    <2>1. count \in Nat
      BY Units
    <2> QED BY <2>1, Divided
  <1>3. ((count + 1) % DAY) % U = (count + 1) % U
    <2>1. count + 1 \in Nat /\ DAY \in Nat \ {0}
      BY Units
    <2> QED BY <1>1, <2>1, ModMod, SMTT(30)
  <1>4. (count + 1) % U = IF r + 1 = U THEN 0 ELSE r + 1
    <2>1. CASE r + 1 = U
      <3>1. count + 1 = U * (q + 1) + 0
        <4>1. U * (q + 1) = U * q + U
          OBVIOUS
        <4>2. PICK x \in Nat : x = U * q
          OBVIOUS
        <4>3. count + 1 = x + U
          BY <1>2, <2>1, <4>2
        <4> QED BY <4>1, <4>2, <4>3
      <3> QED BY <2>1, <3>1, ModUnique
    <2>2. CASE r + 1 # U
      <3>1. count + 1 = U * q + (r + 1) /\ r + 1 \in 0 .. U - 1
        <4>1. PICK x \in Nat : x = U * q
          OBVIOUS
        <4> QED BY <1>2, <2>2, <4>1
      <3>2. (U * q + (r + 1)) % U = r + 1
        <4>1. PICK e \in 0 .. U - 1 : e = r + 1
          BY <3>1
        <4>2. q \in Int
          OBVIOUS
        <4>3. (U * q + e) % U = e
          BY <4>2, ModUnique
        <4> QED BY <4>1, <4>3
      <3> QED BY <2>2, <3>1, <3>2
    <2> QED BY <2>1, <2>2
  <1>5. PICK x \in Nat : x = i * U
    OBVIOUS
  <1>6. PICK d \in 0 .. U - 1 : d = ((count + 1) % DAY) % U /\ d = IF r + 1 = U THEN 0 ELSE r + 1
    BY <1>3, <1>4
  <1>7. Left(t, i, {}, (count + 1) % DAY) = x + (IF d # 0 THEN U - d ELSE 0)
    BY <1>1, <1>5, <1>6 DEF Left
  <1>8. Left(t, i, {}, (count + 1) % DAY) = x + (U - r) - 1
    BY <1>6, <1>7
  <1> QED BY <1>1, <1>2, <1>5, <1>8

LEMMA LeftEnd ==
  ASSUME NEW t \in WheelTypes, NEW i \in Nat, NEW count \in Nat
  PROVE  Left(t, i, WheelTypes, count) = i * Unit(t) + (Unit(t) - (count % Unit(t)))
  <1>1. PICK U \in Nat \ {0} : U = Unit(t)
    BY Units
  <1>2. count % U \in 0 .. U - 1 /\ i * U \in Nat
    BY DivIs
  <1> QED BY <1>1, <1>2 DEF Left

LEMMA LeftType ==
  ASSUME NEW t \in WheelTypes, NEW i \in Nat, NEW count \in Nat, NEW P
  PROVE  Left(t, i, P, count) \in Nat
  <1>1. PICK U \in Nat \ {0} : U = Unit(t)
    BY Units
  <1>2. count % U \in 0 .. U - 1 /\ i * U \in Nat
    BY DivIs
  <1> QED BY <1>1, <1>2 DEF Left

\* A slot that is not popped when wheel t turns.
LEMMA LeftShift ==
  ASSUME NEW t \in WheelTypes, NEW u \in WheelTypes, NEW i \in Nat, NEW count \in Nat, NEW P,
         t \notin P, count % Unit(t) = 0
  PROVE  Left(u, IF u = t THEN i - 1 ELSE i, P \cup {t}, count) = Left(u, i, P, count)
  <1>1. PICK U \in Nat \ {0} : U = Unit(u)
    BY Units
  <1>2. (i - 1) * U + U = i * U
    OBVIOUS
  <1> QED BY <1>1, <1>2 DEF Left

\* What a wheel hands on, and to which: as if nothing had happened.
LEMMA LeftHanded ==
  ASSUME NEW t \in WheelTypes, NEW count \in Nat, count % Unit(t) = 0,
         NEW e \in 1 .. Unit(t) - 1
  PROVE  /\ WheelFor(e) \in Before(t)
         /\ Left(WheelFor(e), Place(e), Before(t) \cup {t}, count)
              + (e % Unit(WheelFor(e))) + Late(e % Unit(WheelFor(e))) = e + Late(e)
  <1>1. WheelFor(e) \in Before(t)
    <2>1. CASE t = "Second"
      BY <2>1, Units
    <2>2. CASE t = "Minute"
      BY <2>2, Units DEF WheelFor, Before
    <2>3. CASE t = "Hour"
      BY <2>3, Units DEF WheelFor, Before
    <2>4. CASE t = "Day"
      BY <2>4, Units DEF WheelFor, Before
    <2> QED BY <2>1, <2>2, <2>3, <2>4 DEF WheelTypes
  <1>2. PICK u : u = WheelFor(e)
    OBVIOUS
  <1>3. PICK U \in Nat \ {0} : U = Unit(u) /\ Unit(t) % U = 0 /\ Unit(t) \in Nat \ {0}
    BY <1>1, <1>2, Units, Divides
  <1>4. count % U = 0
    <2>1. (count % Unit(t)) % U = count % U
      BY <1>3, ModMod
    <2>2. 0 % U = 0
      BY ModSmall
    <2> QED BY <2>1, <2>2
  <1>5. PICK k \in Nat, r \in 0 .. U - 1 : k = e \div U /\ r = e % U /\ e = U * k + r
    <2>1. e \in Nat
      BY <1>3
    <2> QED BY <2>1, Divided
  <1>6. Left(u, k, Before(t) \cup {t}, count) = k * U + U
    BY <1>1, <1>2, <1>3, <1>4 DEF Left
  <1>7. Late(e) = U + Late(r)
    BY <1>2, <1>3, <1>5, LateIs
  <1>8. Late(r) \in Nat /\ U * k = k * U /\ k * U \in Nat
    BY LateType
  <1>9. Left(u, k, Before(t) \cup {t}, count) + r + Late(r) = e + Late(e)
    BY <1>5, <1>6, <1>7, <1>8
  <1> QED BY <1>1, <1>2, <1>3, <1>5, <1>9 DEF Place

\* A call that asks again while wheel t turns: the slot moves with the wheel when
\* it is in that one.
LEMMA LeftAgain ==
  ASSUME NEW t \in WheelTypes, NEW count \in Nat, count % Unit(t) = 0,
         NEW p \in Nat \ {0}, Representable(p), NEW k,
         k = IF WheelFor(p) = t THEN Place(p) - 1 ELSE Place(p)
  PROVE  /\ k \in Nat
         /\ Left(WheelFor(p), k, Before(t) \cup {t}, count) > 0
         /\ Left(WheelFor(p), k, Before(t) \cup {t}, count)
              + (p % Unit(WheelFor(p))) + Late(p % Unit(WheelFor(p))) \in p .. p + Late(p)
  <1>1. PICK u \in WheelTypes : u = WheelFor(p)
    BY SlotIs
  <1>2. PICK U \in Nat \ {0} : U = Unit(u)
    BY Units
  <1>3. PICK n \in Nat, r \in 0 .. U - 1 : n = p \div U /\ r = p % U /\ p = U * n + r
    BY Divided
  <1>4. n >= 1 /\ n = Place(p)
    BY <1>1, <1>2, <1>3, SlotIs DEF Place
  <1>5. Late(p) = U + Late(r) /\ Late(r) \in Nat
    BY <1>1, <1>2, <1>3, LateIs, LateType
  <1>6. U * n \in Nat /\ U * n >= U /\ (n - 1) * U + U = U * n /\ n * U = U * n
    BY <1>4
  <1>7. k = IF u = t THEN n - 1 ELSE n
    BY <1>1, <1>4
  <1> DEFINE l == Left(u, k, Before(t) \cup {t}, count)
  <1>8. l > 0 /\ l \in U * n .. U * n + U
    <2>1. PICK d \in 0 .. U - 1 : d = count % U
      BY DivIs
    <2>2. CASE u = t
      <3>1. l = (n - 1) * U + U
        BY <1>2, <1>7, <2>2 DEF Left
      <3> QED BY <1>6, <3>1
    <2>3. CASE u # t
      <3>1. l = n * U + (IF d # 0 THEN U - d ELSE IF u \in Before(t) \cup {t} THEN U ELSE 0)
        BY <1>2, <1>7, <2>1, <2>3 DEF Left
      <3> QED BY <1>6, <2>1, <3>1
    <2> QED BY <2>2, <2>3
  <1> HIDE DEF l
  <1>9. l + r + Late(r) \in p .. p + Late(p)
    BY <1>3, <1>5, <1>6, <1>8
  <1>10. k \in Nat
    BY <1>4, <1>7
  <1> QED BY <1>1, <1>2, <1>3, <1>8, <1>9, <1>10 DEF l

----------------------------------------------------------------------------
(* A call while a wheel has its turn. *)

\* A turn pops the wheel when a unit of it has passed, and does nothing otherwise.
LEMMA TurnIs ==
  ASSUME NEW w \in State, NEW t \in WheelTypes, NEW count
  PROVE  /\ Turn(w, t, count) \in State
         /\ count % Unit(t) # 0 => Turn(w, t, count) = w
         /\ count % Unit(t) = 0 =>
              \E v \in State : /\ v = RunAll(w, w.wheels[t][0])
                               /\ Turn(w, t, count) = [wheels |-> Shifted(v.wheels, t), ran |-> v.ran]
  <1>1. w.wheels[t][0] \in Seq(Held(t))
    <2>1. w.wheels \in WheelsType
      BY DEF State
    <2>2. 0 \in Slot(t)
      BY Units DEF Slot
    <2> QED BY <2>1, <2>2, SlotType
  <1>2. PICK v : v = RunAll(w, w.wheels[t][0])
    OBVIOUS
  <1>3. v \in State
    <2>1. PICK tasks \in Seq(Held(t)) : tasks = w.wheels[t][0]
      BY <1>1
    <2>2. PICK f : Runs(w, tasks, f) /\ RunAll(w, tasks) = f[Len(tasks)]
      BY RunAllIs
    <2>3. Len(tasks) \in 0 .. Len(tasks)
      OBVIOUS
    <2>4. f[Len(tasks)] \in State
      BY <2>2, <2>3 DEF Runs
    <2> QED BY <1>2, <2>1, <2>2, <2>4
  <1>4. PopFront(w, t) = [wheels |-> Shifted(v.wheels, t), ran |-> v.ran]
    BY <1>2, <1>3, PopFrontIs
  <1>5. [wheels |-> Shifted(v.wheels, t), ran |-> v.ran] \in State
    <2>1. v.wheels \in WheelsType /\ v.ran \in Seq(Calls)
      BY <1>3 DEF State
    <2>2. Shifted(v.wheels, t) \in WheelsType
      BY <2>1, ShiftedIs
    <2> QED BY <2>1, <2>2 DEF State
  <1> QED BY <1>2, <1>3, <1>4, <1>5 DEF Turn

\* A call that no slot holds.
LEMMA TurnNowhere ==
  ASSUME NEW w \in State, NEW t \in WheelTypes, NEW count, NEW x, Nowhere(w.wheels, x, {})
  PROVE  /\ Nowhere(Turn(w, t, count).wheels, x, {})
         /\ Ran(Turn(w, t, count), x) <=> Ran(w, x)
  <1>1. CASE count % Unit(t) # 0
    BY <1>1, TurnIs
  <1>2. CASE count % Unit(t) = 0
    <2>1. PICK v \in State :
             /\ v = RunAll(w, w.wheels[t][0])
             /\ Turn(w, t, count) = [wheels |-> Shifted(v.wheels, t), ran |-> v.ran]
      BY <1>2, TurnIs
    <2>2. 0 \in Slot(t) /\ w.wheels \in WheelsType /\ v.wheels \in WheelsType
      BY Units DEF Slot, State
    <2>3. Free(w.wheels[t][0], x) /\ w.wheels[t][0] \in Seq(Held(t))
      BY <2>2, SlotType DEF Nowhere
    <2>4. Beside(x, w, v)
      BY <2>1, <2>3, RunAllFree
    <2>5. Nowhere(v.wheels, x, {})
      BY <2>4, BesideNowhere
    <2>6. Nowhere(v.wheels, x, {<<t, 0>>})
      BY <2>5 DEF Nowhere
    <2>7. Nowhere(Shifted(v.wheels, t), x, {})
      BY <2>2, <2>6, ShiftedNowhere
    <2>8. Ran(Turn(w, t, count), x) <=> Ran(v, x)
      BY <2>1 DEF Ran
    <2> QED BY <2>1, <2>4, <2>7, <2>8 DEF Beside
  <1> QED BY <1>1, <1>2

\* A task that is now in slot k of wheel u, and has as long to wait there as in slot
\* i before wheel t had its turn.
Stays(v, x, u, i, k, task, t, count) ==
  /\ At(v.wheels, x, {}, u, k, task)
  /\ Left(u, k, Before(t) \cup {t}, count) = Left(u, i, Before(t), count)

\* A call in a slot that is not popped.
LEMMA TurnAt ==
  ASSUME NEW w \in State, NEW t \in WheelTypes, NEW count \in Nat, NEW x,
         NEW u, NEW i, NEW task, At(w.wheels, x, {}, u, i, task),
         ~(u = t /\ i = 0 /\ count % Unit(t) = 0)
  PROVE  /\ \E k : Stays(Turn(w, t, count), x, u, i, k, task, t, count)
         /\ Ran(Turn(w, t, count), x) <=> Ran(w, x)
  <1>0. u \in WheelTypes /\ i \in Slot(u) /\ i \in Nat
    BY DEF At, Slot
  <1>b. t \notin Before(t)
    <2>1. Before("Second") = {} /\ Before("Minute") = {"Second"}
          /\ Before("Hour") = {"Second", "Minute"} /\ Before("Day") = {"Second", "Minute", "Hour"}
      BY DEF Before
    <2> QED BY <2>1 DEF WheelTypes
  <1>1. CASE count % Unit(t) # 0
    <2>1. Turn(w, t, count) = w
      BY <1>1, TurnIs
    <2>2. Left(u, i, Before(t) \cup {t}, count) = Left(u, i, Before(t), count)
      BY <1>1 DEF Left
    <2> QED BY <2>1, <2>2 DEF Stays
  <1>2. CASE count % Unit(t) = 0
    <2>1. PICK v \in State :
             /\ v = RunAll(w, w.wheels[t][0])
             /\ Turn(w, t, count) = [wheels |-> Shifted(v.wheels, t), ran |-> v.ran]
      BY <1>2, TurnIs
    <2>2. 0 \in Slot(t) /\ w.wheels \in WheelsType /\ v.wheels \in WheelsType
      BY Units DEF Slot, State
    <2>3. Free(w.wheels[t][0], x) /\ w.wheels[t][0] \in Seq(Held(t))
      BY <1>2, <2>2, SlotType DEF At
    <2>4. Beside(x, w, v)
      BY <2>1, <2>3, RunAllFree
    <2>5. At(v.wheels, x, {}, u, i, task)
      BY <2>4, BesideAt
    <2>6. At(v.wheels, x, {<<t, 0>>}, u, i, task)
      <3>1. <<u, i>> # <<t, 0>>
        BY <1>2
      <3> QED BY <2>5, <3>1 DEF At
    <2> DEFINE k == IF u = t THEN i - 1 ELSE i
    <2>7. At(Shifted(v.wheels, t), x, {}, u, k, task)
      BY <2>2, <2>6, ShiftedAt
    <2>8. Left(u, k, Before(t) \cup {t}, count) = Left(u, i, Before(t), count)
      BY <1>0, <1>2, <1>b, LeftShift
    <2>9. Ran(Turn(w, t, count), x) <=> Ran(v, x)
      BY <2>1 DEF Ran
    <2> HIDE DEF k
    <2>10. At(Turn(w, t, count).wheels, x, {}, u, k, task)
      BY <2>1, <2>7
    <2> QED BY <2>4, <2>8, <2>9, <2>10 DEF Beside, Stays
  <1> QED BY <1>1, <1>2

\* The values on the way when a slot with one task of x is popped: before that
\* task, after it, at the end.
Pops(w, t, count, x, task, u, y, v) ==
  /\ u \in State /\ y \in State /\ v \in State
  /\ Nowhere(u.wheels, x, {<<t, 0>>})
  /\ Ran(u, x) <=> Ran(w, x)
  /\ RunAfterDoes(u, task.extra, task.call, y)
  /\ Beside(x, y, v)
  /\ Turn(w, t, count) = [wheels |-> Shifted(v.wheels, t), ran |-> v.ran]

\* The wheel pops the slot that holds the task of x.
LEMMA TurnPops ==
  ASSUME NEW w \in State, NEW t \in WheelTypes, NEW count, NEW x, NEW task,
         At(w.wheels, x, {}, t, 0, task), count % Unit(t) = 0
  PROVE  /\ task \in Held(t) /\ task.call.id = x
         /\ \E u, y, v : Pops(w, t, count, x, task, u, y, v)
  <1>1. PICK v \in State :
           /\ v = RunAll(w, w.wheels[t][0])
           /\ Turn(w, t, count) = [wheels |-> Shifted(v.wheels, t), ran |-> v.ran]
    BY TurnIs
  <1>2. 0 \in Slot(t) /\ w.wheels \in WheelsType
    BY Units DEF Slot, State
  <1>3. Once(w.wheels[t][0], x, task) /\ w.wheels[t][0] \in Seq(Held(t))
    BY <1>2, SlotType DEF At
  <1>4. task.call.id = x
    BY <1>3 DEF Once, Single
  <1>5. PICK u \in State : /\ Beside(x, w, u)
                           /\ Beside(x, RunAfter(u, task.extra, task.call), v)
    BY <1>1, <1>3, RunAllOnce
  <1>6. task \in Held(t)
    BY <1>3, RunAllOnce
  <1>7. task.extra \in Periods /\ task.call \in Calls
    <2>1. task.extra \in 0 .. Unit(t) - 1 /\ task.call \in Calls
      BY <1>6 DEF Held
    <2> QED BY <2>1, ExtraIs
  <1>8. PICK y : y = RunAfter(u, task.extra, task.call)
    OBVIOUS
  <1>9. RunAfterDoes(u, task.extra, task.call, y) /\ y \in State
    BY <1>7, <1>8, RunAfterIs DEF RunAfterDoes
  <1>10. Nowhere(w.wheels, x, {<<t, 0>>})
    BY DEF At, Nowhere
  <1>11. Nowhere(u.wheels, x, {<<t, 0>>})
    BY <1>5, <1>10, BesideNowhere
  <1>12. Pops(w, t, count, x, task, u, y, v)
    BY <1>1, <1>5, <1>8, <1>9, <1>11 DEF Pops, Beside
  <1> QED BY <1>4, <1>6, <1>12

\* What is left of a delay is handed on.
LEMMA TurnHands ==
  ASSUME NEW w \in State, NEW t \in WheelTypes, NEW count \in Nat, NEW x, NEW task,
         At(w.wheels, x, {}, t, 0, task), count % Unit(t) = 0, task.extra # 0
  PROVE  LET e == task.extra
         IN  /\ task.extra \in 1 .. Unit(t) - 1
             /\ At(Turn(w, t, count).wheels, x, {}, WheelFor(e), Place(e), TaskOf(e, task.call))
             /\ Ran(Turn(w, t, count), x) <=> Ran(w, x)
  <1>1. PICK u, y, v : Pops(w, t, count, x, task, u, y, v)
    BY TurnPops
  <1>2. task \in Held(t) /\ task.call.id = x
    BY TurnPops
  <1>3. PICK e : e = task.extra
    OBVIOUS
  <1>4. e \in 1 .. Unit(t) - 1 /\ task.call \in Calls
    BY <1>2, <1>3, Units DEF Held
  <1>5. e \in Nat \ {0} /\ Representable(e) /\ e > 0
    BY <1>4, ExtraIs, Units DEF Periods
  <1>6. Put(u.wheels, y.wheels, e, task.call) /\ (Ran(y, x) <=> Ran(u, x))
    BY <1>1, <1>3, <1>5 DEF Pops, RunAfterDoes
  <1>7. u \in State /\ y \in State /\ v \in State /\ u.wheels \in WheelsType /\ v.wheels \in WheelsType
    BY <1>1 DEF Pops, State
  <1>8. Nowhere(u.wheels, x, {<<t, 0>>}) /\ Beside(x, y, v)
    BY <1>1 DEF Pops
  <1>9. WheelFor(e) \in Before(t) /\ t \notin Before(t)
    <2>1. Before("Second") = {} /\ Before("Minute") = {"Second"}
          /\ Before("Hour") = {"Second", "Minute"} /\ Before("Day") = {"Second", "Minute", "Hour"}
      BY DEF Before
    <2> QED BY <1>4, <2>1, LeftHanded DEF WheelTypes
  <1>10. WheelFor(e) # t
    BY <1>9
  <1>11. At(y.wheels, x, {<<t, 0>>}, WheelFor(e), Place(e), TaskOf(e, task.call))
    <2>1. <<WheelFor(e), Place(e)>> \notin {<<t, 0>>}
      BY <1>10
    <2>2. Nowhere(u.wheels, task.call.id, {<<t, 0>>})
      BY <1>2, <1>8
    <2> QED BY <1>2, <1>4, <1>5, <1>6, <1>7, <2>1, <2>2, PutAt
  <1>12. At(v.wheels, x, {<<t, 0>>}, WheelFor(e), Place(e), TaskOf(e, task.call))
    BY <1>7, <1>8, <1>11, BesideAt
  <1>13. At(Shifted(v.wheels, t), x, {}, WheelFor(e), Place(e), TaskOf(e, task.call))
    <2>1. At(Shifted(v.wheels, t), x, {}, WheelFor(e),
             IF WheelFor(e) = t THEN Place(e) - 1 ELSE Place(e), TaskOf(e, task.call))
      BY <1>7, <1>12, ShiftedAt
    <2> QED BY <1>10, <2>1
  <1>14. Turn(w, t, count) = [wheels |-> Shifted(v.wheels, t), ran |-> v.ran]
         /\ (Ran(u, x) <=> Ran(w, x))
    BY <1>1 DEF Pops
  <1>15. Ran(Turn(w, t, count), x) <=> Ran(v, x)
    BY <1>14 DEF Ran
  <1>16. Ran(v, x) <=> Ran(y, x)
    BY <1>8 DEF Beside
  <1> QED BY <1>3, <1>4, <1>6, <1>13, <1>14, <1>15, <1>16

\* A call of RunAfter runs and is gone.
LEMMA TurnRuns ==
  ASSUME NEW w \in State, NEW t \in WheelTypes, NEW count \in Nat, NEW x, NEW task,
         At(w.wheels, x, {}, t, 0, task), count % Unit(t) = 0,
         task.extra = 0, task.call.period = 0
  PROVE  Nowhere(Turn(w, t, count).wheels, x, {}) /\ Ran(Turn(w, t, count), x)
  <1>1. PICK u, y, v : Pops(w, t, count, x, task, u, y, v)
    BY TurnPops
  <1>2. task.call.id = x
    BY TurnPops
  <1>3. y.wheels = u.wheels /\ Ran(y, x)
    BY <1>1, <1>2 DEF Pops, RunAfterDoes
  <1>4. /\ y \in State /\ v \in State /\ v.wheels \in WheelsType
        /\ Nowhere(y.wheels, x, {<<t, 0>>}) /\ Beside(x, y, v)
    BY <1>1, <1>3 DEF Pops, State
  <1>5. Nowhere(v.wheels, x, {<<t, 0>>})
    BY <1>4, BesideNowhere
  <1>6. Nowhere(Shifted(v.wheels, t), x, {})
    BY <1>4, <1>5, ShiftedNowhere
  <1>7. Turn(w, t, count) = [wheels |-> Shifted(v.wheels, t), ran |-> v.ran]
    BY <1>1 DEF Pops
  <1>8. Ran(v, x)
    BY <1>3, <1>4 DEF Beside
  <1> QED BY <1>6, <1>7, <1>8 DEF Ran

\* A call of RunEvery runs and asks again.
LEMMA TurnAgain ==
  ASSUME NEW w \in State, NEW t \in WheelTypes, NEW count \in Nat, NEW x, NEW task,
         At(w.wheels, x, {}, t, 0, task), count % Unit(t) = 0,
         task.extra = 0, task.call.period # 0
  PROVE  LET p == task.call.period
         IN  /\ At(Turn(w, t, count).wheels, x, {}, WheelFor(p),
                   IF WheelFor(p) = t THEN Place(p) - 1 ELSE Place(p), TaskOf(p, task.call))
             /\ p \in Nat \ {0} /\ Representable(p)
             /\ Ran(Turn(w, t, count), x)
  <1>1. PICK u, y, v : Pops(w, t, count, x, task, u, y, v)
    BY TurnPops
  <1>2. task \in Held(t) /\ task.call.id = x
    <2>1. task \in Held(t)
      BY TurnPops
    <2>2. task.call.id = x
      BY TurnPops
    <2> QED BY <2>1, <2>2
  <1>3. PICK p : p = task.call.period
    OBVIOUS
  <1>4. p \in Nat \ {0} /\ Representable(p) /\ p > 0 /\ task.call \in Calls
    BY <1>2, <1>3 DEF Held, Calls, Periods
  <1>6. Put(u.wheels, y.wheels, p, task.call) /\ Ran(y, x)
    BY <1>1, <1>2, <1>3, <1>4 DEF Pops, RunAfterDoes
  <1>7. u \in State /\ y \in State /\ v \in State /\ u.wheels \in WheelsType /\ v.wheels \in WheelsType
    BY <1>1 DEF Pops, State
  <1>8. Nowhere(u.wheels, x, {<<t, 0>>}) /\ Beside(x, y, v)
    BY <1>1 DEF Pops
  <1>11. At(y.wheels, x, {<<t, 0>>}, WheelFor(p), Place(p), TaskOf(p, task.call))
    <2>1. <<WheelFor(p), Place(p)>> \notin {<<t, 0>>}
      <3>1. Place(p) # 0
        BY <1>4, SlotIs DEF Place
      <3> QED BY <3>1
    <2>2. Nowhere(u.wheels, task.call.id, {<<t, 0>>})
      BY <1>2, <1>8
    <2> QED BY <1>2, <1>4, <1>6, <1>7, <2>1, <2>2, PutAt
  <1>12. At(v.wheels, x, {<<t, 0>>}, WheelFor(p), Place(p), TaskOf(p, task.call))
    BY <1>7, <1>8, <1>11, BesideAt
  <1>13. At(Shifted(v.wheels, t), x, {}, WheelFor(p),
            IF WheelFor(p) = t THEN Place(p) - 1 ELSE Place(p), TaskOf(p, task.call))
    BY <1>7, <1>12, ShiftedAt
  <1>14. Turn(w, t, count) = [wheels |-> Shifted(v.wheels, t), ran |-> v.ran]
    BY <1>1 DEF Pops
  <1>15. Ran(v, x)
    BY <1>6, <1>8 DEF Beside
  <1>16. Ran(Turn(w, t, count), x)
    BY <1>14, <1>15 DEF Ran
  <1> QED BY <1>3, <1>4, <1>13, <1>14, <1>16

----------------------------------------------------------------------------
(* A tick. *)

\* The task of call x with period p and e ticks left.
Task(x, p, e) == [call |-> [id |-> x, period |-> p], extra |-> e]

\* Where a call of period p stands during a tick at whose beginning g ticks were
\* left after it: it waits on, or g was 0 and it has run; then it is gone or waits
\* for its next round, which is not in this tick.
Waits(w, x, p, g, P, count) ==
  \E t \in WheelTypes, i \in Nat, e \in Nat :
    At(w.wheels, x, {}, t, i, Task(x, p, e)) /\ Left(t, i, P, count) + e + Late(e) = g

\* x has just been put back for its next round: all of its period is ahead.
Again(w, x, p, P, count) ==
  \E t \in WheelTypes, i \in Nat, e \in Nat :
    /\ At(w.wheels, x, {}, t, i, Task(x, p, e))
    /\ Left(t, i, P, count) > 0
    /\ Left(t, i, P, count) + e + Late(e) \in p .. p + Late(p)

\* x waits for g more ticks, or it has run in this tick, which it does only with none
\* left; then it is gone, or it is there again if it has a period.
Stands(w, x, p, g, P, count) ==
  \/ ~Ran(w, x) /\ Waits(w, x, p, g, P, count)
  \/ Ran(w, x) /\ g = 0 /\ p = 0 /\ Nowhere(w.wheels, x, {})
  \/ Ran(w, x) /\ g = 0 /\ p # 0 /\ Again(w, x, p, P, count)

\* The order of the turns.
LEMMA BeforeIs ==
  /\ Before("Second") = {} /\ Before("Minute") = {"Second"}
  /\ Before("Hour") = {"Second", "Minute"} /\ Before("Day") = {"Second", "Minute", "Hour"}
  /\ \A t \in WheelTypes : t \notin Before(t)
  BY DEF Before, WheelTypes

\* The slot a wheel is about to pop has no ticks left.
LEMMA LeftNone ==
  ASSUME NEW t \in WheelTypes, NEW count \in Nat, count % Unit(t) = 0
  PROVE  Left(t, 0, Before(t), count) = 0
  <1>1. t \notin Before(t) /\ Unit(t) \in Nat
    BY BeforeIs, Units
  <1>2. 0 * Unit(t) = 0
    BY <1>1
  <1> QED BY <1>1, <1>2 DEF Left

\* The four lemmas above, as one: a turn keeps to Stands.
LEMMA TurnStands ==
  ASSUME NEW w \in State, NEW t \in WheelTypes, NEW count \in Nat, NEW x, NEW p \in Nat, NEW g,
         Stands(w, x, p, g, Before(t), count)
  PROVE  Stands(Turn(w, t, count), x, p, g, Before(t) \cup {t}, count)
  <1>v. PICK v : v = Turn(w, t, count)
    OBVIOUS
  <1> SUFFICES Stands(v, x, p, g, Before(t) \cup {t}, count)
    BY <1>v
  <1>0. \A e \in Nat : /\ Task(x, p, e).extra = e
                       /\ Task(x, p, e).call = [id |-> x, period |-> p]
                       /\ Task(x, p, e).call.period = p
    BY DEF Task
  <1>t. \A s \in Nat : TaskOf(s, [id |-> x, period |-> p]) = Task(x, p, s % Unit(WheelFor(s)))
    BY DEF TaskOf, Task
  <1>1. ASSUME ~Ran(w, x),
               NEW u \in WheelTypes, NEW i \in Nat, NEW e \in Nat,
               At(w.wheels, x, {}, u, i, Task(x, p, e)),
               Left(u, i, Before(t), count) + e + Late(e) = g
        PROVE  Stands(v, x, p, g, Before(t) \cup {t}, count)
    <2>1. CASE ~(u = t /\ i = 0 /\ count % Unit(t) = 0)
      <3>0. PICK task : task = Task(x, p, e)
        OBVIOUS
      <3>a. At(w.wheels, x, {}, u, i, task)
        BY <1>1, <3>0
      <3>b. PICK k : Stays(Turn(w, t, count), x, u, i, k, task, t, count)
        BY <2>1, <3>a, TurnAt
      <3>1. /\ At(v.wheels, x, {}, u, k, Task(x, p, e))
            /\ Left(u, k, Before(t) \cup {t}, count) = Left(u, i, Before(t), count)
        BY <1>v, <3>0, <3>b DEF Stays
      <3>2. k \in Nat
        BY <3>1 DEF At, Slot
      <3>3. ~Ran(v, x)
        BY <1>1, <2>1, <1>v, TurnAt
      <3>4. Left(u, k, Before(t) \cup {t}, count) + e + Late(e) = g
        BY <1>1, <3>1
      <3>5. Waits(v, x, p, g, Before(t) \cup {t}, count)
        BY <3>1, <3>2, <3>4 DEF Waits
      <3> QED BY <3>3, <3>5 DEF Stands
    <2>2. CASE u = t /\ i = 0 /\ count % Unit(t) = 0
      <3>1. At(w.wheels, x, {}, t, 0, Task(x, p, e))
        BY <1>1, <2>2
      <3>2. g = e + Late(e) /\ Late(e) \in Nat
        BY <1>1, <2>2, LeftNone, LateType
      <3>3. CASE e # 0
        <4>1. /\ e \in 1 .. Unit(t) - 1
              /\ At(v.wheels, x, {}, WheelFor(e), Place(e), TaskOf(e, [id |-> x, period |-> p]))
              /\ Ran(v, x) <=> Ran(w, x)
          BY <1>0, <2>2, <3>1, <3>3, <1>v, TurnHands
        <4>2. WheelFor(e) \in WheelTypes /\ Place(e) \in Nat
          BY <4>1 DEF At, Slot
        <4> DEFINE d == e % Unit(WheelFor(e))
        <4>3. d \in Nat
          <5>1. PICK U \in Nat \ {0} : U = Unit(WheelFor(e))
            BY <4>2, Units
          <5> QED BY <5>1, DivIs
        <4>4. Left(WheelFor(e), Place(e), Before(t) \cup {t}, count) + d + Late(d) = g
          BY <2>2, <3>2, <4>1, LeftHanded
        <4>5. At(v.wheels, x, {}, WheelFor(e), Place(e), Task(x, p, d))
          BY <1>t, <4>1
        <4> HIDE DEF d
        <4>6. Waits(v, x, p, g, Before(t) \cup {t}, count)
          BY <4>2, <4>3, <4>4, <4>5 DEF Waits
        <4> QED BY <1>1, <4>1, <4>6 DEF Stands
      <3>4. CASE e = 0 /\ p = 0
        <4>1. Nowhere(v.wheels, x, {}) /\ Ran(v, x)
          BY <1>0, <2>2, <3>1, <3>4, <1>v, TurnRuns
        <4>2. g = 0
          BY <3>2, <3>4, LateNone
        <4> QED BY <3>4, <4>1, <4>2 DEF Stands
      <3>5. CASE e = 0 /\ p # 0
        <4> DEFINE k == IF WheelFor(p) = t THEN Place(p) - 1 ELSE Place(p)
                   d == p % Unit(WheelFor(p))
        <4>1. /\ At(v.wheels, x, {}, WheelFor(p), k, TaskOf(p, [id |-> x, period |-> p]))
              /\ p \in Nat \ {0} /\ Representable(p)
              /\ Ran(v, x)
          BY <1>0, <2>2, <3>1, <3>5, <1>v, TurnAgain
        <4>2. WheelFor(p) \in WheelTypes
          BY <4>1, SlotIs
        <4>3. d \in Nat
          <5>1. PICK U \in Nat \ {0} : U = Unit(WheelFor(p))
            BY <4>2, Units
          <5> QED BY <5>1, DivIs
        <4>4. At(v.wheels, x, {}, WheelFor(p), k, Task(x, p, d))
          BY <1>t, <4>1
        <4>5. /\ k \in Nat
              /\ Left(WheelFor(p), k, Before(t) \cup {t}, count) > 0
              /\ Left(WheelFor(p), k, Before(t) \cup {t}, count) + d + Late(d) \in p .. p + Late(p)
          BY <2>2, <4>1, LeftAgain
        <4> HIDE DEF d, k
        <4>6. Again(v, x, p, Before(t) \cup {t}, count)
          BY <4>2, <4>3, <4>4, <4>5 DEF Again
        <4>7. g = 0
          BY <3>2, <3>5, LateNone
        <4> QED BY <3>5, <4>1, <4>6, <4>7 DEF Stands
      <3> QED BY <3>3, <3>4, <3>5
    <2> QED BY <2>1, <2>2
  <1>2. CASE ~Ran(w, x) /\ Waits(w, x, p, g, Before(t), count)
    BY <1>1, <1>2 DEF Waits
  <1>3. CASE Ran(w, x) /\ g = 0 /\ p = 0 /\ Nowhere(w.wheels, x, {})
    <2>1. Nowhere(v.wheels, x, {}) /\ Ran(v, x)
      BY <1>3, <1>v, TurnNowhere
    <2> QED BY <1>3, <2>1 DEF Stands
  <1>4. CASE Ran(w, x) /\ g = 0 /\ p # 0 /\ Again(w, x, p, Before(t), count)
    <2>1. PICK u \in WheelTypes, i \in Nat, e \in Nat :
            /\ At(w.wheels, x, {}, u, i, Task(x, p, e))
            /\ Left(u, i, Before(t), count) > 0
            /\ Left(u, i, Before(t), count) + e + Late(e) \in p .. p + Late(p)
      BY <1>4 DEF Again
    <2>2. ~(u = t /\ i = 0 /\ count % Unit(t) = 0)
      BY <2>1, LeftNone
    <2>0. PICK task : task = Task(x, p, e)
      OBVIOUS
    <2>a. At(w.wheels, x, {}, u, i, task)
      BY <2>0, <2>1
    <2>b. PICK k : Stays(Turn(w, t, count), x, u, i, k, task, t, count)
      BY <2>2, <2>a, TurnAt
    <2>3. /\ At(v.wheels, x, {}, u, k, Task(x, p, e))
          /\ Left(u, k, Before(t) \cup {t}, count) = Left(u, i, Before(t), count)
      BY <1>v, <2>0, <2>b DEF Stays
    <2>4. k \in Nat
      BY <2>3 DEF At, Slot
    <2>5. Ran(v, x)
      BY <1>4, <2>1, <2>2, <1>v, TurnAt
    <2>6. /\ Left(u, k, Before(t) \cup {t}, count) > 0
          /\ Left(u, k, Before(t) \cup {t}, count) + e + Late(e) \in p .. p + Late(p)
      BY <2>1, <2>3
    <2>7. Again(v, x, p, Before(t) \cup {t}, count)
      BY <2>3, <2>4, <2>6 DEF Again
    <2> QED BY <1>4, <2>5, <2>7 DEF Stands
  <1> QED BY <1>2, <1>3, <1>4 DEF Stands

\* All four wheels.
LEMMA TickTurns ==
  ASSUME NEW W \in WheelsType, NEW count
  PROVE  \E a \in State, b \in State, c \in State, d \in State :
           /\ a = Turn([wheels |-> W, ran |-> <<>>], "Second", count)
           /\ b = Turn(a, "Minute", count)
           /\ c = Turn(b, "Hour", count)
           /\ d = Turn(c, "Day", count)
           /\ d = Tick(W, count)
  <1> DEFINE w == [wheels |-> W, ran |-> <<>>]
  <1>1. w \in State
    BY DEF State
  <1>2. "Second" \in WheelTypes /\ "Minute" \in WheelTypes /\ "Hour" \in WheelTypes /\ "Day" \in WheelTypes
    BY DEF WheelTypes
  <1>3. PICK a : a = Turn(w, "Second", count)
    OBVIOUS
  <1>4. PICK b : b = Turn(a, "Minute", count)
    OBVIOUS
  <1>5. PICK c : c = Turn(b, "Hour", count)
    OBVIOUS
  <1>6. PICK d : d = Turn(c, "Day", count)
    OBVIOUS
  <1>7. a \in State
    BY <1>1, <1>2, <1>3, TurnIs
  <1>8. b \in State
    BY <1>2, <1>4, <1>7, TurnIs
  <1>9. c \in State
    BY <1>2, <1>5, <1>8, TurnIs
  <1>10. d \in State
    BY <1>2, <1>6, <1>9, TurnIs
  <1>11. d = Tick(W, count)
    BY <1>3, <1>4, <1>5, <1>6 DEF Tick
  <1> QED BY <1>3, <1>4, <1>5, <1>6, <1>7, <1>8, <1>9, <1>10, <1>11

\* At the start of a tick nobody has run.
LEMMA NoneRan ==
  ASSUME NEW W, NEW x
  PROVE  ~Ran([wheels |-> W, ran |-> <<>>], x)
  BY DEF Ran

\* A tick brings back none that was gone.
LEMMA TickNowhere ==
  ASSUME NEW W \in WheelsType, NEW count, NEW x, Nowhere(W, x, {})
  PROVE  Nowhere(Tick(W, count).wheels, x, {}) /\ ~Ran(Tick(W, count), x)
  <1>1. PICK a \in State, b \in State, c \in State, d \in State :
           /\ a = Turn([wheels |-> W, ran |-> <<>>], "Second", count)
           /\ b = Turn(a, "Minute", count)
           /\ c = Turn(b, "Hour", count)
           /\ d = Turn(c, "Day", count)
           /\ d = Tick(W, count)
    BY TickTurns
  <1>2. "Second" \in WheelTypes /\ "Minute" \in WheelTypes /\ "Hour" \in WheelTypes /\ "Day" \in WheelTypes
    BY DEF WheelTypes
  <1>3. PICK w \in State : w = [wheels |-> W, ran |-> <<>>]
    <2>1. [wheels |-> W, ran |-> <<>>] \in State
      BY DEF State
    <2> QED BY <2>1
  <1>4. Nowhere(w.wheels, x, {}) /\ ~Ran(w, x)
    BY <1>3, NoneRan
  <1>5. Nowhere(a.wheels, x, {}) /\ ~Ran(a, x)
    BY <1>1, <1>2, <1>3, <1>4, TurnNowhere
  <1>6. Nowhere(b.wheels, x, {}) /\ ~Ran(b, x)
    BY <1>1, <1>2, <1>5, TurnNowhere
  <1>7. Nowhere(c.wheels, x, {}) /\ ~Ran(c, x)
    BY <1>1, <1>2, <1>6, TurnNowhere
  <1>8. Nowhere(d.wheels, x, {}) /\ ~Ran(d, x)
    BY <1>1, <1>2, <1>7, TurnNowhere
  <1> QED BY <1>1, <1>8

\* After a tick x waits for what it waited for before it, or has run when that was none.
LEMMA TickStands ==
  ASSUME NEW W \in WheelsType, NEW count \in Nat, NEW x, NEW p \in Nat, NEW g,
         Waits([wheels |-> W, ran |-> <<>>], x, p, g, {}, count)
  PROVE  Stands(Tick(W, count), x, p, g, WheelTypes, count)
  <1>1. PICK a \in State, b \in State, c \in State, d \in State :
           /\ a = Turn([wheels |-> W, ran |-> <<>>], "Second", count)
           /\ b = Turn(a, "Minute", count)
           /\ c = Turn(b, "Hour", count)
           /\ d = Turn(c, "Day", count)
           /\ d = Tick(W, count)
    BY TickTurns
  <1>2. "Second" \in WheelTypes /\ "Minute" \in WheelTypes /\ "Hour" \in WheelTypes /\ "Day" \in WheelTypes
    BY DEF WheelTypes
  <1>3. PICK w \in State : w = [wheels |-> W, ran |-> <<>>]
    <2>1. [wheels |-> W, ran |-> <<>>] \in State
      BY DEF State
    <2> QED BY <2>1
  <1>4. Stands(w, x, p, g, Before("Second"), count)
    <2>1. Stands(w, x, p, g, {}, count)
      BY <1>3, NoneRan DEF Stands
    <2> QED BY <2>1, BeforeIs
  <1>5. /\ Before("Second") \cup {"Second"} = Before("Minute")
        /\ Before("Minute") \cup {"Minute"} = Before("Hour")
        /\ Before("Hour") \cup {"Hour"} = Before("Day")
        /\ Before("Day") \cup {"Day"} = WheelTypes
    BY BeforeIs DEF WheelTypes
  <1>6. Stands(a, x, p, g, Before("Minute"), count)
    <2>1. Stands(a, x, p, g, Before("Second") \cup {"Second"}, count)
      BY <1>1, <1>2, <1>3, <1>4, TurnStands
    <2> QED BY <1>5, <2>1
  <1>7. Stands(b, x, p, g, Before("Hour"), count)
    <2>1. Stands(b, x, p, g, Before("Minute") \cup {"Minute"}, count)
      BY <1>1, <1>2, <1>6, TurnStands
    <2> QED BY <1>5, <2>1
  <1>8. Stands(c, x, p, g, Before("Day"), count)
    <2>1. Stands(c, x, p, g, Before("Hour") \cup {"Hour"}, count)
      BY <1>1, <1>2, <1>7, TurnStands
    <2> QED BY <1>5, <2>1
  <1>9. Stands(d, x, p, g, WheelTypes, count)
    <2>1. Stands(d, x, p, g, Before("Day") \cup {"Day"}, count)
      BY <1>1, <1>2, <1>8, TurnStands
    <2> QED BY <1>5, <2>1
  <1> QED BY <1>1, <1>9

----------------------------------------------------------------------------
(* The invariant. *)

\* The types; a period is the delay that was asked for.
TypeInv ==
  /\ wheels_ \in WheelsType
  /\ counts_ \in 0 .. DAY - 1
  /\ age \in [Ids -> Nat]
  /\ \A x \in Ids :
       asked[x] # Never => /\ asked[x].delay \in Periods \ {0}
                           /\ asked[x].period \in {0, asked[x].delay}
  /\ DOMAIN asked = Ids

\* A call that is to run has one task, and it runs in time: as many ticks as the
\* wheels still show and its age are together at least its delay and at most one
\* unit of each wheel more.
OnItsWay(x) ==
  \E t \in WheelTypes, i \in Nat, e \in Nat :
    /\ At(wheels_, x, {}, t, i, Task(x, asked[x].period, e))
    /\ age[x] + Due(t, i, e, counts_) \in asked[x].delay .. asked[x].delay + Late(asked[x].delay)

\* The wheels hold what is asked for and nothing else.
CallsInv ==
  \A x \in Ids : IF asked[x] = Never THEN Nowhere(wheels_, x, {}) ELSE OnItsWay(x)

\* What has run did not run too early.
RanInv == \A r \in ran : r.age >= r.delay

\* The inductive invariant.
IInv == TypeInv /\ CallsInv /\ RanInv

\* All slots are empty and nothing is asked for.
LEMMA InitIInv == Init => IInv
  <1> SUFFICES ASSUME Init PROVE IInv
    OBVIOUS
  <1>1. wheels_ = [t \in WheelTypes |-> [i \in Slot(t) |-> <<>>]]
    BY DEF Init, EmptyWheels, Slot
  <1>2. \A t \in WheelTypes : [i \in Slot(t) |-> <<>>] \in Shape(t)
    <2>1. \A t \in WheelTypes : <<>> \in Seq(Held(t))
      OBVIOUS
    <2> QED BY <2>1 DEF Shape, Slot
  <1>3. wheels_ \in WheelsType
    <2>1. \A t \in WheelTypes : wheels_[t] \in Shape(t)
      BY <1>1, <1>2
    <2>2. wheels_ \in [WheelTypes -> UNION {Shape(t) : t \in WheelTypes}]
      BY <1>1, <1>2
    <2> QED BY <2>1, <2>2 DEF WheelsType
  <1>4. TypeInv
    BY <1>3, Units DEF Init, TypeInv
  <1>5. CallsInv
    <2>1. \A x : Free(<<>>, x)
      BY DEF Free
    <2>2. \A x : Nowhere(wheels_, x, {})
      BY <1>1, <2>1 DEF Nowhere
    <2> QED BY <2>2 DEF Init, CallsInv
  <1>6. RanInv
    BY DEF Init, RanInv
  <1> QED BY <1>4, <1>5, <1>6 DEF IInv

\* What is asked for can be put into the wheels.
LEMMA OnItsWayType ==
  ASSUME TypeInv, NEW x \in Ids, asked[x] # Never
  PROVE  /\ asked[x].delay \in Nat \ {0} /\ Representable(asked[x].delay)
         /\ asked[x].period \in {0, asked[x].delay} /\ asked[x].period \in Periods
         /\ Late(asked[x].delay) \in Nat
  <1>1. asked[x].delay \in Periods \ {0} /\ asked[x].period \in {0, asked[x].delay}
    BY DEF TypeInv
  <1>2. asked[x].delay \in Nat \ {0} /\ Representable(asked[x].delay)
    BY <1>1 DEF Periods
  <1>3. 0 \in Periods
    <2>1. 0 \in 0 .. Unit("Day") - 1 /\ "Day" \in WheelTypes
      BY Units DEF WheelTypes
    <2> QED BY <2>1, ExtraIs
  <1> QED BY <1>1, <1>2, <1>3, LateType

LEMMA NonePeriod == 0 \in Periods
  <1>1. 0 \in 0 .. Unit("Day") - 1 /\ "Day" \in WheelTypes
    BY Units DEF WheelTypes
  <1> QED BY <1>1, ExtraIs

\* What Insert makes of a delay: the ticks until it runs.
LEMMA DueAsked ==
  ASSUME NEW s \in Nat \ {0}, Representable(s), NEW count \in Nat
  PROVE  Due(WheelFor(s), Place(s), s % Unit(WheelFor(s)), count) \in s .. s + Late(s)
  <1>1. PICK u \in WheelTypes : u = WheelFor(s)
    BY SlotIs
  <1>2. PICK U \in Nat \ {0} : U = Unit(u)
    BY <1>1, Units
  <1>3. PICK n \in Nat, r \in 0 .. U - 1 : n = s \div U /\ r = s % U /\ s = U * n + r
    BY Divided
  <1>4. Late(s) = U + Late(r) /\ Late(r) \in Nat
    BY <1>1, <1>2, <1>3, LateIs, LateType
  <1>5. PICK d \in 0 .. U - 1 : d = count % U
    BY DivIs
  <1>6. n * U = U * n /\ U * n \in Nat
    OBVIOUS
  <1>7. Due(u, n, r, count) = U * n + (U - d) + r + Late(r)
    BY <1>2, <1>5, <1>6 DEF Due
  <1>8. Due(u, n, r, count) \in s .. s + Late(s)
    BY <1>3, <1>4, <1>6, <1>7
  <1> QED BY <1>1, <1>2, <1>3, <1>8 DEF Place

\* A call that is asked for.
LEMMA AskStep ==
  ASSUME IInv, NEW id \in Ids, NEW s \in Periods, NEW period \in {0, s},
         Ask(id, s, period)
  PROVE  IInv'
  <1> DEFINE call == [id |-> id, period |-> period]
             w0   == [wheels |-> wheels_, ran |-> <<>>]
  <1>t. TypeInv /\ CallsInv
    BY DEF IInv
  <1>1. w0 \in State /\ w0.wheels = wheels_ /\ w0.ran = <<>>
    BY <1>t DEF State, TypeInv
  <1>2. call \in Calls /\ call.id = id /\ call.period = period
    BY NonePeriod DEF Calls
  <1>3. PICK w : w = RunAfter(w0, s, call)
    OBVIOUS
  <1>4. RunAfterDoes(w0, s, call, w)
    BY <1>1, <1>2, <1>3, RunAfterIs
  <1>5. /\ asked[id] = Never
        /\ wheels_' = w.wheels
        /\ ran' = {[id |-> w.ran[i].id, delay |-> s, age |-> 0] : i \in DOMAIN w.ran}
        /\ asked' = [asked EXCEPT ![id] =
                       IF s = 0 THEN Never ELSE [delay |-> s, period |-> period]]
        /\ age' = [age EXCEPT ![id] = 0]
        /\ counts_' = counts_
    BY <1>3 DEF Ask
  <1>6. w \in State /\ w.wheels \in WheelsType /\ w.ran \in Seq(Calls) /\ s \in Nat
    BY <1>4 DEF RunAfterDoes, State, Periods
  <1>7. TypeInv'
    <2>1. wheels_' \in WheelsType /\ counts_' \in 0 .. DAY - 1 /\ age' \in [Ids -> Nat]
      BY <1>5, <1>6, <1>t DEF TypeInv
    <2>2. DOMAIN asked' = Ids
      BY <1>5, <1>t DEF TypeInv
    <2>3. ASSUME NEW x \in Ids, asked'[x] # Never
          PROVE  asked'[x].delay \in Periods \ {0} /\ asked'[x].period \in {0, asked'[x].delay}
      <3>1. CASE x = id
        BY <1>5, <1>t, <2>3, <3>1 DEF TypeInv
      <3>2. CASE x # id
        BY <1>5, <1>t, <2>3, <3>2 DEF TypeInv
      <3> QED BY <3>1, <3>2
    <2> QED BY <2>1, <2>2, <2>3 DEF TypeInv
  <1>8. ASSUME NEW x \in Ids \ {id}
        PROVE  IF asked'[x] = Never THEN Nowhere(wheels_', x, {}) ELSE OnItsWay(x)'
    <2>1. Beside(x, w0, w)
      BY <1>1, <1>2, <1>3, RunAfterBeside
    <2>2. asked'[x] = asked[x] /\ age'[x] = age[x]
      BY <1>5, <1>t DEF TypeInv
    <2>3. CASE asked[x] = Never
      <3>1. Nowhere(wheels_, x, {})
        BY <1>t, <2>3 DEF CallsInv
      <3>2. Nowhere(w.wheels, x, {})
        BY <1>1, <1>6, <2>1, <3>1, BesideNowhere
      <3> QED BY <1>5, <2>2, <2>3, <3>2
    <2>4. CASE asked[x] # Never
      <3>1. PICK t \in WheelTypes, i \in Nat, e \in Nat :
              /\ At(wheels_, x, {}, t, i, Task(x, asked[x].period, e))
              /\ age[x] + Due(t, i, e, counts_)
                   \in asked[x].delay .. asked[x].delay + Late(asked[x].delay)
        BY <1>t, <2>4 DEF CallsInv, OnItsWay
      <3>2. At(w.wheels, x, {}, t, i, Task(x, asked[x].period, e))
        BY <1>1, <1>6, <2>1, <3>1, BesideAt
      <3>3. OnItsWay(x)'
        BY <1>5, <2>2, <3>1, <3>2 DEF OnItsWay
      <3> QED BY <2>2, <2>4, <3>3
    <2> QED BY <2>3, <2>4
  <1>9. IF asked'[id] = Never THEN Nowhere(wheels_', id, {}) ELSE OnItsWay(id)'
    <2>0. Nowhere(wheels_, id, {})
      BY <1>5, <1>t DEF CallsInv
    <2>1. CASE s = 0
      <3>1. w.wheels = wheels_
        BY <1>1, <1>2, <1>4, <2>1 DEF RunAfterDoes
      <3>2. asked'[id] = Never
        BY <1>5, <1>t, <2>1 DEF TypeInv
      <3> QED BY <1>5, <2>0, <3>1, <3>2
    <2>2. CASE s # 0
      <3>1. s > 0 /\ s \in Nat \ {0} /\ Representable(s)
        BY <1>6, <2>2 DEF Periods
      <3>2. Put(wheels_, w.wheels, s, call)
        BY <1>1, <1>4, <3>1 DEF RunAfterDoes
      <3>3. asked'[id] = [delay |-> s, period |-> period] /\ age'[id] = 0
        BY <1>5, <1>t, <2>2 DEF TypeInv
      <3>4. asked'[id] # Never
        <4>1. asked'[id].delay # -1 /\ Never.delay = -1
          BY <3>1, <3>3 DEF Never
        <4> QED BY <4>1
      <3> DEFINE e == s % Unit(WheelFor(s))
      <3>5. At(wheels_', id, {}, WheelFor(s), Place(s), TaskOf(s, call))
        <4>1. wheels_ \in WheelsType /\ wheels_' = w.wheels
          BY <1>5, <1>t DEF TypeInv
        <4>2. Put(wheels_, wheels_', s, call) /\ Nowhere(wheels_, call.id, {})
          BY <1>2, <2>0, <3>2, <4>1
        <4>3. At(wheels_', call.id, {}, WheelFor(s), Place(s), TaskOf(s, call))
          BY <1>2, <3>1, <4>1, <4>2, PutAt
        <4> QED BY <1>2, <4>3
      <3>6. TaskOf(s, call) = Task(id, period, e)
        BY DEF TaskOf, Task
      <3>7. Due(WheelFor(s), Place(s), e, counts_') \in s .. s + Late(s)
        <4>1. counts_' \in Nat
          BY <1>5, <1>t, Units DEF TypeInv
        <4> QED BY <3>1, <4>1, DueAsked
      <3>8. WheelFor(s) \in WheelTypes /\ Place(s) \in Nat /\ e \in Nat
        <4>1. PICK U \in Nat \ {0} : U = Unit(WheelFor(s))
          BY <3>1, SlotIs, Units
        <4> QED BY <3>1, <4>1, SlotIs, DivIs DEF Place
      <3> HIDE DEF e, call
      <3>9. 0 + Due(WheelFor(s), Place(s), e, counts_') \in s .. s + Late(s)
        BY <3>7, <3>1, LateType
      <3>10. OnItsWay(id)'
        BY <3>3, <3>5, <3>6, <3>8, <3>9 DEF OnItsWay
      <3> QED BY <3>4, <3>10
    <2> QED BY <2>1, <2>2
  <1>10. CallsInv'
    BY <1>8, <1>9 DEF CallsInv
  <1>11. RanInv'
    <2>1. CASE s = 0
      BY <1>5, <2>1 DEF RanInv
    <2>2. CASE s # 0
      <3>1. s > 0
        BY <1>6, <2>2
      <3>2. \A x : ~Ran(w, x)
        BY <1>1, <1>4, <3>1, NoneRan DEF RunAfterDoes
      <3>3. ASSUME NEW i \in DOMAIN w.ran PROVE FALSE
        <4>1. i \in 1 .. Len(w.ran)
          BY <1>6
        <4> QED BY <3>2, <4>1 DEF Ran
      <3> QED BY <1>5, <3>3 DEF RanInv
    <2> QED BY <2>1, <2>2
  <1> QED BY <1>7, <1>10, <1>11 DEF IInv

\* A call that has waited for a tick.
LEMMA WaitsTick ==
  ASSUME TypeInv, NEW x \in Ids, OnItsWay(x)
  PROVE  \E g \in Nat :
           /\ Waits([wheels |-> wheels_, ran |-> <<>>], x, asked[x].period, g, {}, (counts_ + 1) % DAY)
           /\ age[x] + 1 + g \in asked[x].delay .. asked[x].delay + Late(asked[x].delay)
  <1>1. PICK t \in WheelTypes, i \in Nat, e \in Nat :
          /\ At(wheels_, x, {}, t, i, Task(x, asked[x].period, e))
          /\ age[x] + Due(t, i, e, counts_)
               \in asked[x].delay .. asked[x].delay + Late(asked[x].delay)
    BY DEF OnItsWay
  <1>2. counts_ \in 0 .. DAY - 1 /\ DAY \in Nat \ {0} /\ age[x] \in Nat
    BY Units DEF TypeInv
  <1>3. PICK c \in Nat : c = (counts_ + 1) % DAY
    <2>1. counts_ + 1 \in Nat
      BY <1>2
    <2> QED BY <1>2, <2>1, DivIs
  <1>4. PICK U \in Nat \ {0} : U = Unit(t)
    BY Units
  <1>5. PICK d \in 0 .. U - 1 : d = counts_ % U
    <2>1. counts_ \in Nat
      BY <1>2
    <2> QED BY <2>1, DivIs
  <1>6. PICK n \in Nat : n = i * U
    OBVIOUS
  <1>7. PICK l \in Nat : l = Late(e)
    BY LateType
  <1> DEFINE g == n + (U - d) - 1 + e + l
  <1>8. g \in Nat
    OBVIOUS
  <1>9. Left(t, i, {}, c) = n + (U - d) - 1
    BY <1>2, <1>3, <1>4, <1>5, <1>6, LeftStart
  <1>10. Left(t, i, {}, c) + e + Late(e) = g
    BY <1>7, <1>9
  <1>11. Due(t, i, e, counts_) = n + (U - d) + e + l
    BY <1>4, <1>5, <1>6, <1>7 DEF Due
  <1>12. age[x] + 1 + g = age[x] + Due(t, i, e, counts_)
    BY <1>2, <1>11
  <1> HIDE DEF g
  <1>13. Waits([wheels |-> wheels_, ran |-> <<>>], x, asked[x].period, g, {}, c)
    BY <1>1, <1>10 DEF Waits
  <1> QED BY <1>1, <1>3, <1>8, <1>12, <1>13

\* The end of a tick.
LEMMA TickEnds ==
  ASSUME NEW t \in WheelTypes, NEW i \in Nat, NEW e \in Nat, NEW count \in Nat
  PROVE  Due(t, i, e, count) = Left(t, i, WheelTypes, count) + e + Late(e)
         /\ Due(t, i, e, count) \in Nat
  <1>1. PICK U \in Nat \ {0} : U = Unit(t)
    BY Units
  <1>2. PICK d \in 0 .. U - 1 : d = count % U
    BY DivIs
  <1>3. PICK n \in Nat : n = i * U
    OBVIOUS
  <1>4. PICK l \in Nat : l = Late(e)
    BY LateType
  <1>5. Left(t, i, WheelTypes, count) = n + (U - d)
    BY <1>1, <1>2, <1>3, LeftEnd
  <1>6. Due(t, i, e, count) = n + (U - d) + e + l
    BY <1>1, <1>2, <1>3, <1>4 DEF Due
  <1> QED BY <1>4, <1>5, <1>6

\* A tick: what has run is the age it should be, and what has not is one tick nearer.
LEMMA TimingStep ==
  ASSUME IInv, OnTiming
  PROVE  IInv'
  <1>t. TypeInv /\ CallsInv
    BY DEF IInv
  <1>1. PICK c : c = (counts_ + 1) % DAY
    OBVIOUS
  <1>2. PICK w : w = Tick(wheels_, c)
    OBVIOUS
  <1> DEFINE fired == {w.ran[i].id : i \in DOMAIN w.ran}
  <1>3. /\ counts_' = c /\ wheels_' = w.wheels
        /\ ran' = {[id |-> id, delay |-> asked[id].delay, age |-> age[id] + 1] : id \in fired}
        /\ asked' = [id \in Ids |-> IF id \in fired /\ asked[id].period = 0
                                    THEN Never ELSE asked[id]]
        /\ age' = [id \in Ids |-> IF id \in fired \/ asked[id] = Never THEN 0 ELSE age[id] + 1]
    BY <1>1, <1>2 DEF OnTiming
  <1>4. c \in 0 .. DAY - 1 /\ c \in Nat
    <2>1. counts_ + 1 \in Nat /\ DAY \in Nat \ {0}
      BY <1>t, Units DEF TypeInv
    <2> QED BY <1>1, <2>1, DivIs
  <1>5. wheels_ \in WheelsType /\ age \in [Ids -> Nat]
    BY <1>t DEF TypeInv
  <1>6. w \in State /\ w.wheels \in WheelsType /\ w.ran \in Seq(Calls)
    BY <1>2, <1>5, TickTurns DEF State
  <1>7. \A x : x \in fired <=> Ran(w, x)
    BY <1>6 DEF Ran
  <1>8. fired \subseteq Ids
    <2>1. PICK calls \in Seq(Calls) : calls = w.ran
      BY <1>6
    <2>2. ASSUME NEW i \in DOMAIN calls
          PROVE  calls[i].id \in Ids
      <3>1. calls[i] \in Calls
        OBVIOUS
      <3> QED BY <3>1 DEF Calls
    <2> QED BY <2>1, <2>2
  <1> HIDE DEF fired
  <1>9. ASSUME NEW x \in Ids, asked[x] = Never
        PROVE  ~Ran(w, x) /\ asked'[x] = Never /\ Nowhere(wheels_', x, {})
    <2>1. Nowhere(wheels_, x, {})
      BY <1>t, <1>9 DEF CallsInv
    <2>2. Nowhere(w.wheels, x, {}) /\ ~Ran(w, x)
      BY <1>2, <1>5, <2>1, TickNowhere
    <2> QED BY <1>3, <1>7, <1>9, <2>2
  <1>10. ASSUME NEW x \in Ids, asked[x] # Never
         PROVE  /\ IF asked'[x] = Never THEN Nowhere(wheels_', x, {}) ELSE OnItsWay(x)'
                /\ Ran(w, x) => age[x] + 1 >= asked[x].delay
    <2>1. OnItsWay(x)
      BY <1>t, <1>10 DEF CallsInv
    <2>2. PICK g \in Nat :
             /\ Waits([wheels |-> wheels_, ran |-> <<>>], x, asked[x].period, g, {}, c)
             /\ age[x] + 1 + g \in asked[x].delay .. asked[x].delay + Late(asked[x].delay)
      BY <1>1, <1>t, <2>1, WaitsTick
    <2>3. PICK p \in Nat : p = asked[x].period /\ (p # 0 => p = asked[x].delay)
      BY <1>t, <1>10, OnItsWayType
    <2>4. Stands(w, x, p, g, WheelTypes, c)
      BY <1>2, <1>4, <1>5, <2>2, <2>3, TickStands
    <2>5. age[x] \in Nat /\ asked[x].delay \in Nat
      BY <1>5, <1>t, <1>10, OnItsWayType
    <2>6. CASE ~Ran(w, x) /\ Waits(w, x, p, g, WheelTypes, c)
      <3>1. asked'[x] = asked[x] /\ age'[x] = age[x] + 1
        BY <1>3, <1>7, <1>10, <2>6
      <3>2. PICK t \in WheelTypes, i \in Nat, e \in Nat :
              At(w.wheels, x, {}, t, i, Task(x, p, e)) /\ Left(t, i, WheelTypes, c) + e + Late(e) = g
        BY <2>6 DEF Waits
      <3>3. Due(t, i, e, c) = g
        BY <1>4, <3>2, TickEnds
      <3>4. OnItsWay(x)'
        BY <1>3, <2>2, <2>3, <3>1, <3>2, <3>3 DEF OnItsWay
      <3> QED BY <1>10, <2>6, <3>1, <3>4
    <2>7. CASE Ran(w, x) /\ g = 0 /\ p = 0 /\ Nowhere(w.wheels, x, {})
      <3>1. asked'[x] = Never
        BY <1>3, <1>7, <2>3, <2>7
      <3>2. age[x] + 1 >= asked[x].delay
        BY <2>2, <2>5, <2>7
      <3> QED BY <1>3, <2>7, <3>1, <3>2
    <2>8. CASE Ran(w, x) /\ g = 0 /\ p # 0 /\ Again(w, x, p, WheelTypes, c)
      <3>1. asked'[x] = asked[x] /\ age'[x] = 0
        BY <1>3, <1>7, <2>3, <2>8
      <3>2. PICK t \in WheelTypes, i \in Nat, e \in Nat :
              /\ At(w.wheels, x, {}, t, i, Task(x, p, e))
              /\ Left(t, i, WheelTypes, c) + e + Late(e) \in p .. p + Late(p)
        BY <2>8 DEF Again
      <3>3. Due(t, i, e, c) \in p .. p + Late(p) /\ Due(t, i, e, c) \in Nat
        BY <1>4, <3>2, TickEnds
      <3>4. 0 + Due(t, i, e, c) \in asked[x].delay .. asked[x].delay + Late(asked[x].delay)
        BY <2>3, <2>8, <3>3
      <3>5. OnItsWay(x)'
        BY <1>3, <2>3, <3>1, <3>2, <3>4 DEF OnItsWay
      <3>6. age[x] + 1 >= asked[x].delay
        BY <2>2, <2>5, <2>8
      <3> QED BY <1>10, <3>1, <3>5, <3>6
    <2> QED BY <2>4, <2>6, <2>7, <2>8 DEF Stands
  <1>11. CallsInv'
    BY <1>9, <1>10 DEF CallsInv
  <1>12. RanInv'
    <2>1. ASSUME NEW x \in fired PROVE age[x] + 1 >= asked[x].delay
      <3>1. x \in Ids /\ Ran(w, x)
        BY <1>7, <1>8
      <3>2. asked[x] # Never
        BY <1>9, <3>1
      <3> QED BY <1>10, <3>1, <3>2
    <2> QED BY <1>3, <2>1 DEF RanInv
  <1>13. TypeInv'
    <2>1. age' \in [Ids -> Nat]
      BY <1>3, <1>5
    <2>2. ASSUME NEW x \in Ids, asked'[x] # Never
          PROVE  asked'[x].delay \in Periods \ {0} /\ asked'[x].period \in {0, asked'[x].delay}
      BY <1>3, <1>t, <2>2 DEF TypeInv
    <2>3. DOMAIN asked' = Ids
      BY <1>3
    <2> QED BY <1>3, <1>4, <1>6, <2>1, <2>2, <2>3 DEF TypeInv
  <1> QED BY <1>11, <1>12, <1>13 DEF IInv

\* No step of SsmsTimingWheel or of the clock breaks the invariant.
LEMMA NextIInv == IInv /\ [Next]_vars => IInv'
  <1> SUFFICES ASSUME IInv, [Next]_vars PROVE IInv'
    OBVIOUS
  <1>1. CASE SecondPassed \/ UNCHANGED vars
    <2>1. UNCHANGED <<wheels_, counts_, asked, age, ran>>
      BY <1>1 DEF SecondPassed, vars, wheelVars, auxVars
    <2> QED BY <2>1 DEF IInv, TypeInv, CallsInv, RanInv, OnItsWay
  <1>2. CASE OnTiming
    BY <1>2, TimingStep
  <1>3. ASSUME NEW id \in Ids, CallRunAfter(id) PROVE IInv'
    <2>1. PICK s \in AfterDelays : Ask(id, s, 0)
      BY <1>3 DEF CallRunAfter
    <2>2. s \in Periods
      BY DelayAssumption DEF Periods
    <2> QED BY <2>1, <2>2, AskStep
  <1>4. ASSUME NEW id \in Ids, CallRunEvery(id) PROVE IInv'
    <2>1. PICK s \in EveryDelays : Ask(id, s, s)
      BY <1>4 DEF CallRunEvery
    <2>2. s \in Periods
      BY DelayAssumption DEF Periods
    <2> QED BY <2>1, <2>2, AskStep
  <1> QED BY <1>1, <1>2, <1>3, <1>4 DEF Next

LEMMA Invariant == Spec => []IInv
  BY InitIInv, NextIInv, PTL DEF Spec

----------------------------------------------------------------------------
(* What follows. *)

\* Every call of RunAfter and RunEvery runs neither early nor late, whatever the units
\* of the wheels, the delays and the order in which calls are asked for and run.
THEOREM RunsOnTime == Spec => []OnTime
  <1>1. IInv => OnTime
    <2> SUFFICES ASSUME IInv PROVE OnTime
      OBVIOUS
    <2>1. \A r \in ran : r.age >= r.delay
      BY DEF IInv, RanInv
    <2>2. ASSUME NEW id \in Ids, asked[id] # Never
          PROVE  age[id] <= asked[id].delay + Late(asked[id].delay)
      <3>1. PICK t \in WheelTypes, i \in Nat, e \in Nat :
              age[id] + Due(t, i, e, counts_)
                \in asked[id].delay .. asked[id].delay + Late(asked[id].delay)
        BY <2>2 DEF IInv, CallsInv, OnItsWay
      <3>2. Due(t, i, e, counts_) \in Nat
        <4>1. counts_ \in Nat
          BY Units DEF IInv, TypeInv
        <4> QED BY <4>1, TickEnds
      <3>3. age[id] \in Nat /\ asked[id].delay \in Nat /\ Late(asked[id].delay) \in Nat
        BY <2>2, OnItsWayType DEF IInv, TypeInv
      <3> QED BY <3>1, <3>2, <3>3
    <2> QED BY <2>1, <2>2 DEF OnTime
  <1> QED BY <1>1, Invariant, PTL

\* What the tasks of a call are, in the words of the invariant.
LEMMA PlaceIs ==
  ASSUME TypeInv, NEW id, NEW z
  PROVE  z \in Places(id) <=>
           \E t \in WheelTypes : \E i \in Slot(t) : \E n \in 1 .. Len(wheels_[t][i]) :
             z = <<t, <<i, n>>>> /\ wheels_[t][i][n].call.id = id
  <1>1. \A t \in WheelTypes : DOMAIN wheels_[t] = Slot(t)
    <2>1. \A t \in WheelTypes : wheels_[t] \in Shape(t)
      BY DEF TypeInv, WheelsType
    <2> QED BY <2>1 DEF Shape, Slot
  <1>2. \A t \in WheelTypes : \A i \in Slot(t) : DOMAIN wheels_[t][i] = 1 .. Len(wheels_[t][i])
    <2>1. ASSUME NEW t \in WheelTypes, NEW i \in Slot(t) PROVE wheels_[t][i] \in Seq(Held(t))
      BY SlotType DEF TypeInv
    <2> QED BY <2>1
  <1> DEFINE In(t, i, n) == wheels_[t][i][n].call.id = id
             All == UNION {{t} \X UNION {{i} \X DOMAIN wheels_[t][i] : i \in DOMAIN wheels_[t]} :
                             t \in WheelTypes}
  <1>3. z \in All <=> \E t \in WheelTypes : \E i \in DOMAIN wheels_[t] :
                        \E n \in DOMAIN wheels_[t][i] : z = <<t, <<i, n>>>>
    OBVIOUS
  <1>4. z \in Places(id) <=> z \in All /\ In(z[1], z[2][1], z[2][2])
    BY DEF Places
  <1> HIDE DEF All
  <1>5. z \in Places(id) <=>
          \E t \in WheelTypes : \E i \in DOMAIN wheels_[t] : \E n \in DOMAIN wheels_[t][i] :
            z = <<t, <<i, n>>>> /\ wheels_[t][i][n].call.id = id
    BY <1>3, <1>4
  <1> QED BY <1>1, <1>2, <1>5

\* RunAfter's hand-over from wheel to wheel and RunEvery's next round inside of a pop
\* neither drop a call nor double it.
THEOREM CallsKept == Spec => []KeptOnce
  <1>1. IInv => KeptOnce
    <2> SUFFICES ASSUME IInv, NEW id \in Ids
                 PROVE  Cardinality(Places(id)) = IF asked[id] = Never THEN 0 ELSE 1
      BY DEF KeptOnce
    <2>t. TypeInv
      BY DEF IInv
    <2>1. CASE asked[id] = Never
      <3>1. Nowhere(wheels_, id, {})
        BY <2>1 DEF IInv, CallsInv
      <3>2. Places(id) = {}
        BY <2>t, <3>1, PlaceIs DEF Nowhere, Free
      <3> QED BY <2>1, <3>2, FS_EmptySet
    <2>2. CASE asked[id] # Never
      <3>1. PICK t, i, task : At(wheels_, id, {}, t, i, task)
        BY <2>2 DEF IInv, CallsInv, OnItsWay
      <3>2. PICK n \in 1 .. Len(wheels_[t][i]) : Single(wheels_[t][i], id, n, task)
        BY <3>1 DEF At, Once
      <3>3. /\ t \in WheelTypes /\ i \in Slot(t)
            /\ \A m \in 1 .. Len(wheels_[t][i]) : wheels_[t][i][m].call.id = id <=> m = n
            /\ \A u \in WheelTypes : \A j \in Slot(u) :
                 (u = t /\ j = i) \/ \A m \in 1 .. Len(wheels_[u][j]) : wheels_[u][j][m].call.id # id
        BY <3>1, <3>2 DEF At, Single, Free
      <3>4. <<t, <<i, n>>>> \in Places(id)
        BY <2>t, <3>3, PlaceIs
      <3>5. ASSUME NEW z \in Places(id) PROVE z = <<t, <<i, n>>>>
        <4>1. PICK u, j, m :
                /\ u \in WheelTypes /\ j \in Slot(u) /\ m \in 1 .. Len(wheels_[u][j])
                /\ z = <<u, <<j, m>>>> /\ wheels_[u][j][m].call.id = id
          BY <2>t, PlaceIs
        <4>2. u = t /\ j = i
          BY <3>3, <4>1
        <4> QED BY <3>3, <4>1, <4>2
      <3>6. Places(id) = {<<t, <<i, n>>>>}
        BY <3>4, <3>5
      <3> QED BY <2>2, <3>6, FS_Singleton
    <2> QED BY <2>1, <2>2
  <1> QED BY <1>1, Invariant, PTL

============================================================================
