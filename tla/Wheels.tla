------------------------------- MODULE Wheels -------------------------------
(***************************************************************************)
(* The four wheels of SsmsTimingWheel (src/Base/SsmsTimingWheel.cpp) as    *)
(* operators on their value: how a task is put into a slot, what happens   *)
(* to the tasks of a slot when it is popped, one tick.                     *)
(*                                                                         *)
(* A task holds a call until its slot is popped: the destructor of         *)
(* TimingTask runs it.  "extra" is what is left of its delay then; a task  *)
(* of the seconds wheel has nothing left.  A call of RunEvery has a period *)
(* and asks again as soon as it has run; one of RunAfter has period 0.     *)
(***************************************************************************)
EXTENDS Integers, Sequences

CONSTANTS
  MINUTE,     \* ticks of a minute (60 in the code)
  HOUR,       \* ticks of an hour (3600)
  DAY,        \* ticks of a day (86400)
  DAY_SLOTS   \* slots of the days wheel (30)

ASSUME UnitAssumption ==
  /\ MINUTE \in Nat \ {0} /\ HOUR \in Nat \ {0} /\ DAY \in Nat \ {0}
  /\ HOUR % MINUTE = 0 /\ DAY % HOUR = 0
  /\ DAY_SLOTS \in Nat \ {0}

WheelTypes == {"Second", "Minute", "Hour", "Day"}

\* What one slot of a wheel stands for, and how many slots it has.
Unit(type) ==
  CASE type = "Second" -> 1
    [] type = "Minute" -> MINUTE
    [] type = "Hour"   -> HOUR
    [] type = "Day"    -> DAY

Slots(type) ==
  CASE type = "Second" -> MINUTE
    [] type = "Minute" -> HOUR \div MINUTE
    [] type = "Hour"   -> DAY \div HOUR
    [] type = "Day"    -> DAY_SLOTS

EmptyWheels == [type \in WheelTypes |-> [i \in 0 .. Slots(type) - 1 |-> <<>>]]

\* The wheel that takes a delay.
WheelFor(seconds) ==
  CASE seconds < MINUTE                      -> "Second"
    [] seconds >= MINUTE /\ seconds < HOUR   -> "Minute"
    [] seconds >= HOUR /\ seconds < DAY      -> "Hour"
    [] OTHER                                 -> "Day"

\* Mutant of Insert: the slot counted as if the next tick had taken one already.
MutInsert(wheels, seconds, call) ==
  LET type == WheelFor(seconds)
      slot == (seconds \div Unit(type)) - 1
  IN [wheels EXCEPT ![type][slot] =
        Append(@, [call |-> call, extra |-> seconds % Unit(type)])]

\* InsertSeconds, InsertMinutes, InsertHours, InsertDays: slot 0 is the next
\* to be popped.
Insert(wheels, seconds, call) ==
  LET type == WheelFor(seconds)
      slot == seconds \div Unit(type)
  IN [wheels EXCEPT ![type][slot] =
        Append(@, [call |-> call, extra |-> seconds % Unit(type)])]

\* A delay beyond the days wheel would be written past its last slot.
Representable(seconds) == seconds \div DAY < DAY_SLOTS

\* RunAfter on a value w of the wheels and of the calls that have run: a call
\* that runs and has a period is put back at once (RunEvery).
RunAfter(w, seconds, call) ==
  CASE seconds > 0 -> [w EXCEPT !.wheels = Insert(@, seconds, call)]
    [] seconds = 0 /\ call.period = 0 -> [w EXCEPT !.ran = Append(@, call)]
    [] OTHER -> [wheels |-> Insert(w.wheels, call.period, call),
                 ran    |-> Append(w.ran, call)]

\* What becomes of w when the tasks of a slot are destroyed, one after the other.
RunAll(w, tasks) ==
  LET after[n \in 0 .. Len(tasks)] ==
        IF n = 0 THEN w ELSE RunAfter(after[n - 1], tasks[n].extra, tasks[n].call)
  IN  after[Len(tasks)]

\* Mutant of PopFront: the popped slot comes back at the end with its tasks in it,
\* not an empty one.
MutPopFront(w, type) ==
  LET last   == Slots(type) - 1
      turned == [w EXCEPT !.wheels[type] =
                   [i \in 0 .. last |-> w.wheels[type][(i + 1) % (last + 1)]]]
  IN RunAll(turned, w.wheels[type][0])

\* pop_front destroys the tasks of slot 0 while every slot still has its old
\* index; then the others move up and an empty slot comes last.
PopFront(w, type) ==
  LET popped == RunAll(w, w.wheels[type][0])
      last   == Slots(type) - 1
  IN [popped EXCEPT !.wheels[type] =
        [i \in 0 .. last |-> IF i < last THEN popped.wheels[type][i + 1] ELSE <<>>]]

\* A wheel turns every unit of its own.
Turn(w, type, count) == IF count % Unit(type) = 0 THEN PopFront(w, type) ELSE w

\* OnTiming of a new second, the count-th: the wheels that turn, in this order.
Tick(wheels, count) ==
  LET second == Turn([wheels |-> wheels, ran |-> <<>>], "Second", count)
      minute == Turn(second, "Minute", count)
      hour   == Turn(minute, "Hour", count)
  IN  Turn(hour, "Day", count)

=============================================================================
