---------------------------- MODULE RelayProofs ----------------------------
(***************************************************************************)
(* Proofs about Relay, for any number of loops and players.                *)
(***************************************************************************)
EXTENDS Relay, SequenceTheorems, TLAPS

-----------------------------------------------------------------------------
(* Type correctness.  On its own TypeOK is not inductive: a thread that      *)
(* handles a player must have one, and replies must not go below 0.          *)

WithPlayer == {"add", "store", "join", "reply", "close_event", "close_task"}

Handling ==
  \A l \in Loops :
    /\ pc[l] \in WithPlayer => who[l] \in Players
    /\ pc[l] = "reply" => replies[l] > 0

TypeInv == TypeOK /\ Handling

LEMMA TypeInit == Init => TypeInv
  BY RelayAssumption DEF Init, TypeInv, TypeOK, Handling, WithPlayer, PCs, Task, TaskKinds

LEMMA TypeStep == TypeInv /\ [Next]_vars => TypeInv'
<1>. SUFFICES ASSUME TypeInv, [Next]_vars PROVE TypeInv'
  OBVIOUS
<1>. USE RelayAssumption DEF TypeInv, TypeOK, Handling, WithPlayer, PCs, Goto,
         sessionVars, queueVars, playerVars, threadVars
<1>0. CASE UNCHANGED vars
  BY <1>0 DEF vars
<1>1. ASSUME NEW l \in Loops, LockQueue(l) PROVE TypeInv'
  BY <1>1 DEF LockQueue
<1>2. ASSUME NEW l \in Loops, TakeTasks(l) PROVE TypeInv'
  <2>1. /\ tasks_copy_[l] \o tasks_[l] \in Seq(Task)
        /\ <<>> \in Seq(Task)
    OBVIOUS
  <2>. QED BY <1>2, <2>1 DEF TakeTasks
<1>3. ASSUME NEW l \in Loops, RunTask(l) PROVE TypeInv'
  <2>. DEFINE p == Head(tasks_copy_[l]).player
  <2>1. tasks_copy_[l] # <<>> /\ tasks_copy_[l] \in Seq(Task)
    BY <1>3 DEF RunTask
  <2>2. Tail(tasks_copy_[l]) \in Seq(Task) /\ p \in Players
    BY <2>1, HeadTailProperties, Head(tasks_copy_[l]) \in Task DEF Task
  <2>3. tasks_copy_' \in [Loops -> Seq(Task)]
    BY <1>3, <2>2 DEF RunTask
  <2>4. active_' \in [Players -> BOOLEAN] /\ iovecs_' \in [Players -> BOOLEAN]
       /\ write_event' \in [Players -> BOOLEAN]
    BY <1>3, <2>2 DEF RunTask, WriteComplete
  <2>5. CASE UNCHANGED <<pc, who>>
    BY <1>3, <2>3, <2>4, <2>5 DEF RunTask
  <2>6. CASE Goto(l, "close_task", p)
    BY <1>3, <2>2, <2>3, <2>4, <2>6 DEF RunTask
  <2>. QED BY <1>3, <2>5, <2>6 DEF RunTask
<1>4. ASSUME NEW l \in Loops, TasksDone(l) PROVE TypeInv'
  BY <1>4 DEF TasksDone
<1>5. ASSUME NEW l \in Loops, ActiveAllLock(l) PROVE TypeInv'
  BY <1>5 DEF ActiveAllLock
<1>6. ASSUME NEW l \in Loops, ActiveLoad(l) PROVE TypeInv'
  <2>1. PICK p \in todo[l] :
          /\ todo' = [todo EXCEPT ![l] = @ \ {p}]
          /\ IF active_[p] THEN UNCHANGED <<pc, who>> ELSE Goto(l, "add", p)
    BY <1>6 DEF ActiveLoad
  <2>2. todo' \in [Loops -> SUBSET Players] /\ p \in Players
    BY <2>1
  <2>3. CASE UNCHANGED <<pc, who>>
    BY <1>6, <2>2, <2>3 DEF ActiveLoad
  <2>4. CASE Goto(l, "add", p)
    BY <1>6, <2>2, <2>4 DEF ActiveLoad
  <2>. QED BY <2>1, <2>3, <2>4
<1>7. ASSUME NEW l \in Loops, ActiveAddTask(l) PROVE TypeInv'
  <2>1. [kind |-> "Play", player |-> who[l]] \in Task /\ Home[who[l]] \in Loops
    BY <1>7 DEF ActiveAddTask, Task, TaskKinds
  <2>. QED BY <1>7, <2>1 DEF ActiveAddTask, AddTask
<1>8. ASSUME NEW l \in Loops, ActiveStore(l) PROVE TypeInv'
  BY <1>8 DEF ActiveStore
<1>9. ASSUME NEW l \in Loops, ActiveAllUnlock(l) PROVE TypeInv'
  BY <1>9 DEF ActiveAllUnlock
<1>10. ASSUME NEW l \in Loops, AddConsumer(l) PROVE TypeInv'
  BY <1>10 DEF AddConsumer
<1>11. ASSUME NEW l \in Loops, PostMessage(l) PROVE TypeInv'
  <2>1. [kind |-> "PostMessage", player |-> who[l]] \in Task
    BY <1>11 DEF PostMessage, Task, TaskKinds
  <2>2. tasks_' \in [Loops -> Seq(Task)]
    BY <1>11, <2>1 DEF PostMessage, AddTask
  <2>3. replies' \in [Loops -> 0 .. Replies] /\ replies'[l] = replies[l] - 1
    BY <1>11 DEF PostMessage
  <2>4. \A k \in Loops : k # l => replies'[k] = replies[k]
    BY <1>11 DEF PostMessage
  <2>5. CASE replies[l] = 1
    <3>1. Goto(l, "events", NoPlayer)
      BY <1>11, <2>5 DEF PostMessage
    <3>. QED BY <1>11, <2>2, <2>3, <2>4, <3>1 DEF PostMessage, AddTask
  <2>6. CASE replies[l] # 1
    <3>1. UNCHANGED <<pc, who>>
      BY <1>11, <2>6 DEF PostMessage
    <3>2. replies'[l] > 0
      BY <1>11, <2>3, <2>6 DEF PostMessage
    <3>. QED BY <1>11, <2>2, <2>3, <2>4, <3>1, <3>2 DEF PostMessage, AddTask
  <2>. QED BY <2>5, <2>6
<1>12. ASSUME NEW l \in Loops, OnClose(l) PROVE TypeInv'
  BY <1>12 DEF OnClose
<1>13. ASSUME NEW l \in Loops, ProcessAudioVideo(l) PROVE TypeInv'
  BY <1>13 DEF ProcessAudioVideo
<1>14. ASSUME NEW l \in Loops, NEW p \in Players, Play(l, p) PROVE TypeInv'
  BY <1>14 DEF Play
<1>15. ASSUME NEW l \in Loops, NEW p \in Players, OnWrite(l, p) PROVE TypeInv'
  BY <1>15 DEF OnWrite, WriteComplete
<1>16. ASSUME NEW l \in Loops, NEW p \in Players, Disconnect(l, p) PROVE TypeInv'
  BY <1>16 DEF Disconnect
<1>. QED
  BY <1>0, <1>1, <1>2, <1>3, <1>4, <1>5, <1>6, <1>7, <1>8, <1>9, <1>10,
     <1>11, <1>12, <1>13, <1>14, <1>15, <1>16 DEF Next, Continue

\* Every variable of Relay keeps its type, whatever the loops and players are.
THEOREM TypeCorrect == Spec => []TypeOK
<1>1. TypeInv => TypeOK
  BY DEF TypeInv
<1>. QED BY <1>1, TypeInit, TypeStep, PTL DEF Spec

-----------------------------------------------------------------------------
(* The locks and the consumers.  A lock is held exactly in the stretch of    *)
(* code its guard spans, only the publisher's loop is ever in ActiveAll, and *)
(* a player is handled by its own loop otherwise.                            *)

InActiveAll == {"visit", "add", "store"}
OnOwnLoop   == {"join", "reply", "close_event", "close_task"}

LockInv ==
  /\ \A l \in Loops : session_lock = l <=> pc[l] \in InActiveAll
  /\ \A l \in Loops : queue_lock[l] # NoLoop => queue_lock[l] = l /\ pc[l] = "take"
  /\ \A l \in Loops : todo[l] # {} => pc[l] \in InActiveAll

ConsumerInv ==
  /\ \A p \in Players : p \in consumers_ <=> status[p] = "playing"
  /\ \A l \in Loops : pc[l] \in OnOwnLoop => Home[who[l]] = l
  /\ \A l \in Loops : pc[l] = "join" => status[who[l]] = "connected"
  /\ IteratedStillConsumer

\* A loop only has tasks of its own players.
TaskOf(l) == {t \in Task : Home[t.player] = l}

TaskInv == \A l \in Loops : tasks_[l] \in Seq(TaskOf(l)) /\ tasks_copy_[l] \in Seq(TaskOf(l))

SafeInv == TypeInv /\ TaskInv /\ LockInv /\ ConsumerInv

LEMMA SafeInit == Init => SafeInv
  BY TypeInit, RelayAssumption
  DEF Init, SafeInv, TaskInv, LockInv, ConsumerInv, IteratedStillConsumer, InActiveAll, OnOwnLoop

LEMMA TaskStep == SafeInv /\ [Next]_vars => TaskInv'
<1>. SUFFICES ASSUME SafeInv, [Next]_vars PROVE TaskInv'
  OBVIOUS
<1>. USE RelayAssumption DEF SafeInv, TypeInv, TypeOK, TaskInv,
         sessionVars, queueVars, playerVars, threadVars
<1>0. CASE UNCHANGED vars
  BY <1>0 DEF vars
<1>1. ASSUME NEW l \in Loops, LockQueue(l) PROVE TaskInv'
  BY <1>1 DEF LockQueue
<1>2. ASSUME NEW l \in Loops, TakeTasks(l) PROVE TaskInv'
  <2>1. tasks_copy_[l] \o tasks_[l] \in Seq(TaskOf(l)) /\ <<>> \in Seq(TaskOf(l))
    OBVIOUS
  <2>. QED BY <1>2, <2>1 DEF TakeTasks
<1>3. ASSUME NEW l \in Loops, RunTask(l) PROVE TaskInv'
  <2>1. Tail(tasks_copy_[l]) \in Seq(TaskOf(l))
    BY <1>3, HeadTailProperties DEF RunTask
  <2>. QED BY <1>3, <2>1 DEF RunTask
<1>4. ASSUME NEW l \in Loops, TasksDone(l) PROVE TaskInv'
  BY <1>4 DEF TasksDone
<1>5. ASSUME NEW l \in Loops, ActiveAllLock(l) PROVE TaskInv'
  BY <1>5 DEF ActiveAllLock
<1>6. ASSUME NEW l \in Loops, ActiveLoad(l) PROVE TaskInv'
  BY <1>6 DEF ActiveLoad
<1>7. ASSUME NEW l \in Loops, ActiveAddTask(l) PROVE TaskInv'
  <2>. DEFINE t == [kind |-> "Play", player |-> who[l]]
  <2>1. who[l] \in Players
    BY <1>7 DEF ActiveAddTask, Handling, WithPlayer
  <2>2. t \in TaskOf(Home[who[l]])
    BY <2>1 DEF TaskOf, Task, TaskKinds
  <2>. QED BY <1>7, <2>1, <2>2 DEF ActiveAddTask, AddTask
<1>8. ASSUME NEW l \in Loops, ActiveStore(l) PROVE TaskInv'
  BY <1>8 DEF ActiveStore
<1>9. ASSUME NEW l \in Loops, ActiveAllUnlock(l) PROVE TaskInv'
  BY <1>9 DEF ActiveAllUnlock
<1>10. ASSUME NEW l \in Loops, AddConsumer(l) PROVE TaskInv'
  BY <1>10 DEF AddConsumer
<1>11. ASSUME NEW l \in Loops, PostMessage(l) PROVE TaskInv'
  <2>. DEFINE t == [kind |-> "PostMessage", player |-> who[l]]
  <2>1. who[l] \in Players /\ Home[who[l]] = l
    BY <1>11 DEF PostMessage, Handling, WithPlayer, ConsumerInv, OnOwnLoop
  <2>2. t \in TaskOf(l)
    BY <2>1 DEF TaskOf, Task, TaskKinds
  <2>. QED BY <1>11, <2>2 DEF PostMessage, AddTask
<1>12. ASSUME NEW l \in Loops, OnClose(l) PROVE TaskInv'
  BY <1>12 DEF OnClose
<1>13. ASSUME NEW l \in Loops, ProcessAudioVideo(l) PROVE TaskInv'
  BY <1>13 DEF ProcessAudioVideo
<1>14. ASSUME NEW l \in Loops, NEW p \in Players, Play(l, p) PROVE TaskInv'
  BY <1>14 DEF Play
<1>15. ASSUME NEW l \in Loops, NEW p \in Players, OnWrite(l, p) PROVE TaskInv'
  BY <1>15 DEF OnWrite, WriteComplete
<1>16. ASSUME NEW l \in Loops, NEW p \in Players, Disconnect(l, p) PROVE TaskInv'
  BY <1>16 DEF Disconnect
<1>. QED
  BY <1>0, <1>1, <1>2, <1>3, <1>4, <1>5, <1>6, <1>7, <1>8,
     <1>9, <1>10, <1>11, <1>12, <1>13, <1>14, <1>15, <1>16
  DEF Next, Continue

\* A step that takes no thread into or out of a locked stretch.
LEMMA LocksKept ==
  ASSUME LockInv, UNCHANGED <<session_lock, queue_lock, todo>>,
         \A k \in Loops : /\ pc'[k] \in InActiveAll <=> pc[k] \in InActiveAll
                          /\ pc'[k] = "take" <=> pc[k] = "take"
  PROVE  LockInv'
BY DEF LockInv, InActiveAll

LEMMA LockStep == SafeInv /\ [Next]_vars => LockInv'
<1>. SUFFICES ASSUME SafeInv, [Next]_vars PROVE LockInv'
  OBVIOUS
<1>. USE RelayAssumption DEF SafeInv, TypeInv, TypeOK, LockInv, InActiveAll, Goto,
         sessionVars, queueVars, playerVars, threadVars
<1>0. CASE UNCHANGED vars
  BY <1>0 DEF vars
<1>1. ASSUME NEW l \in Loops, LockQueue(l) PROVE LockInv'
  BY <1>1, SMTT(30) DEF LockQueue
<1>2. ASSUME NEW l \in Loops, TakeTasks(l) PROVE LockInv'
  BY <1>2 DEF TakeTasks
<1>3. ASSUME NEW l \in Loops, RunTask(l) PROVE LockInv'
  <2>1. pc' = pc \/ pc' = [pc EXCEPT ![l] = "close_task"]
    BY <1>3 DEF RunTask
  <2>2. pc[l] = "tasks" /\ UNCHANGED <<session_lock, queue_lock, todo>>
    BY <1>3 DEF RunTask
  <2>3. \A k \in Loops : /\ pc'[k] \in InActiveAll <=> pc[k] \in InActiveAll
                         /\ pc'[k] = "take" <=> pc[k] = "take"
    BY <2>1, <2>2
  <2>. QED BY <2>2, <2>3, LocksKept
<1>4. ASSUME NEW l \in Loops, TasksDone(l) PROVE LockInv'
  BY <1>4 DEF TasksDone
<1>5. ASSUME NEW l \in Loops, ActiveAllLock(l) PROVE LockInv'
  BY <1>5 DEF ActiveAllLock
<1>6. ASSUME NEW l \in Loops, ActiveLoad(l) PROVE LockInv'
  BY <1>6, SMTT(30) DEF ActiveLoad
<1>7. ASSUME NEW l \in Loops, ActiveAddTask(l) PROVE LockInv'
  BY <1>7 DEF ActiveAddTask, AddTask
<1>8. ASSUME NEW l \in Loops, ActiveStore(l) PROVE LockInv'
  BY <1>8 DEF ActiveStore
<1>9. ASSUME NEW l \in Loops, ActiveAllUnlock(l) PROVE LockInv'
  BY <1>9 DEF ActiveAllUnlock
<1>10. ASSUME NEW l \in Loops, AddConsumer(l) PROVE LockInv'
  BY <1>10 DEF AddConsumer
<1>11. ASSUME NEW l \in Loops, PostMessage(l) PROVE LockInv'
  <2>1. pc' = pc \/ pc' = [pc EXCEPT ![l] = "events"]
    BY <1>11 DEF PostMessage
  <2>2. pc[l] = "reply" /\ UNCHANGED <<session_lock, queue_lock, todo>>
    BY <1>11 DEF PostMessage, AddTask
  <2>3. \A k \in Loops : /\ pc'[k] \in InActiveAll <=> pc[k] \in InActiveAll
                         /\ pc'[k] = "take" <=> pc[k] = "take"
    BY <2>1, <2>2
  <2>. QED BY <2>2, <2>3, LocksKept
<1>12. ASSUME NEW l \in Loops, OnClose(l) PROVE LockInv'
  <2>1. /\ pc[l] \in {"close_event", "close_task"}
        /\ UNCHANGED <<session_lock, queue_lock, todo>>
    BY <1>12 DEF OnClose
  <2>2. pc' = [pc EXCEPT ![l] = "tasks"] \/ pc' = [pc EXCEPT ![l] = "events"]
    BY <1>12 DEF OnClose
  <2>3. \A k \in Loops : /\ pc'[k] \in InActiveAll <=> pc[k] \in InActiveAll
                         /\ pc'[k] = "take" <=> pc[k] = "take"
    BY <2>1, <2>2
  <2>. QED BY <2>1, <2>3, LocksKept
<1>13. ASSUME NEW l \in Loops, ProcessAudioVideo(l) PROVE LockInv'
  BY <1>13 DEF ProcessAudioVideo
<1>14. ASSUME NEW l \in Loops, NEW p \in Players, Play(l, p) PROVE LockInv'
  BY <1>14, SMTT(30) DEF Play
<1>15. ASSUME NEW l \in Loops, NEW p \in Players, OnWrite(l, p) PROVE LockInv'
  BY <1>15 DEF OnWrite, WriteComplete
<1>16. ASSUME NEW l \in Loops, NEW p \in Players, Disconnect(l, p) PROVE LockInv'
  BY <1>16, SMTT(30) DEF Disconnect
<1>. QED
  BY <1>0, <1>1, <1>2, <1>3, <1>4, <1>5, <1>6, <1>7, <1>8,
     <1>9, <1>10, <1>11, <1>12, <1>13, <1>14, <1>15, <1>16
  DEF Next, Continue

LEMMA ConsumerStep == SafeInv /\ [Next]_vars => ConsumerInv'
<1>. SUFFICES ASSUME SafeInv, [Next]_vars PROVE ConsumerInv'
  OBVIOUS
<1>. USE RelayAssumption DEF SafeInv, TypeInv, TypeOK, Handling, WithPlayer, LockInv,
         ConsumerInv, IteratedStillConsumer, InActiveAll, OnOwnLoop, Goto,
         sessionVars, queueVars, playerVars, threadVars
<1>0. CASE UNCHANGED vars
  BY <1>0 DEF vars
<1>1. ASSUME NEW l \in Loops, LockQueue(l) PROVE ConsumerInv'
  BY <1>1 DEF LockQueue
<1>2. ASSUME NEW l \in Loops, TakeTasks(l) PROVE ConsumerInv'
  BY <1>2 DEF TakeTasks
<1>3. ASSUME NEW l \in Loops, RunTask(l) PROVE ConsumerInv'
  <2>1. CASE UNCHANGED <<pc, who>>
    BY <1>3, <2>1 DEF RunTask
  <2>2. CASE Goto(l, "close_task", Head(tasks_copy_[l]).player)
    <3>1. Head(tasks_copy_[l]) \in TaskOf(l)
      BY <1>3, HeadTailProperties DEF RunTask, TaskInv
    <3>2. Home[Head(tasks_copy_[l]).player] = l
      BY <3>1 DEF TaskOf
    <3>. QED BY <1>3, <2>2, <3>2 DEF RunTask
  <2>. QED BY <1>3, <2>1, <2>2 DEF RunTask
<1>4. ASSUME NEW l \in Loops, TasksDone(l) PROVE ConsumerInv'
  BY <1>4 DEF TasksDone
<1>5. ASSUME NEW l \in Loops, ActiveAllLock(l) PROVE ConsumerInv'
  BY <1>5 DEF ActiveAllLock
<1>6. ASSUME NEW l \in Loops, ActiveLoad(l) PROVE ConsumerInv'
  <2>1. PICK p \in todo[l] :
          /\ todo' = [todo EXCEPT ![l] = @ \ {p}]
          /\ IF active_[p] THEN UNCHANGED <<pc, who>> ELSE Goto(l, "add", p)
    BY <1>6 DEF ActiveLoad
  <2>2. \A k \in Loops : todo'[k] \subseteq consumers_
    BY <2>1
  <2>3. UNCHANGED <<pc, who>> \/ Goto(l, "add", p)
    BY <2>1
  <2>4. p \in consumers_ /\ UNCHANGED <<consumers_, status>>
    BY <1>6 DEF ActiveLoad
  <2>5. CASE UNCHANGED <<pc, who>>
    BY <2>2, <2>4, <2>5
  <2>6. CASE Goto(l, "add", p)
    BY <2>2, <2>4, <2>6
  <2>. QED BY <2>3, <2>5, <2>6
<1>7. ASSUME NEW l \in Loops, ActiveAddTask(l) PROVE ConsumerInv'
  BY <1>7, SMTT(30) DEF ActiveAddTask, AddTask
<1>8. ASSUME NEW l \in Loops, ActiveStore(l) PROVE ConsumerInv'
  BY <1>8 DEF ActiveStore
<1>9. ASSUME NEW l \in Loops, ActiveAllUnlock(l) PROVE ConsumerInv'
  BY <1>9 DEF ActiveAllUnlock
<1>10. ASSUME NEW l \in Loops, AddConsumer(l) PROVE ConsumerInv'
  BY <1>10 DEF AddConsumer
<1>11. ASSUME NEW l \in Loops, PostMessage(l) PROVE ConsumerInv'
  <2>1. UNCHANGED <<pc, who>> \/ Goto(l, "events", NoPlayer)
    BY <1>11 DEF PostMessage
  <2>2. UNCHANGED <<consumers_, status, todo>>
    BY <1>11 DEF PostMessage
  <2>3. CASE UNCHANGED <<pc, who>>
    BY <2>2, <2>3
  <2>4. CASE Goto(l, "events", NoPlayer)
    BY <2>2, <2>4
  <2>. QED BY <2>1, <2>3, <2>4
<1>12. ASSUME NEW l \in Loops, OnClose(l) PROVE ConsumerInv'
  BY <1>12, SMTT(30) DEF OnClose
<1>13. ASSUME NEW l \in Loops, ProcessAudioVideo(l) PROVE ConsumerInv'
  BY <1>13 DEF ProcessAudioVideo
<1>14. ASSUME NEW l \in Loops, NEW p \in Players, Play(l, p) PROVE ConsumerInv'
  BY <1>14 DEF Play
<1>15. ASSUME NEW l \in Loops, NEW p \in Players, OnWrite(l, p) PROVE ConsumerInv'
  BY <1>15 DEF OnWrite, WriteComplete
<1>16. ASSUME NEW l \in Loops, NEW p \in Players, Disconnect(l, p) PROVE ConsumerInv'
  BY <1>16 DEF Disconnect
<1>. QED
  BY <1>0, <1>1, <1>2, <1>3, <1>4, <1>5, <1>6, <1>7, <1>8,
     <1>9, <1>10, <1>11, <1>12, <1>13, <1>14, <1>15, <1>16
  DEF Next, Continue

LEMMA SafeStep == SafeInv /\ [Next]_vars => SafeInv'
  BY TypeStep, TaskStep, LockStep, ConsumerStep DEF SafeInv

LEMMA SafeAlways == Spec => []SafeInv
  BY SafeInit, SafeStep, PTL DEF Spec

-----------------------------------------------------------------------------
(* What the invariant gives *)

\* While ActiveAll goes through the consumers none of them can be deleted: the
\* argument of the comment in SsmsSession::ActiveAll.
THEOREM ActiveAllSafe == Spec => []IteratedStillConsumer
<1>1. SafeInv => IteratedStillConsumer
  BY DEF SafeInv, ConsumerInv
<1>. QED BY <1>1, SafeAlways, PTL

\* A closed player has left the session for good.
THEOREM ClosedLeft == Spec => []ClosedNotConsumer
<1>1. SafeInv => ClosedNotConsumer
  BY DEF SafeInv, ConsumerInv, ClosedNotConsumer
<1>. QED BY <1>1, SafeAlways, PTL

\* No thread that holds a queue's lock waits for the session's lock, so the two
\* kinds of lock cannot be waited for in a circle.
THEOREM DeadlockFree == Spec => []NoLockCycle
<1>1. SafeInv => NoLockCycle
  <2>. SUFFICES ASSUME SafeInv, NEW l \in Loops, NEW h \in Loops,
                       session_lock = l, WaitsForQueue(l, h), queue_lock[h] # NoLoop
                PROVE  ~WaitsForSession(queue_lock[h]) /\ queue_lock[h] # l
    BY DEF NoLockCycle
  <2>1. queue_lock[h] = h /\ pc[h] = "take"
    BY DEF SafeInv, LockInv
  <2>2. pc[l] \in InActiveAll
    BY DEF SafeInv, LockInv
  <2>. QED BY <2>1, <2>2 DEF WaitsForSession, InActiveAll
<1>. QED BY <1>1, SafeAlways, PTL

-----------------------------------------------------------------------------
(* Activations on the publisher's own loop.  They need one more fact than    *)
(* the property: between AddTask and the store of active_ the thread is in   *)
(* Active, so the loop that would run the task has not reached it.           *)

WorkInv ==
  /\ \A l \in Loops : pc[l] \in {"lock"} \cup InActiveAll => l = PubLoop
  /\ LocalActiveMeansWork
  /\ pc[PubLoop] = "store" /\ Home[who[PubLoop]] = PubLoop
       => TaskIn(tasks_[PubLoop], who[PubLoop])

LEMMA TaskInAppend ==
  ASSUME NEW q \in Seq(Task), NEW t \in Task, NEW p,
         TaskIn(q, p) \/ t.player = p
  PROVE  TaskIn(Append(q, t), p)
<1>1. CASE t.player = p
  <2>1. Append(q, t)[Len(q) + 1] = t /\ Len(q) + 1 \in DOMAIN Append(q, t)
    OBVIOUS
  <2>. QED BY <1>1, <2>1 DEF TaskIn
<1>2. CASE TaskIn(q, p)
  <2>1. PICK i \in DOMAIN q : q[i].player = p
    BY <1>2 DEF TaskIn
  <2>2. i \in DOMAIN Append(q, t) /\ Append(q, t)[i] = q[i]
    OBVIOUS
  <2>. QED BY <2>1, <2>2 DEF TaskIn
<1>. QED BY <1>1, <1>2

LEMMA TaskInConcat ==
  ASSUME NEW q \in Seq(Task), NEW r \in Seq(Task), NEW p,
         TaskIn(q, p) \/ TaskIn(r, p)
  PROVE  TaskIn(q \o r, p)
<1>1. CASE TaskIn(q, p)
  <2>1. PICK i \in DOMAIN q : q[i].player = p
    BY <1>1 DEF TaskIn
  <2>2. i \in DOMAIN (q \o r) /\ (q \o r)[i] = q[i]
    OBVIOUS
  <2>. QED BY <2>1, <2>2 DEF TaskIn
<1>2. CASE TaskIn(r, p)
  <2>1. PICK i \in DOMAIN r : r[i].player = p
    BY <1>2 DEF TaskIn
  <2>2. Len(q) + i \in DOMAIN (q \o r) /\ (q \o r)[Len(q) + i] = r[i]
    OBVIOUS
  <2>. QED BY <2>1, <2>2 DEF TaskIn
<1>. QED BY <1>1, <1>2

LEMMA TaskInTail ==
  ASSUME NEW q \in Seq(Task), q # <<>>, NEW p, TaskIn(q, p), Head(q).player # p
  PROVE  TaskIn(Tail(q), p)
<1>1. PICK i \in DOMAIN q : q[i].player = p
  BY DEF TaskIn
<1>2. i # 1
  BY <1>1
<1>3. i - 1 \in DOMAIN Tail(q) /\ Tail(q)[i - 1] = q[i]
  BY <1>2
<1>. QED BY <1>1, <1>3 DEF TaskIn

LEMMA WorkInit == Init => WorkInv
  BY RelayAssumption DEF Init, WorkInv, LocalActiveMeansWork, InActiveAll

LEMMA WorkStep == SafeInv /\ WorkInv /\ [Next]_vars => WorkInv'
<1>. SUFFICES ASSUME SafeInv, WorkInv, [Next]_vars PROVE WorkInv'
  OBVIOUS
<1>. USE RelayAssumption DEF SafeInv, TypeInv, TypeOK, Handling, WithPlayer, WorkInv,
         LocalActiveMeansWork, HasWork, InActiveAll, OnOwnLoop, Goto,
         sessionVars, queueVars, playerVars, threadVars
<1>0. CASE UNCHANGED vars
  BY <1>0 DEF vars
<1>1. ASSUME NEW l \in Loops, LockQueue(l) PROVE WorkInv'
  BY <1>1 DEF LockQueue
<1>2. ASSUME NEW l \in Loops, TakeTasks(l) PROVE WorkInv'
  <2>1. /\ tasks_copy_'[l] = tasks_copy_[l] \o tasks_[l]
        /\ \A k \in Loops : k # l => /\ tasks_copy_'[k] = tasks_copy_[k]
                                     /\ tasks_'[k] = tasks_[k]
        /\ pc[l] = "take" /\ pc'[l] = "tasks"
        /\ \A k \in Loops : k # l => pc'[k] = pc[k] /\ who'[k] = who[k]
        /\ UNCHANGED playerVars
    BY <1>2 DEF TakeTasks
  <2>2. \A q : TaskIn(tasks_copy_[l], q) \/ TaskIn(tasks_[l], q) => TaskIn(tasks_copy_'[l], q)
    BY <2>1, TaskInConcat
  <2>3. ASSUME NEW q \in Players, Home[q] = PubLoop, active_'[q] PROVE HasWork(q)'
    <3>1. HasWork(q)
      BY <2>1, <2>3
    <3>2. CASE Home[q] = l
      BY <2>1, <2>2, <3>1, <3>2
    <3>3. CASE Home[q] # l
      BY <2>1, <3>1, <3>3
    <3>. QED BY <3>2, <3>3
  <2>. QED BY <2>1, <2>3
<1>3. ASSUME NEW l \in Loops, RunTask(l) PROVE WorkInv'
  <2>1. Head(tasks_copy_[l]) \in TaskOf(l) /\ tasks_copy_[l] # <<>>
    BY <1>3, HeadTailProperties DEF RunTask, TaskInv
  <2>2. PICK p \in Players : p = Head(tasks_copy_[l]).player /\ Home[p] = l
    BY <2>1 DEF TaskOf, Task
  <2>3. /\ tasks_copy_'[l] = Tail(tasks_copy_[l])
        /\ \A k \in Loops : k # l => tasks_copy_'[k] = tasks_copy_[k]
        /\ UNCHANGED <<tasks_, status>>
        /\ pc[l] = "tasks"
    BY <1>3 DEF RunTask, WriteComplete
  <2>4. \A q : q # p /\ TaskIn(tasks_copy_[l], q) => TaskIn(tasks_copy_'[l], q)
    BY <2>1, <2>2, <2>3, TaskInTail
  <2>5. \/ pc' = pc /\ who' = who
        \/ pc' = [pc EXCEPT ![l] = "close_task"] /\ who' = [who EXCEPT ![l] = p]
    BY <1>3, <2>2 DEF RunTask
  <2>6. \A q \in Players : q # p => active_'[q] = active_[q] /\ iovecs_'[q] = iovecs_[q]
    BY <1>3, <2>2 DEF RunTask, WriteComplete
  <2>7. active_'[p] => HasWork(p)'
    <3>1. CASE status[p] = "closed"
      BY <2>3, <3>1
    <3>2. CASE WriteComplete(p)
      BY <2>2, <3>2 DEF WriteComplete
    <3>3. CASE iovecs_' = [iovecs_ EXCEPT ![p] = TRUE]
      BY <2>2, <3>3
    <3>4. CASE Goto(l, "close_task", p)
      BY <2>2, <3>4
    <3>. QED BY <1>3, <2>2, <3>1, <3>2, <3>3, <3>4 DEF RunTask
  <2>8. ASSUME NEW q \in Players, Home[q] = PubLoop, active_'[q] PROVE HasWork(q)'
    <3>1. CASE q = p
      BY <2>7, <2>8, <3>1
    <3>2. CASE q # p
      <4>1. HasWork(q)
        BY <2>6, <2>8, <3>2
      <4>2. CASE Home[q] = l
        BY <2>3, <2>4, <2>5, <2>6, <3>2, <4>1, <4>2
      <4>3. CASE Home[q] # l
        BY <2>3, <2>5, <2>6, <3>2, <4>1, <4>3, SMTT(30)
      <4>. QED BY <4>2, <4>3
    <3>. QED BY <3>1, <3>2
  <2>9. \A k \in Loops : pc'[k] \in {"lock"} \cup InActiveAll => k = PubLoop
    BY <2>3, <2>5
  <2>10. pc'[PubLoop] = "store" /\ Home[who'[PubLoop]] = PubLoop
           => TaskIn(tasks_'[PubLoop], who'[PubLoop])
    BY <2>3, <2>5
  <2>. QED BY <2>8, <2>9, <2>10
<1>4. ASSUME NEW l \in Loops, TasksDone(l) PROVE WorkInv'
  BY <1>4 DEF TasksDone
<1>5. ASSUME NEW l \in Loops, ActiveAllLock(l) PROVE WorkInv'
  BY <1>5 DEF ActiveAllLock
<1>6. ASSUME NEW l \in Loops, ActiveLoad(l) PROVE WorkInv'
  <2>1. /\ pc[l] = "visit" /\ l = PubLoop
        /\ UNCHANGED <<queueVars, playerVars>>
    BY <1>6 DEF ActiveLoad
  <2>2. \/ UNCHANGED <<pc, who>>
        \/ \E p \in Players : Goto(l, "add", p)
    BY <1>6 DEF ActiveLoad
  <2>3. CASE UNCHANGED <<pc, who>>
    BY <2>1, <2>3
  <2>4. ASSUME NEW p \in Players, Goto(l, "add", p) PROVE WorkInv'
    BY <2>1, <2>4
  <2>. QED BY <2>2, <2>3, <2>4
<1>7. ASSUME NEW l \in Loops, ActiveAddTask(l) PROVE WorkInv'
  <2>. DEFINE t == [kind |-> "Play", player |-> who[l]]
              h == Home[who[l]]
  <2>1. who[l] \in Players /\ h \in Loops /\ t \in Task /\ t.player = who[l]
    BY <1>7 DEF ActiveAddTask, Task, TaskKinds
  <2>2. /\ tasks_'[h] = Append(tasks_[h], t)
        /\ \A k \in Loops : k # h => tasks_'[k] = tasks_[k]
        /\ UNCHANGED <<tasks_copy_, playerVars>>
        /\ pc[l] = "add" /\ l = PubLoop
        /\ pc'[l] = "store" /\ who' = who
        /\ \A k \in Loops : k # l => pc'[k] = pc[k]
    BY <1>7, <2>1 DEF ActiveAddTask, AddTask
  <2>3. TaskIn(tasks_'[h], who[l])
    BY <2>1, <2>2, TaskInAppend
  <2>4. ASSUME NEW k \in Loops, NEW q \in Players, TaskIn(tasks_[k], q)
        PROVE  TaskIn(tasks_'[k], q)
    <3>1. CASE k = h
      <4>1. tasks_[h] \in Seq(Task) /\ TaskIn(tasks_[h], q)
        BY <2>1, <2>4, <3>1
      <4>. HIDE DEF t
      <4>2. TaskIn(Append(tasks_[h], t), q)
        BY <2>1, <4>1, TaskInAppend
      <4>. QED BY <2>2, <3>1, <4>2
    <3>2. CASE k # h
      BY <2>2, <2>4, <3>2
    <3>. QED BY <3>1, <3>2
  <2>5. ASSUME NEW k \in Loops, pc'[k] \in {"lock"} \cup InActiveAll
        PROVE  k = PubLoop
    BY <2>2, <2>5
  <2>6. pc'[PubLoop] = "store" /\ Home[who'[PubLoop]] = PubLoop
        => TaskIn(tasks_'[PubLoop], who'[PubLoop])
    BY <2>2, <2>3
  <2>7. LocalActiveMeansWork'
    BY <2>1, <2>2, <2>4
  <2>. QED BY <2>5, <2>6, <2>7
<1>8. ASSUME NEW l \in Loops, ActiveStore(l) PROVE WorkInv'
  BY <1>8 DEF ActiveStore
<1>9. ASSUME NEW l \in Loops, ActiveAllUnlock(l) PROVE WorkInv'
  BY <1>9 DEF ActiveAllUnlock
<1>10. ASSUME NEW l \in Loops, AddConsumer(l) PROVE WorkInv'
  <2>1. status[who[l]] = "connected" /\ Home[who[l]] = l
    BY <1>10 DEF AddConsumer, ConsumerInv
  <2>2. \A q \in Players : status[q] = "closed" => status'[q] = "closed"
    BY <1>10, <2>1 DEF AddConsumer
  <2>3. /\ UNCHANGED <<queueVars, active_, iovecs_>>
        /\ pc[l] = "join" /\ pc'[l] = "reply" /\ who' = who
        /\ \A k \in Loops : k # l => pc'[k] = pc[k]
    BY <1>10 DEF AddConsumer
  <2>. QED BY <2>2, <2>3, SMTT(30)
<1>11. ASSUME NEW l \in Loops, PostMessage(l) PROVE WorkInv'
  <2>. DEFINE t == [kind |-> "PostMessage", player |-> who[l]]
  <2>1. t \in Task
    BY <1>11 DEF PostMessage, Task, TaskKinds
  <2>2. /\ tasks_'[l] = Append(tasks_[l], t)
        /\ \A k \in Loops : k # l => tasks_'[k] = tasks_[k]
        /\ UNCHANGED <<tasks_copy_, playerVars>>
        /\ pc[l] = "reply" /\ pc'[l] \in {"reply", "events"}
        /\ \A k \in Loops : k # l => pc'[k] = pc[k] /\ who'[k] = who[k]
    BY <1>11 DEF PostMessage, AddTask
  <2>3. ASSUME NEW k \in Loops, NEW q \in Players, TaskIn(tasks_[k], q)
        PROVE  TaskIn(tasks_'[k], q)
    <3>1. CASE k = l
      <4>1. tasks_[l] \in Seq(Task) /\ TaskIn(tasks_[l], q)
        BY <2>3, <3>1
      <4>. HIDE DEF t
      <4>2. TaskIn(Append(tasks_[l], t), q)
        BY <2>1, <4>1, TaskInAppend
      <4>. QED BY <2>2, <3>1, <4>2
    <3>2. CASE k # l
      BY <2>2, <2>3, <3>2
    <3>. QED BY <3>1, <3>2
  <2>4. ASSUME NEW q \in Players, Home[q] = PubLoop, active_'[q] PROVE HasWork(q)'
    <3>1. HasWork(q)
      BY <2>2, <2>4
    <3>. QED BY <2>2, <2>3, <3>1
  <2>. QED BY <2>2, <2>3, <2>4
<1>12. ASSUME NEW l \in Loops, OnClose(l) PROVE WorkInv'
  BY <1>12 DEF OnClose
<1>13. ASSUME NEW l \in Loops, ProcessAudioVideo(l) PROVE WorkInv'
  BY <1>13 DEF ProcessAudioVideo
<1>14. ASSUME NEW l \in Loops, NEW p \in Players, Play(l, p) PROVE WorkInv'
  BY <1>14 DEF Play
<1>15. ASSUME NEW l \in Loops, NEW p \in Players, OnWrite(l, p) PROVE WorkInv'
  BY <1>15 DEF OnWrite, WriteComplete
<1>16. ASSUME NEW l \in Loops, NEW p \in Players, Disconnect(l, p) PROVE WorkInv'
  BY <1>16 DEF Disconnect
<1>. QED
  BY <1>0, <1>1, <1>2, <1>3, <1>4, <1>5, <1>6, <1>7, <1>8,
     <1>9, <1>10, <1>11, <1>12, <1>13, <1>14, <1>15, <1>16
  DEF Next, Continue

\* On the publisher's own loop the flag never outlives the work: a player that
\* is active will be deactivated by something that is already under way.
THEOREM LocalNoLostWakeup == Spec => []LocalActiveMeansWork
<1>1. SafeInv /\ WorkInv => LocalActiveMeansWork
  BY DEF WorkInv
<1>2. Init => SafeInv /\ WorkInv
  BY SafeInit, WorkInit
<1>3. SafeInv /\ WorkInv /\ [Next]_vars => (SafeInv /\ WorkInv)'
  BY SafeStep, WorkStep
<1>. QED BY <1>1, <1>2, <1>3, PTL DEF Spec

=============================================================================
