------------------------------- MODULE Relay -------------------------------
(***************************************************************************)
(* How a publisher wakes the players of its session: SsmsSession, the      *)
(* active_ flag of SsmsPlayClient, the task queues of the event loops and  *)
(* the part of TcpConnection that ends an activation.                      *)
(*                                                                         *)
(* An event loop is a thread.  It handles the events of its connections,   *)
(* takes its task queue under the queue's lock and runs the tasks without  *)
(* it.  The publisher's loop activates the players, which may live on any  *)
(* loop, under the lock of the session.  A step of the model is a stretch  *)
(* of one thread between two accesses to what other threads can touch:     *)
(* a lock, a task queue or an active_ flag.                                *)
(***************************************************************************)
EXTENDS Integers, Sequences

CONSTANTS
  Loops,       \* the SsmsEventLoop threads
  PubLoop,     \* the loop of the publisher's connection
  Players,     \* the SsmsPlayClient objects, one per connection
  Home,        \* player -> the loop of its connection
  Replies,     \* messages PlayResponse posts (4 in the code)
  NoLoop,      \* a free lock
  NoPlayer     \* no player is being handled

ASSUME RelayAssumption ==
  /\ PubLoop \in Loops
  /\ Home \in [Players -> Loops]
  /\ Replies \in Nat \ {0}
  /\ NoLoop \notin Loops
  /\ NoPlayer \notin Players

TaskKinds == {"Play", "PostMessage"}
Task      == [kind : TaskKinds, player : Players]

VARIABLES
  session_lock,  \* SsmsSession::lock_: the loop that holds it
  queue_lock,    \* loop -> the holder of SsmsEventLoop::lock_
  tasks_,        \* loop -> queued tasks
  tasks_copy_,   \* loop -> tasks taken by ProcessTask and not run yet
  consumers_,    \* the players of the session
  active_,       \* player -> its active_ flag
  iovecs_,       \* player -> whether bytes wait for the socket
  write_event,   \* player -> whether EPOLLOUT is on
  status,        \* player -> "connected", "playing" or "closed"
  pc,            \* loop -> what the thread does next
  who,           \* loop -> the player it is handling
  todo,          \* loop -> consumers ActiveAll has not visited yet
  replies        \* loop -> messages PlayResponse has still to post

sessionVars == <<session_lock, consumers_>>
queueVars   == <<queue_lock, tasks_, tasks_copy_>>
playerVars  == <<active_, iovecs_, write_event, status>>
threadVars  == <<pc, who, todo, replies>>
vars == <<sessionVars, queueVars, playerVars, threadVars>>

\* The thread of loop l goes on at `where', handling p.
Goto(l, where, p) ==
  /\ pc' = [pc EXCEPT ![l] = where]
  /\ who' = [who EXCEPT ![l] = p]

Init ==
  /\ session_lock = NoLoop
  /\ queue_lock = [l \in Loops |-> NoLoop]
  /\ tasks_ = [l \in Loops |-> <<>>]
  /\ tasks_copy_ = [l \in Loops |-> <<>>]
  /\ consumers_ = {}
  /\ active_ = [p \in Players |-> FALSE]
  /\ iovecs_ = [p \in Players |-> FALSE]
  /\ write_event = [p \in Players |-> FALSE]
  /\ status = [p \in Players |-> "connected"]
  /\ pc = [l \in Loops |-> "events"]
  /\ who = [l \in Loops |-> NoPlayer]
  /\ todo = [l \in Loops |-> {}]
  /\ replies = [l \in Loops |-> 0]

-----------------------------------------------------------------------------
(* SsmsEventLoop *)

\* SsmsEventLoop::AddTask: one push under the queue's lock.
AddTask(l, task) ==
  /\ queue_lock[l] = NoLoop
  /\ tasks_' = [tasks_ EXCEPT ![l] = Append(@, task)]
  /\ UNCHANGED <<queue_lock, tasks_copy_>>

\* The round's events are handled: ProcessTask takes the lock of the queue.
LockQueue(l) ==
  /\ pc[l] = "events"
  /\ queue_lock[l] = NoLoop
  /\ queue_lock' = [queue_lock EXCEPT ![l] = l]
  /\ Goto(l, "take", NoPlayer)
  /\ UNCHANGED <<sessionVars, tasks_, tasks_copy_, playerVars, todo, replies>>

\* Mutant: the lock is kept while the tasks run.
MutTakeTasks(l) ==
  /\ pc[l] = "take"
  /\ tasks_copy_' = [tasks_copy_ EXCEPT ![l] = @ \o tasks_[l]]
  /\ tasks_' = [tasks_ EXCEPT ![l] = <<>>]
  /\ Goto(l, "tasks", NoPlayer)
  /\ UNCHANGED <<sessionVars, queue_lock, playerVars, todo, replies>>

\* ProcessTask moves the queue to tasks_copy_ and releases the lock.
TakeTasks(l) ==
  /\ pc[l] = "take"
  /\ tasks_copy_' = [tasks_copy_ EXCEPT ![l] = @ \o tasks_[l]]
  /\ tasks_' = [tasks_ EXCEPT ![l] = <<>>]
  /\ queue_lock' = [queue_lock EXCEPT ![l] = NoLoop]
  /\ Goto(l, "tasks", NoPlayer)
  /\ UNCHANGED <<sessionVars, playerVars, todo, replies>>

\* The tasks are done: the next round begins.
TasksDone(l) ==
  /\ pc[l] = "tasks"
  /\ tasks_copy_[l] = <<>>
  /\ Goto(l, "events", NoPlayer)
  /\ UNCHANGED <<sessionVars, queueVars, playerVars, todo, replies>>

-----------------------------------------------------------------------------
(* The publisher: SsmsPublishClient::ProcessAudioVideo pushes a packet and   *)
(* calls SsmsSession::ActiveAll, which calls SsmsPlayClient::Active.         *)

\* A media packet arrives.  Push itself touches no state of this module.
ProcessAudioVideo(l) ==
  /\ l = PubLoop
  /\ pc[l] = "events"
  /\ Goto(l, "lock", NoPlayer)
  /\ UNCHANGED <<sessionVars, queueVars, playerVars, todo, replies>>

ActiveAllLock(l) ==
  /\ pc[l] = "lock"
  /\ session_lock = NoLoop
  /\ session_lock' = l
  /\ todo' = [todo EXCEPT ![l] = consumers_]
  /\ Goto(l, "visit", NoPlayer)
  /\ UNCHANGED <<consumers_, queueVars, playerVars, replies>>

\* Active reads active_: a player that is active is left alone.
ActiveLoad(l) ==
  /\ pc[l] = "visit"
  /\ \E p \in todo[l] :
       /\ todo' = [todo EXCEPT ![l] = @ \ {p}]
       /\ IF active_[p] THEN UNCHANGED <<pc, who>> ELSE Goto(l, "add", p)
  /\ UNCHANGED <<sessionVars, queueVars, playerVars, replies>>

\* Active queues Play on the player's loop ...
ActiveAddTask(l) ==
  /\ pc[l] = "add"
  /\ AddTask(Home[who[l]], [kind |-> "Play", player |-> who[l]])
  /\ Goto(l, "store", who[l])
  /\ UNCHANGED <<sessionVars, playerVars, todo, replies>>

\* ... and only then sets active_.
ActiveStore(l) ==
  /\ pc[l] = "store"
  /\ active_' = [active_ EXCEPT ![who[l]] = TRUE]
  /\ Goto(l, "visit", NoPlayer)
  /\ UNCHANGED <<sessionVars, queueVars, iovecs_, write_event, status, todo, replies>>

\* Mutant: the lock is not released.
MutActiveAllUnlock(l) ==
  /\ pc[l] = "visit"
  /\ todo[l] = {}
  /\ Goto(l, "events", NoPlayer)
  /\ UNCHANGED <<sessionVars, queueVars, playerVars, todo, replies>>

ActiveAllUnlock(l) ==
  /\ pc[l] = "visit"
  /\ todo[l] = {}
  /\ session_lock' = NoLoop
  /\ Goto(l, "events", NoPlayer)
  /\ UNCHANGED <<consumers_, queueVars, playerVars, todo, replies>>

-----------------------------------------------------------------------------
(* The player's connection, on its own loop *)

\* A play command: PlayResponse adds the player to the session ...
Play(l, p) ==
  /\ pc[l] = "events"
  /\ Home[p] = l
  /\ status[p] = "connected"
  /\ Goto(l, "join", p)
  /\ UNCHANGED <<sessionVars, queueVars, playerVars, todo, replies>>

AddConsumer(l) ==
  /\ pc[l] = "join"
  /\ session_lock = NoLoop
  /\ consumers_' = consumers_ \cup {who[l]}
  /\ status' = [status EXCEPT ![who[l]] = "playing"]
  /\ replies' = [replies EXCEPT ![l] = Replies]
  /\ Goto(l, "reply", who[l])
  /\ UNCHANGED <<session_lock, queueVars, active_, iovecs_, write_event, todo>>

\* Mutant: one message more than there are.
MutPostMessage(l) ==
  /\ pc[l] = "reply"
  /\ AddTask(l, [kind |-> "PostMessage", player |-> who[l]])
  /\ replies' = [replies EXCEPT ![l] = @ - 1]
  /\ IF replies[l] = 0 THEN Goto(l, "events", NoPlayer) ELSE UNCHANGED <<pc, who>>
  /\ UNCHANGED <<sessionVars, playerVars, todo>>

\* ... and posts its messages.
PostMessage(l) ==
  /\ pc[l] = "reply"
  /\ AddTask(l, [kind |-> "PostMessage", player |-> who[l]])
  /\ replies' = [replies EXCEPT ![l] = @ - 1]
  /\ IF replies[l] = 1 THEN Goto(l, "events", NoPlayer) ELSE UNCHANGED <<pc, who>>
  /\ UNCHANGED <<sessionVars, playerVars, todo>>

\* Everything is written: write_callback_ ends in SsmsPlayClient::DeActive.
WriteComplete(p) ==
  /\ iovecs_' = [iovecs_ EXCEPT ![p] = FALSE]
  /\ active_' = [active_ EXCEPT ![p] = FALSE]

\* A task builds its chunks and calls TcpConnection::SendNodes, unless the
\* connection is closed.  writev takes everything, stops at a full socket, or
\* fails, and a failure closes the connection.  A write event that an earlier
\* task turned on stays on when this one writes everything.
RunTask(l) ==
  /\ pc[l] = "tasks"
  /\ tasks_copy_[l] # <<>>
  /\ tasks_copy_' = [tasks_copy_ EXCEPT ![l] = Tail(@)]
  /\ LET p == Head(tasks_copy_[l]).player
     IN  \/ /\ status[p] = "closed"
            /\ UNCHANGED <<playerVars, pc, who>>
         \/ /\ status[p] # "closed"
            /\ WriteComplete(p)
            /\ UNCHANGED <<write_event, status, pc, who>>
         \/ /\ status[p] # "closed"
            /\ iovecs_' = [iovecs_ EXCEPT ![p] = TRUE]
            /\ write_event' = [write_event EXCEPT ![p] = TRUE]
            /\ UNCHANGED <<active_, status, pc, who>>
         \/ /\ status[p] # "closed"
            /\ Goto(l, "close_task", p)
            /\ UNCHANGED playerVars
  /\ UNCHANGED <<sessionVars, queue_lock, tasks_, todo, replies>>

\* Mutant: a drained connection is not deactivated.
MutOnWrite(l, p) ==
  /\ pc[l] = "events"
  /\ Home[p] = l
  /\ status[p] # "closed"
  /\ write_event[p]
  /\ iovecs_' = [iovecs_ EXCEPT ![p] = FALSE]
  /\ write_event' = [write_event EXCEPT ![p] = FALSE]
  /\ UNCHANGED <<sessionVars, queueVars, active_, status, threadVars>>

\* TcpConnection::OnWrite that leaves iovecs_ empty; one that does not changes
\* nothing.  iovecs_ may be empty already.
OnWrite(l, p) ==
  /\ pc[l] = "events"
  /\ Home[p] = l
  /\ status[p] # "closed"
  /\ write_event[p]
  /\ WriteComplete(p)
  /\ write_event' = [write_event EXCEPT ![p] = FALSE]
  /\ UNCHANGED <<sessionVars, queueVars, status, threadVars>>

\* The peer closes, an error occurs, or CheckConnectionStatus finds the
\* connection idle: OnClose runs.
Disconnect(l, p) ==
  /\ pc[l] = "events"
  /\ Home[p] = l
  /\ status[p] # "closed"
  /\ Goto(l, "close_event", p)
  /\ UNCHANGED <<sessionVars, queueVars, playerVars, todo, replies>>

\* Mutant: DeleteConsumer does not take the lock.
MutOnClose(l) ==
  /\ pc[l] \in {"close_event", "close_task"}
  /\ consumers_' = consumers_ \ {who[l]}
  /\ status' = [status EXCEPT ![who[l]] = "closed"]
  /\ Goto(l, IF pc[l] = "close_task" THEN "tasks" ELSE "events", NoPlayer)
  /\ UNCHANGED <<session_lock, queueVars, active_, iovecs_, write_event, todo, replies>>

\* Mutant: the consumer stays in the session.
MutKeepConsumer(l) ==
  /\ pc[l] \in {"close_event", "close_task"}
  /\ status[who[l]] = "playing" => session_lock = NoLoop
  /\ status' = [status EXCEPT ![who[l]] = "closed"]
  /\ Goto(l, IF pc[l] = "close_task" THEN "tasks" ELSE "events", NoPlayer)
  /\ UNCHANGED <<sessionVars, queueVars, active_, iovecs_, write_event, todo, replies>>

\* TcpConnection::OnClose after DeleteEvent: DeleteConsumer takes the session
\* lock, when the player has a session, and the connection is closed.
OnClose(l) ==
  /\ pc[l] \in {"close_event", "close_task"}
  /\ status[who[l]] = "playing" => session_lock = NoLoop
  /\ consumers_' = consumers_ \ {who[l]}
  /\ status' = [status EXCEPT ![who[l]] = "closed"]
  /\ Goto(l, IF pc[l] = "close_task" THEN "tasks" ELSE "events", NoPlayer)
  /\ UNCHANGED <<session_lock, queueVars, active_, iovecs_, write_event, todo, replies>>

-----------------------------------------------------------------------------
\* What the thread does once it has begun, event by event and task by task.
Continue(l) ==
  \/ TakeTasks(l) \/ RunTask(l) \/ TasksDone(l)
  \/ ActiveAllLock(l) \/ ActiveLoad(l) \/ ActiveAddTask(l) \/ ActiveStore(l)
  \/ ActiveAllUnlock(l)
  \/ AddConsumer(l) \/ PostMessage(l) \/ OnClose(l)

Next ==
  \E l \in Loops :
    \/ LockQueue(l)
    \/ Continue(l)
    \/ ProcessAudioVideo(l)
    \/ \E p \in Players : Play(l, p) \/ OnWrite(l, p) \/ Disconnect(l, p)

\* A thread keeps running (with a mutex it competes for, that takes strong
\* fairness), a round has finitely many events, and bytes that wait are written
\* or CheckConnectionStatus closes the idle connection.
Fairness ==
  /\ \A l \in Loops : /\ SF_vars(Continue(l))
                      /\ SF_vars(LockQueue(l))
  /\ \A p \in Players : SF_vars(\E l \in Loops : iovecs_[p] /\ (OnWrite(l, p) \/ Disconnect(l, p)))

Spec     == Init /\ [][Next]_vars
FairSpec == Spec /\ Fairness

-----------------------------------------------------------------------------
(* Properties *)

PCs == {"events", "take", "tasks", "lock", "visit", "add", "store", "join",
        "reply", "close_event", "close_task"}

\* Every handler keeps the types: a lock has a holder or is free, a queue holds
\* tasks of players, a reply counter stays in its range.
TypeOK ==
  /\ session_lock \in Loops \cup {NoLoop}
  /\ queue_lock \in [Loops -> Loops \cup {NoLoop}]
  /\ tasks_ \in [Loops -> Seq(Task)]
  /\ tasks_copy_ \in [Loops -> Seq(Task)]
  /\ consumers_ \subseteq Players
  /\ active_ \in [Players -> BOOLEAN]
  /\ iovecs_ \in [Players -> BOOLEAN]
  /\ write_event \in [Players -> BOOLEAN]
  /\ status \in [Players -> {"connected", "playing", "closed"}]
  /\ pc \in [Loops -> PCs]
  /\ who \in [Loops -> Players \cup {NoPlayer}]
  /\ todo \in [Loops -> SUBSET Players]
  /\ replies \in [Loops -> 0 .. Replies]

\* A comment in SsmsSession::ActiveAll (SsmsSession.cpp:51-53) argues that a
\* consumer cannot be deleted while ActiveAll works on it.
IteratedStillConsumer ==
  \A l \in Loops :
    /\ todo[l] \subseteq consumers_
    /\ pc[l] \in {"add", "store"} => who[l] \in consumers_

\* A closed player is out of the session, so nobody queues another Play for it.
ClosedNotConsumer == \A p \in Players : status[p] = "closed" => p \notin consumers_

\* Thread l waits for the lock of a queue, for the lock of the session.
WaitsForQueue(l, h) ==
  \/ pc[l] = "events" /\ h = l
  \/ pc[l] = "add" /\ h = Home[who[l]]
  \/ pc[l] = "reply" /\ h = l

WaitsForSession(l) ==
  \/ pc[l] \in {"lock", "join"}
  \/ pc[l] \in {"close_event", "close_task"} /\ status[who[l]] = "playing"

\* The comments at SsmsSession.cpp:51 and SsmsEventLoop.cpp:214: the two locks
\* are never waited for in a circle, also not by one thread alone.
NoLockCycle ==
  \A l \in Loops, h \in Loops :
    session_lock = l /\ WaitsForQueue(l, h) /\ queue_lock[h] # NoLoop
      => ~WaitsForSession(queue_lock[h]) /\ queue_lock[h] # l

\* What is still on its way for p: a queued task, bytes in iovecs_, or the close.
TaskIn(queue, p) == \E i \in DOMAIN queue : queue[i].player = p

HasWork(p) ==
  \/ TaskIn(tasks_[Home[p]], p)
  \/ TaskIn(tasks_copy_[Home[p]], p)
  \/ iovecs_[p]
  \/ status[p] = "closed"
  \/ pc[Home[p]] \in {"close_event", "close_task"} /\ who[Home[p]] = p

\* SsmsPlayClient.h:53: active_ means that data is being sent.  A player that
\* is active has a task queued, bytes waiting or a close under way: otherwise
\* nothing would ever end its activation and Active would skip it for good.
ActiveMeansWork == \A p \in Players : active_[p] => HasWork(p)

\* The same for the players on the publisher's own loop.
LocalActiveMeansWork ==
  \A p \in Players : Home[p] = PubLoop /\ active_[p] => HasWork(p)

\* The lock of the session is always released again.
SessionLockReleased == \A l \in Loops : session_lock = l ~> session_lock # l

\* An activation of a player on the publisher's loop ends, so that the next
\* packet can activate it again.
LocalActivationEnds ==
  \A p \in Players : Home[p] = PubLoop /\ active_[p] ~> ~active_[p] \/ status[p] = "closed"

=============================================================================
