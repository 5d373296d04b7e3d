------------------------------- MODULE Server -------------------------------
(***************************************************************************)
(* One loop of the server: SsmsEventLoop's rounds and its map of events    *)
(* (src/Network/SsmsEventLoop.cpp), the acceptor, the connections and the  *)
(* periodic check of SsmsTcpServer, run by the thread of LoopThread and    *)
(* driven by the timing wheel of Wheels.                                   *)
(*                                                                         *)
(* A descriptor names at most one connection at a time and is used again.  *)
(* What epoll reports, what epoll_ctl ADD, reads and writes return is      *)
(* free; one handler is one step, as everything here runs on the loop's    *)
(* thread except AddTask (own lock) and what the creator does.             *)
(***************************************************************************)
EXTENDS LoopThread, Integers, FiniteSets

CONSTANTS
  Fds,                             \* descriptors accept may return
  Reported,                        \* bound: descriptors one epoll_wait reports
  Period,                          \* ticks between checks, 30 in the code
  MINUTE, HOUR, DAY, DAY_SLOTS     \* of the wheels

Wheel == INSTANCE Wheels

ASSUME PeriodAssumption ==
  /\ Period \in Nat \ {0} /\ Wheel!Representable(Period)
  /\ Wheel!UnitAssumption
  /\ Reported \in Nat \ {0}
  /\ "acceptor" \notin Fds /\ "closed" \notin Fds

VARIABLES
  events_,          \* SsmsEventLoop::events_ and what epoll has (Events below)
  batch,            \* events of this round still to be handled, per descriptor
  tasks_,           \* SsmsEventLoop::tasks_: "acceptor" is the listen task, a
                    \* descriptor the tasks that send to a connection, "closed"
                    \* those of connections whose closed_ is TRUE
  wheels_, counts_, \* the loop's SsmsTimingWheel
  connections_      \* SsmsTcpServer::connections_, by descriptor

loopVars  == <<events_, batch, tasks_>>
timerVars == <<wheels_, counts_>>
allVars   == <<vars, loopVars, timerVars, connections_>>
inRound   == <<creatorVars, is_looping_, promise_, looping_>>

(* What is kept of a TcpConnection: connection_alive_, whether iovecs_ waits  *)
(* with EPOLLOUT on, and two auxiliary fields: the ticks since a byte was     *)
(* read or written, counted from when the check is asked for, and whether a   *)
(* check has seen the connection.                                             *)
Connection == [alive : BOOLEAN, waiting : BOOLEAN, idle : Nat, checked : BOOLEAN]

Accepted == [alive |-> FALSE, waiting |-> FALSE, idle |-> 0, checked |-> FALSE]

Open == DOMAIN connections_

(* Per descriptor: whether events_ has an entry, whether that is the entry of *)
(* a connection already closed, and whether epoll has the descriptor.         *)
Events == [entries : SUBSET (Fds \cup {"acceptor"}),
           stale   : SUBSET (Fds \cup {"acceptor"}),
           watched : SUBSET (Fds \cup {"acceptor"})]

NoEvents == [entries |-> {}, stale |-> {}, watched |-> {}]

Check == [id |-> "check", period |-> Period]

ServerInit ==
  /\ Init
  /\ events_ = NoEvents /\ tasks_ = {}
  /\ batch = [fd \in {} |-> {}]
  /\ wheels_ = Wheel!EmptyWheels /\ counts_ = 0
  /\ connections_ = [fd \in {} |-> Accepted]

----------------------------------------------------------------------------
(* What the handlers are made of.                                          *)

\* A byte went to or came from a connection.
Exchanged(conn) == [conn EXCEPT !.alive = TRUE, !.idle = 0]

Without(conns, fds) == [fd \in DOMAIN conns \ fds |-> conns[fd]]

\* Mutant: epoll is given also a descriptor whose old entry stays.
MutAddEvent(ev, fds) ==
  {[ev EXCEPT !.entries = @ \cup fds, !.watched = @ \cup (fds \ refused)] : refused \in SUBSET fds}

\* AddEvent for each of fds, what may come of it: where there is an entry it
\* stays, and epoll hears nothing; a new entry stays even if epoll refuses it.
AddEvent(ev, fds) ==
  LET new == fds \ ev.entries
  IN  {[ev EXCEPT !.entries = @ \cup new, !.watched = @ \cup (new \ refused)] :
         refused \in SUBSET new}

\* DeleteEvent for each of fds, which are closed next: epoll knows only what it
\* watches, and the entry of a descriptor it does not know stays.
DeleteEvent(ev, fds) ==
  LET entries == ev.entries \ (fds \cap ev.watched)
  IN  [entries |-> entries,
       stale   |-> (ev.stale \cup fds) \cap entries,
       watched |-> ev.watched \ fds]

\* The tasks of a closed connection stay queued, and find closed_ set.
ClosedTasks(tasks, fds) ==
  (tasks \ fds) \cup (IF tasks \cap fds = {} THEN {} ELSE {"closed"})

\* TcpConnection::OnClose with AfterClose, when the handlers before it have made
\* conns of the connections and tasks of the tasks.  A second OnClose of the same
\* connection (a read of descriptor -1 ends in OnError) changes nothing.
OnClose(fds, conns, tasks) ==
  /\ events_' = DeleteEvent(events_, fds)
  /\ connections_' = Without(conns, fds)
  /\ tasks_' = ClosedTasks(tasks, fds)

\* A connection without a client is freed when events_ and connections_ have let
\* go of it, while its own handler is still to come back from OnClose.
MayCrash == running' \in BOOLEAN

----------------------------------------------------------------------------
(* The events of a round.                                                  *)

\* end: EPOLLERR, or EPOLLHUP without EPOLLIN; nothing else is looked at then.
\* EPOLLOUT is reported only where it is on.
EventSets(fd) ==
  {{"in"}, {"end"}} \cup
  (IF fd \in Open /\ connections_[fd].waiting THEN {{"out"}, {"in", "out"}} ELSE {})

\* Mutant of EpollWait: looping_ is set in each round, not before the first.
MutEpollWait ==
  /\ ThreadGoes("poll", "events")
  /\ looping_' = TRUE
  /\ batch' = [fd \in {} |-> {}]
  /\ UNCHANGED <<creatorVars, is_looping_, promise_, running,
                 events_, tasks_, timerVars, connections_>>

\* epoll_wait returns, with events of some descriptors or after its timeout.
EpollWait ==
  /\ ThreadGoes("poll", "events")
  /\ \E ready \in SUBSET events_.watched :
       /\ Cardinality(ready) <= Reported
       /\ batch' \in [ready -> {{"in"}, {"end"}, {"out"}, {"in", "out"}}]
       /\ \A fd \in ready : batch'[fd] \in EventSets(fd)
  /\ UNCHANGED <<inRound, running, events_, tasks_, timerVars, connections_>>

InBatch(fd) == running /\ pc = "events" /\ fd \in DOMAIN batch

Handled(fd) == batch' = [f \in DOMAIN batch \ {fd} |-> batch[f]]

\* OnError, and OnClose for a hang-up.
OnEnd(fd) ==
  /\ InBatch(fd) /\ batch[fd] = {"end"}
  /\ Handled(fd)
  /\ OnClose({fd}, connections_, tasks_)
  /\ MayCrash
  /\ UNCHANGED <<creatorVars, threadVars, timerVars>>

\* What OnRead may make of a connection that stays: nothing comes, or bytes come
\* and are answered.  The answer to a handshake is sent at once, and what the
\* socket does not take waits; any other is a task.
Heard(conn, reply) ==
  {[Exchanged(conn) EXCEPT !.waiting = left] : left \in {conn.waiting, TRUE}}
    \cup (IF reply THEN {} ELSE {conn})

\* OnRead: the connection stays, or is closed by the peer, by an error or because
\* Parse refuses what came.  A write event in the same report is handled after it,
\* through an entry that is gone after a close.
OnRead(fd) ==
  /\ InBatch(fd) /\ "in" \in batch[fd]
  /\ \E reply \in BOOLEAN :
       LET tasks == IF reply THEN tasks_ \cup {fd} ELSE tasks_ IN
       \/ /\ \E conn \in Heard(connections_[fd], reply) :
               connections_' = [connections_ EXCEPT ![fd] = conn]
          /\ tasks_' = tasks
          /\ IF "out" \in batch[fd] THEN batch' = [batch EXCEPT ![fd] = {"out"}] ELSE Handled(fd)
          /\ UNCHANGED <<events_, running>>
       \/ /\ OnClose({fd}, connections_, tasks)
          /\ Handled(fd)
          /\ IF "out" \in batch[fd] THEN running' = FALSE ELSE MayCrash
  /\ UNCHANGED <<creatorVars, threadVars, timerVars>>

\* Mutant of OnWrite: what is written does not count as data exchanged.
MutOnWrite(fd) ==
  /\ InBatch(fd) /\ batch[fd] = {"out"}
  /\ Handled(fd)
  /\ \E ret \in {"all", "part"} :
       connections_' = [connections_ EXCEPT ![fd].waiting = (ret = "part"), ![fd].idle = 0]
  /\ UNCHANGED <<vars, events_, tasks_, timerVars>>

\* OnWrite: the socket takes all that waits, some of it, or fails.
OnWrite(fd) ==
  /\ InBatch(fd) /\ batch[fd] = {"out"}
  /\ Handled(fd)
  /\ \/ \E ret \in {"all", "part"} :
          /\ connections_' = [connections_ EXCEPT
                                ![fd] = [Exchanged(@) EXCEPT !.waiting = (ret = "part")]]
          /\ UNCHANGED <<events_, tasks_, running>>
     \/ OnClose({fd}, connections_, tasks_) /\ MayCrash
  /\ UNCHANGED <<creatorVars, threadVars, timerVars>>

\* The acceptor's OnClose after fds have been accepted: it listens with another
\* socket, which is entered as they are; the process exits if there is none.
Reopen(fds) ==
  /\ events_' \in AddEvent(DeleteEvent(events_, {"acceptor"}), fds \cup {"acceptor"})
  /\ running' \in BOOLEAN

\* OnAccept with AfterAccept: a new connection per descriptor, entered or not,
\* until accept has no more or fails.
OnAccept ==
  /\ InBatch("acceptor") /\ batch["acceptor"] = {"in"}
  /\ Handled("acceptor")
  /\ \E fds \in SUBSET (Fds \ Open) :
       /\ connections_' = [fd \in Open \cup fds |->
                             IF fd \in Open THEN connections_[fd] ELSE Accepted]
       /\ \/ events_' \in AddEvent(events_, fds) /\ UNCHANGED running
          \/ Reopen(fds)
  /\ UNCHANGED <<creatorVars, threadVars, tasks_, timerVars>>

\* The acceptor's OnError.
OnAcceptorError ==
  /\ InBatch("acceptor") /\ batch["acceptor"] = {"end"}
  /\ Handled("acceptor")
  /\ Reopen({})
  /\ UNCHANGED <<creatorVars, threadVars, tasks_, timerVars, connections_>>

EventsDone ==
  /\ DOMAIN batch = {}
  /\ ThreadGoes("events", "tasks")
  /\ UNCHANGED <<inRound, running, loopVars, timerVars, connections_>>

----------------------------------------------------------------------------
(* The tasks of a round.                                                   *)

\* A publisher's thread queues a player's Play: only when nothing is under way,
\* and only of a connection that could be read, or there would be no player.
Active(fd) ==
  /\ running /\ fd \in (Open \cap events_.watched) \ tasks_ /\ ~connections_[fd].waiting
  /\ tasks_' = tasks_ \cup {fd}
  /\ UNCHANGED <<vars, events_, batch, timerVars, connections_>>

\* The creator's part of TcpServer::Start.
AddListenTask ==
  /\ StartListenTask
  /\ tasks_' = tasks_ \cup {"acceptor"}
  /\ UNCHANGED <<events_, batch, timerVars, connections_>>

\* What SendNodes makes of a connection; a socket that takes nothing leaves
\* connection_alive_ as it is.
Sent(conn, ret) ==
  CASE ret = "all"     -> [Exchanged(conn) EXCEPT !.waiting = FALSE]
    [] ret = "part"    -> [Exchanged(conn) EXCEPT !.waiting = TRUE]
    [] ret = "nothing" -> [conn EXCEPT !.waiting = TRUE]
    [] OTHER           -> conn

\* ProcessTask: the listen task, if queued, enters the acceptor and needs an
\* address; the others send to their connections, but for those that find theirs
\* closed: they do nothing, or use a connection without client that is freed.
ProcessTask ==
  /\ ThreadGoes("tasks", "timing")
  /\ LET listens == "acceptor" \in tasks_ => addr_
     IN  running' \in IF "closed" \in tasks_ THEN {listens, FALSE} ELSE {listens}
  /\ \E ret \in [tasks_ \cap Open -> {"all", "part", "nothing", "error"}] :
       LET failed == {fd \in DOMAIN ret : ret[fd] = "error"} IN
       /\ connections_' = [fd \in Open \ failed |->
            IF fd \in DOMAIN ret THEN Sent(connections_[fd], ret[fd]) ELSE connections_[fd]]
       /\ events_' \in AddEvent(DeleteEvent(events_, failed), tasks_ \cap {"acceptor"})
  /\ tasks_' = {}
  /\ UNCHANGED <<inRound, batch, timerVars>>

----------------------------------------------------------------------------
(* The timer.                                                              *)

\* The creator's other part of TcpServer::Start.
AddCheck ==
  /\ StartRunEvery
  /\ wheels_' = Wheel!RunAfter([wheels |-> wheels_, ran |-> <<>>], Period, Check).wheels
  /\ UNCHANGED <<loopVars, counts_, connections_>>

\* Those CheckConnectionStatus takes off the list and closes ...
Silent(conns) == {fd \in DOMAIN conns : ~conns[fd].alive}

\* ... what it makes of the others ...
Reset(conns) ==
  [fd \in DOMAIN conns \ Silent(conns) |-> [conns[fd] EXCEPT !.alive = FALSE, !.checked = TRUE]]

\* Mutant of CheckConnectionStatus: what is taken off the list is not closed.
MutCheckConnectionStatus(conns) ==
  /\ connections_' = Reset(conns)
  /\ UNCHANGED <<events_, tasks_>>

\* Mutant of CheckConnectionStatus: who is alive stays so.
MutNoReset(conns) ==
  OnClose(Silent(conns), [fd \in DOMAIN conns |-> [conns[fd] EXCEPT !.checked = TRUE]], tasks_)

\* ... and both; OnClose finds them off the list.
CheckConnectionStatus(conns) ==
  /\ events_' = DeleteEvent(events_, Silent(conns))
  /\ connections_' = Reset(conns)
  /\ tasks_' = ClosedTasks(tasks_, Silent(conns))

\* OnTiming of a new second; that the clock shows one is left free.
OnTiming ==
  LET count == (counts_ + 1) % DAY
      older == IF wheels_ = Wheel!EmptyWheels THEN connections_
               ELSE [fd \in Open |-> [connections_[fd] EXCEPT !.idle = @ + 1]]
  IN /\ ThreadGoes("timing", "test")
     /\ counts_' = count
     /\ \E w \in {Wheel!Tick(wheels_, count)} :
          /\ wheels_' = w.wheels
          /\ IF w.ran # <<>>
               THEN CheckConnectionStatus(older)
               ELSE connections_' = older /\ UNCHANGED <<events_, tasks_>>
     /\ UNCHANGED <<inRound, running, batch>>

\* OnTiming within the same second.
OnTimingEarly ==
  /\ ThreadGoes("timing", "test")
  /\ UNCHANGED <<inRound, running, loopVars, timerVars, connections_>>

\* The end of the thread: the check runs a last time from the destructor of the
\* wheels, and the loop is no more.
LoopEnds ==
  /\ OnStartEnd
  /\ IF wheels_ = Wheel!EmptyWheels
       THEN running' /\ UNCHANGED connections_
       ELSE connections_' = Reset(connections_)
  /\ events_' = NoEvents /\ tasks_' = {}
  /\ wheels_' = Wheel!EmptyWheels
  /\ UNCHANGED <<batch, counts_>>

----------------------------------------------------------------------------

Event ==
  \/ OnAccept \/ OnAcceptorError
  \/ \E fd \in Open : OnEnd(fd) \/ OnRead(fd) \/ OnWrite(fd)

OutOfLoop == UNCHANGED <<loopVars, timerVars, connections_>>

Creator ==
  \/ OutOfLoop /\ (Construct \/ Run \/ RunGot \/ Stop \/ Destroy \/ DestroyStop
                   \/ DestroyJoin \/ DestroyMembers)
  \/ AddListenTask \/ AddCheck

Thread ==
  \/ OutOfLoop /\ (OnStartEarly \/ OnStart \/ OnStartLoop \/ OnStartSetValue
                   \/ OnWork \/ WhileLooping)
  \/ EpollWait \/ Event \/ EventsDone \/ ProcessTask \/ OnTiming \/ OnTimingEarly
  \/ LoopEnds

Next == Creator \/ Thread \/ \E fd \in Fds : Active(fd)

\* The thread runs on; the owner may keep the object as long as it likes.
Spec == ServerInit /\ [][Next]_allVars /\ WF_allVars(Thread)

----------------------------------------------------------------------------

ServerTypeOK ==
  /\ TypeOK
  /\ Open \subseteq Fds /\ connections_ \in [Open -> Connection]
  /\ events_ \in Events /\ DOMAIN batch \subseteq events_.watched
  /\ tasks_ \subseteq Open \cup {"acceptor", "closed"}
  /\ counts_ \in 0 .. DAY - 1

Working == running /\ pc # "ended"

(* What epoll reports goes to the connection that is open: a watched          *)
(* descriptor has an entry, the entry is not one of a closed connection that  *)
(* stayed behind, and the server checks the connection; and no connection of  *)
(* the server's is without an entry.  The three maps are kept by different    *)
(* classes, and by accept, close, error, a failed send, the timeout, and an   *)
(* epoll_ctl that fails.                                                      *)
Registered ==
  Working => /\ events_.watched \subseteq events_.entries \ events_.stale
             /\ events_.watched \subseteq Open \cup {"acceptor"}
             /\ Open \subseteq events_.entries

(* A connection that exchanges nothing is gone after at most two periods,     *)
(* whatever it did before, however often something was queued for it,         *)
(* wherever in the wheels' turn it was accepted, and even if epoll never      *)
(* reports it.                                                                *)
IdleBound == Working => \A fd \in Open : connections_[fd].idle <= 2 * Period

(* "a connection is dropped when nothing was exchanged for longer than the    *)
(* timeout" (src/Resource/Ssms.conf:20).                                      *)
IdleDropped == Working => \A fd \in Open : connections_[fd].idle <= Period

(* A check closes no connection that exchanged a byte less than a period ago, *)
(* in either direction and by any handler, once the connection has lived      *)
(* through a check.  (The check that follows the accept is not so kind.)      *)
ActiveKept ==
  [][\A fd \in Open \ DOMAIN connections_' :
       pc = "timing" /\ connections_[fd].checked => connections_[fd].idle + 1 >= Period]_allVars

(* A Stop that comes while OnWork is at work ends the thread, whatever        *)
(* events, tasks and ticks come, unless the process dies first.  (A Stop that *)
(* comes before OnWork begins is overwritten.)                                *)
StopEnds == (pc \in Rounds /\ ~looping_) ~> (pc = "ended" \/ ~running)

=============================================================================
