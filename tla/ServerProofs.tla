---------------------------- MODULE ServerProofs ----------------------------
(***************************************************************************)
(* What epoll watches, the map of events and the server's connections      *)
(* agree, for any descriptors, any number of events a round, any period    *)
(* and any wheels, also where epoll_ctl fails.                             *)
(*                                                                         *)
(* What makes it inductive: events still to be handled name descriptors    *)
(* that epoll watches, and there are none outside the handling of events,  *)
(* so that tasks and the timer may close any connection; and an entry that *)
(* stays behind is one of the entries.                                     *)
(*                                                                         *)
(* A connection that is silent is closed in time, and one that is not      *)
(* stays: at any time the age of each is bounded by the ticks that are     *)
(* left until the next check, which the wheels show.                       *)
(***************************************************************************)
EXTENDS Server, Sequences, TLAPS

Conns ==
  /\ Open \subseteq Fds /\ connections_ \in [Open -> Connection]
  /\ tasks_ \subseteq Open \cup {"acceptor", "closed"}

Entries ==
  /\ events_ \in Events /\ events_.stale \subseteq events_.entries
  /\ DOMAIN batch \subseteq events_.watched
  /\ pc # "events" => DOMAIN batch = {}

Counts == counts_ \in 0 .. DAY - 1

\* What Registered says, of any events and connections.
Agree(ev, open) ==
  /\ ev.watched \subseteq ev.entries \ ev.stale
  /\ ev.watched \subseteq open \cup {"acceptor"}
  /\ open \subseteq ev.entries

IInv == TypeOK /\ Conns /\ Entries /\ Counts /\ Registered

LEMMA RegisteredAgree == Registered <=> (Working => Agree(events_, Open))
  BY DEF Registered, Agree

LEMMA NotAcceptor == "acceptor" \notin Fds
  BY PeriodAssumption

----------------------------------------------------------------------------
(* Connections.                                                            *)

LEMMA AcceptedType == Accepted \in Connection
  BY DEF Accepted, Connection

LEMMA ExchangedType ==
  ASSUME NEW conn \in Connection
  PROVE  Exchanged(conn) \in Connection
  BY DEF Exchanged, Connection

LEMMA SentType ==
  ASSUME NEW conn \in Connection, NEW ret
  PROVE  Sent(conn, ret) \in Connection
  BY DEF Sent, Exchanged, Connection

\* Closing some of conns.
LEMMA WithoutType ==
  ASSUME NEW conns \in [Open -> Connection], NEW fds
  PROVE  Without(conns, fds) \in [Open \ fds -> Connection]
  BY DEF Without

LEMMA ResetType ==
  ASSUME NEW conns \in [Open -> Connection]
  PROVE  Reset(conns) \in [Open \ Silent(conns) -> Connection]
  <1>1. \A fd \in Open : [conns[fd] EXCEPT !.alive = FALSE, !.checked = TRUE] \in Connection
    BY DEF Connection
  <1> QED BY <1>1 DEF Reset

----------------------------------------------------------------------------
(* Creator and thread.                                                     *)

LEMMA CreatorType == TypeOK /\ CreatorNext => TypeOK'
  BY DEF TypeOK, CreatorNext, Construct, Run, RunGot, StartListenTask, StartRunEvery, Stop,
         Destroy, DestroyStop, DestroyJoin, DestroyMembers, CreatorGoes, creatorVars, threadVars,
         Places

LEMMA ThreadType == TypeOK /\ ThreadNext => TypeOK'
  BY DEF TypeOK, ThreadNext, OnStartEarly, OnStart, OnStartLoop, OnStartSetValue, OnWork,
         WhileLooping, OnStartEnd, ThreadGoes, creatorVars, threadVars, Stages, Rounds

\* A handler that changes no variable of LoopThread but pc and running.
LEMMA RoundType ==
  ASSUME TypeOK, pc' \in Stages, running' \in BOOLEAN, UNCHANGED inRound
  PROVE  TypeOK'
  BY DEF TypeOK, inRound, creatorVars

----------------------------------------------------------------------------
(* Entries.                                                                *)

\* A new entry is none of those that stayed behind, and an old one is not given
\* to epoll.
LEMMA AddEventAgree ==
  ASSUME NEW ev \in Events, ev.stale \subseteq ev.entries, NEW open, Agree(ev, open),
         NEW fds \in SUBSET (Fds \cup {"acceptor"}), NEW added \in AddEvent(ev, fds),
         NEW more, more = open \cup (fds \ {"acceptor"})
  PROVE  /\ added \in Events /\ added.stale \subseteq added.entries
         /\ ev.watched \subseteq added.watched
         /\ Agree(added, more)
  <1>1. PICK refused \in SUBSET (fds \ ev.entries) :
          added = [ev EXCEPT !.entries = @ \cup (fds \ ev.entries),
                             !.watched = @ \cup ((fds \ ev.entries) \ refused)]
    BY DEF AddEvent
  <1>2. /\ added.entries = ev.entries \cup (fds \ ev.entries)
        /\ added.watched = ev.watched \cup ((fds \ ev.entries) \ refused)
        /\ added.stale = ev.stale
    BY <1>1 DEF Events
  <1>3. added \in Events
    <2>1. /\ ev.entries \cup (fds \ ev.entries) \in SUBSET (Fds \cup {"acceptor"})
          /\ ev.watched \cup ((fds \ ev.entries) \ refused) \in SUBSET (Fds \cup {"acceptor"})
      BY DEF Events
    <2> QED BY <1>1, <2>1 DEF Events
  <1> QED BY <1>2, <1>3 DEF Agree

\* What is closed leaves epoll, and the entry that stays behind counts as stale.
LEMMA DeleteEventAgree ==
  ASSUME NEW ev \in Events, ev.stale \subseteq ev.entries, NEW open, Agree(ev, open),
         NEW fds \in SUBSET (Fds \cup {"acceptor"}), NEW deleted, deleted = DeleteEvent(ev, fds),
         NEW less, less = open \ fds
  PROVE  /\ deleted \in Events /\ deleted.stale \subseteq deleted.entries
         /\ deleted.watched = ev.watched \ fds
         /\ Agree(deleted, less)
  <1>1. deleted = [entries |-> ev.entries \ (fds \cap ev.watched),
                   stale   |-> (ev.stale \cup fds) \cap (ev.entries \ (fds \cap ev.watched)),
                   watched |-> ev.watched \ fds]
    BY DEF DeleteEvent
  <1>2. deleted \in Events
    BY <1>1 DEF Events
  <1> QED BY <1>1, <1>2 DEF Agree

\* What OnClose leaves: the maps agree on the connections that remain.
LEMMA Closing ==
  ASSUME IInv, Working,
         NEW conns \in [Open -> Connection], NEW fds \in SUBSET Open,
         NEW tasks \in SUBSET (Open \cup {"acceptor", "closed"}),
         OnClose(fds, conns, tasks)
  PROVE  /\ Conns' /\ Registered'
         /\ events_' \in Events /\ events_'.stale \subseteq events_'.entries
         /\ events_'.watched = events_.watched \ fds
  <1>1. /\ connections_' = Without(conns, fds) /\ events_' = DeleteEvent(events_, fds)
        /\ tasks_' = ClosedTasks(tasks, fds)
    BY DEF OnClose
  <1>2. connections_' \in [Open \ fds -> Connection]
    BY <1>1, WithoutType
  <1>3. Open' = Open \ fds
    BY <1>2 DEF Open
  <1>4. Conns'
    <2>1. tasks_' \subseteq Open' \cup {"acceptor", "closed"}
      BY <1>1, <1>3 DEF ClosedTasks
    <2> QED BY <1>2, <1>3, <2>1 DEF IInv, Conns
  <1>5. Agree(events_, Open) /\ fds \in SUBSET (Fds \cup {"acceptor"})
    BY RegisteredAgree DEF IInv, Conns
  <1>6. /\ events_' \in Events /\ events_'.stale \subseteq events_'.entries
        /\ events_'.watched = events_.watched \ fds
        /\ Agree(events_', Open \ fds)
    BY <1>1, <1>5, DeleteEventAgree DEF IInv, Entries
  <1>7. Registered'
    BY <1>3, <1>6 DEF Registered, Agree
  <1> QED BY <1>4, <1>6, <1>7

\* The same when the handler of one descriptor's event closes its connection.
LEMMA ClosingOne ==
  ASSUME IInv, Working, NEW fd \in Open,
         NEW tasks, tasks \subseteq Open \cup {"acceptor", "closed"},
         OnClose({fd}, connections_, tasks)
  PROVE  /\ Conns' /\ Registered'
         /\ events_' \in Events /\ events_'.stale \subseteq events_'.entries
         /\ events_'.watched = events_.watched \ {fd}
  <1>1. connections_ \in [Open -> Connection]
    BY DEF IInv, Conns
  <1>2. {fd} \in SUBSET Open /\ tasks \in SUBSET (Open \cup {"acceptor", "closed"})
    OBVIOUS
  <1> QED BY ONLY IInv, Working, <1>1, <1>2, OnClose({fd}, connections_, tasks), Closing

----------------------------------------------------------------------------
(* The steps.                                                              *)

\* A handler of a descriptor's event ends with that event handled, and closes no
\* other.
LEMMA HandledStep ==
  ASSUME Entries, pc = "events", pc' = pc, NEW fd, NEW fds \in SUBSET {fd},
         Handled(fd), events_'.watched = events_.watched \ fds,
         events_' \in Events, events_'.stale \subseteq events_'.entries
  PROVE  Entries'
  BY DEF Entries, Handled

LEMMA OnEndStep ==
  ASSUME IInv, NEW fd \in Open, OnEnd(fd)
  PROVE  IInv'
  <1>1. /\ running /\ pc = "events" /\ Handled(fd) /\ OnClose({fd}, connections_, tasks_)
        /\ running' \in BOOLEAN
        /\ UNCHANGED <<creatorVars, threadVars>> /\ UNCHANGED timerVars
    BY DEF OnEnd, InBatch, MayCrash
  <1>2. Working /\ connections_ \in [Open -> Connection]
    BY <1>1 DEF Working, IInv, Conns
  <1>3. /\ Conns' /\ Registered'
        /\ events_' \in Events /\ events_'.stale \subseteq events_'.entries
        /\ events_'.watched = events_.watched \ {fd}
    <2>1. tasks_ \subseteq Open \cup {"acceptor", "closed"}
      BY DEF IInv, Conns
    <2> QED BY <1>1, <1>2, <2>1, ClosingOne
  <1>4. TypeOK' /\ Counts'
    BY <1>1 DEF IInv, TypeOK, Counts, creatorVars, threadVars, timerVars
  <1>5. Entries'
    BY <1>1, <1>3, HandledStep DEF IInv, threadVars
  <1> QED BY <1>3, <1>4, <1>5 DEF IInv

LEMMA HeardType ==
  ASSUME NEW conn \in Connection, NEW reply, NEW heard \in Heard(conn, reply)
  PROVE  heard \in Connection
  <1>1. ASSUME NEW left \in BOOLEAN PROVE [Exchanged(conn) EXCEPT !.waiting = left] \in Connection
    BY DEF Exchanged, Connection
  <1>2. conn.waiting \in BOOLEAN
    BY DEF Connection
  <1> QED BY <1>1, <1>2 DEF Heard

LEMMA OnReadStep ==
  ASSUME IInv, NEW fd \in Open, OnRead(fd)
  PROVE  IInv'
  <1>1. PICK reply, tasks :
       /\ reply \in BOOLEAN
       /\ tasks = IF reply THEN tasks_ \cup {fd} ELSE tasks_
       /\ \/ /\ \E conn \in Heard(connections_[fd], reply) :
                  connections_' = [connections_ EXCEPT ![fd] = conn]
             /\ tasks_' = tasks
             /\ IF "out" \in batch[fd] THEN batch' = [batch EXCEPT ![fd] = {"out"}] ELSE Handled(fd)
             /\ UNCHANGED <<events_, running>>
          \/ /\ OnClose({fd}, connections_, tasks)
             /\ Handled(fd)
             /\ IF "out" \in batch[fd] THEN running' = FALSE ELSE MayCrash
    BY DEF OnRead
  <1>2. /\ running /\ pc = "events" /\ UNCHANGED <<creatorVars, threadVars>> /\ UNCHANGED timerVars
    BY DEF OnRead, InBatch
  <1>3. /\ Working /\ connections_ \in [Open -> Connection] /\ Open \subseteq Fds
        /\ tasks \in SUBSET (Open \cup {"acceptor", "closed"})
    BY <1>1, <1>2 DEF Working, IInv, Conns
  <1>4. TypeOK' /\ Counts'
    <2>1. running' \in BOOLEAN
      BY <1>1, <1>2 DEF MayCrash
    <2> QED BY <1>2, <2>1 DEF IInv, TypeOK, Counts, creatorVars, threadVars, timerVars
  <1>5. pc' = pc
    BY <1>2 DEF threadVars
  <1>6. CASE /\ \E conn \in Heard(connections_[fd], reply) :
                  connections_' = [connections_ EXCEPT ![fd] = conn]
             /\ tasks_' = tasks
             /\ IF "out" \in batch[fd] THEN batch' = [batch EXCEPT ![fd] = {"out"}] ELSE Handled(fd)
             /\ UNCHANGED <<events_, running>>
    <2>1. PICK conn \in Connection : connections_' = [connections_ EXCEPT ![fd] = conn]
      BY <1>3, <1>6, HeardType
    <2>2. connections_' \in [Open -> Connection] /\ Open' = Open
      BY <1>3, <2>1 DEF Open
    <2>3. Conns' /\ Registered'
      BY <1>3, <1>5, <1>6, <2>2 DEF IInv, Conns, Registered, Working
    <2>4. Entries'
      <3>1. DOMAIN batch' \subseteq DOMAIN batch
        BY <1>6 DEF Handled
      <3> QED BY <1>2, <1>5, <1>6, <3>1 DEF IInv, Entries
    <2> QED BY <1>4, <2>3, <2>4 DEF IInv
  <1>7. CASE OnClose({fd}, connections_, tasks) /\ Handled(fd)
    <2>1. /\ Conns' /\ Registered'
          /\ events_' \in Events /\ events_'.stale \subseteq events_'.entries
          /\ events_'.watched = events_.watched \ {fd}
      BY <1>3, <1>7, ClosingOne
    <2>2. Entries'
      BY <1>2, <1>5, <1>7, <2>1, HandledStep DEF IInv
    <2> QED BY <1>4, <2>1, <2>2 DEF IInv
  <1> QED BY <1>1, <1>6, <1>7

LEMMA OnWriteStep ==
  ASSUME IInv, NEW fd \in Open, OnWrite(fd)
  PROVE  IInv'
  <1>1. /\ running /\ pc = "events" /\ Handled(fd)
        /\ UNCHANGED <<creatorVars, threadVars>> /\ UNCHANGED timerVars
        /\ running' \in BOOLEAN
    BY DEF OnWrite, InBatch, MayCrash
  <1>2. Working /\ connections_ \in [Open -> Connection] /\ pc' = pc
    BY <1>1 DEF Working, IInv, Conns, threadVars
  <1>3. TypeOK' /\ Counts'
    BY <1>1 DEF IInv, TypeOK, Counts, creatorVars, threadVars, timerVars
  <1>4. CASE \E ret \in {"all", "part"} :
          /\ connections_' = [connections_ EXCEPT
                                ![fd] = [Exchanged(@) EXCEPT !.waiting = (ret = "part")]]
          /\ UNCHANGED <<events_, tasks_, running>>
    <2>1. PICK ret \in {"all", "part"} :
          /\ connections_' = [connections_ EXCEPT
                                ![fd] = [Exchanged(@) EXCEPT !.waiting = (ret = "part")]]
          /\ UNCHANGED <<events_, tasks_, running>>
      BY <1>4
    <2>2. [Exchanged(connections_[fd]) EXCEPT !.waiting = (ret = "part")] \in Connection
      <3>1. Exchanged(connections_[fd]) \in Connection
        BY <1>2, ExchangedType
      <3>2. (ret = "part") \in BOOLEAN
        OBVIOUS
      <3> QED BY <3>1, <3>2 DEF Connection
    <2>3. connections_' \in [Open -> Connection]
      BY <1>2, <2>1, <2>2
    <2>4. Open' = Open
      BY <2>3 DEF Open
    <2>5. Conns' /\ Registered'
      BY <1>2, <2>1, <2>3, <2>4 DEF IInv, Conns, Registered, Working
    <2>6. Entries'
      BY <1>1, <1>2, <2>1 DEF IInv, Entries, Handled
    <2> QED BY <1>3, <2>5, <2>6 DEF IInv
  <1>5. CASE OnClose({fd}, connections_, tasks_)
    <2>1. /\ Conns' /\ Registered'
          /\ events_' \in Events /\ events_'.stale \subseteq events_'.entries
          /\ events_'.watched = events_.watched \ {fd}
      <3>1. tasks_ \subseteq Open \cup {"acceptor", "closed"}
        BY DEF IInv, Conns
      <3> QED BY <1>2, <1>5, <3>1, ClosingOne
    <2>2. Entries'
      BY <1>1, <1>2, <2>1, HandledStep DEF IInv
    <2> QED BY <1>3, <2>1, <2>2 DEF IInv
  <1> QED BY <1>4, <1>5 DEF OnWrite

\* The acceptor has another entry, and fds have one.
LEMMA ReopenAgree ==
  ASSUME IInv, Working, NEW fds \in SUBSET Fds, Reopen(fds)
  PROVE  /\ events_' \in Events /\ events_'.stale \subseteq events_'.entries
         /\ events_.watched \ {"acceptor"} \subseteq events_'.watched
         /\ Agree(events_', Open \cup fds)
  <1>1. PICK one, deleted : one = {"acceptor"} /\ deleted = DeleteEvent(events_, one)
    OBVIOUS
  <1>2. Open \ {"acceptor"} = Open /\ fds \ {"acceptor"} = fds
    BY NotAcceptor DEF IInv, Conns
  <1>3. Agree(events_, Open)
    BY RegisteredAgree DEF IInv
  <1>4. /\ deleted \in Events /\ deleted.stale \subseteq deleted.entries
        /\ deleted.watched = events_.watched \ {"acceptor"}
        /\ Agree(deleted, Open)
    <2>1. PICK ev, open : ev = events_ /\ open = Open
      OBVIOUS
    <2>2. ev \in Events /\ ev.stale \subseteq ev.entries /\ Agree(ev, open)
      BY <1>3, <2>1 DEF IInv, Entries
    <2>3. one \in SUBSET (Fds \cup {"acceptor"}) /\ open = open \ one
      BY <1>1, <1>2, <2>1
    <2>4. deleted = DeleteEvent(ev, one)
      BY <1>1, <2>1
    <2>5. /\ deleted \in Events /\ deleted.stale \subseteq deleted.entries
          /\ deleted.watched = ev.watched \ one /\ Agree(deleted, open)
      BY <2>2, <2>3, <2>4, DeleteEventAgree
    <2> QED BY <1>1, <2>1, <2>5
  <1>5. events_' \in AddEvent(deleted, fds \cup {"acceptor"})
    BY <1>1 DEF Reopen
  <1>6. PICK all, open, more, added :
       all = fds \cup {"acceptor"} /\ open = Open /\ more = Open \cup fds /\ added = events_'
    OBVIOUS
  <1>7. all \in SUBSET (Fds \cup {"acceptor"}) /\ more = open \cup (all \ {"acceptor"})
    BY <1>2, <1>6
  <1>8. Agree(deleted, open) /\ added \in AddEvent(deleted, all)
    BY <1>4, <1>5, <1>6
  <1>9. /\ added \in Events /\ added.stale \subseteq added.entries
        /\ deleted.watched \subseteq added.watched /\ Agree(added, more)
    <2>1. deleted \in Events /\ deleted.stale \subseteq deleted.entries
      BY <1>4
    <2> QED BY <1>7, <1>8, <2>1, AddEventAgree, Zenon
  <1> QED BY <1>4, <1>6, <1>9

LEMMA OnAcceptStep ==
  ASSUME IInv, OnAccept
  PROVE  IInv'
  <1>1. PICK fds \in SUBSET (Fds \ Open) :
       /\ connections_' = [fd \in Open \cup fds |->
                             IF fd \in Open THEN connections_[fd] ELSE Accepted]
       /\ \/ events_' \in AddEvent(events_, fds) /\ UNCHANGED running
          \/ Reopen(fds)
    BY DEF OnAccept
  <1>2. /\ running /\ pc = "events" /\ Handled("acceptor") /\ running' \in BOOLEAN
        /\ UNCHANGED <<creatorVars, threadVars>> /\ UNCHANGED timerVars /\ UNCHANGED tasks_
    BY <1>1 DEF OnAccept, InBatch, Reopen
  <1>3. Working /\ connections_ \in [Open -> Connection] /\ Open \subseteq Fds /\ pc' = pc
    BY <1>2 DEF IInv, Working, Conns, threadVars
  <1>4. connections_' \in [Open \cup fds -> Connection]
    BY <1>1, <1>3, AcceptedType
  <1>5. Open' = Open \cup fds
    BY <1>4 DEF Open
  <1>6. /\ events_' \in Events /\ events_'.stale \subseteq events_'.entries
        /\ events_.watched \ {"acceptor"} \subseteq events_'.watched
        /\ Agree(events_', Open \cup fds)
    <2>1. CASE Reopen(fds)
      BY <1>3, <2>1, ReopenAgree
    <2>2. CASE events_' \in AddEvent(events_, fds)
      <3>1. Agree(events_, Open) /\ fds \ {"acceptor"} = fds
        BY <1>3, NotAcceptor, RegisteredAgree DEF IInv
      <3> QED BY <2>2, <3>1, AddEventAgree, SMTT(30) DEF IInv, Entries
    <2> QED BY <1>1, <2>1, <2>2
  <1>7. TypeOK' /\ Counts'
    BY <1>2 DEF IInv, TypeOK, Counts, creatorVars, threadVars, timerVars
  <1>8. Conns'
    BY <1>2, <1>3, <1>4, <1>5 DEF IInv, Conns
  <1>9. Entries'
    BY <1>2, <1>3, <1>6 DEF IInv, Entries, Handled
  <1>10. Registered'
    BY <1>5, <1>6 DEF Registered, Agree
  <1> QED BY <1>7, <1>8, <1>9, <1>10 DEF IInv

LEMMA OnAcceptorErrorStep ==
  ASSUME IInv, OnAcceptorError
  PROVE  IInv'
  <1>1. /\ running /\ pc = "events" /\ Handled("acceptor") /\ Reopen({}) /\ running' \in BOOLEAN
        /\ UNCHANGED <<creatorVars, threadVars>> /\ UNCHANGED timerVars
        /\ UNCHANGED <<tasks_, connections_>>
    BY DEF OnAcceptorError, InBatch, Reopen
  <1>2. Working /\ pc' = pc /\ Open' = Open
    BY <1>1 DEF Working, threadVars, Open
  <1>3. /\ events_' \in Events /\ events_'.stale \subseteq events_'.entries
        /\ events_.watched \ {"acceptor"} \subseteq events_'.watched
        /\ Agree(events_', Open)
    BY <1>1, <1>2, ReopenAgree
  <1>4. TypeOK' /\ Counts' /\ Conns'
    BY <1>1, <1>2 DEF IInv, TypeOK, Counts, Conns, creatorVars, threadVars, timerVars
  <1>5. Entries'
    BY <1>1, <1>2, <1>3 DEF IInv, Entries, Handled
  <1>6. Registered'
    BY <1>2, <1>3 DEF Registered, Agree
  <1> QED BY <1>4, <1>5, <1>6 DEF IInv

LEMMA TaskStep ==
  ASSUME IInv, ProcessTask
  PROVE  IInv'
  <1>1. PICK ret \in [tasks_ \cap Open -> {"all", "part", "nothing", "error"}] :
         /\ connections_' = [fd \in Open \ {f \in DOMAIN ret : ret[f] = "error"} |->
              IF fd \in DOMAIN ret THEN Sent(connections_[fd], ret[fd]) ELSE connections_[fd]]
         /\ events_' \in AddEvent(DeleteEvent(events_, {f \in DOMAIN ret : ret[f] = "error"}),
                                  tasks_ \cap {"acceptor"})
    BY DEF ProcessTask
  <1>2. /\ running /\ pc = "tasks" /\ pc' = "timing" /\ tasks_' = {} /\ running' \in BOOLEAN
        /\ UNCHANGED inRound /\ UNCHANGED batch /\ UNCHANGED timerVars
    BY DEF ProcessTask, ThreadGoes, IInv, TypeOK
  <1> DEFINE failed == {f \in DOMAIN ret : ret[f] = "error"}
  <1>3. failed \subseteq Open
    OBVIOUS
  <1>4. Working /\ connections_ \in [Open -> Connection] /\ Open \subseteq Fds
    BY <1>2 DEF IInv, Working, Conns
  <1>5. connections_' \in [Open \ failed -> Connection]
    <2>1. \A fd \in Open : Sent(connections_[fd], ret[fd]) \in Connection
      BY <1>4, SentType
    <2> QED BY <1>1, <1>4, <2>1
  <1>6. Open' = Open \ failed
    BY <1>5 DEF Open
  <1>7. PICK deleted : deleted = DeleteEvent(events_, failed)
    OBVIOUS
  <1>8. events_' \in AddEvent(deleted, tasks_ \cap {"acceptor"})
    BY <1>1, <1>7
  <1> HIDE DEF failed
  <1>9. /\ deleted \in Events /\ deleted.stale \subseteq deleted.entries
        /\ Agree(deleted, Open \ failed)
    <2>1. Agree(events_, Open) /\ failed \in SUBSET (Fds \cup {"acceptor"})
      BY <1>3, <1>4, RegisteredAgree DEF IInv
    <2> QED BY <1>7, <2>1, DeleteEventAgree DEF IInv, Entries
  <1>10. /\ events_' \in Events /\ events_'.stale \subseteq events_'.entries
         /\ Agree(events_', Open \ failed)
    <2>1. (Open \ failed) \cup ((tasks_ \cap {"acceptor"}) \ {"acceptor"}) = Open \ failed
      OBVIOUS
    <2>2. tasks_ \cap {"acceptor"} \in SUBSET (Fds \cup {"acceptor"})
      OBVIOUS
    <2> QED BY <1>8, <1>9, <2>1, <2>2, AddEventAgree, SMTT(30)
  <1>11. TypeOK' /\ Counts'
    <2>1. pc' \in Stages
      BY <1>2 DEF Stages, Rounds
    <2>2. TypeOK'
      BY <1>2, <2>1, RoundType DEF IInv
    <2> QED BY <1>2, <2>2 DEF IInv, Counts, timerVars
  <1>12. Conns'
    BY <1>2, <1>4, <1>5, <1>6 DEF Conns
  <1>13. Entries'
    BY <1>2, <1>10 DEF IInv, Entries
  <1>14. Registered'
    BY <1>6, <1>10 DEF Registered, Agree
  <1> QED BY <1>11, <1>12, <1>13, <1>14 DEF IInv

LEMMA TimingStep ==
  ASSUME IInv, OnTiming
  PROVE  IInv'
  <1> DEFINE count == (counts_ + 1) % DAY
             older == IF wheels_ = Wheel!EmptyWheels THEN connections_
                      ELSE [fd \in Open |-> [connections_[fd] EXCEPT !.idle = @ + 1]]
  <1>1. /\ running /\ running' = running /\ pc = "timing" /\ pc' = "test"
        /\ counts_' = count
        /\ CheckConnectionStatus(older) \/ (connections_' = older /\ UNCHANGED <<events_, tasks_>>)
        /\ UNCHANGED inRound /\ UNCHANGED batch
    BY DEF OnTiming, ThreadGoes
  <1>2. /\ Working /\ connections_ \in [Open -> Connection]
        /\ Open \subseteq Fds /\ tasks_ \subseteq Open \cup {"acceptor", "closed"}
    BY <1>1 DEF IInv, Working, Conns
  <1>3. older \in [Open -> Connection]
    <2>1. \A fd \in Open : [connections_[fd] EXCEPT !.idle = @ + 1] \in Connection
      BY <1>2 DEF Connection
    <2> QED BY <1>2, <2>1
  <1>4. Counts'
    <2>1. counts_ \in Nat /\ DAY \in Nat \ {0}
      BY PeriodAssumption DEF IInv, Counts, Wheel!UnitAssumption
    <2>2. count \in 0 .. DAY - 1
      BY <2>1
    <2> QED BY <1>1, <2>2 DEF Counts
  <1> HIDE DEF older, count
  <1>5. TypeOK'
    BY <1>1, RoundType DEF IInv, TypeOK, Stages, Rounds
  <1>6. DOMAIN batch' = {}
    BY <1>1 DEF IInv, Entries
  <1>7. CASE CheckConnectionStatus(older)
    <2>1. /\ connections_' = Reset(older)
          /\ events_' = DeleteEvent(events_, Silent(older))
          /\ tasks_' = ClosedTasks(tasks_, Silent(older))
      BY <1>7 DEF CheckConnectionStatus
    <2>2. connections_' \in [Open \ Silent(older) -> Connection]
      BY <1>3, <2>1, ResetType
    <2>3. Open' = Open \ Silent(older)
      BY <2>2 DEF Open
    <2>4. Silent(older) \in SUBSET (Fds \cup {"acceptor"}) /\ Agree(events_, Open)
      BY <1>2, <1>3, RegisteredAgree DEF Silent, IInv
    <2>5. /\ events_' \in Events /\ events_'.stale \subseteq events_'.entries
          /\ Agree(events_', Open \ Silent(older))
      BY <2>1, <2>4, DeleteEventAgree DEF IInv, Entries
    <2>6. Conns'
      BY <1>2, <2>1, <2>2, <2>3 DEF Conns, ClosedTasks
    <2>7. Entries' /\ Registered'
      BY <1>6, <2>3, <2>5 DEF Entries, Registered, Agree
    <2> QED BY <1>4, <1>5, <2>6, <2>7 DEF IInv
  <1>8. CASE connections_' = older /\ UNCHANGED <<events_, tasks_>>
    <2>1. Open' = Open
      BY <1>3, <1>8 DEF Open
    <2>2. Conns' /\ Entries' /\ Registered'
      BY <1>1, <1>2, <1>3, <1>6, <1>8, <2>1 DEF IInv, Conns, Entries, Registered
    <2> QED BY <1>4, <1>5, <2>2 DEF IInv
  <1> QED BY <1>1, <1>7, <1>8

\* The loop's end takes all with it.
LEMMA LoopEndsStep ==
  ASSUME IInv, LoopEnds
  PROVE  IInv'
  <1>1. OnStartEnd /\ pc = "end" /\ pc' = "ended"
    BY DEF LoopEnds, OnStartEnd, ThreadGoes
  <1>2. /\ events_' = NoEvents /\ tasks_' = {} /\ UNCHANGED batch /\ UNCHANGED counts_
        /\ connections_' = connections_ \/ connections_' = Reset(connections_)
    BY DEF LoopEnds
  <1>3. TypeOK'
    BY <1>1, ThreadType DEF IInv, ThreadNext
  <1>4. Conns'
    <2>1. connections_ \in [Open -> Connection] /\ Open \subseteq Fds
      BY DEF IInv, Conns
    <2>2. CASE connections_' = connections_
      BY <1>2, <2>1, <2>2 DEF Conns, Open
    <2>3. CASE connections_' = Reset(connections_)
      <3>1. connections_' \in [Open \ Silent(connections_) -> Connection]
        BY <2>1, <2>3, ResetType
      <3>2. Open' = Open \ Silent(connections_)
        BY <3>1 DEF Open
      <3> QED BY <1>2, <2>1, <3>1, <3>2 DEF Conns
    <2> QED BY <1>2, <2>2, <2>3
  <1>5. Entries' /\ Counts'
    BY <1>1, <1>2 DEF IInv, Entries, Counts, NoEvents, Events
  <1>6. Registered'
    BY <1>1 DEF Registered, Working
  <1> QED BY <1>3, <1>4, <1>5, <1>6 DEF IInv

\* What touches no connection and no entry.
LEMMA OtherStep ==
  ASSUME IInv, TypeOK', UNCHANGED <<events_, connections_, counts_>>,
         tasks_' \subseteq Open \cup {"acceptor", "closed"},
         DOMAIN batch' \subseteq events_.watched, pc' # "events" => DOMAIN batch' = {},
         Working' => Working
  PROVE  IInv'
  BY DEF IInv, Conns, Entries, Counts, Registered, Open

LEMMA CreatorStep ==
  ASSUME IInv, Creator
  PROVE  IInv'
  <1>1. CreatorNext
    BY DEF Creator, CreatorNext, AddListenTask, AddCheck
  <1>2. /\ UNCHANGED <<events_, connections_, counts_, batch>>
        /\ tasks_' \subseteq tasks_ \cup {"acceptor"}
    BY DEF Creator, OutOfLoop, loopVars, timerVars, AddListenTask, AddCheck
  <1>3. running /\ pc' = pc
    BY <1>1 DEF CreatorNext, Construct, Run, RunGot, StartListenTask, StartRunEvery, Stop,
         Destroy, DestroyStop, DestroyJoin, DestroyMembers, CreatorGoes, threadVars
  <1>4. TypeOK'
    BY <1>1, CreatorType DEF IInv
  <1>5. Working' => Working
    BY <1>3 DEF Working
  <1>6. tasks_' \subseteq Open \cup {"acceptor", "closed"}
    BY <1>2 DEF IInv, Conns
  <1>7. DOMAIN batch' \subseteq events_.watched /\ (pc' # "events" => DOMAIN batch' = {})
    BY <1>2, <1>3 DEF IInv, Entries
  <1> QED BY <1>2, <1>4, <1>5, <1>6, <1>7, OtherStep

\* The steps of the thread from its start to the rounds.
LEMMA StartStep ==
  ASSUME IInv, OutOfLoop,
         OnStartEarly \/ OnStart \/ OnStartLoop \/ OnStartSetValue \/ OnWork \/ WhileLooping
  PROVE  IInv'
  <1>1. ThreadNext
    BY DEF ThreadNext
  <1>2. running /\ pc # "ended" /\ pc # "events" /\ pc' # "events"
    BY DEF OnStartEarly, OnStart, OnStartLoop, OnStartSetValue, OnWork, WhileLooping, ThreadGoes
  <1>3. UNCHANGED <<events_, connections_, counts_, batch, tasks_>>
    BY DEF OutOfLoop, loopVars, timerVars
  <1>4. TypeOK'
    BY <1>1, ThreadType DEF IInv
  <1>5. Working' => Working
    BY <1>2 DEF Working
  <1>6. /\ tasks_' \subseteq Open \cup {"acceptor", "closed"}
        /\ DOMAIN batch' \subseteq events_.watched /\ (pc' # "events" => DOMAIN batch' = {})
    BY <1>2, <1>3 DEF IInv, Conns, Entries
  <1> QED BY <1>3, <1>4, <1>5, <1>6, OtherStep

\* The steps of a round that close nothing.
LEMMA RoundStep ==
  ASSUME IInv, EpollWait \/ EventsDone \/ OnTimingEarly
  PROVE  IInv'
  <1>1. CASE EpollWait
    <2>1. /\ running /\ pc = "poll" /\ pc' = "events" /\ running' = running /\ UNCHANGED inRound
          /\ UNCHANGED <<events_, tasks_, connections_>> /\ UNCHANGED timerVars
      BY <1>1 DEF EpollWait, ThreadGoes
    <2>2. DOMAIN batch' \subseteq events_.watched
      <3>1. PICK ready \in SUBSET events_.watched :
              batch' \in [ready -> {{"in"}, {"end"}, {"out"}, {"in", "out"}}]
        BY <1>1 DEF EpollWait
      <3> QED BY <3>1
    <2>3. TypeOK'
      BY <2>1, RoundType DEF IInv, TypeOK, Stages, Rounds
    <2> QED BY <2>1, <2>2, <2>3, OtherStep DEF IInv, Conns, Working, timerVars
  <1>2. CASE EventsDone
    <2>1. /\ running /\ DOMAIN batch = {} /\ pc = "events" /\ pc' = "tasks" /\ running' = running
          /\ UNCHANGED inRound
          /\ UNCHANGED <<connections_, events_, tasks_, batch>> /\ UNCHANGED timerVars
      BY <1>2 DEF EventsDone, ThreadGoes, loopVars
    <2>2. TypeOK'
      BY <2>1, RoundType DEF IInv, TypeOK, Stages, Rounds
    <2> QED BY <2>1, <2>2, OtherStep DEF IInv, Conns, Entries, Working, timerVars
  <1>3. CASE OnTimingEarly
    <2>1. /\ running /\ pc = "timing" /\ pc' = "test" /\ running' = running /\ UNCHANGED inRound
          /\ UNCHANGED <<connections_, events_, tasks_, batch>> /\ UNCHANGED timerVars
      BY <1>3 DEF OnTimingEarly, ThreadGoes, loopVars
    <2>2. TypeOK'
      BY <2>1, RoundType DEF IInv, TypeOK, Stages, Rounds
    <2> QED BY <2>1, <2>2, OtherStep DEF IInv, Conns, Entries, Working, timerVars
  <1> QED BY <1>1, <1>2, <1>3

LEMMA ActiveStep ==
  ASSUME IInv, NEW fd \in Fds, Active(fd)
  PROVE  IInv'
  <1>1. /\ fd \in Open /\ tasks_' = tasks_ \cup {fd}
        /\ UNCHANGED vars /\ UNCHANGED <<events_, batch, connections_>> /\ UNCHANGED timerVars
    BY DEF Active
  <1>2. TypeOK' /\ (Working' => Working) /\ pc' = pc
    BY <1>1 DEF IInv, TypeOK, Working, vars, creatorVars, threadVars
  <1>3. tasks_' \subseteq Open \cup {"acceptor", "closed"}
    BY <1>1 DEF IInv, Conns
  <1> QED BY <1>1, <1>2, <1>3, OtherStep DEF IInv, Entries, timerVars

----------------------------------------------------------------------------
(* The whole.                                                              *)

LEMMA ThreadStep ==
  ASSUME IInv, Thread
  PROVE  IInv'
  <1>1. CASE OutOfLoop /\ (OnStartEarly \/ OnStart \/ OnStartLoop \/ OnStartSetValue
                          \/ OnWork \/ WhileLooping)
    BY <1>1, StartStep
  <1>2. CASE EpollWait \/ EventsDone \/ OnTimingEarly
    BY <1>2, RoundStep
  <1>3. CASE OnAccept \/ OnAcceptorError
    BY <1>3, OnAcceptStep, OnAcceptorErrorStep
  <1>4. CASE \E fd \in Open : OnEnd(fd) \/ OnRead(fd) \/ OnWrite(fd)
    BY <1>4, OnEndStep, OnReadStep, OnWriteStep
  <1>5. CASE ProcessTask
    BY <1>5, TaskStep
  <1>6. CASE OnTiming
    BY <1>6, TimingStep
  <1>7. CASE LoopEnds
    BY <1>7, LoopEndsStep
  <1> QED BY <1>1, <1>2, <1>3, <1>4, <1>5, <1>6, <1>7 DEF Thread, Event

LEMMA InitIInv == ServerInit => IInv
  <1> SUFFICES ASSUME ServerInit PROVE IInv
    OBVIOUS
  <1>1. TypeOK
    BY DEF ServerInit, Init, TypeOK, Places, Stages
  <1>2. Open = {} /\ connections_ \in [Open -> Connection]
    BY DEF ServerInit, Open
  <1>3. Conns /\ Registered
    BY <1>2 DEF ServerInit, Conns, Registered, NoEvents
  <1>4. Entries
    BY DEF ServerInit, Entries, NoEvents, Events
  <1>5. Counts
    <2>1. DAY \in Nat \ {0}
      BY PeriodAssumption DEF Wheel!UnitAssumption
    <2> QED BY <2>1 DEF ServerInit, Counts
  <1> QED BY <1>1, <1>3, <1>4, <1>5 DEF IInv

LEMMA NextIInv == IInv /\ [Next]_allVars => IInv'
  <1> SUFFICES ASSUME IInv, [Next]_allVars PROVE IInv'
    OBVIOUS
  <1>1. CASE Creator
    BY <1>1, CreatorStep
  <1>2. CASE Thread
    BY <1>2, ThreadStep
  <1>3. CASE \E fd \in Fds : Active(fd)
    BY <1>3, ActiveStep
  <1>4. CASE UNCHANGED allVars
    BY <1>4 DEF allVars, vars, loopVars, timerVars, creatorVars, threadVars, IInv, TypeOK,
            Conns, Entries, Counts, Registered, Working, Open
  <1> QED BY <1>1, <1>2, <1>3, <1>4 DEF Next

LEMMA Invariant == Spec => []IInv
  BY InitIInv, NextIInv, PTL DEF Spec

\* Every variable of the loop, its timer, its connections and its thread keeps
\* its type; an event still to be handled is of a descriptor that epoll watches,
\* and a task that finds its connection open finds it on the server's list.
THEOREM TypeCorrect == Spec => []ServerTypeOK
  <1>1. IInv => ServerTypeOK
    BY DEF IInv, ServerTypeOK, Conns, Entries, Counts
  <1> QED BY <1>1, Invariant, PTL

\* No order of accepts, closes, errors, failed sends, checks and failures of
\* epoll_ctl leaves a watched descriptor without its connection, an event to the
\* entry of a connection that is gone, or a connection without an entry.
THEOREM RegisteredAlways == Spec => []Registered
  <1>1. IInv => Registered
    BY DEF IInv
  <1> QED BY <1>1, Invariant, PTL

----------------------------------------------------------------------------
(* The check in the wheels.  When its period fits into the seconds wheel, as  *)
(* in the code, it is in one slot of that one and nothing else is anywhere.   *)

Task == [call |-> Check, extra |-> 0]

\* The wheels with the check in slot j of the seconds; -1: not asked for yet.
CheckAt(j) ==
  [type \in Wheel!WheelTypes |->
     [i \in 0 .. Wheel!Slots(type) - 1 |-> IF type = "Second" /\ i = j THEN <<Task>> ELSE <<>>]]

\* How many slots of a unit fit into another one.
LEMMA DivPositive ==
  ASSUME NEW a \in Nat \ {0}, NEW b \in Nat \ {0}, a % b = 0
  PROVE  a \div b \in Nat \ {0} /\ b <= a
  OBVIOUS

\* Every wheel has a slot, and the seconds wheel as many as a minute has ticks.
LEMMA Units ==
  /\ MINUTE \in Nat \ {0} /\ HOUR \in Nat \ {0} /\ DAY \in Nat \ {0}
  /\ MINUTE <= HOUR
  /\ Wheel!Slots("Second") = MINUTE
  /\ \A type \in Wheel!WheelTypes : Wheel!Slots(type) \in Nat \ {0}
  <1>1. /\ MINUTE \in Nat \ {0} /\ HOUR \in Nat \ {0} /\ DAY \in Nat \ {0}
        /\ HOUR % MINUTE = 0 /\ DAY % HOUR = 0
        /\ DAY_SLOTS \in Nat \ {0}
    BY PeriodAssumption DEF Wheel!UnitAssumption
  <1>2. HOUR \div MINUTE \in Nat \ {0} /\ DAY \div HOUR \in Nat \ {0} /\ MINUTE <= HOUR
    BY <1>1, DivPositive
  <1>3. /\ Wheel!Slots("Second") = MINUTE
        /\ Wheel!Slots("Minute") = HOUR \div MINUTE
        /\ Wheel!Slots("Hour") = DAY \div HOUR
        /\ Wheel!Slots("Day") = DAY_SLOTS
    BY DEF Wheel!Slots
  <1> QED BY <1>1, <1>2, <1>3 DEF Wheel!WheelTypes

\* What is shorter than a minute goes into the seconds wheel.
LEMMA InSeconds ==
  ASSUME NEW s \in Nat, s < MINUTE
  PROVE  Wheel!WheelFor(s) = "Second"
  <1>1. ~(s >= MINUTE /\ s < HOUR) /\ ~(s >= HOUR /\ s < DAY)
    BY Units
  <1> QED BY <1>1 DEF Wheel!WheelFor

\* A slot without tasks leaves everything as it is; of a slot with one task the
\* call runs.
LEMMA RunNone ==
  ASSUME NEW w
  PROVE  Wheel!RunAll(w, <<>>) = w
  <1> DEFINE G(f) == [n \in 0 .. 0 |->
                        IF n = 0 THEN w
                        ELSE Wheel!RunAfter(f[n - 1], <<>>[n].extra, <<>>[n].call)]
             after == CHOOSE f : f = G(f)
             one == [n \in 0 .. 0 |-> w]
  <1>1. one = G(one)
    OBVIOUS
  <1>2. after = G(after)
    BY <1>1
  <1>3. Wheel!RunAll(w, <<>>) = after[0]
    BY DEF Wheel!RunAll
  <1> HIDE DEF after
  <1> QED BY <1>2, <1>3

LEMMA RunOne ==
  ASSUME NEW w, NEW t
  PROVE  Wheel!RunAll(w, <<t>>) = Wheel!RunAfter(w, t.extra, t.call)
  <1> DEFINE R(v) == Wheel!RunAfter(v, t.extra, t.call)
             G(f) == [n \in 0 .. 1 |->
                        IF n = 0 THEN w
                        ELSE Wheel!RunAfter(f[n - 1], <<t>>[n].extra, <<t>>[n].call)]
             after == CHOOSE f : f = G(f)
             two == [n \in 0 .. 1 |-> IF n = 0 THEN w ELSE R(w)]
  <1>1. two = G(two)
    <2> HIDE DEF R
    <2>1. two[0] = w
      OBVIOUS
    <2>2. \A n \in 0 .. 1 : n # 0 => n = 1 /\ two[n - 1] = w /\ <<t>>[n] = t
      OBVIOUS
    <2>3. \A n \in 0 .. 1 : two[n] = IF n = 0 THEN w ELSE R(two[n - 1])
      BY <2>1, <2>2
    <2>4. two = [n \in 0 .. 1 |-> two[n]]
      OBVIOUS
    <2> HIDE DEF two
    <2> USE DEF R
    <2> QED BY <2>2, <2>3, <2>4
  <1>2. after = G(after)
    BY <1>1
  <1>3. Wheel!RunAll(w, <<t>>) = after[1]
    BY DEF Wheel!RunAll
  <1> HIDE DEF after
  <1> QED BY <1>2, <1>3

\* A wheel with nothing in it turns without a change.
LEMMA TurnEmpty ==
  ASSUME NEW wheels, NEW ran, NEW type \in Wheel!WheelTypes \ {"Second"}, NEW count, NEW j,
         wheels = CheckAt(j)
  PROVE  Wheel!Turn([wheels |-> wheels, ran |-> ran], type, count)
           = [wheels |-> wheels, ran |-> ran]
  <1> DEFINE w == [wheels |-> wheels, ran |-> ran]
             last == Wheel!Slots(type) - 1
             turned == [i \in 0 .. last |-> IF i < last THEN w.wheels[type][i + 1] ELSE <<>>]
  <1>1. last \in Nat
    BY Units
  <1>2. wheels[type] = [i \in 0 .. last |-> <<>>]
    BY DEF CheckAt
  <1>3. wheels[type][0] = <<>>
    BY <1>1, <1>2
  <1>4. Wheel!RunAll(w, w.wheels[type][0]) = w
    BY <1>3, RunNone
  <1>5. Wheel!PopFront(w, type) = [w EXCEPT !.wheels[type] = turned]
    BY <1>4 DEF Wheel!PopFront
  <1>6. turned = wheels[type]
    <2> HIDE DEF last
    <2>1. \A i \in 0 .. last : i < last => i + 1 \in 0 .. last
      BY <1>1
    <2> QED BY <1>2, <2>1
  <1>7. [wheels EXCEPT ![type] = wheels[type]] = wheels
    BY DEF CheckAt
  <1>8. Wheel!PopFront(w, type) = w
    <2> HIDE DEF turned, last
    <2> QED BY <1>5, <1>6, <1>7
  <1> QED BY <1>8 DEF Wheel!Turn

\* Where the check in slot j is after a tick.
Ticked(j) == IF j = -1 THEN -1 ELSE IF j = 0 THEN Period - 1 ELSE j - 1

\* One tick: the check moves up, or runs and is put back at the end of its period.
LEMMA TickIs ==
  ASSUME Period < MINUTE, NEW j \in -1 .. Period, NEW count \in Nat
  PROVE  Wheel!Tick(CheckAt(j), count)
           = [wheels |-> CheckAt(Ticked(j)), ran |-> IF j = 0 THEN <<Check>> ELSE <<>>]
  <1> DEFINE W == CheckAt(j)
             w == [wheels |-> W, ran |-> <<>>]
             last == MINUTE - 1
             ran == IF j = 0 THEN <<Check>> ELSE <<>>
             slot == IF j = 0 THEN Period ELSE j
             popped == [wheels |-> [type \in Wheel!WheelTypes |->
                           [i \in 0 .. Wheel!Slots(type) - 1 |->
                              IF type = "Second" /\ i = j THEN <<Task>>
                              ELSE IF type = "Second" /\ i = slot THEN <<Task>> ELSE <<>>]],
                        ran |-> ran]
  <1>0. Period \in 1 .. last /\ last \in Nat
    BY Units, PeriodAssumption
  <1>1. /\ "Second" \in Wheel!WheelTypes /\ Wheel!Slots("Second") - 1 = last
        /\ Wheel!Unit("Second") = 1
    BY Units DEF Wheel!WheelTypes, Wheel!Unit
  <1>2. W["Second"] = [i \in 0 .. last |-> IF i = j THEN <<Task>> ELSE <<>>]
    BY <1>1 DEF CheckAt
  <1>3. Wheel!RunAll(w, W["Second"][0]) = popped
    <2>1. CASE j = 0
      <3>1. W["Second"][0] = <<Task>>
        BY <1>0, <1>2, <2>1
      <3>2. Wheel!RunAll(w, W["Second"][0]) = Wheel!RunAfter(w, 0, Check)
        BY <3>1, RunOne DEF Task
      <3>3. Wheel!RunAfter(w, 0, Check)
              = [wheels |-> Wheel!Insert(W, Period, Check), ran |-> Append(<<>>, Check)]
        BY <1>0 DEF Wheel!RunAfter, Check
      <3>4. Wheel!Insert(W, Period, Check)
              = [W EXCEPT !["Second"][Period] = Append(@, [call |-> Check, extra |-> 0])]
        <4>1. Wheel!WheelFor(Period) = "Second"
          BY <1>0, InSeconds
        <4>2. Period \div 1 = Period /\ Period % 1 = 0
          BY <1>0
        <4> HIDE DEF W
        <4> QED BY <1>1, <4>1, <4>2 DEF Wheel!Insert
      <3>5. W["Second"][Period] = <<>>
        BY <1>0, <1>2, <2>1
      <3>6. /\ Append(<<>>, [call |-> Check, extra |-> 0]) = <<Task>>
            /\ Append(<<>>, Check) = <<Check>>
        BY DEF Task
      <3>7. [W EXCEPT !["Second"][Period] = <<Task>>] = popped.wheels
        BY <1>0, <1>1, <2>1 DEF CheckAt
      <3> HIDE DEF W
      <3> QED BY <2>1, <3>2, <3>3, <3>4, <3>5, <3>6, <3>7
    <2>2. CASE j # 0
      <3>1. W["Second"][0] = <<>>
        BY <1>0, <1>2, <2>2
      <3>2. popped = w
        BY <2>2 DEF CheckAt
      <3> QED BY <3>1, <3>2, RunNone
    <2> QED BY <2>1, <2>2
  <1>4. Wheel!PopFront(w, "Second") = [wheels |-> CheckAt(Ticked(j)), ran |-> ran]
    <2> DEFINE turned == [i \in 0 .. last |->
                            IF i < last THEN popped.wheels["Second"][i + 1] ELSE <<>>]
    <2>1. Wheel!PopFront(w, "Second") = [popped EXCEPT !.wheels["Second"] = turned]
      <3> HIDE DEF popped, W, last
      <3> QED BY <1>1, <1>3 DEF Wheel!PopFront
    <2>2. popped.wheels["Second"] =
            [i \in 0 .. last |-> IF i = j \/ i = slot THEN <<Task>> ELSE <<>>]
      BY <1>1
    <2>3. turned = [i \in 0 .. last |-> IF i = Ticked(j) THEN <<Task>> ELSE <<>>]
      <3>1. \A i \in 0 .. last : i < last => i + 1 \in 0 .. last
        BY <1>0
      <3>2. \A i \in 0 .. last :
              turned[i] = IF i < last /\ (i + 1 = j \/ i + 1 = slot) THEN <<Task>> ELSE <<>>
        BY <2>2, <3>1
      <3>3. \A i \in 0 .. last :
              (i < last /\ (i + 1 = j \/ i + 1 = slot)) <=> i = Ticked(j)
        BY <1>0 DEF Ticked
      <3>4. turned = [i \in 0 .. last |-> turned[i]]
        OBVIOUS
      <3> HIDE DEF turned, popped, slot
      <3> QED BY <3>2, <3>3, <3>4
    <2>4. [popped.wheels EXCEPT !["Second"] = turned] = CheckAt(Ticked(j))
      <3> HIDE DEF turned
      <3> QED BY <1>1, <2>3 DEF CheckAt
    <2>5. [popped EXCEPT !.wheels["Second"] = turned]
            = [wheels |-> [popped.wheels EXCEPT !["Second"] = turned], ran |-> ran]
      <3>1. PICK p : p = popped.wheels
        OBVIOUS
      <3>2. popped = [wheels |-> p, ran |-> ran]
        BY <3>1
      <3> HIDE DEF popped, turned, ran
      <3> QED BY <3>1, <3>2
    <2> HIDE DEF popped, turned
    <2> QED BY <2>1, <2>4, <2>5
  <1>5. count % Wheel!Unit("Second") = 0
    BY <1>1
  <1>6. PICK s : s = CheckAt(Ticked(j))
    OBVIOUS
  <1>7. Wheel!Turn(w, "Second", count) = [wheels |-> s, ran |-> ran]
    BY <1>4, <1>5, <1>6 DEF Wheel!Turn
  <1>8. \A type \in {"Minute", "Hour", "Day"} :
          Wheel!Turn([wheels |-> s, ran |-> ran], type, count) = [wheels |-> s, ran |-> ran]
    BY <1>6, TurnEmpty DEF Wheel!WheelTypes
  <1>9. Wheel!Tick(W, count) = [wheels |-> s, ran |-> ran]
    <2> HIDE DEF ran, W
    <2> QED BY <1>7, <1>8 DEF Wheel!Tick
  <1> HIDE DEF W
  <1> QED BY <1>6, <1>9 DEF W

\* Whether the check is asked for shows.
LEMMA AskedShows ==
  ASSUME Period < MINUTE, NEW j \in -1 .. Period
  PROVE  CheckAt(j) = Wheel!EmptyWheels <=> j = -1
  <1>1. CASE j = -1
    BY <1>1 DEF CheckAt, Wheel!EmptyWheels
  <1>2. CASE j # -1
    <2>1. j \in 0 .. Wheel!Slots("Second") - 1 /\ "Second" \in Wheel!WheelTypes
      BY <1>2, Units, PeriodAssumption DEF Wheel!WheelTypes
    <2>2. CheckAt(j)["Second"][j] = <<Task>> /\ Wheel!EmptyWheels["Second"][j] = <<>>
      BY <2>1 DEF CheckAt, Wheel!EmptyWheels
    <2>3. CheckAt(j)["Second"][j] # Wheel!EmptyWheels["Second"][j]
      BY <2>2
    <2> QED BY <1>2, <2>3
  <1> QED BY <1>1, <1>2

\* The creator's RunEvery asks for it.
LEMMA AskedIs ==
  ASSUME Period < MINUTE
  PROVE  Wheel!RunAfter([wheels |-> CheckAt(-1), ran |-> <<>>], Period, Check).wheels
           = CheckAt(Period)
  <1>0. Period > 0 /\ Period \in Nat /\ Period \in 0 .. Wheel!Slots("Second") - 1
        /\ "Second" \in Wheel!WheelTypes
    BY PeriodAssumption, Units DEF Wheel!WheelTypes
  <1> DEFINE W == CheckAt(-1)
  <1>1. Wheel!RunAfter([wheels |-> W, ran |-> <<>>], Period, Check).wheels
          = Wheel!Insert(W, Period, Check)
    <2> HIDE DEF W
    <2> QED BY <1>0 DEF Wheel!RunAfter
  <1>2. Wheel!WheelFor(Period) = "Second" /\ Wheel!Unit("Second") = 1
        /\ Period \div 1 = Period /\ Period % 1 = 0
    BY <1>0, InSeconds DEF Wheel!Unit
  <1>3. Wheel!Insert(W, Period, Check) = [W EXCEPT !["Second"][Period] = Append(@, Task)]
    <2> HIDE DEF W
    <2> QED BY <1>2 DEF Wheel!Insert, Task
  <1>4. W["Second"][Period] = <<>>
    BY <1>0 DEF CheckAt
  <1>5. Append(<<>>, Task) = <<Task>>
    OBVIOUS
  <1>6. [W EXCEPT !["Second"][Period] = <<Task>>] = CheckAt(Period)
    <2>1. W = Wheel!EmptyWheels
      BY AskedShows, PeriodAssumption
    <2> HIDE DEF W
    <2>2. [W EXCEPT !["Second"][Period] = <<Task>>]
            = [W EXCEPT !["Second"] = [W["Second"] EXCEPT ![Period] = <<Task>>]]
      OBVIOUS
    <2>3. [W["Second"] EXCEPT ![Period] = <<Task>>] = CheckAt(Period)["Second"]
      BY <1>0, <2>1 DEF CheckAt, Wheel!EmptyWheels
    <2>4. \A type \in Wheel!WheelTypes \ {"Second"} : W[type] = CheckAt(Period)[type]
      BY <2>1 DEF CheckAt, Wheel!EmptyWheels
    <2>5. [W EXCEPT !["Second"] = CheckAt(Period)["Second"]] = CheckAt(Period)
      BY <2>1, <2>4 DEF CheckAt, Wheel!EmptyWheels
    <2> QED BY <2>2, <2>3, <2>5
  <1>7. Wheel!RunAfter([wheels |-> W, ran |-> <<>>], Period, Check).wheels = CheckAt(Period)
    <2> HIDE DEF W
    <2> QED BY <1>1, <1>3, <1>4, <1>5, <1>6
  <1> QED BY <1>7
----------------------------------------------------------------------------
(* The age of connections.                                                 *)

\* j ticks before the next check: an alive connection has exchanged something
\* since the last one, another one at the latest in the period before; and one
\* that is not alive although a check has seen it is as silent as that.
Timely(j, conn) ==
  IF j = -1 THEN conn.idle = 0 /\ ~conn.checked
  ELSE /\ conn.idle <= (IF conn.alive THEN Period ELSE 2 * Period) - j
       /\ conn.checked /\ ~conn.alive => conn.idle >= Period - 1 - j

\* Where the creator has not asked for the check yet.
Unasked == {"construct", "idle", "get", "listen", "every"}

TimerAt(j) ==
  /\ wheels_ = CheckAt(j)
  /\ main \in Unasked => j = -1
  /\ \A fd \in Open : Timely(j, connections_[fd])

TimerInv == Working => \E j \in -1 .. Period : TimerAt(j)

\* What the handlers other than the timer's make of a connection.
Later(c, d) ==
  /\ d.checked = c.checked
  /\ \/ d.idle = c.idle /\ d.alive = c.alive
     \/ d.idle = 0 /\ d.alive

Mild(conns) ==
  \A fd \in DOMAIN conns :
    \/ conns[fd] = Accepted
    \/ fd \in Open /\ Later(connections_[fd], conns[fd])

\* It keeps or improves the age of a connection, which is 0 when accepted.
LEMMA TimelyLater ==
  ASSUME NEW j \in -1 .. Period, NEW c \in Connection, NEW d \in Connection,
         Timely(j, c), Later(c, d)
  PROVE  Timely(j, d)
  BY PeriodAssumption DEF Timely, Later, Connection

LEMMA TimelyAccepted ==
  ASSUME NEW j \in -1 .. Period
  PROVE  Timely(j, Accepted)
  BY PeriodAssumption DEF Timely, Accepted

LEMMA HeardLater == \A c \in Connection : \A reply : \A d \in Heard(c, reply) : Later(c, d)
  BY DEF Later, Heard, Exchanged, Connection

LEMMA WrittenLater ==
  \A c \in Connection, b \in BOOLEAN : Later(c, [Exchanged(c) EXCEPT !.waiting = b])
  BY DEF Later, Exchanged, Connection

LEMMA SentLater == \A c \in Connection : \A ret : Later(c, Sent(c, ret))
  BY DEF Later, Sent, Exchanged, Connection

LEMMA SameLater == \A c \in Connection : Later(c, c)
  BY DEF Later

\* A step that leaves the wheels alone keeps the invariant, if it is mild.
LEMMA MildStep ==
  ASSUME TimerInv, IInv, IInv', UNCHANGED wheels_, Working' => Working,
         main' \in Unasked => main \in Unasked,
         \/ Mild(connections_')
         \/ UNCHANGED connections_
  PROVE  TimerInv'
  <1> SUFFICES ASSUME Working' PROVE \E j \in -1 .. Period : TimerAt(j)'
    BY DEF TimerInv
  <1>1. PICK j \in -1 .. Period : TimerAt(j)
    BY DEF TimerInv
  <1>2. connections_ \in [Open -> Connection] /\ connections_' \in [Open' -> Connection]
    BY DEF IInv, Conns
  <1>3. ASSUME NEW fd \in Open' PROVE Timely(j, connections_'[fd])
    <2>1. connections_'[fd] \in Connection
      BY <1>2
    <2>2. CASE UNCHANGED connections_
      BY <1>1, <2>2 DEF TimerAt, Open
    <2>3. CASE Mild(connections_')
      <3>1. CASE connections_'[fd] = Accepted
        BY <3>1, TimelyAccepted
      <3>2. CASE fd \in Open /\ Later(connections_[fd], connections_'[fd])
        BY <1>1, <1>2, <2>1, <3>2, TimelyLater DEF TimerAt
      <3> QED BY <2>3, <3>1, <3>2 DEF Mild, Open
    <2> QED BY <2>2, <2>3
  <1>4. wheels_' = CheckAt(j) /\ (main' \in Unasked => j = -1)
    BY <1>1 DEF TimerAt
  <1>5. TimerAt(j)'
    BY <1>3, <1>4 DEF TimerAt
  <1> QED BY <1>5

\* Closing is mild.
LEMMA WithoutMild ==
  ASSUME IInv, NEW conns \in [Open -> Connection], NEW fds,
         \A fd \in Open : Later(connections_[fd], conns[fd])
  PROVE  Mild(Without(conns, fds))
  BY DEF Mild, Without

\* The events of a round.
LEMMA EventTimer ==
  ASSUME TimerInv, IInv, IInv', Event
  PROVE  TimerInv'
  <1>0. /\ Working /\ UNCHANGED main /\ UNCHANGED wheels_
        /\ connections_ \in [Open -> Connection]
    <2>1. running /\ pc = "events"
      BY DEF Event, OnAccept, OnAcceptorError, OnEnd, OnRead, OnWrite, InBatch
    <2>2. UNCHANGED main /\ UNCHANGED wheels_
      BY DEF Event, OnAccept, OnAcceptorError, OnEnd, OnRead, OnWrite, vars, creatorVars, timerVars
    <2> QED BY <2>1, <2>2 DEF Working, IInv, Conns
  <1>1. CASE OnAccept
    <2>1. PICK fds \in SUBSET (Fds \ Open) :
            connections_' = [fd \in Open \cup fds |->
                               IF fd \in Open THEN connections_[fd] ELSE Accepted]
      BY <1>1 DEF OnAccept
    <2>2. Mild(connections_')
      BY <1>0, <2>1, SameLater DEF Mild
    <2> QED BY <1>0, <2>2, MildStep
  <1>2. CASE OnAcceptorError
    <2>1. UNCHANGED connections_
      BY <1>2 DEF OnAcceptorError
    <2> QED BY <1>0, <2>1, MildStep
  <1>3. ASSUME NEW fd \in Open, OnEnd(fd) PROVE TimerInv'
    <2>1. connections_' = Without(connections_, {fd})
      BY <1>3 DEF OnEnd, OnClose
    <2>2. Mild(connections_')
      BY <1>0, <2>1, SameLater, WithoutMild
    <2> QED BY <1>0, <2>2, MildStep
  <1>4. ASSUME NEW fd \in Open, OnRead(fd) PROVE TimerInv'
    <2>1. CASE connections_' = Without(connections_, {fd})
      <3>1. Mild(connections_')
        BY <1>0, <2>1, SameLater, WithoutMild
      <3> QED BY <1>0, <3>1, MildStep
    <2>2. CASE \E reply \in BOOLEAN : \E conn \in Heard(connections_[fd], reply) :
                 connections_' = [connections_ EXCEPT ![fd] = conn]
      <3>1. PICK reply, conn : /\ conn \in Heard(connections_[fd], reply)
                               /\ connections_' = [connections_ EXCEPT ![fd] = conn]
        BY <2>2
      <3>2. Later(connections_[fd], conn)
        BY <1>0, <3>1, HeardLater
      <3>3. Mild(connections_')
        BY <1>0, <3>1, <3>2, SameLater DEF Mild
      <3> QED BY <1>0, <3>3, MildStep
    <2> QED BY <1>4, <2>1, <2>2 DEF OnRead, OnClose
  <1>5. ASSUME NEW fd \in Open, OnWrite(fd) PROVE TimerInv'
    <2>1. CASE OnClose({fd}, connections_, tasks_)
      <3>1. connections_' = Without(connections_, {fd})
        BY <2>1 DEF OnClose
      <3>2. Mild(connections_')
        BY <1>0, <3>1, SameLater, WithoutMild
      <3> QED BY <1>0, <3>2, MildStep
    <2>2. CASE \E ret \in {"all", "part"} :
                 connections_' = [connections_ EXCEPT
                                    ![fd] = [Exchanged(@) EXCEPT !.waiting = (ret = "part")]]
      <3>1. PICK b \in BOOLEAN :
              connections_' = [connections_ EXCEPT
                                 ![fd] = [Exchanged(@) EXCEPT !.waiting = b]]
        BY <2>2
      <3>2. Mild(connections_')
        BY <1>0, <3>1, SameLater, WrittenLater DEF Mild
      <3> QED BY <1>0, <3>2, MildStep
    <2> QED BY <1>5, <2>1, <2>2 DEF OnWrite
  <1> QED BY <1>1, <1>2, <1>3, <1>4, <1>5 DEF Event

\* The tasks of a round.
LEMMA TaskTimer ==
  ASSUME TimerInv, IInv, IInv', ProcessTask
  PROVE  TimerInv'
  <1>1. /\ Working /\ UNCHANGED main /\ UNCHANGED wheels_
        /\ connections_ \in [Open -> Connection]
    BY DEF ProcessTask, ThreadGoes, inRound, creatorVars, timerVars, Working, IInv, Conns
  <1>2. PICK ret, failed :
          connections_' = [fd \in Open \ failed |->
            IF fd \in DOMAIN ret THEN Sent(connections_[fd], ret[fd]) ELSE connections_[fd]]
    BY DEF ProcessTask
  <1>3. Mild(connections_')
    BY <1>1, <1>2, SentLater, SameLater DEF Mild
  <1> QED BY <1>1, <1>3, MildStep

\* What touches neither connections nor wheels.
LEMMA OtherTimer ==
  ASSUME TimerInv, IInv, IInv', UNCHANGED connections_, UNCHANGED wheels_,
         \/ CreatorNext
         \/ OnStartEarly \/ OnStart \/ OnStartLoop \/ OnStartSetValue \/ OnWork \/ WhileLooping
         \/ EpollWait \/ EventsDone \/ OnTimingEarly
         \/ \E fd \in Fds : Active(fd)
         \/ UNCHANGED vars
  PROVE  TimerInv'
  <1>1. Working' => Working
    <2>1. CASE CreatorNext
      BY <2>1 DEF CreatorNext, Construct, Run, RunGot, StartListenTask, StartRunEvery, Stop,
         Destroy, DestroyStop, DestroyJoin, DestroyMembers, CreatorGoes, threadVars, Working
    <2>2. CASE OnStartEarly \/ OnStart \/ OnStartLoop \/ OnStartSetValue \/ OnWork \/ WhileLooping
               \/ EpollWait \/ EventsDone \/ OnTimingEarly
      BY <2>2 DEF OnStartEarly, OnStart, OnStartLoop, OnStartSetValue, OnWork, WhileLooping,
         EpollWait, EventsDone, OnTimingEarly, ThreadGoes, Working
    <2>3. CASE (\E fd \in Fds : Active(fd)) \/ UNCHANGED vars
      BY <2>3 DEF Active, vars, threadVars, Working
    <2> QED BY <2>1, <2>2, <2>3
  <1>2. main' \in Unasked => main \in Unasked
    <2>1. CASE CreatorNext
      BY <2>1 DEF CreatorNext, Construct, Run, RunGot, StartListenTask, StartRunEvery, Stop,
         Destroy, DestroyStop, DestroyJoin, DestroyMembers, CreatorGoes, creatorVars, Unasked
    <2>2. CASE OnStartEarly \/ OnStart \/ OnStartLoop \/ OnStartSetValue \/ OnWork \/ WhileLooping
               \/ EpollWait \/ EventsDone \/ OnTimingEarly
      BY <2>2 DEF OnStartEarly, OnStart, OnStartLoop, OnStartSetValue, OnWork, WhileLooping,
         EpollWait, EventsDone, OnTimingEarly, inRound, creatorVars
    <2>3. CASE (\E fd \in Fds : Active(fd)) \/ UNCHANGED vars
      BY <2>3 DEF Active, vars, creatorVars
    <2> QED BY <2>1, <2>2, <2>3
  <1> QED BY <1>1, <1>2, MildStep

\* The check is asked for while no connection has an age yet.
LEMMA AddCheckTimer ==
  ASSUME Period < MINUTE, TimerInv, IInv, IInv', AddCheck
  PROVE  TimerInv'
  <1>1. /\ main = "every" /\ main' \notin Unasked /\ running /\ pc' = pc
        /\ wheels_' = Wheel!RunAfter([wheels |-> wheels_, ran |-> <<>>], Period, Check).wheels
        /\ UNCHANGED connections_
    BY DEF AddCheck, StartRunEvery, CreatorGoes, threadVars, Unasked
  <1> SUFFICES ASSUME Working' PROVE \E j \in -1 .. Period : TimerAt(j)'
    BY DEF TimerInv
  <1>2. PICK j \in -1 .. Period : TimerAt(j)
    BY <1>1 DEF TimerInv, Working
  <1>3. j = -1 /\ wheels_ = CheckAt(-1)
    BY <1>1, <1>2 DEF TimerAt, Unasked
  <1>4. wheels_' = CheckAt(Period)
    BY <1>1, <1>3, AskedIs
  <1>5. ASSUME NEW fd \in Open PROVE Timely(Period, connections_[fd])
    BY <1>2, <1>3, PeriodAssumption DEF TimerAt, Timely
  <1>6. TimerAt(Period)'
    BY <1>1, <1>4, <1>5 DEF TimerAt, Open
  <1> QED BY <1>6, PeriodAssumption

\* A tick: all get older, and a check removes who was silent since the last one.
LEMMA OnTimingTimer ==
  ASSUME Period < MINUTE, TimerInv, IInv, IInv', OnTiming
  PROVE  TimerInv' /\ (\A fd \in Open \ Open' :
                         connections_[fd].checked => connections_[fd].idle + 1 >= Period)
  <1> DEFINE count == (counts_ + 1) % DAY
             older == IF wheels_ = Wheel!EmptyWheels THEN connections_
                      ELSE [fd \in Open |-> [connections_[fd] EXCEPT !.idle = @ + 1]]
  <1>w. PICK w \in {Wheel!Tick(wheels_, count)} :
          /\ wheels_' = w.wheels
          /\ IF w.ran # <<>> THEN CheckConnectionStatus(older) ELSE connections_' = older
    BY DEF OnTiming
  <1>1. /\ Working /\ pc' = "test" /\ UNCHANGED main
        /\ wheels_' = w.wheels
        /\ IF w.ran # <<>> THEN CheckConnectionStatus(older) ELSE connections_' = older
    BY <1>w DEF OnTiming, ThreadGoes, Working, inRound, creatorVars
  <1>2. PICK j \in -1 .. Period : TimerAt(j)
    BY <1>1 DEF TimerInv
  <1>3. count \in Nat
    BY Units DEF IInv, Counts
  <1>4. w.wheels = CheckAt(Ticked(j)) /\ w.ran = IF j = 0 THEN <<Check>> ELSE <<>>
    BY <1>2, <1>3, TickIs DEF TimerAt
  <1>5. wheels_ = Wheel!EmptyWheels <=> j = -1
    BY <1>2, AskedShows DEF TimerAt
  <1>6. connections_ \in [Open -> Connection]
    BY DEF IInv, Conns
  <1> DEFINE aged == [fd \in Open |-> [connections_[fd] EXCEPT !.idle = @ + 1]]
  <1>7. aged \in [Open -> Connection]
    BY <1>6 DEF Connection
  <1>8. /\ wheels_' = CheckAt(Ticked(j))
        /\ j = -1 => connections_' = connections_
        /\ j > 0 => connections_' = aged
        /\ j = 0 => connections_' = Reset(aged)
    <2>1. <<Check>> # <<>>
      OBVIOUS
    <2> QED BY <1>1, <1>4, <1>5, <2>1 DEF CheckConnectionStatus
  <1>9. \A fd \in Open : Timely(j, connections_[fd]) /\ connections_[fd] \in Connection
    BY <1>2, <1>6 DEF TimerAt
  <1>10. \A fd \in Open : /\ aged[fd].idle = connections_[fd].idle + 1
                         /\ aged[fd].alive = connections_[fd].alive
                         /\ aged[fd].checked = connections_[fd].checked
    BY <1>9 DEF Connection
  <1> HIDE DEF aged
  <1>11. \A fd \in Open' : fd \in Open /\ Timely(Ticked(j), connections_'[fd])
    <2>1. CASE j = -1
      BY <1>8, <1>9, <2>1 DEF Open, Ticked
    <2>2. CASE j > 0
      BY <1>7, <1>8, <1>9, <1>10, <2>2, PeriodAssumption DEF Open, Ticked, Timely, Connection
    <2>3. CASE j = 0
      <3>1. ASSUME NEW fd \in Open'
            PROVE  /\ fd \in Open /\ aged[fd].alive
                   /\ connections_'[fd] = [aged[fd] EXCEPT !.alive = FALSE, !.checked = TRUE]
        BY <1>7, <1>8, <2>3 DEF Reset, Silent, Open
      <3>2. ASSUME NEW fd \in Open' PROVE Timely(Ticked(j), connections_'[fd])
        <4>1. /\ connections_'[fd].alive = FALSE
              /\ connections_'[fd].idle = connections_[fd].idle + 1
          BY <1>7, <1>10, <3>1 DEF Connection
        <4>2. connections_[fd].idle \in Nat /\ connections_[fd].idle <= Period
          <5>1. PICK c \in Connection : c = connections_[fd] /\ c.alive /\ Timely(0, c)
            BY <1>9, <1>10, <2>3, <3>1
          <5>2. c.idle \in Nat /\ c.idle <= Period
            BY <5>1, PeriodAssumption DEF Timely, Connection
          <5> QED BY <5>1, <5>2
        <4> QED BY <2>3, <4>1, <4>2, PeriodAssumption DEF Timely, Ticked
      <3> QED BY <3>1, <3>2
    <2> QED BY <2>1, <2>2, <2>3
  <1>12. TimerInv'
    <2>1. Ticked(j) \in -1 .. Period /\ (j = -1 => Ticked(j) = -1)
      BY PeriodAssumption DEF Ticked
    <2>2. main' \in Unasked => Ticked(j) = -1
      BY <1>1, <1>2, <2>1 DEF TimerAt
    <2>3. PICK k \in -1 .. Period : k = Ticked(j)
      BY <2>1
    <2>4. TimerAt(k)'
      BY <1>8, <1>11, <2>2, <2>3 DEF TimerAt
    <2> QED BY <2>4 DEF TimerInv
  <1>13. ASSUME NEW fd \in Open \ Open', connections_[fd].checked
         PROVE  connections_[fd].idle + 1 >= Period
    <2>1. CASE j = 0
      <3>1. ~connections_[fd].alive
        <4>1. fd \notin Open \ Silent(aged)
          BY <1>7, <1>8, <1>13, <2>1 DEF Reset, Open
        <4> QED BY <1>7, <1>10, <1>13, <4>1 DEF Silent
      <3> QED BY <1>9, <1>13, <2>1, <3>1, PeriodAssumption DEF Timely, Connection
    <2>2. CASE j # 0
      BY <1>7, <1>8, <1>13, <2>2 DEF Open
    <2> QED BY <2>1, <2>2
  <1> QED BY <1>12, <1>13

\* Every step.
LEMMA NextTimer ==
  ASSUME Period < MINUTE
  PROVE  IInv /\ IInv' /\ TimerInv /\ [Next]_allVars => TimerInv'
  <1> SUFFICES ASSUME IInv, IInv', TimerInv, [Next]_allVars PROVE TimerInv'
    OBVIOUS
  <1>1. CASE AddCheck
    BY <1>1, AddCheckTimer
  <1>2. CASE AddListenTask
    <2>1. CreatorNext /\ UNCHANGED connections_ /\ UNCHANGED wheels_
      BY <1>2 DEF AddListenTask, CreatorNext, timerVars
    <2> QED BY <2>1, OtherTimer
  <1>3. CASE OutOfLoop /\ (Construct \/ Run \/ RunGot \/ Stop \/ Destroy \/ DestroyStop
                            \/ DestroyJoin \/ DestroyMembers)
    <2>1. CreatorNext /\ UNCHANGED connections_ /\ UNCHANGED wheels_
      BY <1>3 DEF OutOfLoop, CreatorNext, timerVars
    <2> QED BY <2>1, OtherTimer
  <1>4. CASE OutOfLoop /\ (OnStartEarly \/ OnStart \/ OnStartLoop \/ OnStartSetValue
                            \/ OnWork \/ WhileLooping)
    <2>1. UNCHANGED connections_ /\ UNCHANGED wheels_
      BY <1>4 DEF OutOfLoop, timerVars
    <2> QED BY <1>4, <2>1, OtherTimer
  <1>5. CASE EpollWait \/ EventsDone \/ OnTimingEarly \/ \E fd \in Fds : Active(fd)
    <2>1. UNCHANGED connections_ /\ UNCHANGED wheels_
      BY <1>5 DEF EpollWait, EventsDone, OnTimingEarly, Active, timerVars
    <2> QED BY <1>5, <2>1, OtherTimer
  <1>6. CASE Event
    BY <1>6, EventTimer
  <1>7. CASE ProcessTask
    BY <1>7, TaskTimer
  <1>8. CASE OnTiming
    BY <1>8, OnTimingTimer
  <1>9. CASE LoopEnds
    <2>1. ~Working'
      BY <1>9 DEF LoopEnds, OnStartEnd, ThreadGoes, Working
    <2> QED BY <2>1 DEF TimerInv
  <1>10. CASE UNCHANGED allVars
    <2>1. UNCHANGED vars /\ UNCHANGED connections_ /\ UNCHANGED wheels_
      BY <1>10 DEF allVars, timerVars
    <2> QED BY <2>1, OtherTimer
  <1> QED BY <1>1, <1>2, <1>3, <1>4, <1>5, <1>6, <1>7, <1>8, <1>9, <1>10 DEF Next, Creator, Thread

LEMMA InitTimer == ServerInit => TimerInv
  <1> SUFFICES ASSUME ServerInit PROVE TimerAt(-1)
    BY PeriodAssumption DEF TimerInv
  <1>1. wheels_ = CheckAt(-1)
    <2>1. wheels_ = Wheel!EmptyWheels
      BY DEF ServerInit
    <2> QED BY <2>1 DEF CheckAt, Wheel!EmptyWheels
  <1>2. Open = {}
    BY DEF ServerInit, Open
  <1> QED BY <1>1, <1>2 DEF TimerAt

\* A connection is closed at the latest two periods after its last byte, if the
\* period fits into the seconds wheel, as the 30 seconds of
\* SsmsTcpServer.cpp:70 do.
THEOREM IdleGone ==
  ASSUME Period < MINUTE
  PROVE  Spec => []IdleBound
  <1>1. IInv /\ TimerInv => IdleBound
    <2> SUFFICES ASSUME IInv, TimerInv, Working, NEW fd \in Open
                 PROVE  connections_[fd].idle <= 2 * Period
      BY DEF IdleBound
    <2>1. PICK j \in -1 .. Period : Timely(j, connections_[fd])
      BY DEF TimerInv, TimerAt
    <2>2. connections_[fd] \in Connection
      BY DEF IInv, Conns
    <2> QED BY <2>1, <2>2, PeriodAssumption DEF Timely, Connection
  <1> QED BY <1>1, Invariant, InitTimer, NextTimer, PTL DEF Spec

\* ... and never by a check within the period after its last byte.
THEOREM ActiveNotClosed ==
  ASSUME Period < MINUTE
  PROVE  Spec => ActiveKept
  <1>1. IInv /\ IInv' /\ TimerInv /\ [Next]_allVars =>
          [\A fd \in Open \ DOMAIN connections_' :
             pc = "timing" /\ connections_[fd].checked =>
               connections_[fd].idle + 1 >= Period]_allVars
    <2> SUFFICES ASSUME IInv, IInv', TimerInv, Next, pc = "timing",
                        NEW fd \in Open \ DOMAIN connections_', connections_[fd].checked
                 PROVE  connections_[fd].idle + 1 >= Period
      OBVIOUS
    <2>1. CASE OnTiming
      BY <2>1, OnTimingTimer DEF Open
    <2>2. CASE ~OnTiming
      <3>1. UNCHANGED connections_
        BY <2>2 DEF Next, Creator, Thread, Event, OutOfLoop, AddListenTask, AddCheck,
           EpollWait, OnAccept, OnAcceptorError, OnEnd, OnRead, OnWrite, InBatch, EventsDone,
           ProcessTask, OnTimingEarly, LoopEnds, OnStartEnd, ThreadGoes, Active
      <3> QED BY <3>1 DEF Open
    <2> QED BY <2>1, <2>2
  <1> QED BY <1>1, Invariant, InitTimer, NextTimer, PTL DEF Spec, ActiveKept

=============================================================================
