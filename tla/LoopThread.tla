----------------------------- MODULE LoopThread -----------------------------
(***************************************************************************)
(* The life of one SsmsEventLoopThread                                     *)
(* (src/Network/SsmsEventLoopThread.cpp) as two actors: the creator, which *)
(* constructs the object, calls Run and perhaps Stop, and destroys it, and *)
(* the loop's thread, which starts during the construction, waits for Run, *)
(* works in OnWork, and ends when looping_ is FALSE.                       *)
(*                                                                         *)
(* The variables of the loop itself are Server's.                          *)
(***************************************************************************)
EXTENDS Naturals

VARIABLES
  main,         \* where the creator is
  pc,           \* where the loop's thread is
  in_dtor,      \* the creator is in ~SsmsEventLoopThread
  addr_,        \* Run was given an address (the destructor's own Run gives none)
  is_looping_,  \* what the thread waits for under lock_
  promise_,     \* the promise Run waits for has its value
  looping_,     \* SsmsEventLoop::looping_
  running       \* FALSE: the process has crashed or called exit

creatorVars == <<main, in_dtor, addr_>>
threadVars  == <<pc, is_looping_, promise_, looping_>>
vars        == <<creatorVars, threadVars, running>>

\* construct: thread_ runs, the members after it are not initialised yet.
\* get: Run waits for the promise.  listen, every: TcpServer::Start.
\* up: Run has returned.  stop, join, members: the destructor.
Places == {"construct", "idle", "get", "listen", "every", "up", "stop", "join", "members"}

\* start, wait, found, work: OnStart up to OnWork.  test, poll, events, tasks,
\* timing: a round of OnWork.  end: OnWork has returned.
Rounds == {"test", "poll", "events", "tasks", "timing"}
Stages == {"start", "wait", "stuck", "found", "work", "end", "ended"} \cup Rounds

Init ==
  /\ main = "construct" /\ pc = "start"
  /\ in_dtor = FALSE /\ addr_ = FALSE
  /\ is_looping_ = FALSE /\ promise_ = FALSE /\ looping_ = FALSE
  /\ running = TRUE

CreatorGoes(from, to) == running /\ main = from /\ main' = to

ThreadGoes(from, to) == running /\ pc = from /\ pc' = to

----------------------------------------------------------------------------
(* The creator.                                                            *)

Construct ==
  /\ CreatorGoes("construct", "idle")
  /\ UNCHANGED <<in_dtor, addr_, threadVars, running>>

\* Run by the owner, or by the destructor of an object nobody called Run on.
Run ==
  /\ CreatorGoes("idle", "get")
  /\ in_dtor' \in BOOLEAN /\ addr_' = ~in_dtor'
  /\ is_looping_' = TRUE
  /\ UNCHANGED <<pc, promise_, looping_, running>>

RunGot ==
  /\ promise_
  /\ CreatorGoes("get", "listen")
  /\ UNCHANGED <<in_dtor, addr_, threadVars, running>>

\* TcpServer::Start: the task that listens, then the timed check.
StartListenTask ==
  /\ CreatorGoes("listen", "every")
  /\ UNCHANGED <<in_dtor, addr_, threadVars, running>>

\* The creator writes the loop's wheels: undefined while the loop reads them.
StartRunEvery ==
  /\ CreatorGoes("every", IF in_dtor THEN "stop" ELSE "up")
  /\ running' \in IF pc = "timing" THEN BOOLEAN ELSE {TRUE}
  /\ UNCHANGED <<in_dtor, addr_, threadVars>>

\* SsmsEventLoopThread::Stop
Stop ==
  /\ running /\ main = "up"
  /\ looping_' = FALSE
  /\ UNCHANGED <<creatorVars, pc, is_looping_, promise_, running>>

\* The destructor after Run: once_ makes its own Run do nothing, so Stop is next.
Destroy ==
  /\ CreatorGoes("up", "join")
  /\ in_dtor' = TRUE /\ looping_' = FALSE
  /\ UNCHANGED <<addr_, pc, is_looping_, promise_, running>>

\* The destructor that has called Run itself.
DestroyStop ==
  /\ CreatorGoes("stop", "join")
  /\ looping_' = FALSE
  /\ UNCHANGED <<in_dtor, addr_, pc, is_looping_, promise_, running>>

DestroyJoin ==
  /\ pc = "ended"
  /\ CreatorGoes("join", "members")
  /\ UNCHANGED <<in_dtor, addr_, threadVars, running>>

\* tcp_server_ goes, and with it the acceptor, whose destructor calls
\* DeleteEvent: from another thread than the loop's that is exit(-1).
DestroyMembers ==
  /\ running /\ main = "members"
  /\ running' = FALSE
  /\ UNCHANGED <<creatorVars, threadVars>>

CreatorNext ==
  \/ Construct \/ Run \/ RunGot \/ StartListenTask \/ StartRunEvery
  \/ Stop \/ Destroy \/ DestroyStop \/ DestroyJoin \/ DestroyMembers

----------------------------------------------------------------------------
(* The loop's thread.                                                      *)

\* OnStart reaches lock_ and condition_ before the constructor has initialised
\* them: it may get through, wait for a notification that is lost, or crash.
OnStartEarly ==
  /\ main = "construct"
  /\ \/ ThreadGoes("start", "wait") /\ running' = TRUE
     \/ ThreadGoes("start", "stuck") /\ running' = TRUE
     \/ ThreadGoes("start", "start") /\ running' = FALSE
  /\ UNCHANGED <<creatorVars, is_looping_, promise_, looping_>>

OnStart ==
  /\ main # "construct"
  /\ ThreadGoes("start", "wait")
  /\ UNCHANGED <<creatorVars, is_looping_, promise_, looping_, running>>

\* The wait is over; loop_ is the address of the new loop.
OnStartLoop ==
  /\ is_looping_
  /\ ThreadGoes("wait", "found")
  /\ UNCHANGED <<creatorVars, is_looping_, promise_, looping_, running>>

OnStartSetValue ==
  /\ ThreadGoes("found", "work")
  /\ promise_' = TRUE
  /\ UNCHANGED <<creatorVars, is_looping_, looping_, running>>

\* OnWork begins, whatever Stop has written before.
OnWork ==
  /\ ThreadGoes("work", "test")
  /\ looping_' = TRUE
  /\ UNCHANGED <<creatorVars, is_looping_, promise_, running>>

WhileLooping ==
  /\ ThreadGoes("test", IF looping_ THEN "poll" ELSE "end")
  /\ UNCHANGED <<creatorVars, is_looping_, promise_, looping_, running>>

\* OnStart ends and destroys the loop: the tasks left in the wheels run their
\* calls while the wheels go, and RunEvery writes into them once more.
OnStartEnd ==
  /\ ThreadGoes("end", "ended")
  /\ is_looping_' = FALSE /\ looping_' = FALSE
  /\ running' \in BOOLEAN
  /\ UNCHANGED <<creatorVars, promise_>>

ThreadNext ==
  \/ OnStartEarly \/ OnStart \/ OnStartLoop \/ OnStartSetValue \/ OnWork
  \/ WhileLooping \/ OnStartEnd

TypeOK ==
  /\ main \in Places /\ pc \in Stages
  /\ in_dtor \in BOOLEAN /\ addr_ \in BOOLEAN
  /\ is_looping_ \in BOOLEAN /\ promise_ \in BOOLEAN /\ looping_ \in BOOLEAN
  /\ running \in BOOLEAN

=============================================================================
