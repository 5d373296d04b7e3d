---------------------------- MODULE LiveDirectory ----------------------------
(***************************************************************************)
(* Who finds whom: the session directory of SsmsLiveManagment, and what    *)
(* the rtmp commands of SsmsRtmpMessageContext and the close of a          *)
(* connection do to it.                                                    *)
(*                                                                         *)
(* Connections live on different loops.  Each call into SsmsLiveManagment  *)
(* or SsmsSession is one step, under its lock; a handler that makes        *)
(* several calls is cut between them.                                      *)
(*                                                                         *)
(* There are two names at work: app_ and stream_ of the connection's       *)
(* context, which commands change, and the copies its client took of them  *)
(* when it was made.                                                       *)
(***************************************************************************)
EXTENDS Integers

CONSTANTS
  Publishers,   \* connections that send a publisher's commands
  Viewers,      \* connections that send a player's commands, perhaps the same
  Apps,         \* values of app_
  Streams,      \* values of stream_
  Empty,        \* the empty string
  NoConn,       \* no connection
  MaxClients,   \* bound: SsmsClient objects per connection
  MaxSessions   \* bound: sessions ever created

ASSUME LiveDirectoryAssumption ==
  /\ Empty \in Apps /\ Empty \in Streams
  /\ NoConn \notin Publishers
  /\ MaxClients \in Nat /\ MaxSessions \in Nat

Conns     == Publishers \cup Viewers
Names     == Apps \X Streams   \* app + "/" + stream, the key of a session
Sessions  == 1 .. MaxSessions
NoSession == 0                 \* a null SsmsSessionPtr
Consumers == Viewers \X (1 .. MaxClients)

\* A client: how many-th of its connection it is, which of the two classes it
\* has, and its app_name_ and stream_name_.
Client   == [no : 0 .. MaxClients, kind : {"none", "publish", "play"}, name : Names]
NoClient == [no |-> 0, kind |-> "none", name |-> <<Empty, Empty>>]

VARIABLES
  sessions_,   \* SsmsLiveManagment: name -> session
  created,     \* sessions created so far
  creator,     \* auxiliary: session -> the connection whose publish created it
  named,       \* auxiliary: session -> the name it was created under
  producer_,   \* SsmsSession: session -> publisher
  consumers_,  \* SsmsSession: session -> players, as <<connection, client's no>>
  app_,        \* SsmsContext: connection -> what its last connect said
  stream_,     \* SsmsContext: connection -> the first stream name it sent
  client_,     \* SsmsContext: connection -> its client
  sess_,       \* SsmsClient: connection -> the session of its client
  pc,          \* connection -> what its thread does next with it
  running      \* FALSE once a null pointer has been dereferenced

directoryVars == <<sessions_, created, creator, named>>
sessionVars   == <<producer_, consumers_>>
nameVars      == <<app_, stream_>>
vars == <<directoryVars, sessionVars, nameVars, client_, sess_, pc, running>>

Init ==
  /\ sessions_ = [n \in Names |-> NoSession]
  /\ created = 0
  /\ creator = [s \in Sessions |-> NoConn]
  /\ named = [s \in Sessions |-> <<Empty, Empty>>]
  /\ producer_ = [s \in Sessions |-> NoConn]
  /\ consumers_ = [s \in Sessions |-> {}]
  /\ app_ = [c \in Conns |-> Empty]
  /\ stream_ = [c \in Conns |-> Empty]
  /\ client_ = [c \in Conns |-> NoClient]
  /\ sess_ = [c \in Conns |-> NoSession]
  /\ pc = [c \in Conns |-> "events"]
  /\ running = TRUE

-----------------------------------------------------------------------------
(* Parts of the handlers *)

\* The thread of c, which was at `here', goes on at `there'.
Goto(c, here, there) ==
  /\ running
  /\ pc[c] = here
  /\ pc' = [pc EXCEPT ![c] = there]

\* ParseAmfData: the first stream name that is not empty stays.
SetStream(c, stream) ==
  stream_' = [stream_ EXCEPT ![c] = IF @ = Empty THEN stream ELSE @]

\* The client takes the names the context has now.
NewClient(c, kind) ==
  /\ client_[c].no < MaxClients
  /\ client_' = [client_ EXCEPT
       ![c] = [no |-> @.no + 1, kind |-> kind, name |-> <<app_[c], stream_'[c]>>]]

\* A client that is there is used, of whichever class it is.
EnsureClient(c, kind) ==
  IF client_[c].no = 0 THEN NewClient(c, kind) ELSE UNCHANGED client_

\* SsmsLiveManagment::DeleteSession.
DeleteSession(name) == sessions_' = [sessions_ EXCEPT ![name] = NoSession]

\* Mutant: a session is made also for a name that has one.
MutCreateSession(c, name) ==
  /\ created < MaxSessions
  /\ created' = created + 1
  /\ sessions_' = [sessions_ EXCEPT ![name] = created + 1]
  /\ creator' = [creator EXCEPT ![created + 1] = c]
  /\ named' = [named EXCEPT ![created + 1] = name]
  /\ sess_' = [sess_ EXCEPT ![c] = created + 1]

\* SsmsLiveManagment::CreateSession, whose result becomes sess_ of c's client.
CreateSession(c, name) ==
  IF sessions_[name] # NoSession
  THEN /\ sess_' = [sess_ EXCEPT ![c] = sessions_[name]]
       /\ UNCHANGED directoryVars
  ELSE /\ created < MaxSessions
       /\ created' = created + 1
       /\ sessions_' = [sessions_ EXCEPT ![name] = created + 1]
       /\ creator' = [creator EXCEPT ![created + 1] = c]
       /\ named' = [named EXCEPT ![created + 1] = name]
       /\ sess_' = [sess_ EXCEPT ![c] = created + 1]

-----------------------------------------------------------------------------
(* Commands of a publisher *)

\* connect, which a connection may send again, without an app too.
Connect(c, app) ==
  /\ Goto(c, "events", "events")
  /\ app_' = [app_ EXCEPT ![c] = app]
  /\ UNCHANGED <<directoryVars, sessionVars, stream_, client_, sess_, running>>

\* releaseStream: a new client, and its name is free.
ReleaseStream(c, stream) ==
  /\ Goto(c, "events", "events")
  /\ SetStream(c, stream)
  /\ NewClient(c, "publish")
  /\ sess_' = [sess_ EXCEPT ![c] = NoSession]
  /\ DeleteSession(client_'[c].name)
  /\ UNCHANGED <<created, creator, named, sessionVars, app_, running>>

\* FCPublish; a player's client refuses it, and the connection is closed.
FCPublish(c, stream) ==
  /\ SetStream(c, stream)
  /\ EnsureClient(c, "publish")
  /\ Goto(c, "events", IF client_'[c].kind = "publish" THEN "events" ELSE "close")
  /\ UNCHANGED <<directoryVars, sessionVars, app_, sess_, running>>

\* publish: PublishResponse finds or creates the session of the client's name ...
Publish(c, stream) ==
  /\ SetStream(c, stream)
  /\ EnsureClient(c, "publish")
  /\ \/ /\ client_'[c].kind = "publish"
        /\ Goto(c, "events", "producer")
        /\ CreateSession(c, client_'[c].name)
     \/ /\ client_'[c].kind = "play"
        /\ Goto(c, "events", "close")
        /\ UNCHANGED <<directoryVars, sess_>>
  /\ UNCHANGED <<sessionVars, app_, running>>

\* ... and makes its client the producer.
SetProducer(c) ==
  /\ Goto(c, "producer", "events")
  /\ producer_' = [producer_ EXCEPT ![sess_[c]] = c]
  /\ UNCHANGED <<directoryVars, consumers_, nameVars, client_, sess_, running>>

\* FCUnpublish ends the stream, and OnRead closes the connection; it is sent to
\* a client that need not be there.
FCUnpublish(c) ==
  /\ Goto(c, "events", "close")
  /\ running' = (client_[c].no # 0)
  /\ UNCHANGED <<directoryVars, sessionVars, nameVars, client_, sess_>>

-----------------------------------------------------------------------------
(* Commands of a player *)

\* getStreamLength: a new client, whatever the connection had before.
GetStreamLength(c, stream) ==
  /\ Goto(c, "events", "events")
  /\ SetStream(c, stream)
  /\ NewClient(c, "play")
  /\ sess_' = [sess_ EXCEPT ![c] = NoSession]
  /\ UNCHANGED <<directoryVars, sessionVars, app_, running>>

\* play: PlayResponse asks whether the stream of the client's name exists; if it
\* does not, or a publisher's client is there, the connection is closed; ...
Play(c, stream) ==
  /\ SetStream(c, stream)
  /\ EnsureClient(c, "play")
  /\ Goto(c, "events",
          IF client_'[c].kind = "play" /\ sessions_[client_'[c].name] # NoSession
            THEN "get" ELSE "close")
  /\ UNCHANGED <<directoryVars, sessionVars, app_, sess_, running>>

\* Mutant: the session is looked up under the names the context has now.
MutGetSession(c) ==
  /\ Goto(c, "get", "add")
  /\ sess_' = [sess_ EXCEPT ![c] = sessions_[<<app_[c], stream_[c]>>]]
  /\ running' = (sessions_[<<app_[c], stream_[c]>>] # NoSession)
  /\ UNCHANGED <<directoryVars, sessionVars, nameVars, client_>>

\* ... gets its session, which another thread may have deleted meanwhile; a
\* null session is dereferenced at once ...
GetSession(c) ==
  /\ Goto(c, "get", "add")
  /\ sess_' = [sess_ EXCEPT ![c] = sessions_[client_[c].name]]
  /\ running' = (sessions_[client_[c].name] # NoSession)
  /\ UNCHANGED <<directoryVars, sessionVars, nameVars, client_>>

\* Mutant: the client that was replaced joins the session.
MutAddConsumer(c) ==
  /\ Goto(c, "add", "events")
  /\ consumers_' = [consumers_ EXCEPT ![sess_[c]] = @ \cup {<<c, client_[c].no - 1>>}]
  /\ UNCHANGED <<directoryVars, producer_, nameVars, client_, sess_, running>>

\* ... and joins the session.
AddConsumer(c) ==
  /\ Goto(c, "add", "events")
  /\ consumers_' = [consumers_ EXCEPT ![sess_[c]] = @ \cup {<<c, client_[c].no>>}]
  /\ UNCHANGED <<directoryVars, producer_, nameVars, client_, sess_, running>>

-----------------------------------------------------------------------------
(* The end of a connection *)

\* The peer closes, a message is wrong, or the connection is idle.
Disconnect(c) ==
  /\ Goto(c, "events", "close")
  /\ UNCHANGED <<directoryVars, sessionVars, nameVars, client_, sess_, running>>

\* TcpConnection::OnClose: a player leaves the session of its client.
LeaveSession(c) ==
  consumers_' = IF client_[c].kind = "play" /\ sess_[c] # NoSession
                THEN [consumers_ EXCEPT ![sess_[c]] = @ \ {<<c, client_[c].no>>}]
                ELSE consumers_

\* Mutant: the session of a publisher stays on the list.
MutClose(c) ==
  /\ Goto(c, "close", "closed")
  /\ LeaveSession(c)
  /\ UNCHANGED <<directoryVars, producer_, nameVars, client_, sess_, running>>

\* ... and a publisher deletes whatever has the name the context has now.
Close(c) ==
  /\ Goto(c, "close", "closed")
  /\ LeaveSession(c)
  /\ IF client_[c].kind = "publish" THEN DeleteSession(<<app_[c], stream_[c]>>)
     ELSE UNCHANGED sessions_
  /\ UNCHANGED <<created, creator, named, producer_, nameVars, client_, sess_, running>>

-----------------------------------------------------------------------------
PublisherNext(c) ==
  \/ \E stream \in Streams : ReleaseStream(c, stream) \/ FCPublish(c, stream) \/ Publish(c, stream)
  \/ SetProducer(c) \/ FCUnpublish(c)

ViewerNext(c) ==
  \/ \E stream \in Streams : GetStreamLength(c, stream) \/ Play(c, stream)
  \/ GetSession(c) \/ AddConsumer(c)

Next ==
  \/ \E c \in Publishers : PublisherNext(c)
  \/ \E c \in Viewers : ViewerNext(c)
  \/ \E c \in Conns : (\E app \in Apps : Connect(c, app)) \/ Disconnect(c) \/ Close(c)

Spec == Init /\ [][Next]_vars

-----------------------------------------------------------------------------
(* Properties *)

\* Every handler leaves the directory, the sessions and the clients well-typed;
\* a consumer is a client object that its connection really has had.
TypeOK ==
  /\ sessions_ \in [Names -> Sessions \cup {NoSession}]
  /\ created \in 0 .. MaxSessions
  /\ creator \in [Sessions -> Publishers \cup {NoConn}]
  /\ named \in [Sessions -> Names]
  /\ producer_ \in [Sessions -> Publishers \cup {NoConn}]
  /\ consumers_ \in [Sessions -> SUBSET Consumers]
  /\ app_ \in [Conns -> Apps] /\ stream_ \in [Conns -> Streams]
  /\ client_ \in [Conns -> Client]
  /\ sess_ \in [Conns -> Sessions \cup {NoSession}]
  /\ pc \in [Conns -> {"events", "producer", "get", "add", "close", "closed"}]
  /\ running \in BOOLEAN

\* A stream that nobody publishes any more is offered in two cases only: its
\* creator had another name in the context than in the client when it closed, by
\* a connect or a stream name that came after the client was made, or it had
\* become a player.  In every other case, however publishers of one name come,
\* go and release each other's sessions, a listed session's creator is open.
ListedUnlessMoved ==
  \A n \in Names : sessions_[n] # NoSession =>
    LET c == creator[sessions_[n]]
    IN  /\ c \in Publishers
        /\ pc[c] = "closed" => <<app_[c], stream_[c]>> # n \/ client_[c].kind = "play"

\* Players that come while a session is listed all come to this session: it is
\* taken off the list before another one gets its name, also when two
\* connections publish the name at the same time.
SessionNotReplaced ==
  [][\A n \in Names :
       sessions_[n] # NoSession /\ sessions_'[n] # sessions_[n] => sessions_'[n] = NoSession]_vars

\* A client publishes into and plays from sessions of its own name only,
\* whatever the names of its connection have become, and whoever has deleted
\* and created sessions between any two of its steps.
OwnName ==
  \A c \in Conns :
    /\ sess_[c] # NoSession => named[sess_[c]] = client_[c].name
    /\ \A s \in Sessions : <<c, client_[c].no>> \in consumers_[s] => named[s] = client_[c].name

=============================================================================
