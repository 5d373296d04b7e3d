------------------------- MODULE LiveDirectoryProofs -------------------------
(***************************************************************************)
(* For any connections, names and bounds: a dead stream is offered only    *)
(* when its connection has moved, no session is replaced under its         *)
(* players, and no client is in a session of another name.                 *)
(***************************************************************************)
EXTENDS LiveDirectory, TLAPS

\* What is listed, held or joined has been created, so that the next session
\* is a new one to everybody.
Created ==
  /\ \A n \in Names : sessions_[n] <= created
  /\ \A c \in Conns : sess_[c] <= created
  /\ \A s \in Sessions : consumers_[s] # {} => s <= created

\* A listed session is listed under its name; who has created one has had a
\* client since; a connection that is joining has one, and one without a client
\* has no session; and no consumer is a client yet to come.
Known ==
  /\ \A n \in Names : sessions_[n] # NoSession => named[sessions_[n]] = n
  /\ \A s \in Sessions : creator[s] # NoConn => client_[creator[s]].kind # "none"
  /\ \A c \in Conns :
       /\ pc[c] \in {"get", "add"} => client_[c].no # 0
       /\ IF client_[c].no = 0 THEN sess_[c] = NoSession ELSE client_[c].kind # "none"
  /\ \A s \in Sessions : \A p \in consumers_[s] : p[2] <= client_[p[1]].no

IInv == TypeOK /\ Created /\ Known /\ ListedUnlessMoved /\ OwnName

USE LiveDirectoryAssumption

\* The invariant holds before the first connection.
LEMMA InitInv == Init => IInv
BY DEF Init, IInv, TypeOK, Created, Known, ListedUnlessMoved, OwnName, Sessions, Conns,
       NoSession, Names, Client, NoClient

\* Only the connection itself is given a name, and only a stream's.
LEMMA NameGiven ==
  ASSUME TypeOK, NEW c \in Conns, NEW stream \in Streams, SetStream(c, stream)
  PROVE  /\ stream_' \in [Conns -> Streams]
         /\ \A d \in Conns : d # c => stream_'[d] = stream_[d]
BY DEF TypeOK, SetStream

\* A connection keeps its client, or gets the next one.
ClientStep(c) ==
  /\ client_' \in [Conns -> Client]
  /\ \A d \in Conns : d # c => client_'[d] = client_[d]
  /\ client_'[c].no # 0 /\ client_'[c].kind # "none"
  /\ \/ client_'[c] = client_[c]
     \/ client_'[c].no = client_[c].no + 1

LEMMA ClientKept ==
  ASSUME IInv, NEW c \in Conns, NEW kind \in {"publish", "play"}, stream_' \in [Conns -> Streams],
         NewClient(c, kind) \/ EnsureClient(c, kind)
  PROVE  ClientStep(c)
<1> USE DEF IInv, TypeOK, Known
<1>1. client_[c] \in Client /\ (client_[c].no # 0 => client_[c].kind # "none")
  OBVIOUS
<1>2. CASE UNCHANGED client_ /\ client_[c].no # 0
  BY <1>1, <1>2 DEF ClientStep
<1>3. CASE NewClient(c, kind)
  <2>1. client_' = [client_ EXCEPT ![c] = [no |-> client_[c].no + 1, kind |-> kind,
                                           name |-> <<app_[c], stream_'[c]>>]]
    BY <1>3 DEF NewClient
  <2>2. client_[c].no + 1 \in 1 .. MaxClients
    BY <1>1, <1>3 DEF NewClient, Client
  <2>3. <<app_[c], stream_'[c]>> \in Names
    BY DEF Names
  <2>4. [no |-> client_[c].no + 1, kind |-> kind, name |-> <<app_[c], stream_'[c]>>] \in Client
    BY <2>2, <2>3 DEF Client
  <2> QED
    BY <2>1, <2>2, <2>4 DEF ClientStep
<1> QED
  BY <1>2, <1>3 DEF EnsureClient

\* What the commands have in common that neither create, look up nor join a
\* session: the connection stays open, its names and its client may be new, a
\* new client has no session, and a name may be taken off the list.
Command(c) ==
  /\ pc[c] # "closed" /\ pc'[c] # "closed"
  /\ pc' \in [Conns -> {"events", "producer", "get", "add", "close", "closed"}]
  /\ running' \in BOOLEAN
  /\ app_' \in [Conns -> Apps] /\ stream_' \in [Conns -> Streams]
  /\ producer_' \in [Sessions -> Publishers \cup {NoConn}]
  /\ sessions_' \in [Names -> Sessions \cup {NoSession}]
  /\ \A n \in Names : sessions_'[n] \in {sessions_[n], NoSession}
  /\ \A d \in Conns : d # c => /\ pc'[d] = pc[d] /\ app_'[d] = app_[d] /\ stream_'[d] = stream_[d]
  /\ UNCHANGED <<created, creator, named, consumers_>>
  /\ pc'[c] \in {"get", "add"} => client_'[c].no # 0
  /\ sess_' \in [Conns -> Sessions \cup {NoSession}]
  /\ \A d \in Conns : d # c => client_'[d] = client_[d] /\ sess_'[d] = sess_[d]
  /\ \/ client_' = client_ /\ sess_' = sess_
     \/ ClientStep(c) /\ client_'[c] = client_[c] /\ sess_'[c] = sess_[c]
     \/ ClientStep(c) /\ client_'[c].no = client_[c].no + 1 /\ sess_'[c] = NoSession

\* They preserve the invariant.
LEMMA CommandInv ==
  ASSUME IInv, NEW c \in Conns, Command(c)
  PROVE  IInv'
<1> USE DEF Sessions, NoSession
<1>1. /\ client_ \in [Conns -> Client] /\ client_' \in [Conns -> Client]
      /\ \A d \in Conns : client_[d].no \in Nat /\ client_'[d].no \in Nat
  BY DEF IInv, TypeOK, Command, ClientStep, Client
<1>2. /\ \A d \in Conns : d # c => client_'[d] = client_[d] /\ sess_'[d] = sess_[d] /\ pc'[d] = pc[d]
                                  /\ app_'[d] = app_[d] /\ stream_'[d] = stream_[d]
      /\ pc[c] # "closed" /\ pc'[c] # "closed" /\ (pc'[c] \in {"get", "add"} => client_'[c].no # 0)
      /\ created' = created /\ creator' = creator /\ named' = named /\ consumers_' = consumers_
      /\ \A n \in Names : sessions_'[n] \in {sessions_[n], NoSession}
  BY DEF Command
<1>3. \/ client_'[c] = client_[c] /\ sess_'[c] = sess_[c]
      \/ /\ client_'[c].no = client_[c].no + 1 /\ client_'[c].kind # "none"
         /\ sess_'[c] = NoSession
  BY DEF Command, ClientStep
<1>4. TypeOK'
  BY <1>1 DEF IInv, TypeOK, Command
<1>5. Created'
  <2>1. created \in Nat
    BY DEF IInv, TypeOK
  <2>2. \A n \in Names : sessions_'[n] <= created
    BY <1>2, <2>1 DEF IInv, Created
  <2>3. \A d \in Conns : sess_'[d] <= created
    BY <1>2, <1>3, <2>1 DEF IInv, Created
  <2> QED
    BY <1>2, <2>2, <2>3 DEF IInv, Created
<1>6. Known'
  <2>1. \A n \in Names : sessions_'[n] # NoSession => named'[sessions_'[n]] = n
    BY <1>2 DEF IInv, Known
  <2>2. \A s \in Sessions : creator'[s] # NoConn => client_'[creator'[s]].kind # "none"
    <3>1. \A d \in Conns : client_[d].kind # "none" => client_'[d].kind # "none"
      BY <1>2, <1>3
    <3> QED
      BY <1>2, <3>1 DEF IInv, Known, TypeOK, Conns
  <2>3. \A d \in Conns :
          /\ pc'[d] \in {"get", "add"} => client_'[d].no # 0
          /\ IF client_'[d].no = 0 THEN sess_'[d] = NoSession ELSE client_'[d].kind # "none"
    <3>1. client_'[c].no = 0 => client_'[c] = client_[c] /\ sess_'[c] = sess_[c]
      BY <1>1, <1>3
    <3>2. IF client_'[c].no = 0 THEN sess_'[c] = NoSession ELSE client_'[c].kind # "none"
      BY <1>3, <3>1 DEF IInv, Known
    <3> QED
      BY <1>2, <3>2 DEF IInv, Known
  <2>4. \A s \in Sessions : \A p \in consumers_'[s] : p[2] <= client_'[p[1]].no
    <3>1. \A d \in Conns : client_[d].no <= client_'[d].no
      BY <1>1, <1>2, <1>3
    <3>2. \A s \in Sessions : \A p \in consumers_[s] : p[1] \in Conns /\ p[2] \in Nat
      BY DEF IInv, TypeOK, Consumers, Conns
    <3>3. \A s \in Sessions : \A p \in consumers_[s] : p[2] <= client_[p[1]].no
      BY DEF IInv, Known
    <3> QED
      BY <1>1, <1>2, <3>1, <3>2, <3>3
  <2> QED
    BY <2>1, <2>2, <2>3, <2>4 DEF Known
<1>7. ListedUnlessMoved'
  <2> SUFFICES ASSUME NEW n \in Names, sessions_'[n] # NoSession
               PROVE  LET d == creator'[sessions_'[n]]
                      IN  /\ d \in Publishers
                          /\ pc'[d] = "closed" => <<app_'[d], stream_'[d]>> # n \/ client_'[d].kind = "play"
    BY DEF ListedUnlessMoved
  <2>1. sessions_'[n] = sessions_[n]
    BY <1>2
  <2>2. PICK d : d = creator[sessions_[n]]
    OBVIOUS
  <2>3. /\ d \in Publishers /\ d \in Conns
        /\ pc[d] = "closed" => <<app_[d], stream_[d]>> # n \/ client_[d].kind = "play"
    BY <2>1, <2>2 DEF IInv, ListedUnlessMoved, Conns
  <2> QED
    BY <1>2, <2>1, <2>2, <2>3
<1>8. OwnName'
  <2> SUFFICES ASSUME NEW d \in Conns
               PROVE  /\ sess_'[d] # NoSession => named'[sess_'[d]] = client_'[d].name
                      /\ \A s \in Sessions :
                           <<d, client_'[d].no>> \in consumers_'[s] => named'[s] = client_'[d].name
    BY DEF OwnName
  <2>1. CASE client_'[d] = client_[d] /\ sess_'[d] = sess_[d]
    BY <1>2, <2>1 DEF IInv, OwnName
  <2>2. CASE d = c /\ client_'[c].no = client_[c].no + 1 /\ sess_'[c] = NoSession
    <3>1. \A s \in Sessions : <<c, client_[c].no + 1>> \notin consumers_[s]
      BY <1>1 DEF IInv, Known
    <3> QED
      BY <1>2, <2>2, <3>1
  <2> QED
    BY <1>2, <1>3, <2>1, <2>2
<1> QED
  BY <1>4, <1>5, <1>6, <1>7, <1>8 DEF IInv

-----------------------------------------------------------------------------
(* Which actions are such commands *)

\* Every command of a client but a publish that goes through.
LEMMA Commands ==
  ASSUME IInv, NEW c \in Conns, NEW stream \in Streams, NEW app \in Apps,
         \/ Connect(c, app) \/ FCUnpublish(c) \/ Disconnect(c)
         \/ ReleaseStream(c, stream) \/ FCPublish(c, stream)
         \/ GetStreamLength(c, stream) \/ Play(c, stream)
         \/ c \in Publishers /\ SetProducer(c)
         \/ Publish(c, stream) /\ pc'[c] = "close"
  PROVE  Command(c)
<1> USE DEF Goto
<1>1. TypeOK /\ Known
  BY DEF IInv
<1>2. CASE Connect(c, app)
  BY <1>1, <1>2 DEF Connect, TypeOK, Command, directoryVars, sessionVars
<1>3. CASE FCUnpublish(c) \/ Disconnect(c)
  BY <1>1, <1>3 DEF FCUnpublish, Disconnect, TypeOK, Command, directoryVars, sessionVars, nameVars
<1>4. CASE c \in Publishers /\ SetProducer(c)
  BY <1>1, <1>4 DEF SetProducer, TypeOK, Command, directoryVars, sessionVars, nameVars
<1>5. CASE ReleaseStream(c, stream)
  <2>1. /\ stream_' \in [Conns -> Streams]
        /\ \A d \in Conns : d # c => stream_'[d] = stream_[d]
    BY <1>1, <1>5, NameGiven DEF ReleaseStream
  <2>2. ClientStep(c) /\ client_'[c].no = client_[c].no + 1
    BY <1>1, <1>5, <2>1, ClientKept DEF ReleaseStream, NewClient, TypeOK
  <2> QED
    BY <1>1, <1>5, <2>1, <2>2 DEF ReleaseStream, DeleteSession, TypeOK, Command, ClientStep, sessionVars
<1>6. CASE GetStreamLength(c, stream)
  <2>1. /\ stream_' \in [Conns -> Streams]
        /\ \A d \in Conns : d # c => stream_'[d] = stream_[d]
    BY <1>1, <1>6, NameGiven DEF GetStreamLength
  <2>2. ClientStep(c) /\ client_'[c].no = client_[c].no + 1
    BY <1>1, <1>6, <2>1, ClientKept DEF GetStreamLength, NewClient, TypeOK
  <2> QED
    BY <1>1, <1>6, <2>1, <2>2
       DEF GetStreamLength, TypeOK, Command, ClientStep, sessionVars, directoryVars
<1>7. CASE FCPublish(c, stream) \/ Play(c, stream) \/ (Publish(c, stream) /\ pc'[c] = "close")
  <2>1. /\ stream_' \in [Conns -> Streams]
        /\ \A d \in Conns : d # c => stream_'[d] = stream_[d]
    BY <1>1, <1>7, NameGiven DEF FCPublish, Play, Publish
  <2>2. \E kind \in {"publish", "play"} : EnsureClient(c, kind)
    BY <1>7 DEF FCPublish, Play, Publish
  <2>3. ClientStep(c)
    BY <2>1, <2>2, ClientKept
  <2>4. \/ client_' = client_ /\ sess_' = sess_
        \/ client_'[c].no = client_[c].no + 1 /\ sess_'[c] = NoSession
    BY <1>1, <1>7, <2>2 DEF EnsureClient, NewClient, TypeOK, Known, FCPublish, Play, Publish
  <2>5. sess_' = sess_
    BY <1>1, <1>7 DEF FCPublish, Play, Publish, TypeOK
  <2>6. /\ pc[c] = "events" /\ \E there \in {"events", "close", "get"} : pc' = [pc EXCEPT ![c] = there]
        /\ UNCHANGED <<sessions_, created, creator, named, producer_, consumers_, app_, running>>
    BY <1>1, <1>7 DEF FCPublish, Play, Publish, directoryVars, sessionVars, TypeOK
  <2> QED
    BY <1>1, <2>1, <2>3, <2>4, <2>5, <2>6 DEF TypeOK, Command, ClientStep
<1> QED
  BY <1>2, <1>3, <1>4, <1>5, <1>6, <1>7

-----------------------------------------------------------------------------
(* The others *)

\* A publish that goes through: the session of its client's name, or a new one.
LEMMA PublishInv ==
  ASSUME IInv, NEW c \in Publishers, NEW stream \in Streams,
         Publish(c, stream), pc'[c] # "close"
  PROVE  IInv'
<1> USE DEF Sessions, NoSession
<1> c \in Conns
  BY DEF Conns
<1>1. TypeOK /\ Created /\ Known /\ ListedUnlessMoved /\ OwnName
  BY DEF IInv
<1>2. /\ pc[c] = "events" /\ pc' = [pc EXCEPT ![c] = "producer"]
      /\ EnsureClient(c, "publish") /\ client_'[c].kind = "publish"
      /\ CreateSession(c, client_'[c].name)
      /\ producer_' = producer_ /\ consumers_' = consumers_ /\ app_' = app_ /\ running' = running
  BY <1>1 DEF Publish, Goto, TypeOK, sessionVars
<1>3. /\ stream_' \in [Conns -> Streams]
      /\ \A d \in Conns : d # c => stream_'[d] = stream_[d]
  BY <1>1, NameGiven DEF Publish
<1>4. ClientStep(c)
  BY <1>2, <1>3, ClientKept
<1>5. PICK n : n = client_'[c].name
  OBVIOUS
<1>6. n \in Names /\ client_'[c] \in Client
  BY <1>4, <1>5 DEF ClientStep, Client
<1>7. /\ client_ \in [Conns -> Client] /\ client_' \in [Conns -> Client]
      /\ \A d \in Conns : client_[d].no \in Nat /\ client_'[d].no \in Nat
  BY <1>1, <1>4 DEF TypeOK, ClientStep, Client
<1>8. created \in Nat /\ created <= MaxSessions
  BY <1>1 DEF TypeOK
<1>9. /\ \A d \in Conns : d # c => client_'[d] = client_[d]
      /\ client_'[c].no # 0 /\ client_'[c].kind # "none"
      /\ client_'[c] = client_[c] \/ client_'[c].no = client_[c].no + 1
  BY <1>4 DEF ClientStep
<1>10. PICK s \in Sessions :
         /\ sess_' = [sess_ EXCEPT ![c] = s] /\ sessions_' = [sessions_ EXCEPT ![n] = s]
         /\ \/ sessions_[n] = s /\ UNCHANGED <<created, creator, named>>
            \/ /\ s = created + 1 /\ created' = s /\ sessions_[n] = NoSession
               /\ creator' = [creator EXCEPT ![s] = c] /\ named' = [named EXCEPT ![s] = n]
  <2>1. CASE sessions_[n] # NoSession
    <3>1. sessions_[n] \in Sessions
      BY <1>1, <1>6, <2>1 DEF TypeOK
    <3>2. sessions_' = [sessions_ EXCEPT ![n] = sessions_[n]]
      BY <1>1, <1>2, <1>5, <1>6, <2>1 DEF TypeOK, CreateSession, directoryVars
    <3> QED
      BY <1>2, <1>5, <2>1, <3>1, <3>2 DEF CreateSession, directoryVars
  <2>2. CASE sessions_[n] = NoSession
    <3>1. created + 1 \in Sessions
      BY <1>2, <1>5, <1>8, <2>2 DEF CreateSession
    <3> QED
      BY <1>2, <1>5, <2>2, <3>1 DEF CreateSession
  <2> QED
    BY <2>1, <2>2
<1>11. /\ sess_' \in [Conns -> Sessions \cup {NoSession}]
       /\ sess_'[c] = s /\ \A d \in Conns : d # c => sess_'[d] = sess_[d]
       /\ sessions_' \in [Names -> Sessions \cup {NoSession}]
       /\ sessions_'[n] = s /\ \A m \in Names : m # n => sessions_'[m] = sessions_[m]
  BY <1>1, <1>6, <1>10 DEF TypeOK
<1>12. /\ creator' \in [Sessions -> Publishers \cup {NoConn}] /\ named' \in [Sessions -> Names]
       /\ created' \in 0 .. MaxSessions /\ created <= created' /\ s <= created'
       /\ \A r \in Sessions : r # s \/ sessions_[n] = s => creator'[r] = creator[r] /\ named'[r] = named[r]
       /\ creator'[s] = c \/ (creator'[s] = creator[s] /\ sessions_[n] = s)
       /\ named'[s] = n
  <2>1. /\ creator \in [Sessions -> Publishers \cup {NoConn}] /\ named \in [Sessions -> Names]
        /\ \A m \in Names : sessions_[m] <= created
        /\ \A m \in Names : sessions_[m] # NoSession => named[sessions_[m]] = m
    BY <1>1 DEF TypeOK, Created, Known
  <2>2. CASE sessions_[n] = s /\ UNCHANGED <<created, creator, named>>
    BY <1>6, <1>8, <2>1, <2>2
  <2>3. CASE /\ s = created + 1 /\ created' = s /\ sessions_[n] = NoSession
             /\ creator' = [creator EXCEPT ![s] = c] /\ named' = [named EXCEPT ![s] = n]
    <3>1. creator' \in [Sessions -> Publishers \cup {NoConn}] /\ named' \in [Sessions -> Names]
      BY <1>6, <2>1, <2>3
    <3>2. creator'[s] = c /\ named'[s] = n
      BY <2>1, <2>3
    <3>3. \A r \in Sessions : r # s => creator'[r] = creator[r] /\ named'[r] = named[r]
      BY <2>1, <2>3
    <3>4. created' \in 0 .. MaxSessions /\ created <= created' /\ s <= created'
      BY <1>8, <2>3
    <3> QED
      BY <2>3, <3>1, <3>2, <3>3, <3>4
  <2> QED
    BY <1>10, <2>2, <2>3
<1>13. \A r \in Sessions : r <= created => named'[r] = named[r] /\ creator'[r] = creator[r]
  BY <1>8, <1>10, <1>12
<1>14. TypeOK'
  BY <1>1, <1>2, <1>3, <1>7, <1>11, <1>12 DEF TypeOK
<1>15. Created'
  <2>1. \A m \in Names : sessions_'[m] <= created'
    <3>1. \A m \in Names : sessions_[m] \in Nat /\ sessions_[m] <= created
      BY <1>1 DEF TypeOK, Created
    <3> QED
      BY <1>8, <1>11, <1>12, <3>1
  <2>2. \A d \in Conns : sess_'[d] <= created'
    <3>1. \A d \in Conns : sess_[d] \in Nat /\ sess_[d] <= created
      BY <1>1 DEF TypeOK, Created
    <3> QED
      BY <1>8, <1>11, <1>12, <3>1
  <2>3. \A r \in Sessions : consumers_'[r] # {} => r <= created'
    BY <1>1, <1>2, <1>8, <1>12 DEF Created
  <2> QED
    BY <2>1, <2>2, <2>3 DEF Created
<1>16. Known'
  <2>1. \A m \in Names : sessions_'[m] # NoSession => named'[sessions_'[m]] = m
    <3> SUFFICES ASSUME NEW m \in Names, m # n, sessions_[m] # NoSession
                 PROVE  named'[sessions_[m]] = m
      BY <1>11, <1>12
    <3>1. sessions_[m] \in Sessions /\ sessions_[m] <= created /\ named[sessions_[m]] = m
      BY <1>1 DEF TypeOK, Created, Known
    <3> QED
      BY <1>13, <3>1
  <2>2. \A r \in Sessions : creator'[r] # NoConn => client_'[creator'[r]].kind # "none"
    <3> SUFFICES ASSUME NEW r \in Sessions, creator'[r] # NoConn
                 PROVE  client_'[creator'[r]].kind # "none"
      OBVIOUS
    <3>1. creator'[r] = c \/ creator'[r] = creator[r]
      BY <1>12
    <3>2. \A d \in Conns : client_[d].kind # "none" => client_'[d].kind # "none"
      BY <1>9
    <3>3. creator[r] # NoConn => creator[r] \in Conns /\ client_[creator[r]].kind # "none"
      BY <1>1 DEF TypeOK, Known, Conns
    <3> QED
      BY <1>9, <3>1, <3>2, <3>3
  <2>3. \A d \in Conns :
          /\ pc'[d] \in {"get", "add"} => client_'[d].no # 0
          /\ IF client_'[d].no = 0 THEN sess_'[d] = NoSession ELSE client_'[d].kind # "none"
    <3>1. \A d \in Conns : d # c => pc'[d] = pc[d]
      BY <1>1, <1>2 DEF TypeOK
    <3> QED
      BY <1>1, <1>9, <1>11, <3>1 DEF Known
  <2>4. \A r \in Sessions : \A p \in consumers_'[r] : p[2] <= client_'[p[1]].no
    <3>1. \A d \in Conns : client_[d].no <= client_'[d].no
      BY <1>7, <1>9
    <3>2. \A r \in Sessions : \A p \in consumers_[r] : p[1] \in Conns /\ p[2] \in Nat
      BY <1>1 DEF TypeOK, Consumers, Conns
    <3>3. \A r \in Sessions : \A p \in consumers_[r] : p[2] <= client_[p[1]].no
      BY <1>1 DEF Known
    <3> QED
      BY <1>2, <1>7, <3>1, <3>2, <3>3
  <2> QED
    BY <2>1, <2>2, <2>3, <2>4 DEF Known
<1>17. ListedUnlessMoved'
  <2> SUFFICES ASSUME NEW m \in Names, sessions_'[m] # NoSession
               PROVE  LET d == creator'[sessions_'[m]]
                      IN  /\ d \in Publishers
                          /\ pc'[d] = "closed" => <<app_'[d], stream_'[d]>> # m \/ client_'[d].kind = "play"
    BY DEF ListedUnlessMoved
  <2>1. PICK d : d = creator'[sessions_'[m]]
    OBVIOUS
  <2>2. pc'[c] # "closed" /\ \A e \in Conns : e # c => pc'[e] = pc[e] /\ app_'[e] = app_[e]
    BY <1>1, <1>2 DEF TypeOK
  <2>3. CASE d = c
    BY <2>1, <2>2, <2>3
  <2>4. CASE d # c
    <3>1. sessions_'[m] = sessions_[m] /\ creator'[sessions_'[m]] = creator[sessions_[m]]
      <4>1. sessions_[m] # NoSession => sessions_[m] \in Sessions /\ sessions_[m] <= created
        BY <1>1 DEF TypeOK, Created
      <4> QED
        BY <1>11, <1>12, <1>13, <2>1, <2>4, <4>1
    <3>2. /\ d \in Publishers /\ d \in Conns
          /\ pc[d] = "closed" => <<app_[d], stream_[d]>> # m \/ client_[d].kind = "play"
      BY <1>1, <2>1, <3>1 DEF ListedUnlessMoved, Conns
    <3> QED
      BY <1>3, <1>9, <2>1, <2>2, <2>4, <3>2
  <2> QED
    BY <2>3, <2>4
<1>18. OwnName'
  <2>1. \A d \in Conns : sess_'[d] # NoSession => named'[sess_'[d]] = client_'[d].name
    <3>1. \A d \in Conns : sess_[d] # NoSession =>
             sess_[d] \in Sessions /\ sess_[d] <= created /\ named[sess_[d]] = client_[d].name
      BY <1>1 DEF TypeOK, Created, OwnName
    <3>2. named'[sess_'[c]] = client_'[c].name
      BY <1>5, <1>11, <1>12
    <3>3. \A d \in Conns : d # c /\ sess_'[d] # NoSession => named'[sess_'[d]] = client_'[d].name
      BY <1>9, <1>11, <1>13, <3>1
    <3> QED
      BY <3>2, <3>3
  <2>2. \A d \in Conns : \A r \in Sessions :
          <<d, client_'[d].no>> \in consumers_'[r] => named'[r] = client_'[d].name
    <3> SUFFICES ASSUME NEW d \in Conns, NEW r \in Sessions, <<d, client_'[d].no>> \in consumers_[r]
                 PROVE  named'[r] = client_'[d].name
      BY <1>2
    <3>1. r <= created /\ named'[r] = named[r]
      BY <1>1, <1>13 DEF Created
    <3>2. client_'[d] = client_[d]
      <4>1. client_'[d].no <= client_[d].no
        BY <1>1 DEF Known
      <4> QED
        BY <1>7, <1>9, <4>1
    <3> QED
      BY <1>1, <3>1, <3>2 DEF OwnName
  <2> QED
    BY <2>1, <2>2 DEF OwnName
<1> QED
  BY <1>14, <1>15, <1>16, <1>17, <1>18 DEF IInv

\* The player's later steps and the close change one session at most: its
\* consumers, or, at the close, whether it is listed.
LEMMA RestInv ==
  ASSUME IInv, NEW c \in Conns, (c \in Viewers /\ (GetSession(c) \/ AddConsumer(c))) \/ Close(c)
  PROVE  IInv'
<1> USE DEF Sessions, NoSession
<1>1. TypeOK /\ Created /\ Known /\ ListedUnlessMoved /\ OwnName
  BY DEF IInv
<1>2. CASE c \in Viewers /\ GetSession(c)
  <2> USE DEF GetSession, Goto, directoryVars, sessionVars, nameVars
  <2>1. client_[c].name \in Names /\ client_[c].no # 0 /\ pc' = [pc EXCEPT ![c] = "add"]
    BY <1>1, <1>2 DEF TypeOK, Client, Known
  <2>2. sessions_[client_[c].name] \in Sessions \cup {NoSession}
    BY <1>1, <2>1 DEF TypeOK
  <2>3. sess_' = [sess_ EXCEPT ![c] = sessions_[client_[c].name]] /\ running' \in BOOLEAN
    BY <1>2
  <2>4. TypeOK'
    BY <1>1, <1>2, <2>1, <2>2, <2>3 DEF TypeOK
  <2>5. Created'
    BY <1>1, <1>2, <2>1, <2>3 DEF TypeOK, Created
  <2>6. Known'
    BY <1>1, <1>2, <2>1, <2>3 DEF TypeOK, Known
  <2>7. ListedUnlessMoved'
    BY <1>1, <1>2, <2>1 DEF TypeOK, ListedUnlessMoved
  <2>8. OwnName'
    BY <1>1, <1>2, <2>1, <2>3 DEF TypeOK, OwnName, Known
  <2> QED
    BY <2>4, <2>5, <2>6, <2>7, <2>8 DEF IInv
<1>3. CASE c \in Viewers /\ AddConsumer(c)
  <2> USE DEF AddConsumer, Goto, directoryVars, nameVars
  <2>1. /\ client_[c].no \in 1 .. MaxClients /\ client_[c].no # 0 /\ pc' = [pc EXCEPT ![c] = "events"]
        /\ consumers_' = [consumers_ EXCEPT ![sess_[c]] = @ \cup {<<c, client_[c].no>>}]
    BY <1>1, <1>3 DEF TypeOK, Client, Known
  <2>2. <<c, client_[c].no>> \in Consumers
    BY <1>3, <2>1 DEF Consumers
  <2>3. /\ consumers_' \in [Sessions -> SUBSET Consumers]
        /\ \A s \in Sessions : \A p \in consumers_'[s] :
             p \in consumers_[s] \/ (p = <<c, client_[c].no>> /\ s = sess_[c])
    BY <1>1, <2>1, <2>2 DEF TypeOK
  <2>4. TypeOK'
    BY <1>1, <1>3, <2>1, <2>3 DEF TypeOK
  <2>5. Created'
    BY <1>1, <1>3, <2>3 DEF Created
  <2>6. Known'
    <3>1. \A s \in Sessions : \A p \in consumers_'[s] : p[2] <= client_[p[1]].no
      BY <1>1, <2>1, <2>3 DEF Known
    <3> QED
      BY <1>1, <1>3, <2>1, <3>1 DEF TypeOK, Known
  <2>7. ListedUnlessMoved'
    BY <1>1, <1>3, <2>1 DEF TypeOK, ListedUnlessMoved
  <2>8. OwnName'
    <3>1. \A d \in Conns : \A s \in Sessions :
            <<d, client_[d].no>> \in consumers_'[s] => named[s] = client_[d].name
      BY <1>1, <2>3 DEF OwnName
    <3> QED
      BY <1>1, <1>3, <3>1 DEF OwnName
  <2> QED
    BY <2>4, <2>5, <2>6, <2>7, <2>8 DEF IInv
<1>4. CASE Close(c)
  <2> USE DEF Close, Goto, nameVars
  <2>1. /\ pc' = [pc EXCEPT ![c] = "closed"]
        /\ UNCHANGED <<created, creator, named, producer_, app_, stream_, client_, sess_, running>>
    BY <1>4
  <2>2. /\ consumers_' \in [Sessions -> SUBSET Consumers]
        /\ \A s \in Sessions : consumers_'[s] \subseteq consumers_[s]
    BY <1>1, <1>4 DEF TypeOK, LeaveSession
  <2>3. /\ sessions_' \in [Names -> Sessions \cup {NoSession}]
        /\ \A n \in Names : sessions_'[n] \in {sessions_[n], NoSession}
        /\ client_[c].kind = "publish" /\ <<app_[c], stream_[c]>> \in Names
             => sessions_'[<<app_[c], stream_[c]>>] = NoSession
    BY <1>1, <1>4 DEF TypeOK, DeleteSession
  <2>4. TypeOK'
    BY <1>1, <2>1, <2>2, <2>3 DEF TypeOK
  <2>5. Created'
    <3>1. created \in Nat
      BY <1>1 DEF TypeOK
    <3>2. \A n \in Names : sessions_'[n] <= created
      BY <1>1, <2>3, <3>1 DEF Created
    <3>3. \A s \in Sessions : consumers_'[s] # {} => s <= created
      BY <1>1, <2>2 DEF Created
    <3> QED
      BY <1>1, <2>1, <3>2, <3>3 DEF Created
  <2>6. Known'
    BY <1>1, <2>1, <2>2, <2>3 DEF TypeOK, Known
  <2>7. ListedUnlessMoved'
    <3> SUFFICES ASSUME NEW n \in Names, sessions_'[n] # NoSession
                 PROVE  LET d == creator'[sessions_'[n]]
                        IN  /\ d \in Publishers
                            /\ pc'[d] = "closed" => <<app_'[d], stream_'[d]>> # n \/ client_'[d].kind = "play"
      BY DEF ListedUnlessMoved
    <3>1. sessions_'[n] = sessions_[n]
      BY <2>3
    <3>2. PICK d : d = creator[sessions_[n]]
      OBVIOUS
    <3>3. /\ d \in Publishers /\ d \in Conns /\ client_[d].kind # "none" /\ client_[d] \in Client
          /\ pc[d] = "closed" => <<app_[d], stream_[d]>> # n \/ client_[d].kind = "play"
      <4>1. d \in Publishers /\ (pc[d] = "closed" => <<app_[d], stream_[d]>> # n \/ client_[d].kind = "play")
        BY <1>1, <3>1, <3>2 DEF ListedUnlessMoved
      <4>2. sessions_[n] \in Sessions /\ d # NoConn /\ d \in Conns
        BY <1>1, <3>1, <4>1 DEF TypeOK, Conns
      <4> QED
        BY <1>1, <3>2, <4>1, <4>2 DEF TypeOK, Known
    <3>4. CASE d = c /\ client_[c].kind = "publish"
      BY <2>1, <2>3, <3>1, <3>2, <3>3, <3>4
    <3>5. CASE d = c /\ client_[c].kind = "play"
      BY <2>1, <3>1, <3>2, <3>3, <3>5
    <3>6. CASE d # c
      BY <1>1, <2>1, <3>1, <3>2, <3>3, <3>6 DEF TypeOK
    <3>7. client_[d].kind \in {"publish", "play"}
      BY <3>3 DEF Client
    <3> QED
      BY <3>4, <3>5, <3>6, <3>7
  <2>8. OwnName'
    BY <1>1, <2>1, <2>2 DEF OwnName
  <2> QED
    BY <2>4, <2>5, <2>6, <2>7, <2>8 DEF IInv
<1> QED
  BY <1>2, <1>3, <1>4

-----------------------------------------------------------------------------
\* Every step preserves the invariant.
LEMMA StepInv == IInv /\ [Next]_vars => IInv'
<1> SUFFICES ASSUME IInv, [Next]_vars PROVE IInv'
  OBVIOUS
<1>1. ASSUME NEW c \in Publishers, PublisherNext(c) PROVE IInv'
  <2> c \in Conns
    BY DEF Conns
  <2>1. CASE \E stream \in Streams : ReleaseStream(c, stream) \/ FCPublish(c, stream)
    BY <2>1, Commands, CommandInv
  <2>2. CASE \E stream \in Streams : Publish(c, stream)
    BY <2>2, Commands, CommandInv, PublishInv
  <2>3. CASE SetProducer(c) \/ FCUnpublish(c)
    BY <2>3, Commands, CommandInv
  <2> QED
    BY <1>1, <2>1, <2>2, <2>3 DEF PublisherNext
<1>2. ASSUME NEW c \in Viewers, ViewerNext(c) PROVE IInv'
  <2> c \in Conns
    BY DEF Conns
  <2>1. CASE \E stream \in Streams : GetStreamLength(c, stream) \/ Play(c, stream)
    BY <2>1, Commands, CommandInv
  <2> QED
    BY <1>2, <2>1, RestInv DEF ViewerNext
<1>3. ASSUME NEW c \in Conns, (\E app \in Apps : Connect(c, app)) \/ Disconnect(c) \/ Close(c)
      PROVE  IInv'
  BY <1>3, Commands, CommandInv, RestInv
<1>4. CASE UNCHANGED vars
  BY <1>4 DEF IInv, TypeOK, Created, Known, ListedUnlessMoved, OwnName, vars, directoryVars,
              sessionVars, nameVars
<1> QED
  BY <1>1, <1>2, <1>3, <1>4 DEF Next

LEMMA Invariance == Spec => []IInv
BY InitInv, StepInv, PTL DEF Spec

\* Type correctness of the directory, the sessions and the clients.
THEOREM TypeCorrect == Spec => []TypeOK
<1>1. IInv => TypeOK
  BY DEF IInv
<1> QED
  BY <1>1, Invariance, PTL

\* A listed session whose creator has closed is one whose creator had moved:
\* with any number of connections, names and clients.
THEOREM DeadUnlessMoved == Spec => []ListedUnlessMoved
<1>1. IInv => ListedUnlessMoved
  BY DEF IInv
<1> QED
  BY <1>1, Invariance, PTL

\* No client is in a session of another name than its own.
THEOREM InOwnName == Spec => []OwnName
<1>1. IInv => OwnName
  BY DEF IInv
<1> QED
  BY <1>1, Invariance, PTL

\* A session is taken off the list before another one gets its name.
THEOREM NotReplaced == Spec => SessionNotReplaced
<1> DEFINE Kept == \A n \in Names :
      sessions_[n] # NoSession /\ sessions_'[n] # sessions_[n] => sessions_'[n] = NoSession
<1>1. IInv /\ [Next]_vars => [Kept]_vars
  <2> SUFFICES ASSUME IInv, [Next]_vars PROVE Kept
    OBVIOUS
  <2>1. ASSUME NEW c \in Conns, Command(c) PROVE Kept
    BY <2>1 DEF Command
  <2>2. sessions_ \in [Names -> Sessions \cup {NoSession}]
    BY DEF IInv, TypeOK
  <2>3. ASSUME NEW c \in Conns, Close(c) PROVE Kept
    BY <2>2, <2>3 DEF Close, DeleteSession
  <2>4. ASSUME NEW c \in Viewers, GetSession(c) \/ AddConsumer(c) PROVE Kept
    BY <2>4 DEF GetSession, AddConsumer, directoryVars
  <2>5. ASSUME NEW c \in Publishers, NEW stream \in Streams, Publish(c, stream) PROVE Kept
    BY <2>2, <2>5 DEF Publish, CreateSession, directoryVars
  <2>6. ASSUME NEW c \in Publishers, PublisherNext(c) PROVE Kept
    <3> c \in Conns
      BY DEF Conns
    <3>1. CASE \E stream \in Streams : ReleaseStream(c, stream) \/ FCPublish(c, stream)
      BY <2>1, <3>1, Commands
    <3>2. CASE SetProducer(c) \/ FCUnpublish(c)
      BY <2>1, <3>2, Commands
    <3> QED
      BY <2>5, <2>6, <3>1, <3>2 DEF PublisherNext
  <2>7. ASSUME NEW c \in Viewers, ViewerNext(c) PROVE Kept
    <3> c \in Conns
      BY DEF Conns
    <3>1. CASE \E stream \in Streams : GetStreamLength(c, stream) \/ Play(c, stream)
      BY <2>1, <3>1, Commands
    <3> QED
      BY <2>4, <2>7, <3>1 DEF ViewerNext
  <2>8. ASSUME NEW c \in Conns, (\E app \in Apps : Connect(c, app)) \/ Disconnect(c) PROVE Kept
    BY <2>1, <2>8, Commands
  <2>9. CASE UNCHANGED vars
    BY <2>9 DEF vars, directoryVars
  <2> QED
    BY <2>3, <2>6, <2>7, <2>8, <2>9 DEF Next
<1> QED
  BY <1>1, Invariance, PTL DEF Spec, SessionNotReplaced
=============================================================================
