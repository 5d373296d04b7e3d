# Simple-Stream-Media-Server in TLA+

A verification project for this server: TLA+ modules translated from the code
in `src/`, TLC configurations that check them on small instances, and theorems
that TLAPS proves for every value of the constants.

The server is an RTMP live relay in C++. A publisher connects, performs the
RTMP handshake, sends commands and media; players connect, ask for the stream by
name and are sent every packet from a point near the present. Each event loop is
a thread with its own `epoll`; a connection lives on one loop for good. A stream
of one loop may have players on all the others.

## 1. The system

### Components

| component | source | state | operations |
|---|---|---|---|
| stream buffer | `Media/SsmsStream`, `SsmsGopManagment`, `SsmsCodecHeader` | ring `packet_buffer_` of 1000 slots, `packet_index_`, list of key frames, list of codec headers, `latest_timestamp_` | `Push`, `Pop`, `ExpiredPacketIndex`, `GetGopByLatency`, `ClearExpiredGop`, `PopAudioHeader` ... |
| publisher client | `Media/SsmsPublishClient` | next timestamps, frame intervals | `ProcessAudioVideo`, `ParseDataMessage`, the answers to `releaseStream`, `FCPublish`, `publish`, `FCUnpublish` |
| player client | `Media/SsmsPlayClient` | `active_`, `out_packet_`, `out_packet_index_`, header versions | `Active`, `DeActive`, `Play`, `PlayResponse`, `GetStreamLengthResponse`, `PostMessage` |
| timestamp corrector | `Media/SsmsTimestampCorrector` | last original and corrected timestamp of audio and of video, audios since a video | `CorrectTimestamp` |
| session | `Live/SsmsSession` | producer, consumers, a lock | `AddConsumer`, `DeleteConsumer`, `SetProducer`, `ActiveAll`, `DeActive` |
| session directory | `Live/SsmsLiveManagment` | name -> session, a lock | `CreateSession`, `GetSession`, `DeleteSession`, `Exist` |
| RTMP context | `Media/SsmsRtmpMessageContext` | headers per chunk stream, unfinished messages, `r_chunk_size_`; for sending `sending_`, `sending_nodes_`, `sending_pkts_` | `Parse`, `ParseMessage`, `ParseAssembledMessage`, the commands, `BuildChunk`, `SendNodes`, `ClearSendCompleteData` |
| AMF0 | `Media/SsmsAmf0Message` | the values of one command; the names `app_` and `stream_` a connection keeps of them | `Parse`, `Encode`, `EncodeSize`, `GetProperty` |
| handshake | `Media/SsmsRtmpHandshakeContext` | `state_`, `s0s1s2_` | `OnC0`, `OnC1`, `OnC2`, `SendS0S1S2` |
| connection | `Network/SsmsTcpConnection` | `buffer_`, `iovecs_`, the write event, `closed_`, `connection_alive_` | `OnRead`, `OnWrite`, `OnSendPkt`, `SendNodes`, `OnClose`, `OnError` |
| receive buffer | `Base/SsmsBuffer` | an array and two indices into it | `readFd`, `peek`, `retrieve`, `append`, `prepend`, `shrink` ... |
| event loop | `Network/SsmsEventLoop` | `events_`, `tasks_` with a lock, `tasks_copy_`, a timing wheel, `looping_` | `OnWork`, `AddTask`, `ProcessTask`, `AddEvent`, `DeleteEvent`, `RunAfter`, `RunEvery` |
| timing wheel | `Base/SsmsTimingWheel` | four wheels of slots, `counts_`, `last_ts_` | `RunAfter`, `RunEvery`, `OnTiming` |
| server | `Network/SsmsTcpServer` | its connections | `Start`, `AfterAccept`, `AfterClose`, `CheckConnectionStatus` |
| acceptor | `Network/SsmsAcceptor` | the listening socket | `OnAccept`, `OnError`, `StartListen` |
| loop threads | `Network/SsmsEventLoopThread`, `...Pool` | `is_looping_`, a promise, a condition variable, the thread | construction, `Run`, `OnStart`, `Stop`, destruction |
| sockets, configuration, logging, time, utilities, `Main.cpp` | `Network/SsmsSocket`, `Base/*` | none that another component reads | system calls, formatting |

### Interaction

1. *Bytes in.* `epoll` reports a descriptor, the loop finds its entry in `events_`
   and calls `OnRead`, which reads into the receive buffer and gives what has
   arrived to `Parse`. A message that is complete goes to the publisher client,
   which restamps it, pushes it into the stream and calls `SsmsSession::ActiveAll`.
2. *Wake-up.* Under the lock of the session `ActiveAll` calls `Active` of each
   player: if it is not active yet, its `Play` is queued on its own loop, and
   `active_` is set.
3. *Media out.* `Play` runs on the player's loop: `Pop` returns a batch, each
   packet gets a corrected timestamp and is cut into chunks by `BuildChunk`,
   `SendNodes` writes them. What a full socket leaves waits in `iovecs_` for the
   write event. When all is written the write callback releases the packets and
   `sending_` and ends the activation.
4. *Names.* The arguments of commands name the application and the stream;
   the commands of publishers and players meet in the directory.
5. *Time.* Each loop turns its timing wheel once a second; every 30 ticks the
   server closes the connections over which nothing has gone.
6. *End.* A close, on the connection's own loop, takes a player out of its
   session or a publisher's name off the directory, the descriptor out of
   `events_` and the connection off the server's list. A loop ends when
   `looping_` is found false at the top of a round.

Shared between threads: the ring (lock), the consumers (lock), the directory
(lock), each task queue (lock), `active_` (atomic, no lock), `looping_` and
`is_looping_` (one without a lock, one with), the wheels while the server is
started (no lock). Everything else is used by one thread.

### What is hard

* **Wake-up.** `active_` is read, a task is queued and `active_` is set, while
  the task may already be running on another loop.
* **Locks.** The session's lock is held while a task queue's lock is taken, and a
  task that fails to write takes the session's lock.
* **Lapping.** The publisher overwrites the ring under slow players; headers take
  indices but no slots; index and timestamp arithmetic mixes signed and unsigned.
* **Partial writes.** Headers of many packets share `sending_` until everything is
  written, while messages, headers and media are built into it in turn.
* **Cut input.** TCP cuts the stream anywhere, peers interleave chunks and change
  the chunk size while other messages are half received; the buffer grows,
  compacts and starts anew under it.
* **Names that change hands.** Two publishers of one name, players between
  `Exist` and `GetSession`, closes of old publishers; and two copies of a name,
  one of the connection, one of its client, that need not be the same.
* **Three records of connections.** What `epoll` watches, `events_` and the server's
  set; accept, close, error, a failed send and the timeout go through them, and
  `AddEvent` and `DeleteEvent` return early when `epoll_ctl` fails.
* **Time in slots.** A delay is handed from wheel to wheel by destructors that run
  while their slot is being popped, and the periodic check puts itself back from
  one of them.
* **Start and stop.** A thread that runs before its object is constructed, a flag
  that three places write, a destructor that joins the thread it stops.

`PROJECT.json` lists the hazards one by one, each at its line, with the
properties that cover it or the reason why none does.

## 2. The modules

| module | models | one step is |
|---|---|---|
| `Stream` | the stream buffer, what publisher and players do with it | one call of `Push` or `Pop` (both run under `SsmsStream::lock_`) with what the caller does around it |
| `Relay` | the wake-up of players across loops | a stretch of one thread between two accesses to a lock, a queue or an `active_` |
| `SendPath` | `BuildChunk`, `SendNodes`, `OnWrite`, the handshake's sends of one connection | a task or event, cut at each round of its write loop |
| `LiveDirectory` | names, sessions, clients of connections | one call into the directory or a session |
| `ChunkParse` | `OnRead`, the handshake's and the messages' `Parse` of one connection | one round of the loop of `Parse` |
| `Corrector` | the timestamps on their way to one player | one packet |
| `Amf0` | the values of a command and what the connection keeps of them | one message |
| `Fifo` | what `SsmsBuffer` promises: a queue of bytes | one operation |
| `Buffer` | `SsmsBuffer`, which implements it | one public operation |
| `Wheels` | the value of the four wheels, and a tick of it (operators only) | |
| `TimingWheel` | `SsmsTimingWheel` under calls from outside and from its own tasks | one call, one second |
| `LoopThread` | the life of one `SsmsEventLoopThread`: its creator and its thread | a stretch between two shared accesses |
| `Server` | the rounds of a loop, its map of events, the acceptor, the connections and their check; extends `LoopThread`, uses `Wheels` | one handler, `ProcessTask`, `OnTiming` |
| `StreamProofs`, `RelayProofs`, `SendPathProofs`, `LiveDirectoryProofs`, `ChunkParseProofs`, `BufferProofs`, `TimingWheelProofs`, `ServerProofs` | theorems; those about `Corrector` are in `StreamProofs` | |
| `MC...` | values for TLC | |

Variables have the names of the members they model; `vars` groups them by the
object they belong to. A variable marked auxiliary records history for a
property; no guard reads one. Operators whose names begin with `Mut` are
deliberately wrong versions of the definition that follows them. Nothing uses
them: put in that definition's place, each makes the property it belongs to
fail, which shows that the property depends on the code that definition models.

**Stream.** `Pop` is the whole of `SsmsStream::Pop`: the first call, the skip of a
player that is behind (with the erasure of the expired key frames), the headers
and the batch. `PlayNew` is `Play` on an empty `out_packet_`, `PlayLeftOver` on one
where `sending_` was full before; how many packets fit is chosen freely, and
`SendPath` has the reason. Timestamps wrap at `TSMod`; `ExpiredPacketIndex` is
signed, a key frame's index unsigned, and `UnsignedAtMost` is what C++ makes of
their comparison. `NewProducer` is a second publisher that takes over the session
and starts its clock at 0. Audio timestamps are left out, nothing here reads them.

**Relay.** `pc[l]` says where the thread of loop `l` is: in its round of events,
holding the lock of its queue, running tasks, or inside `ActiveAll`,
`PlayResponse` or `OnClose`. `Active` is three steps, as its three accesses are:
`ActiveLoad`, `ActiveAddTask`, `ActiveStore`. `RunTask` covers `Play` and
`PostMessage`: both end in `SendNodes`, whose write takes everything, stops, or
fails. `iovecs_` is whether bytes wait.

**SendPath.** Bytes are intervals: `[mem, from, len]` in `sending_`, in a packet's
payload or in `s0s1s2_`. Memory of a packet that is released may be allocated
again, so that a reference to a released packet is seen. What a loop of the code
adds up (`SizeUpTo`, `BytesUpTo`) is a recursive function, so that proofs can speak
of it. `AfterOnWrite` and
`AfterSendNodes` are the two loops that account for a partial `writev`; they
differ, as in the code. The chunk format is abstracted to the sizes headers may
have.

**LiveDirectory.** `app_` and `stream_` are the context's: every `connect` overwrites
the first, the second keeps the first name that is not empty. `client_[c].name` has
the client's copies, taken by `NewClient` and kept when a later command finds a
client there (`EnsureClient`). Sessions are found and created by the client's
names, and a close deletes by the context's. A connection may mix the commands of
a publisher and of a player, as in the code, where the first client decides and
`releaseStream` and `getStreamLength` replace it; a command that the client refuses
closes the connection. `Publish` and `SetProducer`, and `Play`, `GetSession` and
`AddConsumer`, are the calls into locked objects that one handler makes one after
the other, with other threads in between. A session that is gone between `Exist`
and `GetSession`, or an `FCUnpublish` without a client, makes the code dereference
a null pointer: `running` becomes `FALSE` and nothing happens any more.
`producer_` is only written by the code, and so it is here. Names are pairs: a "/"
inside of one, which would make two pairs the same key, is left out, and so is a
transaction id that happens to be the default of `Process`.

**ChunkParse.** A byte is a record that names the part of the stream it belongs to,
so that a parser out of step with its peer shows. The peer keeps to the protocol:
a fmt 0 first, fmt 1 to 3 only when the header it leaves out is the same. Extended
timestamps and chunk stream ids above 63 are not modelled. Timestamps are not
either: the publisher replaces those of media. `running` becomes `FALSE` when
`OnC1` meets an assertion of the buffer; the build does not define `NDEBUG`.

**Corrector.** The four members are kept wide and signed as in the code, a
timestamp has `Modulus` values, and a sum wraps where the code returns it as
`uint32_t`. Which of `CorrectAudioByAudio`, `CorrectAudioByVideo` and
`CorrectVideo...` answers is decided as in `CorrectTimestamp`.

**Amf0.** A message is a sequence of tokens, the units the code reads and writes
at once, each with its bytes. Members are an `unordered_map`: they are written,
and searched by `GetProperty`, in an order the model leaves free. `Ends` is the
difference between an array, which is read by its count, and an object, which is
read to its end mark. `RECURSIVE` operators are used here: the module is only for
TLC.

**Buffer.** Operators on a value of the three members (`append`, `retrieve`,
`makeSpace` ...), and an action for each public operation, called as its assertions
require. `readFd` has the detour through `extrabuf`. Indices count from 0 as in the
code. `Queue == INSTANCE Fifo WITH queue <- Readable(This)` is the refinement
mapping: the queue is the bytes between the two indices.

**Wheels, TimingWheel.** A task holds its call until its slot is popped, and its
destructor runs it; what is left of the delay is handed to the next smaller wheel
from there. `PopFront` runs the tasks of slot 0 while every slot still has its old
index and then moves the others up, the order `std::deque::pop_front` gives.
`OnTiming` ticks at most once per call, when the second it reads is another one.

**LoopThread, Server.** `main` says where the creator of a loop is, `pc` where the
loop's thread is: before `OnWork`, or in one of the five parts of a round. In
`Server` a handler is one step, since everything it touches belongs to the thread.
What `epoll` reports and what reads, writes and `epoll_ctl` ADD return is free.
`events_` has three sets of descriptors: those with an entry, those whose entry is
one of a closed connection, and those that `epoll` watches. `AddEvent` leaves an old
entry in place (and `epoll` without the descriptor) and keeps a new one that `epoll`
refuses; the connection is in the server's set all the same, can neither read nor
write, and goes with a check. `DeleteEvent` keeps the entry of a descriptor `epoll`
does not watch; closing the descriptor takes it out of `epoll` in any case. `tasks_`
holds the listen task, at most one sending task per connection, and "closed" for
those whose connection has been closed meanwhile: nothing takes them off the queue,
they find `closed_` set. The answer to a handshake is sent from `OnRead`, any other
is a task. The acceptor has one name here whatever the number of its descriptor,
so that a new one never meets an entry left by a connection. Undefined behaviour is
a choice: a thread that reaches `lock_` and `condition_` before they are
initialised gets through, waits for a notification that is lost, or crashes; a
`RunEvery` that meets `OnTiming` may end the process; a handler or a task that comes
back to a connection that has been freed does nothing or crashes (what the memory
may be reused for is not modelled). `running` becomes `FALSE` where
the process crashes or calls `exit`.

## 3. The runs

`pass`: TLC finds no error. `violation`: TLC shows that the code does not do what
a comment says it does; `PROJECT.json` quotes the comment under "findings".

| run | result | bounds | shows |
|---|---|---|---|
| `stream` | pass | 1 player, ring of 3 slots, batches of 2, 6 packets, clock modulo 4 | an index that is not expired is in the ring; players stay within the stream; a player that jumps lands on the oldest listed key frame that is live and recent enough, and at 0 only without one or before the ring has wrapped; a live batch misses nothing; no player misses two headers of a kind; a skip erases no live key frame once the ring has wrapped |
| `relay` | pass | 2 loops, a player on each, 1 reply | no lock cycle; whoever `ActiveAll` visits is a consumer; a closed player is none; a player on the publisher's loop is always woken again; the session's lock is released |
| `relay_lost` | violation | as `relay` | a player of another loop may stay active with nothing under way |
| `sendpath` | pass | 2 packets of 1 and 2 chunks, `sending_` of 5 bytes, 2 messages, 2 tasks, `IOV_MAX` 3 | headers fit into `sending_`; what waits ends in the part of it that is in use, or belongs to a packet that is kept; `OnWrite` loses and reorders nothing; waiting bytes have the write event and are sent |
| `send_twice` | violation | as `sendpath` | a message posted during a partial write queues the earlier chunks again |
| `live` | pass | a publisher, a player's and publisher's connection, an app, a stream and the empty names, 2 clients each, 3 sessions | a dead stream is listed only if its creator had moved to another name or role; everybody is in sessions of their own name; a session is never replaced under its players |
| `chunkparse` | pass | 2 chunk streams, 2 messages each, headers of 3, 2 and 1 bytes, chunks of 1 to 3 | parser and peer agree on every chunk; messages arrive whole and in order; none is put off for ever |
| `wheel` | pass | 2 calls, wheels of 3 seconds, 2 minutes, 2 hours, 2 days, delays in each | a call runs no earlier than asked and at most one unit per wheel later; each waiting call is in exactly one slot |
| `server` | pass | 2 descriptors, 1 event a round, a check every 2 ticks, wheels of 3 seconds | what `epoll` reports goes to the open connection of that descriptor; a silent connection is gone after two periods; an active one is not closed by a check; a `Stop` ends the thread |
| `server_idle` | violation | as `server` | a connection may be silent for longer than the timeout and stay |
| `buffer` | pass | bytes of 2 values, an array of at most 7, strings of at most 3, integers of 1 and 2 bytes | the indices stay in order; the buffer implements `Fifo` |
| `message` | pass | 2 arguments nested 2 deep, 2 keys; 12 timestamps, 3 audios between two videos | values are read as written, whatever their order; sizes agree with what is written; audio stays near its video; a regular source is not changed |

`message` checks `Amf0` and `Corrector`, which share nothing, one at a time.

*Why the bounds are enough.* `stream`: the ring wraps, so does the clock, the
player falls behind by more than a ring, the list has more key frames than are
live, and every kind of packet lies next to every other; more packets repeat
this. `relay`: the two places a player can be, relative to the publisher, are the
only two the code tells apart; the proofs cover any number. `sendpath`: packets
of more and of fewer chunks than fit, writes that stop at every byte, and more
iovecs than one `writev` takes. `live`: two connections are enough for a name to be
released, published and closed by one while the other publishes or plays it, and
one of them can be both; a session is created, deleted and created twice again. `chunkparse`: chunks of two streams in
every order, a chunk size that grows and one that shrinks below a message that
is half received, reads that end after every byte. `MaxWire` bounds how far the
peer is ahead of the parser: bytes further back cannot change what a round does.
`wheel`: 23 of 24 ticks is a delay that goes through all four wheels, and calls are
asked for at each of the 12 phases. `server`: several events that one `epoll_wait`
reports are handled like those of several rounds without a tick between them, so
that one is enough; a descriptor is used again by the next connection, and two
let a check close one connection and keep another. The wheels of three seconds
keep the check in the seconds wheel; `wheel` has the others. `buffer`: the array
fills, compacts, grows twice and shrinks. `message`: each kind of member inside
each kind of nesting, before and after a sibling; the sum of all limits is below
the modulus, as in the code, and the source may send any timestamp.

*Deadlock* is checked in `relay`, `wheel` and `buffer`. The other
passing runs switch it off since they stop rightly: the bounded peers have sent
everything, every connection is closed, or the process has ended.

### What the code does and no run is stated against

The models have the following as the code does it, and no run says otherwise. Most
go against no line of the repository; where one does, it is named. They are notes
for whoever changes this code.

* A player that is too late may be sent back to index 0: `GetGopByLatency` returns
  0 when no key frame is recent enough (`SsmsGopManagment.cpp:21`), where the
  comment of `Pop` (`SsmsStream.cpp:59`) speaks of skipping forward.
* A header takes an index and no slot, so the slot may hold the packet of one ring
  length ago, which `Pop` returns again.
* The first header of a kind may be missed by a player that pops before it comes
  (`SsmsStream.cpp:74`); the second is given, which is `SecondHeaderGiven`.
* A packet whose headers cannot fit into the whole of `sending_` is tried again for
  ever (`SsmsRtmpMessageContext.cpp:654`).
* After a partial write `SendNodes` computes what is left from `iovecs_[0]`, also when
  the write ended in a later iovec (`SsmsTcpConnection.cpp:280`). `HeadersKept` and
  `PayloadKept` say where an interval ends and whose memory it is, not that its bytes
  are the ones not taken, and `OnWriteInOrder` is about the loop of `OnWrite` alone.
* A player that plays again keeps `out_packet_index_` of the session before
  (`SsmsPlayClient.cpp:162`). `Stream` has one session, so that its properties are of
  players that play once.
* In `Close` a dead stream stays listed if its creator had moved: by a second
  `connect`, by a `releaseStream` without a name followed by `publish` with one, or by
  `getStreamLength`. `ListedUnlessMoved` says that there is no other way.
* A player that plays again after its session was deleted and created anew stays
  in the old session, and so does a client that `getStreamLength` replaces; the close
  leaves one session only. `ClosedNotConsumer` is about that one.
* `OnC1` stops the process when C1 arrives in pieces, where
  `SsmsRtmpHandshakeContext.h:22` has a result for it.
* A `Stop` before `OnWork` has begun is overwritten there (`SsmsEventLoop.cpp:36`), and
  the destructor then waits in `join` for ever. The comment above the destructor
  (`SsmsEventLoopThread.cpp:19-21`) says that it calls `Run` so that a thread still at
  `condition_` does not keep it waiting. That `Run` lets the thread on; but the `Stop`
  after it may come too early, the listen task finds no address
  (`SsmsAcceptor.cpp:58`), and a thread that began to wait before `condition_` was
  constructed may not be notified at all. `LoopThread` and `Server` have these steps;
  `StopEnds` is about a `Stop` within a round. The destructor of a loop thread that has an acceptor ends the process, as
  `DeleteEvent` is called from another thread than the loop's. The periodic check
  runs once more while the wheels are being destroyed.
* `connection_timeout_` is not read; the 30 ticks are fixed. `server_idle` shows that
  `Ssms.conf:20` does not hold as it stands, `IdleBound` what does: two periods. A new
  connection counts as not alive, so that the first check may close it at once, which is why
  `ActiveKept` is about connections that a check has seen.
* The first audio of all is not corrected by the video, even if videos went ahead,
  which is why `AudioFollows` waits for both.
* The first name found by `GetProperty` wins, in map order: a nested "app" may be
  found before the one of the command object; `stream_` keeps the first name that
  is not empty. An array with fewer members than its count says is refused.

## 4. Fairness

* `Relay`: each thread runs on. A mutex gives no order to those that wait, so a
  thread that competes for one needs strong fairness, and so does the start of
  `ProcessTask`: a round handles finitely many events. Bytes in `iovecs_` are
  written in the end, or the connection is closed: this is an assumption on the
  peer, that it reads or is closed when it stays silent
  (`CheckConnectionStatus`).
* `SendPath`: the thread goes on with what it has begun (weak). The loop serves a
  writable socket and a queued task among other events (strong). A socket of a
  peer that reads takes bytes again and again (strong). The publisher goes on
  sending, so `Active` comes (weak).
* `ChunkParse`: a peer sends the rest of a message it has begun, TCP delivers,
  and the thread runs on (weak).
* `Server`: the loop's thread runs on (weak, for all its steps together:
  `epoll_wait` has a timeout, and a batch of events is finite). Nothing is assumed of
  the creator, who may keep the object for ever, nor of any peer.
* `TimingWheel`: the clock moves and the loop looks at it (weak); its properties are
  invariants and do not depend on it.

## 5. The proofs

TLAPS proves each theorem for every value of the constants that the named
assumptions of the modules allow; these say no more than the ranges of the
code's types, that null values are no proper ones, that a message that sets the
chunk size is not empty, for `Corrector` that the limits together are less than a
turn of the timestamps, and for `TimingWheel` that a delay fits into the days wheel
(`InsertDays` does not check it) and that no period is 0. Two theorems have a
hypothesis: the period of the check fits into the seconds wheel, as 30 does into 60.

**`StreamProofs`.** `TypeCorrect`, `RingCorrect`, `CursorCorrect`, `GopsCorrect`,
`BatchCorrect`, `LiveGopsKept`, `SkipsLand`, `HeaderCorrect`. `RingIntact` is not
inductive alone: a packet may be overwritten by one of a slot congruent to it, so the invariant
`IInv` adds that every index stored, and every index listed as a key frame, is below
`packet_index_`. Two indices that share a slot differ by at least `BufferSize`
(lemma about `%`), so that what overwrites an index has just made it expire.
`GopsSorted` then gives that the erased prefix of the list is exactly what has
expired. `BatchComplete` speaks of the last `Pop`; pushes after it only add indices
above the cursor, which is why `CursorBounded` is part of the same invariant.
`SkipLands` joins these: the erased list is what has not expired (`ClearedRest`), its
first recent entry is the oldest one (`OldestFits`), and the slot of that holds it.
`SecondHeaderGiven` needs `HeaderInv`: a player is woken up only after a push, so its
first `Pop` moves its cursor off -1, and no second one counts a version for nothing.

Also there, about `Corrector`: `AudioNearVideo`, `RegularUnchanged`. `AudioFollows`
counts around the wrap with `%`; the invariant `FollowInv` says the same without a
modulus: the corrected audio is ahead of the corrected video by a distance within
the limits, or by that distance less one turn. Each audio adds at least 1 and at
most `AUDIO_MAX_DELTA` to it, each video starts it anew.

**`RelayProofs`.** `TypeCorrect`, `ActiveAllSafe`, `ClosedLeft`, `DeadlockFree`,
`LocalNoLostWakeup`. The invariant has four parts: a thread that handles a player
has one (`Handling`); a loop has tasks of its own players only (`TaskInv`); a lock
is held exactly in the stretch of code its guard spans (`LockInv`); consumers are
the players whose status is "playing", handled by their own loop
(`ConsumerInv`). `DeadlockFree` needs only that whoever holds a queue's lock is in
`take` and waits for nothing. `LocalNoLostWakeup` adds `WorkInv`: between
`ActiveAddTask` and `ActiveStore` the publisher's loop cannot run the task it has
just queued, and that is what fails for a player of another loop.

**`SendPathProofs`.** `RoomOfSending`, `WaitingIsArmed`, `HeadersStay`, `PayloadStays`,
`WritesInOrder`. `HeadersFit` needs that `sending_curr_` is a number and that
`out_packet_` holds packets (`RoomInv`); the argument is that `Fits` adds up the
largest headers of all chunks, a product that bounds the one of the headers really
laid down (`LaterHeaders`). `WriteArmed` is inductive alone: every place that leaves
bytes queued turns the event on, and the place that turns it off is reached only
with nothing queued. `HeadersKept` and `PayloadKept` follow from `KeptInv`: every
iovec, in `iovecs_` and in `sending_nodes_` alike, ends before `sending_curr_` if it
is in `sending_`, and belongs to a packet of `sending_pkts_` if it is payload. The two
loops that account for a partial write only drop iovecs or shorten the first, so
they keep it; `ClearSendCompleteData` is reached only with nothing waiting.
`OnWriteInOrder` is about the first of these loops: the bytes of a queue (`BytesUpTo`)
after n of them are those of the queue that `AfterOnWrite` leaves. The position
where a sum of lengths passes n exists as a least one, and each fact about a sum
of lengths is shown for a bound by induction over an interval of numbers.

**`ChunkParseProofs`.** `StaysInStep`, `MessagesReassembled`. Neither is inductive:
whether the next byte is a header depends on all the chunks before it, those
already taken and those on the wire. A *stage* of the connection is a place in `wire`,
a chunk size, and for each chunk stream the number of its next message and how many
of its bytes are done. A chunk leads from one stage to the next (`After`), and the
invariant says that the chunks on the wire lead from the stage of the parser to
that of the peer (`Leads`), that `packets_` holds the first bytes of the message of its
stage, and `prev_recv_headers_` the header that fmt 2 and 3 leave out. The peer's step
adds a chunk at the end (`LeadsOn`), the parser's takes the first (`LeadsFirst`), and
what is taken off the wire moves all stages (`LeadsBack`). Both compute the chunk's
length from their own chunk size and their own count, which is where a
`SetChunkSize` between the chunks of another message matters: it takes effect with
the same chunk on both sides.

**`LiveDirectoryProofs`.** `TypeCorrect`, `DeadUnlessMoved`, `InOwnName`, `NotReplaced`.
The invariant adds that what is listed, held or joined has been created, so that
a new session differs from all of them (`Created`); that a listed session is listed
under the name it was created under, that its creator has had a client since, that
a connection that is joining has one, and that no consumer is a client yet to come
(`Known`). Without the last a client that is new could find itself in a session of
the name its predecessor had.

**`BufferProofs`.** `IndicesOrdered`, `ImplementsFifo`. `Sound` is the order of the
indices on a value of the members; each function has a lemma that says that its
result is sound and which bytes can be read from it (`MakeSpace`: the same as
before; `Append_` and `ReadFd_`: those and the new ones; `Retrieve_`: the rest). A
step of `Buffer` is then the step of `Fifo` of the same name, or `Quiet`. `MakeSpace`
also proves the assertion the code makes there, `kCheapPrepend < readerIndex_`.

**`TimingWheelProofs`.** `RunsOnTime`, `CallsKept`. What a call still has to wait can
be read off the wheels: `Left`, the ticks until its slot is popped, plus `extra`,
what is left of its delay then, plus `Late(extra)`, at most one unit of each wheel
that takes it from there. `OnTime` alone says nothing of calls that are still
waiting; the invariant `CallsInv` says that each of them stands in one slot and no
other (`At`), and that its age and what it still has to wait are together between
its delay and its delay plus `Late`. A tick is four turns of a wheel, and while one
is popped its tasks are put into wheels that have turned in this tick already, into
ones that have not, and into the very wheel that is being popped. So the argument
follows one call through one turn: it is not popped and its `Left` is the same
before and after (`TurnAt`), it is handed on (`TurnHands`), it runs for good
(`TurnRuns`), or it runs and is put back (`TurnAgain`); the tasks of other calls in
the same slot leave it alone (`RunAllOnce`). That a slot's tasks are run one after the
other is a recursive function, whose existence is proved (`RecursionExists`).

**`ServerProofs`.** `TypeCorrect`, `RegisteredAlways`, `IdleGone`, `ActiveNotClosed`.
`Registered` needs that events still to be handled are of descriptors that `epoll`
watches and that there are none outside the handling of events (`Entries`), so that
the tasks and the timer may close any connection, that a stale entry is an entry,
and that the acceptor's descriptor is none of a connection. What `AddEvent` and
`DeleteEvent` do to the three sets is a lemma each (`AddEventAgree`,
`DeleteEventAgree`): the first gives `epoll` only what has a new entry, the second
takes out of `epoll` whatever it leaves an entry of. Nothing is needed of the
wheels for this: whatever a tick runs, a check closes a connection everywhere.
`IdleBound` and `ActiveKept` do need them. A period below a minute is kept in the
seconds wheel, where the check is in one slot j and nothing else is anywhere
(`TickIs`: a tick moves it up, or runs it and puts it back). j is the number of ticks
before the next check, and `TimerInv` bounds the age of each connection by it: from
above by `Period - j` if it is alive and `2 * Period - j` if not, from below by
`Period - 1 - j` if it is not alive although a check has seen it.

*Only model-checked*: `Understood` and `SizesAgree`, which are about recursive
operators, that the prover cannot expand; all liveness (it has no rule for
fairness); the three violations.

## 6. Not modelled

* Extended timestamps, chunk stream ids above 63, the timestamps that are
  received: the publisher replaces those of media.
* A message that ends inside a value, and an array whose count says more than
  there is: the code reads past the end of the packet there.
* Lifetimes of client objects (`getStreamLength` and `releaseStream` replace a client
  that a queued task may still refer to), and what the memory of a freed connection
  is used for next.
* Session names with a "/" in the application or the stream.
* What the handshake's packets contain, and a wrong version in C0.
* Socket options, addresses, logging, configuration, `Main.cpp`: system calls,
  formatting and a start without state of its own. The vendored ini parser and the
  headers under `3rd_party` are no part of this program.
* `EnableReadEvent` and the setters of callbacks: nothing calls the first, the
  others only store.

## 7. Plan

Done, in the order of what a stream cannot do without: `Stream`, `Relay`, `SendPath`,
`LiveDirectory`, `ChunkParse`; then `Wheels` and `TimingWheel`, `LoopThread` and `Server`
over them, `Fifo` and `Buffer`, `Corrector`, `Amf0`; proofs of all of them but
`Amf0`, of every safety property that the runs check.

What would come next:

1. `Delivery`: the abstract relay: a player receives a subsequence of the stream
   that starts at a key frame, which `Stream` without headers would implement.
2. `Relay` with the stream: the player that stays active although it is not served
   is the one whose cursor falls out of the ring.
3. Lifetimes: clients and connections as objects with references, for the tasks
   that keep a plain pointer.
