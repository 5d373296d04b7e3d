------------------------------- MODULE Stream -------------------------------
(***************************************************************************)
(* One live stream: the packet ring of SsmsStream, the codec headers of    *)
(* SsmsCodecHeader, the key frame list of SsmsGopManagment, the publisher  *)
(* that feeds them and the cursors of the players that read them.          *)
(*                                                                         *)
(* Push and Pop run under SsmsStream::lock_, so each is one step.  What a  *)
(* player does with a batch after Pop (BuildChunk on every packet) touches *)
(* only that player, so SsmsPlayClient::Play is one step too.              *)
(***************************************************************************)
EXTENDS Integers, Sequences

CONSTANTS
  Players,         \* the SsmsPlayClient objects of the session
  MediaKinds,      \* media packets the publisher sends, see AllMediaKinds
  HeaderKinds,     \* header packets the publisher sends, see AllHeaderKinds
  BufferSize,      \* packet_buffer_size_ (1000 in the code)
  PopBatch,        \* packets one Pop takes at most (90 in the code)
  Latency,         \* content_latency in milliseconds
  TSMod,           \* timestamps are uint32_t: 2^32
  FrameIntervals,  \* values onMetaData may give v_frame_interval
  MaxIndex,        \* bound: packets ever pushed
  NoPacket         \* an empty slot, a null SsmsPacketPtr

AllMediaKinds  == {"audio", "key", "inter"}
AllHeaderKinds == {"aac", "avc", "meta"}

ASSUME StreamAssumption ==
  /\ MediaKinds \subseteq AllMediaKinds
  /\ HeaderKinds \subseteq AllHeaderKinds
  /\ BufferSize \in Nat \ {0}
  /\ PopBatch \in Nat \ {0}
  /\ Latency \in Nat
  /\ TSMod \in Nat \ {0}
  /\ FrameIntervals \subseteq Nat
  /\ MaxIndex \in Nat

Timestamp == 0 .. TSMod - 1
Packet    == [index : Nat, kind : AllMediaKinds, ts : Timestamp]

ASSUME NoPacketAssumption == NoPacket \notin Packet \cup Nat

VARIABLES
  packet_index_,         \* index of the next packet
  packet_buffer_,        \* slot -> media packet
  headers,               \* header kind -> indices of the headers kept, oldest first
  gops_,                 \* key frames, oldest first
  latest_timestamp_,     \* timestamp of the newest video frame
  next_video_timestamp,  \* SsmsPublishClient: timestamp of the next video frame
  v_frame_interval,      \* SsmsPublishClient: its increment
  active_,               \* players ActiveAll has asked to play
  out_packet_,           \* player -> packets waiting for BuildChunk, by requested index
  out_packet_index_,     \* player -> last index requested
  out_video_original_timestamp_,
  header_version,        \* player -> header kind -> version it believes it has
  header_given,          \* auxiliary: player -> header kind -> headers handed to it
  stored,                \* auxiliary: indices of the media packets pushed
  last_pop               \* auxiliary: player -> what its last Pop did

publisherVars == <<next_video_timestamp, v_frame_interval>>
streamVars    == <<packet_index_, packet_buffer_, headers, latest_timestamp_, stored>>
playerVars    == <<out_packet_, out_packet_index_, out_video_original_timestamp_,
                   header_version, header_given, last_pop>>
vars == <<publisherVars, streamVars, gops_, active_, playerVars>>

-----------------------------------------------------------------------------
(* Operators of the stream *)

\* Unsigned 32-bit subtraction.
U32Minus(a, b) == (a - b) % TSMod

IsVideo(pkt) == pkt.kind \in {"key", "inter"}

\* Mutant: the oldest slot counted as live although it is the next one written.
MutExpiredPacketIndex == packet_index_ - 2 - BufferSize

\* packet_index_ - 1 - packet_buffer_size_, as a signed 64-bit number.
ExpiredPacketIndex == packet_index_ - 1 - BufferSize

\* The slot of an index.
Slot(i) == i % BufferSize

\* The loop ends at the oldest key frame that is at most `latency' behind the
\* newest frame; without one the result keeps its initial value 0.
GetGopByLatency(gops, latency) ==
  LET fits == {i \in DOMAIN gops : U32Minus(latest_timestamp_, gops[i].ts) <= latency}
  IN  IF fits = {} THEN 0
      ELSE gops[CHOOSE i \in fits : \A j \in fits : i <= j].index

\* Mutant: the list is cleared one index too far.
MutUnsignedAtMost(i, min_index) == min_index < 0 \/ i <= min_index + 1

\* key_frame_index is uint64_t and min_index an int: the comparison converts a
\* negative min_index to a number above every index.
UnsignedAtMost(i, min_index) == min_index < 0 \/ i <= min_index

\* The expired prefix of the list is erased.
ClearExpiredGop(gops, min_index) ==
  LET kept == {i \in DOMAIN gops : ~UnsignedAtMost(gops[i].index, min_index)}
  IN  IF kept = {} THEN <<>>
      ELSE SubSeq(gops, CHOOSE i \in kept : \A j \in kept : i <= j, Len(gops))

HeaderVersion(k) == Len(headers[k])

\* Mutant: nothing is handed over when every header is older than index.
MutPopHeader(k, index) ==
  LET from == {i \in DOMAIN headers[k] : headers[k][i] >= index}
  IN  IF from = {} THEN NoPacket ELSE headers[k][CHOOSE i \in from : \A j \in from : i <= j]

\* The scan goes from the newest header down and stops at one older than
\* `index': the oldest header not below index, or the very first header.
PopHeader(k, index) ==
  LET hs   == headers[k]
      from == {i \in DOMAIN hs : hs[i] >= index}
  IN  IF hs = <<>> THEN NoPacket
      ELSE IF from = {} THEN hs[1]
      ELSE hs[CHOOSE i \in from : \A j \in from : i <= j]

-----------------------------------------------------------------------------
Init ==
  /\ packet_index_ = 0
  /\ packet_buffer_ = [s \in 0 .. BufferSize - 1 |-> NoPacket]
  /\ headers = [k \in HeaderKinds |-> <<>>]
  /\ gops_ = <<>>
  /\ latest_timestamp_ = 0
  /\ next_video_timestamp = 0
  /\ v_frame_interval = 0
  /\ active_ = {}
  /\ out_packet_ = [p \in Players |-> <<>>]
  /\ out_packet_index_ = [p \in Players |-> -1]
  /\ out_video_original_timestamp_ = [p \in Players |-> 0]
  /\ header_version = [p \in Players |-> [k \in HeaderKinds |-> 0]]
  /\ header_given = [p \in Players |-> [k \in HeaderKinds |-> {}]]
  /\ stored = {}
  /\ last_pop = [p \in Players |-> [first |-> 0, expired |-> 0, taken |-> <<>>]]

(***************************************************************************)
(* SsmsStream::Push.  A header takes an index but no slot: the slot of its *)
(* index keeps whatever it held.                                           *)
(***************************************************************************)
PushHeader(k) ==
  /\ headers' = [headers EXCEPT ![k] = Append(@, packet_index_)]
  /\ packet_index_' = packet_index_ + 1
  /\ UNCHANGED <<packet_buffer_, gops_, latest_timestamp_, stored>>

\* Mutant: the newest key frame is put in front.
MutListedFirst(pkt) ==
  IF pkt.kind = "key" THEN <<[index |-> pkt.index, ts |-> pkt.ts]>> \o gops_ ELSE gops_

\* SsmsGopManagment::PushPacket: the key frame list after pkt.
ListKeyFrame(pkt) ==
  IF pkt.kind = "key" THEN Append(gops_, [index |-> pkt.index, ts |-> pkt.ts]) ELSE gops_

PushMedia(kind, ts) ==
  LET pkt == [index |-> packet_index_, kind |-> kind, ts |-> ts]
  IN  /\ gops_' = ListKeyFrame(pkt)
      /\ latest_timestamp_' = IF IsVideo(pkt) THEN ts ELSE latest_timestamp_
      /\ packet_buffer_' = [packet_buffer_ EXCEPT ![Slot(packet_index_)] = pkt]
      /\ stored' = stored \cup {packet_index_}
      /\ packet_index_' = packet_index_ + 1
      /\ UNCHANGED headers

\* SsmsSession::ActiveAll, for this stream's session.
ActiveAll == active_' = Players

-----------------------------------------------------------------------------
(* The publisher *)

\* SsmsPublishClient::ProcessAudioVideo on a sequence header.
ProcessSequenceHeader(k) ==
  /\ k # "meta"
  /\ packet_index_ < MaxIndex
  /\ PushHeader(k)
  /\ ActiveAll
  /\ UNCHANGED <<publisherVars, playerVars>>

\* Mutant: the clock does not wrap.
MutNextTimestamp == next_video_timestamp + v_frame_interval

NextTimestamp == (next_video_timestamp + v_frame_interval) % TSMod

\* SsmsPublishClient::ProcessAudioVideo on a frame: video frames are restamped.
ProcessAudioVideo(kind) ==
  /\ packet_index_ < MaxIndex
  /\ IF kind = "audio"
     THEN /\ PushMedia(kind, 0)
          /\ UNCHANGED next_video_timestamp
     ELSE /\ PushMedia(kind, next_video_timestamp)
          /\ next_video_timestamp' = NextTimestamp
  /\ ActiveAll
  /\ UNCHANGED <<v_frame_interval, playerVars>>

\* SsmsPublishClient::ParseDataMessage: onMetaData sets the frame interval and
\* is pushed, without ActiveAll.
ParseDataMessage(interval) ==
  /\ "meta" \in HeaderKinds
  /\ packet_index_ < MaxIndex
  /\ v_frame_interval' = interval
  /\ PushHeader("meta")
  /\ UNCHANGED <<next_video_timestamp, active_, playerVars>>

\* Another connection publishes the same name: CreateSession returns the
\* session and the new SsmsPublishClient starts its timestamps again.
NewProducer ==
  /\ packet_index_ < MaxIndex
  /\ next_video_timestamp # 0 \/ v_frame_interval # 0
  /\ next_video_timestamp' = 0
  /\ v_frame_interval' = 0
  /\ UNCHANGED <<streamVars, gops_, active_, playerVars>>

-----------------------------------------------------------------------------
(* The player *)

\* Mutant: the loop does not stop at the newest index.
MutBatchEnd(idx) == idx + PopBatch - 1

\* Mutant: the loop starts after the index it was asked for.
MutTakeBatch(idx) ==
  LET full == {i \in idx + 1 .. packet_index_ - 1 : packet_buffer_[Slot(i)] # NoPacket}
  IN  [i \in full |-> packet_buffer_[Slot(i)]]

\* The loop of Pop takes PopBatch indices from idx, and none that is not pushed yet.
BatchEnd(idx) ==
  IF idx >= packet_index_ THEN idx - 1
  ELSE IF idx + PopBatch <= packet_index_ THEN idx + PopBatch - 1
  ELSE packet_index_ - 1

\* The packets of the non-empty slots of those indices.
TakeBatch(idx) ==
  LET full == {i \in idx .. BatchEnd(idx) : packet_buffer_[Slot(i)] # NoPacket}
  IN  [i \in full |-> packet_buffer_[Slot(i)]]

\* Too old for the ring, or the newest frame is too far ahead.
IsBehind(p, idx) ==
  \/ idx <= ExpiredPacketIndex
  \/ U32Minus(latest_timestamp_, out_video_original_timestamp_[p]) >= 2 * Latency

\* SsmsStream::Pop.  meta_, aac_sequence_header_ and avc_sequence_header_ go to
\* BuildChunk in the same step, so a header popped is a header handed over.
Pop(p) ==
  LET src      == out_packet_index_[p] + 1
      is_first == src = 0
      is_skip  == ~is_first /\ IsBehind(p, src)
      gops     == IF is_skip THEN ClearExpiredGop(gops_, ExpiredPacketIndex) ELSE gops_
      idx      == IF is_first \/ is_skip THEN GetGopByLatency(gops, Latency) ELSE src
      seen     == [k \in HeaderKinds |-> header_version[p][k] + IF is_first THEN 1 ELSE 0]
      newer    == {k \in HeaderKinds : HeaderVersion(k) > seen[k]}
      popped   == [k \in HeaderKinds |->
                     IF k \in newer THEN {PopHeader(k, idx)}
                     ELSE IF is_first THEN {PopHeader(k, 0)} ELSE {}]
  IN  /\ gops_' = gops
      /\ header_version' = [header_version EXCEPT ![p] =
                              [k \in HeaderKinds |-> seen[k] + IF k \in newer THEN 1 ELSE 0]]
      /\ header_given' = [header_given EXCEPT ![p] =
                            [k \in HeaderKinds |-> @[k] \cup (popped[k] \ {NoPacket})]]
      /\ out_packet_index_' = [out_packet_index_ EXCEPT ![p] = BatchEnd(idx)]
      /\ last_pop' = [last_pop EXCEPT ![p] = [first |-> idx,
                         expired |-> ExpiredPacketIndex, taken |-> TakeBatch(idx)]]

\* BuildChunk takes the waiting packets up to index m; sending_ is full then,
\* which how much was sent before decides.
BuildChunks(p, waiting) ==
  \E m \in DOMAIN waiting \cup {-1} :
    LET video == {i \in DOMAIN waiting : i <= m /\ IsVideo(waiting[i])}
        left  == {i \in DOMAIN waiting : i > m}
    IN  /\ out_packet_' = [out_packet_ EXCEPT ![p] = [i \in left |-> waiting[i]]]
        /\ out_video_original_timestamp_' =
             IF video = {} THEN out_video_original_timestamp_
             ELSE [out_video_original_timestamp_ EXCEPT ![p] =
                     waiting[CHOOSE i \in video : \A j \in video : j <= i].ts]

\* SsmsPlayClient::Play, on an empty list and on one with packets left over.
PlayNew(p) ==
  /\ p \in active_
  /\ DOMAIN out_packet_[p] = {}
  /\ Pop(p)
  /\ BuildChunks(p, last_pop'[p].taken)
  /\ active_' = active_ \ {p}
  /\ UNCHANGED <<publisherVars, streamVars>>

PlayLeftOver(p) ==
  /\ p \in active_
  /\ DOMAIN out_packet_[p] # {}
  /\ BuildChunks(p, out_packet_[p])
  /\ active_' = active_ \ {p}
  /\ UNCHANGED <<publisherVars, streamVars, gops_, out_packet_index_,
                 header_version, header_given, last_pop>>

-----------------------------------------------------------------------------
Next ==
  \/ \E k \in HeaderKinds : ProcessSequenceHeader(k)
  \/ \E kind \in MediaKinds : ProcessAudioVideo(kind)
  \/ \E interval \in FrameIntervals : ParseDataMessage(interval)
  \/ NewProducer
  \/ \E p \in Players : PlayNew(p)
  \/ \E p \in Players : PlayLeftOver(p)

Spec == Init /\ [][Next]_vars

-----------------------------------------------------------------------------
(* Properties *)

\* A batch of packets, each under the index that was requested.
IsBatch(b) == DOMAIN b \subseteq Nat /\ \A i \in DOMAIN b : b[i] \in Packet

\* Every variable keeps its type through pushes, pops, skips and new producers.
TypeOK ==
  /\ packet_index_ \in Nat
  /\ packet_buffer_ \in [0 .. BufferSize - 1 -> Packet \cup {NoPacket}]
  /\ headers \in [HeaderKinds -> Seq(Nat)]
  /\ gops_ \in Seq([index : Nat, ts : Timestamp])
  /\ latest_timestamp_ \in Timestamp
  /\ next_video_timestamp \in Timestamp
  /\ v_frame_interval \in FrameIntervals \cup {0}
  /\ active_ \subseteq Players
  /\ DOMAIN out_packet_ = Players
  /\ \A p \in Players : IsBatch(out_packet_[p])
  /\ out_packet_index_ \in [Players -> Nat \cup {-1}]
  /\ out_video_original_timestamp_ \in [Players -> Timestamp]
  /\ header_version \in [Players -> [HeaderKinds -> Nat]]
  /\ header_given \in [Players -> [HeaderKinds -> SUBSET Nat]]
  /\ stored \subseteq Nat
  /\ DOMAIN last_pop = Players
  /\ \A p \in Players : /\ last_pop[p].first \in Nat
                        /\ last_pop[p].expired \in Int
                        /\ IsBatch(last_pop[p].taken)

\* ExpiredPacketIndex promises that an index above it is still in the ring:
\* the slot of such a media packet holds that packet and no newer one.
RingIntact ==
  \A i \in stored : i > ExpiredPacketIndex =>
    /\ packet_buffer_[Slot(i)] # NoPacket
    /\ packet_buffer_[Slot(i)].index = i

\* A player never runs past the stream: the next index it asks for is at most
\* the next index the publisher takes, and no packet it holds is from beyond.
CursorBounded ==
  \A p \in Players :
    /\ out_packet_index_[p] < packet_index_
    /\ \A i \in DOMAIN out_packet_[p] : i < packet_index_

\* The key frame list is in stream order, so that erasing its expired prefix
\* erases all that expired and GetGopByLatency ends at the oldest that fits.
GopsSorted ==
  \A i, j \in DOMAIN gops_ : i < j => gops_[i].index < gops_[j].index

\* A jump to a listed key frame that has not expired lands on that key frame.
GopIsKeyFrame ==
  \A i \in DOMAIN gops_ : gops_[i].index > ExpiredPacketIndex =>
    packet_buffer_[Slot(gops_[i].index)] =
      [index |-> gops_[i].index, kind |-> "key", ts |-> gops_[i].ts]

\* A batch that starts above the expired index misses no media packet of its
\* range and has each at its place.
BatchComplete ==
  \A p \in Players :
    last_pop[p].first > last_pop[p].expired =>
      \A i \in stored : last_pop[p].first <= i /\ i <= out_packet_index_[p] =>
        /\ i \in DOMAIN last_pop[p].taken
        /\ last_pop[p].taken[i].index = i

\* Once the ring has wrapped, a skip of one player erases no key frame that the
\* others could still be sent to.
LiveGopKept ==
  [][ExpiredPacketIndex >= 0 =>
       \A i \in DOMAIN gops_ : gops_[i].index > ExpiredPacketIndex =>
         \E j \in DOMAIN gops_' : gops_'[j] = gops_[i]]_vars

\* The listed key frames that are still in the ring and recent enough.
Landings ==
  {g \in DOMAIN gops_ : /\ gops_[g].index > ExpiredPacketIndex
                        /\ U32Minus(latest_timestamp_, gops_[g].ts) <= Latency}

\* A player that does not go on where it was (the newest frame is too far ahead,
\* or the ring has overtaken it) goes on with the oldest key frame that is listed,
\* still in the ring and recent enough, and is given that key frame first.  Only if
\* there is none, or before the ring has wrapped, when the list is cleared whatever
\* is in it, it goes back to 0.
SkipLands ==
  [][\A p \in Players :
       LET first == last_pop'[p].first
           at    == {gops_[g].index : g \in Landings}
       IN  PlayNew(p) /\ out_packet_index_[p] >= 0 /\ first # out_packet_index_[p] + 1 =>
             IF ExpiredPacketIndex < 0 \/ at = {} THEN first = 0
             ELSE /\ first \in at /\ \A i \in at : first <= i
                  /\ first \in DOMAIN last_pop'[p].taken
                  /\ last_pop'[p].taken[first].kind = "key"
                  /\ last_pop'[p].taken[first].index = first]_vars

\* A player that counts two versions of a header has been given one of them: the
\* first Pop counts one that may not exist, but never two.
SecondHeaderGiven ==
  \A p \in Players, k \in HeaderKinds :
    header_version[p][k] >= 2 => header_given[p][k] # {}

=============================================================================
