--------------------------- MODULE StreamProofs ----------------------------
(***************************************************************************)
(* Proofs about what a player is sent: about Stream, for every ring size,  *)
(* batch size, latency and number of players, and about the timestamps     *)
(* that Corrector gives its packets, which know nothing of the stream.     *)
(***************************************************************************)
EXTENDS Stream, Corrector, SequenceTheorems, WellFoundedInduction, TLAPS

-----------------------------------------------------------------------------
(* Arithmetic and extrema *)

LEMMA NatMin ==
  ASSUME NEW T \in SUBSET Nat, T # {}
  PROVE  \E m \in T : \A j \in T : m <= j
<1>1. PICK m \in T : \A j \in T : ~(<<j, m>> \in OpToRel(<, Nat))
  BY WFMin, NatLessThanWellFounded
<1>2. \A j \in T : ~(j < m)
  BY <1>1 DEF OpToRel
<1>. QED BY <1>2

LEMMA BoundedMax ==
  ASSUME NEW n \in Int, NEW T \in SUBSET Nat, T # {}, \A j \in T : j <= n
  PROVE  \E m \in T : \A j \in T : j <= m
<1>. DEFINE U == {n - j : j \in T}
<1>1. U \in SUBSET Nat /\ U # {}
  <2>1. \A j \in T : n - j \in Nat
    OBVIOUS
  <2>. QED BY <2>1
<1>2. PICK u \in U : \A v \in U : u <= v
  BY <1>1, NatMin
<1>3. PICK m \in T : u = n - m
  BY <1>2
<1>4. \A j \in T : n - j \in U
  OBVIOUS
<1>5. \A j \in T : n - m <= n - j
  BY <1>2, <1>3, <1>4
<1>6. \A j \in T : j <= m
  BY <1>5
<1>. QED BY <1>6

LEMMA MultiplesApart ==
  ASSUME NEW x \in Int, NEW y \in Int, NEW b \in Nat \ {0}, x < y
  PROVE  b * y - b * x >= b
<1>1. PICK d \in Nat \ {0} : y = x + d
  <2>1. y - x \in Nat \ {0} /\ y = x + (y - x)
    OBVIOUS
  <2>. QED BY <2>1
<1>2. b * y = b * x + b * d
  BY <1>1
<1>3. b * d >= b
  OBVIOUS
<1>4. b * x \in Int /\ b * y \in Int /\ b * d \in Int
  OBVIOUS
<1>. QED BY <1>2, <1>3, <1>4

\* Two indices less than a ring apart have different slots.
LEMMA SlotsDiffer ==
  ASSUME NEW i \in Nat, NEW n \in Nat, i < n, n - i < BufferSize
  PROVE  Slot(i) # Slot(n)
<1>. USE StreamAssumption DEF Slot
<1>. SUFFICES ASSUME i % BufferSize = n % BufferSize PROVE FALSE
  OBVIOUS
<1>. DEFINE x == i \div BufferSize
            y == n \div BufferSize
<1>1. /\ x \in Int /\ y \in Int
      /\ i % BufferSize \in Int /\ n % BufferSize \in Int
      /\ i = BufferSize * x + (i % BufferSize)
      /\ n = BufferSize * y + (n % BufferSize)
  OBVIOUS
<1>. HIDE DEF x, y
<1>2. BufferSize * x \in Int /\ BufferSize * y \in Int
  BY <1>1
<1>3. n - i = BufferSize * y - BufferSize * x
  BY <1>1, <1>2
<1>4. x < y \/ y < x
  BY <1>1, <1>2, <1>3
<1>5. CASE x < y
  BY <1>1, <1>2, <1>3, <1>5, MultiplesApart
<1>6. CASE y < x
  BY <1>1, <1>2, <1>3, <1>6, MultiplesApart
<1>. QED BY <1>4, <1>5, <1>6

LEMMA SlotType == \A i \in Nat : Slot(i) \in 0 .. BufferSize - 1
  BY StreamAssumption DEF Slot

LEMMA MinusType == \A a, b \in Timestamp : U32Minus(a, b) \in Timestamp
  BY StreamAssumption DEF Timestamp, U32Minus

-----------------------------------------------------------------------------
(* The operators of the stream *)

Gop == [index : Nat, ts : Timestamp]

LEMMA GopIndex ==
  ASSUME NEW gops \in Seq(Gop), NEW i \in DOMAIN gops
  PROVE  gops[i].index \in Nat /\ gops[i].ts \in Timestamp
<1>1. gops[i] \in Gop
  OBVIOUS
<1>. QED BY <1>1 DEF Gop

\* GetGopByLatency returns the index of a listed key frame, or 0.
LEMMA GopByLatency ==
  ASSUME NEW gops \in Seq(Gop), NEW latency
  PROVE  \/ GetGopByLatency(gops, latency) = 0
         \/ \E i \in DOMAIN gops : GetGopByLatency(gops, latency) = gops[i].index
<1>. DEFINE fits == {i \in DOMAIN gops : U32Minus(latest_timestamp_, gops[i].ts) <= latency}
<1>1. CASE fits = {}
  BY <1>1 DEF GetGopByLatency
<1>2. CASE fits # {}
  <2>1. \E i \in fits : \A j \in fits : i <= j
    BY <1>2, NatMin, fits \in SUBSET Nat
  <2>2. (CHOOSE i \in fits : \A j \in fits : i <= j) \in DOMAIN gops
    BY <2>1
  <2>. QED BY <1>2, <2>2 DEF GetGopByLatency
<1>. QED BY <1>1, <1>2

\* ClearExpiredGop returns a suffix of the list that holds every entry the
\* comparison keeps.
LEMMA ClearExpired ==
  ASSUME NEW gops \in Seq(Gop), NEW min_index \in Int
  PROVE  LET left == ClearExpiredGop(gops, min_index)
         IN  /\ left \in Seq(Gop)
             /\ \E d \in Nat : \A j \in DOMAIN left :
                  j + d \in DOMAIN gops /\ left[j] = gops[j + d]
             /\ \A i \in DOMAIN gops : ~UnsignedAtMost(gops[i].index, min_index) =>
                  \E j \in DOMAIN left : left[j] = gops[i]
<1>. DEFINE kept == {i \in DOMAIN gops : ~UnsignedAtMost(gops[i].index, min_index)}
            left == ClearExpiredGop(gops, min_index)
<1>1. CASE kept = {}
  <2>1. left = <<>>
    BY <1>1 DEF ClearExpiredGop
  <2>2. 0 \in Nat /\ \A j \in DOMAIN left : FALSE
    BY <2>1
  <2>. QED BY <1>1, <2>1, <2>2
<1>2. CASE kept # {}
  <2>. DEFINE m == CHOOSE i \in kept : \A j \in kept : i <= j
  <2>1. \E i \in kept : \A j \in kept : i <= j
    BY <1>2, NatMin, kept \in SUBSET Nat
  <2>2. m \in kept /\ \A j \in kept : m <= j
    BY <2>1
  <2>3. m \in 1 .. Len(gops)
    BY <2>2
  <2>4. left = SubSeq(gops, m, Len(gops))
    BY <1>2 DEF ClearExpiredGop
  <2>. HIDE DEF m, kept, left
  <2>5. /\ left \in Seq(Gop)
        /\ Len(left) = Len(gops) - m + 1
        /\ \A j \in 1 .. Len(left) : left[j] = gops[m + j - 1]
    BY <2>3, <2>4, SubSeqProperties
  <2>6. /\ m - 1 \in Nat
        /\ \A j \in DOMAIN left : j + (m - 1) \in DOMAIN gops /\ left[j] = gops[j + (m - 1)]
    BY <2>3, <2>5
  <2>7. ASSUME NEW i \in DOMAIN gops, ~UnsignedAtMost(gops[i].index, min_index)
        PROVE  \E j \in DOMAIN left : left[j] = gops[i]
    <3>1. i \in kept /\ m <= i
      BY <2>2, <2>7 DEF kept
    <3>2. i - m + 1 \in DOMAIN left /\ left[i - m + 1] = gops[i]
      BY <2>3, <2>5, <3>1
    <3>. QED BY <3>2
  <2>. QED BY <2>5, <2>6, <2>7 DEF left
<1>. QED BY <1>1, <1>2

\* PopHeader returns the index of a header that is kept, or nothing when none is.
LEMMA PopHeaderType ==
  ASSUME headers \in [HeaderKinds -> Seq(Nat)], NEW k \in HeaderKinds, NEW index
  PROVE  /\ PopHeader(k, index) \in Nat \cup {NoPacket}
         /\ headers[k] # <<>> => PopHeader(k, index) \in Nat
<1>. DEFINE hs == headers[k]
            from == {i \in DOMAIN hs : hs[i] >= index}
<1>1. CASE hs = <<>>
  BY <1>1 DEF PopHeader
<1>2. CASE hs # <<>> /\ from = {}
  <2>1. hs[1] \in Nat
    BY <1>2
  <2>. QED BY <1>2, <2>1 DEF PopHeader
<1>3. CASE hs # <<>> /\ from # {}
  <2>1. \E i \in from : \A j \in from : i <= j
    BY <1>3, NatMin, from \in SUBSET Nat
  <2>2. hs[CHOOSE i \in from : \A j \in from : i <= j] \in Nat
    BY <2>1
  <2>. QED BY <1>3, <2>2 DEF PopHeader
<1>. QED BY <1>1, <1>2, <1>3

\* The range of a batch ends below the next index of the stream.
LEMMA BatchEndBound ==
  ASSUME packet_index_ \in Nat, NEW idx \in Nat, idx <= packet_index_
  PROVE  /\ BatchEnd(idx) \in Nat \cup {-1}
         /\ BatchEnd(idx) < packet_index_
  BY StreamAssumption DEF BatchEnd

\* A batch holds the packets of the non-empty slots of its range.
LEMMA TakeBatchProperties ==
  ASSUME packet_buffer_ \in [0 .. BufferSize - 1 -> Packet \cup {NoPacket}],
         packet_index_ \in Nat, NEW idx \in Nat, idx <= packet_index_
  PROVE  /\ IsBatch(TakeBatch(idx))
         /\ \A i \in idx .. BatchEnd(idx) : packet_buffer_[Slot(i)] # NoPacket =>
              i \in DOMAIN TakeBatch(idx) /\ TakeBatch(idx)[i] = packet_buffer_[Slot(i)]
         /\ DOMAIN TakeBatch(idx) \subseteq idx .. BatchEnd(idx)
  BY SlotType, BatchEndBound, SMTT(30) DEF TakeBatch, IsBatch

-----------------------------------------------------------------------------
(* The inductive invariant.  RingIntact and GopIsKeyFrame need to know that  *)
(* every index in use is below packet_index_; BatchComplete survives later   *)
(* pushes because the range of a batch ends below packet_index_.             *)

StreamType ==
  /\ packet_index_ \in Nat
  /\ packet_buffer_ \in [0 .. BufferSize - 1 -> Packet \cup {NoPacket}]
  /\ headers \in [HeaderKinds -> Seq(Nat)]
  /\ gops_ \in Seq(Gop)
  /\ latest_timestamp_ \in Timestamp
  /\ stored \subseteq Nat

StreamInv ==
  /\ StreamType
  /\ \A i \in stored : i < packet_index_
  /\ \A i \in DOMAIN gops_ : gops_[i].index < packet_index_
  /\ RingIntact
  /\ GopsSorted
  /\ GopIsKeyFrame

PublisherType ==
  /\ next_video_timestamp \in Timestamp
  /\ v_frame_interval \in FrameIntervals \cup {0}
  /\ active_ \subseteq Players

PlayerType ==
  /\ DOMAIN out_packet_ = Players
  /\ \A p \in Players : IsBatch(out_packet_[p])
  /\ out_packet_index_ \in [Players -> Nat \cup {-1}]
  /\ out_video_original_timestamp_ \in [Players -> Timestamp]
  /\ header_version \in [Players -> [HeaderKinds -> Nat]]
  /\ header_given \in [Players -> [HeaderKinds -> SUBSET Nat]]
  /\ DOMAIN last_pop = Players
  /\ \A p \in Players : /\ last_pop[p].first \in Nat
                        /\ last_pop[p].expired \in Int
                        /\ IsBatch(last_pop[p].taken)

PlayerInv == PlayerType /\ CursorBounded /\ BatchComplete

IInv == StreamInv /\ PublisherType /\ PlayerInv

LEMMA IInvInit == Init => IInv
<1>. SUFFICES ASSUME Init PROVE IInv
  OBVIOUS
<1>. USE StreamAssumption DEF Init
<1>1. StreamInv
  BY DEF StreamInv, StreamType, RingIntact, GopsSorted, GopIsKeyFrame, Timestamp
<1>2. PublisherType
  BY DEF PublisherType, Timestamp
<1>3. PlayerType
  BY DEF PlayerType, IsBatch, Timestamp
<1>4. CursorBounded /\ BatchComplete
  BY DEF CursorBounded, BatchComplete
<1>. QED BY <1>1, <1>2, <1>3, <1>4 DEF IInv, PlayerInv

-----------------------------------------------------------------------------
(* Pushing *)

LEMMA PushHeaderKeeps ==
  ASSUME StreamInv, NEW k \in HeaderKinds, PushHeader(k)
  PROVE  StreamInv'
<1>. USE StreamAssumption DEF PushHeader, StreamInv, StreamType
<1>1. StreamType'
  BY DEF Gop
<1>2. (\A i \in stored : i < packet_index_)'
  OBVIOUS
<1>3. (\A i \in DOMAIN gops_ : gops_[i].index < packet_index_)'
  <2>1. \A i \in DOMAIN gops_ : gops_[i].index \in Nat
    BY GopIndex
  <2>. QED BY <2>1
<1>4. RingIntact'
  <2>1. \A i \in stored : i > ExpiredPacketIndex' => i > ExpiredPacketIndex
    BY DEF ExpiredPacketIndex
  <2>. QED BY <2>1 DEF RingIntact
<1>5. GopsSorted'
  BY DEF GopsSorted
<1>6. GopIsKeyFrame'
  <2>1. \A i \in DOMAIN gops_ : gops_[i].index \in Nat
    BY GopIndex
  <2>. QED BY <2>1 DEF GopIsKeyFrame, ExpiredPacketIndex
<1>. QED BY <1>1, <1>2, <1>3, <1>4, <1>5, <1>6

LEMMA PushMediaKeeps ==
  ASSUME StreamInv, NEW kind \in AllMediaKinds, NEW ts \in Timestamp, PushMedia(kind, ts)
  PROVE  StreamInv'
<1>. USE StreamAssumption DEF StreamInv, StreamType
<1>. DEFINE pkt == [index |-> packet_index_, kind |-> kind, ts |-> ts]
            new == [index |-> packet_index_, ts |-> ts]
<1>0. /\ packet_index_' = packet_index_ + 1
      /\ packet_buffer_' = [packet_buffer_ EXCEPT ![Slot(packet_index_)] = pkt]
      /\ stored' = stored \cup {packet_index_}
      /\ gops_' = IF kind = "key" THEN Append(gops_, new) ELSE gops_
      /\ UNCHANGED headers
      /\ latest_timestamp_' \in Timestamp
  BY DEF PushMedia, ListKeyFrame
<1>1. pkt \in Packet /\ new \in Gop /\ Slot(packet_index_) \in 0 .. BufferSize - 1
  BY SlotType DEF Packet, Gop
<1>2. StreamType'
  <2>1. packet_buffer_' \in [0 .. BufferSize - 1 -> Packet \cup {NoPacket}]
    BY <1>0, <1>1
  <2>2. gops_' \in Seq(Gop)
    BY <1>0, <1>1
  <2>3. packet_index_' \in Nat /\ stored' \subseteq Nat
    <3>1. packet_index_' = packet_index_ + 1 /\ stored' = stored \cup {packet_index_}
      BY <1>0
    <3>. QED BY <3>1
  <2>. QED BY <1>0, <2>1, <2>2, <2>3
<1>3. (\A i \in stored : i < packet_index_)'
  BY <1>0
<1>4. \A i \in DOMAIN gops_ : gops_[i].index \in Nat
  BY GopIndex
<1>5. \A i \in DOMAIN gops_' :
        \/ i \in DOMAIN gops_ /\ gops_'[i] = gops_[i]
        \/ kind = "key" /\ gops_'[i] = new /\ i = Len(gops_) + 1
  BY <1>0
<1>6. (\A i \in DOMAIN gops_ : gops_[i].index < packet_index_)'
  BY <1>0, <1>4, <1>5
<1>7. /\ packet_buffer_'[Slot(packet_index_)] = pkt
      /\ \A i \in Nat : i < packet_index_ /\ i > ExpiredPacketIndex' =>
           packet_buffer_'[Slot(i)] = packet_buffer_[Slot(i)] /\ i > ExpiredPacketIndex
  <2>1. ASSUME NEW i \in Nat, i < packet_index_, i > ExpiredPacketIndex'
        PROVE  Slot(i) # Slot(packet_index_) /\ i > ExpiredPacketIndex
    BY <1>0, <2>1, SlotsDiffer DEF ExpiredPacketIndex
  <2>. QED BY <1>0, <1>1, <2>1, SlotType
<1>8. RingIntact'
  <2>. SUFFICES ASSUME NEW i \in stored', i > ExpiredPacketIndex'
                PROVE  packet_buffer_'[Slot(i)] # NoPacket /\ packet_buffer_'[Slot(i)].index = i
    BY DEF RingIntact
  <2>1. CASE i = packet_index_
    BY <1>1, <1>7, <2>1, NoPacketAssumption
  <2>2. CASE i \in stored
    BY <1>7, <2>2 DEF RingIntact
  <2>. QED BY <1>0, <2>1, <2>2
<1>9. GopsSorted'
  <2>. SUFFICES ASSUME NEW i \in DOMAIN gops_', NEW j \in DOMAIN gops_', i < j
                PROVE  gops_'[i].index < gops_'[j].index
    BY DEF GopsSorted
  <2>1. CASE j \in DOMAIN gops_
    <3>1. i \in DOMAIN gops_
      BY <1>5, <2>1
    <3>. QED BY <1>5, <2>1, <3>1 DEF GopsSorted
  <2>2. CASE j = Len(gops_) + 1
    BY <1>4, <1>5, <2>2
  <2>. QED BY <1>5, <2>1, <2>2
<1>10. GopIsKeyFrame'
  <2>. SUFFICES ASSUME NEW i \in DOMAIN gops_', gops_'[i].index > ExpiredPacketIndex'
                PROVE  packet_buffer_'[Slot(gops_'[i].index)] =
                         [index |-> gops_'[i].index, kind |-> "key", ts |-> gops_'[i].ts]
    BY DEF GopIsKeyFrame
  <2>1. CASE i \in DOMAIN gops_ /\ gops_'[i] = gops_[i]
    BY <1>4, <1>7, <2>1 DEF GopIsKeyFrame
  <2>2. CASE kind = "key" /\ gops_'[i] = new
    BY <1>7, <2>2
  <2>. QED BY <1>5, <2>1, <2>2
<1>. QED BY <1>2, <1>3, <1>6, <1>8, <1>9, <1>10

\* Nothing that is pushed disturbs a player.
LEMMA PushKeepsPlayers ==
  ASSUME StreamInv, PlayerInv, UNCHANGED playerVars,
         packet_index_' = packet_index_ + 1,
         stored' \subseteq stored \cup {packet_index_}
  PROVE  PlayerInv'
<1>. USE DEF playerVars, PlayerInv, StreamInv, StreamType
<1>1. PlayerType'
  BY DEF PlayerType
<1>2. CursorBounded'
  <2>1. \A p \in Players : /\ out_packet_index_[p] \in Int
                           /\ \A i \in DOMAIN out_packet_[p] : i \in Nat
    BY DEF PlayerType, IsBatch
  <2>. QED BY <2>1 DEF CursorBounded
<1>3. BatchComplete'
  <2>1. \A p \in Players : out_packet_index_[p] < packet_index_
    BY DEF CursorBounded
  <2>2. \A p \in Players : \A i \in stored' : i <= out_packet_index_[p] => i \in stored
    <3>. SUFFICES ASSUME NEW p \in Players, packet_index_ <= out_packet_index_[p] PROVE FALSE
      OBVIOUS
    <3>1. out_packet_index_[p] \in Int
      BY DEF PlayerType
    <3>. QED BY <2>1, <3>1
  <2>. QED BY <2>2 DEF BatchComplete
<1>. QED BY <1>1, <1>2, <1>3

-----------------------------------------------------------------------------
(* Playing *)

\* BuildChunk takes a prefix of the waiting packets, in index order.
LEMMA BuildChunksKeeps ==
  ASSUME PlayerType, NEW p \in Players, NEW waiting, IsBatch(waiting),
         NEW n \in Int, \A i \in DOMAIN waiting : i <= n, BuildChunks(p, waiting)
  PROVE  /\ DOMAIN out_packet_' = Players
         /\ \A q \in Players : q # p => out_packet_'[q] = out_packet_[q]
         /\ IsBatch(out_packet_'[p])
         /\ DOMAIN out_packet_'[p] \subseteq DOMAIN waiting
         /\ out_video_original_timestamp_' \in [Players -> Timestamp]
<1>. USE DEF PlayerType
<1>1. PICK m \in DOMAIN waiting \cup {-1} :
        LET video == {i \in DOMAIN waiting : i <= m /\ IsVideo(waiting[i])}
            left  == {i \in DOMAIN waiting : i > m}
        IN  /\ out_packet_' = [out_packet_ EXCEPT ![p] = [i \in left |-> waiting[i]]]
            /\ out_video_original_timestamp_' =
                 IF video = {} THEN out_video_original_timestamp_
                 ELSE [out_video_original_timestamp_ EXCEPT ![p] =
                         waiting[CHOOSE i \in video : \A j \in video : j <= i].ts]
  BY DEF BuildChunks
<1>. DEFINE video == {i \in DOMAIN waiting : i <= m /\ IsVideo(waiting[i])}
            left  == {i \in DOMAIN waiting : i > m}
<1>2. out_packet_' = [out_packet_ EXCEPT ![p] = [i \in left |-> waiting[i]]]
  BY <1>1
<1>3. out_packet_'[p] = [i \in left |-> waiting[i]]
  BY <1>2
<1>4. IsBatch(out_packet_'[p])
  BY <1>3 DEF IsBatch
<1>5. DOMAIN out_packet_'[p] \subseteq DOMAIN waiting
  BY <1>3
<1>6. out_video_original_timestamp_' \in [Players -> Timestamp]
  <2>1. CASE video = {}
    BY <1>1, <2>1
  <2>2. CASE video # {}
    <3>1. video \in SUBSET Nat /\ \A j \in video : j <= n
      BY DEF IsBatch
    <3>2. \E i \in video : \A j \in video : j <= i
      BY <2>2, <3>1, BoundedMax
    <3>3. PICK last \in video : last = CHOOSE i \in video : \A j \in video : j <= i
      BY <3>2
    <3>4. waiting[last] \in Packet
      BY <3>3 DEF IsBatch
    <3>5. waiting[last].ts \in Timestamp
      BY <3>4 DEF Packet
    <3>6. out_video_original_timestamp_' =
            [out_video_original_timestamp_ EXCEPT ![p] = waiting[last].ts]
      BY <1>1, <2>2, <3>3
    <3>. QED BY <3>5, <3>6
  <2>. QED BY <2>1, <2>2
<1>. QED BY <1>2, <1>4, <1>5, <1>6

LEMMA PlayLeftOverKeeps ==
  ASSUME IInv, NEW p \in Players, PlayLeftOver(p)
  PROVE  IInv'
<1>. USE DEF IInv, PlayerInv
<1>1. /\ UNCHANGED <<publisherVars, streamVars, gops_, out_packet_index_,
                     header_version, header_given, last_pop>>
      /\ active_' = active_ \ {p}
      /\ BuildChunks(p, out_packet_[p])
  BY DEF PlayLeftOver
<1>2. StreamInv'
  BY <1>1 DEF streamVars, StreamInv, StreamType, RingIntact, ExpiredPacketIndex,
              GopsSorted, GopIsKeyFrame
<1>3. PublisherType'
  BY <1>1 DEF publisherVars, PublisherType
<1>4. /\ DOMAIN out_packet_' = Players
      /\ \A q \in Players : q # p => out_packet_'[q] = out_packet_[q]
      /\ IsBatch(out_packet_'[p])
      /\ DOMAIN out_packet_'[p] \subseteq DOMAIN out_packet_[p]
      /\ out_video_original_timestamp_' \in [Players -> Timestamp]
  <2>1. IsBatch(out_packet_[p]) /\ packet_index_ \in Int
    BY DEF PlayerType, StreamInv, StreamType
  <2>2. \A i \in DOMAIN out_packet_[p] : i <= packet_index_
    BY <2>1 DEF CursorBounded, IsBatch
  <2>. QED BY <1>1, <2>1, <2>2, BuildChunksKeeps
<1>5. PlayerType'
  BY <1>1, <1>4 DEF PlayerType
<1>6. CursorBounded'
  BY <1>1, <1>4 DEF CursorBounded, streamVars
<1>7. BatchComplete'
  BY <1>1 DEF BatchComplete, streamVars
<1>. QED BY <1>2, <1>3, <1>5, <1>6, <1>7

\* A suffix of the key frame list keeps what the invariant says of the list.
LEMMA SuffixKeeps ==
  ASSUME StreamInv, UNCHANGED streamVars, gops_' \in Seq(Gop),
         NEW d \in Nat,
         \A j \in DOMAIN gops_' : j + d \in DOMAIN gops_ /\ gops_'[j] = gops_[j + d]
  PROVE  StreamInv'
<1>. USE DEF StreamInv, streamVars
<1>1. StreamType'
  BY DEF StreamType
<1>2. (\A i \in stored : i < packet_index_)'
  OBVIOUS
<1>3. (\A i \in DOMAIN gops_ : gops_[i].index < packet_index_)'
  OBVIOUS
<1>4. RingIntact'
  BY DEF RingIntact, ExpiredPacketIndex
<1>5. GopsSorted'
  <2>. SUFFICES ASSUME NEW i \in DOMAIN gops_', NEW j \in DOMAIN gops_', i < j
                PROVE  gops_'[i].index < gops_'[j].index
    BY DEF GopsSorted
  <2>1. i + d \in DOMAIN gops_ /\ j + d \in DOMAIN gops_ /\ i + d < j + d
    OBVIOUS
  <2>2. gops_'[i] = gops_[i + d] /\ gops_'[j] = gops_[j + d]
    OBVIOUS
  <2>. QED BY <2>1, <2>2 DEF GopsSorted
<1>6. GopIsKeyFrame'
  BY DEF GopIsKeyFrame, ExpiredPacketIndex
<1>. QED BY <1>1, <1>2, <1>3, <1>4, <1>5, <1>6

LEMMA PlayNewKeeps ==
  ASSUME IInv, NEW p \in Players, PlayNew(p)
  PROVE  IInv'
<1>. USE DEF IInv, PlayerInv
<1>. DEFINE src      == out_packet_index_[p] + 1
            is_first == src = 0
            is_skip  == ~is_first /\ IsBehind(p, src)
            gops     == IF is_skip THEN ClearExpiredGop(gops_, ExpiredPacketIndex) ELSE gops_
            idx      == IF is_first \/ is_skip THEN GetGopByLatency(gops, Latency) ELSE src
            seen     == [k \in HeaderKinds |-> header_version[p][k] + IF is_first THEN 1 ELSE 0]
            newer    == {k \in HeaderKinds : HeaderVersion(k) > seen[k]}
            popped   == [k \in HeaderKinds |->
                           IF k \in newer THEN {PopHeader(k, idx)}
                           ELSE IF is_first THEN {PopHeader(k, 0)} ELSE {}]
<1>1. /\ gops_' = gops
      /\ header_version' = [header_version EXCEPT ![p] =
                              [k \in HeaderKinds |-> seen[k] + IF k \in newer THEN 1 ELSE 0]]
      /\ header_given' = [header_given EXCEPT ![p] =
                            [k \in HeaderKinds |-> @[k] \cup (popped[k] \ {NoPacket})]]
      /\ out_packet_index_' = [out_packet_index_ EXCEPT ![p] = BatchEnd(idx)]
      /\ last_pop' = [last_pop EXCEPT ![p] = [first |-> idx,
                         expired |-> ExpiredPacketIndex, taken |-> TakeBatch(idx)]]
      /\ BuildChunks(p, last_pop'[p].taken)
      /\ active_' = active_ \ {p}
      /\ UNCHANGED <<publisherVars, streamVars>>
  BY DEF PlayNew, Pop
<1>2. /\ StreamType /\ PlayerType
      /\ src \in Nat /\ src <= packet_index_ /\ ExpiredPacketIndex \in Int
  <2>1. StreamType /\ PlayerType
    BY DEF StreamInv
  <2>2. out_packet_index_[p] \in Nat \cup {-1} /\ packet_index_ \in Nat
    BY <2>1 DEF StreamType, PlayerType
  <2>3. out_packet_index_[p] < packet_index_
    BY DEF CursorBounded
  <2>4. ExpiredPacketIndex \in Int
    BY <2>2, StreamAssumption DEF ExpiredPacketIndex
  <2>. QED BY <2>1, <2>2, <2>3, <2>4
<1>. HIDE DEF src, is_first, is_skip, gops, idx, seen, newer, popped
<1>3. /\ gops \in Seq(Gop)
      /\ \E d \in Nat : \A j \in DOMAIN gops : j + d \in DOMAIN gops_ /\ gops[j] = gops_[j + d]
  <2>1. CASE is_skip
    BY <1>2, <2>1, ClearExpired DEF gops, StreamType
  <2>2. CASE ~is_skip
    <3>1. gops = gops_ /\ 0 \in Nat /\ \A j \in DOMAIN gops_ : j + 0 = j
      BY <1>2, <2>2 DEF gops, StreamType
    <3>. QED BY <1>2, <3>1 DEF StreamType
  <2>. QED BY <2>1, <2>2
<1>4. StreamInv'
  BY <1>1, <1>3, SuffixKeeps
<1>5. idx \in Nat /\ idx <= packet_index_
  <2>1. \A i \in DOMAIN gops : gops[i].index \in Nat /\ gops[i].index < packet_index_
    BY <1>3, GopIndex DEF StreamInv
  <2>2. GetGopByLatency(gops, Latency) \in Nat /\ GetGopByLatency(gops, Latency) <= packet_index_
    <3>1. packet_index_ \in Nat
      BY <1>2 DEF StreamType
    <3>2. \/ GetGopByLatency(gops, Latency) = 0
          \/ \E i \in DOMAIN gops : GetGopByLatency(gops, Latency) = gops[i].index
      BY <1>3, GopByLatency
    <3>. QED BY <2>1, <3>1, <3>2
  <2>. QED BY <1>2, <2>2 DEF idx
<1>6. /\ BatchEnd(idx) \in Nat \cup {-1}
      /\ BatchEnd(idx) < packet_index_
      /\ IsBatch(TakeBatch(idx))
      /\ DOMAIN TakeBatch(idx) \subseteq idx .. BatchEnd(idx)
      /\ \A i \in idx .. BatchEnd(idx) : packet_buffer_[Slot(i)] # NoPacket =>
           i \in DOMAIN TakeBatch(idx) /\ TakeBatch(idx)[i] = packet_buffer_[Slot(i)]
  BY <1>2, <1>5, BatchEndBound, TakeBatchProperties DEF StreamType
<1>7. last_pop'[p] = [first |-> idx, expired |-> ExpiredPacketIndex,
                      taken |-> TakeBatch(idx)]
  BY <1>1 DEF PlayerType
<1>8. /\ DOMAIN out_packet_' = Players
      /\ \A q \in Players : q # p => out_packet_'[q] = out_packet_[q]
      /\ IsBatch(out_packet_'[p])
      /\ DOMAIN out_packet_'[p] \subseteq DOMAIN TakeBatch(idx)
      /\ out_video_original_timestamp_' \in [Players -> Timestamp]
  <2>1. BuildChunks(p, TakeBatch(idx)) /\ BatchEnd(idx) \in Int
    BY <1>1, <1>6, <1>7
  <2>2. \A i \in DOMAIN TakeBatch(idx) : i <= BatchEnd(idx)
    BY <1>6
  <2>. QED BY <1>2, <1>6, <2>1, <2>2, BuildChunksKeeps
<1>9. PublisherType'
  BY <1>1 DEF publisherVars, PublisherType
<1>10. header_version' \in [Players -> [HeaderKinds -> Nat]]
  <2>1. [k \in HeaderKinds |-> seen[k] + IF k \in newer THEN 1 ELSE 0] \in [HeaderKinds -> Nat]
    BY <1>2 DEF seen, PlayerType
  <2>. QED BY <1>1, <1>2, <2>1 DEF PlayerType
<1>11. header_given' \in [Players -> [HeaderKinds -> SUBSET Nat]]
  <2>1. \A k \in HeaderKinds : popped[k] \ {NoPacket} \subseteq Nat
    <3>1. \A k \in HeaderKinds, i \in Nat : PopHeader(k, i) \in Nat \cup {NoPacket}
      BY <1>2, PopHeaderType DEF StreamType
    <3>. QED BY <1>5, <3>1 DEF popped
  <2>2. [k \in HeaderKinds |-> header_given[p][k] \cup (popped[k] \ {NoPacket})]
          \in [HeaderKinds -> SUBSET Nat]
    BY <1>2, <2>1 DEF PlayerType
  <2>. QED BY <1>1, <1>2, <2>2 DEF PlayerType
<1>12. PlayerType'
  <2>1. out_packet_index_' \in [Players -> Nat \cup {-1}]
    BY <1>1, <1>2, <1>6 DEF PlayerType
  <2>2. DOMAIN last_pop' = Players /\ \A q \in Players : q # p => last_pop'[q] = last_pop[q]
    BY <1>1, <1>2 DEF PlayerType
  <2>3. \A q \in Players : /\ last_pop'[q].first \in Nat
                           /\ last_pop'[q].expired \in Int
                           /\ IsBatch(last_pop'[q].taken)
    <3>1. /\ last_pop'[p].first \in Nat
          /\ last_pop'[p].expired \in Int
          /\ IsBatch(last_pop'[p].taken)
      BY <1>2, <1>5, <1>6, <1>7
    <3>. QED BY <1>2, <2>2, <3>1 DEF PlayerType
  <2>4. \A q \in Players : IsBatch(out_packet_'[q])
    BY <1>2, <1>8 DEF PlayerType
  <2>. QED BY <1>8, <1>10, <1>11, <2>1, <2>2, <2>3, <2>4 DEF PlayerType, IsBatch
<1>13. CursorBounded'
  <2>1. \A q \in Players : out_packet_index_'[q] < packet_index_
    BY <1>1, <1>2, <1>6 DEF PlayerType, CursorBounded
  <2>2. \A i \in DOMAIN out_packet_'[p] : i < packet_index_
    BY <1>2, <1>5, <1>6, <1>8 DEF StreamType
  <2>3. packet_index_' = packet_index_
    BY <1>1 DEF streamVars
  <2>. QED BY <1>8, <2>1, <2>2, <2>3 DEF CursorBounded
<1>14. BatchComplete'
  <2>1. stored' = stored
    BY <1>1 DEF streamVars
  <2>2. ASSUME NEW i \in stored, idx > ExpiredPacketIndex, idx <= i, i <= BatchEnd(idx)
        PROVE  i \in DOMAIN TakeBatch(idx) /\ TakeBatch(idx)[i].index = i
    <3>1. i \in Nat
      BY <1>2 DEF StreamType
    <3>2. i > ExpiredPacketIndex /\ i \in idx .. BatchEnd(idx)
      BY <1>2, <1>5, <1>6, <2>2, <3>1
    <3>3. packet_buffer_[Slot(i)] # NoPacket /\ packet_buffer_[Slot(i)].index = i
      BY <3>2 DEF StreamInv, RingIntact
    <3>. QED BY <1>6, <3>2, <3>3
  <2>3. out_packet_index_'[p] = BatchEnd(idx)
    BY <1>1, <1>2 DEF PlayerType
  <2>4. \A q \in Players : q # p => /\ out_packet_index_'[q] = out_packet_index_[q]
                                    /\ last_pop'[q] = last_pop[q]
    BY <1>1, <1>2 DEF PlayerType
  <2>. QED BY <1>7, <2>1, <2>2, <2>3, <2>4 DEF BatchComplete
<1>. QED BY <1>4, <1>9, <1>12, <1>13, <1>14

-----------------------------------------------------------------------------
(* Every step *)

LEMMA IInvStep == IInv /\ [Next]_vars => IInv'
<1>. SUFFICES ASSUME IInv, [Next]_vars PROVE IInv'
  OBVIOUS
<1>. USE StreamAssumption
<1>0. CASE UNCHANGED vars
  BY <1>0 DEF vars, publisherVars, streamVars, playerVars, IInv, StreamInv, StreamType,
       RingIntact, GopsSorted, GopIsKeyFrame, ExpiredPacketIndex, PublisherType,
       PlayerInv, PlayerType, CursorBounded, BatchComplete
<1>1. ASSUME NEW k \in HeaderKinds, ProcessSequenceHeader(k) PROVE IInv'
  <2>1. StreamInv'
    BY <1>1, PushHeaderKeeps DEF ProcessSequenceHeader, IInv
  <2>2. PublisherType'
    BY <1>1 DEF ProcessSequenceHeader, ActiveAll, IInv, PublisherType, publisherVars
  <2>3. PlayerInv'
    BY <1>1, PushKeepsPlayers DEF ProcessSequenceHeader, PushHeader, IInv
  <2>. QED BY <2>1, <2>2, <2>3 DEF IInv
<1>2. ASSUME NEW kind \in MediaKinds, ProcessAudioVideo(kind) PROVE IInv'
  <2>1. \E ts \in Timestamp : PushMedia(kind, ts)
    <3>1. 0 \in Timestamp /\ next_video_timestamp \in Timestamp
      BY DEF Timestamp, IInv, PublisherType
    <3>. QED BY <1>2, <3>1 DEF ProcessAudioVideo
  <2>2. StreamInv'
    BY <2>1, PushMediaKeeps DEF IInv
  <2>3. NextTimestamp \in Timestamp
    BY DEF NextTimestamp, Timestamp, IInv, PublisherType
  <2>4. PublisherType'
    BY <1>2, <2>3 DEF ProcessAudioVideo, ActiveAll, IInv, PublisherType
  <2>5. PlayerInv'
    BY <1>2, <2>1, PushKeepsPlayers DEF ProcessAudioVideo, PushMedia, IInv
  <2>. QED BY <2>2, <2>4, <2>5 DEF IInv
<1>3. ASSUME NEW interval \in FrameIntervals, ParseDataMessage(interval) PROVE IInv'
  <2>1. StreamInv'
    BY <1>3, PushHeaderKeeps DEF ParseDataMessage, IInv
  <2>2. PublisherType'
    BY <1>3 DEF ParseDataMessage, IInv, PublisherType
  <2>3. PlayerInv'
    BY <1>3, PushKeepsPlayers DEF ParseDataMessage, PushHeader, IInv
  <2>. QED BY <2>1, <2>2, <2>3 DEF IInv
<1>4. ASSUME NewProducer PROVE IInv'
  BY <1>4 DEF NewProducer, Timestamp, streamVars, playerVars, IInv, StreamInv, StreamType,
       RingIntact, GopsSorted, GopIsKeyFrame, ExpiredPacketIndex, PublisherType,
       PlayerInv, PlayerType, CursorBounded, BatchComplete
<1>. QED
  BY <1>0, <1>1, <1>2, <1>3, <1>4, PlayNewKeeps, PlayLeftOverKeeps DEF Next

LEMMA IInvAlways == Spec => []IInv
  BY IInvInit, IInvStep, PTL DEF Spec

-----------------------------------------------------------------------------
(* What the invariant gives *)

\* Every variable of Stream keeps its type; timestamps stay 32-bit.
THEOREM TypeCorrect == Spec => []TypeOK
<1>1. IInv => TypeOK
  BY DEF IInv, StreamInv, StreamType, PublisherType, PlayerInv, PlayerType, TypeOK, Gop
<1>. QED BY <1>1, IInvAlways, PTL

\* A media packet above ExpiredPacketIndex is in its slot, for every ring size.
THEOREM RingCorrect == Spec => []RingIntact
<1>1. IInv => RingIntact
  BY DEF IInv, StreamInv
<1>. QED BY <1>1, IInvAlways, PTL

\* No player runs past the publisher.
THEOREM CursorCorrect == Spec => []CursorBounded
<1>1. IInv => CursorBounded
  BY DEF IInv, PlayerInv
<1>. QED BY <1>1, IInvAlways, PTL

\* The key frame list is sorted and its live entries are key frames of the ring.
THEOREM GopsCorrect == Spec => [](GopsSorted /\ GopIsKeyFrame)
<1>1. IInv => GopsSorted /\ GopIsKeyFrame
  BY DEF IInv, StreamInv
<1>. QED BY <1>1, IInvAlways, PTL

\* A batch from the live part of the ring has every media packet of its range.
THEOREM BatchCorrect == Spec => []BatchComplete
<1>1. IInv => BatchComplete
  BY DEF IInv, PlayerInv
<1>. QED BY <1>1, IInvAlways, PTL

\* Once the ring has wrapped no step drops a key frame that is still live.
THEOREM LiveGopsKept == Spec => LiveGopKept
<1>. DEFINE Kept == ExpiredPacketIndex >= 0 =>
              \A i \in DOMAIN gops_ : gops_[i].index > ExpiredPacketIndex =>
                \E j \in DOMAIN gops_' : gops_'[j] = gops_[i]
<1>1. IInv /\ [Next]_vars => [Kept]_vars
  <2>. SUFFICES ASSUME IInv, Next PROVE Kept
    OBVIOUS
  <2>. USE DEF IInv, StreamInv, StreamType
  <2>1. CASE gops_' = gops_
    BY <2>1
  <2>2. ASSUME NEW pkt, gops_' = Append(gops_, pkt) PROVE Kept
    <3>1. \A i \in DOMAIN gops_ : i \in DOMAIN gops_' /\ gops_'[i] = gops_[i]
      BY <2>2
    <3>. QED BY <3>1
  <2>3. ASSUME gops_' = ClearExpiredGop(gops_, ExpiredPacketIndex) PROVE Kept
    <3>1. ExpiredPacketIndex \in Int
      BY StreamAssumption DEF ExpiredPacketIndex
    <3>2. \A i \in DOMAIN gops_ : ~UnsignedAtMost(gops_[i].index, ExpiredPacketIndex) =>
            \E j \in DOMAIN gops_' : gops_'[j] = gops_[i]
      BY <2>3, <3>1, ClearExpired
    <3>3. \A i \in DOMAIN gops_ : gops_[i].index \in Nat
      BY GopIndex
    <3>. QED BY <3>1, <3>2, <3>3 DEF UnsignedAtMost
  <2>4. ASSUME NEW kind, NEW ts, PushMedia(kind, ts) PROVE Kept
    BY <2>1, <2>2, <2>4 DEF PushMedia, ListKeyFrame
  <2>5. ASSUME NEW p \in Players, PlayNew(p) PROVE Kept
    BY <2>1, <2>3, <2>5 DEF PlayNew, Pop
  <2>6. ASSUME NEW kind \in MediaKinds, ProcessAudioVideo(kind) PROVE Kept
    BY <2>4, <2>6 DEF ProcessAudioVideo
  <2>7. ASSUME NEW k \in HeaderKinds, ProcessSequenceHeader(k) PROVE Kept
    BY <2>1, <2>7 DEF ProcessSequenceHeader, PushHeader
  <2>8. ASSUME NEW interval \in FrameIntervals, ParseDataMessage(interval) PROVE Kept
    BY <2>1, <2>8 DEF ParseDataMessage, PushHeader
  <2>9. ASSUME NewProducer PROVE Kept
    BY <2>1, <2>9 DEF NewProducer
  <2>10. ASSUME NEW p \in Players, PlayLeftOver(p) PROVE Kept
    BY <2>1, <2>10 DEF PlayLeftOver
  <2>. QED BY <2>5, <2>6, <2>7, <2>8, <2>9, <2>10 DEF Next
<1>. QED BY <1>1, IInvAlways, PTL DEF Spec, LiveGopKept

-----------------------------------------------------------------------------
(* Where a player goes on that has fallen behind                           *)

\* A list in stream order, and the places in it that are recent enough.
Sorted(gops) == \A i, j \in DOMAIN gops : i < j => gops[i].index < gops[j].index

Fits(gops) == {g \in DOMAIN gops : U32Minus(latest_timestamp_, gops[g].ts) <= Latency}

\* GetGopByLatency ends at the oldest key frame that fits.
LEMMA OldestFits ==
  ASSUME NEW gops \in Seq(Gop), Sorted(gops)
  PROVE  IF Fits(gops) = {} THEN GetGopByLatency(gops, Latency) = 0
         ELSE \E m \in Fits(gops) :
                /\ GetGopByLatency(gops, Latency) = gops[m].index
                /\ \A g \in Fits(gops) : gops[m].index <= gops[g].index
<1>1. CASE Fits(gops) = {}
  BY <1>1 DEF GetGopByLatency, Fits
<1>2. CASE Fits(gops) # {}
  <2>1. Fits(gops) \in SUBSET Nat
    BY DEF Fits
  <2>2. \E i \in Fits(gops) : \A j \in Fits(gops) : i <= j
    BY <1>2, <2>1, NatMin
  <2>3. PICK m \in Fits(gops) :
          m = CHOOSE i \in Fits(gops) : \A j \in Fits(gops) : i <= j
    BY <2>2
  <2>4. \A j \in Fits(gops) : m <= j
    BY <2>2, <2>3
  <2>5. GetGopByLatency(gops, Latency) = gops[m].index
    BY <1>2, <2>3 DEF GetGopByLatency, Fits
  <2>6. ASSUME NEW g \in Fits(gops) PROVE gops[m].index <= gops[g].index
    <3>1. m \in DOMAIN gops /\ g \in DOMAIN gops /\ m \in Nat /\ g \in Nat /\ m <= g
      BY <2>1, <2>4 DEF Fits
    <3>2. gops[m].index \in Nat /\ gops[g].index \in Nat
      BY <3>1, GopIndex
    <3>. QED BY <3>1, <3>2 DEF Sorted
  <2>. QED BY <1>2, <2>5, <2>6
<1>. QED BY <1>1, <1>2

\* ClearExpiredGop empties the list when min_index is negative; otherwise what it
\* leaves is what has not expired, in the same order.
LEMMA ClearedRest ==
  ASSUME NEW gops \in Seq(Gop), Sorted(gops), NEW min_index \in Int
  PROVE  LET left == ClearExpiredGop(gops, min_index)
         IN  /\ min_index < 0 => left = <<>>
             /\ left \in Seq(Gop) /\ Sorted(left)
             /\ min_index >= 0 =>
                  /\ \A j \in DOMAIN left :
                       left[j].index > min_index /\ \E i \in DOMAIN gops : gops[i] = left[j]
                  /\ \A i \in DOMAIN gops : gops[i].index > min_index =>
                       \E j \in DOMAIN left : left[j] = gops[i]
<1>. DEFINE left == ClearExpiredGop(gops, min_index)
            kept == {i \in DOMAIN gops : ~UnsignedAtMost(gops[i].index, min_index)}
<1>1. min_index < 0 => left = <<>>
  <2>1. min_index < 0 => kept = {}
    BY DEF UnsignedAtMost
  <2>. QED BY <2>1 DEF ClearExpiredGop
<1>2. /\ left \in Seq(Gop)
      /\ \A i \in DOMAIN gops : ~UnsignedAtMost(gops[i].index, min_index) =>
           \E j \in DOMAIN left : left[j] = gops[i]
  BY ClearExpired
<1>3. PICK d \in Nat : \A j \in DOMAIN left : j + d \in DOMAIN gops /\ left[j] = gops[j + d]
  BY ClearExpired
<1>4. Sorted(left)
  <2>. HIDE DEF left
  <2>1. \A i \in DOMAIN left : i \in Nat
    BY <1>2
  <2>. QED BY <1>3, <2>1 DEF Sorted
<1>5. ASSUME min_index >= 0, NEW j \in DOMAIN left
      PROVE  left[j].index > min_index
  <2>1. PICK m \in kept : /\ \A i \in kept : m <= i
                          /\ left = SubSeq(gops, m, Len(gops))
    <3>1. kept # {}
      BY DEF ClearExpiredGop
    <3>2. \E i \in kept : \A k \in kept : i <= k
      BY <3>1, NatMin, kept \in SUBSET Nat
    <3>. QED BY <3>1, <3>2 DEF ClearExpiredGop
  <2>2. m \in 1 .. Len(gops) /\ ~UnsignedAtMost(gops[m].index, min_index)
    OBVIOUS
  <2>. HIDE DEF left, kept
  <2>3. j \in 1 .. Len(gops) - m + 1 /\ left[j] = gops[m + j - 1]
    BY <2>1, <2>2, SubSeqProperties
  <2>4. m + j - 1 \in DOMAIN gops /\ m \in DOMAIN gops /\ m <= m + j - 1
    BY <2>2, <2>3
  <2>5. gops[m].index \in Nat /\ gops[m + j - 1].index \in Nat
    BY <2>4, GopIndex
  <2>6. gops[m].index > min_index
    BY <1>5, <2>2, <2>5 DEF UnsignedAtMost
  <2>7. gops[m].index <= gops[m + j - 1].index
    BY <2>2, <2>4, <2>5 DEF Sorted
  <2>. QED BY <2>3, <2>5, <2>6, <2>7
<1>6. \A i \in DOMAIN gops : gops[i].index > min_index /\ min_index >= 0 =>
        ~UnsignedAtMost(gops[i].index, min_index)
  BY GopIndex DEF UnsignedAtMost
<1>. QED BY <1>1, <1>2, <1>3, <1>4, <1>5, <1>6

\* Wherever the ring and the list are, a player that was overtaken finds the key
\* frame that Pop sends it to: this joins RingIntact, GopsSorted and GopIsKeyFrame.
THEOREM SkipsLand == Spec => SkipLands
<1>. DEFINE Lands(p) ==
       LET first == last_pop'[p].first
           at    == {gops_[g].index : g \in Landings}
       IN  PlayNew(p) /\ out_packet_index_[p] >= 0 /\ first # out_packet_index_[p] + 1 =>
             IF ExpiredPacketIndex < 0 \/ at = {} THEN first = 0
             ELSE /\ first \in at /\ \A i \in at : first <= i
                  /\ first \in DOMAIN last_pop'[p].taken
                  /\ last_pop'[p].taken[first].kind = "key"
                  /\ last_pop'[p].taken[first].index = first
<1>1. IInv => \A p \in Players : Lands(p)
  <2>. SUFFICES ASSUME IInv, NEW p \in Players, PlayNew(p), out_packet_index_[p] >= 0,
                       last_pop'[p].first # out_packet_index_[p] + 1
                PROVE  Lands(p)
    OBVIOUS
  <2>. HIDE DEF Lands
  <2>. USE DEF IInv, StreamInv, StreamType
  <2>0. PICK e \in Int : e = ExpiredPacketIndex
    BY StreamAssumption DEF ExpiredPacketIndex
  <2>1. PICK left : left = ClearExpiredGop(gops_, e)
    OBVIOUS
  <2>2. PICK first : first = GetGopByLatency(left, Latency)
    OBVIOUS
  <2>3. last_pop'[p].first = first /\ last_pop'[p].taken = TakeBatch(first)
    <3>1. out_packet_index_[p] \in Nat /\ DOMAIN last_pop = Players
      BY DEF PlayerInv, PlayerType
    <3>. QED BY <2>0, <2>1, <2>2, <3>1 DEF PlayNew, Pop
  <2>4. /\ left \in Seq(Gop) /\ Sorted(left)
        /\ e < 0 => left = <<>>
        /\ e >= 0 =>
             /\ \A j \in DOMAIN left :
                  left[j].index > e /\ \E i \in DOMAIN gops_ : gops_[i] = left[j]
             /\ \A i \in DOMAIN gops_ : gops_[i].index > e =>
                  \E j \in DOMAIN left : left[j] = gops_[i]
    <3>1. Sorted(gops_)
      BY DEF GopsSorted, Sorted
    <3>. QED BY <2>1, <3>1, ClearedRest
  <2>5. IF Fits(left) = {} THEN first = 0
        ELSE \E m \in Fits(left) :
               first = left[m].index /\ \A g \in Fits(left) : first <= left[g].index
    BY <2>2, <2>4, OldestFits
  <2>. DEFINE at == {gops_[g].index : g \in Landings}
  <2>6. CASE e < 0
    <3>1. Fits(left) = {}
      BY <2>4, <2>6 DEF Fits
    <3>. QED BY <2>0, <2>3, <2>5, <2>6, <3>1 DEF Lands
  <2>7. CASE e >= 0
    <3>1. \A g \in Fits(left) : \E h \in Landings : gops_[h] = left[g]
      BY <2>0, <2>4, <2>7 DEF Fits, Landings
    <3>2. \A h \in Landings : \E g \in Fits(left) : gops_[h] = left[g]
      BY <2>0, <2>4, <2>7 DEF Fits, Landings
    <3>3. CASE Fits(left) = {}
      <4>1. at = {}
        BY <3>2, <3>3
      <4>. QED BY <2>3, <2>5, <3>3, <4>1 DEF Lands
    <3>4. CASE Fits(left) # {}
      <4>m. PICK m \in Fits(left) :
              first = left[m].index /\ \A g \in Fits(left) : first <= left[g].index
        BY <2>5, <3>4
      <4>2. PICK h \in Landings : gops_[h].index = first
        BY <3>1, <4>m
      <4>a. ASSUME NEW k \in Landings PROVE first <= gops_[k].index
        BY <3>2, <4>m
      <4>1. first \in at /\ \A i \in at : first <= i
        BY <4>2, <4>a
      <4>3. h \in DOMAIN gops_ /\ first \in Nat /\ first > e /\ first < packet_index_
        BY <2>0, <4>2, GopIndex DEF Landings
      <4>4. packet_buffer_[Slot(first)] = [index |-> first, kind |-> "key", ts |-> gops_[h].ts]
        BY <2>0, <4>2, <4>3 DEF GopIsKeyFrame
      <4>5. first \in first .. BatchEnd(first)
        BY <4>3, StreamAssumption DEF BatchEnd
      <4>6. packet_buffer_[Slot(first)] # NoPacket
        <5>1. gops_[h].ts \in Timestamp
          BY <4>3, GopIndex
        <5>2. packet_buffer_[Slot(first)] \in Packet
          BY <4>3, <4>4, <5>1 DEF Packet, AllMediaKinds
        <5>. QED BY <5>2, NoPacketAssumption
      <4>7. /\ first \in DOMAIN TakeBatch(first)
            /\ TakeBatch(first)[first] = packet_buffer_[Slot(first)]
        <5>1. \A i \in first .. BatchEnd(first) : packet_buffer_[Slot(i)] # NoPacket =>
                i \in DOMAIN TakeBatch(first) /\ TakeBatch(first)[i] = packet_buffer_[Slot(i)]
          BY <4>3, TakeBatchProperties
        <5>. QED BY <4>5, <4>6, <5>1
      <4>8. TakeBatch(first)[first].kind = "key" /\ TakeBatch(first)[first].index = first
        BY <4>4, <4>7
      <4>9. ~(ExpiredPacketIndex < 0) /\ at # {}
        BY <2>0, <2>7, <4>1
      <4>. HIDE DEF at, IInv, StreamInv, StreamType
      <4>10. /\ first \in at /\ \A i \in at : first <= i
             /\ first \in DOMAIN last_pop'[p].taken
             /\ last_pop'[p].taken[first].kind = "key"
             /\ last_pop'[p].taken[first].index = first
        BY <2>3, <4>1, <4>7, <4>8
      <4>. QED BY <2>3, <4>9, <4>10 DEF Lands, at
    <3>. QED BY <3>3, <3>4
  <2>. QED BY <2>0, <2>6, <2>7
<1>. QED BY <1>1, IInvAlways, PTL DEF SkipLands

-----------------------------------------------------------------------------
(* The versions of the headers                                             *)

\* A player is only woken up once something is pushed, so its first Pop leaves
\* its cursor on an index and is the only one to count a version that may not exist.
HeaderInv ==
  /\ active_ # {} => packet_index_ > 0
  /\ \A p \in Players, k \in HeaderKinds : out_packet_index_[p] = -1 => header_version[p][k] = 0
  /\ SecondHeaderGiven

LEMMA PlayNewGives ==
  ASSUME IInv, HeaderInv, NEW p \in Players, PlayNew(p)
  PROVE  HeaderInv'
<1>. DEFINE src      == out_packet_index_[p] + 1
            is_first == src = 0
            is_skip  == ~is_first /\ IsBehind(p, src)
            gops     == IF is_skip THEN ClearExpiredGop(gops_, ExpiredPacketIndex) ELSE gops_
            idx      == IF is_first \/ is_skip THEN GetGopByLatency(gops, Latency) ELSE src
            seen     == [k \in HeaderKinds |-> header_version[p][k] + IF is_first THEN 1 ELSE 0]
            newer    == {k \in HeaderKinds : HeaderVersion(k) > seen[k]}
            popped   == [k \in HeaderKinds |->
                           IF k \in newer THEN {PopHeader(k, idx)}
                           ELSE IF is_first THEN {PopHeader(k, 0)} ELSE {}]
<1>1. /\ header_version' = [header_version EXCEPT ![p] =
                              [k \in HeaderKinds |-> seen[k] + IF k \in newer THEN 1 ELSE 0]]
      /\ header_given' = [header_given EXCEPT ![p] =
                            [k \in HeaderKinds |-> @[k] \cup (popped[k] \ {NoPacket})]]
      /\ out_packet_index_' = [out_packet_index_ EXCEPT ![p] = BatchEnd(idx)]
      /\ p \in active_ /\ active_' = active_ \ {p}
      /\ UNCHANGED streamVars
  BY DEF PlayNew, Pop
<1>2. /\ packet_index_ \in Nat /\ packet_index_ > 0
      /\ headers \in [HeaderKinds -> Seq(Nat)]
      /\ header_version \in [Players -> [HeaderKinds -> Nat]]
      /\ header_given \in [Players -> [HeaderKinds -> SUBSET Nat]]
      /\ out_packet_index_ \in [Players -> Nat \cup {-1}]
      /\ gops_ \in Seq(Gop)
  BY <1>1 DEF IInv, StreamInv, StreamType, PlayerInv, PlayerType, HeaderInv
<1>3. idx \in Nat
  <2>1. ExpiredPacketIndex \in Int
    BY <1>2, StreamAssumption DEF ExpiredPacketIndex
  <2>2. gops \in Seq(Gop)
    BY <1>2, <2>1, ClearExpired
  <2>. HIDE DEF gops
  <2>3. GetGopByLatency(gops, Latency) \in Nat
    BY <2>2, GopByLatency, GopIndex
  <2>4. src \in Nat
    BY <1>2
  <2>. QED BY <2>3, <2>4
<1>. HIDE DEF idx
<1>4. out_packet_index_'[p] >= 0 /\ out_packet_index_'[p] # -1
  <2>1. BatchEnd(idx) >= 0 /\ BatchEnd(idx) # -1
    BY <1>2, <1>3, StreamAssumption DEF BatchEnd
  <2>2. out_packet_index_'[p] = BatchEnd(idx)
    BY <1>1, <1>2
  <2>. QED BY <2>1, <2>2
<1>. HIDE DEF is_skip, gops
<1>5. ASSUME NEW k \in HeaderKinds, header_version'[p][k] >= 2
      PROVE  header_given'[p][k] # {}
  <2>1. /\ header_version'[p][k] = seen[k] + IF k \in newer THEN 1 ELSE 0
        /\ header_given'[p][k] = header_given[p][k] \cup (popped[k] \ {NoPacket})
    BY <1>1, <1>2
  <2>2. CASE k \in newer
    <3>1. Len(headers[k]) > seen[k] /\ seen[k] \in Nat
      BY <1>2, <2>2 DEF HeaderVersion
    <3>2. headers[k] # <<>>
      BY <1>2, <3>1
    <3>3. PopHeader(k, idx) \in Nat
      BY <1>2, <3>2, PopHeaderType
    <3>4. PopHeader(k, idx) # NoPacket
      BY <3>3, NoPacketAssumption
    <3>5. popped[k] = {PopHeader(k, idx)}
      BY <2>2
    <3>. QED BY <2>1, <3>4, <3>5
  <2>3. CASE k \notin newer
    <3>1. header_version'[p][k] = seen[k] /\ seen[k] = header_version[p][k] + IF is_first THEN 1 ELSE 0
      BY <1>2, <2>1, <2>3
    <3>2. ~is_first
      <4>. SUFFICES ASSUME is_first PROVE FALSE
        OBVIOUS
      <4>1. out_packet_index_[p] = -1
        BY <1>2
      <4>2. header_version[p][k] = 0
        BY <4>1 DEF HeaderInv
      <4>3. header_version'[p][k] = 1
        BY <3>1, <4>2
      <4>. QED BY <1>5, <4>3
    <3>3. header_version[p][k] >= 2
      BY <1>2, <1>5, <3>1, <3>2
    <3>. QED BY <2>1, <3>3 DEF HeaderInv, SecondHeaderGiven
  <2>. QED BY <2>2, <2>3
<1>. HIDE DEF seen, newer, popped, is_first, src
<1>6. \A q \in Players : q # p => /\ out_packet_index_'[q] = out_packet_index_[q]
                                  /\ header_version'[q] = header_version[q]
                                  /\ header_given'[q] = header_given[q]
  BY <1>1, <1>2
<1>7. packet_index_' > 0
  BY <1>1, <1>2 DEF streamVars
<1>8. SecondHeaderGiven'
  BY <1>5, <1>6 DEF HeaderInv, SecondHeaderGiven
<1>9. \A q \in Players, k \in HeaderKinds :
        out_packet_index_'[q] = -1 => header_version'[q][k] = 0
  BY <1>4, <1>6 DEF HeaderInv
<1>. QED BY <1>7, <1>8, <1>9 DEF HeaderInv

LEMMA HeaderInvStep == IInv /\ HeaderInv /\ [Next]_vars => HeaderInv'
<1>. SUFFICES ASSUME IInv, HeaderInv, [Next]_vars PROVE HeaderInv'
  OBVIOUS
<1>1. packet_index_ \in Nat
  BY DEF IInv, StreamInv, StreamType
<1>2. ASSUME UNCHANGED playerVars, packet_index_' = packet_index_ + 1 PROVE HeaderInv'
  BY <1>1, <1>2 DEF HeaderInv, SecondHeaderGiven, playerVars
<1>3. ASSUME NEW k \in HeaderKinds, ProcessSequenceHeader(k) PROVE HeaderInv'
  BY <1>2, <1>3 DEF ProcessSequenceHeader, PushHeader
<1>4. ASSUME NEW kind \in MediaKinds, ProcessAudioVideo(kind) PROVE HeaderInv'
  BY <1>2, <1>4 DEF ProcessAudioVideo, PushMedia
<1>5. ASSUME NEW interval \in FrameIntervals, ParseDataMessage(interval) PROVE HeaderInv'
  BY <1>2, <1>5 DEF ParseDataMessage, PushHeader
<1>6. ASSUME NewProducer \/ UNCHANGED vars PROVE HeaderInv'
  BY <1>6 DEF NewProducer, vars, HeaderInv, SecondHeaderGiven, playerVars, streamVars
<1>7. ASSUME NEW p \in Players, PlayLeftOver(p) PROVE HeaderInv'
  <2>1. /\ active_' = active_ \ {p} /\ p \in active_ /\ UNCHANGED streamVars
        /\ UNCHANGED <<out_packet_index_, header_version, header_given>>
    BY <1>7 DEF PlayLeftOver
  <2>. QED BY <2>1 DEF HeaderInv, SecondHeaderGiven, streamVars
<1>. QED BY <1>3, <1>4, <1>5, <1>6, <1>7, PlayNewGives DEF Next

\* No player can count its way past two versions of a header without being given one.
THEOREM HeaderCorrect == Spec => []SecondHeaderGiven
<1>1. Init => HeaderInv
  BY DEF Init, HeaderInv, SecondHeaderGiven
<1>2. HeaderInv => SecondHeaderGiven
  BY DEF HeaderInv
<1>. QED BY <1>1, <1>2, IInvAlways, HeaderInvStep, PTL DEF Spec

----------------------------------------------------------------------------
(* The timestamps of what a player is sent: the corrector, for every         *)
(* modulus, all limits and defaults and any number of audios between two     *)
(* videos.  AudioFollows counts around the wrap.  The inductive invariant    *)
(* says the same without a modulus: the audio is ahead of the video by the   *)
(* distance or by the distance less one turn.                                *)

\* How far the n-th audio after a video may be from it.
Distances(n) == n .. VIDEO_MAX_DELTA + (n - 1) * AUDIO_MAX_DELTA

\* a is d after b, once around at most.
Ahead(a, b, d) == a = b + d \/ a = b + d - Modulus

Stamps == PacketTime \cup {-1}

\* The types; an audio or video has come when its timestamps are not -1.
CorrectorType ==
  /\ audio_num_between_video \in 0 .. MaxAudio
  /\ last_audio_ori_timestamp_ \in Stamps /\ last_corrected_audio_timestamp_ \in Stamps
  /\ last_video_ori_timestamp_ \in Stamps /\ last_corrected_video_timestamp_ \in Stamps
  /\ last_audio_ori_timestamp_ = -1 <=> last_corrected_audio_timestamp_ = -1
  /\ last_video_ori_timestamp_ = -1 <=> last_corrected_video_timestamp_ = -1
  /\ audio_num_between_video > 0 => last_audio_ori_timestamp_ # -1
  /\ joined => last_audio_ori_timestamp_ # -1 /\ last_video_ori_timestamp_ # -1

\* AudioFollows without the modulus.
FollowInv ==
  joined /\ audio_num_between_video > 0 =>
    \E d \in Distances(audio_num_between_video) :
      Ahead(last_corrected_audio_timestamp_, last_corrected_video_timestamp_, d)

CorrectorIInv == CorrectorType /\ FollowInv /\ RegularKept

----------------------------------------------------------------------------
(* Around the wrap.                                                        *)

\* The code's unsigned sums wrap once at most: what % makes of such a number.
LEMMA OneTurn ==
  ASSUME NEW m \in Nat \ {0}, NEW a \in Int, NEW b \in 0 .. m - 1,
         a = b \/ a = b + m \/ a = b - m
  PROVE  a % m = b
  OBVIOUS

\* No distance reaches a whole turn: the sums the code makes cannot lap the video.
LEMMA DistanceBound ==
  ASSUME NEW n \in 1 .. MaxAudio, NEW d \in Distances(n)
  PROVE  d \in 1 .. Modulus - 1
  <1> USE DeltaAssumption
  <1>1. (n - 1) * AUDIO_MAX_DELTA <= MaxAudio * AUDIO_MAX_DELTA
    <2>1. (MaxAudio - (n - 1)) * AUDIO_MAX_DELTA >= 0
      OBVIOUS
    <2> QED BY <2>1
  <1>2. (n - 1) * AUDIO_MAX_DELTA \in Nat /\ MaxAudio * AUDIO_MAX_DELTA \in Nat
    OBVIOUS
  <1> HIDE DeltaAssumption
  <1> QED BY <1>1, <1>2, DeltaAssumption DEF Distances

\* What the steps below need of the constants: each limit is less than a turn.
LEMMA Limits ==
  /\ Modulus \in Nat \ {0} /\ MaxAudio \in Nat \ {0}
  /\ AUDIO_MAX_DELTA \in 1 .. Modulus - 1 /\ AUDIO_DEFAULT_DELTA \in 1 .. AUDIO_MAX_DELTA
  /\ VIDEO_MAX_DELTA \in 1 .. Modulus - 1 /\ VIDEO_DEFAULT_DELTA \in 1 .. VIDEO_MAX_DELTA
  <1>1. AUDIO_MAX_DELTA <= MaxAudio * AUDIO_MAX_DELTA /\ MaxAudio * AUDIO_MAX_DELTA \in Nat
    <2>1. (MaxAudio - 1) * AUDIO_MAX_DELTA >= 0
      BY DeltaAssumption
    <2> QED BY <2>1, DeltaAssumption
  <1> QED BY <1>1, DeltaAssumption

\* Whatever comes, a corrected timestamp is at least 1 and at most max after the
\* one it goes by.
LEMMA CorrectedAhead ==
  ASSUME NEW ori \in PacketTime, NEW last \in PacketTime,
         NEW max \in 1 .. Modulus - 1, NEW default \in 1 .. max
  PROVE  /\ Corrected(ori, last, max, default) \in PacketTime
         /\ \E d \in 1 .. max : Ahead(Corrected(ori, last, max, default), last, d)
  <1>1. CASE ori - last \in 1 .. max
    BY <1>1, Limits DEF Corrected, PacketTime, Ahead
  <1>2. CASE ori - last \notin 1 .. max
    <2>1. Corrected(ori, last, max, default) = (last + default) % Modulus
      BY <1>2 DEF Corrected
    <2>2. CASE last + default < Modulus
      <3>1. (last + default) % Modulus = last + default
        BY <2>2, OneTurn, Limits DEF PacketTime
      <3> QED BY <2>1, <2>2, <3>1, Limits DEF PacketTime, Ahead
    <2>3. CASE last + default >= Modulus
      <3>1. (last + default) % Modulus = last + default - Modulus
        BY <2>3, OneTurn, Limits DEF PacketTime
      <3> QED BY <2>1, <2>3, <3>1, Limits DEF PacketTime, Ahead
    <2> QED BY <2>2, <2>3, Limits DEF PacketTime
  <1> QED BY <1>1, <1>2

----------------------------------------------------------------------------
(* The invariant.                                                          *)

LEMMA CorrectorInitIInv == CorrectorInit => CorrectorIInv
  <1> SUFFICES ASSUME CorrectorInit PROVE CorrectorIInv
    OBVIOUS
  <1>1. CorrectorType
    BY Limits DEF CorrectorInit, CorrectorType, Stamps
  <1>2. FollowInv /\ RegularKept
    BY DEF CorrectorInit, FollowInv, RegularKept
  <1> QED BY <1>1, <1>2 DEF CorrectorIInv

\* An audio goes by the audio before it or by the video.
LEMMA AudioStep ==
  ASSUME CorrectorIInv, NEW ori \in PacketTime, CorrectAudio(ori)
  PROVE  CorrectorIInv'
  <1> DEFINE n == audio_num_between_video
  <1> USE DEF CorrectorIInv
  <1>0. /\ n' = n + 1 /\ n < MaxAudio /\ n \in Nat
        /\ last_audio_ori_timestamp_' = ori
        /\ last_corrected_audio_timestamp_' = CorrectAudioByAudio(ori)
        /\ last_video_ori_timestamp_' = last_video_ori_timestamp_
        /\ last_corrected_video_timestamp_' = last_corrected_video_timestamp_
        /\ joined' = joined
    BY Limits DEF CorrectAudio, videoVars, CorrectorType
  <1>r. regular' => regular /\ RegularAudio(ori)
    BY DEF CorrectAudio
  <1>1. CASE n > 0
    <2>1. last_corrected_audio_timestamp_ \in PacketTime
      BY <1>1 DEF CorrectorType, Stamps
    <2>2. last_corrected_audio_timestamp_' =
            Corrected(ori, last_corrected_audio_timestamp_, AUDIO_MAX_DELTA, AUDIO_DEFAULT_DELTA)
      BY <1>0, <1>1 DEF CorrectAudioByAudio
    <2>3. PICK e \in 1 .. AUDIO_MAX_DELTA :
            Ahead(last_corrected_audio_timestamp_', last_corrected_audio_timestamp_, e)
      BY <2>1, <2>2, CorrectedAhead, Limits
    <2>4. last_corrected_audio_timestamp_' \in PacketTime
      BY <2>1, <2>2, CorrectedAhead, Limits
    <2>5. CorrectorType'
      BY <1>0, <2>4, Limits DEF CorrectorType, Stamps, PacketTime
    <2>6. FollowInv'
      <3> SUFFICES ASSUME joined
                   PROVE  \E d \in Distances(n + 1) :
                            Ahead(last_corrected_audio_timestamp_', last_corrected_video_timestamp_, d)
        BY <1>0 DEF FollowInv
      <3>1. PICK d \in Distances(n) :
              Ahead(last_corrected_audio_timestamp_, last_corrected_video_timestamp_, d)
        BY <1>1 DEF FollowInv
      <3>2. last_corrected_video_timestamp_ \in PacketTime
        BY DEF CorrectorType, Stamps
      <3>3. d + e \in Distances(n + 1) /\ d \in Int
        <4>1. (n + 1 - 1) * AUDIO_MAX_DELTA = (n - 1) * AUDIO_MAX_DELTA + AUDIO_MAX_DELTA
          BY <1>0, Limits
        <4>2. (n - 1) * AUDIO_MAX_DELTA \in Int
          BY <1>0, Limits
        <4> QED BY <4>1, <4>2, <1>0, Limits DEF Distances
      <3>4. d + e \in 1 .. Modulus - 1
        BY <3>3, <1>0, DistanceBound, Limits
      <3>5. Ahead(last_corrected_audio_timestamp_', last_corrected_video_timestamp_, d + e)
        BY <3>1, <3>2, <3>3, <3>4, <2>1, <2>3, <2>4, Limits DEF Ahead, PacketTime
      <3> QED BY <3>3, <3>5
    <2>7. RegularKept'
      BY <1>0, <1>r, <1>1, <2>2 DEF RegularKept, RegularAudio, Corrected
    <2> QED BY <2>5, <2>6, <2>7
  <1>2. CASE n = 0 /\ (last_audio_ori_timestamp_ < 0 \/ last_video_ori_timestamp_ < 0)
    <2>1. last_corrected_audio_timestamp_' = ori
      BY <1>0, <1>2 DEF CorrectAudioByAudio, CorrectAudioByVideo
    <2>2. ~joined
      BY <1>2, Limits DEF CorrectorType, Stamps, PacketTime
    <2>3. CorrectorType'
      BY <1>0, <2>1, <2>2, Limits DEF CorrectorType, Stamps, PacketTime
    <2> QED BY <1>0, <1>r, <2>1, <2>2, <2>3 DEF FollowInv, RegularKept
  <1>3. CASE n = 0 /\ ~(last_audio_ori_timestamp_ < 0) /\ ~(last_video_ori_timestamp_ < 0)
    <2>1. last_corrected_video_timestamp_ \in PacketTime
      BY <1>3, Limits DEF CorrectorType, Stamps, PacketTime
    <2>2. last_corrected_audio_timestamp_' =
            Corrected(ori, last_corrected_video_timestamp_, VIDEO_MAX_DELTA, VIDEO_DEFAULT_DELTA)
      BY <1>0, <1>3 DEF CorrectAudioByAudio, CorrectAudioByVideo
    <2>3. /\ last_corrected_audio_timestamp_' \in PacketTime
          /\ \E d \in 1 .. VIDEO_MAX_DELTA :
               Ahead(last_corrected_audio_timestamp_', last_corrected_video_timestamp_, d)
      BY <2>1, <2>2, CorrectedAhead, Limits
    <2>4. CorrectorType'
      BY <1>0, <2>3, Limits DEF CorrectorType, Stamps, PacketTime
    <2>5. FollowInv'
      <3>1. Distances(1) = 1 .. VIDEO_MAX_DELTA
        BY Limits DEF Distances
      <3>2. Distances(audio_num_between_video') = 1 .. VIDEO_MAX_DELTA
        BY <1>0, <1>3, <3>1
      <3> QED BY <1>0, <2>3, <3>2 DEF FollowInv
    <2>6. RegularKept'
      BY <1>0, <1>r, <1>3, <2>2, Limits
         DEF RegularKept, RegularAudio, Corrected, CorrectorType, Stamps, PacketTime
    <2> QED BY <2>4, <2>5, <2>6
  <1> QED BY <1>0, <1>1, <1>2, <1>3 DEF CorrectorType

\* A video starts the count anew.
LEMMA VideoStep ==
  ASSUME CorrectorIInv, NEW ori \in PacketTime, CorrectVideo(ori)
  PROVE  CorrectorIInv'
  <1> USE DEF CorrectorIInv
  <1>0. /\ audio_num_between_video' = 0
        /\ last_video_ori_timestamp_' = ori
        /\ last_corrected_video_timestamp_' = CorrectVideoByVideo(ori)
        /\ last_audio_ori_timestamp_' = last_audio_ori_timestamp_
        /\ last_corrected_audio_timestamp_' = last_corrected_audio_timestamp_
    BY DEF CorrectVideo, audioVars
  <1>r. regular' => regular /\ RegularVideo(ori)
    BY DEF CorrectVideo
  <1>j. joined' => last_audio_ori_timestamp_ >= 0
    BY DEF CorrectVideo
  <1>1. CorrectVideoByVideo(ori) \in PacketTime
    <2>1. CASE last_video_ori_timestamp_ < 0
      BY <2>1 DEF CorrectVideoByVideo, CorrectorType, Stamps, PacketTime
    <2>2. CASE ~(last_video_ori_timestamp_ < 0)
      <3>1. last_corrected_video_timestamp_ \in PacketTime
        BY <2>2, Limits DEF CorrectorType, Stamps, PacketTime
      <3>2. CorrectVideoByVideo(ori) =
              Corrected(ori, last_corrected_video_timestamp_, VIDEO_MAX_DELTA, VIDEO_DEFAULT_DELTA)
        BY <2>2 DEF CorrectVideoByVideo
      <3> QED BY <3>1, <3>2, CorrectedAhead, Limits
    <2> QED BY <2>1, <2>2
  <1>2. CorrectorType'
    BY <1>0, <1>j, <1>1, Limits DEF CorrectorType, Stamps, PacketTime
  <1>3. FollowInv'
    BY <1>0 DEF FollowInv
  <1>4. RegularKept'
    BY <1>0, <1>r, Limits
       DEF RegularKept, RegularVideo, CorrectVideoByVideo, Corrected, CorrectorType, Stamps, PacketTime
  <1> QED BY <1>2, <1>3, <1>4

LEMMA CorrectorNextIInv == CorrectorIInv /\ [CorrectorNext]_correctorVars => CorrectorIInv'
  <1> SUFFICES ASSUME CorrectorIInv, [CorrectorNext]_correctorVars PROVE CorrectorIInv'
    OBVIOUS
  <1>1. CASE CorrectorNext
    BY <1>1, AudioStep, VideoStep DEF CorrectorNext
  <1>2. CASE UNCHANGED correctorVars
    BY <1>2 DEF correctorVars, audioVars, videoVars,
                CorrectorIInv, CorrectorType, FollowInv, RegularKept
  <1> QED BY <1>1, <1>2

LEMMA CorrectorInvariant == CorrectorSpec => []CorrectorIInv
  BY CorrectorInitIInv, CorrectorNextIInv, PTL DEF CorrectorSpec

----------------------------------------------------------------------------

\* Audio keeps to the video it follows, for every source: what CorrectAudioByAudio
\* and CorrectAudioByVideo return never runs away from CorrectVideoByVideo's.
THEOREM AudioNearVideo == CorrectorSpec => []AudioFollows
  <1>1. CorrectorIInv => AudioFollows
    <2> SUFFICES ASSUME CorrectorIInv, joined, audio_num_between_video > 0
                 PROVE  (last_corrected_audio_timestamp_ - last_corrected_video_timestamp_) % Modulus
                          \in Distances(audio_num_between_video)
      BY DEF AudioFollows, Distances
    <2>1. PICK d \in Distances(audio_num_between_video) :
            Ahead(last_corrected_audio_timestamp_, last_corrected_video_timestamp_, d)
      BY DEF CorrectorIInv, FollowInv
    <2>2. audio_num_between_video \in 1 .. MaxAudio
      BY Limits DEF CorrectorIInv, CorrectorType
    <2>3. d \in 0 .. Modulus - 1
      BY <2>1, <2>2, DistanceBound
    <2>4. /\ last_corrected_audio_timestamp_ \in Int /\ last_corrected_video_timestamp_ \in Int
      BY DEF CorrectorIInv, CorrectorType, Stamps, PacketTime
    <2>5. (last_corrected_audio_timestamp_ - last_corrected_video_timestamp_) % Modulus = d
      BY <2>1, <2>3, <2>4, OneTurn, Limits DEF Ahead
    <2> QED BY <2>1, <2>5
  <1> QED BY <1>1, CorrectorInvariant, PTL

\* A regular source goes through CorrectTimestamp unchanged, however long it runs.
THEOREM RegularUnchanged == CorrectorSpec => []RegularKept
  <1>1. CorrectorIInv => RegularKept
    BY DEF CorrectorIInv
  <1> QED BY <1>1, CorrectorInvariant, PTL

=============================================================================
