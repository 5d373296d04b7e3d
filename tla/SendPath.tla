------------------------------ MODULE SendPath ------------------------------
(***************************************************************************)
(* How packets become bytes of a socket: BuildChunk of                     *)
(* SsmsRtmpMessageContext and the writing half of TcpConnection.           *)
(*                                                                         *)
(* Everything here runs on the thread of the connection's event loop.  A   *)
(* task or an event is cut into its loops' rounds: phase says which loop   *)
(* the thread is in, and nothing else begins before it is idle again.      *)
(*                                                                         *)
(* Bytes are not modelled, only where they lie: the rtmp headers in the    *)
(* array sending_, the payload in the packet's own memory.                 *)
(***************************************************************************)
EXTENDS Integers, Sequences, SequencesExt

CONSTANTS
  Packets,       \* packet memory blocks; a released one may be allocated again
  Chunks,        \* packet -> chunks its payload is cut into
  ChunkSize,     \* s_chunk_size_ (128 in the code)
  SendingSize,   \* sizeof(sending_) (10240 in the code)
  FirstMax,      \* reserved for the header of the first chunk (18 in the code)
  NextMax,       \* reserved for the header of a later chunk (8 in the code)
  FirstSizes,    \* sizes the header of the first chunk really has
  NextSizes,     \* sizes the headers of later chunks really have
  S0S1Size,      \* bytes of S0 and S1 (1537 in the code)
  S0S1S2Size,    \* bytes of S0, S1 and S2 (3073 in the code)
  IovMax,        \* IOV_MAX
  MaxBatch,      \* packets one Pop returns (90 in the code)
  MaxMessages,   \* bound: messages posted to the peer
  MaxPlays       \* bound: Play tasks queued at a time

ASSUME SendPathAssumption ==
  /\ Chunks \in [Packets -> Nat]
  /\ ChunkSize \in Nat \ {0}
  /\ FirstMax \in Nat /\ FirstSizes \subseteq 1 .. FirstMax
  /\ NextMax \in Nat  /\ NextSizes \subseteq 1 .. NextMax
  /\ SendingSize \in Nat \ {0}
  /\ S0S1Size \in Nat \ {0} /\ S0S1S2Size \in Nat \ {0}
  /\ IovMax \in Nat \ {0}
  /\ MaxBatch \in Nat /\ MaxMessages \in Nat /\ MaxPlays \in Nat
  /\ Packets \cap {"sending", "s0s1s2"} = {}

\* struct iovec: iov_base is a memory block and a place in it.
Memory == Packets \cup {"sending", "s0s1s2"}
Iovec  == [mem : Memory, from : Int, len : Nat]

VARIABLES
  sending_curr_,   \* bytes of sending_ in use
  sending_nodes_,  \* the chunks, as iovecs
  sending_pkts_,   \* packets whose payload the chunks refer to
  active_,         \* SsmsPlayClient: the flag of Active and DeActive
  plays,           \* its Play tasks that are queued
  messages,        \* messages posted so far
  out_packet_,     \* SsmsPlayClient: packets waiting for BuildChunk
  iovecs_,         \* TcpConnection: what the socket has not taken yet
  write_event,     \* EPOLLOUT is on
  closed_,
  handshake,       \* state_ of SsmsRtmpHandshakeContext, or "done"
  phase,           \* "idle", or the loop the thread is in
  written          \* auxiliary: bytes the last writev took

contextVars == <<sending_curr_, sending_nodes_, sending_pkts_>>
clientVars  == <<active_, plays, messages>>
connVars    == <<iovecs_, write_event, closed_>>
vars == <<contextVars, clientVars, out_packet_, connVars, handshake, phase, written>>

Init ==
  /\ sending_curr_ = 0
  /\ sending_nodes_ = <<>>
  /\ sending_pkts_ = {}
  /\ active_ = FALSE
  /\ plays = 0
  /\ messages = 0
  /\ out_packet_ = <<>>
  /\ iovecs_ = <<>>
  /\ write_event = FALSE
  /\ closed_ = FALSE
  /\ handshake = "WaitC0"
  /\ phase = "idle"
  /\ written = 0

-----------------------------------------------------------------------------
(* SsmsRtmpMessageContext *)

\* Mutant: only the first header is counted.
MutFits(pkt) == sending_curr_ + FirstMax < SendingSize

\* The largest headers the packet could need still fit into sending_.
Fits(pkt) ==
  LET later == IF Chunks[pkt] > 1 THEN Chunks[pkt] - 1 ELSE 0
  IN  sending_curr_ + FirstMax + later * NextMax < SendingSize

\* The chunks of pkt as nodes: header, payload, header, payload ...; the
\* headers follow each other in sending_ from sending_curr_ on.
ChunkNodes(pkt, first, next) ==
  LET header(k)  == [mem  |-> "sending",
                     from |-> sending_curr_ + IF k = 1 THEN 0 ELSE first + (k - 2) * next,
                     len  |-> IF k = 1 THEN first ELSE next]
      payload(k) == [mem |-> pkt, from |-> (k - 1) * ChunkSize, len |-> ChunkSize]
  IN  [i \in 1 .. (IF Chunks[pkt] = 0 THEN 1 ELSE 2 * Chunks[pkt]) |->
         IF i % 2 = 1 THEN header((i + 1) \div 2) ELSE payload(i \div 2)]

\* Mutant: the headers of the later chunks are not counted in.
MutBuildChunk(pkt) ==
  \E first \in FirstSizes, next \in NextSizes :
    /\ sending_nodes_' = sending_nodes_ \o ChunkNodes(pkt, first, next)
    /\ sending_curr_' = sending_curr_ + first
    /\ sending_pkts_' = sending_pkts_ \cup {pkt}

\* Mutant: the packet is not kept.
MutDropPacket(pkt) ==
  \E first \in FirstSizes, next \in NextSizes :
    /\ sending_nodes_' = sending_nodes_ \o ChunkNodes(pkt, first, next)
    /\ sending_curr_' = sending_curr_ + first
                        + IF Chunks[pkt] > 1 THEN (Chunks[pkt] - 1) * next ELSE 0
    /\ UNCHANGED sending_pkts_

\* BuildChunk of a packet that fits.
BuildChunk(pkt) ==
  \E first \in FirstSizes, next \in NextSizes :
    /\ sending_nodes_' = sending_nodes_ \o ChunkNodes(pkt, first, next)
    /\ sending_curr_' = sending_curr_ + first
                        + IF Chunks[pkt] > 1 THEN (Chunks[pkt] - 1) * next ELSE 0
    /\ sending_pkts_' = sending_pkts_ \cup {pkt}

\* The write callback, which ends in SsmsPlayClient::DeActive.
ClearSendCompleteData ==
  /\ sending_pkts_' = {}
  /\ sending_nodes_' = <<>>
  /\ sending_curr_' = 0
  /\ active_' = FALSE

\* A new packet lies in memory that no list holds.
Fresh(pkt) == pkt \notin sending_pkts_ \cup ToSet(out_packet_)

\* TcpConnection::SendNodes is called with all of sending_nodes_.
SendNodes(nodes) ==
  IF closed_
  THEN phase' = "idle" /\ UNCHANGED iovecs_
  ELSE phase' = "SendNodes" /\ iovecs_' = iovecs_ \o nodes

\* PostMessage's task: a message that does not fit is not built, and dropped.
PostMessage(pkt) ==
  /\ phase = "idle"
  /\ handshake = "done"
  /\ messages < MaxMessages
  /\ messages' = messages + 1
  /\ Fresh(pkt)
  /\ IF Fits(pkt) THEN BuildChunk(pkt) ELSE UNCHANGED contextVars
  /\ SendNodes(sending_nodes_')
  /\ UNCHANGED <<active_, plays, out_packet_, write_event, closed_, handshake, written>>

-----------------------------------------------------------------------------
(* SsmsPlayClient *)

\* The publisher's thread activates the player.  (Relay has the two accesses to
\* active_ one by one; here they are one step.)
Active ==
  /\ handshake = "done"
  /\ ~active_
  /\ plays < MaxPlays
  /\ active_' = TRUE
  /\ plays' = plays + 1
  /\ UNCHANGED <<contextVars, messages, out_packet_, connVars, handshake, phase, written>>

\* Pop, when no packet is waiting, returns a batch of new packets.
Play ==
  /\ phase = "idle"
  /\ handshake = "done"
  /\ plays > 0
  /\ plays' = plays - 1
  /\ IF out_packet_ = <<>>
     THEN \E n \in 0 .. MaxBatch : \E batch \in [1 .. n -> Packets] :
            /\ \A i \in 1 .. n : Fresh(batch[i])
            /\ \A i, j \in 1 .. n : i # j => batch[i] # batch[j]
            /\ out_packet_' = batch
     ELSE UNCHANGED out_packet_
  /\ phase' = IF out_packet_ = <<>> THEN "headers" ELSE "packets"
  /\ UNCHANGED <<contextVars, active_, messages, connVars, handshake, written>>

\* meta_ and the sequence headers: one that does not fit is dropped.
PlayHeader(pkt) ==
  /\ phase = "headers"
  /\ Fresh(pkt)
  /\ IF Fits(pkt) THEN BuildChunk(pkt) ELSE UNCHANGED contextVars
  /\ UNCHANGED <<clientVars, out_packet_, connVars, handshake, phase, written>>

\* A waiting packet that fits leaves the list ...
PlayPacket ==
  /\ phase \in {"headers", "packets"}
  /\ out_packet_ # <<>>
  /\ Fits(Head(out_packet_))
  /\ BuildChunk(Head(out_packet_))
  /\ out_packet_' = Tail(out_packet_)
  /\ phase' = "packets"
  /\ UNCHANGED <<clientVars, connVars, handshake, written>>

\* ... and the first that does not ends the loop.
PlaySend ==
  /\ phase \in {"headers", "packets"}
  /\ out_packet_ # <<>> => ~Fits(Head(out_packet_))
  /\ SendNodes(sending_nodes_)
  /\ UNCHANGED <<contextVars, clientVars, out_packet_, write_event, closed_, handshake, written>>

-----------------------------------------------------------------------------
(* TcpConnection *)

\* Bytes of the first k iovecs.
SizeUpTo(q, k) ==
  LET size[i \in 0 .. Len(q)] == IF i = 0 THEN 0 ELSE size[i - 1] + q[i].len
  IN  size[k]

\* What one writev can take: it looks at IOV_MAX iovecs at most.
Writable(q) == SizeUpTo(q, IF Len(q) <= IovMax THEN Len(q) ELSE IovMax)

\* The iovec in which a write of n bytes ends.
LastTouched(q, n) ==
  CHOOSE k \in DOMAIN q : SizeUpTo(q, k) >= n /\ (k = 1 \/ SizeUpTo(q, k - 1) < n)

\* Mutant: the loop of OnWrite computes as the loop of SendNodes does.
MutAfterOnWrite(q, n) ==
  LET k    == LastTouched(q, n)
      left == SizeUpTo(q, k) - n
  IN  IF left = 0
      THEN SubSeq(q, k + 1, Len(q))
      ELSE <<[mem |-> q[1].mem, from |-> q[1].from + q[1].len - left, len |-> left]>>
             \o SubSeq(q, k + 1, Len(q))

\* The loop of OnWrite: whole iovecs are erased, the next one is advanced.
AfterOnWrite(q, n) ==
  LET k    == LastTouched(q, n)
      left == SizeUpTo(q, k) - n
      gone == q[k].len - left
  IN  IF left = 0
      THEN SubSeq(q, k + 1, Len(q))
      ELSE <<[q[k] EXCEPT !.from = @ + gone, !.len = left]>> \o SubSeq(q, k + 1, Len(q))

\* The loop of SendNodes advances from the base and the length of iovecs_[0],
\* whichever iovec the write ended in.
AfterSendNodes(q, n) ==
  LET k    == LastTouched(q, n)
      left == SizeUpTo(q, k) - n
  IN  IF left = 0
      THEN SubSeq(q, k + 1, Len(q))
      ELSE <<[mem |-> q[1].mem, from |-> q[1].from + q[1].len - left, len |-> left]>>
             \o SubSeq(q, k + 1, Len(q))

\* writev in the loop of SendNodes takes some bytes, ...
SendNodesWrite ==
  /\ phase = "SendNodes"
  /\ iovecs_ # <<>>
  /\ \E n \in 1 .. Writable(iovecs_) :
       /\ written' = n
       /\ iovecs_' = AfterSendNodes(iovecs_, n)
  /\ UNCHANGED <<contextVars, clientVars, out_packet_, write_event, closed_, handshake, phase>>

\* Mutant: the write event is not turned on.
MutSendNodesBlocked ==
  /\ phase = "SendNodes"
  /\ iovecs_ # <<>>
  /\ phase' = "idle"
  /\ UNCHANGED <<contextVars, clientVars, out_packet_, connVars, handshake, written>>

\* ... finds the socket full, ...
SendNodesBlocked ==
  /\ phase = "SendNodes"
  /\ iovecs_ # <<>>
  /\ write_event' = TRUE
  /\ phase' = "idle"
  /\ UNCHANGED <<contextVars, clientVars, out_packet_, iovecs_, closed_, handshake, written>>

\* ... or everything is sent: the callback runs, the write event stays as it is.
SendNodesDone ==
  /\ phase = "SendNodes"
  /\ iovecs_ = <<>>
  /\ ClearSendCompleteData
  /\ phase' = "idle"
  /\ UNCHANGED <<plays, messages, out_packet_, connVars, handshake, written>>

\* The loop reports the socket writable.
OnWrite ==
  /\ phase = "idle"
  /\ write_event
  /\ ~closed_
  /\ phase' = "OnWrite"
  /\ UNCHANGED <<contextVars, clientVars, out_packet_, connVars, handshake, written>>

OnWriteWrite ==
  /\ phase = "OnWrite"
  /\ iovecs_ # <<>>
  /\ \E n \in 1 .. Writable(iovecs_) :
       /\ written' = n
       /\ iovecs_' = AfterOnWrite(iovecs_, n)
  /\ UNCHANGED <<contextVars, clientVars, out_packet_, write_event, closed_, handshake, phase>>

OnWriteBlocked ==
  /\ phase = "OnWrite"
  /\ iovecs_ # <<>>
  /\ phase' = "idle"
  /\ UNCHANGED <<contextVars, clientVars, out_packet_, connVars, handshake, written>>

OnWriteDone ==
  /\ phase = "OnWrite"
  /\ iovecs_ = <<>>
  /\ write_event' = FALSE
  /\ ClearSendCompleteData
  /\ phase' = "idle"
  /\ UNCHANGED <<plays, messages, out_packet_, iovecs_, closed_, handshake, written>>

\* OnSendPkt: no callback, and what a full socket leaves is queued.
OnSendPkt(size) ==
  \E n \in 0 .. size :
    /\ iovecs_ # <<>> => n = 0
    /\ written' = n
    /\ IF n = size
       THEN UNCHANGED <<iovecs_, write_event>>
       ELSE /\ iovecs_' = Append(iovecs_, [mem |-> "s0s1s2", from |-> n, len |-> size - n])
            /\ write_event' = TRUE

\* SsmsRtmpHandshakeContext: C0 alone is answered with S0 and S1, and C1 with
\* all of S0, S1 and S2 from the same array.
Handshake ==
  /\ phase = "idle"
  /\ ~closed_
  /\ \/ /\ handshake = "WaitC0"
        /\ OnSendPkt(S0S1Size)
        /\ handshake' = "WaitC1"
     \/ /\ handshake \in {"WaitC0", "WaitC1"}
        /\ OnSendPkt(S0S1S2Size)
        /\ handshake' = "WaitC2"
     \/ /\ handshake = "WaitC2"
        /\ handshake' = "done"
        /\ UNCHANGED <<iovecs_, write_event, written>>
  /\ UNCHANGED <<contextVars, clientVars, out_packet_, closed_, phase>>

\* A write fails, the peer closes, or the idle connection is closed.
OnClose ==
  /\ phase \in {"idle", "SendNodes", "OnWrite"}
  /\ phase # "idle" => iovecs_ # <<>>
  /\ ~closed_
  /\ closed_' = TRUE
  /\ phase' = "idle"
  /\ UNCHANGED <<contextVars, clientVars, out_packet_, iovecs_, write_event, handshake, written>>

-----------------------------------------------------------------------------
SendingStep == SendNodesWrite \/ SendNodesBlocked \/ SendNodesDone
PlayStep    == PlayPacket \/ PlaySend

Next ==
  \/ \E pkt \in Packets : PostMessage(pkt) \/ PlayHeader(pkt)
  \/ Active \/ Play \/ PlayStep
  \/ SendingStep
  \/ OnWrite \/ OnWriteWrite \/ OnWriteBlocked \/ OnWriteDone
  \/ Handshake
  \/ OnClose

\* The thread goes on with what it has begun, and a player is activated again
\* and again.  The socket becomes writable and takes bytes as long as the peer
\* reads, and a peer that is silent is closed by CheckConnectionStatus.
Fairness ==
  /\ WF_vars(PlayStep)
  /\ WF_vars(SendingStep)
  /\ WF_vars(Active)
  /\ SF_vars(Play)
  /\ SF_vars(OnWrite)
  /\ SF_vars(OnWriteWrite)
  /\ WF_vars(OnWriteDone)

Spec     == Init /\ [][Next]_vars
FairSpec == Spec /\ Fairness

-----------------------------------------------------------------------------
(* Properties *)

\* The comment at SsmsRtmpMessageContext.cpp:654: however many packets one
\* activation builds, their headers end before sending_ does.
HeadersFit == sending_curr_ < SendingSize

\* What the socket has still to take ends in the part of sending_ that is in
\* use: the next BuildChunk does not write over it.  (Where an interval ends, not
\* which bytes it has: SendNodes may keep others than those not taken.)
HeadersKept ==
  \A q \in {iovecs_, sending_nodes_} : \A i \in DOMAIN q :
    q[i].mem = "sending" => q[i].from + q[i].len <= sending_curr_

\* The payload the socket has still to take belongs to a packet that
\* sending_pkts_ keeps alive.  (Whose memory it is, not which part of it.)
PayloadKept ==
  \A q \in {iovecs_, sending_nodes_} : \A i \in DOMAIN q :
    q[i].mem \in Packets => q[i].mem \in sending_pkts_

\* Bytes that wait for the socket wait with EPOLLOUT on.
WriteArmed == iovecs_ # <<>> /\ ~closed_ /\ phase # "SendNodes" => write_event

\* The bytes one iovec stands for, and those of the first k and of all
\* of them, in order.
BytesOf(v) == [i \in 1 .. v.len |-> <<v.mem, v.from + i - 1>>]

BytesUpTo(q, k) ==
  LET bytes[i \in 0 .. Len(q)] == IF i = 0 THEN <<>> ELSE bytes[i - 1] \o BytesOf(q[i])
  IN  bytes[k]

Bytes(q) == BytesUpTo(q, Len(q))

\* A write event sends the first bytes of iovecs_ and leaves the others, also
\* when writev stops inside an iovec or at IOV_MAX.
OnWriteInOrder ==
  [][phase = "OnWrite" /\ iovecs_' # iovecs_ =>
       SubSeq(Bytes(iovecs_), written' + 1, Len(Bytes(iovecs_))) = Bytes(iovecs_')]_vars

\* What waits for the socket is sent, or the connection is closed.
Drains == iovecs_ # <<>> ~> iovecs_ = <<>> \/ closed_

(* What comments of the code say and the code does not do *)

\* SsmsRtmpMessageContext.h:72: sending_nodes_ is only used for the time of the
\* call of BuildChunk.  Then no byte of a chunk is queued for the socket twice.
QueuedOnce ==
  \A i, j \in DOMAIN iovecs_ :
    i # j /\ iovecs_[i].mem = iovecs_[j].mem /\ iovecs_[i].mem # "s0s1s2" =>
      \/ iovecs_[i].from + iovecs_[i].len <= iovecs_[j].from
      \/ iovecs_[j].from + iovecs_[j].len <= iovecs_[i].from

=============================================================================
