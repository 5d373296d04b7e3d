----------------------------- MODULE ChunkParse -----------------------------
(***************************************************************************)
(* How the bytes of a peer become messages: Parse of                       *)
(* SsmsRtmpHandshakeContext and of SsmsRtmpMessageContext, called from     *)
(* TcpConnection::OnRead with whatever part of the stream has arrived.     *)
(*                                                                         *)
(* A byte of the wire is a record that says what it belongs to.  The peer  *)
(* keeps to the protocol, with timestamps below 0xFFFFFF and chunk stream  *)
(* ids below 64; it may cut its messages into chunks of several chunk      *)
(* streams in any order, and TCP may cut the bytes anywhere.  Timestamps   *)
(* are left out: the publisher gives its frames new ones.                  *)
(***************************************************************************)
EXTENDS Integers, Sequences

CONSTANTS
  Csids,           \* chunk streams
  Messages,        \* messages a peer may send, see MessageKinds
  HandshakeSize,   \* bytes of C1 and of C2 (1536 in the code)
  HeaderSize,      \* fmt -> bytes of basic and message header (12, 8, 4, 1 in the code)
  FirstChunkSize,  \* r_chunk_size_ of a new connection (128 in the code)
  MaxMessages,     \* bound: messages the peer sends on one chunk stream
  MaxWire,         \* bound: the peer sends a chunk when fewer bytes are under way
  NoPacket         \* packets_ has none for a chunk stream

\* "Media" stands for every message that leaves the connection open and the
\* parser as it is, "End" for those that make Parse return a close.
MessageKinds == {"Media", "SetChunkSize", "End"}

\* The types of a message's header and of a message that is being received.
MessageHeader == [kind : MessageKinds, len : Nat]
DataByte      == [kind : {"data"}, csid : Csids, number : Nat, at : Nat]
Received      == [header : MessageHeader, data : Seq(DataByte)]

ASSUME ChunkParseAssumption ==
  /\ \A m \in Messages : /\ m.kind \in MessageKinds
                         /\ m.len \in Nat
                         /\ m.kind = "SetChunkSize" => m.len > 0
                         /\ m.size \in Nat \ {0}
  /\ HandshakeSize \in Nat \ {0}
  /\ HeaderSize \in [0 .. 3 -> Nat \ {0}]
  /\ FirstChunkSize \in Nat \ {0}
  /\ MaxMessages \in Nat /\ MaxWire \in Nat \ {0}
  /\ NoPacket \notin Received

VARIABLES
  sent,                \* peer: chunk stream -> messages it has begun
  progress,            \* peer: chunk stream -> bytes of the last one it has sent
  peer_chunk_size,     \* peer: its chunk size
  greeted,             \* peer: C2 is sent
  wire,                \* bytes that were sent and are not yet retrieved
  readable,            \* how many of them are in buffer_
  state_,              \* of the handshake, or "control"
  prev_recv_headers_,  \* chunk stream -> header of its last message
  packets_,            \* chunk stream -> message that is not complete
  r_chunk_size_,
  delivered,           \* chunk stream -> messages given to ParseAssembledMessage
  parsing,             \* OnRead is in the loop of Parse
  closed_,
  running              \* FALSE once an assertion has failed

peerVars    == <<sent, progress, peer_chunk_size, greeted>>
contextVars == <<prev_recv_headers_, packets_, r_chunk_size_, delivered>>
vars == <<peerVars, wire, readable, state_, contextVars, parsing, closed_, running>>

Smaller(a, b) == IF a < b THEN a ELSE b

\* n bytes of one kind.
Fill(n, kind) == [i \in 1 .. n |-> [kind |-> kind]]

\* A header of zeros, as prev_recv_headers_ gets it.
NoHeader == [kind |-> "None", len |-> 0]

Header(msg) == [kind |-> msg.kind, len |-> msg.len]

\* Bytes from + 1 .. to of the number-th message of chunk stream c.
Payload(c, number, from, to) ==
  [i \in 1 .. to - from |-> [kind |-> "data", csid |-> c, number |-> number, at |-> from + i]]

Init ==
  /\ sent = [c \in Csids |-> <<>>]
  /\ progress = [c \in Csids |-> 0]
  /\ peer_chunk_size = FirstChunkSize
  /\ greeted = FALSE
  /\ wire = Fill(1, "C0") \o Fill(HandshakeSize, "C1")
  /\ readable = 0
  /\ state_ = "WaitC0"
  /\ prev_recv_headers_ = [c \in Csids |-> NoHeader]
  /\ packets_ = [c \in Csids |-> NoPacket]
  /\ r_chunk_size_ = FirstChunkSize
  /\ delivered = [c \in Csids |-> <<>>]
  /\ parsing = FALSE
  /\ closed_ = FALSE
  /\ running = TRUE

-----------------------------------------------------------------------------
(* The peer *)

\* C2 answers S1.
PeerC2 ==
  /\ ~greeted
  /\ state_ # "WaitC0"
  /\ greeted' = TRUE
  /\ wire' = wire \o Fill(HandshakeSize, "C2")
  /\ UNCHANGED <<sent, progress, peer_chunk_size, readable, state_, contextVars,
                 parsing, closed_, running>>

\* A chunk of msg, the number-th of chunk stream c, from byte `from' on.  Its
\* own chunk size changes with the last byte of a SetChunkSize.
PeerChunk(c, fmt, msg, number, from) ==
  LET to == from + Smaller(msg.len - from, peer_chunk_size)
  IN  /\ wire' = wire \o <<[kind |-> "header", csid |-> c, fmt |-> fmt,
                               header |-> Header(msg)]>>
                      \o Fill(HeaderSize[fmt] - 1, "rest")
                      \o Payload(c, number, from, to)
      /\ progress' = [progress EXCEPT ![c] = to]
      /\ peer_chunk_size' = IF msg.kind = "SetChunkSize" /\ to = msg.len
                            THEN msg.size ELSE peer_chunk_size

Begun(c)    == Len(sent[c])
Complete(c) == Begun(c) > 0 => progress[c] = sent[c][Begun(c)].len

\* The first chunk of a message has fmt 1 to 3 only after another message of
\* its chunk stream, and 2 or 3 only if the header repeats.
PeerBegin(c, msg, fmt) ==
  /\ greeted
  /\ Len(wire) < MaxWire
  /\ Complete(c)
  /\ Begun(c) < MaxMessages
  /\ fmt > 0 => Begun(c) > 0
  /\ fmt > 1 => Header(msg) = Header(sent[c][Begun(c)])
  /\ sent' = [sent EXCEPT ![c] = Append(@, msg)]
  /\ PeerChunk(c, fmt, msg, Begun(c) + 1, 0)
  /\ UNCHANGED <<greeted, readable, state_, contextVars, parsing, closed_, running>>

\* Later chunks have fmt 3.
PeerContinue(c) ==
  /\ ~Complete(c)
  /\ Len(wire) < MaxWire
  /\ PeerChunk(c, 3, sent[c][Begun(c)], Begun(c), progress[c])
  /\ UNCHANGED <<sent, greeted, readable, state_, contextVars, parsing, closed_, running>>

-----------------------------------------------------------------------------
(* TcpConnection::OnRead and the loop of SsmsRtmpMessageContext::Parse *)

\* readFd takes what has arrived, and Parse begins.
OnRead ==
  /\ running /\ ~closed_ /\ ~parsing
  /\ \E n \in readable + 1 .. Len(wire) : readable' = n
  /\ parsing' = TRUE
  /\ UNCHANGED <<peerVars, wire, state_, contextVars, closed_, running>>

\* A round of the loop retrieves n bytes, and the loop goes on.
Retrieve(n) ==
  /\ wire' = SubSeq(wire, n + 1, Len(wire))
  /\ readable' = readable - n
  /\ parsing' = (readable > n)

\* A round that retrieves nothing returns 1: there is not enough data.
NotEnough == parsing' = FALSE /\ UNCHANGED <<wire, readable>>

InParse(state) == running /\ parsing /\ state_ = state

\* OnC0 with all of C1 goes on to OnC1; otherwise it sends S0 and S1 and waits.
OnC0 ==
  /\ InParse("WaitC0")
  /\ IF readable - 1 >= HandshakeSize
     THEN /\ Retrieve(1 + HandshakeSize)
          /\ state_' = "WaitC2"
     ELSE /\ wire' = Tail(wire)
          /\ readable' = readable - 1
          /\ parsing' = FALSE
          /\ state_' = "WaitC1"
  /\ UNCHANGED <<peerVars, contextVars, closed_, running>>

\* OnC1 does not look at how much there is: readInt32 and retrieve assert it.
OnC1 ==
  /\ InParse("WaitC1")
  /\ IF readable < HandshakeSize
     THEN /\ running' = FALSE
          /\ NotEnough
          /\ UNCHANGED state_
     ELSE /\ Retrieve(HandshakeSize)
          /\ state_' = "WaitC2"
          /\ UNCHANGED running
  /\ UNCHANGED <<peerVars, contextVars, closed_>>

OnC2 ==
  /\ InParse("WaitC2")
  /\ IF readable < HandshakeSize
     THEN NotEnough /\ UNCHANGED state_
     ELSE Retrieve(HandshakeSize) /\ state_' = "control"
  /\ UNCHANGED <<peerVars, contextVars, closed_, running>>

-----------------------------------------------------------------------------
(* SsmsRtmpMessageContext::ParseMessage *)

\* The byte that is taken for a basic header.
First  == wire[1]
Csid   == First.csid
InData == HeaderSize[First.fmt]

\* fmt 2 and 3 have no length and no type, those of the last message hold.
ReceivedHeader == IF First.fmt <= 1 THEN First.header ELSE prev_recv_headers_[Csid]

\* The message this chunk belongs to, a new one if none is unfinished.
Packet == IF packets_[Csid] = NoPacket THEN [header |-> ReceivedHeader, data |-> <<>>]
          ELSE packets_[Csid]

ToBeReceived(packet) == packet.header.len - Len(packet.data)

ChunkLen == Smaller(ToBeReceived(Packet), r_chunk_size_)

\* Mutant: the chunk that ends with the last byte that has arrived is put off.
MutEnough(n) == readable > n

Enough(n) == readable >= n

\* The header is not complete.
ParseHeaderWait ==
  /\ InParse("control")
  /\ First.kind = "header"
  /\ ~Enough(InData)
  /\ NotEnough
  /\ UNCHANGED <<peerVars, state_, contextVars, closed_, running>>

\* The header is, the payload is not: the header and the packet are kept.
ParseChunkWait ==
  /\ InParse("control")
  /\ First.kind = "header"
  /\ Enough(InData) /\ ~Enough(InData + ChunkLen)
  /\ prev_recv_headers_' = [prev_recv_headers_ EXCEPT ![Csid] = ReceivedHeader]
  /\ packets_' = [packets_ EXCEPT ![Csid] = Packet]
  /\ NotEnough
  /\ UNCHANGED <<peerVars, state_, r_chunk_size_, delivered, closed_, running>>

\* Mutant: a chunk size is taken for the next connection only.
MutParseSetChunkSize(packet) == r_chunk_size_

\* ParseSetChunkSize: the value the payload stands for.
ParseSetChunkSize(packet) == sent[packet.data[1].csid][packet.data[1].number].size

ParseAssembledMessage(packet) ==
  /\ delivered' = [delivered EXCEPT ![Csid] = Append(@, packet)]
  /\ r_chunk_size_' = IF packet.header.kind = "SetChunkSize" THEN ParseSetChunkSize(packet)
                      ELSE r_chunk_size_
  /\ closed_' = (packet.header.kind = "End")

\* Mutant: a message that is complete stays in packets_.
MutUnfinished(packet) == packet

\* What packets_ keeps: a message that is complete is erased.
Unfinished(packet) == IF ToBeReceived(packet) = 0 THEN NoPacket ELSE packet

\* All of the chunk is there.
ParseChunk ==
  /\ InParse("control")
  /\ First.kind = "header"
  /\ Enough(InData + ChunkLen)
  /\ LET chunk  == SubSeq(wire, InData + 1, InData + ChunkLen)
         packet == [header |-> Packet.header, data |-> Packet.data \o chunk]
     IN  /\ packets_' = [packets_ EXCEPT ![Csid] = Unfinished(packet)]
         /\ IF ToBeReceived(packet) = 0 THEN ParseAssembledMessage(packet)
            ELSE UNCHANGED <<delivered, r_chunk_size_, closed_>>
  /\ prev_recv_headers_' = [prev_recv_headers_ EXCEPT ![Csid] = ReceivedHeader]
  /\ wire' = SubSeq(wire, InData + ChunkLen + 1, Len(wire))
  /\ readable' = readable - (InData + ChunkLen)
  /\ parsing' = (readable' > 0 /\ ~closed_')
  /\ UNCHANGED <<peerVars, state_, running>>

-----------------------------------------------------------------------------
ParseStep == OnC0 \/ OnC1 \/ OnC2 \/ ParseHeaderWait \/ ParseChunkWait \/ ParseChunk

Next ==
  \/ PeerC2
  \/ \E c \in Csids : \E msg \in Messages, fmt \in 0 .. 3 : PeerBegin(c, msg, fmt)
  \/ \E c \in Csids : PeerContinue(c)
  \/ OnRead
  \/ ParseStep

\* The peer sends the rest of what it has begun, TCP delivers it, and the
\* thread of the connection's loop runs on.
Fairness ==
  /\ \A c \in Csids : WF_vars(PeerContinue(c))
  /\ WF_vars(OnRead)
  /\ WF_vars(ParseStep)

Spec     == Init /\ [][Next]_vars
FairSpec == Spec /\ Fairness

-----------------------------------------------------------------------------
(* Properties *)

Number == 1 .. MaxMessages

\* Wherever the stream is cut, ParseMessage begins at the first byte of a
\* chunk, also when a SetChunkSize came between the chunks of other messages:
\* it and the peer agree on where each chunk ends.
InStep == InParse("control") => First.kind = "header"

\* The messages of a chunk stream are delivered in the order in which they were
\* sent, each with its own type and with its own bytes in their order, however
\* the chunks of other streams lie between its chunks.
Reassembled ==
  \A c \in Csids : \A i \in DOMAIN delivered[c] :
    /\ i <= Begun(c)
    /\ delivered[c][i] = [header |-> Header(sent[c][i]),
                          data   |-> Payload(c, i, 0, sent[c][i].len)]

\* No message is put off for ever: Parse says that there is not enough data
\* only when more will come.  (What ends the stream is a close, or OnC1.)
AllDelivered ==
  \A c \in Csids : \A n \in Number :
    Begun(c) >= n ~> Len(delivered[c]) >= n \/ closed_ \/ ~running

=============================================================================
