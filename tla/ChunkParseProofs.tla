------------------------- MODULE ChunkParseProofs --------------------------
(***************************************************************************)
(* That the parser and the peer agree on where each chunk begins and what  *)
(* it holds, for every set of messages, all sizes of headers and chunks    *)
(* and every way of cutting the stream.                                    *)
(***************************************************************************)
EXTENDS ChunkParse, TLAPS, SequenceTheorems

(* A stage of a connection: how many bytes of wire come before it, the       *)
(* chunk size, and for each chunk stream the message that is next and how    *)
(* many of its bytes are done.  A chunk leads from one stage to the next;    *)
(* the chunks on the wire lead from the stage of the parser to the stage of  *)
(* the peer.                                                                 *)

Stage == [at : Nat, size : Nat \ {0}, number : [Csids -> Nat], done : [Csids -> Nat]]

HeaderByte == [kind : {"header"}, csid : Csids, fmt : 0 .. 3, header : MessageHeader]
WireByte   == [kind : {"C0", "C1", "C2", "rest"}] \cup DataByte \cup HeaderByte

\* What is left of the next message of chunk stream c at stage x, when s has
\* been sent, and how much of it a chunk holds.
Left(s, x, c) == s[c][x.number[c]].len - x.done[c]
Size(s, x, c) == Smaller(Left(s, x, c), x.size)

\* The stage after that chunk, if its basic header says fmt.
After(s, x, c, fmt) ==
  LET m   == s[c][x.number[c]]
      all == Size(s, x, c) = Left(s, x, c)
  IN  [at     |-> x.at + HeaderSize[fmt] + Size(s, x, c),
       size   |-> IF m.kind = "SetChunkSize" /\ all THEN m.size ELSE x.size,
       number |-> IF all THEN [x.number EXCEPT ![c] = @ + 1] ELSE x.number,
       done   |-> [x.done EXCEPT ![c] = IF all THEN 0 ELSE @ + Size(s, x, c)]]

\* The basic header fmt of a chunk of chunk stream c may stand at stage x.
Allowed(s, x, c, fmt) ==
  LET n == x.number[c]
  IN  /\ n \in 1 .. Len(s[c])
      /\ x.done[c] = 0 \/ x.done[c] < s[c][n].len
      /\ x.done[c] > 0 => fmt = 3
      /\ x.done[c] = 0 /\ fmt > 0 => n > 1
      /\ x.done[c] = 0 /\ fmt > 1 => Header(s[c][n]) = Header(s[c][n - 1])

\* Bytes from + 1 .. from + len of a message come after byte `at' of w.
DataAt(w, at, c, number, from, len) ==
  \A i \in 1 .. len :
    w[at + i] = [kind |-> "data", csid |-> c, number |-> number, at |-> from + i]

\* The byte h of w at stage x begins a chunk, and y is the stage after it.
ChunkOf(w, s, x, h, y) ==
  /\ h \in HeaderByte
  /\ Allowed(s, x, h.csid, h.fmt)
  /\ h.header = Header(s[h.csid][x.number[h.csid]])
  /\ y = After(s, x, h.csid, h.fmt)
  /\ y.at <= Len(w)
  /\ DataAt(w, x.at + HeaderSize[h.fmt], h.csid, x.number[h.csid], x.done[h.csid],
            Size(s, x, h.csid))

ChunkAt(w, s, x, y) == x.at < Len(w) /\ ChunkOf(w, s, x, w[x.at + 1], y)

\* Between the stages st[0], .., st[n] there is a chunk each.
Stages(w, s, n, st) ==
  /\ \A k \in 1 .. n : ChunkAt(w, s, st[k - 1], st[k])
  /\ \A j, k \in 0 .. n : j <= k => st[j].at <= st[k].at

\* n chunks lead from stage x to stage z.
LeadsBy(w, s, x, z, n) ==
  \E st \in [0 .. n -> Stage] : st[0] = x /\ st[n] = z /\ Stages(w, s, n, st)

Leads(w, s, x, z) == \E n \in Nat : LeadsBy(w, s, x, z, n)

-----------------------------------------------------------------------------

\* What of the handshake comes before the first chunk.
Start == (IF state_ = "WaitC0" THEN 1 + HandshakeSize
          ELSE IF state_ = "WaitC1" THEN HandshakeSize ELSE 0)
         + (IF greeted /\ state_ # "control" THEN HandshakeSize ELSE 0)

\* The number of the message that ParseMessage is to receive next, and how many
\* of its bytes it has.
Expected(c)   == Len(delivered[c]) + 1
ParserDone(c) == IF packets_[c] = NoPacket THEN 0 ELSE Len(packets_[c].data)

ParserStage == [at     |-> Start,
                size   |-> r_chunk_size_,
                number |-> [c \in Csids |-> Expected(c)],
                done   |-> [c \in Csids |-> ParserDone(c)]]

PeerStage == [at     |-> Len(wire),
              size   |-> peer_chunk_size,
              number |-> [c \in Csids |-> IF Complete(c) THEN Begun(c) + 1 ELSE Begun(c)],
              done   |-> [c \in Csids |-> IF Complete(c) THEN 0 ELSE progress[c]]]

TypeInv ==
  /\ sent \in [Csids -> Seq(Messages)]
  /\ progress \in [Csids -> Nat]
  /\ peer_chunk_size \in Nat \ {0}
  /\ greeted \in BOOLEAN
  /\ wire \in Seq(WireByte)
  /\ readable \in Nat
  /\ state_ \in {"WaitC0", "WaitC1", "WaitC2", "control"}
  /\ prev_recv_headers_ \in [Csids -> MessageHeader \cup {NoHeader}]
  /\ packets_ \in [Csids -> Received \cup {NoPacket}]
  /\ r_chunk_size_ \in Nat \ {0}
  /\ delivered \in [Csids -> Seq(Received)]
  /\ parsing \in BOOLEAN

\* Until C2 is sent nothing but the handshake is on the wire.
GreetedInv ==
  /\ ~greeted => ParserStage = PeerStage /\ \A c \in Csids : sent[c] = <<>>
  /\ state_ = "WaitC0" => ~greeted
  /\ state_ = "control" => greeted

ReadableInv ==
  /\ readable <= Len(wire)
  /\ parsing => readable > 0

\* A message that the peer has not ended has some of its bytes sent.
ProgressInv ==
  \A c \in Csids : Begun(c) > 0 =>
    /\ progress[c] <= sent[c][Begun(c)].len
    /\ progress[c] = sent[c][Begun(c)].len \/ progress[c] > 0

\* The first bytes of the n-th message of chunk stream c.
Partly(c, n, bytes) ==
  [header |-> Header(sent[c][n]), data |-> Payload(c, n, 0, bytes)]

\* A message that is being received is the expected one, and prev_recv_headers_
\* has its header; otherwise that of the one before.
PacketOf(c) ==
  /\ packets_[c] = NoPacket /\ Expected(c) > 1 =>
       /\ Expected(c) - 1 <= Begun(c)
       /\ prev_recv_headers_[c] = Header(sent[c][Expected(c) - 1])
  /\ packets_[c] # NoPacket =>
       /\ Expected(c) <= Begun(c)
       /\ packets_[c] = Partly(c, Expected(c), ParserDone(c))
       /\ prev_recv_headers_[c] = Header(sent[c][Expected(c)])

PacketInv == \A c \in Csids : PacketOf(c)

ParseInv ==
  /\ TypeInv
  /\ GreetedInv
  /\ ReadableInv
  /\ ProgressInv
  /\ PacketInv
  /\ Reassembled
  /\ Leads(wire, sent, ParserStage, PeerStage)

-----------------------------------------------------------------------------
(* Sequences and stages *)

\* w without its first d bytes.
Rest(w, d) == SubSeq(w, d + 1, Len(w))

\* Stage x seen from there.
Back(x, d) == [x EXCEPT !.at = @ - d]

\* w2 goes on where w ends; s2 has all that s has.
Longer(w, w2) == Len(w) <= Len(w2) /\ \A i \in 1 .. Len(w) : w2[i] = w[i]
LaterSent(s, s2) == \A c \in Csids : Longer(s[c], s2[c])

SentType == [Csids -> Seq(Messages)]

\* What Smaller is, as the provers need it.
LEMMA SmallerIs ==
  ASSUME NEW a \in Nat, NEW b \in Nat
  PROVE  /\ Smaller(a, b) \in Nat
         /\ Smaller(a, b) <= a /\ Smaller(a, b) <= b
         /\ a > 0 /\ b > 0 => Smaller(a, b) > 0
  BY DEF Smaller

\* A message sent is one of Messages, with the type of its header.
LEMMA MessageIs ==
  ASSUME NEW m \in Messages
  PROVE  /\ m.kind \in MessageKinds /\ m.len \in Nat /\ m.size \in Nat \ {0}
         /\ m.kind = "SetChunkSize" => m.len > 0
         /\ Header(m) \in MessageHeader
         /\ Header(m).len = m.len /\ Header(m).kind = m.kind
  BY ChunkParseAssumption DEF Header, MessageHeader

\* A sequence without its first d members.
LEMMA RestIs ==
  ASSUME NEW S, NEW w \in Seq(S), NEW d \in 0 .. Len(w)
  PROVE  /\ Rest(w, d) \in Seq(S)
         /\ Len(Rest(w, d)) = Len(w) - d
         /\ \A i \in 1 .. Len(w) - d : Rest(w, d)[i] = w[d + i]
<1>1. Len(Rest(w, d)) = Len(w) - d
  BY DEF Rest
<1>2. ASSUME NEW i \in 1 .. Len(w) - d
      PROVE  Rest(w, d)[i] = w[d + i]
  <2>1. Rest(w, d)[i] = w[d + 1 + i - 1]
    BY <1>1 DEF Rest
  <2>2. d + 1 + i - 1 = d + i
    OBVIOUS
  <2>. QED BY <2>1, <2>2
<1>. QED BY <1>1, <1>2 DEF Rest

\* A stage seen from behind those d bytes is a stage.
LEMMA BackIs ==
  ASSUME NEW x \in Stage, NEW d \in 0 .. x.at
  PROVE  /\ Back(x, d) \in Stage
         /\ Back(x, d).at = x.at - d
         /\ Back(x, d).size = x.size
         /\ Back(x, d).number = x.number
         /\ Back(x, d).done = x.done
  BY DEF Back, Stage

\* The lengths of what has been sent are numbers.
LEMMA LenIs ==
  ASSUME NEW S, NEW w \in Seq(S)
  PROVE  Len(w) \in Nat
  OBVIOUS

\* The stage after a chunk.
LEMMA AfterIs ==
  ASSUME NEW s \in SentType, NEW x \in Stage, NEW c \in Csids, NEW fmt \in 0 .. 3,
         Allowed(s, x, c, fmt)
  PROVE  /\ After(s, x, c, fmt) \in Stage
         /\ x.at < After(s, x, c, fmt).at
         /\ s[c][x.number[c]] \in Messages
         /\ Left(s, x, c) \in Nat
         /\ Size(s, x, c) \in Nat /\ Size(s, x, c) <= Left(s, x, c)
<1>. DEFINE n == x.number[c]
            m == s[c][n]
<1>1. n \in 1 .. Len(s[c]) /\ (x.done[c] = 0 \/ x.done[c] < m.len)
  BY DEF Allowed
<1>2. m \in Messages
  BY <1>1 DEF SentType
<1>3. /\ x.at \in Nat /\ x.size \in Nat \ {0} /\ x.done[c] \in Nat /\ n \in Nat
      /\ x.number \in [Csids -> Nat] /\ x.done \in [Csids -> Nat]
  BY DEF Stage
<1>4. m.len \in Nat /\ m.size \in Nat \ {0}
  BY <1>2, MessageIs
<1>5. HeaderSize[fmt] \in Nat \ {0}
  BY ChunkParseAssumption
<1>6. Left(s, x, c) = m.len - x.done[c]
  BY DEF Left
<1>7. Left(s, x, c) \in Nat
  <2>. HIDE DEF m
  <2>. QED BY <1>1, <1>3, <1>4, <1>6
<1>8. Size(s, x, c) \in Nat /\ Size(s, x, c) <= Left(s, x, c)
  BY <1>3, <1>7, SmallerIs DEF Size
<1>9. After(s, x, c, fmt) =
        [at     |-> x.at + HeaderSize[fmt] + Size(s, x, c),
         size   |-> IF m.kind = "SetChunkSize" /\ Size(s, x, c) = Left(s, x, c)
                    THEN m.size ELSE x.size,
         number |-> IF Size(s, x, c) = Left(s, x, c)
                    THEN [x.number EXCEPT ![c] = @ + 1] ELSE x.number,
         done   |-> [x.done EXCEPT ![c] = IF Size(s, x, c) = Left(s, x, c) THEN 0
                                          ELSE @ + Size(s, x, c)]]
  BY DEF After
<1>. HIDE DEF m, n
<1>10. /\ After(s, x, c, fmt) \in Stage
       /\ x.at < After(s, x, c, fmt).at
  BY <1>3, <1>4, <1>5, <1>8, <1>9 DEF Stage
<1>. QED BY <1>2, <1>7, <1>8, <1>10 DEF m, n

\* A byte stays where it is when more is sent.
LEMMA DataLonger ==
  ASSUME NEW w \in Seq(WireByte), NEW w2 \in Seq(WireByte), Longer(w, w2),
         NEW at \in Nat, NEW len \in Nat, at + len <= Len(w),
         NEW c, NEW number, NEW from, DataAt(w, at, c, number, from, len)
  PROVE  DataAt(w2, at, c, number, from, len)
<1>1. ASSUME NEW i \in 1 .. len
      PROVE  w2[at + i] = w[at + i]
  <2>1. Len(w) \in Nat
    BY LenIs
  <2>2. at + i \in 1 .. Len(w)
    BY <2>1
  <2>. QED BY <2>2 DEF Longer
<1>. QED BY <1>1 DEF DataAt

\* A chunk stays one when more is sent after it.
LEMMA ChunkLonger ==
  ASSUME NEW w \in Seq(WireByte), NEW w2 \in Seq(WireByte), Longer(w, w2),
         NEW s \in SentType, NEW s2 \in SentType, LaterSent(s, s2),
         NEW x \in Stage, NEW y \in Stage, ChunkAt(w, s, x, y)
  PROVE  ChunkAt(w2, s2, x, y)
<1>0. x.at \in Nat /\ Len(w) \in Nat /\ Len(w2) \in Nat /\ Len(w) <= Len(w2)
  BY LenIs DEF Stage, Longer
<1>1. PICK h : h = w[x.at + 1] /\ x.at < Len(w) /\ ChunkOf(w, s, x, h, y)
  BY Zenon DEF ChunkAt
<1>2. PICK c \in Csids : c = h.csid
  BY <1>1 DEF ChunkOf, HeaderByte
<1>3. PICK n : n = x.number[c]
  OBVIOUS
<1>4. /\ h \in HeaderByte /\ Allowed(s, x, c, h.fmt) /\ h.header = Header(s[c][n])
      /\ y = After(s, x, c, h.fmt) /\ y.at <= Len(w)
      /\ DataAt(w, x.at + HeaderSize[h.fmt], c, n, x.done[c], Size(s, x, c))
  BY <1>1, <1>2, <1>3, Zenon DEF ChunkOf
<1>5. h.fmt \in 0 .. 3
  BY <1>4 DEF HeaderByte
<1>6. w2[x.at + 1] = h
  <2>1. x.at + 1 \in 1 .. Len(w)
    BY <1>0, <1>1
  <2>. QED BY <1>1, <2>1 DEF Longer
<1>7. n \in 1 .. Len(s[c]) /\ Len(s[c]) \in Nat /\ Len(s2[c]) \in Nat
  BY <1>3, <1>4 DEF Allowed, SentType
<1>8. /\ s2[c][n] = s[c][n] /\ n \in 1 .. Len(s2[c])
      /\ n > 1 => s2[c][n - 1] = s[c][n - 1]
  <2>1. /\ Len(s[c]) <= Len(s2[c])
        /\ \A i \in 1 .. Len(s[c]) : s2[c][i] = s[c][i]
    BY DEF LaterSent, Longer
  <2>. QED BY <1>7, <2>1, SMTT(30)
<1>9. Allowed(s2, x, c, h.fmt)
  BY <1>3, <1>4, <1>5, <1>8 DEF Allowed
<1>10. /\ Left(s2, x, c) = Left(s, x, c)
       /\ Size(s2, x, c) = Size(s, x, c)
       /\ y = After(s2, x, c, h.fmt)
  BY <1>3, <1>4, <1>8 DEF After, Left, Size
<1>11. DataAt(w2, x.at + HeaderSize[h.fmt], c, n, x.done[c], Size(s, x, c))
  <2>1. x.at + HeaderSize[h.fmt] \in Nat
    BY <1>0, <1>5, ChunkParseAssumption
  <2>2. Size(s, x, c) \in Nat
    BY <1>4, <1>5, AfterIs
  <2>3. y.at = x.at + HeaderSize[h.fmt] + Size(s, x, c)
    BY <1>4 DEF After
  <2>. QED BY <1>4, <2>1, <2>2, <2>3, DataLonger
<1>12. y.at <= Len(w2)
  BY <1>0, <1>4 DEF Stage
<1>13. ChunkOf(w2, s2, x, h, y)
  BY <1>2, <1>3, <1>4, <1>8, <1>9, <1>10, <1>11, <1>12, Zenon DEF ChunkOf
<1>14. x.at < Len(w2)
  BY <1>0, <1>1
<1>. QED BY <1>6, <1>13, <1>14, Zenon DEF ChunkAt

\* It stands d bytes further left when d bytes are taken from the front.
LEMMA DataBack ==
  ASSUME NEW w \in Seq(WireByte), NEW d \in 0 .. Len(w),
         NEW at \in Nat, NEW len \in Nat, d <= at, at + len <= Len(w),
         NEW c, NEW number, NEW from, DataAt(w, at, c, number, from, len)
  PROVE  DataAt(Rest(w, d), at - d, c, number, from, len)
<1>1. ASSUME NEW i \in 1 .. len
      PROVE  Rest(w, d)[at - d + i] = w[at + i]
  <2>1. Len(w) \in Nat
    BY LenIs
  <2>2. at - d + i \in 1 .. Len(w) - d /\ d + (at - d + i) = at + i
    BY <2>1
  <2>3. PICK h \in 1 .. Len(w) - d : h = at - d + i /\ d + h = at + i
    BY <2>2
  <2>4. Rest(w, d)[h] = w[d + h]
    BY <2>3, RestIs
  <2>. QED BY <2>3, <2>4
<1>. QED BY <1>1 DEF DataAt

\* A chunk stays one when bytes before it are taken off the wire.
LEMMA ChunkBack ==
  ASSUME NEW w \in Seq(WireByte), NEW s \in SentType, NEW x \in Stage, NEW y \in Stage,
         ChunkAt(w, s, x, y), NEW d \in 0 .. x.at
  PROVE  ChunkAt(Rest(w, d), s, Back(x, d), Back(y, d))
<1>0. x.at \in Nat /\ y.at \in Nat /\ Len(w) \in Nat /\ d \in Nat /\ d <= x.at
  BY LenIs DEF Stage
<1>1. PICK h : h = w[x.at + 1] /\ x.at < Len(w) /\ ChunkOf(w, s, x, h, y)
  BY Zenon DEF ChunkAt
<1>2. PICK c \in Csids : c = h.csid
  BY <1>1 DEF ChunkOf, HeaderByte
<1>3. PICK n : n = x.number[c]
  OBVIOUS
<1>4. /\ h \in HeaderByte /\ Allowed(s, x, c, h.fmt) /\ h.header = Header(s[c][n])
      /\ y = After(s, x, c, h.fmt) /\ y.at <= Len(w)
      /\ DataAt(w, x.at + HeaderSize[h.fmt], c, n, x.done[c], Size(s, x, c))
  BY <1>1, <1>2, <1>3, Zenon DEF ChunkOf
<1>5. h.fmt \in 0 .. 3 /\ HeaderSize[h.fmt] \in Nat
  BY <1>4, ChunkParseAssumption DEF HeaderByte
<1>6. /\ Size(s, x, c) \in Nat
      /\ y.at = x.at + HeaderSize[h.fmt] + Size(s, x, c)
      /\ x.at < y.at
  BY <1>4, <1>5, AfterIs DEF After
<1>7. PICK bx \in Stage : bx = Back(x, d) /\ bx.at = x.at - d /\ bx.size = x.size
                          /\ bx.number = x.number /\ bx.done = x.done
  BY <1>0, BackIs
<1>8. PICK by \in Stage : by = Back(y, d) /\ by.at = y.at - d /\ by.size = y.size
                          /\ by.number = y.number /\ by.done = y.done
  BY <1>0, <1>6, BackIs
<1>9. d \in 0 .. Len(w)
  BY <1>0, <1>1
<1>10. PICK r \in Seq(WireByte) :
         r = Rest(w, d) /\ Len(r) = Len(w) - d
         /\ \A i \in 1 .. Len(w) - d : r[i] = w[d + i]
  BY <1>9, RestIs
<1>11. r[bx.at + 1] = h
  <2>1. bx.at + 1 \in 1 .. Len(w) - d /\ d + (bx.at + 1) = x.at + 1
    BY <1>0, <1>1, <1>7
  <2>. QED BY <1>1, <1>10, <2>1
<1>12. Allowed(s, bx, c, h.fmt)
  BY <1>4, <1>7 DEF Allowed
<1>13. Left(s, bx, c) = Left(s, x, c) /\ Size(s, bx, c) = Size(s, x, c)
  BY <1>7 DEF Left, Size
<1>14. by = After(s, bx, c, h.fmt)
  <2>1. bx.at + HeaderSize[h.fmt] + Size(s, x, c) = by.at
    BY <1>0, <1>5, <1>6, <1>7, <1>8
  <2>2. After(s, bx, c, h.fmt) = [After(s, x, c, h.fmt) EXCEPT !.at = by.at]
    BY <1>7, <1>13, <2>1 DEF After
  <2>3. by = [y EXCEPT !.at = by.at]
    BY <1>8 DEF Back
  <2>. QED BY <1>4, <2>2, <2>3
<1>15. DataAt(r, bx.at + HeaderSize[h.fmt], c, n, x.done[c], Size(s, x, c))
  <2>1. PICK hs \in Nat : hs = HeaderSize[h.fmt]
    BY <1>5
  <2>2. PICK at \in Nat : at = x.at + hs
    BY <1>0
  <2>3. at - d = bx.at + hs /\ d <= at /\ at + Size(s, x, c) <= Len(w)
    <3>1. at + Size(s, x, c) = y.at
      BY <1>6, <2>1, <2>2
    <3>2. at - d = (x.at - d) + hs /\ d <= at
      BY ONLY <1>0, <2>1, <2>2, at \in Nat, hs \in Nat, SMTT(30)
    <3>. QED BY <1>4, <1>7, <3>1, <3>2
  <2>4. DataAt(w, at, c, n, x.done[c], Size(s, x, c))
    BY <1>4, <2>1, <2>2
  <2>5. DataAt(Rest(w, d), at - d, c, n, x.done[c], Size(s, x, c))
    BY <1>6, <1>9, <2>3, <2>4, DataBack
  <2>. QED BY <1>10, <2>1, <2>3, <2>5
<1>16. bx.at < Len(r) /\ by.at <= Len(r)
  <2>1. x.at < Len(w) /\ y.at <= Len(w)
    BY <1>1, <1>4
  <2>. QED BY <1>0, <1>7, <1>8, <1>10, <2>1
<1>17. ChunkOf(r, s, bx, h, by)
  BY <1>2, <1>3, <1>4, <1>7, <1>12, <1>13, <1>14, <1>15, <1>16, Zenon DEF ChunkOf
<1>18. ChunkAt(r, s, bx, by)
  BY <1>11, <1>16, <1>17, Zenon DEF ChunkAt
<1>. QED BY <1>7, <1>8, <1>10, <1>18

-----------------------------------------------------------------------------
(* Chunks in a row *)

\* No chunk leads from a stage to itself.
LEMMA LeadsNowhere ==
  ASSUME NEW w, NEW s, NEW x \in Stage
  PROVE  Leads(w, s, x, x)
<1>. DEFINE st == [k \in 0 .. 0 |-> x]
<1>1. /\ st \in [0 .. 0 -> Stage] /\ st[0] = x
      /\ \A k \in 1 .. 0 : ChunkAt(w, s, st[k - 1], st[k])
      /\ \A j, k \in 0 .. 0 : j <= k => st[j].at <= st[k].at
  BY DEF Stage
<1>. HIDE DEF st
<1>. QED BY <1>1, Zenon DEF Leads, LeadsBy, Stages

\* One more chunk is sent.
LEMMA LeadsOn ==
  ASSUME NEW w \in Seq(WireByte), NEW w2 \in Seq(WireByte), Longer(w, w2),
         NEW s \in SentType, NEW s2 \in SentType, LaterSent(s, s2),
         NEW x \in Stage, NEW y \in Stage, NEW z \in Stage,
         Leads(w, s, x, y), ChunkAt(w2, s2, y, z), y.at <= z.at
  PROVE  Leads(w2, s2, x, z)
<1>0. PICK n \in Nat : LeadsBy(w, s, x, y, n)
  BY DEF Leads
<1>1. PICK st \in [0 .. n -> Stage] :
        st[0] = x /\ st[n] = y /\ Stages(w, s, n, st)
  BY <1>0 DEF LeadsBy
<1>. DEFINE st2 == [k \in 0 .. n + 1 |-> IF k = n + 1 THEN z ELSE st[k]]
<1>2. /\ st2 \in [0 .. n + 1 -> Stage]
      /\ \A k \in 0 .. n : st2[k] = st[k]
      /\ st2[n + 1] = z
  OBVIOUS
<1>. HIDE DEF st2
<1>3. ASSUME NEW k \in 1 .. n + 1
      PROVE  ChunkAt(w2, s2, st2[k - 1], st2[k])
  <2>1. CASE k = n + 1
    BY <1>1, <1>2, <2>1
  <2>2. CASE k # n + 1
    <3>1. k \in 1 .. n /\ k - 1 \in 0 .. n /\ k \in 0 .. n
      BY <2>2
    <3>2. ChunkAt(w, s, st[k - 1], st[k])
      BY <1>1, <3>1 DEF Stages
    <3>3. ChunkAt(w2, s2, st[k - 1], st[k])
      BY <3>1, <3>2, ChunkLonger
    <3>. QED BY <1>2, <3>1, <3>3
  <2>. QED BY <2>1, <2>2
<1>4. ASSUME NEW j \in 0 .. n + 1, NEW k \in 0 .. n + 1, j <= k
      PROVE  st2[j].at <= st2[k].at
  <2>1. CASE k \in 0 .. n
    <3>1. j \in 0 .. n
      BY <1>4, <2>1
    <3>. QED BY <1>1, <1>2, <1>4, <2>1, <3>1 DEF Stages
  <2>2. CASE k = n + 1 /\ j = n + 1
    BY <1>2, <2>2 DEF Stage
  <2>3. CASE k = n + 1 /\ j \in 0 .. n
    <3>1. st[j].at <= st[n].at
      BY <1>1, <2>3 DEF Stages
    <3>2. st[j].at \in Nat /\ st[n].at \in Nat /\ z.at \in Nat
      BY <2>3 DEF Stage
    <3>. QED BY <1>1, <1>2, <2>3, <3>1, <3>2
  <2>. QED BY <2>1, <2>2, <2>3
<1>5. st2[0] = x /\ n + 1 \in Nat
  BY <1>1, <1>2
<1>. QED BY <1>2, <1>3, <1>4, <1>5, Zenon DEF Leads, LeadsBy, Stages

\* The first chunk, if there is one.
LEMMA LeadsFirst ==
  ASSUME NEW w, NEW s, NEW x \in Stage, NEW z \in Stage, Leads(w, s, x, z)
  PROVE  /\ x.at <= z.at
         /\ x # z => \E y \in Stage : ChunkAt(w, s, x, y) /\ Leads(w, s, y, z)
<1>0. PICK n \in Nat : LeadsBy(w, s, x, z, n)
  BY DEF Leads
<1>1. PICK st \in [0 .. n -> Stage] :
        st[0] = x /\ st[n] = z /\ Stages(w, s, n, st)
  BY <1>0 DEF LeadsBy
<1>2. x.at <= z.at
  BY <1>1 DEF Stages
<1>3. ASSUME x # z
      PROVE  \E y \in Stage : ChunkAt(w, s, x, y) /\ Leads(w, s, y, z)
  <2>1. n - 1 \in Nat /\ 1 \in 0 .. n /\ 1 \in 1 .. n
    BY <1>1, <1>3
  <2>. DEFINE st2 == [k \in 0 .. n - 1 |-> st[k + 1]]
  <2>2. /\ st2 \in [0 .. n - 1 -> Stage]
        /\ \A k \in 0 .. n - 1 : st2[k] = st[k + 1]
    BY <2>1
  <2>. HIDE DEF st2
  <2>3. st2[0] = st[1] /\ st2[n - 1] = z
    BY <1>1, <2>1, <2>2
  <2>4. ASSUME NEW k \in 1 .. n - 1
        PROVE  ChunkAt(w, s, st2[k - 1], st2[k])
    <3>1. k + 1 \in 1 .. n /\ k - 1 \in 0 .. n - 1 /\ k \in 0 .. n - 1
          /\ k + 1 - 1 = k /\ k - 1 + 1 = k
      BY <2>1
    <3>2. st2[k - 1] = st[k] /\ st2[k] = st[k + 1]
      BY <2>2, <3>1
    <3>3. ChunkAt(w, s, st[k + 1 - 1], st[k + 1])
      BY <1>1, <3>1 DEF Stages
    <3>. QED BY <3>1, <3>2, <3>3
  <2>5. ASSUME NEW j \in 0 .. n - 1, NEW k \in 0 .. n - 1, j <= k
        PROVE  st2[j].at <= st2[k].at
    <3>1. j + 1 \in 0 .. n /\ k + 1 \in 0 .. n /\ j + 1 <= k + 1
      BY <2>1, <2>5
    <3>2. st[j + 1].at <= st[k + 1].at
      BY <1>1, <3>1, Zenon DEF Stages
    <3>. QED BY <2>2, <3>2
  <2>6. Leads(w, s, st[1], z)
    BY <2>1, <2>2, <2>3, <2>4, <2>5, Zenon DEF Leads, LeadsBy, Stages
  <2>7. ChunkAt(w, s, st[1 - 1], st[1])
    BY <1>1, <2>1, Zenon DEF Stages
  <2>8. 1 - 1 = 0
    OBVIOUS
  <2>. QED BY <1>1, <2>1, <2>6, <2>7, <2>8
<1>. QED BY <1>2, <1>3

\* d bytes are taken from the front.
LEMMA LeadsBack ==
  ASSUME NEW w \in Seq(WireByte), NEW s \in SentType, NEW x \in Stage, NEW z \in Stage,
         Leads(w, s, x, z), NEW d \in 0 .. x.at
  PROVE  Leads(Rest(w, d), s, Back(x, d), Back(z, d))
<1>0. PICK n \in Nat : LeadsBy(w, s, x, z, n)
  BY DEF Leads
<1>1. PICK st \in [0 .. n -> Stage] :
        st[0] = x /\ st[n] = z /\ Stages(w, s, n, st)
  BY <1>0 DEF LeadsBy
<1>2. ASSUME NEW k \in 0 .. n
      PROVE  d \in 0 .. st[k].at
  <2>1. st[0].at <= st[k].at
    BY <1>1 DEF Stages
  <2>2. st[0].at \in Nat /\ st[k].at \in Nat
    BY DEF Stage
  <2>. QED BY <1>1, <2>1, <2>2
<1>. DEFINE st2 == [k \in 0 .. n |-> Back(st[k], d)]
<1>3. ASSUME NEW k \in 0 .. n
      PROVE  Back(st[k], d) \in Stage /\ Back(st[k], d).at = st[k].at - d
  BY <1>2, BackIs
<1>4. /\ st2 \in [0 .. n -> Stage]
      /\ \A k \in 0 .. n : st2[k] = Back(st[k], d)
  BY <1>3
<1>. HIDE DEF st2
<1>5. ASSUME NEW k \in 1 .. n
      PROVE  ChunkAt(Rest(w, d), s, st2[k - 1], st2[k])
  <2>1. k \in 0 .. n /\ k - 1 \in 0 .. n
    OBVIOUS
  <2>2. ChunkAt(w, s, st[k - 1], st[k])
    BY <1>1, Zenon DEF Stages
  <2>3. st[k - 1] \in Stage /\ st[k] \in Stage /\ d \in 0 .. st[k - 1].at
    BY <1>2, <2>1
  <2>4. ChunkAt(Rest(w, d), s, Back(st[k - 1], d), Back(st[k], d))
    BY <2>2, <2>3, ChunkBack
  <2>. QED BY <1>4, <2>1, <2>4
<1>6. ASSUME NEW j \in 0 .. n, NEW k \in 0 .. n, j <= k
      PROVE  st2[j].at <= st2[k].at
  <2>1. st[j].at <= st[k].at
    BY <1>1, <1>6, Zenon DEF Stages
  <2>2. st[j].at \in Nat /\ st[k].at \in Nat /\ d \in Nat
    BY DEF Stage
  <2>. QED BY <1>3, <1>4, <2>1, <2>2
<1>7. st2[0] = Back(x, d) /\ st2[n] = Back(z, d)
  BY <1>1, <1>4
<1>. QED BY <1>4, <1>5, <1>6, <1>7, Zenon DEF Leads, LeadsBy, Stages

-----------------------------------------------------------------------------
(* The stages of the parser and of the peer *)

\* What is left of the handshake is a number of bytes.
LEMMA StartIs ==
  ASSUME TypeInv
  PROVE  Start \in Nat
  BY ChunkParseAssumption DEF TypeInv, Start

\* The bytes of the unfinished message are counted by its data.
LEMMA ParserDoneIs ==
  ASSUME TypeInv, NEW c \in Csids
  PROVE  ParserDone(c) \in Nat
<1>1. CASE packets_[c] = NoPacket
  BY <1>1 DEF ParserDone
<1>2. CASE packets_[c] # NoPacket
  <2>1. packets_[c] \in Received
    BY <1>2 DEF TypeInv
  <2>2. packets_[c].data \in Seq(DataByte)
    BY <2>1 DEF Received
  <2>. QED BY <1>2, <2>2, LenIs DEF ParserDone
<1>. QED BY <1>1, <1>2

\* The parser is at a stage.
LEMMA ParserStageIs ==
  ASSUME TypeInv
  PROVE  /\ ParserStage \in Stage
         /\ ParserStage.at = Start
         /\ ParserStage.size = r_chunk_size_
         /\ \A c \in Csids : /\ ParserStage.number[c] = Expected(c)
                             /\ ParserStage.done[c] = ParserDone(c)
<1>1. ASSUME NEW c \in Csids
      PROVE  Expected(c) \in Nat /\ ParserDone(c) \in Nat
  <2>1. Len(delivered[c]) \in Nat
    BY LenIs DEF TypeInv
  <2>. QED BY <2>1, ParserDoneIs DEF Expected
<1>2. r_chunk_size_ \in Nat \ {0}
  BY DEF TypeInv
<1>. QED BY <1>1, <1>2, StartIs DEF ParserStage, Stage

\* The peer is at a stage.
LEMMA PeerStageIs ==
  ASSUME TypeInv
  PROVE  /\ PeerStage \in Stage
         /\ PeerStage.at = Len(wire)
         /\ PeerStage.size = peer_chunk_size
         /\ \A c \in Csids :
              /\ PeerStage.number[c] = IF Complete(c) THEN Begun(c) + 1 ELSE Begun(c)
              /\ PeerStage.done[c] = IF Complete(c) THEN 0 ELSE progress[c]
<1>1. \A c \in Csids : Begun(c) \in Nat /\ progress[c] \in Nat
  BY LenIs DEF TypeInv, Begun
<1>2. peer_chunk_size \in Nat \ {0} /\ Len(wire) \in Nat
  BY LenIs DEF TypeInv
<1>. QED BY <1>1, <1>2 DEF PeerStage, Stage

\* The same after a step.
PeerAt ==
  /\ PeerStage \in Stage
  /\ PeerStage.at = Len(wire)
  /\ PeerStage.size = peer_chunk_size
  /\ \A c \in Csids :
       /\ PeerStage.number[c] = IF Complete(c) THEN Begun(c) + 1 ELSE Begun(c)
       /\ PeerStage.done[c] = IF Complete(c) THEN 0 ELSE progress[c]

ParserAt ==
  /\ ParserStage \in Stage
  /\ ParserStage.at = Start
  /\ ParserStage.size = r_chunk_size_
  /\ \A c \in Csids : /\ ParserStage.number[c] = Expected(c)
                      /\ ParserStage.done[c] = ParserDone(c)

\* Both still are after a step that keeps the types.
LEMMA StagesNext == TypeInv' => PeerAt' /\ ParserAt'
<1>1. TypeInv => PeerAt
  BY PeerStageIs DEF PeerAt
<1>2. TypeInv => ParserAt
  BY ParserStageIs DEF ParserAt
<1>. QED BY <1>1, <1>2, PTL

\* Two stages are the same if they agree on everything.
LEMMA SameStage ==
  ASSUME NEW x \in Stage, NEW y \in Stage, x.at = y.at, x.size = y.size,
         \A c \in Csids : x.number[c] = y.number[c] /\ x.done[c] = y.done[c]
  PROVE  x = y
<1>1. x.number = y.number
  <2>1. x.number \in [Csids -> Nat] /\ y.number \in [Csids -> Nat]
    BY DEF Stage
  <2>. QED BY <2>1
<1>2. x.done = y.done
  <2>1. x.done \in [Csids -> Nat] /\ y.done \in [Csids -> Nat]
    BY DEF Stage
  <2>. QED BY <2>1
<1>. QED BY <1>1, <1>2 DEF Stage

\* No chunk is on the wire at first, and both are at the same stage.
LEMMA ParseInit == Init => ParseInv
<1>. SUFFICES ASSUME Init PROVE ParseInv
  OBVIOUS
<1>1. /\ wire \in Seq(WireByte) /\ Len(wire) = 1 + HandshakeSize
  <2>. DEFINE c0 == Fill(1, "C0")
              c1 == Fill(HandshakeSize, "C1")
  <2>1. HandshakeSize \in Nat
    BY ChunkParseAssumption
  <2>2. c0 \in Seq(WireByte) /\ Len(c0) = 1
    BY DEF Fill, WireByte
  <2>3. c1 \in Seq(WireByte) /\ Len(c1) = HandshakeSize
    BY <2>1 DEF Fill, WireByte
  <2>4. wire = c0 \o c1
    BY DEF Init
  <2>. HIDE DEF c0, c1
  <2>. QED BY <2>1, <2>2, <2>3, <2>4, ConcatProperties
<1>2. TypeInv
  <2>1. /\ sent \in [Csids -> Seq(Messages)]
        /\ delivered \in [Csids -> Seq(Received)]
    BY DEF Init
  <2>2. /\ peer_chunk_size \in Nat \ {0}
        /\ r_chunk_size_ \in Nat \ {0}
        /\ progress \in [Csids -> Nat]
        /\ prev_recv_headers_ \in [Csids -> MessageHeader \cup {NoHeader}]
        /\ packets_ \in [Csids -> Received \cup {NoPacket}]
    BY ChunkParseAssumption DEF Init
  <2>3. /\ greeted \in BOOLEAN /\ parsing \in BOOLEAN /\ readable \in Nat
        /\ state_ \in {"WaitC0", "WaitC1", "WaitC2", "control"}
    BY DEF Init
  <2>. QED BY <1>1, <2>1, <2>2, <2>3 DEF TypeInv
<1>3. ASSUME NEW c \in Csids
      PROVE  Begun(c) = 0 /\ Complete(c) /\ ParserDone(c) = 0 /\ Expected(c) = 1
  <2>1. sent[c] = <<>> /\ delivered[c] = <<>> /\ packets_[c] = NoPacket
    BY DEF Init
  <2>. QED BY <2>1 DEF Begun, Complete, ParserDone, Expected
<1>4. Start = Len(wire)
  BY <1>1, ChunkParseAssumption DEF Init, Start
<1>5. ParserStage = PeerStage
  BY <1>3, <1>4 DEF Init, ParserStage, PeerStage
<1>6. Leads(wire, sent, ParserStage, PeerStage)
  BY <1>2, <1>5, LeadsNowhere, PeerStageIs
<1>7. GreetedInv
  BY <1>5 DEF Init, GreetedInv
<1>8. ReadableInv
  BY <1>1, ChunkParseAssumption DEF Init, ReadableInv
<1>9. ProgressInv
  BY <1>3 DEF ProgressInv
<1>10. PacketInv
  <2>. SUFFICES ASSUME NEW c \in Csids PROVE PacketOf(c)
    BY DEF PacketInv
  <2>1. packets_[c] = NoPacket
    BY DEF Init
  <2>. QED BY <1>3, <2>1 DEF PacketOf
<1>11. Reassembled
  BY DEF Init, Reassembled
<1>. QED BY <1>2, <1>6, <1>7, <1>8, <1>9, <1>10, <1>11 DEF ParseInv

-----------------------------------------------------------------------------
(* The peer *)

\* Bytes from + 1 .. to of a message.
LEMMA PayloadIs ==
  ASSUME NEW c \in Csids, NEW number \in Nat, NEW from \in Nat, NEW to \in Nat, from <= to
  PROVE  /\ Payload(c, number, from, to) \in Seq(DataByte)
         /\ Len(Payload(c, number, from, to)) = to - from
         /\ \A i \in 1 .. to - from :
              Payload(c, number, from, to)[i]
                = [kind |-> "data", csid |-> c, number |-> number, at |-> from + i]
<1>1. to - from \in Nat
  OBVIOUS
<1>2. \A i \in 1 .. to - from :
        [kind |-> "data", csid |-> c, number |-> number, at |-> from + i] \in DataByte
  BY DEF DataByte
<1>. QED BY <1>1, <1>2 DEF Payload

\* w2 is w and a header h of size bytes and a payload p.
ChunkAdded(w, h, size, p, w2) ==
  /\ w2 \in Seq(WireByte)
  /\ Len(w2) = Len(w) + size + Len(p)
  /\ Longer(w, w2)
  /\ w2[Len(w) + 1] = h
  /\ \A i \in 1 .. Len(p) : w2[Len(w) + size + i] = p[i]

\* The bytes PeerChunk appends are a chunk at the stage of the peer.
LEMMA ChunkSent ==
  ASSUME NEW w \in Seq(WireByte), NEW h \in WireByte, NEW size \in Nat, size > 0,
         NEW p \in Seq(DataByte)
  PROVE  ChunkAdded(w, h, size, p, w \o <<h>> \o Fill(size - 1, "rest") \o p)
<1>. DEFINE w2 == w \o <<h>> \o Fill(size - 1, "rest") \o p
<1>. DEFINE f == Fill(size - 1, "rest")
            w3 == w \o <<h>>
            w4 == w3 \o f
<1>0. Len(w) \in Nat /\ Len(p) \in Nat /\ size - 1 \in Nat
  BY LenIs
<1>1. f \in Seq(WireByte) /\ Len(f) = size - 1
  BY <1>0 DEF Fill, WireByte
<1>2. /\ w3 \in Seq(WireByte) /\ Len(w3) = Len(w) + 1
      /\ \A i \in 1 .. Len(w) : w3[i] = w[i]
      /\ w3[Len(w) + 1] = h
  <2>1. <<h>> \in Seq(WireByte) /\ Len(<<h>>) = 1 /\ <<h>>[1] = h
    OBVIOUS
  <2>. QED BY <1>0, <2>1, ConcatProperties
<1>. HIDE DEF f, w3
<1>3. /\ w4 \in Seq(WireByte) /\ Len(w4) = Len(w) + size
      /\ \A i \in 1 .. Len(w) + 1 : w4[i] = w3[i]
  <2>1. /\ w4 \in Seq(WireByte) /\ Len(w4) = Len(w3) + Len(f)
        /\ \A i \in 1 .. Len(w3) + Len(f) :
             w4[i] = IF i <= Len(w3) THEN w3[i] ELSE f[i - Len(w3)]
    BY <1>1, <1>2, ConcatProperties
  <2>. HIDE DEF w4
  <2>2. Len(w4) = Len(w) + size
    BY <1>0, <1>1, <1>2, <2>1
  <2>3. ASSUME NEW i \in 1 .. Len(w) + 1
        PROVE  w4[i] = w3[i]
    <3>1. i \in 1 .. Len(w3) + Len(f) /\ i <= Len(w3)
      BY <1>0, <1>1, <1>2
    <3>. QED BY <2>1, <3>1
  <2>. QED BY <2>1, <2>2, <2>3
<1>. HIDE DEF w4
<1>4. p \in Seq(WireByte)
  <2>1. DataByte \subseteq WireByte
    BY DEF WireByte
  <2>. QED BY <2>1
<1>5. w2 = w4 \o p
  BY DEF w4, w3, f
<1>. HIDE DEF w2
<1>6. /\ w2 \in Seq(WireByte) /\ Len(w2) = Len(w) + size + Len(p)
      /\ \A i \in 1 .. Len(w) + size : w2[i] = w4[i]
      /\ \A i \in 1 .. Len(p) : w2[Len(w) + size + i] = p[i]
  <2>1. /\ w4 \o p \in Seq(WireByte) /\ Len(w4 \o p) = Len(w4) + Len(p)
        /\ \A i \in 1 .. Len(w4) + Len(p) :
             (w4 \o p)[i] = IF i <= Len(w4) THEN w4[i] ELSE p[i - Len(w4)]
    BY <1>3, <1>4, ConcatProperties
  <2>2. ASSUME NEW i \in 1 .. Len(p)
        PROVE  w2[Len(w) + size + i] = p[i]
    <3>0. Len(w) + size + i \in 1 .. Len(w4) + Len(p)
      BY <1>0, <1>3
    <3>1. PICK j \in 1 .. Len(w4) + Len(p) : j = Len(w) + size + i
      BY <3>0
    <3>2. ~(j <= Len(w4)) /\ j - Len(w4) = i
      BY <1>0, <1>3, <3>1
    <3>. QED BY <1>5, <2>1, <3>1, <3>2
  <2>3. ASSUME NEW i \in 1 .. Len(w) + size
        PROVE  w2[i] = w4[i]
    <3>1. i \in 1 .. Len(w4) + Len(p) /\ i <= Len(w4)
      BY <1>0, <1>3
    <3>. QED BY <1>5, <2>1, <3>1
  <2>. QED BY <1>0, <1>3, <1>5, <2>1, <2>2, <2>3
<1>7. Longer(w, w2)
  BY <1>0, <1>2, <1>3, <1>6 DEF Longer
<1>8. w2[Len(w) + 1] = h
  <2>1. Len(w) + 1 \in 1 .. Len(w) + size /\ Len(w) + 1 \in 1 .. Len(w) + 1
    BY <1>0
  <2>. QED BY <1>2, <1>3, <1>6, <2>1
<1>9. ChunkAdded(w, h, size, p, w2)
  BY <1>6, <1>7, <1>8 DEF ChunkAdded
<1>. QED BY <1>9 DEF w2

\* What is received so far does not change when more is sent.
LEMMA LaterReceived ==
  ASSUME TypeInv, PacketInv, Reassembled, LaterSent(sent, sent'), UNCHANGED contextVars,
         sent' \in SentType
  PROVE  PacketInv' /\ Reassembled'
<1>0. \A c \in Csids : /\ Begun(c) \in Nat /\ Begun(c)' \in Nat /\ Begun(c) <= Begun(c)'
                       /\ \A i \in 1 .. Begun(c) : sent'[c][i] = sent[c][i]
                       /\ Len(delivered[c]) \in Nat
                       /\ DOMAIN delivered[c] = 1 .. Len(delivered[c])
  BY LenIs DEF TypeInv, SentType, LaterSent, Longer, Begun
<1>1. ASSUME NEW c \in Csids, NEW i \in DOMAIN delivered'[c]
      PROVE  /\ i <= Begun(c)'
             /\ delivered'[c][i] = [header |-> Header(sent'[c][i]),
                                    data   |-> Payload(c, i, 0, sent'[c][i].len)]
  <2>1. delivered' = delivered
    BY DEF contextVars
  <2>2. /\ i \in 1 .. Len(delivered[c]) /\ i <= Begun(c)
        /\ delivered[c][i] = [header |-> Header(sent[c][i]),
                              data   |-> Payload(c, i, 0, sent[c][i].len)]
    BY <1>0, <2>1 DEF Reassembled
  <2>. QED BY <1>0, <2>1, <2>2
<1>2. Reassembled'
  BY <1>1, Zenon DEF Reassembled
<1>3. ASSUME NEW c \in Csids
      PROVE  /\ packets_[c] = NoPacket /\ Expected(c) > 1 =>
                  /\ Expected(c) - 1 <= Begun(c)'
                  /\ prev_recv_headers_[c] = Header(sent'[c][Expected(c) - 1])
             /\ packets_[c] # NoPacket =>
                  /\ Expected(c) <= Begun(c)'
                  /\ packets_[c] = Partly(c, Expected(c), ParserDone(c))
                  /\ prev_recv_headers_[c] = Header(sent'[c][Expected(c)])
                  /\ sent'[c][Expected(c)] = sent[c][Expected(c)]
  <2>1. Expected(c) \in Nat /\ Expected(c) >= 1
    BY <1>0 DEF Expected
  <2>2. CASE packets_[c] = NoPacket /\ Expected(c) > 1
    <3>1. /\ Expected(c) - 1 <= Begun(c)
          /\ prev_recv_headers_[c] = Header(sent[c][Expected(c) - 1])
      BY <2>2 DEF PacketInv, PacketOf
    <3>2. Expected(c) - 1 \in 1 .. Begun(c)
      BY <1>0, <2>1, <2>2, <3>1
    <3>. QED BY <1>0, <2>2, <3>1, <3>2
  <2>3. CASE packets_[c] # NoPacket
    <3>1. /\ Expected(c) <= Begun(c)
          /\ packets_[c] = Partly(c, Expected(c), ParserDone(c))
          /\ prev_recv_headers_[c] = Header(sent[c][Expected(c)])
      BY <2>3 DEF PacketInv, PacketOf
    <3>2. Expected(c) \in 1 .. Begun(c)
      BY <1>0, <2>1, <3>1
    <3>. QED BY <1>0, <2>3, <3>1, <3>2
  <2>. QED BY <2>2, <2>3
<1>4. ASSUME NEW c \in Csids
      PROVE  /\ packets_'[c] = packets_[c] /\ prev_recv_headers_'[c] = prev_recv_headers_[c]
             /\ Expected(c)' = Expected(c) /\ ParserDone(c)' = ParserDone(c)
  BY DEF contextVars, Expected, ParserDone
<1>5. ASSUME NEW c \in Csids
      PROVE  PacketOf(c)'
  <2>1. Begun(c)' = Len(sent'[c])
    BY DEF Begun
  <2>. QED BY <1>3, <1>4, <2>1, Zenon DEF PacketOf, Partly
<1>6. PacketInv'
  BY <1>5 DEF PacketInv
<1>. QED BY <1>2, <1>6

\* What PeerBegin and PeerContinue have in common: msg is the number-th message
\* of chunk stream c in what is sent now, and a chunk from byte `from' on may
\* stand after what is on the wire.
PeerSends(c, fmt, msg, number, from) ==
  /\ PeerChunk(c, fmt, msg, number, from)
  /\ greeted
  /\ sent' \in SentType
  /\ LaterSent(sent, sent')
  /\ Len(sent'[c]) = number
  /\ sent'[c][number] = msg
  /\ \A d \in Csids \ {c} : sent'[d] = sent[d]
  /\ PeerStage.number[c] = number
  /\ PeerStage.done[c] = from
  /\ Allowed(sent', PeerStage, c, fmt)
  /\ UNCHANGED <<greeted, readable, state_, contextVars, parsing>>

\* What PeerBegin and PeerContinue have in common.
LEMMA PeerSendsStep ==
  ASSUME ParseInv, NEW c \in Csids, NEW fmt \in 0 .. 3, NEW msg \in Messages,
         NEW number, NEW from, PeerSends(c, fmt, msg, number, from)
  PROVE  ParseInv'
<1>. DEFINE size == Smaller(msg.len - from, peer_chunk_size)
            to == from + size
            h == [kind |-> "header", csid |-> c, fmt |-> fmt, header |-> Header(msg)]
            p == Payload(c, number, from, to)
            z == After(sent', PeerStage, c, fmt)
<1>0. TypeInv /\ PeerStage \in Stage /\ PeerStage.at = Len(wire) /\ PeerStage.size = peer_chunk_size
      /\ wire \in Seq(WireByte) /\ Len(wire) \in Nat /\ sent \in SentType
  BY PeerStageIs, LenIs DEF ParseInv, TypeInv, SentType
<1>1. /\ sent' \in SentType /\ LaterSent(sent, sent') /\ sent'[c][number] = msg
      /\ Len(sent'[c]) = number
      /\ PeerStage.number[c] = number /\ PeerStage.done[c] = from
      /\ Allowed(sent', PeerStage, c, fmt)
      /\ greeted /\ greeted' = greeted /\ state_' = state_ /\ readable' = readable
      /\ parsing' = parsing /\ UNCHANGED contextVars
      /\ \A d \in Csids \ {c} : sent'[d] = sent[d]
  BY DEF PeerSends
<1>2. number \in Nat /\ from \in Nat /\ number > 0
  <2>1. number \in Nat /\ from \in Nat
    BY <1>0, <1>1 DEF Stage
  <2>. QED BY <1>1, <2>1 DEF Allowed
<1>3. /\ z \in Stage /\ PeerStage.at < z.at
      /\ Left(sent', PeerStage, c) = msg.len - from
      /\ Left(sent', PeerStage, c) \in Nat
      /\ Size(sent', PeerStage, c) = size /\ size \in Nat /\ size <= msg.len - from
  <2>1. /\ Left(sent', PeerStage, c) = msg.len - from
        /\ Size(sent', PeerStage, c) = size
    BY <1>0, <1>1 DEF Left, Size
  <2>. HIDE DEF size
  <2>. QED BY <1>0, <1>1, <2>1, AfterIs
<1>4. /\ HeaderSize[fmt] \in Nat \ {0}
      /\ msg.len \in Nat /\ msg.size \in Nat \ {0} /\ msg.kind \in MessageKinds
      /\ Header(msg) \in MessageHeader
  BY MessageIs, ChunkParseAssumption
<1>5. peer_chunk_size \in Nat \ {0}
  BY <1>0 DEF TypeInv
<1>. HIDE DEF size
<1>6. to \in Nat /\ from <= to /\ to - from = size /\ to <= msg.len
  BY <1>2, <1>3, <1>4
<1>7. p \in Seq(DataByte) /\ Len(p) = size
      /\ \A i \in 1 .. size :
           p[i] = [kind |-> "data", csid |-> c, number |-> number, at |-> from + i]
  <2>. HIDE DEF to
  <2>. QED BY <1>2, <1>6, PayloadIs
<1>8. h \in HeaderByte /\ h \in WireByte
  BY <1>4 DEF HeaderByte, WireByte
<1>9. /\ wire' = wire \o <<h>> \o Fill(HeaderSize[fmt] - 1, "rest") \o p
      /\ progress' = [progress EXCEPT ![c] = to]
      /\ peer_chunk_size' = IF msg.kind = "SetChunkSize" /\ to = msg.len
                            THEN msg.size ELSE peer_chunk_size
  BY DEF PeerSends, PeerChunk, size
<1>. HIDE DEF to, p, h
<1>10. /\ wire' \in Seq(WireByte)
       /\ Len(wire') = Len(wire) + HeaderSize[fmt] + size
       /\ Longer(wire, wire')
       /\ wire'[Len(wire) + 1] = h
       /\ \A i \in 1 .. size : wire'[Len(wire) + HeaderSize[fmt] + i] = p[i]
  <2>1. HeaderSize[fmt] \in Nat /\ HeaderSize[fmt] > 0
    BY <1>4
  <2>2. ChunkAdded(wire, h, HeaderSize[fmt], p, wire')
    BY <1>0, <1>7, <1>8, <1>9, <2>1, ChunkSent
  <2>. QED BY <1>7, <2>2 DEF ChunkAdded
<1>11. size = msg.len - from <=> to = msg.len
  BY <1>2, <1>3, <1>4, <1>6 DEF to
<1>12. TypeInv'
  <2>1. progress' \in [Csids -> Nat] /\ peer_chunk_size' \in Nat \ {0}
    BY <1>0, <1>4, <1>6, <1>9 DEF TypeInv
  <2>. QED BY <1>0, <1>1, <1>10, <2>1 DEF TypeInv, SentType, contextVars
<1>13. Begun(c)' = number /\ progress'[c] = to
       /\ (Complete(c)' <=> to = msg.len)
       /\ \A d \in Csids \ {c} : /\ Begun(d)' = Begun(d) /\ Complete(d)' = Complete(d)
                                 /\ progress'[d] = progress[d]
  <2>1. progress \in [Csids -> Nat]
    BY <1>0 DEF TypeInv
  <2>. QED BY <1>1, <1>2, <1>9, <2>1 DEF Begun, Complete
<1>14. PeerStage' \in Stage /\ PeerStage'.at = Len(wire') /\ PeerStage'.size = peer_chunk_size'
       /\ \A d \in Csids :
            /\ PeerStage'.number[d] = IF Complete(d)' THEN Begun(d)' + 1 ELSE Begun(d)'
            /\ PeerStage'.done[d] = IF Complete(d)' THEN 0 ELSE progress'[d]
  BY <1>12, StagesNext DEF PeerAt
<1>15. z = PeerStage'
  <2>1. z.at = PeerStage'.at
    BY <1>0, <1>3, <1>10, <1>14 DEF After
  <2>2. z.size = PeerStage'.size
    BY <1>0, <1>1, <1>3, <1>9, <1>11, <1>14 DEF After
  <2>3. ASSUME NEW d \in Csids
        PROVE  z.number[d] = PeerStage'.number[d] /\ z.done[d] = PeerStage'.done[d]
    <3>1. CASE d = c
      BY <1>0, <1>1, <1>2, <1>3, <1>11, <1>13, <1>14, <3>1 DEF After, Stage, to
    <3>2. CASE d # c
      <4>1. z.number[d] = PeerStage.number[d] /\ z.done[d] = PeerStage.done[d]
        BY <1>0, <3>2 DEF After, Stage
      <4>2. /\ PeerStage.number[d] = IF Complete(d) THEN Begun(d) + 1 ELSE Begun(d)
            /\ PeerStage.done[d] = IF Complete(d) THEN 0 ELSE progress[d]
        BY <1>0, PeerStageIs
      <4>. QED BY <1>13, <1>14, <3>2, <4>1, <4>2
    <3>. QED BY <3>1, <3>2
  <2>. HIDE DEF z
  <2>. QED BY <1>3, <1>14, <2>1, <2>2, <2>3, SameStage
<1>16. ChunkAt(wire', sent', PeerStage, PeerStage')
  <2>1. PeerStage.at < Len(wire')
    BY <1>0, <1>4, <1>3, <1>10
  <2>2. DataAt(wire', PeerStage.at + HeaderSize[fmt], c, number, from, size)
    BY <1>0, <1>7, <1>10 DEF DataAt
  <2>3. h.csid = c /\ h.fmt = fmt /\ h.header = Header(msg)
    BY DEF h
  <2>4. PeerStage'.at <= Len(wire')
    BY <1>14 DEF Stage
  <2>. HIDE DEF z
  <2>5. PeerStage' = After(sent', PeerStage, c, fmt)
    BY <1>15 DEF z
  <2>6. ChunkOf(wire', sent', PeerStage, h, PeerStage')
    BY <1>1, <1>3, <1>8, <2>2, <2>3, <2>4, <2>5, Zenon DEF ChunkOf
  <2>. QED BY <1>0, <1>10, <2>1, <2>6 DEF ChunkAt
<1>17. Leads(wire', sent', ParserStage', PeerStage')
  <2>1. ParserStage' = ParserStage
    BY <1>1 DEF ParserStage, Start, Expected, ParserDone, contextVars
  <2>2. ParserStage \in Stage /\ Leads(wire, sent, ParserStage, PeerStage)
    BY <1>0, ParserStageIs DEF ParseInv
  <2>3. PeerStage.at <= PeerStage'.at
    BY <1>0, <1>3, <1>14, <1>15 DEF Stage
  <2>4. Leads(wire', sent', ParserStage, PeerStage')
    BY <1>0, <1>1, <1>10, <1>14, <1>16, <2>2, <2>3, LeadsOn
  <2>. QED BY <2>1, <2>4
<1>18. PacketInv' /\ Reassembled'
  BY <1>0, <1>1, LaterReceived DEF ParseInv
<1>19. GreetedInv' /\ ReadableInv'
  <2>1. Len(wire) <= Len(wire')
    BY <1>10 DEF Longer
  <2>2. readable <= Len(wire')
    BY <1>0, <1>10, <2>1 DEF ParseInv, TypeInv, ReadableInv
  <2>. QED BY <1>1, <2>2 DEF ParseInv, GreetedInv, ReadableInv
<1>20. ProgressInv'
  <2>. SUFFICES ASSUME NEW d \in Csids, Begun(d)' > 0
                PROVE  /\ progress'[d] <= sent'[d][Begun(d)'].len
                       /\ progress'[d] = sent'[d][Begun(d)'].len \/ progress'[d] > 0
    BY DEF ProgressInv
  <2>1. CASE d = c
    <3>1. to = msg.len \/ to > 0
      <4>1. size = msg.len - from \/ size > 0
        BY <1>2, <1>3, <1>4, <1>5 DEF size, Smaller
      <4>. QED BY <1>2, <1>3, <1>6, <1>11, <4>1 DEF to
    <3>. QED BY <1>1, <1>6, <1>13, <2>1, <3>1
  <2>2. CASE d # c
    BY <1>1, <1>13, <2>2 DEF ParseInv, ProgressInv
  <2>. QED BY <2>1, <2>2
<1>. QED BY <1>12, <1>17, <1>18, <1>19, <1>20 DEF ParseInv

\* One step of each kind keeps the invariant: the first chunk of a message,
LEMMA PeerBeginStep ==
  ASSUME ParseInv, NEW c \in Csids, NEW msg \in Messages, NEW fmt \in 0 .. 3,
         PeerBegin(c, msg, fmt)
  PROVE  ParseInv'
<1>0. TypeInv /\ sent \in SentType /\ Begun(c) \in Nat /\ sent[c] \in Seq(Messages)
  BY LenIs DEF ParseInv, TypeInv, SentType, Begun
<1>1. /\ Complete(c) /\ PeerChunk(c, fmt, msg, Begun(c) + 1, 0)
      /\ fmt > 0 => Begun(c) > 0
      /\ fmt > 1 => Header(msg) = Header(sent[c][Begun(c)])
      /\ sent' = [sent EXCEPT ![c] = Append(@, msg)]
      /\ greeted /\ UNCHANGED <<greeted, readable, state_, contextVars, parsing>>
  BY DEF PeerBegin
<1>2. PeerStage.number[c] = Begun(c) + 1 /\ PeerStage.done[c] = 0
  BY <1>0, <1>1, PeerStageIs
<1>3. /\ sent'[c] = Append(sent[c], msg)
      /\ \A d \in Csids \ {c} : sent'[d] = sent[d]
  BY <1>0, <1>1 DEF SentType
<1>4. /\ sent'[c] \in Seq(Messages) /\ Len(sent'[c]) = Begun(c) + 1
      /\ sent'[c][Begun(c) + 1] = msg
      /\ \A i \in 1 .. Begun(c) : sent'[c][i] = sent[c][i]
  BY <1>0, <1>3, AppendProperties DEF Begun
<1>5. sent' \in SentType
  BY <1>0, <1>1, <1>3, <1>4 DEF SentType
<1>6. LaterSent(sent, sent')
  <2>. SUFFICES ASSUME NEW d \in Csids PROVE Longer(sent[d], sent'[d])
    BY DEF LaterSent
  <2>1. CASE d = c
    BY <1>0, <1>4, <2>1 DEF Longer, Begun
  <2>2. CASE d # c
    <3>1. sent'[d] = sent[d] /\ Len(sent[d]) \in Nat
      BY <1>0, <1>3, <2>2, LenIs DEF SentType
    <3>. QED BY <3>1 DEF Longer
  <2>. QED BY <2>1, <2>2
<1>7. Allowed(sent', PeerStage, c, fmt)
  <2>1. fmt > 1 => Header(sent'[c][Begun(c) + 1]) = Header(sent'[c][Begun(c) + 1 - 1])
    <3>. SUFFICES ASSUME fmt > 1
                  PROVE  Header(msg) = Header(sent'[c][Begun(c) + 1 - 1])
      BY <1>4
    <3>1. Begun(c) \in 1 .. Begun(c) /\ Begun(c) + 1 - 1 = Begun(c)
      BY <1>0, <1>1
    <3>. QED BY <1>1, <1>4, <3>1
  <2>. QED BY <1>0, <1>1, <1>2, <1>4, <2>1 DEF Allowed
<1>8. PeerSends(c, fmt, msg, Begun(c) + 1, 0)
  BY <1>1, <1>2, <1>3, <1>4, <1>5, <1>6, <1>7 DEF PeerSends
<1>. QED BY <1>8, PeerSendsStep

\* and the later ones.
LEMMA PeerContinueStep ==
  ASSUME ParseInv, NEW c \in Csids, PeerContinue(c)
  PROVE  ParseInv'
<1>. DEFINE msg == sent[c][Begun(c)]
<1>0. TypeInv /\ sent \in SentType /\ Begun(c) \in Nat /\ sent[c] \in Seq(Messages)
      /\ progress[c] \in Nat /\ DOMAIN sent = Csids
  BY LenIs DEF ParseInv, TypeInv, SentType, Begun
<1>1. /\ ~Complete(c) /\ PeerChunk(c, 3, msg, Begun(c), progress[c])
      /\ UNCHANGED <<sent, greeted, readable, state_, contextVars, parsing>>
  BY DEF PeerContinue
<1>2. /\ Begun(c) > 0 /\ progress[c] # msg.len
  BY <1>1 DEF Complete
<1>3. msg \in Messages /\ msg.len \in Nat
  BY <1>0, <1>2, MessageIs DEF Begun
<1>4. progress[c] < msg.len /\ progress[c] > 0
  BY <1>0, <1>2, <1>3 DEF ParseInv, ProgressInv
<1>5. PeerStage.number[c] = Begun(c) /\ PeerStage.done[c] = progress[c]
  BY <1>0, <1>1, PeerStageIs
<1>6. greeted
  <2>1. sent[c] # <<>>
    BY <1>2 DEF Begun
  <2>. QED BY <2>1 DEF ParseInv, GreetedInv
<1>7. Allowed(sent', PeerStage, c, 3)
  BY <1>0, <1>1, <1>2, <1>4, <1>5 DEF Allowed, Begun
<1>8. LaterSent(sent, sent')
  <2>1. \A d \in Csids : Len(sent[d]) \in Nat
    BY <1>0, LenIs DEF SentType
  <2>. QED BY <1>1, <2>1 DEF LaterSent, Longer
<1>. HIDE DEF msg
<1>9. PeerSends(c, 3, msg, Begun(c), progress[c])
  BY <1>0, <1>1, <1>5, <1>6, <1>7, <1>8 DEF PeerSends, Begun, msg
<1>. QED BY <1>3, <1>9, PeerSendsStep

-----------------------------------------------------------------------------
(* The handshake: bytes are taken from the front, and Start says so. *)

Takes(d) ==
  /\ d <= Start /\ d <= readable
  /\ wire' = Rest(wire, d)
  /\ readable' = readable - d
  /\ parsing' \in BOOLEAN
  /\ parsing' => readable > d
  /\ state_' \in {"WaitC1", "WaitC2", "control"}
  /\ state_' = "control" => greeted
  /\ Start' = Start - d
  /\ UNCHANGED <<peerVars, contextVars>>

\* Bytes of the handshake are taken: the stages are those of before, seen from
\* further on.
LEMMA Taken ==
  ASSUME ParseInv, NEW d \in Nat, Takes(d)
  PROVE  ParseInv'
<1>. USE DEF Takes
<1>0. TypeInv /\ wire \in Seq(WireByte) /\ Len(wire) \in Nat /\ readable \in Nat
      /\ readable <= Len(wire) /\ Start \in Nat /\ sent \in SentType
  BY LenIs, StartIs DEF ParseInv, TypeInv, ReadableInv, SentType
<1>1. d \in 0 .. Len(wire) /\ d \in 0 .. Start
  BY <1>0
<1>2. wire' \in Seq(WireByte) /\ Len(wire') = Len(wire) - d
  BY <1>0, <1>1, RestIs
<1>3. readable' \in Nat /\ readable' <= Len(wire') /\ (parsing' => readable' > 0)
  BY <1>0, <1>2
<1>4. TypeInv'
  BY <1>0, <1>2, <1>3 DEF TypeInv, peerVars, contextVars
<1>5. \A c \in Csids : /\ Expected(c)' = Expected(c) /\ ParserDone(c)' = ParserDone(c)
                       /\ Begun(c)' = Begun(c) /\ Complete(c)' = Complete(c)
  BY DEF peerVars, contextVars, Expected, ParserDone, Begun, Complete
<1>6. ParserStage' = Back(ParserStage, d)
  <2>1. ParserAt /\ ParserAt'
    BY <1>0, <1>4, ParserStageIs, StagesNext DEF ParserAt
  <2>2. d \in 0 .. ParserStage.at
    BY <1>1, <2>1 DEF ParserAt
  <2>3. /\ Back(ParserStage, d) \in Stage
        /\ Back(ParserStage, d).at = ParserStage.at - d
        /\ Back(ParserStage, d).size = ParserStage.size
        /\ Back(ParserStage, d).number = ParserStage.number
        /\ Back(ParserStage, d).done = ParserStage.done
    BY <2>1, <2>2, BackIs DEF ParserAt
  <2>. QED BY <1>5, <2>1, <2>3, SameStage DEF ParserAt, contextVars
<1>7. PeerStage' = Back(PeerStage, d)
  <2>1. PeerAt /\ PeerAt'
    BY <1>0, <1>4, PeerStageIs, StagesNext DEF PeerAt
  <2>2. d \in 0 .. PeerStage.at
    BY <1>1, <2>1 DEF PeerAt
  <2>3. /\ Back(PeerStage, d) \in Stage
        /\ Back(PeerStage, d).at = PeerStage.at - d
        /\ Back(PeerStage, d).size = PeerStage.size
        /\ Back(PeerStage, d).number = PeerStage.number
        /\ Back(PeerStage, d).done = PeerStage.done
    BY <2>1, <2>2, BackIs DEF PeerAt
  <2>. QED BY <1>2, <1>5, <2>1, <2>3, SameStage DEF PeerAt, peerVars
<1>8. Leads(wire', sent', ParserStage', PeerStage')
  <2>1. ParserStage \in Stage /\ PeerStage \in Stage /\ d \in 0 .. ParserStage.at
    BY <1>0, <1>1, ParserStageIs, PeerStageIs
  <2>2. Leads(wire, sent, ParserStage, PeerStage)
    BY DEF ParseInv
  <2>3. Leads(Rest(wire, d), sent, Back(ParserStage, d), Back(PeerStage, d))
    BY <1>0, <2>1, <2>2, LeadsBack
  <2>4. sent' = sent
    BY DEF peerVars
  <2>. QED BY <1>6, <1>7, <2>3, <2>4
<1>9. GreetedInv'
  BY <1>6, <1>7 DEF ParseInv, GreetedInv, peerVars
<1>10. ReadableInv'
  BY <1>3 DEF ReadableInv
<1>11. ProgressInv'
  BY DEF ParseInv, ProgressInv, peerVars, Begun
<1>12. PacketInv' /\ Reassembled'
  <2>1. LaterSent(sent, sent') /\ sent' \in SentType
    <3>1. sent' = sent
      BY DEF peerVars
    <3>2. \A c \in Csids : Len(sent[c]) \in Nat
      BY <1>0, LenIs DEF SentType
    <3>. QED BY <1>0, <3>1, <3>2 DEF LaterSent, Longer
  <2>. QED BY <1>0, <2>1, LaterReceived DEF ParseInv
<1>. QED BY <1>4, <1>8, <1>9, <1>10, <1>11, <1>12 DEF ParseInv

\* OnC0 keeps the invariant.
LEMMA OnC0Step ==
  ASSUME ParseInv, OnC0
  PROVE  ParseInv'
<1>0. /\ TypeInv /\ readable \in Nat /\ readable > 0 /\ wire \in Seq(WireByte)
      /\ readable <= Len(wire) /\ Len(wire) \in Nat
      /\ state_ = "WaitC0" /\ ~greeted /\ HandshakeSize \in Nat \ {0}
  BY LenIs, ChunkParseAssumption
  DEF OnC0, InParse, ParseInv, TypeInv, ReadableInv, GreetedInv
<1>1. Start = 1 + HandshakeSize
  BY <1>0 DEF Start
<1>2. UNCHANGED <<peerVars, contextVars>> /\ greeted' = greeted
  BY DEF OnC0, peerVars
<1>3. CASE readable - 1 >= HandshakeSize
  <2>1. Retrieve(1 + HandshakeSize) /\ state_' = "WaitC2"
    BY <1>3 DEF OnC0
  <2>2. Start' = 0
    BY <1>0, <1>2, <2>1 DEF Start
  <2>3. /\ wire' = Rest(wire, 1 + HandshakeSize)
        /\ readable' = readable - (1 + HandshakeSize)
        /\ parsing' = (readable > 1 + HandshakeSize)
    BY <2>1 DEF Retrieve, Rest
  <2>4. 1 + HandshakeSize \in Nat /\ 1 + HandshakeSize <= readable
        /\ Start' = Start - (1 + HandshakeSize)
    BY <1>0, <1>1, <1>3, <2>2
  <2>5. Takes(1 + HandshakeSize)
    <3>1. parsing' \in BOOLEAN
      BY <2>3
    <3>2. parsing' => readable > 1 + HandshakeSize
      BY <2>3, Zenon
    <3>. QED BY <1>1, <1>2, <2>1, <2>3, <2>4, <3>1, <3>2 DEF Takes
  <2>. QED BY <2>4, <2>5, Taken
<1>4. CASE ~(readable - 1 >= HandshakeSize)
  <2>1. /\ wire' = Tail(wire) /\ readable' = readable - 1 /\ parsing' = FALSE
        /\ state_' = "WaitC1"
    BY <1>4 DEF OnC0
  <2>2. Start' = HandshakeSize
    BY <1>0, <1>2, <2>1 DEF Start
  <2>3. wire' = Rest(wire, 1)
    <3>1. wire # <<>>
      BY <1>0
    <3>. QED BY <1>0, <2>1, <3>1, TailIsSubSeq DEF Rest
  <2>4. 1 <= Start /\ 1 <= readable /\ Start' = Start - 1
    BY <1>0, <1>1, <2>2
  <2>5. Takes(1)
    BY <1>2, <2>1, <2>3, <2>4 DEF Takes
  <2>. QED BY <2>5, Taken
<1>. QED BY <1>3, <1>4

\* A step that only reads, or stops.
LEMMA Idle ==
  ASSUME ParseInv, UNCHANGED <<peerVars, wire, state_, contextVars>>,
         readable' \in Nat, readable' <= Len(wire), parsing' \in BOOLEAN,
         parsing' => readable' > 0
  PROVE  ParseInv'
  <1>1. TypeInv'
    BY DEF ParseInv, TypeInv, peerVars, contextVars
  <1>2. ParserStage' = ParserStage /\ PeerStage' = PeerStage
    BY DEF ParserStage, PeerStage, Start, Expected, ParserDone, Begun, Complete,
           peerVars, contextVars
  <1>3. GreetedInv' /\ ReadableInv' /\ ProgressInv'
    BY <1>2 DEF ParseInv, GreetedInv, ReadableInv, ProgressInv, Begun, peerVars
  <1>4. PacketInv' /\ Reassembled'
    BY DEF ParseInv, PacketInv, PacketOf, Reassembled, Expected, ParserDone, Partly, Begun,
           peerVars, contextVars
  <1>5. Leads(wire', sent', ParserStage', PeerStage')
    BY <1>2 DEF ParseInv, peerVars
  <1>. QED BY <1>1, <1>3, <1>4, <1>5 DEF ParseInv

\* OnC1 does, also where its assertion fails.
LEMMA OnC1Step ==
  ASSUME ParseInv, OnC1
  PROVE  ParseInv'
<1>0. /\ TypeInv /\ readable \in Nat /\ readable > 0 /\ readable <= Len(wire)
      /\ state_ = "WaitC1" /\ HandshakeSize \in Nat \ {0} /\ greeted \in BOOLEAN
  BY ChunkParseAssumption DEF OnC1, InParse, ParseInv, TypeInv, ReadableInv
<1>1. UNCHANGED <<peerVars, contextVars>> /\ greeted' = greeted
  BY DEF OnC1, peerVars
<1>2. CASE readable < HandshakeSize
  <2>1. UNCHANGED <<wire, readable, state_>> /\ parsing' = FALSE
    BY <1>2 DEF OnC1, NotEnough
  <2>. QED BY <1>0, <1>1, <2>1, Idle
<1>3. CASE ~(readable < HandshakeSize)
  <2>1. Retrieve(HandshakeSize) /\ state_' = "WaitC2"
    BY <1>3 DEF OnC1
  <2>2. /\ wire' = Rest(wire, HandshakeSize)
        /\ readable' = readable - HandshakeSize
        /\ parsing' = (readable > HandshakeSize)
    BY <2>1 DEF Retrieve, Rest
  <2>3. /\ HandshakeSize <= readable /\ HandshakeSize <= Start
        /\ Start' = Start - HandshakeSize
    BY <1>0, <1>1, <1>3, <2>1 DEF Start
  <2>4. Takes(HandshakeSize)
    <3>1. parsing' \in BOOLEAN
      BY <2>2
    <3>2. parsing' => readable > HandshakeSize
      BY <2>2, Zenon
    <3>. QED BY <1>0, <1>1, <2>1, <2>2, <2>3, <3>1, <3>2 DEF Takes
  <2>. QED BY <1>0, <2>4, Taken
<1>. QED BY <1>2, <1>3

\* OnC2 does: with it the parser is at the first chunk.
LEMMA OnC2Step ==
  ASSUME ParseInv, OnC2
  PROVE  ParseInv'
<1>0. /\ TypeInv /\ readable \in Nat /\ readable > 0 /\ readable <= Len(wire)
      /\ state_ = "WaitC2" /\ HandshakeSize \in Nat \ {0} /\ greeted \in BOOLEAN
  BY ChunkParseAssumption DEF OnC2, InParse, ParseInv, TypeInv, ReadableInv
<1>1. UNCHANGED <<peerVars, contextVars>> /\ greeted' = greeted
  BY DEF OnC2, peerVars
<1>2. CASE readable < HandshakeSize
  <2>1. UNCHANGED <<wire, readable, state_>> /\ parsing' = FALSE
    BY <1>2 DEF OnC2, NotEnough
  <2>. QED BY <1>0, <1>1, <2>1, Idle
<1>3. CASE ~(readable < HandshakeSize)
  <2>1. Retrieve(HandshakeSize) /\ state_' = "control"
    BY <1>3 DEF OnC2
  <2>2. /\ wire' = Rest(wire, HandshakeSize)
        /\ readable' = readable - HandshakeSize
        /\ parsing' = (readable > HandshakeSize)
    BY <2>1 DEF Retrieve, Rest
  <2>3. greeted
    <3>. SUFFICES ASSUME ~greeted PROVE FALSE
      OBVIOUS
    <3>1. ParserStage = PeerStage
      BY DEF ParseInv, GreetedInv
    <3>2. Start = Len(wire)
      BY <1>0, <3>1, ParserStageIs, PeerStageIs
    <3>. QED BY <1>0, <3>2 DEF Start
  <2>4. /\ HandshakeSize <= readable /\ HandshakeSize <= Start
        /\ Start' = Start - HandshakeSize
    BY <1>0, <1>1, <1>3, <2>1, <2>3 DEF Start
  <2>5. Takes(HandshakeSize)
    <3>1. parsing' \in BOOLEAN
      BY <2>2
    <3>2. parsing' => readable > HandshakeSize
      BY <2>2, Zenon
    <3>. QED BY <1>0, <1>1, <2>1, <2>2, <2>3, <2>4, <3>1, <3>2 DEF Takes
  <2>. QED BY <1>0, <2>5, Taken
<1>. QED BY <1>2, <1>3

\* OnRead does: it changes nothing but how much can be read.
LEMMA OnReadStep ==
  ASSUME ParseInv, OnRead
  PROVE  ParseInv'
<1>1. PICK n \in readable + 1 .. Len(wire) : readable' = n
  BY DEF OnRead
<1>2. readable \in Nat /\ Len(wire) \in Nat
  BY LenIs DEF ParseInv, TypeInv
<1>3. readable' \in Nat /\ readable' <= Len(wire) /\ readable' > 0
  BY <1>1, <1>2
<1>4. UNCHANGED <<peerVars, wire, state_, contextVars>> /\ parsing' = TRUE
  BY DEF OnRead
<1>. QED BY <1>3, <1>4, Idle

-----------------------------------------------------------------------------
(* ParseMessage *)

\* What it finds: the chunk the peer sent, of the message that is expected.
LEMMA AtChunk ==
  ASSUME ParseInv, InParse("control")
  PROVE  /\ First \in HeaderByte
         /\ ChunkAt(wire, sent, ParserStage, After(sent, ParserStage, Csid, First.fmt))
         /\ Leads(wire, sent, After(sent, ParserStage, Csid, First.fmt), PeerStage)
<1>0. /\ TypeInv /\ readable \in Nat /\ readable > 0 /\ readable <= Len(wire)
      /\ state_ = "control" /\ Len(wire) \in Nat
  BY LenIs DEF InParse, ParseInv, TypeInv, ReadableInv
<1>1. Start = 0
  BY <1>0 DEF Start
<1>2. /\ ParserStage \in Stage /\ PeerStage \in Stage
      /\ ParserStage.at = 0 /\ PeerStage.at = Len(wire)
  BY <1>0, <1>1, ParserStageIs, PeerStageIs
<1>3. ParserStage # PeerStage
  BY <1>0, <1>2
<1>4. Leads(wire, sent, ParserStage, PeerStage)
  BY DEF ParseInv
<1>5. PICK y \in Stage : ChunkAt(wire, sent, ParserStage, y) /\ Leads(wire, sent, y, PeerStage)
  BY <1>2, <1>3, <1>4, LeadsFirst
<1>6. wire[ParserStage.at + 1] = First
  BY <1>2 DEF First
<1>7. ChunkOf(wire, sent, ParserStage, First, y)
  BY <1>5, <1>6 DEF ChunkAt
<1>8. First \in HeaderByte /\ y = After(sent, ParserStage, Csid, First.fmt)
  BY <1>7 DEF ChunkOf, Csid
<1>. QED BY <1>5, <1>8

\* ReceivedHeader and Packet are those of the expected message, and ChunkLen is
\* what the peer put into the chunk.
LEMMA AtPacket ==
  ASSUME ParseInv, InParse("control")
  PROVE  /\ Csid \in Csids /\ First.fmt \in 0 .. 3 /\ InData \in Nat \ {0}
         /\ Expected(Csid) \in 1 .. Begun(Csid)
         /\ sent[Csid][Expected(Csid)] \in Messages
         /\ ReceivedHeader = Header(sent[Csid][Expected(Csid)])
         /\ Packet = Partly(Csid, Expected(Csid), ParserDone(Csid))
         /\ ToBeReceived(Packet) = Left(sent, ParserStage, Csid)
         /\ ChunkLen = Size(sent, ParserStage, Csid)
         /\ Left(sent, ParserStage, Csid) = sent[Csid][Expected(Csid)].len - ParserDone(Csid)
         /\ Left(sent, ParserStage, Csid) \in Nat
         /\ ChunkLen \in Nat /\ ChunkLen <= Left(sent, ParserStage, Csid)
         /\ DataAt(wire, InData, Csid, Expected(Csid), ParserDone(Csid), ChunkLen)
<1>. DEFINE c == Csid
            n == Expected(Csid)
            m == sent[Csid][Expected(Csid)]
            from == ParserDone(Csid)
<1>0. /\ TypeInv /\ ParserStage \in Stage /\ ParserStage.size = r_chunk_size_
      /\ ParserStage.at = 0 /\ sent \in SentType
  <2>1. TypeInv /\ state_ = "control"
    BY DEF ParseInv, InParse
  <2>2. Start = 0
    BY <2>1 DEF Start
  <2>. QED BY <2>1, <2>2, ParserStageIs DEF TypeInv, SentType
<1>1. /\ c \in Csids /\ First.fmt \in 0 .. 3 /\ InData \in Nat \ {0}
      /\ First.header \in MessageHeader
  BY AtChunk, ChunkParseAssumption DEF HeaderByte, Csid, InData
<1>2. ParserStage.number[c] = n /\ ParserStage.done[c] = from /\ from \in Nat
  BY <1>0, <1>1, ParserStageIs, ParserDoneIs
<1>. HIDE DEF n, m, from, c
<1>3. ChunkOf(wire, sent, ParserStage, First, After(sent, ParserStage, c, First.fmt))
  BY <1>0, AtChunk DEF ChunkAt, First, c
<1>4. /\ Allowed(sent, ParserStage, c, First.fmt)
      /\ First.header = Header(m)
      /\ DataAt(wire, InData, c, n, from, Size(sent, ParserStage, c))
  <2>1. First.csid = c /\ m = sent[c][n] /\ HeaderSize[First.fmt] = InData
    BY DEF Csid, c, m, n, InData
  <2>2. /\ Allowed(sent, ParserStage, c, First.fmt)
        /\ First.header = Header(m)
        /\ DataAt(wire, 0 + InData, c, n, from, Size(sent, ParserStage, c))
    BY <1>0, <1>2, <1>3, <2>1, Zenon DEF ChunkOf
  <2>3. 0 + InData = InData
    BY <1>1
  <2>. QED BY <2>2, <2>3
<1>5. /\ n \in 1 .. Begun(c) /\ m = sent[c][n]
      /\ from = 0 \/ from < m.len
      /\ from > 0 => First.fmt = 3
      /\ from = 0 /\ First.fmt > 0 => n > 1
      /\ from = 0 /\ First.fmt > 1 => Header(m) = Header(sent[c][n - 1])
  BY <1>2, <1>4 DEF Allowed, Begun, m, n, c
<1>6. m \in Messages /\ m.len \in Nat /\ Header(m).len = m.len
  <2>1. m \in Messages
    BY <1>0, <1>1, <1>5 DEF SentType, Begun
  <2>. QED BY <2>1, MessageIs
<1>7. /\ Left(sent, ParserStage, c) = m.len - from /\ Left(sent, ParserStage, c) \in Nat
      /\ Size(sent, ParserStage, c) \in Nat
      /\ Size(sent, ParserStage, c) <= Left(sent, ParserStage, c)
  BY <1>0, <1>1, <1>2, <1>4, <1>5, AfterIs DEF Left
<1>8. PacketOf(c)
  BY <1>1 DEF ParseInv, PacketInv
<1>9. ReceivedHeader = Header(m)
  <2>1. CASE First.fmt <= 1
    BY <1>4, <2>1 DEF ReceivedHeader
  <2>2. CASE First.fmt > 1
    <3>1. prev_recv_headers_[c] = Header(m)
      <4>1. CASE packets_[c] # NoPacket
        BY <1>5, <1>8, <4>1 DEF PacketOf, n, c
      <4>2. CASE packets_[c] = NoPacket
        <5>1. from = 0
          BY <4>2 DEF from, ParserDone, c
        <5>2. n > 1 /\ Header(m) = Header(sent[c][n - 1])
          BY <1>1, <1>5, <2>2, <5>1
        <5>. QED BY <1>8, <4>2, <5>2 DEF PacketOf, n, c
      <4>. QED BY <4>1, <4>2
    <3>2. ~(First.fmt <= 1)
      BY <1>1, <2>2
    <3>. QED BY <3>1, <3>2 DEF ReceivedHeader, c
  <2>. QED BY <1>1, <2>1, <2>2
<1>10. Packet = Partly(c, n, from)
  <2>1. CASE packets_[c] # NoPacket
    BY <1>8, <2>1 DEF PacketOf, Packet, n, c, from
  <2>2. CASE packets_[c] = NoPacket
    <3>1. from = 0
      BY <2>2 DEF from, ParserDone, c
    <3>2. Payload(c, n, 0, 0) = <<>>
      BY DEF Payload
    <3>. QED BY <1>5, <1>9, <2>2, <3>1, <3>2 DEF Packet, Partly, c
  <2>. QED BY <2>1, <2>2
<1>11. ToBeReceived(Packet) = m.len - from
  <2>0. c \in Csids /\ n \in Nat /\ from \in Nat /\ 0 \in Nat /\ 0 <= from
    BY <1>1, <1>2, <1>5
  <2>1. Len(Payload(c, n, 0, from)) = from - 0
    BY <2>0, PayloadIs, Zenon
  <2>. QED BY <1>2, <1>5, <1>6, <1>10, <2>1 DEF ToBeReceived, Partly
<1>12. ChunkLen = Size(sent, ParserStage, c)
  BY <1>0, <1>7, <1>11 DEF ChunkLen, Size
<1>. QED BY <1>1, <1>4, <1>5, <1>6, <1>7, <1>9, <1>10, <1>11, <1>12 DEF c, n, m, from

\* The bytes a message begins with.
LEMMA PayloadFrom0 ==
  ASSUME NEW c \in Csids, NEW n \in Nat, NEW to \in Nat
  PROVE  /\ Payload(c, n, 0, to) \in Seq(DataByte)
         /\ Len(Payload(c, n, 0, to)) = to
         /\ \A i \in 1 .. to :
              Payload(c, n, 0, to)[i] = [kind |-> "data", csid |-> c, number |-> n, at |-> i]
<1>1. to - 0 = to /\ \A i \in 1 .. to : 0 + i = i
  OBVIOUS
<1>2. \A i \in 1 .. to : [kind |-> "data", csid |-> c, number |-> n, at |-> i] \in DataByte
  BY DEF DataByte
<1>. QED BY <1>1, <1>2 DEF Payload

\* A message of which some bytes have come has the type Received.
LEMMA PartlyIs ==
  ASSUME NEW c \in Csids, NEW n \in Nat, NEW bytes \in Nat, sent[c][n] \in Messages
  PROVE  /\ Partly(c, n, bytes) \in Received
         /\ Partly(c, n, bytes) # NoPacket
         /\ Partly(c, n, bytes).header = Header(sent[c][n])
         /\ Partly(c, n, bytes).data = Payload(c, n, 0, bytes)
         /\ Len(Partly(c, n, bytes).data) = bytes
<1>1. Header(sent[c][n]) \in MessageHeader
  BY MessageIs
<1>2. 0 \in Nat /\ 0 <= bytes
  OBVIOUS
<1>3. Payload(c, n, 0, bytes) \in Seq(DataByte) /\ Len(Payload(c, n, 0, bytes)) = bytes - 0
  BY <1>2, PayloadIs, Zenon
<1>4. Partly(c, n, bytes) \in Received
  BY <1>1, <1>3 DEF Partly, Received
<1>. QED BY <1>3, <1>4, ChunkParseAssumption DEF Partly

\* p is the piece of a message that a chunk holds.
Piece(p, c, n, from, len) ==
  /\ p \in Seq(DataByte) /\ Len(p) = len
  /\ \A i \in 1 .. len : p[i] = [kind |-> "data", csid |-> c, number |-> n, at |-> from + i]

\* It is appended to what is there.
LEMMA PayloadJoined ==
  ASSUME NEW c \in Csids, NEW n \in Nat, NEW from \in Nat, NEW len \in Nat,
         NEW p, Piece(p, c, n, from, len)
  PROVE  Payload(c, n, 0, from) \o p = Payload(c, n, 0, from + len)
<1>. DEFINE a == Payload(c, n, 0, from)
            b == Payload(c, n, 0, from + len)
<1>10. /\ p \in Seq(DataByte) /\ Len(p) = len
      /\ \A i \in 1 .. len :
           p[i] = [kind |-> "data", csid |-> c, number |-> n, at |-> from + i]
  BY DEF Piece
<1>0. 0 \in Nat /\ 0 <= from /\ from + len \in Nat /\ 0 <= from + len
  OBVIOUS
<1>1. /\ a \in Seq(DataByte) /\ Len(a) = from
      /\ \A i \in 1 .. from : a[i] = [kind |-> "data", csid |-> c, number |-> n, at |-> i]
  BY <1>0, PayloadFrom0
<1>2. /\ b \in Seq(DataByte) /\ Len(b) = from + len
      /\ \A i \in 1 .. from + len : b[i] = [kind |-> "data", csid |-> c, number |-> n, at |-> i]
  BY <1>0, PayloadFrom0
<1>. HIDE DEF a, b
<1>3. /\ a \o p \in Seq(DataByte) /\ Len(a \o p) = Len(a) + Len(p)
      /\ \A i \in 1 .. Len(a) + Len(p) :
           (a \o p)[i] = IF i <= Len(a) THEN a[i] ELSE p[i - Len(a)]
  BY <1>1, <1>10, ConcatProperties
<1>4. PICK q \in Seq(DataByte) : q = a \o p
  BY <1>3
<1>5. ASSUME NEW i \in 1 .. from + len
      PROVE  q[i] = b[i]
  <2>1. i \in Nat /\ b[i] = [kind |-> "data", csid |-> c, number |-> n, at |-> i]
    BY <1>2
  <2>2. CASE i <= from
    <3>1. a[i] = [kind |-> "data", csid |-> c, number |-> n, at |-> i] /\ i <= Len(a)
          /\ i \in 1 .. Len(a) + Len(p)
      BY <1>1, <1>10, <2>2
    <3>. QED BY <1>3, <1>4, <2>1, <3>1
  <2>3. CASE ~(i <= from)
    <3>1. i - from \in 1 .. len /\ from + (i - from) = i /\ i - Len(a) = i - from
          /\ ~(i <= Len(a)) /\ i \in 1 .. Len(a) + Len(p)
      BY <1>1, <1>10, <2>3
    <3>2. p[i - from] = [kind |-> "data", csid |-> c, number |-> n, at |-> from + (i - from)]
      BY <1>10, <3>1
    <3>. QED BY <1>3, <1>4, <2>1, <3>1, <3>2
  <2>. QED BY <2>2, <2>3
<1>6. Len(q) = from + len /\ Len(b) = from + len
  BY <1>1, <1>2, <1>3, <1>4, <1>10
<1>7. q = b
  BY <1>2, <1>4, <1>5, <1>6, SeqEqual
<1>. QED BY <1>4, <1>7 DEF a, b

\* A header that is not complete is left where it is.
LEMMA ParseHeaderWaitStep ==
  ASSUME ParseInv, ParseHeaderWait
  PROVE  ParseInv'
<1>1. UNCHANGED <<peerVars, wire, readable, state_, contextVars>> /\ parsing' = FALSE
  BY DEF ParseHeaderWait, NotEnough
<1>2. readable \in Nat /\ readable <= Len(wire)
  BY DEF ParseInv, TypeInv, ReadableInv
<1>. QED BY <1>1, <1>2, Idle

\* A chunk that is not: its packet may be new, but has no more bytes than before.
LEMMA ParseChunkWaitStep ==
  ASSUME ParseInv, ParseChunkWait
  PROVE  ParseInv'
<1>. DEFINE c == Csid
            n == Expected(Csid)
            from == ParserDone(Csid)
<1>0. TypeInv /\ InParse("control")
  BY DEF ParseInv, ParseChunkWait
<1>1. /\ prev_recv_headers_' = [prev_recv_headers_ EXCEPT ![c] = ReceivedHeader]
      /\ packets_' = [packets_ EXCEPT ![c] = Packet]
      /\ parsing' = FALSE
      /\ UNCHANGED <<peerVars, wire, readable, state_, r_chunk_size_, delivered>>
  BY DEF ParseChunkWait, NotEnough
<1>2. /\ c \in Csids /\ n \in 1 .. Begun(c) /\ sent[c][n] \in Messages
      /\ ReceivedHeader = Header(sent[c][n])
      /\ Packet = Partly(c, n, from)
  BY <1>0, AtPacket
<1>3. n \in Nat /\ from \in Nat
  BY <1>0, <1>2, ParserDoneIs
<1>4. /\ Packet \in Received /\ Packet # NoPacket /\ Len(Packet.data) = from
      /\ ReceivedHeader \in MessageHeader
  <2>. HIDE DEF n, from, c
  <2>. QED BY <1>2, <1>3, PartlyIs, MessageIs
<1>. HIDE DEF c
<1>5. TypeInv'
  BY <1>0, <1>1, <1>2, <1>4 DEF TypeInv, peerVars
<1>6. \A d \in Csids : /\ packets_'[d] = IF d = c THEN Packet ELSE packets_[d]
                       /\ prev_recv_headers_'[d] = IF d = c THEN ReceivedHeader
                                                   ELSE prev_recv_headers_[d]
  BY <1>0, <1>1 DEF TypeInv
<1>7. \A d \in Csids : /\ Expected(d)' = Expected(d) /\ ParserDone(d)' = ParserDone(d)
                       /\ Begun(d)' = Begun(d) /\ Complete(d)' = Complete(d)
  <2>. SUFFICES ASSUME NEW d \in Csids
                PROVE  /\ Expected(d)' = Expected(d) /\ ParserDone(d)' = ParserDone(d)
                       /\ Begun(d)' = Begun(d) /\ Complete(d)' = Complete(d)
    OBVIOUS
  <2>1. ParserDone(d)' = ParserDone(d)
    BY <1>4, <1>6 DEF ParserDone, c
  <2>. QED BY <1>1, <2>1 DEF Expected, Begun, Complete, peerVars
<1>8. ParserStage' = ParserStage /\ PeerStage' = PeerStage
  <2>1. ParserAt /\ ParserAt' /\ PeerAt /\ PeerAt'
    BY <1>0, <1>5, ParserStageIs, PeerStageIs, StagesNext DEF ParserAt, PeerAt
  <2>2. Start' = Start
    BY <1>1 DEF Start, peerVars
  <2>3. ParserStage' = ParserStage
    BY <1>1, <1>7, <2>1, <2>2, SameStage DEF ParserAt
  <2>4. PeerStage' = PeerStage
    BY <1>1, <1>7, <2>1, SameStage DEF PeerAt, peerVars
  <2>. QED BY <2>3, <2>4
<1>9. Leads(wire', sent', ParserStage', PeerStage')
  BY <1>1, <1>8 DEF ParseInv, peerVars
<1>10. GreetedInv' /\ ReadableInv' /\ ProgressInv' /\ Reassembled'
  <2>1. GreetedInv' /\ ReadableInv'
    BY <1>1, <1>8 DEF ParseInv, GreetedInv, ReadableInv, peerVars
  <2>2. ProgressInv' /\ Reassembled'
    BY <1>1 DEF ParseInv, ProgressInv, Reassembled, Begun, peerVars
  <2>. QED BY <2>1, <2>2
<1>11. PacketInv'
  <2>. SUFFICES ASSUME NEW d \in Csids PROVE PacketOf(d)'
    BY DEF PacketInv
  <2>1. CASE d = c
    <3>1. packets_'[d] = Partly(c, n, from) /\ packets_'[d] # NoPacket
          /\ prev_recv_headers_'[d] = Header(sent[c][n]) /\ n <= Begun(c)
      BY <1>2, <1>4, <1>6, <2>1
    <3>2. Partly(d, Expected(d), ParserDone(d))' = Partly(c, n, from)
      BY <1>1, <1>7, <2>1 DEF Partly, peerVars, c
    <3>. QED BY <1>1, <1>7, <2>1, <3>1, <3>2 DEF PacketOf, peerVars, c
  <2>2. CASE d # c
    <3>1. PacketOf(d)
      BY DEF ParseInv, PacketInv
    <3>2. Partly(d, Expected(d), ParserDone(d))' = Partly(d, Expected(d), ParserDone(d))
      BY <1>1, <1>7 DEF Partly, peerVars
    <3>. QED BY <1>1, <1>6, <1>7, <2>2, <3>1, <3>2 DEF PacketOf, peerVars
  <2>. QED BY <2>1, <2>2
<1>. QED BY <1>5, <1>9, <1>10, <1>11 DEF ParseInv

\* The packet of ParseChunk, with the payload of the chunk.
Chunk == SubSeq(wire, InData + 1, InData + ChunkLen)
Filled == [header |-> Packet.header, data |-> Packet.data \o Chunk]

\* It has the first bytes of the message, up to the end of the chunk.
LEMMA AtFilled ==
  ASSUME ParseInv, InParse("control"), InData + ChunkLen <= Len(wire)
  PROVE  /\ Filled = Partly(Csid, Expected(Csid), ParserDone(Csid) + ChunkLen)
         /\ Filled \in Received /\ Filled # NoPacket
         /\ Filled.header = Header(sent[Csid][Expected(Csid)])
         /\ Filled.data = Payload(Csid, Expected(Csid), 0, ParserDone(Csid) + ChunkLen)
         /\ Len(Filled.data) = ParserDone(Csid) + ChunkLen
         /\ ToBeReceived(Filled) = Left(sent, ParserStage, Csid) - ChunkLen
<1>. DEFINE c == Csid
            n == Expected(Csid)
            m == sent[Csid][Expected(Csid)]
            from == ParserDone(Csid)
            len == ChunkLen
            left == Left(sent, ParserStage, Csid)
<1>0. TypeInv
  BY DEF ParseInv
<1>1. /\ c \in Csids /\ n \in 1 .. Begun(c) /\ m \in Messages
      /\ Packet = Partly(c, n, from)
      /\ left = m.len - from
      /\ len \in Nat /\ InData \in Nat
      /\ DataAt(wire, InData, c, n, from, len)
  BY AtPacket
<1>2. n \in Nat /\ from \in Nat /\ wire \in Seq(WireByte) /\ Len(wire) \in Nat
      /\ InData + len <= Len(wire) /\ m.len \in Nat
  BY <1>0, <1>1, ParserDoneIs, LenIs, MessageIs DEF TypeInv
<1>3. sent[c][n] \in Messages /\ sent[c][n] = m
  BY <1>1
<1>. HIDE DEF c, n, m, from, len, left
<1>4. /\ Len(Chunk) = len
      /\ \A i \in 1 .. len : Chunk[i] = wire[InData + i]
  <2>1. Chunk = SubSeq(wire, InData + 1, InData + len)
    BY DEF Chunk, len
  <2>2. Len(SubSeq(wire, InData + 1, InData + len)) = len
    BY <1>1, <1>2
  <2>3. ASSUME NEW i \in 1 .. len
        PROVE  Chunk[i] = wire[InData + i]
    <3>1. Chunk[i] = wire[InData + 1 + i - 1]
      BY <1>1, <1>2, <2>1, <2>2
    <3>2. InData + 1 + i - 1 = InData + i
      BY <1>1
    <3>. QED BY <3>1, <3>2
  <2>. QED BY <2>1, <2>2, <2>3
<1>5. \A i \in 1 .. len :
        Chunk[i] = [kind |-> "data", csid |-> c, number |-> n, at |-> from + i]
  BY <1>1, <1>4 DEF DataAt
<1>6. Chunk \in Seq(DataByte)
  <2>1. ASSUME NEW i \in 1 .. len
        PROVE  Chunk[i] \in DataByte
    <3>1. PICK k \in Nat : k = from + i
      BY <1>1, <1>2
    <3>2. [kind |-> "data", csid |-> c, number |-> n, at |-> k] \in DataByte
      BY <1>1, <1>2 DEF DataByte
    <3>. QED BY <1>5, <3>1, <3>2
  <2>2. Chunk \in Seq(WireByte)
    BY <1>1, <1>2 DEF Chunk, len
  <2>. QED BY <1>4, <2>1, <2>2
<1>7. Filled = Partly(c, n, from + len)
  <2>1. Piece(Chunk, c, n, from, len)
    BY <1>4, <1>5, <1>6 DEF Piece
  <2>2. Payload(c, n, 0, from) \o Chunk = Payload(c, n, 0, from + len)
    BY <1>1, <1>2, <2>1, PayloadJoined
  <2>3. Packet.header = Header(sent[c][n]) /\ Packet.data = Payload(c, n, 0, from)
    BY <1>1 DEF Partly
  <2>. QED BY <2>2, <2>3, Zenon DEF Filled, Partly
<1>8. /\ Filled \in Received /\ Filled # NoPacket
      /\ Filled.header = Header(m)
      /\ Filled.data = Payload(c, n, 0, from + len)
      /\ Len(Filled.data) = from + len
  <2>1. from + len \in Nat
    BY <1>1, <1>2
  <2>. QED BY <1>1, <1>2, <1>3, <1>7, <2>1, PartlyIs
<1>9. ToBeReceived(Filled) = left - len
  <2>1. Header(m).len = m.len
    BY <1>1, MessageIs
  <2>2. ToBeReceived(Filled) = m.len - (from + len)
    BY <1>8, <2>1 DEF ToBeReceived
  <2>. QED BY <1>1, <1>2, <2>2
<1>. QED BY <1>7, <1>8, <1>9 DEF c, n, m, from, len, left

\* The first byte of a message says whose it is: ParseSetChunkSize reads the
\* value that the peer sent.
LEMMA AtSetChunkSize ==
  ASSUME ParseInv, InParse("control"), InData + ChunkLen <= Len(wire),
         ChunkLen = Left(sent, ParserStage, Csid), Filled.header.kind = "SetChunkSize"
  PROVE  ParseSetChunkSize(Filled) = sent[Csid][Expected(Csid)].size
<1>. DEFINE c == Csid
            n == Expected(Csid)
            m == sent[Csid][Expected(Csid)]
<1>1. /\ c \in Csids /\ n \in 1 .. Begun(c) /\ m \in Messages
      /\ ChunkLen = m.len - ParserDone(Csid)
      /\ Filled.header = Header(m)
      /\ Filled.data = Payload(c, n, 0, ParserDone(Csid) + ChunkLen)
  BY AtPacket, AtFilled
<1>2. ParserDone(Csid) \in Nat
  BY <1>1, ParserDoneIs DEF ParseInv
<1>. HIDE DEF c, m
<1>3. m.len \in Nat \ {0}
  BY <1>1, MessageIs
<1>4. ParserDone(Csid) + ChunkLen = m.len
  BY <1>1, <1>2, <1>3
<1>. HIDE DEF n
<1>5. Filled.data[1] = [kind |-> "data", csid |-> c, number |-> n, at |-> 1]
  <2>1. n \in Nat /\ m.len \in Nat /\ 1 \in 1 .. m.len
    BY <1>1, <1>3
  <2>2. Payload(c, n, 0, m.len)[1] = [kind |-> "data", csid |-> c, number |-> n, at |-> 1]
    BY <1>1, <2>1, PayloadFrom0
  <2>. QED BY <1>1, <1>4, <2>2
<1>. QED BY <1>5 DEF ParseSetChunkSize, c, n

\* A chunk that is complete moves the parser one stage on, as it moved the peer.
LEMMA ParseChunkStep ==
  ASSUME ParseInv, ParseChunk
  PROVE  ParseInv'
<1>. DEFINE y == After(sent, ParserStage, Csid, First.fmt)
<1>0. TypeInv /\ InParse("control") /\ state_ = "control" /\ readable >= InData + ChunkLen
      /\ readable \in Nat /\ readable <= Len(wire) /\ Len(wire) \in Nat
      /\ wire \in Seq(WireByte) /\ sent \in SentType
  BY LenIs DEF ParseInv, ParseChunk, InParse, Enough, TypeInv, ReadableInv, SentType
<1>a. PICK c \in Csids : c = Csid
  BY <1>0, AtPacket
<1>b. PICK n : n = Expected(c)
  OBVIOUS
<1>c. PICK m : m = sent[c][n]
  OBVIOUS
<1>d. PICK from : from = ParserDone(c)
  OBVIOUS
<1>e. PICK left : left = Left(sent, ParserStage, c)
  OBVIOUS
<1>f. PICK len : len = InData + ChunkLen
  OBVIOUS
<1>g. PICK all \in BOOLEAN : all <=> ChunkLen = left
  OBVIOUS
<1>1. /\ First.fmt \in 0 .. 3 /\ InData \in Nat \ {0}
      /\ n \in 1 .. Begun(c) /\ m \in Messages /\ ReceivedHeader = Header(m)
      /\ ChunkLen = Size(sent, ParserStage, c) /\ left = m.len - from
      /\ left \in Nat /\ ChunkLen \in Nat /\ ChunkLen <= left
  BY <1>0, <1>a, <1>b, <1>c, <1>d, <1>e, AtPacket
<1>2. len \in Nat /\ from \in Nat /\ n \in Nat /\ m.len \in Nat /\ m.kind = Header(m).kind
      /\ ReceivedHeader \in MessageHeader /\ m.size \in Nat \ {0}
  BY <1>0, <1>1, <1>d, <1>f, ParserDoneIs, MessageIs
<1>3. InData + ChunkLen <= Len(wire) /\ len <= readable
  BY <1>0, <1>2, <1>f
<1>4. /\ Filled = Partly(c, n, from + ChunkLen)
      /\ Filled \in Received /\ Filled # NoPacket
      /\ Filled.header = Header(m)
      /\ Len(Filled.data) = from + ChunkLen
      /\ ToBeReceived(Filled) = left - ChunkLen
  BY <1>0, <1>3, <1>a, <1>b, <1>c, <1>d, <1>e, AtFilled
<1>5. ToBeReceived(Filled) = 0 <=> all
  BY <1>1, <1>4, <1>g
<1>6. /\ packets_' = [packets_ EXCEPT ![c] = Unfinished(Filled)]
      /\ IF all THEN ParseAssembledMessage(Filled)
         ELSE UNCHANGED <<delivered, r_chunk_size_, closed_>>
      /\ prev_recv_headers_' = [prev_recv_headers_ EXCEPT ![c] = ReceivedHeader]
      /\ wire' = Rest(wire, len)
      /\ readable' = readable - len
      /\ parsing' = (readable' > 0 /\ ~closed_')
      /\ UNCHANGED <<peerVars, state_>>
  BY <1>5, <1>a, <1>f DEF ParseChunk, Filled, Chunk, Rest
<1>7. /\ packets_' = [packets_ EXCEPT ![c] = IF all THEN NoPacket ELSE Filled]
      /\ delivered' = IF all THEN [delivered EXCEPT ![c] = Append(@, Filled)] ELSE delivered
      /\ r_chunk_size_' = IF m.kind = "SetChunkSize" /\ all THEN m.size ELSE r_chunk_size_
  <2>1. packets_' = [packets_ EXCEPT ![c] = IF all THEN NoPacket ELSE Filled]
    BY <1>5, <1>6 DEF Unfinished
  <2>2. delivered' = IF all THEN [delivered EXCEPT ![c] = Append(@, Filled)] ELSE delivered
    BY <1>6, <1>a DEF ParseAssembledMessage
  <2>3. r_chunk_size_' = IF m.kind = "SetChunkSize" /\ all THEN m.size ELSE r_chunk_size_
    <3>1. CASE all /\ m.kind = "SetChunkSize"
      <4>1. ParseSetChunkSize(Filled) = m.size
        BY <1>0, <1>2, <1>3, <1>4, <1>a, <1>b, <1>c, <1>e, <1>g, <3>1, AtSetChunkSize
      <4>. QED BY <1>2, <1>4, <1>6, <3>1, <4>1 DEF ParseAssembledMessage
    <3>2. CASE all /\ m.kind # "SetChunkSize"
      BY <1>2, <1>4, <1>6, <3>2 DEF ParseAssembledMessage
    <3>3. CASE ~all
      BY <1>6, <3>3
    <3>. QED BY <3>1, <3>2, <3>3
  <2>. QED BY <2>1, <2>2, <2>3
<1>8. /\ wire' \in Seq(WireByte) /\ Len(wire') = Len(wire) - len
  <2>1. len \in 0 .. Len(wire)
    BY <1>0, <1>2, <1>3
  <2>. QED BY <1>0, <1>6, <2>1, RestIs
<1>9. /\ readable' \in Nat /\ readable' <= Len(wire')
      /\ (parsing' => readable' > 0) /\ parsing' \in BOOLEAN
  <2>1. readable' \in Nat /\ readable' <= Len(wire')
    BY <1>0, <1>2, <1>3, <1>6, <1>8
  <2>2. parsing' => readable' > 0
    BY <1>6, Zenon
  <2>3. parsing' \in BOOLEAN
    BY <1>6
  <2>. QED BY <2>1, <2>2, <2>3
<1>10. TypeInv'
  <2>1. /\ packets_' \in [Csids -> Received \cup {NoPacket}]
        /\ prev_recv_headers_' \in [Csids -> MessageHeader \cup {NoHeader}]
        /\ r_chunk_size_' \in Nat \ {0}
    BY <1>0, <1>2, <1>4, <1>6, <1>7 DEF TypeInv
  <2>2. delivered' \in [Csids -> Seq(Received)]
    <3>1. delivered \in [Csids -> Seq(Received)]
      BY <1>0 DEF TypeInv
    <3>2. CASE all
      BY <1>4, <1>7, <3>1, <3>2
    <3>3. CASE ~all
      BY <1>7, <3>1, <3>3
    <3>. QED BY <3>2, <3>3
  <2>. QED BY <1>0, <1>6, <1>8, <1>9, <2>1, <2>2 DEF TypeInv, peerVars
<1>11. /\ packets_'[c] = IF all THEN NoPacket ELSE Filled
       /\ prev_recv_headers_'[c] = Header(m)
       /\ delivered'[c] = IF all THEN Append(delivered[c], Filled) ELSE delivered[c]
       /\ Expected(c)' = IF all THEN n + 1 ELSE n
       /\ ParserDone(c)' = IF all THEN 0 ELSE from + ChunkLen
  <2>1. /\ packets_'[c] = IF all THEN NoPacket ELSE Filled
        /\ prev_recv_headers_'[c] = Header(m)
        /\ delivered'[c] = IF all THEN Append(delivered[c], Filled) ELSE delivered[c]
    BY <1>0, <1>1, <1>6, <1>7 DEF TypeInv
  <2>2. delivered[c] \in Seq(Received)
    BY <1>0, <1>1 DEF TypeInv
  <2>3. Expected(c)' = IF all THEN n + 1 ELSE n
    <3>1. Expected(c)' = Len(delivered'[c]) + 1 /\ n = Len(delivered[c]) + 1
      BY <1>b DEF Expected
    <3>2. Len(Append(delivered[c], Filled)) = Len(delivered[c]) + 1
      BY <1>4, <2>2
    <3>. QED BY <2>1, <3>1, <3>2
  <2>4. ParserDone(c)' = IF all THEN 0 ELSE from + ChunkLen
    <3>1. ParserDone(c)' = IF packets_'[c] = NoPacket THEN 0 ELSE Len(packets_'[c].data)
      BY DEF ParserDone
    <3>. QED BY <1>4, <2>1, <3>1
  <2>. QED BY <2>1, <2>3, <2>4
<1>12. ASSUME NEW d \in Csids, d # c
       PROVE  /\ packets_'[d] = packets_[d] /\ prev_recv_headers_'[d] = prev_recv_headers_[d]
              /\ delivered'[d] = delivered[d]
              /\ Expected(d)' = Expected(d) /\ ParserDone(d)' = ParserDone(d)
  <2>1. /\ packets_'[d] = packets_[d] /\ prev_recv_headers_'[d] = prev_recv_headers_[d]
        /\ delivered'[d] = delivered[d]
    BY <1>0, <1>6, <1>7, <1>12 DEF TypeInv
  <2>. QED BY <2>1 DEF Expected, ParserDone
<1>13. Leads(wire', sent', ParserStage', PeerStage')
  <2>1. ParserAt /\ ParserAt' /\ PeerAt /\ PeerAt'
    BY <1>0, <1>10, ParserStageIs, PeerStageIs, StagesNext DEF ParserAt, PeerAt
  <2>2. Start = 0 /\ Start' = 0
    BY <1>0, <1>6 DEF Start, peerVars
  <2>3. ParserStage \in Stage /\ ParserStage.at = 0 /\ PeerStage \in Stage
        /\ ParserStage.size = r_chunk_size_ /\ PeerStage.at = Len(wire)
        /\ ParserStage.number[c] = n /\ ParserStage.done[c] = from
    BY <1>b, <1>d, <2>1, <2>2 DEF ParserAt, PeerAt
  <2>4. /\ ChunkAt(wire, sent, ParserStage, y) /\ Leads(wire, sent, y, PeerStage)
        /\ First.csid = c
    BY <1>0, <1>a, AtChunk DEF Csid
  <2>5. Allowed(sent, ParserStage, c, First.fmt)
    BY <2>3, <2>4 DEF ChunkAt, ChunkOf, First
  <2>6. y \in Stage
    BY <1>0, <1>1, <1>a, <2>3, <2>5, AfterIs
  <2>7. /\ y.at = len
        /\ y.size = IF m.kind = "SetChunkSize" /\ all THEN m.size ELSE r_chunk_size_
        /\ y.number = IF all THEN [ParserStage.number EXCEPT ![c] = @ + 1] ELSE ParserStage.number
        /\ y.done = [ParserStage.done EXCEPT ![c] = IF all THEN 0 ELSE @ + ChunkLen]
    <3>1. y.at = 0 + InData + ChunkLen
      BY <1>1, <1>a, <2>3 DEF After, InData
    <3>2. y.at = len
      BY <1>1, <1>f, <3>1
    <3>. QED BY <1>1, <1>a, <1>c, <1>e, <1>g, <2>3, <3>2 DEF After
  <2>. HIDE DEF y
  <2>8. len \in 0 .. y.at /\ len \in 0 .. PeerStage.at
    BY <1>0, <1>2, <1>3, <2>3, <2>7
  <2>9. Leads(wire', sent, Back(y, len), Back(PeerStage, len))
    BY <1>0, <1>6, <2>3, <2>4, <2>6, <2>8, LeadsBack
  <2>10. Back(y, len) = ParserStage'
    <3>1. /\ Back(y, len) \in Stage /\ Back(y, len).at = y.at - len
          /\ Back(y, len).size = y.size /\ Back(y, len).number = y.number
          /\ Back(y, len).done = y.done
      BY <2>6, <2>8, BackIs
    <3>2. Back(y, len).at = ParserStage'.at /\ Back(y, len).size = ParserStage'.size
      BY <1>2, <1>7, <2>1, <2>2, <2>7, <3>1 DEF ParserAt
    <3>3. ASSUME NEW d \in Csids
          PROVE  y.number[d] = ParserStage'.number[d] /\ y.done[d] = ParserStage'.done[d]
      <4>0. ParserStage.number \in [Csids -> Nat] /\ ParserStage.done \in [Csids -> Nat]
        BY <2>3 DEF Stage
      <4>1. CASE d = c
        <5>1. ParserStage'.number[d] = Expected(c)' /\ ParserStage'.done[d] = ParserDone(c)'
          BY <2>1, <4>1 DEF ParserAt
        <5>. QED BY <1>11, <2>3, <2>7, <4>0, <4>1, <5>1
      <4>2. CASE d # c
        <5>1. /\ ParserStage'.number[d] = Expected(d)' /\ ParserStage'.done[d] = ParserDone(d)'
              /\ ParserStage.number[d] = Expected(d) /\ ParserStage.done[d] = ParserDone(d)
          BY <2>1 DEF ParserAt
        <5>. QED BY <1>12, <2>7, <4>0, <4>2, <5>1
      <4>. QED BY <4>1, <4>2
    <3>4. ParserStage' \in Stage
      BY <2>1 DEF ParserAt
    <3>. QED BY <3>1, <3>2, <3>3, <3>4, SameStage
  <2>11. Back(PeerStage, len) = PeerStage'
    <3>1. /\ Back(PeerStage, len) \in Stage /\ Back(PeerStage, len).at = PeerStage.at - len
          /\ Back(PeerStage, len).size = PeerStage.size
          /\ Back(PeerStage, len).number = PeerStage.number
          /\ Back(PeerStage, len).done = PeerStage.done
      BY <2>3, <2>8, BackIs
    <3>2. \A d \in Csids : Complete(d)' = Complete(d) /\ Begun(d)' = Begun(d)
      BY <1>6 DEF Complete, Begun, peerVars
    <3>. QED BY <1>6, <1>8, <2>1, <3>1, <3>2, SameStage DEF PeerAt, peerVars
  <2>12. sent' = sent
    BY <1>6 DEF peerVars
  <2>. QED BY <2>9, <2>10, <2>11, <2>12
<1>14. GreetedInv' /\ ReadableInv' /\ ProgressInv'
  <2>1. greeted
    <3>. SUFFICES ASSUME ~greeted PROVE FALSE
      OBVIOUS
    <3>1. Begun(c) = 0
      BY <1>1 DEF ParseInv, GreetedInv, Begun
    <3>. QED BY <1>1, <3>1
  <2>2. GreetedInv'
    BY <1>0, <1>6, <2>1 DEF GreetedInv, peerVars
  <2>3. ReadableInv'
    BY <1>9 DEF ReadableInv
  <2>4. ProgressInv'
    BY <1>6 DEF ParseInv, ProgressInv, Begun, peerVars
  <2>. QED BY <2>2, <2>3, <2>4
<1>15. PacketInv'
  <2>. SUFFICES ASSUME NEW d \in Csids PROVE PacketOf(d)'
    BY DEF PacketInv
  <2>0. sent' = sent /\ Begun(d)' = Begun(d) /\ m = sent[c][n]
    BY <1>6, <1>c DEF peerVars, Begun
  <2>1. CASE d = c /\ all
    BY <1>1, <1>2, <1>11, <2>0, <2>1 DEF PacketOf
  <2>2. CASE d = c /\ ~all
    <3>1. Partly(d, Expected(d), ParserDone(d))' = Partly(c, n, from + ChunkLen)
      BY <1>11, <2>0, <2>2 DEF Partly
    <3>. QED BY <1>1, <1>2, <1>4, <1>11, <2>0, <2>2, <3>1 DEF PacketOf
  <2>3. CASE d # c
    <3>1. PacketOf(d)
      BY DEF ParseInv, PacketInv
    <3>2. Partly(d, Expected(d), ParserDone(d))' = Partly(d, Expected(d), ParserDone(d))
      BY <1>12, <2>0, <2>3 DEF Partly
    <3>. QED BY <1>12, <2>0, <2>3, <3>1, <3>2 DEF PacketOf
  <2>. QED BY <2>1, <2>2, <2>3
<1>16. Reassembled'
  <2>. SUFFICES ASSUME NEW d \in Csids, NEW i \in DOMAIN delivered'[d]
                PROVE  /\ i <= Begun(d)'
                       /\ delivered'[d][i] = [header |-> Header(sent'[d][i]),
                                              data   |-> Payload(d, i, 0, sent'[d][i].len)]
    BY Zenon DEF Reassembled
  <2>0. sent' = sent /\ Begun(d)' = Begun(d) /\ m = sent[c][n]
    BY <1>6, <1>c DEF peerVars, Begun
  <2>1. ASSUME i \in DOMAIN delivered[d], delivered'[d][i] = delivered[d][i]
        PROVE  /\ i <= Begun(d)'
               /\ delivered'[d][i] = [header |-> Header(sent'[d][i]),
                                      data   |-> Payload(d, i, 0, sent'[d][i].len)]
    BY <2>0, <2>1 DEF ParseInv, Reassembled
  <2>2. CASE d # c \/ ~all
    <3>1. delivered'[d] = delivered[d]
      BY <1>11, <1>12, <2>2
    <3>. QED BY <2>1, <3>1
  <2>3. CASE d = c /\ all
    <3>1. delivered[c] \in Seq(Received) /\ delivered'[c] = Append(delivered[c], Filled)
          /\ n = Len(delivered[c]) + 1
      BY <1>0, <1>1, <1>11, <1>b, <2>3 DEF TypeInv, Expected
    <3>2. /\ i \in 1 .. n /\ (i # n => i \in DOMAIN delivered[c])
          /\ delivered'[c][n] = Filled
          /\ \A j \in 1 .. Len(delivered[c]) : delivered'[c][j] = delivered[c][j]
      BY <1>4, <2>3, <3>1, AppendProperties
    <3>3. CASE i = n
      <4>1. from + ChunkLen = m.len
        BY <1>1, <1>2, <1>g, <2>3
      <4>. QED BY <1>1, <1>4, <2>0, <2>3, <3>2, <3>3, <4>1 DEF Partly
    <3>4. CASE i # n
      BY <2>1, <2>3, <3>1, <3>2, <3>4
    <3>. QED BY <3>3, <3>4
  <2>. QED BY <2>2, <2>3
<1>. QED BY <1>10, <1>13, <1>14, <1>15, <1>16 DEF ParseInv

-----------------------------------------------------------------------------

\* C2 comes when everything before it is the handshake.
LEMMA PeerC2Step ==
  ASSUME ParseInv, PeerC2
  PROVE  ParseInv'
<1>0. /\ TypeInv /\ ~greeted /\ state_ # "WaitC0" /\ greeted' = TRUE
      /\ wire' = wire \o Fill(HandshakeSize, "C2")
      /\ UNCHANGED <<sent, progress, peer_chunk_size, readable, state_, contextVars, parsing>>
      /\ wire \in Seq(WireByte) /\ Len(wire) \in Nat /\ readable \in Nat /\ readable <= Len(wire)
      /\ HandshakeSize \in Nat
      /\ ParserStage = PeerStage
  BY LenIs, ChunkParseAssumption DEF PeerC2, ParseInv, TypeInv, ReadableInv, GreetedInv
<1>1. wire' \in Seq(WireByte) /\ Len(wire') = Len(wire) + HandshakeSize
  <2>. DEFINE f == Fill(HandshakeSize, "C2")
  <2>1. f \in Seq(WireByte) /\ Len(f) = HandshakeSize
    BY <1>0 DEF Fill, WireByte
  <2>2. wire' = wire \o f
    BY <1>0
  <2>. HIDE DEF f
  <2>. QED BY <1>0, <2>1, <2>2, ConcatProperties
<1>2. TypeInv'
  BY <1>0, <1>1 DEF TypeInv, contextVars
<1>3. ParserStage' = PeerStage'
  <2>1. ParserAt /\ ParserAt' /\ PeerAt /\ PeerAt'
    BY <1>0, <1>2, ParserStageIs, PeerStageIs, StagesNext DEF ParserAt, PeerAt
  <2>2. state_ # "control"
    <3>. SUFFICES ASSUME state_ = "control" PROVE FALSE
      OBVIOUS
    <3>. QED BY <1>0 DEF ParseInv, GreetedInv
  <2>3. Start' = Start + HandshakeSize
    BY <1>0, <2>2 DEF Start
  <2>4. \A d \in Csids : /\ Expected(d)' = Expected(d) /\ ParserDone(d)' = ParserDone(d)
                         /\ Begun(d)' = Begun(d) /\ Complete(d)' = Complete(d)
    BY <1>0 DEF Expected, ParserDone, Begun, Complete, contextVars
  <2>5. /\ Start = Len(wire) /\ r_chunk_size_ = peer_chunk_size
        /\ \A d \in Csids :
             /\ Expected(d) = IF Complete(d) THEN Begun(d) + 1 ELSE Begun(d)
             /\ ParserDone(d) = IF Complete(d) THEN 0 ELSE progress[d]
    BY <1>0, <2>1 DEF ParserAt, PeerAt
  <2>6. /\ ParserStage'.at = PeerStage'.at /\ ParserStage'.size = PeerStage'.size
        /\ \A d \in Csids : /\ ParserStage'.number[d] = PeerStage'.number[d]
                              /\ ParserStage'.done[d] = PeerStage'.done[d]
    BY <1>0, <1>1, <2>1, <2>3, <2>4, <2>5 DEF ParserAt, PeerAt, contextVars
  <2>7. ParserStage' \in Stage /\ PeerStage' \in Stage
    BY <2>1 DEF ParserAt, PeerAt
  <2>. QED BY <2>6, <2>7, SameStage
<1>4. Leads(wire', sent', ParserStage', PeerStage')
  <2>1. PeerStage' \in Stage
    BY <1>2, StagesNext DEF PeerAt
  <2>. QED BY <1>3, <2>1, LeadsNowhere
<1>5. PacketInv' /\ Reassembled'
  <2>1. sent' \in SentType
    BY <1>2 DEF TypeInv, SentType
  <2>2. LaterSent(sent, sent')
    <3>1. \A d \in Csids : Len(sent[d]) \in Nat
      BY <1>0, LenIs DEF TypeInv
    <3>. QED BY <1>0, <3>1 DEF LaterSent, Longer
  <2>. QED BY <1>0, <2>1, <2>2, LaterReceived DEF ParseInv
<1>6. GreetedInv' /\ ReadableInv' /\ ProgressInv'
  <2>1. GreetedInv'
    BY <1>0 DEF GreetedInv
  <2>2. ReadableInv'
    BY <1>0, <1>1 DEF ParseInv, ReadableInv
  <2>3. ProgressInv'
    BY <1>0 DEF ParseInv, ProgressInv, Begun
  <2>. QED BY <2>1, <2>2, <2>3
<1>. QED BY <1>2, <1>4, <1>5, <1>6 DEF ParseInv

\* The invariant is inductive.
LEMMA ParseStepInv == ParseInv /\ [Next]_vars => ParseInv'
<1>. SUFFICES ASSUME ParseInv, [Next]_vars PROVE ParseInv'
  OBVIOUS
<1>0. CASE UNCHANGED vars
  <2>1. readable \in Nat /\ readable <= Len(wire) /\ parsing \in BOOLEAN
        /\ (parsing => readable > 0)
    BY DEF ParseInv, TypeInv, ReadableInv
  <2>. QED BY <1>0, <2>1, Idle DEF vars
<1>1. CASE PeerC2
  BY <1>1, PeerC2Step
<1>2. ASSUME NEW c \in Csids, NEW msg \in Messages, NEW fmt \in 0 .. 3, PeerBegin(c, msg, fmt)
      PROVE  ParseInv'
  BY <1>2, PeerBeginStep
<1>3. ASSUME NEW c \in Csids, PeerContinue(c) PROVE ParseInv'
  BY <1>3, PeerContinueStep
<1>4. CASE OnRead
  BY <1>4, OnReadStep
<1>5. CASE OnC0
  BY <1>5, OnC0Step
<1>6. CASE OnC1
  BY <1>6, OnC1Step
<1>7. CASE OnC2
  BY <1>7, OnC2Step
<1>8. CASE ParseHeaderWait
  BY <1>8, ParseHeaderWaitStep
<1>9. CASE ParseChunkWait
  BY <1>9, ParseChunkWaitStep
<1>10. CASE ParseChunk
  BY <1>10, ParseChunkStep
<1>. QED
  BY <1>0, <1>1, <1>2, <1>3, <1>4, <1>5, <1>6, <1>7, <1>8, <1>9, <1>10 DEF Next, ParseStep

\* Wherever TCP cuts the stream, whatever the chunk sizes and however the chunks
\* of the chunk streams lie between each other, ParseMessage begins at the first
\* byte of a chunk (SsmsRtmpMessageContext.cpp:188).
THEOREM StaysInStep == Spec => []InStep
<1>1. ParseInv => InStep
  <2>. SUFFICES ASSUME ParseInv, InParse("control") PROVE First.kind = "header"
    BY DEF InStep
  <2>. QED BY AtChunk DEF HeaderByte
<1>. QED BY ParseInit, ParseStepInv, <1>1, PTL DEF Spec

\* What ParseAssembledMessage gets is what the peer sent: each message with its
\* own header and all of its own bytes, in the order of its chunk stream.
THEOREM MessagesReassembled == Spec => []Reassembled
<1>1. ParseInv => Reassembled
  BY DEF ParseInv
<1>. QED BY ParseInit, ParseStepInv, <1>1, PTL DEF Spec

=============================================================================
