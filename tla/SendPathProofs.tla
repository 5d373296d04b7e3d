--------------------------- MODULE SendPathProofs ---------------------------
(***************************************************************************)
(* What holds of sending_, of the write event and of the bytes on their    *)
(* way to the socket, for every size of the array, every packet and every  *)
(* number of activations.                                                  *)
(***************************************************************************)
EXTENDS SendPath, TLAPS, WellFoundedInduction

(* The room of sending_.  Fits looks at the worst case of the headers, so    *)
(* the header bytes BuildChunk really lays down are bounded by what Fits has *)
(* added up; the bound is a product, which needs a step of its own.          *)

\* BuildChunk reads its packet from out_packet_: its chunks are known only if
\* the list holds packets.
RoomInv ==
  /\ sending_curr_ \in Nat
  /\ out_packet_ \in Seq(Packets)
  /\ HeadersFit

\* The later headers of a packet take at most what Fits reserves for them.
LEMMA LaterHeaders ==
  ASSUME NEW n \in Nat, NEW next \in 1 .. NextMax
  PROVE  n * next \in Nat /\ n * next <= n * NextMax
<1>1. NextMax \in Nat /\ next \in Nat /\ next <= NextMax
  BY SendPathAssumption
<1>2. PICK d \in Nat : NextMax = next + d
  <2>1. NextMax - next \in Nat /\ NextMax = next + (NextMax - next)
    BY <1>1
  <2>. QED BY <2>1
<1>3. n * NextMax = n * next + n * d
  BY <1>1, <1>2
<1>4. n * d \in Nat /\ n * next \in Nat
  BY <1>1, <1>2
<1>. QED BY <1>3, <1>4

\* What BuildChunk adds leaves room in sending_ if the packet fits.
LEMMA BuildChunkRoom ==
  ASSUME sending_curr_ \in Nat, NEW pkt \in Packets, Fits(pkt), BuildChunk(pkt)
  PROVE  sending_curr_' \in Nat /\ sending_curr_' < SendingSize
<1>. DEFINE later == IF Chunks[pkt] > 1 THEN Chunks[pkt] - 1 ELSE 0
<1>1. /\ Chunks[pkt] \in Nat /\ later \in Nat
      /\ FirstMax \in Nat /\ NextMax \in Nat /\ SendingSize \in Nat
  BY SendPathAssumption
<1>2. PICK first \in FirstSizes, next \in NextSizes :
        sending_curr_' = sending_curr_ + first
                         + IF Chunks[pkt] > 1 THEN (Chunks[pkt] - 1) * next ELSE 0
  BY DEF BuildChunk
<1>3. first \in 1 .. FirstMax /\ next \in 1 .. NextMax
  BY SendPathAssumption
<1>4. /\ later * next \in Nat
      /\ later * next <= later * NextMax
      /\ later * NextMax \in Nat
  <2>. HIDE DEF later
  <2>. QED BY <1>1, <1>3, LaterHeaders
<1>5. sending_curr_' = sending_curr_ + first + later * next
  BY <1>1, <1>2, <1>3
<1>6. sending_curr_ + FirstMax + later * NextMax < SendingSize
  BY DEF Fits
<1>. HIDE DEF later
<1>. QED BY <1>1, <1>3, <1>4, <1>5, <1>6

LEMMA RoomInit == Init => RoomInv
  BY SendPathAssumption DEF Init, RoomInv, HeadersFit

LEMMA RoomStep == RoomInv /\ [Next]_vars => RoomInv'
<1>. SUFFICES ASSUME RoomInv, [Next]_vars PROVE RoomInv'
  OBVIOUS
<1>. USE SendPathAssumption DEF RoomInv, HeadersFit, contextVars, clientVars, connVars
<1>0. CASE UNCHANGED vars
  BY <1>0 DEF vars
<1>1. ASSUME NEW pkt \in Packets, PostMessage(pkt) PROVE RoomInv'
  <2>1. UNCHANGED out_packet_
    BY <1>1 DEF PostMessage
  <2>2. CASE Fits(pkt)
    <3>1. BuildChunk(pkt)
      BY <1>1, <2>2 DEF PostMessage
    <3>. QED BY <2>1, <2>2, <3>1, BuildChunkRoom
  <2>3. CASE ~Fits(pkt)
    BY <1>1, <2>1, <2>3 DEF PostMessage
  <2>. QED BY <2>2, <2>3
<1>2. ASSUME NEW pkt \in Packets, PlayHeader(pkt) PROVE RoomInv'
  <2>1. UNCHANGED out_packet_
    BY <1>2 DEF PlayHeader
  <2>2. CASE Fits(pkt)
    <3>1. BuildChunk(pkt)
      BY <1>2, <2>2 DEF PlayHeader
    <3>. QED BY <2>1, <2>2, <3>1, BuildChunkRoom
  <2>3. CASE ~Fits(pkt)
    BY <1>2, <2>1, <2>3 DEF PlayHeader
  <2>. QED BY <2>2, <2>3
<1>3. CASE Active
  BY <1>3 DEF Active
<1>4. CASE Play
  <2>1. UNCHANGED sending_curr_
    BY <1>4 DEF Play
  <2>2. \/ UNCHANGED out_packet_
        \/ \E n \in 0 .. MaxBatch : out_packet_' \in [1 .. n -> Packets]
    BY <1>4 DEF Play
  <2>3. ASSUME NEW n \in 0 .. MaxBatch, out_packet_' \in [1 .. n -> Packets]
        PROVE  out_packet_' \in Seq(Packets)
    BY <2>3
  <2>. QED BY <2>1, <2>2, <2>3
<1>5. CASE PlayPacket
  <2>. DEFINE pkt == Head(out_packet_)
  <2>1. /\ out_packet_ # <<>> /\ Fits(pkt) /\ BuildChunk(pkt)
        /\ out_packet_' = Tail(out_packet_)
    BY <1>5 DEF PlayPacket
  <2>2. pkt \in Packets /\ out_packet_' \in Seq(Packets)
    BY <2>1
  <2>. HIDE DEF pkt
  <2>. QED BY <2>1, <2>2, BuildChunkRoom
<1>6. CASE PlaySend
  BY <1>6 DEF PlaySend
<1>7. CASE SendNodesWrite
  BY <1>7 DEF SendNodesWrite
<1>8. CASE SendNodesBlocked
  BY <1>8 DEF SendNodesBlocked
<1>9. CASE SendNodesDone
  BY <1>9 DEF SendNodesDone, ClearSendCompleteData
<1>10. CASE OnWrite
  BY <1>10 DEF OnWrite
<1>11. CASE OnWriteWrite
  BY <1>11 DEF OnWriteWrite
<1>12. CASE OnWriteBlocked
  BY <1>12 DEF OnWriteBlocked
<1>13. CASE OnWriteDone
  BY <1>13 DEF OnWriteDone, ClearSendCompleteData
<1>14. CASE Handshake
  BY <1>14 DEF Handshake
<1>15. CASE OnClose
  BY <1>15 DEF OnClose
<1>. QED
  BY <1>0, <1>1, <1>2, <1>3, <1>4, <1>5, <1>6, <1>7, <1>8, <1>9, <1>10,
     <1>11, <1>12, <1>13, <1>14, <1>15
  DEF Next, PlayStep, SendingStep

\* The headers of all the packets of all the activations that share sending_
\* end before the array does, whatever the packets' sizes: the test at the top
\* of BuildChunk is enough (SsmsRtmpMessageContext.cpp:654).
THEOREM RoomOfSending == Spec => []HeadersFit
<1>1. RoomInv => HeadersFit
  BY DEF RoomInv
<1>. QED BY RoomInit, RoomStep, <1>1, PTL DEF Spec

-----------------------------------------------------------------------------
(* EPOLLOUT.  Three places queue bytes (SendNodes, the handshake's           *)
(* OnSendPkt, and what a partial write leaves), two turn the event on and    *)
(* one off; the invariant is the property itself, which is inductive.        *)

LEMMA WriteArmedStep == WriteArmed /\ [Next]_vars => WriteArmed'
<1>. SUFFICES ASSUME WriteArmed, [Next]_vars PROVE WriteArmed'
  OBVIOUS
<1>. USE DEF WriteArmed, contextVars, clientVars, connVars
<1>0. CASE UNCHANGED vars
  BY <1>0 DEF vars
<1>1. ASSUME NEW pkt \in Packets, PostMessage(pkt) PROVE WriteArmed'
  BY <1>1 DEF PostMessage, SendNodes
<1>2. ASSUME NEW pkt \in Packets, PlayHeader(pkt) PROVE WriteArmed'
  BY <1>2 DEF PlayHeader
<1>3. CASE Active
  BY <1>3 DEF Active
<1>4. CASE Play
  BY <1>4 DEF Play
<1>5. CASE PlayPacket
  BY <1>5 DEF PlayPacket
<1>6. CASE PlaySend
  BY <1>6 DEF PlaySend, SendNodes
<1>7. CASE SendNodesWrite
  BY <1>7 DEF SendNodesWrite
<1>8. CASE SendNodesBlocked
  BY <1>8 DEF SendNodesBlocked
<1>9. CASE SendNodesDone
  BY <1>9 DEF SendNodesDone, ClearSendCompleteData
<1>10. CASE OnWrite
  BY <1>10 DEF OnWrite
<1>11. CASE OnWriteWrite
  BY <1>11 DEF OnWriteWrite
<1>12. CASE OnWriteBlocked
  BY <1>12 DEF OnWriteBlocked
<1>13. CASE OnWriteDone
  BY <1>13 DEF OnWriteDone, ClearSendCompleteData
<1>14. CASE Handshake
  <2>1. ASSUME NEW size, OnSendPkt(size)
        PROVE  UNCHANGED <<iovecs_, write_event>> \/ write_event' = TRUE
    BY <2>1, Zenon DEF OnSendPkt
  <2>2. UNCHANGED <<iovecs_, write_event>> \/ write_event' = TRUE
    BY <1>14, <2>1, Zenon DEF Handshake
  <2>3. phase = "idle" /\ UNCHANGED <<closed_, phase>>
    BY <1>14 DEF Handshake
  <2>. QED BY <2>2, <2>3, Zenon
<1>15. CASE OnClose
  BY <1>15 DEF OnClose
<1>. QED
  BY <1>0, <1>1, <1>2, <1>3, <1>4, <1>5, <1>6, <1>7, <1>8, <1>9, <1>10,
     <1>11, <1>12, <1>13, <1>14, <1>15
  DEF Next, PlayStep, SendingStep

\* Bytes that the socket did not take are never left without the event that
\* would send them, wherever a write stopped: in SendNodes, in OnWrite or in
\* the handshake.
THEOREM WaitingIsArmed == Spec => []WriteArmed
<1>1. Init => WriteArmed
  BY DEF Init, WriteArmed
<1>. QED BY <1>1, WriteArmedStep, PTL DEF Spec

-----------------------------------------------------------------------------
(* Induction.  The size of a queue and the bytes it stands for are recursive *)
(* functions.  That an interval is covered from its start is shown by the    *)
(* least number that is not, and that such a function exists, at all and     *)
(* with the values its definition gives, by covering 0 .. N.                 *)

\* A set of numbers has a least one.
LEMMA LeastNat ==
  ASSUME NEW T, T \subseteq Nat, T # {}
  PROVE  \E m \in T : \A x \in T : m <= x
<1>1. PICK m \in T : \A y \in T : ~(<<y, m>> \in OpToRel(<, Nat))
  BY NatLessThanWellFounded, WFMin
<1>2. ASSUME NEW y \in T PROVE m <= y
  <2>1. <<y, m>> \in Nat \X Nat
    OBVIOUS
  <2>2. ~(y < m)
    BY <1>1, <2>1 DEF OpToRel
  <2>. QED BY <2>2
<1>. QED BY <1>2

\* What holds of 0 and of each number after one of which it holds, holds of all.
LEMMA IntervalInduction ==
  ASSUME NEW N \in Nat, NEW T, 0 \in T, \A i \in 1 .. N : i - 1 \in T => i \in T
  PROVE  0 .. N \subseteq T
<1>. SUFFICES ASSUME ~(0 .. N \subseteq T) PROVE FALSE
  OBVIOUS
<1>. DEFINE Out == {i \in 0 .. N : i \notin T}
<1>1. Out \subseteq Nat /\ Out # {}
  OBVIOUS
<1>2. PICK m \in Out : \A x \in Out : m <= x
  <2>. HIDE DEF Out
  <2>. QED BY <1>1, LeastNat
<1>3. m \in 1 .. N /\ m \notin T
  OBVIOUS
<1>4. m - 1 \in 0 .. N /\ m - 1 \notin Out
  BY <1>2, <1>3
<1>. QED BY <1>3, <1>4

\* A function on 0 .. N that starts with x and goes on as F says.
Recursion(S, x, N, F) ==
  \E f \in [0 .. N -> S] : f[0] = x /\ \A i \in 1 .. N : f[i] = F[i][f[i - 1]]

\* There is one, whatever the step: what the definition of a recursive function
\* chooses is there to be chosen.
LEMMA RecursionExists ==
  ASSUME NEW S, NEW x \in S, NEW N \in Nat, NEW F \in [1 .. N -> [S -> S]]
  PROVE  Recursion(S, x, N, F)
<1>. DEFINE Upto(n, f) == f[0] = x /\ \A i \in 1 .. n : f[i] = F[i][f[i - 1]]
            T == {n \in 0 .. N : \E f \in [0 .. n -> S] : Upto(n, f)}
<1>1. 0 \in T
  <2>. DEFINE g == [i \in 0 .. 0 |-> x]
  <2>1. g \in [0 .. 0 -> S] /\ Upto(0, g)
    OBVIOUS
  <2>. HIDE DEF g, Upto
  <2>2. \E f \in [0 .. 0 -> S] : Upto(0, f)
    BY <2>1
  <2>. QED BY <2>2
<1>2. ASSUME NEW n \in 1 .. N, n - 1 \in T PROVE n \in T
  <2>1. PICK f \in [0 .. n - 1 -> S] : Upto(n - 1, f)
    BY <1>2
  <2>. DEFINE g == [i \in 0 .. n |-> IF i = n THEN F[n][f[n - 1]] ELSE f[i]]
  <2>2. f[n - 1] \in S /\ F[n][f[n - 1]] \in S
    OBVIOUS
  <2>3. g \in [0 .. n -> S]
    BY <2>2
  <2>4. \A i \in 0 .. n - 1 : g[i] = f[i]
    OBVIOUS
  <2>5. g[n] = F[n][g[n - 1]]
    <3>1. n \in 0 .. n /\ n - 1 \in 0 .. n - 1
      OBVIOUS
    <3>2. g[n] = F[n][f[n - 1]]
      BY <3>1
    <3>3. g[n - 1] = f[n - 1]
      BY <2>4, <3>1
    <3>. HIDE DEF g
    <3>. QED BY <3>2, <3>3
  <2>6. Upto(n, g)
    <3>. HIDE DEF g
    <3>1. g[0] = x
      BY <2>1, <2>4
    <3>2. ASSUME NEW i \in 1 .. n PROVE g[i] = F[i][g[i - 1]]
      <4>1. CASE i = n
        BY <4>1, <2>5
      <4>2. CASE i # n
        <5>1. i \in 1 .. n - 1 /\ i - 1 \in 0 .. n - 1 /\ i \in 0 .. n - 1
          BY <4>2
        <5>. QED BY <5>1, <2>1, <2>4
      <4>. QED BY <4>1, <4>2
    <3>. QED BY <3>1, <3>2
  <2>. HIDE DEF g
  <2>. QED BY <2>3, <2>6, SMTT(30)
<1>3. N \in T
  <2>. HIDE DEF T
  <2>1. 0 .. N \subseteq T
    BY <1>1, <1>2, IntervalInduction
  <2>. QED BY <2>1
<1>. QED BY <1>3 DEF Recursion

-----------------------------------------------------------------------------
(* The bytes of a queue of iovecs.                                           *)

\* The bytes of the first i iovecs are those of the first i - 1 and its own.
LEMMA SizeRecursion ==
  ASSUME NEW q \in Seq(Iovec)
  PROVE  /\ SizeUpTo(q, 0) = 0
         /\ \A i \in 1 .. Len(q) : SizeUpTo(q, i) = SizeUpTo(q, i - 1) + q[i].len
         /\ \A i \in 0 .. Len(q) : SizeUpTo(q, i) \in Nat
<1>. DEFINE N == Len(q)
            F == [i \in 1 .. N |-> [s \in Nat |-> s + q[i].len]]
            G(f) == [i \in 0 .. N |-> IF i = 0 THEN 0 ELSE f[i - 1] + q[i].len]
            size == CHOOSE f : f = G(f)
<1>1. N \in Nat /\ \A i \in 1 .. N : q[i].len \in Nat
  <2>1. Len(q) \in Nat /\ \A i \in 1 .. Len(q) : q[i] \in Iovec
    OBVIOUS
  <2>. QED BY <2>1 DEF Iovec
<1>2. F \in [1 .. N -> [Nat -> Nat]]
  BY <1>1
<1>3. PICK f \in [0 .. N -> Nat] : f[0] = 0 /\ \A i \in 1 .. N : f[i] = F[i][f[i - 1]]
  <2>. HIDE DEF F, N
  <2>1. 0 \in Nat
    OBVIOUS
  <2>2. Recursion(Nat, 0, N, F)
    BY <1>1, <1>2, <2>1, RecursionExists
  <2>. QED BY <2>2 DEF Recursion
<1>4. f = G(f)
  <2>1. \A i \in 1 .. N : f[i] = f[i - 1] + q[i].len
    <3>1. \A i \in 1 .. N : i - 1 \in 0 .. N /\ f[i - 1] \in Nat
      BY <1>1
    <3>. QED BY <1>3, <3>1
  <2>2. f = [i \in 0 .. N |-> f[i]]
    OBVIOUS
  <2>3. \A i \in 0 .. N : f[i] = IF i = 0 THEN 0 ELSE f[i - 1] + q[i].len
    BY <1>1, <1>3, <2>1
  <2>. HIDE DEF F, N
  <2>. QED BY <2>2, <2>3, Zenon
<1>5. size = G(size)
  BY <1>4
<1>6. \A i \in 0 .. N : SizeUpTo(q, i) = size[i]
  BY DEF SizeUpTo
<1>7. size[0] = 0 /\ \A i \in 1 .. N : size[i] = size[i - 1] + q[i].len
  <2>. HIDE DEF size
  <2>. QED BY <1>1, <1>5
<1>8. \A i \in 0 .. N : size[i] \in Nat
  <2>. DEFINE T == {i \in 0 .. N : size[i] \in Nat}
  <2>. HIDE DEF size, F, G, N
  <2>1. 0 \in T
    BY <1>1, <1>7
  <2>2. ASSUME NEW i \in 1 .. N, i - 1 \in T PROVE i \in T
    <3>1. /\ size[i] = size[i - 1] + q[i].len
          /\ size[i - 1] \in Nat /\ q[i].len \in Nat
      BY <1>1, <1>7, <2>2
    <3>2. size[i] \in Nat
      BY ONLY <3>1
    <3>3. i \in 0 .. N
      BY <1>1
    <3>. QED BY <3>2, <3>3
  <2>. HIDE DEF T
  <2>3. 0 .. N \subseteq T
    BY <1>1, <2>1, <2>2, IntervalInduction
  <2>. QED BY <2>3 DEF T
<1>. HIDE DEF size
<1>9. \A i \in 1 .. N : i \in 0 .. N /\ i - 1 \in 0 .. N
  BY <1>1
<1>10. 0 \in 0 .. N
  BY <1>1
<1>. QED BY <1>6, <1>7, <1>8, <1>9, <1>10

ByteSeq == Seq(Memory \X Int)

\* Where the elements of two sequences are in their concatenation.
LEMMA Concatenation ==
  ASSUME NEW S, NEW s \in Seq(S), NEW r \in Seq(S)
  PROVE  /\ Len(s \o r) = Len(s) + Len(r)
         /\ \A n \in 1 .. Len(s) : (s \o r)[n] = s[n]
         /\ \A j \in 1 .. Len(r) : (s \o r)[Len(s) + j] = r[j]
  OBVIOUS

\* The same of two sequences of bytes.
LEMMA BytesJoined ==
  ASSUME NEW s \in ByteSeq, NEW r \in ByteSeq
  PROVE  /\ Len(s \o r) = Len(s) + Len(r)
         /\ \A n \in 1 .. Len(s) : (s \o r)[n] = s[n]
         /\ \A j \in 1 .. Len(r) : (s \o r)[Len(s) + j] = r[j]
<1>. DEFINE B == Memory \X Int
<1>1. s \in Seq(B) /\ r \in Seq(B)
  BY DEF ByteSeq
<1>. HIDE DEF B
<1>. QED BY <1>1, Concatenation

\* Where the elements of a sequence are when the first n are taken off.
LEMMA SubSeqAt ==
  ASSUME NEW S, NEW s \in Seq(S), NEW n \in Nat, n <= Len(s)
  PROVE  /\ SubSeq(s, n + 1, Len(s)) \in Seq(S)
         /\ Len(SubSeq(s, n + 1, Len(s))) = Len(s) - n
         /\ \A i \in 1 .. Len(s) - n : SubSeq(s, n + 1, Len(s))[i] = s[n + i]
<1>1. Len(SubSeq(s, n + 1, Len(s))) = Len(s) - n
  OBVIOUS
<1>2. ASSUME NEW i \in 1 .. Len(s) - n
      PROVE  SubSeq(s, n + 1, Len(s))[i] = s[n + i]
  <2>1. SubSeq(s, n + 1, Len(s))[i] = s[n + 1 + i - 1]
    BY <1>1
  <2>2. n + 1 + i - 1 = n + i
    OBVIOUS
  <2>. QED BY <2>1, <2>2
<1>. QED BY <1>1, <1>2

\* What a queue consists of.
LEMMA IovecType ==
  ASSUME NEW q \in Seq(Iovec)
  PROVE  /\ Len(q) \in Nat /\ DOMAIN q = 1 .. Len(q)
         /\ \A i \in 1 .. Len(q) : /\ q[i] \in Iovec
                                   /\ q[i].mem \in Memory
                                   /\ q[i].from \in Int
                                   /\ q[i].len \in Nat
<1>1. Len(q) \in Nat /\ DOMAIN q = 1 .. Len(q) /\ \A i \in 1 .. Len(q) : q[i] \in Iovec
  OBVIOUS
<1>. QED BY <1>1 DEF Iovec

\* The bytes of one iovec.
LEMMA BytesOfType ==
  ASSUME NEW v \in Iovec
  PROVE  /\ BytesOf(v) \in ByteSeq /\ Len(BytesOf(v)) = v.len
         /\ \A j \in 1 .. v.len : BytesOf(v)[j] = <<v.mem, v.from + j - 1>>
<1>1. v.mem \in Memory /\ v.from \in Int /\ v.len \in Nat
  BY DEF Iovec
<1>2. \A j \in 1 .. v.len : <<v.mem, v.from + j - 1>> \in Memory \X Int
  BY <1>1
<1>. HIDE DEF Memory
<1>3. BytesOf(v) \in [1 .. v.len -> Memory \X Int]
  BY <1>1, <1>2 DEF BytesOf
<1>4. \A j \in 1 .. v.len : BytesOf(v)[j] = <<v.mem, v.from + j - 1>>
  BY DEF BytesOf
<1>. QED BY <1>1, <1>3, <1>4 DEF ByteSeq

\* The bytes of the first i iovecs end with those of the i-th.
LEMMA BytesRecursion ==
  ASSUME NEW q \in Seq(Iovec)
  PROVE  /\ BytesUpTo(q, 0) = <<>>
         /\ \A i \in 1 .. Len(q) : BytesUpTo(q, i) = BytesUpTo(q, i - 1) \o BytesOf(q[i])
         /\ \A i \in 0 .. Len(q) : BytesUpTo(q, i) \in ByteSeq
<1>. DEFINE N == Len(q)
            F == [i \in 1 .. N |-> [s \in ByteSeq |-> s \o BytesOf(q[i])]]
            G(f) == [i \in 0 .. N |-> IF i = 0 THEN <<>> ELSE f[i - 1] \o BytesOf(q[i])]
            bytes == CHOOSE f : f = G(f)
<1>1. N \in Nat /\ \A i \in 1 .. N : BytesOf(q[i]) \in ByteSeq
  BY IovecType, BytesOfType
<1>2. \A s, r \in ByteSeq : s \o r \in ByteSeq
  BY DEF ByteSeq
<1>3. <<>> \in ByteSeq
  BY DEF ByteSeq
<1>4. F \in [1 .. N -> [ByteSeq -> ByteSeq]]
  BY <1>1, <1>2
<1>5. PICK f \in [0 .. N -> ByteSeq] : f[0] = <<>> /\ \A i \in 1 .. N : f[i] = F[i][f[i - 1]]
  <2>. HIDE DEF F, N
  <2>1. Recursion(ByteSeq, <<>>, N, F)
    BY <1>1, <1>3, <1>4, RecursionExists
  <2>. QED BY <2>1 DEF Recursion
<1>6. f = G(f)
  <2>1. \A i \in 1 .. N : f[i] = f[i - 1] \o BytesOf(q[i])
    <3>1. \A i \in 1 .. N : i - 1 \in 0 .. N /\ f[i - 1] \in ByteSeq
      BY <1>1
    <3>. QED BY <1>5, <3>1
  <2>2. f = [i \in 0 .. N |-> f[i]]
    OBVIOUS
  <2>3. \A i \in 0 .. N : f[i] = IF i = 0 THEN <<>> ELSE f[i - 1] \o BytesOf(q[i])
    BY <1>1, <1>5, <2>1
  <2>. HIDE DEF F, N
  <2>. QED BY <2>2, <2>3, Zenon
<1>7. bytes = G(bytes)
  BY <1>6
<1>8. \A i \in 0 .. N : BytesUpTo(q, i) = bytes[i]
  BY DEF BytesUpTo
<1>9. bytes[0] = <<>> /\ \A i \in 1 .. N : bytes[i] = bytes[i - 1] \o BytesOf(q[i])
  <2>. HIDE DEF bytes
  <2>. QED BY <1>1, <1>7
<1>10. \A i \in 0 .. N : bytes[i] \in ByteSeq
  <2>. DEFINE T == {i \in 0 .. N : bytes[i] \in ByteSeq}
  <2>. HIDE DEF bytes
  <2>1. 0 \in T /\ \A i \in 1 .. N : i - 1 \in T => i \in T
    BY <1>1, <1>2, <1>3, <1>9
  <2>. HIDE DEF T
  <2>2. 0 .. N \subseteq T
    BY <1>1, <2>1, IntervalInduction
  <2>. QED BY <2>2 DEF T
<1>. HIDE DEF bytes
<1>11. \A i \in 1 .. N : i \in 0 .. N /\ i - 1 \in 0 .. N
  BY <1>1
<1>12. 0 \in 0 .. N
  BY <1>1
<1>. QED BY <1>8, <1>9, <1>10, <1>11, <1>12

\* The place of each byte of an iovec among the bytes of the queue.
LEMMA BytesPlace ==
  ASSUME NEW q \in Seq(Iovec)
  PROVE  \A i \in 0 .. Len(q) :
           /\ Len(BytesUpTo(q, i)) = SizeUpTo(q, i)
           /\ \A k \in 1 .. i : \A j \in 1 .. q[k].len :
                /\ SizeUpTo(q, k - 1) + j \in 1 .. SizeUpTo(q, i)
                /\ BytesUpTo(q, i)[SizeUpTo(q, k - 1) + j] = <<q[k].mem, q[k].from + j - 1>>
<1>. DEFINE N == Len(q)
            S(i) == SizeUpTo(q, i)
            B(i) == BytesUpTo(q, i)
            Placed(i) == /\ Len(B(i)) = S(i)
                         /\ \A k \in 1 .. i : \A j \in 1 .. q[k].len :
                              /\ S(k - 1) + j \in 1 .. S(i)
                              /\ B(i)[S(k - 1) + j] = <<q[k].mem, q[k].from + j - 1>>
            T == {i \in 0 .. N : Placed(i)}
<1>1. /\ S(0) = 0 /\ \A i \in 1 .. N : S(i) = S(i - 1) + q[i].len
      /\ \A i \in 0 .. N : S(i) \in Nat
  BY SizeRecursion
<1>2. /\ B(0) = <<>> /\ \A i \in 1 .. N : B(i) = B(i - 1) \o BytesOf(q[i])
      /\ \A i \in 0 .. N : B(i) \in ByteSeq
  BY BytesRecursion
<1>3. N \in Nat
  BY IovecType
<1>. HIDE DEF S, B
<1>4. Placed(0)
  BY <1>1, <1>2
<1>5. ASSUME NEW i \in 1 .. N, Placed(i - 1) PROVE Placed(i)
  <2>. DEFINE v == q[i]
  <2>1. /\ i - 1 \in 0 .. N /\ i \in 0 .. N
        /\ S(i) = S(i - 1) + v.len /\ S(i - 1) \in Nat /\ S(i) \in Nat
    BY <1>1, <1>3
  <2>2. /\ v \in Iovec /\ v.len \in Nat /\ BytesOf(v) \in ByteSeq /\ Len(BytesOf(v)) = v.len
        /\ \A j \in 1 .. v.len : BytesOf(v)[j] = <<v.mem, v.from + j - 1>>
    BY IovecType, BytesOfType
  <2>3. B(i) = B(i - 1) \o BytesOf(v) /\ B(i - 1) \in ByteSeq
    BY <1>2, <2>1
  <2>4. Len(B(i - 1)) = S(i - 1)
    BY <1>5
  <2>5. /\ Len(B(i)) = S(i)
        /\ \A n \in 1 .. S(i - 1) : B(i)[n] = B(i - 1)[n]
        /\ \A j \in 1 .. v.len : B(i)[S(i - 1) + j] = BytesOf(v)[j]
    <3>1. /\ Len(B(i - 1) \o BytesOf(v)) = Len(B(i - 1)) + Len(BytesOf(v))
          /\ \A n \in 1 .. Len(B(i - 1)) : (B(i - 1) \o BytesOf(v))[n] = B(i - 1)[n]
          /\ \A j \in 1 .. Len(BytesOf(v)) :
               (B(i - 1) \o BytesOf(v))[Len(B(i - 1)) + j] = BytesOf(v)[j]
      BY <2>2, <2>3, BytesJoined
    <3>. HIDE DEF v
    <3>. QED BY <2>1, <2>2, <2>3, <2>4, <3>1
  <2>6. ASSUME NEW k \in 1 .. i, NEW j \in 1 .. q[k].len
        PROVE  /\ S(k - 1) + j \in 1 .. S(i)
               /\ B(i)[S(k - 1) + j] = <<q[k].mem, q[k].from + j - 1>>
    <3>1. CASE k = i
      BY <3>1, <2>1, <2>2, <2>5, SMTT(30)
    <3>2. CASE k # i
      <4>1. k \in 1 .. i - 1
        BY <3>2
      <4>2. /\ S(k - 1) + j \in 1 .. S(i - 1)
            /\ B(i - 1)[S(k - 1) + j] = <<q[k].mem, q[k].from + j - 1>>
        BY <4>1, <1>5
      <4>. QED BY <4>2, <2>1, <2>2, <2>5, SMTT(30)
    <3>. QED BY <3>1, <3>2
  <2>. QED BY <2>5, <2>6
<1>. HIDE DEF Placed
<1>6. 0 \in T /\ \A i \in 1 .. N : i - 1 \in T => i \in T
  BY <1>3, <1>4, <1>5
<1>7. 0 .. N \subseteq T
  <2>. HIDE DEF T, N
  <2>. QED BY <1>3, <1>6, IntervalInduction
<1>8. \A i \in 0 .. N : Placed(i)
  BY <1>7
<1>. QED BY <1>8 DEF Placed, S, B

\* A write of n bytes ends in an iovec of the queue: before it are fewer than n
\* bytes, and with it there are at least n.
LEMMA LastTouchedIs ==
  ASSUME NEW q \in Seq(Iovec), NEW K \in 1 .. Len(q), NEW n \in 1 .. SizeUpTo(q, K)
  PROVE  /\ LastTouched(q, n) \in 1 .. Len(q)
         /\ SizeUpTo(q, LastTouched(q, n)) >= n
         /\ SizeUpTo(q, LastTouched(q, n) - 1) < n
<1>. DEFINE S(i) == SizeUpTo(q, i)
            T == {k \in 1 .. Len(q) : S(k) >= n}
            Ends(k) == S(k) >= n /\ (k = 1 \/ S(k - 1) < n)
<1>1. Len(q) \in Nat /\ DOMAIN q = 1 .. Len(q)
  BY IovecType
<1>2. S(0) = 0 /\ \A i \in 0 .. Len(q) : S(i) \in Nat
  BY SizeRecursion
<1>. HIDE DEF S
<1>3. T \subseteq Nat /\ K \in T
  BY <1>1, <1>2 DEF S
<1>4. PICK m \in T : \A x \in T : m <= x
  <2>. HIDE DEF T
  <2>1. T # {}
    BY <1>3
  <2>. QED BY <1>3, <2>1, LeastNat
<1>5. m \in 1 .. Len(q) /\ Ends(m)
  <2>1. m \in 1 .. Len(q) /\ S(m) >= n
    OBVIOUS
  <2>2. CASE m > 1
    <3>1. m - 1 \in 1 .. Len(q) /\ m - 1 \in 0 .. Len(q) /\ m - 1 \notin T
      BY <1>1, <1>4, <2>1, <2>2
    <3>. QED BY <1>2, <2>1, <3>1 DEF S
  <2>. QED BY <2>1, <2>2
<1>6. LastTouched(q, n) = CHOOSE k \in 1 .. Len(q) : Ends(k)
  BY <1>1 DEF LastTouched, S
<1>. DEFINE k == LastTouched(q, n)
<1>7. k \in 1 .. Len(q) /\ Ends(k)
  <2>. HIDE DEF Ends
  <2>. QED BY <1>5, <1>6
<1>. HIDE DEF k
<1>8. k = 1 => S(k - 1) < n
  BY <1>2
<1>9. k \in 1 .. Len(q) /\ S(k) >= n /\ S(k - 1) < n
  BY <1>7, <1>8
<1>. QED BY <1>9 DEF k, S

\* The i-th iovec of r is the k-th of q without its first off bytes, and starts
\* n bytes earlier in its queue.
Piece(q, n, r, i, k, off) ==
  /\ r[i].mem = q[k].mem
  /\ r[i].from = q[k].from + off
  /\ r[i].len = q[k].len - off
  /\ SizeUpTo(q, k - 1) + off = SizeUpTo(r, i - 1) + n

\* A queue of such pieces, with n bytes less, stands for all bytes but the first n.
LEMMA RestOfBytes ==
  ASSUME NEW q \in Seq(Iovec), NEW r \in Seq(Iovec), NEW n \in Nat,
         SizeUpTo(q, Len(q)) = n + SizeUpTo(r, Len(r)),
         \A i \in 1 .. Len(r) : \E k \in 1 .. Len(q), off \in Nat : Piece(q, n, r, i, k, off)
  PROVE  SubSeq(Bytes(q), n + 1, Len(Bytes(q))) = Bytes(r)
<1>. DEFINE A == Bytes(q)
            B == Bytes(r)
            m == SizeUpTo(r, Len(r))
<1>1. Len(q) \in Nat /\ Len(r) \in Nat /\ m \in Nat
  BY IovecType, SizeRecursion
<1>2. A \in ByteSeq /\ B \in ByteSeq
  BY <1>1, BytesRecursion DEF Bytes
<1>3. Len(A) = n + m /\ Len(B) = m
  <2>1. Len(q) \in 0 .. Len(q) /\ Len(r) \in 0 .. Len(r)
    BY <1>1
  <2>. QED BY <2>1, BytesPlace DEF Bytes
<1>4. ASSUME NEW b \in 1 .. m PROVE A[n + b] = B[b]
  <2>. DEFINE i == LastTouched(r, b)
  <2>1. CASE Len(r) = 0
    <3>1. m = 0
      BY <2>1, SizeRecursion
    <3>. HIDE DEF m
    <3>. QED BY <3>1
  <2>2. CASE Len(r) # 0
    <3>1. Len(r) \in 1 .. Len(r)
      BY <1>1, <2>2
    <3>2. i \in 1 .. Len(r) /\ SizeUpTo(r, i) >= b /\ SizeUpTo(r, i - 1) < b
      BY <3>1, LastTouchedIs
    <3>. HIDE DEF i
    <3>3. i \in 0 .. Len(r) /\ i - 1 \in 0 .. Len(r)
      BY <1>1, <3>2
    <3>4. /\ SizeUpTo(r, i) = SizeUpTo(r, i - 1) + r[i].len
          /\ SizeUpTo(r, i) \in Nat /\ SizeUpTo(r, i - 1) \in Nat /\ r[i].len \in Nat
          /\ r[i].from \in Int
      BY <3>2, <3>3, SizeRecursion, IovecType
    <3>. DEFINE j == b - SizeUpTo(r, i - 1)
    <3>5. j \in 1 .. r[i].len /\ b = SizeUpTo(r, i - 1) + j
      BY <3>2, <3>4, SMTT(30)
    <3>. HIDE DEF j
    <3>6. B[b] = <<r[i].mem, r[i].from + j - 1>>
      <4>1. Len(r) \in 0 .. Len(r) /\ i \in 1 .. Len(r)
        BY <1>1, <3>2
      <4>. QED BY <4>1, <3>5, BytesPlace DEF Bytes
    <3>7. PICK k \in 1 .. Len(q), off \in Nat : Piece(q, n, r, i, k, off)
      BY <3>2
    <3>. HIDE DEF A, B, m
    <3>8. q[k].len \in Nat /\ q[k].from \in Int /\ k - 1 \in 0 .. Len(q)
      <4>1. k - 1 \in 0 .. Len(q)
        BY <1>1
      <4>. QED BY <4>1, IovecType
    <3>14. /\ r[i].from = q[k].from + off /\ r[i].len = q[k].len - off
           /\ SizeUpTo(q, k - 1) + off = SizeUpTo(r, i - 1) + n
      BY <3>7 DEF Piece
    <3>15. off \in Nat /\ j \in Nat /\ n \in Nat
      BY <3>5
    <3>9. off + j \in 1 .. q[k].len
      <4>1. \A x, y, o \in Nat : \A h \in 1 .. x : x = y - o => o + h \in 1 .. y
        OBVIOUS
      <4>. QED BY <4>1, <3>4, <3>5, <3>8, <3>14, <3>15
    <3>10. A[SizeUpTo(q, k - 1) + (off + j)] = <<q[k].mem, q[k].from + (off + j) - 1>>
      <4>1. Len(q) \in 0 .. Len(q) /\ k \in 1 .. Len(q)
        BY <1>1, <3>7
      <4>. QED BY <4>1, <3>9, BytesPlace DEF Bytes, A
    <3>11. SizeUpTo(q, k - 1) \in Nat
      BY <3>8, SizeRecursion
    <3>12. SizeUpTo(q, k - 1) + (off + j) = n + b
      <4>. DEFINE x == SizeUpTo(q, k - 1)
                  y == SizeUpTo(r, i - 1)
      <4>1. x + off = y + n /\ b = y + j /\ x \in Nat /\ y \in Nat
        BY <3>4, <3>5, <3>11, <3>14
      <4>. HIDE DEF x, y
      <4>2. x + (off + j) = n + b
        BY ONLY <4>1, <3>15
      <4>. QED BY <4>2 DEF x
    <3>13. q[k].from + (off + j) - 1 = r[i].from + j - 1
      <4>. DEFINE x == q[k].from
                  y == r[i].from
      <4>1. y = x + off /\ x \in Int /\ y \in Int
        BY <3>4, <3>8, <3>14
      <4>. HIDE DEF x, y
      <4>2. x + (off + j) - 1 = y + j - 1
        BY ONLY <4>1, <3>15
      <4>. QED BY <4>2 DEF x, y
    <3>. QED BY <3>6, <3>7, <3>10, <3>12, <3>13 DEF Piece
  <2>. QED BY <2>1, <2>2
<1>. HIDE DEF A, B, m
<1>5. SubSeq(A, n + 1, Len(A)) \in ByteSeq /\ Len(SubSeq(A, n + 1, Len(A))) = m
  BY <1>1, <1>2, <1>3 DEF ByteSeq
<1>6. \A b \in 1 .. m : SubSeq(A, n + 1, Len(A))[b] = A[n + b]
  BY <1>1, <1>2, <1>3, SubSeqAt DEF ByteSeq
<1>7. SubSeq(A, n + 1, Len(A)) = B
  BY <1>2, <1>3, <1>4, <1>5, <1>6, SMTT(30) DEF ByteSeq
<1>. QED BY <1>7 DEF A, B

\* Two iovecs that end in the same byte.
EndsAs(v, w) == v.mem = w.mem /\ v.from + v.len = w.from + w.len

\* What OnWrite leaves of its queue: the bytes that writev did not take, in
\* iovecs that end where they ended before.
LEMMA WriteLeaves ==
  ASSUME NEW q \in Seq(Iovec), NEW K \in 1 .. Len(q), NEW n \in 1 .. SizeUpTo(q, K)
  PROVE  /\ AfterOnWrite(q, n) \in Seq(Iovec)
         /\ \A i \in 1 .. Len(AfterOnWrite(q, n)) : \E k \in 1 .. Len(q) :
              EndsAs(AfterOnWrite(q, n)[i], q[k])
         /\ SubSeq(Bytes(q), n + 1, Len(Bytes(q))) = Bytes(AfterOnWrite(q, n))
<1>. DEFINE k == LastTouched(q, n)
            left == SizeUpTo(q, k) - n
            r == AfterOnWrite(q, n)
            gone == q[k].len - left
            e == IF left = 0 THEN k ELSE k - 1
<1>1. /\ Len(q) \in Nat
      /\ \A i \in 1 .. Len(q) : /\ q[i] \in Iovec /\ q[i].mem \in Memory
                                /\ q[i].from \in Int /\ q[i].len \in Nat
  BY IovecType
<1>2. /\ SizeUpTo(q, 0) = 0
      /\ \A i \in 1 .. Len(q) : SizeUpTo(q, i) = SizeUpTo(q, i - 1) + q[i].len
      /\ \A i \in 0 .. Len(q) : SizeUpTo(q, i) \in Nat
  BY SizeRecursion
<1>3. k \in 1 .. Len(q) /\ SizeUpTo(q, k) >= n /\ SizeUpTo(q, k - 1) < n
  BY LastTouchedIs
<1>4. n \in Nat \ {0}
  <2>1. K \in 0 .. Len(q)
    BY <1>1
  <2>. QED BY <1>2, <2>1
<1>5. /\ left = 0 => r = SubSeq(q, k + 1, Len(q))
      /\ left # 0 => r = <<[q[k] EXCEPT !.from = @ + gone, !.len = left]>> \o SubSeq(q, k + 1, Len(q))
  BY DEF AfterOnWrite
<1>. HIDE DEF k, r
<1>6. /\ k \in 0 .. Len(q) /\ k - 1 \in 0 .. Len(q)
      /\ SizeUpTo(q, k) = SizeUpTo(q, k - 1) + q[k].len
      /\ SizeUpTo(q, k) \in Nat /\ SizeUpTo(q, k - 1) \in Nat /\ q[k].len \in Nat
  BY <1>1, <1>2, <1>3
<1>7. left \in Nat /\ gone \in Nat /\ left <= q[k].len
  BY <1>3, <1>4, <1>6
<1>8. SubSeq(q, k + 1, Len(q)) \in Seq(Iovec)
      /\ Len(SubSeq(q, k + 1, Len(q))) = Len(q) - k
      /\ \A i \in 1 .. Len(q) - k : SubSeq(q, k + 1, Len(q))[i] = q[k + i]
  BY <1>1, <1>3
<1>. DEFINE first == [mem |-> q[k].mem, from |-> q[k].from + gone, len |-> left]
<1>9. [q[k] EXCEPT !.from = @ + gone, !.len = left] = first
  <2>. HIDE DEF gone, left
  <2>. DEFINE v == q[k]
  <2>1. v \in [mem : Memory, from : Int, len : Nat]
    BY <1>1, <1>3 DEF Iovec
  <2>. HIDE DEF v
  <2>. DEFINE w == [v EXCEPT !.from = @ + gone, !.len = left]
              x == [mem |-> v.mem, from |-> v.from + gone, len |-> left]
  <2>3. ASSUME NEW z, z = w PROVE z = x
    BY <2>1, <2>3
  <2>2. w = x
    BY <2>3
  <2>. QED BY <2>2 DEF v
<1>10. first \in Iovec
  <2>1. q[k].mem \in Memory /\ q[k].from \in Int
    BY <1>1, <1>3
  <2>. HIDE DEF gone, left
  <2>2. q[k].from + gone \in Int /\ left \in Nat
    BY <2>1, <1>7
  <2>. QED BY <2>1, <2>2 DEF Iovec
<1>11. /\ r \in Seq(Iovec) /\ Len(r) = Len(q) - e /\ e \in Nat
       /\ \A i \in 1 .. Len(r) : r[i] = IF left # 0 /\ i = 1 THEN first ELSE q[e + i]
  <2>. DEFINE t == SubSeq(q, k + 1, Len(q))
  <2>1. CASE left = 0
    <3>1. e = k /\ r = t
      BY <2>1, <1>5
    <3>. HIDE DEF left, first, t, gone, e
    <3>2. t \in Seq(Iovec) /\ Len(t) = Len(q) - k /\ \A i \in 1 .. Len(q) - k : t[i] = q[k + i]
      BY <1>8 DEF t
    <3>. QED BY <2>1, <3>1, <3>2, <1>3
  <2>2. CASE left # 0
    <3>. HIDE DEF left, first, t, gone
    <3>1. r = <<first>> \o t /\ t \in Seq(Iovec) /\ Len(t) = Len(q) - k
          /\ \A i \in 1 .. Len(q) - k : t[i] = q[k + i]
      BY <2>2, <1>5, <1>8, <1>9 DEF t
    <3>2. r \in Seq(Iovec) /\ Len(r) = 1 + Len(t)
      BY <3>1, <1>10
    <3>3. r[1] = first /\ \A i \in 2 .. Len(r) : r[i] = t[i - 1]
      BY <3>1, <1>10
    <3>4. \A i \in 2 .. Len(r) : r[i] = q[k - 1 + i]
      <4>1. Len(r) = 1 + Len(q) - k /\ k \in Int /\ Len(q) \in Int
        BY <1>1, <1>3, <3>1, <3>2
      <4>2. \A i \in 2 .. Len(r) : i - 1 \in 1 .. Len(q) - k /\ k + (i - 1) = k - 1 + i
        <5>. HIDE DEF e
        <5>. QED BY ONLY <4>1
      <4>. QED BY <3>1, <3>3, <4>2
    <3>. QED BY <2>2, <1>1, <1>3, <3>1, <3>2, <3>3, <3>4
  <2>. QED BY <2>1, <2>2
<1>12. /\ SizeUpTo(r, 0) = 0
       /\ \A i \in 1 .. Len(r) : SizeUpTo(r, i) = SizeUpTo(r, i - 1) + r[i].len
       /\ \A i \in 0 .. Len(r) : SizeUpTo(r, i) \in Nat
  BY <1>11, SizeRecursion
<1>13. first.mem = q[k].mem /\ first.from = q[k].from + gone /\ first.len = left
  OBVIOUS
<1>. HIDE DEF first
<1>14. \A i \in 0 .. Len(r) : SizeUpTo(r, i) = IF i = 0 THEN 0 ELSE SizeUpTo(q, e + i) - n
  <2>. DEFINE T == {i \in 0 .. Len(r) : SizeUpTo(r, i) = IF i = 0 THEN 0 ELSE SizeUpTo(q, e + i) - n}
  <2>1. 0 \in T
    BY <1>1, <1>11, <1>12
  <2>2. ASSUME NEW i \in 1 .. Len(r), i - 1 \in T PROVE i \in T
    <3>1. /\ SizeUpTo(r, i) = SizeUpTo(r, i - 1) + r[i].len
          /\ e + i \in 1 .. Len(q)
          /\ SizeUpTo(q, e + i) = SizeUpTo(q, e + i - 1) + q[e + i].len
          /\ e + i - 1 \in 0 .. Len(q)
          /\ SizeUpTo(q, e + i - 1) \in Nat
          /\ q[e + i].len \in Nat
      <4>. HIDE DEF e
      <4>1. e + i \in 1 .. Len(q) /\ e + i \in 0 .. Len(q) /\ e + i - 1 \in 0 .. Len(q)
        BY <1>1, <1>11
      <4>2. SizeUpTo(r, i) = SizeUpTo(r, i - 1) + r[i].len
        BY <1>12
      <4>3. SizeUpTo(q, e + i) = SizeUpTo(q, e + i - 1) + q[e + i].len
        <5>. DEFINE h == e + i
        <5>1. h \in 1 .. Len(q)
          BY <4>1
        <5>. HIDE DEF h
        <5>2. SizeUpTo(q, h) = SizeUpTo(q, h - 1) + q[h].len
          BY <5>1, <1>2
        <5>3. e \in Nat /\ i \in Nat /\ h = e + i /\ h - 1 = e + i - 1
          BY <1>11 DEF h
        <5>. QED BY <5>2, <5>3
      <4>4. SizeUpTo(q, e + i - 1) \in Nat /\ q[e + i].len \in Nat
        BY <4>1, <1>1, <1>2
      <4>. QED BY <4>1, <4>2, <4>3, <4>4
    <3>2. CASE i = 1
      <4>1. SizeUpTo(r, 1) = r[1].len
        <5>1. r[1].len \in Nat
          BY <3>2, <1>11, IovecType
        <5>2. SizeUpTo(r, 1) = SizeUpTo(r, 1 - 1) + r[1].len /\ 1 - 1 = 0
          BY <3>1, <3>2
        <5>. HIDE DEF e
        <5>. QED BY <5>1, <5>2, <1>12
      <4>2. CASE left = 0
        <5>1. e = k /\ r[1] = q[e + 1] /\ e + i = e + 1 /\ e + i - 1 = k
          BY <3>2, <4>2, <1>3, <1>11
        <5>. HIDE DEF e
        <5>2. SizeUpTo(q, e + 1) = n + r[1].len /\ r[1].len \in Nat
          <6>1. SizeUpTo(q, k) = n
            BY <4>2, <1>4, <1>6
          <6>2. /\ SizeUpTo(q, e + i) = SizeUpTo(q, e + i - 1) + q[e + i].len
                /\ q[e + i].len \in Nat
            BY <3>1
          <6>3. SizeUpTo(q, e + 1) = SizeUpTo(q, k) + q[e + 1].len /\ q[e + 1].len \in Nat
            BY <5>1, <6>2, Zenon
          <6>. QED BY <5>1, <6>1, <6>3, Zenon
        <5>3. SizeUpTo(r, 1) = SizeUpTo(q, e + 1) - n
          BY <4>1, <5>2, <1>4
        <5>. QED BY <3>2, <5>3
      <4>3. CASE left # 0
        <5>1. e + 1 = k
          BY <4>3, <1>3
        <5>. QED BY <3>2, <4>1, <4>3, <5>1, <1>11, <1>13
      <4>. QED BY <4>2, <4>3
    <3>3. CASE i # 1
      <4>1. /\ SizeUpTo(r, i - 1) = SizeUpTo(q, e + (i - 1)) - n
            /\ e + (i - 1) = e + i - 1
        BY <2>2, <3>3, <1>11
      <4>2. r[i] = q[e + i]
        BY <3>3, <1>11
      <4>3. SizeUpTo(r, i) = SizeUpTo(q, e + i) - n
        <5>. HIDE DEF e
        <5>. QED BY <3>1, <4>1, <4>2, <1>4
      <4>. QED BY <3>3, <4>3
    <3>. QED BY <3>2, <3>3
  <2>. HIDE DEF T
  <2>3. Len(r) \in Nat
    BY <1>11
  <2>4. 0 .. Len(r) \subseteq T
    BY <2>1, <2>2, <2>3, IntervalInduction
  <2>. QED BY <2>4 DEF T
<1>15. SizeUpTo(q, Len(q)) = n + SizeUpTo(r, Len(r))
  <2>1. Len(r) \in 0 .. Len(r) /\ e + Len(r) = Len(q) /\ Len(q) \in 0 .. Len(q)
    BY <1>1, <1>11
  <2>2. CASE Len(r) # 0
    BY <2>1, <2>2, <1>2, <1>4, <1>14
  <2>3. CASE Len(r) = 0
    <3>1. left = 0 /\ k = Len(q)
      BY <2>1, <2>3, <1>1, <1>3
    <3>. QED BY <2>3, <3>1, <1>4, <1>6, <1>12
  <2>. QED BY <2>2, <2>3
<1>16. ASSUME NEW i \in 1 .. Len(r)
       PROVE  \E k_1 \in 1 .. Len(q), off \in Nat : Piece(q, n, r, i, k_1, off)
  <2>1. i - 1 \in 0 .. Len(r) /\ SizeUpTo(r, i - 1) \in Nat
    BY <1>11, <1>12
  <2>2. CASE left # 0 /\ i = 1
    <3>1. r[i] = first /\ SizeUpTo(r, i - 1) = 0
      BY <2>2, <1>11, <1>12
    <3>2. SizeUpTo(q, k - 1) + gone = 0 + n
      BY <1>4, <1>6, SMTT(30)
    <3>3. q[k].len - gone = left
      <4>1. left \in Int /\ q[k].len \in Int
        BY <1>6, <1>7
      <4>. HIDE DEF left
      <4>. QED BY <4>1
    <3>4. Piece(q, n, r, i, k, gone)
      <4>. HIDE DEF gone, left
      <4>. QED BY <3>1, <3>2, <3>3, <1>13 DEF Piece
    <3>. HIDE DEF gone, left
    <3>. QED BY <3>4, <1>3, <1>7
  <2>3. CASE ~(left # 0 /\ i = 1)
    <3>1. r[i] = q[e + i] /\ e + i \in 1 .. Len(q) /\ e + i - 1 \in 0 .. Len(q)
      <4>. HIDE DEF e, left
      <4>1. r[i] = q[e + i]
        BY <2>3, <1>11
      <4>2. Len(r) = Len(q) - e /\ e \in Nat
        BY <1>11
      <4>. QED BY <4>1, <4>2, <1>1
    <3>2. q[e + i].from \in Int /\ q[e + i].len \in Nat /\ SizeUpTo(q, e + i - 1) \in Nat
      BY <3>1, <1>1, <1>2
    <3>3. SizeUpTo(q, e + i - 1) = SizeUpTo(r, i - 1) + n
      <4>1. CASE i = 1
        BY <2>3, <4>1, <1>4, <1>6, <1>12
      <4>2. CASE i # 1
        <5>1. SizeUpTo(r, i - 1) = SizeUpTo(q, e + (i - 1)) - n /\ e + (i - 1) = e + i - 1
          BY <2>1, <4>2, <1>11, <1>14
        <5>. HIDE DEF e
        <5>. QED BY <5>1, <3>2, <1>4
      <4>. QED BY <4>1, <4>2
    <3>4. Piece(q, n, r, i, e + i, 0)
      <4>. HIDE DEF e
      <4>1. /\ q[e + i].from = q[e + i].from + 0 /\ q[e + i].len = q[e + i].len - 0
            /\ SizeUpTo(q, e + i - 1) + 0 = SizeUpTo(q, e + i - 1)
        BY <3>2
      <4>2. SizeUpTo(q, e + i - 1) + 0 = SizeUpTo(r, i - 1) + n
        BY <3>2, <3>3, <4>1
      <4>. DEFINE h == e + i
      <4>3. r[i] = q[h]
        BY <3>1
      <4>4. /\ q[h].from = q[h].from + 0 /\ q[h].len = q[h].len - 0
            /\ SizeUpTo(q, h - 1) + 0 = SizeUpTo(r, i - 1) + n
        <5>1. e \in Nat /\ i \in Nat /\ h - 1 = e + i - 1
          BY <1>11
        <5>. HIDE DEF h
        <5>2. h = e + i
          BY DEF h
        <5>. QED BY <5>1, <5>2, <4>1, <4>2
      <4>. HIDE DEF h
      <4>5. Piece(q, n, r, i, h, 0)
        BY <4>3, <4>4 DEF Piece
      <4>. QED BY <4>5 DEF h
    <3>. HIDE DEF e
    <3>. QED BY <3>1, <3>4
  <2>. QED BY <2>2, <2>3
<1>17. SubSeq(Bytes(q), n + 1, Len(Bytes(q))) = Bytes(r)
  <2>. HIDE DEF e, left, gone
  <2>. QED BY <1>4, <1>11, <1>15, <1>16, RestOfBytes
<1>18. \A i \in 1 .. Len(r) : \E h \in 1 .. Len(q) : EndsAs(r[i], q[h])
  <2>. SUFFICES ASSUME NEW i \in 1 .. Len(r) PROVE \E h \in 1 .. Len(q) : EndsAs(r[i], q[h])
    OBVIOUS
  <2>. HIDE DEF e, left, gone
  <2>1. PICK h \in 1 .. Len(q), off \in Nat : Piece(q, n, r, i, h, off)
    BY <1>16
  <2>2. q[h].from \in Int /\ q[h].len \in Nat
    BY <1>1
  <2>3. EndsAs(r[i], q[h])
    BY <2>1, <2>2 DEF Piece, EndsAs
  <2>. QED BY <2>3
<1>. QED BY <1>11, <1>17, <1>18 DEF r

\* SendNodes may take its rest from the wrong iovec, but from its end: what it
\* leaves also ends where an iovec of the queue ended.
LEMMA SendLeaves ==
  ASSUME NEW q \in Seq(Iovec), NEW K \in 1 .. Len(q), NEW n \in 1 .. SizeUpTo(q, K)
  PROVE  /\ AfterSendNodes(q, n) \in Seq(Iovec)
         /\ \A i \in 1 .. Len(AfterSendNodes(q, n)) : \E k \in 1 .. Len(q) :
              EndsAs(AfterSendNodes(q, n)[i], q[k])
<1>. DEFINE k == LastTouched(q, n)
            left == SizeUpTo(q, k) - n
            rest == SubSeq(q, k + 1, Len(q))
            first == [mem |-> q[1].mem, from |-> q[1].from + q[1].len - left, len |-> left]
            r == AfterSendNodes(q, n)
<1>1. /\ Len(q) \in Nat
      /\ \A i \in 1 .. Len(q) : /\ q[i] \in Iovec /\ q[i].mem \in Memory
                                /\ q[i].from \in Int /\ q[i].len \in Nat
  BY IovecType
<1>2. k \in 1 .. Len(q) /\ SizeUpTo(q, k) >= n
  BY LastTouchedIs
<1>3. K \in 0 .. Len(q) /\ k \in 0 .. Len(q) /\ 1 \in 1 .. Len(q)
  BY <1>1, <1>2
<1>4. left \in Nat
  <2>1. SizeUpTo(q, k) \in Nat /\ SizeUpTo(q, K) \in Nat
    BY <1>3, SizeRecursion
  <2>. QED BY <1>2, <2>1
<1>5. r = IF left = 0 THEN rest ELSE <<first>> \o rest
  BY DEF AfterSendNodes
<1>. HIDE DEF r, k
<1>6. /\ rest \in Seq(Iovec)
      /\ Len(rest) = Len(q) - k
      /\ \A i \in 1 .. Len(q) - k : rest[i] = q[k + i]
  BY <1>1, <1>2, SubSeqAt
<1>7. first \in Iovec /\ EndsAs(first, q[1])
  <2>1. q[1].mem \in Memory /\ q[1].from \in Int /\ q[1].len \in Nat
    BY <1>1, <1>3
  <2>. DEFINE at == q[1].from + q[1].len - left
  <2>2. at \in Int /\ at + left = q[1].from + q[1].len
    BY <1>4, <2>1
  <2>. HIDE DEF at, left, Memory
  <2>. QED BY <1>4, <2>1, <2>2 DEF Iovec, EndsAs, at
<1>. HIDE DEF left, rest, first
<1>8. ASSUME NEW i \in 1 .. Len(rest) PROVE \E h \in 1 .. Len(q) : EndsAs(rest[i], q[h])
  <2>. DEFINE h == k + i
  <2>1. h \in 1 .. Len(q)
    BY <1>1, <1>2, <1>6
  <2>2. rest[i] = q[h]
    BY <1>6
  <2>. HIDE DEF h
  <2>3. EndsAs(rest[i], q[h])
    BY <2>2 DEF EndsAs
  <2>. QED BY <2>1, <2>3
<1>9. CASE left = 0
  BY <1>5, <1>6, <1>8, <1>9 DEF r
<1>10. CASE left # 0
  <2>1. r = <<first>> \o rest
    BY <1>5, <1>10
  <2>2. r \in Seq(Iovec) /\ Len(r) = 1 + Len(rest) /\ Len(rest) \in Nat
    BY <2>1, <1>6, <1>7
  <2>3. r[1] = first /\ \A i \in 2 .. Len(r) : r[i] = rest[i - 1]
    BY <2>1, <1>6, <1>7
  <2>4. ASSUME NEW i \in 1 .. Len(r) PROVE \E h \in 1 .. Len(q) : EndsAs(r[i], q[h])
    <3>1. CASE i = 1
      BY <3>1, <2>3, <1>3, <1>7
    <3>2. CASE i # 1
      <4>1. i - 1 \in 1 .. Len(rest) /\ r[i] = rest[i - 1]
        BY <3>2, <2>2, <2>3
      <4>. QED BY <4>1, <1>8
    <3>. QED BY <3>1, <3>2
  <2>. QED BY <2>2, <2>4 DEF r
<1>. QED BY <1>9, <1>10

-----------------------------------------------------------------------------
(* The memory the iovecs refer to.  The ends of iovecs are all that counts:  *)
(* a write moves beginnings only, a header ends in the part of sending_ that *)
(* is in use, and that part shrinks only when both queues are emptied.       *)

\* Headers end before curr, and payload belongs to packets of pkts.
Kept(q, curr, pkts) ==
  /\ q \in Seq(Iovec)
  /\ \A i \in DOMAIN q : /\ q[i].mem = "sending" => q[i].from + q[i].len <= curr
                         /\ q[i].mem \in Packets => q[i].mem \in pkts

\* That stays so when more of sending_ is in use and more packets are kept, ...
LEMMA KeptLonger ==
  ASSUME NEW q, NEW c \in Int, NEW d \in Int, NEW p, NEW s, Kept(q, c, p), c <= d, p \subseteq s
  PROVE  Kept(q, d, s)
<1>1. q \in Seq(Iovec)
  BY DEF Kept
<1>2. ASSUME NEW i \in DOMAIN q
      PROVE  /\ q[i].mem = "sending" => q[i].from + q[i].len <= d
             /\ q[i].mem \in Packets => q[i].mem \in s
  <2>1. q[i].from + q[i].len \in Int
    BY <1>1, IovecType
  <2>2. /\ q[i].mem = "sending" => q[i].from + q[i].len <= c
        /\ q[i].mem \in Packets => q[i].mem \in p
    BY DEF Kept
  <2>. DEFINE x == q[i].from + q[i].len
  <2>3. q[i].mem = "sending" => x <= d
    <3>. HIDE DEF x
    <3>1. x \in Int
      BY <2>1 DEF x
    <3>2. q[i].mem = "sending" => x <= c
      BY <2>2 DEF x
    <3>. QED BY <3>1, <3>2
  <2>. QED BY <2>2, <2>3
<1>. QED BY <1>1, <1>2, Zenon DEF Kept

\* ... when two queues are joined, ...
LEMMA KeptBoth ==
  ASSUME NEW q, NEW r, NEW c, NEW p, Kept(q, c, p), Kept(r, c, p)
  PROVE  Kept(q \o r, c, p)
<1>1. q \in Seq(Iovec) /\ r \in Seq(Iovec)
  BY DEF Kept
<1>2. q \o r \in Seq(Iovec) /\ Len(q) \in Nat /\ Len(r) \in Nat
  BY <1>1
<1>3. ASSUME NEW i \in DOMAIN (q \o r)
      PROVE  (\E k \in DOMAIN q : (q \o r)[i] = q[k]) \/ (\E k \in DOMAIN r : (q \o r)[i] = r[k])
  <2>1. /\ i \in 1 .. Len(q) + Len(r)
        /\ DOMAIN q = 1 .. Len(q) /\ DOMAIN r = 1 .. Len(r)
    BY <1>1
  <2>2. CASE i \in 1 .. Len(q)
    BY <2>1, <2>2, <1>1
  <2>3. CASE i \notin 1 .. Len(q)
    <3>. DEFINE k == i - Len(q)
    <3>1. k \in 1 .. Len(r) /\ i = Len(q) + k
      BY <2>1, <2>3, <1>2
    <3>. HIDE DEF k
    <3>. QED BY <3>1, <2>1, <1>1, Concatenation
  <2>. QED BY <2>2, <2>3
<1>. QED BY <1>2, <1>3, Zenon DEF Kept

\* ... and of what a write leaves.
LEMMA KeptRest ==
  ASSUME NEW q, NEW r, NEW c, NEW p, Kept(q, c, p), r \in Seq(Iovec),
         \A i \in 1 .. Len(r) : \E k \in 1 .. Len(q) : EndsAs(r[i], q[k])
  PROVE  Kept(r, c, p)
<1>1. q \in Seq(Iovec)
  BY DEF Kept
<1>2. DOMAIN q = 1 .. Len(q) /\ DOMAIN r = 1 .. Len(r)
  BY <1>1, IovecType
<1>. QED BY <1>2, Zenon DEF Kept, EndsAs

\* Where the headers of a packet end.
Laid(pkt, first, next) ==
  sending_curr_ + first + IF Chunks[pkt] > 1 THEN (Chunks[pkt] - 1) * next ELSE 0

\* The nodes of a packet refer to what its headers take of sending_ and to it:
\* the header of the k-th chunk ends k - 1 later headers after the first one.
LEMMA NodesKept ==
  ASSUME sending_curr_ \in Nat, NEW pkt \in Packets,
         NEW first \in FirstSizes, NEW next \in NextSizes
  PROVE  /\ Kept(ChunkNodes(pkt, first, next), Laid(pkt, first, next), {pkt})
         /\ Laid(pkt, first, next) \in Nat /\ sending_curr_ <= Laid(pkt, first, next)
<1>. DEFINE n == Chunks[pkt]
            later == IF n > 1 THEN n - 1 ELSE 0
            end == sending_curr_ + first + later * next
            place(k) == sending_curr_ + IF k = 1 THEN 0 ELSE first + (k - 2) * next
            size(k) == IF k = 1 THEN first ELSE next
            header(k) == [mem |-> "sending", from |-> place(k), len |-> size(k)]
            payload(k) == [mem |-> pkt, from |-> (k - 1) * ChunkSize, len |-> ChunkSize]
            last == IF n = 0 THEN 1 ELSE 2 * n
            q == ChunkNodes(pkt, first, next)
<1>1. /\ n \in Nat /\ first \in Nat /\ next \in Nat /\ later \in Nat /\ ChunkSize \in Nat
      /\ last \in Nat /\ later * next \in Nat
      /\ pkt \notin {"sending", "s0s1s2"}
  <2>1. n \in Nat /\ first \in Nat /\ next \in Nat /\ ChunkSize \in Nat
    BY SendPathAssumption
  <2>2. later \in Nat /\ last \in Nat
    BY <2>1
  <2>3. later * next \in Nat
    <3>. HIDE DEF later
    <3>. QED BY <2>1, <2>2
  <2>4. pkt \notin {"sending", "s0s1s2"}
    BY SendPathAssumption
  <2>. QED BY <2>1, <2>2, <2>3, <2>4
<1>2. Laid(pkt, first, next) = end
  BY <1>1 DEF Laid
<1>3. end \in Nat /\ sending_curr_ <= end
  <2>. DEFINE x == later * next
  <2>1. x \in Nat
    BY <1>1
  <2>. HIDE DEF x, later
  <2>2. end = sending_curr_ + first + x
    BY DEF x
  <2>. HIDE DEF end
  <2>. QED BY <1>1, <2>1, <2>2
<1>4. q = [i \in 1 .. last |-> IF i % 2 = 1 THEN header((i + 1) \div 2) ELSE payload(i \div 2)]
  BY DEF ChunkNodes
<1>5. ASSUME NEW k \in Nat, k >= 1, k <= later + 1
      PROVE  /\ place(k) \in Int /\ size(k) \in Nat /\ place(k) + size(k) <= end
  <2>. HIDE DEF later
  <2>1. CASE k = 1
    <3>. DEFINE x == later * next
    <3>1. x \in Nat /\ end = sending_curr_ + first + x
      BY <1>1
    <3>2. place(k) = sending_curr_ /\ size(k) = first
      BY <2>1, <1>1
    <3>. HIDE DEF x, end, place, size
    <3>. QED BY <3>1, <3>2, <1>1
  <2>2. CASE k # 1
    <3>1. PICK d \in Nat : k = d + 2
      <4>1. k - 2 \in Nat /\ k = (k - 2) + 2
        BY <2>2, <1>5
      <4>. QED BY <4>1
    <3>2. PICK e \in Nat : later = d + 1 + e
      <4>1. later - (d + 1) \in Nat /\ later = d + 1 + (later - (d + 1))
        BY <3>1, <1>1, <1>5
      <4>. QED BY <4>1
    <3>3. later * next = d * next + next + e * next
      BY <3>2, <1>1
    <3>4. d * next \in Nat /\ e * next \in Nat
      BY <1>1
    <3>5. place(k) = sending_curr_ + (first + d * next) /\ size(k) = next
      <4>1. k - 2 = d
        BY <3>1
      <4>. QED BY <2>2, <4>1
    <3>. DEFINE x == d * next
                y == e * next
                z == later * next
    <3>6. x \in Nat /\ y \in Nat /\ z = x + next + y
          /\ place(k) = sending_curr_ + (first + x) /\ end = sending_curr_ + first + z
      BY <3>3, <3>4, <3>5
    <3>. HIDE DEF x, y, z, end, place, size
    <3>. QED BY <3>5, <3>6, <1>1
  <2>. QED BY <2>1, <2>2
<1>6. ASSUME NEW i \in 1 .. last, i % 2 = 1
      PROVE  LET k == (i + 1) \div 2 IN k \in Nat /\ k >= 1 /\ k <= later + 1
  BY <1>1, <1>6
<1>7. ASSUME NEW i \in 1 .. last, i % 2 # 1
      PROVE  i \div 2 \in Nat /\ (i \div 2 - 1) * ChunkSize \in Int
  <2>1. i \div 2 \in Nat
    OBVIOUS
  <2>. DEFINE h == i \div 2
  <2>2. h \in Nat
    BY <2>1
  <2>. HIDE DEF h
  <2>3. (h - 1) * ChunkSize \in Int
    BY <2>2, <1>1
  <2>. QED BY <2>1, <2>3 DEF h
<1>8. \A k \in Nat : k >= 1 /\ k <= later + 1 =>
        header(k) \in Iovec /\ header(k).mem = "sending" /\ header(k).from + header(k).len <= end
  <2>. SUFFICES ASSUME NEW k \in Nat, k >= 1, k <= later + 1
                PROVE  header(k) \in Iovec /\ header(k).mem = "sending"
                       /\ header(k).from + header(k).len <= end
    OBVIOUS
  <2>1. /\ place(k) \in Int /\ size(k) \in Nat /\ place(k) + size(k) <= end
    BY <1>5
  <2>2. "sending" \in Memory
    BY DEF Memory
  <2>. HIDE DEF place, size, end
  <2>. QED BY <2>1, <2>2 DEF Iovec
<1>9. \A k : (k - 1) * ChunkSize \in Int => payload(k) \in Iovec /\ payload(k).mem = pkt
  <2>1. pkt \in Memory
    BY DEF Memory
  <2>. QED BY <2>1, <1>1 DEF Iovec
<1>10. ASSUME NEW i \in 1 .. last
       PROVE  /\ q[i] \in Iovec
              /\ q[i].mem = "sending" => q[i].from + q[i].len <= end
              /\ q[i].mem \in Packets => q[i].mem \in {pkt}
  <2>1. CASE i % 2 = 1
    <3>. DEFINE k == (i + 1) \div 2
    <3>1. q[i] = header(k)
      BY <2>1, <1>4
    <3>2. k \in Nat /\ k >= 1 /\ k <= later + 1
      BY <2>1, <1>6
    <3>3. "sending" \notin Packets
      BY SendPathAssumption
    <3>. HIDE DEF k, header, q, end
    <3>4. header(k) \in Iovec /\ header(k).mem = "sending" /\ header(k).from + header(k).len <= end
      BY <3>2, <1>8
    <3>. QED BY <3>1, <3>3, <3>4
  <2>2. CASE i % 2 # 1
    <3>. DEFINE k == i \div 2
    <3>1. q[i] = payload(k)
      BY <2>2, <1>4
    <3>2. payload(k) \in Iovec /\ payload(k).mem = pkt
      BY <2>2, <1>7, <1>9
    <3>. HIDE DEF k, payload, q, end
    <3>. QED BY <3>1, <3>2, <1>1
  <2>. QED BY <2>1, <2>2
<1>11. q \in Seq(Iovec) /\ DOMAIN q = 1 .. last
  <2>1. q = [i \in 1 .. last |-> q[i]]
    BY <1>4
  <2>. HIDE DEF q, last
  <2>. QED BY <2>1, <1>1, <1>10
<1>12. Kept(q, end, {pkt})
  <2>. HIDE DEF q, last, end
  <2>. QED BY <1>10, <1>11 DEF Kept
<1>. QED BY <1>2, <1>3, <1>12 DEF q

\* Both queues refer to memory that is kept.
KeptInv ==
  /\ sending_curr_ \in Nat
  /\ out_packet_ \in Seq(Packets)
  /\ Kept(iovecs_, sending_curr_, sending_pkts_)
  /\ Kept(sending_nodes_, sending_curr_, sending_pkts_)

\* A packet that is built disturbs neither queue.
LEMMA BuildChunkKeeps ==
  ASSUME KeptInv, NEW pkt \in Packets, BuildChunk(pkt)
  PROVE  /\ sending_curr_' \in Nat
         /\ Kept(iovecs_, sending_curr_', sending_pkts_')
         /\ Kept(sending_nodes_', sending_curr_', sending_pkts_')
<1>1. PICK first \in FirstSizes, next \in NextSizes :
        /\ sending_nodes_' = sending_nodes_ \o ChunkNodes(pkt, first, next)
        /\ sending_curr_' = Laid(pkt, first, next)
        /\ sending_pkts_' = sending_pkts_ \cup {pkt}
  BY DEF BuildChunk, Laid
<1>. DEFINE nodes == ChunkNodes(pkt, first, next)
            end == Laid(pkt, first, next)
<1>2. sending_curr_ \in Nat
  BY DEF KeptInv
<1>3. Kept(nodes, end, {pkt}) /\ end \in Nat /\ sending_curr_ <= end
  BY <1>2, NodesKept
<1>. DEFINE more == sending_pkts_ \cup {pkt}
<1>4. sending_pkts_ \subseteq more /\ {pkt} \subseteq more
  OBVIOUS
<1>. HIDE DEF nodes, end, more
<1>5. sending_curr_ \in Int /\ end \in Int /\ end <= end
  BY <1>2, <1>3
<1>6. Kept(iovecs_, end, more) /\ Kept(sending_nodes_, end, more)
  BY <1>3, <1>4, <1>5, KeptLonger DEF KeptInv
<1>7. Kept(nodes, end, more)
  BY <1>3, <1>4, <1>5, KeptLonger
<1>8. Kept(sending_nodes_ \o nodes, end, more)
  BY <1>6, <1>7, KeptBoth
<1>. QED BY <1>1, <1>3, <1>6, <1>8 DEF nodes, end, more

\* SendNodes queues what is kept.
LEMMA SendNodesKeeps ==
  ASSUME NEW nodes, NEW c, NEW p, Kept(iovecs_, c, p), Kept(nodes, c, p), SendNodes(nodes)
  PROVE  Kept(iovecs_', c, p)
<1>1. iovecs_' = iovecs_ \/ iovecs_' = iovecs_ \o nodes
  BY DEF SendNodes
<1>. QED BY <1>1, KeptBoth

\* An empty queue refers to nothing.
LEMMA KeptEmpty == \A c, p : Kept(<<>>, c, p)
  BY DEF Kept

\* What one writev can take is the bytes of the first iovecs.
LEMMA WritableIs ==
  ASSUME NEW q \in Seq(Iovec), q # <<>>
  PROVE  \E K \in 1 .. Len(q) : Writable(q) = SizeUpTo(q, K)
<1>1. Len(q) \in Nat /\ Len(q) # 0
  OBVIOUS
<1>2. IovMax \in Nat \ {0}
  BY SendPathAssumption
<1>. DEFINE K == IF Len(q) <= IovMax THEN Len(q) ELSE IovMax
<1>3. K \in 1 .. Len(q) /\ Writable(q) = SizeUpTo(q, K)
  BY <1>1, <1>2 DEF Writable
<1>. QED BY <1>3

LEMMA KeptInit == Init => KeptInv
  BY KeptEmpty DEF Init, KeptInv

LEMMA KeptStep == KeptInv /\ [Next]_vars => KeptInv'
<1>. SUFFICES ASSUME KeptInv, [Next]_vars PROVE KeptInv'
  OBVIOUS
<1>. DEFINE sameContext == UNCHANGED contextVars
<1>a. /\ sending_curr_ \in Nat /\ out_packet_ \in Seq(Packets)
      /\ Kept(iovecs_, sending_curr_, sending_pkts_)
      /\ Kept(sending_nodes_, sending_curr_, sending_pkts_)
  BY DEF KeptInv
\* What leaves the queues and the context alone keeps the invariant.
<1>b. ASSUME UNCHANGED contextVars, UNCHANGED iovecs_, out_packet_' \in Seq(Packets)
      PROVE  KeptInv'
  BY <1>a, <1>b DEF contextVars, KeptInv
<1>c. ASSUME NEW pkt \in Packets, out_packet_' \in Seq(Packets), UNCHANGED iovecs_,
             IF Fits(pkt) THEN BuildChunk(pkt) ELSE UNCHANGED contextVars
      PROVE  KeptInv'
  <2>1. CASE Fits(pkt)
    <3>1. /\ sending_curr_' \in Nat
          /\ Kept(iovecs_, sending_curr_', sending_pkts_')
          /\ Kept(sending_nodes_', sending_curr_', sending_pkts_')
      BY <1>c, <2>1, BuildChunkKeeps
    <3>. QED BY <3>1, <1>c DEF KeptInv
  <2>2. CASE ~Fits(pkt)
    BY <1>b, <1>c, <2>2
  <2>. QED BY <2>1, <2>2
\* What takes bytes off the queue keeps the ends of what is left.
<1>d. ASSUME UNCHANGED contextVars, UNCHANGED out_packet_, Kept(iovecs_', sending_curr_, sending_pkts_)
      PROVE  KeptInv'
  BY <1>a, <1>d DEF contextVars, KeptInv
\* The write callback empties the context when the queue is empty.
<1>e. ASSUME ClearSendCompleteData, iovecs_ = <<>>, UNCHANGED <<out_packet_, iovecs_>>
      PROVE  KeptInv'
  BY <1>a, <1>e, KeptEmpty DEF ClearSendCompleteData, KeptInv
<1>0. CASE UNCHANGED vars
  BY <1>0, <1>a, <1>b DEF vars, connVars, contextVars
<1>1. ASSUME NEW pkt \in Packets, PostMessage(pkt) PROVE KeptInv'
  <2>1. /\ IF Fits(pkt) THEN BuildChunk(pkt) ELSE UNCHANGED contextVars
        /\ SendNodes(sending_nodes_') /\ UNCHANGED out_packet_
    BY <1>1 DEF PostMessage
  <2>2. /\ sending_curr_' \in Nat
        /\ Kept(iovecs_, sending_curr_', sending_pkts_')
        /\ Kept(sending_nodes_', sending_curr_', sending_pkts_')
    <3>1. CASE Fits(pkt)
      BY <2>1, <3>1, BuildChunkKeeps
    <3>2. CASE ~Fits(pkt)
      BY <2>1, <3>2, <1>a DEF contextVars
    <3>. QED BY <3>1, <3>2
  <2>3. Kept(iovecs_', sending_curr_', sending_pkts_')
    BY <2>1, <2>2, SendNodesKeeps
  <2>. QED BY <2>1, <2>2, <2>3, <1>a DEF KeptInv
<1>2. ASSUME NEW pkt \in Packets, PlayHeader(pkt) PROVE KeptInv'
  BY <1>2, <1>a, <1>c DEF PlayHeader, connVars
<1>3. CASE Active
  BY <1>3, <1>a, <1>b DEF Active, connVars
<1>4. CASE Play
  <2>1. UNCHANGED contextVars /\ UNCHANGED iovecs_
    BY <1>4 DEF Play, connVars
  <2>2. \/ UNCHANGED out_packet_
        \/ \E n \in 0 .. MaxBatch : out_packet_' \in [1 .. n -> Packets]
    BY <1>4 DEF Play
  <2>3. ASSUME NEW n \in 0 .. MaxBatch, out_packet_' \in [1 .. n -> Packets]
        PROVE  out_packet_' \in Seq(Packets)
    BY SendPathAssumption, <2>3
  <2>. QED BY <2>1, <2>2, <2>3, <1>a, <1>b
<1>5. CASE PlayPacket
  <2>. DEFINE pkt == Head(out_packet_)
  <2>1. /\ out_packet_ # <<>> /\ Fits(pkt) /\ BuildChunk(pkt)
        /\ out_packet_' = Tail(out_packet_) /\ UNCHANGED iovecs_
    BY <1>5 DEF PlayPacket, connVars
  <2>2. pkt \in Packets /\ out_packet_' \in Seq(Packets)
    BY <2>1, <1>a
  <2>. HIDE DEF pkt
  <2>. QED BY <2>1, <2>2, <1>c
<1>6. CASE PlaySend
  <2>1. UNCHANGED contextVars /\ UNCHANGED out_packet_ /\ SendNodes(sending_nodes_)
    BY <1>6 DEF PlaySend
  <2>2. Kept(iovecs_', sending_curr_, sending_pkts_)
    BY <2>1, <1>a, SendNodesKeeps
  <2>. QED BY <2>1, <2>2, <1>d
<1>7. CASE SendNodesWrite
  <2>1. PICK n \in 1 .. Writable(iovecs_) : iovecs_' = AfterSendNodes(iovecs_, n)
    BY <1>7 DEF SendNodesWrite
  <2>2. iovecs_ # <<>> /\ UNCHANGED contextVars /\ UNCHANGED out_packet_ /\ iovecs_ \in Seq(Iovec)
    BY <1>7, <1>a DEF SendNodesWrite, Kept
  <2>3. PICK K \in 1 .. Len(iovecs_) : n \in 1 .. SizeUpTo(iovecs_, K)
    BY <2>1, <2>2, WritableIs
  <2>4. Kept(iovecs_', sending_curr_, sending_pkts_)
    BY <2>1, <2>2, <2>3, <1>a, SendLeaves, KeptRest
  <2>. QED BY <2>2, <2>4, <1>d
<1>8. CASE SendNodesBlocked
  BY <1>8, <1>a, <1>b DEF SendNodesBlocked
<1>9. CASE SendNodesDone
  BY <1>9, <1>e DEF SendNodesDone, connVars
<1>10. CASE OnWrite
  BY <1>10, <1>a, <1>b DEF OnWrite, connVars
<1>11. CASE OnWriteWrite
  <2>1. PICK n \in 1 .. Writable(iovecs_) : iovecs_' = AfterOnWrite(iovecs_, n)
    BY <1>11 DEF OnWriteWrite
  <2>2. iovecs_ # <<>> /\ UNCHANGED contextVars /\ UNCHANGED out_packet_ /\ iovecs_ \in Seq(Iovec)
    BY <1>11, <1>a DEF OnWriteWrite, Kept
  <2>3. PICK K \in 1 .. Len(iovecs_) : n \in 1 .. SizeUpTo(iovecs_, K)
    BY <2>1, <2>2, WritableIs
  <2>4. Kept(iovecs_', sending_curr_, sending_pkts_)
    BY <2>1, <2>2, <2>3, <1>a, WriteLeaves, KeptRest
  <2>. QED BY <2>2, <2>4, <1>d
<1>12. CASE OnWriteBlocked
  BY <1>12, <1>a, <1>b DEF OnWriteBlocked, connVars
<1>13. CASE OnWriteDone
  BY <1>13, <1>e DEF OnWriteDone, connVars
<1>14. CASE Handshake
  <2>1. UNCHANGED contextVars /\ UNCHANGED out_packet_
    BY <1>14 DEF Handshake
  <2>2. ASSUME NEW size \in Nat, OnSendPkt(size) PROVE Kept(iovecs_', sending_curr_, sending_pkts_)
    <3>1. PICK n \in 0 .. size :
            \/ UNCHANGED iovecs_
            \/ iovecs_' = Append(iovecs_, [mem |-> "s0s1s2", from |-> n, len |-> size - n])
      BY <2>2 DEF OnSendPkt
    <3>. DEFINE v == [mem |-> "s0s1s2", from |-> n, len |-> size - n]
    <3>2. v \in Iovec /\ v.mem # "sending" /\ v.mem \notin Packets
      <4>1. "s0s1s2" \notin Packets /\ "s0s1s2" \in Memory
        BY SendPathAssumption DEF Memory
      <4>2. n \in Int /\ size - n \in Nat
        OBVIOUS
      <4>. QED BY <4>1, <4>2 DEF Iovec
    <3>. HIDE DEF v
    <3>3. Kept(<<v>>, sending_curr_, sending_pkts_)
      BY <3>2 DEF Kept
    <3>4. iovecs_ \in Seq(Iovec) => Append(iovecs_, v) = iovecs_ \o <<v>>
      BY <3>2
    <3>5. iovecs_ \in Seq(Iovec)
      BY <1>a DEF Kept
    <3>6. Kept(iovecs_ \o <<v>>, sending_curr_, sending_pkts_)
      BY <1>a, <3>3, KeptBoth
    <3>. QED BY <3>1, <3>4, <3>5, <3>6, <1>a DEF v
  <2>3. CASE UNCHANGED iovecs_
    BY <2>1, <2>3, <1>a, <1>d
  <2>4. CASE \E size \in Nat : OnSendPkt(size)
    BY <2>1, <2>2, <2>4, <1>d
  <2>5. S0S1Size \in Nat /\ S0S1S2Size \in Nat
    BY SendPathAssumption
  <2>. QED BY <2>3, <2>4, <2>5, <1>14 DEF Handshake
<1>15. CASE OnClose
  BY <1>15, <1>a, <1>b DEF OnClose
<1>. QED
  BY <1>0, <1>1, <1>2, <1>3, <1>4, <1>5, <1>6, <1>7, <1>8, <1>9, <1>10,
     <1>11, <1>12, <1>13, <1>14, <1>15
  DEF Next, PlayStep, SendingStep

\* Nothing that waits in sending_ is written over: between the partial write and
\* the callback sending_ only grows, through every message, codec header and
\* packet built meanwhile (SsmsRtmpMessageContext.cpp:654).
THEOREM HeadersStay == Spec => []HeadersKept
<1>1. KeptInv => HeadersKept
  BY Zenon DEF KeptInv, Kept, HeadersKept
<1>. QED BY KeptInit, KeptStep, <1>1, PTL DEF Spec

\* No packet is released while an iovec that waits is in its payload:
\* sending_pkts_ is emptied by the callback alone, which runs when both queues
\* are empty (SsmsRtmpMessageContext.cpp, ClearSendCompleteData).
THEOREM PayloadStays == Spec => []PayloadKept
<1>1. KeptInv => PayloadKept
  BY Zenon DEF KeptInv, Kept, PayloadKept
<1>. QED BY KeptInit, KeptStep, <1>1, PTL DEF Spec

-----------------------------------------------------------------------------
(* The order of bytes.                                                       *)

\* What OnWriteInOrder says of a step.
InOrder ==
  phase = "OnWrite" /\ iovecs_' # iovecs_ =>
    SubSeq(Bytes(iovecs_), written' + 1, Len(Bytes(iovecs_))) = Bytes(iovecs_')

\* Only the write of OnWrite takes bytes in its phase.
LEMMA InOrderStep == KeptInv /\ [Next]_vars => InOrder
<1>. SUFFICES ASSUME KeptInv, [Next]_vars, phase = "OnWrite", iovecs_' # iovecs_
              PROVE  SubSeq(Bytes(iovecs_), written' + 1, Len(Bytes(iovecs_))) = Bytes(iovecs_')
  BY DEF InOrder
<1>1. OnWriteWrite
  <2>1. ~(UNCHANGED vars) /\ ~Active /\ ~OnWriteBlocked /\ ~OnWriteDone /\ ~OnClose
    BY DEF vars, connVars, Active, OnWriteBlocked, OnWriteDone, OnClose
  <2>2. ~Play /\ ~PlayStep /\ ~SendingStep /\ ~OnWrite /\ ~Handshake
    BY DEF Play, PlayStep, PlayPacket, PlaySend, SendingStep, SendNodesWrite,
           SendNodesBlocked, SendNodesDone, OnWrite, Handshake
  <2>3. \A pkt \in Packets : ~PostMessage(pkt) /\ ~PlayHeader(pkt)
    BY DEF PostMessage, PlayHeader
  <2>. QED BY <2>1, <2>2, <2>3 DEF Next
<1>2. PICK n \in 1 .. Writable(iovecs_) : written' = n /\ iovecs_' = AfterOnWrite(iovecs_, n)
  BY <1>1 DEF OnWriteWrite
<1>3. iovecs_ # <<>> /\ iovecs_ \in Seq(Iovec)
  BY <1>1 DEF OnWriteWrite, KeptInv, Kept
<1>4. PICK K \in 1 .. Len(iovecs_) : n \in 1 .. SizeUpTo(iovecs_, K)
  BY <1>2, <1>3, WritableIs
<1>. QED BY <1>2, <1>3, <1>4, WriteLeaves

\* OnWrite sends each byte once and in order, wherever writev stops: inside an
\* iovec, between two of them or at IOV_MAX, for queues of any length.
THEOREM WritesInOrder == Spec => OnWriteInOrder
<1>1. KeptInv /\ [Next]_vars => [InOrder]_vars
  BY InOrderStep
<1>. QED BY KeptInit, KeptStep, <1>1, PTL DEF Spec, OnWriteInOrder, InOrder

=============================================================================
