---------------------------- MODULE BufferProofs ----------------------------
(***************************************************************************)
(* The indices of SsmsBuffer stay in order, and SsmsBuffer implements the  *)
(* queue of Fifo: for every base, all strings and widths, every size of    *)
(* the free head, of a new buffer and of extrabuf, and any bound.          *)
(*                                                                         *)
(* Each function on a value of the members has a lemma that says which     *)
(* bytes can be read after it; the step of an operation cites it.          *)
(***************************************************************************)
EXTENDS Buffer, SequenceTheorems, TLAPS

Sound(v) ==
  /\ v = [data |-> v.data, reader |-> v.reader, writer |-> v.writer]
  /\ v.data \in Seq(Byte)
  /\ v.reader \in Nat /\ v.writer \in Nat
  /\ v.reader <= v.writer /\ v.writer <= Len(v.data)
  /\ kCheapPrepend + kInitialSize <= Len(v.data)

LEMMA Sizes == /\ kCheapPrepend \in Nat /\ kInitialSize \in Nat /\ 0 \in Byte
               /\ Strings \subseteq Seq(Byte) /\ Widths \subseteq Nat \ {0}
  BY BufferAssumption DEF Byte

\* SubSeq is the code's peek() with readableBytes().
LEMMA ReadableFacts ==
  ASSUME NEW v, Sound(v)
  PROVE  /\ Readable(v) \in Seq(Byte)
         /\ Len(Readable(v)) = v.writer - v.reader
         /\ \A i \in 1 .. v.writer - v.reader : Readable(v)[i] = v.data[v.reader + i]
  <1>1. \A i \in v.reader + 1 .. v.writer : v.data[i] \in Byte
    BY ElementOfSeq DEF Sound
  <1> QED BY <1>1, SubSeqProperties DEF Readable, Sound

\* ... and these bytes are all that matters of it.
LEMMA ReadableIs ==
  ASSUME NEW v, Sound(v), NEW q \in Seq(Byte), Len(q) = v.writer - v.reader,
         \A i \in 1 .. Len(q) : v.data[v.reader + i] = q[i]
  PROVE  Readable(v) = q
  BY ReadableFacts, SeqEqual

\* A part of the bytes that can be read, taken from the array or from the queue.
LEMMA Prefix ==
  ASSUME NEW v, Sound(v), NEW n \in 0 .. readableBytes(v)
  PROVE  SubSeq(v.data, v.reader + 1, v.reader + n) = SubSeq(Readable(v), 1, n)
  <1> DEFINE s == SubSeq(v.data, v.reader + 1, v.reader + n)
             t == SubSeq(Readable(v), 1, n)
  <1>1. /\ s \in Seq(Byte) /\ Len(s) = n
        /\ \A i \in 1 .. n : s[i] = v.data[v.reader + i]
    <2>1. \A i \in v.reader + 1 .. v.reader + n : v.data[i] \in Byte
      BY ElementOfSeq DEF Sound, readableBytes
    <2> QED BY <2>1, SubSeqProperties, SMTT(30) DEF Sound, readableBytes
  <1>2. /\ t \in Seq(Byte) /\ Len(t) = n
        /\ \A i \in 1 .. n : t[i] = Readable(v)[i]
    <2>1. \A i \in 1 .. n : Readable(v)[i] \in Byte
      BY ReadableFacts, ElementOfSeq DEF Sound, readableBytes
    <2> QED BY <2>1, SubSeqProperties DEF Sound, readableBytes
  <1>3. \A i \in 1 .. n : s[i] = t[i]
    <2>1. \A i \in 1 .. v.writer - v.reader : Readable(v)[i] = v.data[v.reader + i]
      BY ReadableFacts
    <2>2. v.writer \in Nat /\ v.reader \in Nat /\ n \in 0 .. v.writer - v.reader
      BY DEF Sound, readableBytes
    <2> HIDE DEF s, t
    <2> QED BY <1>1, <1>2, <2>1, <2>2
  <1> QED BY <1>1, <1>2, <1>3, SeqEqual

----------------------------------------------------------------------------
(* The array.                                                              *)

\* vector::resize keeps what was there.
LEMMA ResizedFacts ==
  ASSUME NEW data \in Seq(Byte), NEW size \in Nat
  PROVE  /\ Resized(data, size) \in Seq(Byte)
         /\ Len(Resized(data, size)) = size
         /\ \A i \in 1 .. size :
              Resized(data, size)[i] = IF i <= Len(data) THEN data[i] ELSE 0
  <1>1. \A i \in 1 .. size : (IF i <= Len(data) THEN data[i] ELSE 0) \in Byte
    BY Sizes, ElementOfSeq, LenProperties
  <1>2. Resized(data, size) \in [1 .. size -> Byte]
    BY <1>1 DEF Resized
  <1>3. Resized(data, size) \in Seq(Byte)
    BY <1>2, SeqDef
  <1>4. DOMAIN Resized(data, size) = 1 .. size
    BY <1>2
  <1>5. Len(Resized(data, size)) = size
    BY <1>3, <1>4, LenProperties
  <1> QED BY <1>3, <1>5 DEF Resized

\* std::copy writes what it is given and nothing else.
LEMMA CopiedFacts ==
  ASSUME NEW data \in Seq(Byte), NEW s \in Seq(Byte), NEW at \in Nat,
         at + Len(s) <= Len(data)
  PROVE  /\ Copied(data, s, at) \in Seq(Byte)
         /\ Len(Copied(data, s, at)) = Len(data)
         /\ \A i \in 1 .. Len(data) :
              Copied(data, s, at)[i] = IF at < i /\ i <= at + Len(s) THEN s[i - at] ELSE data[i]
  <1>1. Len(data) \in Nat /\ Len(s) \in Nat
    BY LenProperties
  <1>2. \A i \in 1 .. Len(data) :
          (IF at < i /\ i <= at + Len(s) THEN s[i - at] ELSE data[i]) \in Byte
    BY <1>1, ElementOfSeq
  <1>3. Copied(data, s, at) \in [1 .. Len(data) -> Byte]
    BY <1>2 DEF Copied
  <1>4. Copied(data, s, at) \in Seq(Byte)
    BY <1>1, <1>3, SeqDef
  <1>5. DOMAIN Copied(data, s, at) = 1 .. Len(data)
    BY <1>3
  <1>6. Len(Copied(data, s, at)) = Len(data)
    BY <1>1, <1>4, <1>5, LenProperties
  <1> QED BY <1>4, <1>6 DEF Copied

----------------------------------------------------------------------------
(* The functions.                                                          *)

\* Room is made without touching what can be read.  Growing or compacting, the
\* second only when the free head is longer than kCheapPrepend (the code asserts it).
LEMMA MakeSpace ==
  ASSUME NEW v, Sound(v), NEW len \in Nat, writableBytes(v) < len
  PROVE  /\ Sound(makeSpace(v, len))
         /\ Readable(makeSpace(v, len)) = Readable(v)
         /\ len <= writableBytes(makeSpace(v, len))
         /\ writableBytes(v) + prependableBytes(v) >= len + kCheapPrepend => kCheapPrepend < v.reader
  <1> DEFINE w == makeSpace(v, len)
  <1>0. /\ Len(v.data) \in Nat /\ v.data \in Seq(Byte)
        /\ v.reader \in Nat /\ v.writer \in Nat /\ v.reader <= v.writer /\ v.writer <= Len(v.data)
        /\ Len(v.data) - v.writer < len
        /\ kCheapPrepend + kInitialSize <= Len(v.data)
    BY LenProperties DEF Sound, writableBytes
  <1>a. /\ Readable(v) \in Seq(Byte) /\ Len(Readable(v)) = v.writer - v.reader
        /\ \A i \in 1 .. v.writer - v.reader : Readable(v)[i] = v.data[v.reader + i]
    BY ReadableFacts
  <1>1. CASE writableBytes(v) + prependableBytes(v) < len + kCheapPrepend
    <2> DEFINE data == Resized(v.data, v.writer + len)
    <2>1. w = [v EXCEPT !.data = data]
      BY <1>1 DEF makeSpace
    <2>2. w = [data |-> data, reader |-> v.reader, writer |-> v.writer]
      BY <2>1 DEF Sound
    <2>3. /\ data \in Seq(Byte) /\ Len(data) = v.writer + len
          /\ \A i \in 1 .. Len(v.data) : data[i] = v.data[i]
      <3>1. v.writer + len \in Nat /\ Len(v.data) <= v.writer + len
        BY <1>0
      <3>2. /\ data \in Seq(Byte) /\ Len(data) = v.writer + len
            /\ \A i \in 1 .. v.writer + len : data[i] = IF i <= Len(v.data) THEN v.data[i] ELSE 0
        BY <1>0, <3>1, ResizedFacts
      <3> HIDE DEF data
      <3>3. \A i \in 1 .. Len(v.data) : i \in 1 .. v.writer + len /\ i <= Len(v.data)
        BY <1>0, <3>1
      <3>4. \A i \in 1 .. Len(v.data) : data[i] = v.data[i]
        BY <3>2, <3>3
      <3> QED BY <3>2, <3>4
    <2> HIDE DEF data, w
    <2>w. w.data = data /\ w.reader = v.reader /\ w.writer = v.writer
      BY <2>2
    <2>4. Sound(w)
      <3>1. v.writer <= v.writer + len /\ kCheapPrepend + kInitialSize <= v.writer + len
        BY <1>0, Sizes
      <3>2. w = [data |-> w.data, reader |-> w.reader, writer |-> w.writer]
        BY <2>2
      <3> QED BY <1>0, <2>w, <2>3, <3>1, <3>2 DEF Sound
    <2>5. \A i \in 1 .. Len(Readable(v)) : w.data[w.reader + i] = Readable(v)[i]
      <3>1. \A i \in 1 .. Len(Readable(v)) : v.reader + i \in 1 .. Len(v.data)
        BY <1>0, <1>a
      <3> QED BY <1>a, <2>w, <2>3, <3>1
    <2>6. Readable(w) = Readable(v)
      BY <1>a, <2>2, <2>4, <2>5, ReadableIs
    <2>7. len <= writableBytes(w)
      BY <1>0, <2>w, <2>3 DEF writableBytes
    <2>8. ~(writableBytes(v) + prependableBytes(v) >= len + kCheapPrepend)
      BY <1>0, <1>1, Sizes DEF writableBytes, prependableBytes
    <2> QED BY <2>4, <2>6, <2>7, <2>8 DEF w
  <1>2. CASE ~(writableBytes(v) + prependableBytes(v) < len + kCheapPrepend)
    <2> DEFINE data == Copied(v.data, Readable(v), kCheapPrepend)
    <2>1. kCheapPrepend < v.reader
      BY <1>0, <1>2, Sizes DEF writableBytes, prependableBytes
    <2>2. w = [data |-> data, reader |-> kCheapPrepend,
               writer |-> kCheapPrepend + (v.writer - v.reader)]
      BY <1>2 DEF makeSpace, readableBytes
    <2>3. /\ data \in Seq(Byte) /\ Len(data) = Len(v.data)
          /\ \A i \in 1 .. Len(v.data) :
               data[i] = IF kCheapPrepend < i /\ i <= kCheapPrepend + Len(Readable(v))
                         THEN Readable(v)[i - kCheapPrepend] ELSE v.data[i]
      <3>1. kCheapPrepend + Len(Readable(v)) <= Len(v.data)
        BY <1>0, <1>a, <2>1, Sizes
      <3> QED BY <1>0, <1>a, <3>1, Sizes, CopiedFacts, SMTT(30)
    <2> HIDE DEF data, w
    <2>4. Sound(w)
      BY <1>0, <2>1, <2>2, <2>3, Sizes DEF Sound
    <2>5. \A i \in 1 .. Len(Readable(v)) : w.data[w.reader + i] = Readable(v)[i]
      <3> SUFFICES ASSUME NEW i \in 1 .. Len(Readable(v))
                   PROVE  data[kCheapPrepend + i] = Readable(v)[i]
        BY <2>2
      <3>1. kCheapPrepend + i \in 1 .. Len(v.data) /\ (kCheapPrepend + i) - kCheapPrepend = i
        BY <1>0, <1>a, <2>1, Sizes
      <3>2. kCheapPrepend < kCheapPrepend + i /\ kCheapPrepend + i <= kCheapPrepend + Len(Readable(v))
        BY <1>0, <1>a, Sizes
      <3> QED BY <2>3, <3>1, <3>2
    <2>6. Readable(w) = Readable(v)
      <3>1. Len(Readable(v)) = w.writer - w.reader
        BY <1>0, <1>a, <2>2, Sizes
      <3> QED BY <1>a, <2>4, <2>5, <3>1, ReadableIs
    <2>7. len <= writableBytes(w)
      BY <1>0, <1>2, <2>2, <2>3, Sizes DEF writableBytes, prependableBytes
    <2> QED BY <2>1, <2>4, <2>6, <2>7 DEF w
  <1> QED BY <1>1, <1>2

\* After ensureWritableBytes its assertion holds and nothing else has changed.
LEMMA Ensure ==
  ASSUME NEW v, Sound(v), NEW len \in Nat
  PROVE  /\ Sound(ensureWritableBytes(v, len))
         /\ Readable(ensureWritableBytes(v, len)) = Readable(v)
         /\ len <= writableBytes(ensureWritableBytes(v, len))
  <1>1. CASE writableBytes(v) < len
    BY <1>1, MakeSpace DEF ensureWritableBytes
  <1>2. CASE ~(writableBytes(v) < len)
    BY <1>2, LenProperties DEF ensureWritableBytes, writableBytes, Sound
  <1> QED BY <1>1, <1>2

\* Bytes copied behind the readable ones, where there is room for them.
LEMMA Filled ==
  ASSUME NEW v, Sound(v), NEW s \in Seq(Byte), Len(s) <= writableBytes(v),
         NEW w, w = [data |-> Copied(v.data, s, v.writer), reader |-> v.reader,
                     writer |-> v.writer + Len(s)]
  PROVE  Sound(w) /\ Readable(w) = Readable(v) \o s
  <1> DEFINE q == Readable(v) \o s
  <1>0. /\ Len(v.data) \in Nat /\ Len(s) \in Nat /\ v.data \in Seq(Byte)
        /\ v.reader \in Nat /\ v.writer \in Nat /\ v.reader <= v.writer
        /\ v.writer + Len(s) <= Len(v.data)
        /\ kCheapPrepend + kInitialSize <= Len(v.data)
    BY LenProperties DEF Sound, writableBytes
  <1>a. /\ Readable(v) \in Seq(Byte) /\ Len(Readable(v)) = v.writer - v.reader
        /\ \A i \in 1 .. v.writer - v.reader : Readable(v)[i] = v.data[v.reader + i]
    BY ReadableFacts
  <1>1. /\ w.data \in Seq(Byte) /\ Len(w.data) = Len(v.data)
        /\ \A i \in 1 .. Len(v.data) :
             w.data[i] = IF v.writer < i /\ i <= v.writer + Len(s) THEN s[i - v.writer] ELSE v.data[i]
    <2>1. w.data = Copied(v.data, s, v.writer)
      OBVIOUS
    <2>2. /\ Copied(v.data, s, v.writer) \in Seq(Byte)
          /\ Len(Copied(v.data, s, v.writer)) = Len(v.data)
          /\ \A i \in 1 .. Len(v.data) : Copied(v.data, s, v.writer)[i] =
               IF v.writer < i /\ i <= v.writer + Len(s) THEN s[i - v.writer] ELSE v.data[i]
      BY <1>0, CopiedFacts
    <2> QED BY <2>1, <2>2
  <1>2. w.reader = v.reader /\ w.writer = v.writer + Len(s)
    OBVIOUS
  <1>3. Sound(w)
    BY <1>0, <1>1, <1>2 DEF Sound
  <1>4. /\ q \in Seq(Byte) /\ Len(q) = w.writer - w.reader
        /\ \A i \in 1 .. Len(q) : q[i] = IF i <= v.writer - v.reader THEN Readable(v)[i]
                                         ELSE s[i - (v.writer - v.reader)]
    <2>1. /\ q \in Seq(Byte) /\ Len(q) = (v.writer - v.reader) + Len(s)
          /\ \A i \in 1 .. (v.writer - v.reader) + Len(s) :
               q[i] = IF i <= v.writer - v.reader THEN Readable(v)[i]
                      ELSE s[i - (v.writer - v.reader)]
      BY <1>a, ConcatProperties
    <2>2. (v.writer - v.reader) + Len(s) = w.writer - w.reader
      BY <1>0, <1>2
    <2> HIDE DEF q
    <2> QED BY <2>1, <2>2
  <1>5. \A i \in 1 .. Len(q) : w.data[w.reader + i] = q[i]
    <2> SUFFICES ASSUME NEW i \in 1 .. Len(q) PROVE w.data[w.reader + i] = q[i]
      OBVIOUS
    <2> HIDE DEF q
    <2>1. v.reader + i \in 1 .. Len(v.data)
      BY <1>0, <1>2, <1>4
    <2>2. CASE i <= v.writer - v.reader
      <3>1. ~(v.writer < v.reader + i) /\ i \in 1 .. v.writer - v.reader
        BY <1>0, <1>2, <1>4, <2>2
      <3>2. w.data[v.reader + i] = v.data[v.reader + i]
        BY <1>1, <2>1, <3>1
      <3> QED BY <1>a, <1>2, <1>4, <2>2, <3>1, <3>2
    <2>3. CASE ~(i <= v.writer - v.reader)
      <3>1. (v.reader + i) - v.writer = i - (v.writer - v.reader)
        BY <1>0
      <3>2. v.writer < v.reader + i /\ v.reader + i <= v.writer + Len(s)
        BY <1>0, <1>2, <1>4, <2>3
      <3>3. w.data[v.reader + i] = s[(v.reader + i) - v.writer]
        BY <1>1, <2>1, <3>2
      <3> QED BY <1>2, <1>4, <2>3, <3>1, <3>3
    <2> QED BY <2>2, <2>3
  <1> QED BY <1>3, <1>4, <1>5, ReadableIs

\* append puts its bytes behind all that can be read, wherever room was found.
LEMMA Append_ ==
  ASSUME NEW v, Sound(v), NEW s \in Seq(Byte)
  PROVE  Sound(append(v, s)) /\ Readable(append(v, s)) = Readable(v) \o s
  <1> DEFINE room == ensureWritableBytes(v, Len(s))
             w == append(v, s)
  <1>1. /\ Sound(room) /\ Readable(room) = Readable(v) /\ Len(s) <= writableBytes(room)
    BY Ensure, LenProperties
  <1>2. w = [room EXCEPT !.data = Copied(@, s, room.writer), !.writer = @ + Len(s)]
    BY DEF append
  <1> HIDE DEF room, w
  <1>3. w = [data |-> Copied(room.data, s, room.writer), reader |-> room.reader,
             writer |-> room.writer + Len(s)]
    BY <1>1, <1>2 DEF Sound
  <1>4. Sound(w) /\ Readable(w) = Readable(room) \o s
    BY <1>1, <1>3, Filled
  <1> QED BY <1>1, <1>4 DEF w

\* readFd is an append, whether or not it spills into extrabuf.
LEMMA ReadFd_ ==
  ASSUME NEW v, Sound(v), NEW s \in Seq(Byte)
  PROVE  Sound(readFd(v, s)) /\ Readable(readFd(v, s)) = Readable(v) \o s
  <1> DEFINE n == writableBytes(v)
  <1>0. /\ v = [data |-> v.data, reader |-> v.reader, writer |-> v.writer]
        /\ n = Len(v.data) - v.writer /\ n \in Nat /\ Len(s) \in Nat
        /\ v.writer \in Nat /\ Len(v.data) \in Nat
    BY LenProperties DEF Sound, writableBytes
  <1> HIDE DEF n
  <1>1. CASE Len(s) <= n
    <2>1. readFd(v, s) = [data |-> Copied(v.data, s, v.writer), reader |-> v.reader,
                          writer |-> v.writer + Len(s)]
      BY <1>0, <1>1 DEF readFd, n
    <2> QED BY <1>1, <2>1, Filled DEF n
  <1>2. CASE ~(Len(s) <= n)
    <2> DEFINE s1 == SubSeq(s, 1, n)
               s2 == SubSeq(s, n + 1, Len(s))
               u  == [data |-> Copied(v.data, s1, v.writer), reader |-> v.reader,
                      writer |-> v.writer + Len(s1)]
    <2>1. /\ s1 \in Seq(Byte) /\ Len(s1) = n
          /\ \A i \in 1 .. n : s1[i] = s[i]
      <3>1. \A i \in 1 .. n : s[i] \in Byte
        BY <1>0, <1>2, ElementOfSeq
      <3> QED BY <1>0, <3>1, SubSeqProperties
    <2>2. /\ s2 \in Seq(Byte) /\ Len(s2) = Len(s) - n
          /\ \A i \in 1 .. Len(s) - n : s2[i] = s[n + i]
      <3>1. \A i \in n + 1 .. Len(s) : s[i] \in Byte
        BY <1>0, <1>2, ElementOfSeq
      <3> QED BY <1>0, <1>2, <3>1, SubSeqProperties
    <2> HIDE DEF s1, s2
    <2>a. Len(s1) <= writableBytes(v) /\ v.writer + Len(s1) = Len(v.data)
      BY <1>0, <2>1 DEF n
    <2>b. /\ u = [data |-> Copied(v.data, s1, v.writer), reader |-> v.reader,
                 writer |-> v.writer + Len(s1)]
          /\ u = [v EXCEPT !.data = Copied(@, s1, v.writer), !.writer = Len(v.data)]
      <3> DEFINE x == [v EXCEPT !.data = Copied(@, s1, v.writer), !.writer = Len(v.data)]
      <3>1. x = [v EXCEPT !.data = Copied(@, s1, v.writer), !.writer = Len(v.data)]
        OBVIOUS
      <3> HIDE DEF x
      <3>2. x = [data |-> Copied(v.data, s1, v.writer), reader |-> v.reader, writer |-> Len(v.data)]
        BY <3>1 DEF Sound
      <3> QED BY <2>a, <3>1, <3>2
    <2> HIDE DEF u
    <2>3. Sound(u) /\ Readable(u) = Readable(v) \o s1
      BY <2>1, <2>a, <2>b, Filled
    <2>4. readFd(v, s) = append(u, s2)
      BY <1>2, <2>b DEF readFd, n, s1, s2
    <2>5. s1 \o s2 = s
      <3>1. /\ s1 \o s2 \in Seq(Byte) /\ Len(s1 \o s2) = Len(s1) + Len(s2)
            /\ \A i \in 1 .. Len(s1) + Len(s2) :
                 (s1 \o s2)[i] = IF i <= Len(s1) THEN s1[i] ELSE s2[i - Len(s1)]
        BY <2>1, <2>2, ConcatProperties
      <3>2. Len(s1) + Len(s2) = Len(s)
        <4>1. n \in Nat /\ Len(s) \in Nat /\ Len(s1) = n /\ Len(s2) = Len(s) - n
          BY <1>0, <2>1, <2>2
        <4> QED BY <4>1
      <3> DEFINE t == s1 \o s2
      <3> HIDE DEF t
      <3>3. /\ t \in Seq(Byte) /\ Len(t) = Len(s)
            /\ \A i \in 1 .. Len(s) : t[i] = IF i <= n THEN s1[i] ELSE s2[i - n]
        BY <2>1, <3>1, <3>2 DEF t
      <3>4. \A i \in 1 .. Len(s) : t[i] = s[i]
        <4> SUFFICES ASSUME NEW i \in 1 .. Len(s) PROVE t[i] = s[i]
          OBVIOUS
        <4>1. CASE i <= n
          BY <1>0, <2>1, <3>3, <4>1
        <4>2. CASE ~(i <= n)
          <5>1. i - n \in 1 .. Len(s) - n /\ n + (i - n) = i
            BY <1>0, <4>2
          <5> QED BY <2>2, <3>3, <4>2, <5>1
        <4> QED BY <4>1, <4>2
      <3> QED BY <3>3, <3>4, SeqEqual DEF t
    <2>6. (Readable(v) \o s1) \o s2 = Readable(v) \o s
      <3>1. Readable(v) \in Seq(Byte) /\ s1 \in Seq(Byte) /\ s2 \in Seq(Byte)
        BY <2>1, <2>2, ReadableFacts
      <3>2. (Readable(v) \o s1) \o s2 = Readable(v) \o (s1 \o s2)
        BY <3>1, ConcatAssociative
      <3> QED BY <2>5, <3>2
    <2> QED BY <2>2, <2>3, <2>4, <2>6, Append_
  <1> QED BY <1>1, <1>2

\* retrieve takes from the front; of everything, it starts the array anew.
LEMMA Retrieve_ ==
  ASSUME NEW v, Sound(v), NEW len \in 0 .. readableBytes(v)
  PROVE  /\ Sound(retrieve(v, len))
         /\ Readable(retrieve(v, len)) = SubSeq(Readable(v), len + 1, Len(Readable(v)))
  <1> DEFINE w == retrieve(v, len)
             q == SubSeq(Readable(v), len + 1, Len(Readable(v)))
  <1>0. /\ v = [data |-> v.data, reader |-> v.reader, writer |-> v.writer]
        /\ v.data \in Seq(Byte) /\ Len(v.data) \in Nat
        /\ v.reader \in Nat /\ v.writer \in Nat /\ v.reader <= v.writer /\ v.writer <= Len(v.data)
        /\ len \in 0 .. v.writer - v.reader
        /\ kCheapPrepend + kInitialSize <= Len(v.data)
    BY LenProperties DEF Sound, readableBytes
  <1>a. /\ Readable(v) \in Seq(Byte) /\ Len(Readable(v)) = v.writer - v.reader
        /\ \A i \in 1 .. v.writer - v.reader : Readable(v)[i] = v.data[v.reader + i]
    BY ReadableFacts
  <1>b. /\ q \in Seq(Byte) /\ Len(q) = v.writer - v.reader - len
        /\ \A i \in 1 .. v.writer - v.reader - len : q[i] = Readable(v)[len + i]
    <2>1. \A i \in len + 1 .. Len(Readable(v)) : Readable(v)[i] \in Byte
      BY <1>0, <1>a, ElementOfSeq
    <2> QED BY <1>0, <1>a, <2>1, SubSeqProperties
  <1> HIDE DEF q
  <1>1. CASE len < readableBytes(v)
    <2>1. w = [data |-> v.data, reader |-> v.reader + len, writer |-> v.writer]
      BY <1>0, <1>1 DEF retrieve
    <2> HIDE DEF w
    <2>2. Sound(w)
      BY <1>0, <2>1 DEF Sound
    <2>3. w.data = v.data /\ w.reader = v.reader + len /\ w.writer = v.writer
      BY <2>1
    <2>4. \A i \in 1 .. Len(q) : w.data[w.reader + i] = q[i]
      <3>1. \A i \in 1 .. Len(q) : /\ len + i \in 1 .. v.writer - v.reader
                                  /\ v.reader + (len + i) = (v.reader + len) + i
        BY <1>0, <1>b
      <3> QED BY <1>a, <1>b, <2>3, <3>1
    <2>5. Len(q) = w.writer - w.reader
      BY <1>0, <1>b, <2>3
    <2> QED BY <1>b, <2>2, <2>4, <2>5, ReadableIs DEF w, q
  <1>2. CASE ~(len < readableBytes(v))
    <2>1. w = [data |-> v.data, reader |-> kCheapPrepend, writer |-> kCheapPrepend]
      BY <1>0, <1>2 DEF retrieve
    <2>2. Len(q) = 0
      BY <1>0, <1>2, <1>b DEF readableBytes
    <2> HIDE DEF w
    <2>3. Sound(w)
      BY <1>0, <2>1, Sizes DEF Sound
    <2>4. Len(q) = w.writer - w.reader /\ \A i \in 1 .. Len(q) : w.data[w.reader + i] = q[i]
      BY <2>1, <2>2, Sizes
    <2> QED BY <1>b, <2>3, <2>4, ReadableIs DEF w, q
  <1> QED BY <1>1, <1>2

\* prepend writes into the free head, in front of all that can be read.
LEMMA Prepend_ ==
  ASSUME NEW v, Sound(v), NEW s \in Seq(Byte), Len(s) <= v.reader
  PROVE  Sound(prepend(v, s)) /\ Readable(prepend(v, s)) = s \o Readable(v)
  <1> DEFINE w  == prepend(v, s)
             q  == s \o Readable(v)
             at == v.reader - Len(s)
  <1>0. /\ v = [data |-> v.data, reader |-> v.reader, writer |-> v.writer]
        /\ v.data \in Seq(Byte) /\ Len(v.data) \in Nat /\ Len(s) \in Nat
        /\ v.reader \in Nat /\ v.writer \in Nat /\ v.reader <= v.writer /\ v.writer <= Len(v.data)
        /\ kCheapPrepend + kInitialSize <= Len(v.data)
    BY LenProperties DEF Sound
  <1>a. /\ Readable(v) \in Seq(Byte) /\ Len(Readable(v)) = v.writer - v.reader
        /\ \A i \in 1 .. v.writer - v.reader : Readable(v)[i] = v.data[v.reader + i]
    BY ReadableFacts
  <1>1. at \in Nat /\ at + Len(s) = v.reader /\ at + Len(s) <= Len(v.data)
    BY <1>0
  <1>2. w = [data |-> Copied(v.data, s, at), reader |-> at, writer |-> v.writer]
    <2>1. w = [v EXCEPT !.data = Copied(@, s, at), !.reader = at]
      BY DEF prepend
    <2> HIDE DEF w, at
    <2> QED BY <2>1 DEF Sound
  <1>b. /\ q \in Seq(Byte) /\ Len(q) = Len(s) + Len(Readable(v))
        /\ \A i \in 1 .. Len(s) + Len(Readable(v)) :
             q[i] = IF i <= Len(s) THEN s[i] ELSE Readable(v)[i - Len(s)]
    BY <1>a, ConcatProperties
  <1>c. /\ Copied(v.data, s, at) \in Seq(Byte)
        /\ Len(Copied(v.data, s, at)) = Len(v.data)
        /\ \A i \in 1 .. Len(v.data) : Copied(v.data, s, at)[i] =
             IF at < i /\ i <= at + Len(s) THEN s[i - at] ELSE v.data[i]
    BY <1>0, <1>1, CopiedFacts
  <1> HIDE DEF w, q, at
  <1>3. /\ w.data \in Seq(Byte) /\ Len(w.data) = Len(v.data)
        /\ w.reader = at /\ w.writer = v.writer
        /\ \A i \in 1 .. Len(v.data) :
             w.data[i] = IF at < i /\ i <= at + Len(s) THEN s[i - at] ELSE v.data[i]
    BY <1>2, <1>c
  <1>4. Sound(w)
    <2>1. w = [data |-> w.data, reader |-> w.reader, writer |-> w.writer]
      BY <1>2
    <2>2. at <= v.writer
      BY <1>0, <1>1
    <2> QED BY <1>0, <1>1, <1>3, <2>1, <2>2 DEF Sound
  <1>5. Len(q) = w.writer - w.reader
    BY <1>0, <1>a, <1>b, <1>1, <1>3
  <1>6. \A i \in 1 .. Len(q) : w.data[w.reader + i] = q[i]
    <2> SUFFICES ASSUME NEW i \in 1 .. Len(q) PROVE w.data[at + i] = q[i]
      BY <1>3
    <2>1. at + i \in 1 .. Len(v.data) /\ i \in 1 .. Len(s) + Len(Readable(v))
      BY <1>0, <1>1, <1>3, <1>5, <1>b
    <2>2. CASE i <= Len(s)
      <3>1. at < at + i /\ at + i <= at + Len(s) /\ (at + i) - at = i
        BY <1>0, <1>1, <1>b, <2>2
      <3>2. w.data[at + i] = s[(at + i) - at]
        BY <1>3, <2>1, <3>1
      <3> QED BY <1>b, <2>1, <2>2, <3>1, <3>2
    <2>3. CASE ~(i <= Len(s))
      <3>1. /\ ~(at + i <= at + Len(s))
            /\ i - Len(s) \in 1 .. v.writer - v.reader
            /\ v.reader + (i - Len(s)) = at + i
        <4>1. /\ i \in Nat /\ Len(s) \in Nat /\ at \in Nat /\ v.reader \in Nat /\ v.writer \in Nat
              /\ i <= Len(s) + (v.writer - v.reader) /\ at + Len(s) = v.reader
          BY <1>0, <1>1, <1>a, <2>1
        <4> QED BY <2>3, <4>1
      <3>2. w.data[at + i] = v.data[at + i]
        BY <1>3, <2>1, <3>1
      <3>3. Readable(v)[i - Len(s)] = v.data[v.reader + (i - Len(s))]
        BY <1>a, <3>1
      <3> QED BY <1>b, <2>1, <2>3, <3>1, <3>2, <3>3
    <2> QED BY <2>2, <2>3
  <1> QED BY <1>b, <1>4, <1>5, <1>6, ReadableIs DEF w, q

LEMMA FreshFacts == Sound(Fresh) /\ Readable(Fresh) = <<>>
  <1> DEFINE data == [i \in 1 .. kCheapPrepend + kInitialSize |-> 0]
  <1>1. kCheapPrepend + kInitialSize \in Nat
    BY Sizes
  <1>2. data \in [1 .. kCheapPrepend + kInitialSize -> Byte]
    BY Sizes
  <1>3. data \in Seq(Byte)
    BY <1>1, <1>2, SeqDef
  <1>4. Len(data) = kCheapPrepend + kInitialSize
    BY <1>1, <1>2, <1>3, LenProperties
  <1>5. Fresh = [data |-> data, reader |-> kCheapPrepend, writer |-> kCheapPrepend]
    BY DEF Fresh
  <1> HIDE DEF data
  <1>6. Sound(Fresh)
    BY <1>3, <1>4, <1>5, Sizes DEF Sound
  <1>7. Readable(Fresh) = <<>>
    <2>1. <<>> \in Seq(Byte) /\ Len(<<>>) = 0
      OBVIOUS
    <2>2. Fresh.writer - Fresh.reader = 0
      BY <1>5, Sizes
    <2>3. \A i \in 1 .. Len(<<>>) : Fresh.data[Fresh.reader + i] = <<>>[i]
      BY <2>1
    <2> QED BY <1>6, <2>1, <2>2, <2>3, ReadableIs
  <1> QED BY <1>6, <1>7

\* What moves into another buffer is what could be read.
LEMMA Shrink_ ==
  ASSUME NEW v, Sound(v), NEW reserve \in Nat
  PROVE  Sound(shrink(v, reserve)) /\ Readable(shrink(v, reserve)) = Readable(v)
  <1> DEFINE room == ensureWritableBytes(Fresh, readableBytes(v) + reserve)
  <1>1. readableBytes(v) + reserve \in Nat
    BY DEF Sound, readableBytes
  <1>2. Sound(room) /\ Readable(room) = <<>>
    BY <1>1, FreshFacts, Ensure
  <1>3. Readable(v) \in Seq(Byte)
    BY ReadableFacts
  <1>4. shrink(v, reserve) = append(room, Readable(v))
    BY DEF shrink
  <1> HIDE DEF room
  <1>5. /\ Sound(append(room, Readable(v)))
        /\ Readable(append(room, Readable(v))) = <<>> \o Readable(v)
    BY <1>2, <1>3, Append_
  <1>6. <<>> \o Readable(v) = Readable(v)
    BY <1>3, ConcatEmptySeq
  <1> QED BY <1>4, <1>5, <1>6

\* unwrite gives back the last bytes.
LEMMA Unwrite_ ==
  ASSUME NEW v, Sound(v), NEW len \in 0 .. readableBytes(v),
         NEW w, w = [v EXCEPT !.writer = @ - len]
  PROVE  Sound(w) /\ Readable(w) = SubSeq(Readable(v), 1, Len(Readable(v)) - len)
  <1>0. /\ v = [data |-> v.data, reader |-> v.reader, writer |-> v.writer]
        /\ v.reader \in Nat /\ v.writer \in Nat /\ v.reader <= v.writer /\ v.writer <= Len(v.data)
        /\ v.data \in Seq(Byte) /\ Len(v.data) \in Nat
        /\ kCheapPrepend + kInitialSize <= Len(v.data)
        /\ len \in 0 .. v.writer - v.reader
    BY LenProperties DEF Sound, readableBytes
  <1>1. w = [data |-> v.data, reader |-> v.reader, writer |-> v.writer - len]
    BY <1>0
  <1>2. w.data = v.data /\ w.reader = v.reader /\ w.writer = v.writer - len
    BY <1>1
  <1>3. Sound(w)
    <2>1. v.writer - len \in Nat /\ v.reader <= v.writer - len /\ v.writer - len <= Len(v.data)
      BY <1>0
    <2> QED BY <1>0, <1>1, <1>2, <2>1 DEF Sound
  <1>4. Len(Readable(v)) = v.writer - v.reader
    BY ReadableFacts
  <1> DEFINE m == (v.writer - v.reader) - len
  <1>5. m \in 0 .. readableBytes(v) /\ w.writer = v.reader + m
    BY <1>0, <1>2 DEF readableBytes
  <1> HIDE DEF m
  <1>6. SubSeq(v.data, v.reader + 1, v.reader + m) = SubSeq(Readable(v), 1, m)
    BY <1>5, Prefix
  <1>7. Readable(w) = SubSeq(Readable(v), 1, m)
    BY <1>2, <1>5, <1>6 DEF Readable
  <1> QED BY <1>3, <1>4, <1>7 DEF m

----------------------------------------------------------------------------
(* The operations.                                                         *)

IInv == Sound(This)

\* What an assignment of the members makes of the array and of the queue.
LEMMA Becoming ==
  ASSUME NEW v, Sound(v), Becomes(v)
  PROVE  IInv' /\ Readable(This)' = Readable(v)
  <1>1. This' = v
    BY DEF Becomes, Sound, This
  <1>2. IInv'
    BY <1>1 DEF Becomes, Sound, IInv, This
  <1>3. Readable(This)' = Readable(v)
    BY DEF Becomes, Readable, This
  <1> QED BY <1>2, <1>3

\* The bytes of an integer are a string.
LEMMA IntBytes ==
  ASSUME NEW w \in Widths, NEW s \in [1 .. w -> Byte]
  PROVE  s \in Seq(Byte) /\ s \in [1 .. w -> Queue!Byte]
  <1>1. w \in Nat
    BY Sizes
  <1> QED BY <1>1, SeqDef DEF Byte, Queue!Byte

LEMMA AppendStep ==
  ASSUME IInv, NEW s \in Seq(Byte), AppendBytes(s)
  PROVE  IInv' /\ Queue!Enqueue(s)
  <1>1. Becomes(append(This, s)) /\ result' = Queue!Nothing
    BY DEF AppendBytes
  <1>2. Sound(append(This, s)) /\ Readable(append(This, s)) = Readable(This) \o s
    BY Append_ DEF IInv
  <1>3. IInv' /\ Readable(This)' = Readable(append(This, s))
    BY <1>1, <1>2, Becoming
  <1> QED BY <1>1, <1>2, <1>3 DEF Queue!Enqueue

LEMMA PrependStep ==
  ASSUME IInv, NEW s \in Seq(Byte), PrependBytes(s)
  PROVE  IInv' /\ Queue!PutBack(s)
  <1>1. Becomes(prepend(This, s)) /\ result' = Queue!Nothing /\ Len(s) <= This.reader
    BY DEF PrependBytes, prependableBytes
  <1>2. Sound(prepend(This, s)) /\ Readable(prepend(This, s)) = s \o Readable(This)
    BY <1>1, Prepend_ DEF IInv
  <1>3. IInv' /\ Readable(This)' = Readable(prepend(This, s))
    BY <1>1, <1>2, Becoming
  <1> QED BY <1>1, <1>2, <1>3 DEF Queue!PutBack

LEMMA ReadStep ==
  ASSUME IInv, NEW s \in Seq(Byte), ReadFd(s)
  PROVE  IInv' /\ Queue!Read(s)
  <1>1. Becomes(readFd(This, s)) /\ result' = Queue!Number(Len(s))
    BY DEF ReadFd
  <1>2. Sound(readFd(This, s)) /\ Readable(readFd(This, s)) = Readable(This) \o s
    BY ReadFd_ DEF IInv
  <1>3. IInv' /\ Readable(This)' = Readable(readFd(This, s))
    BY <1>1, <1>2, Becoming
  <1> QED BY <1>1, <1>2, <1>3 DEF Queue!Read

LEMMA RetrieveStep ==
  ASSUME IInv, NEW n \in Nat, n <= readableBytes(This), Becomes(retrieve(This, n))
  PROVE  /\ IInv' /\ n \in 0 .. Len(Readable(This))
         /\ Readable(This)' = Queue!Rest(n)
         /\ SubSeq(buffer_, readerIndex_ + 1, readerIndex_ + n) = Queue!First(n)
  <1>1. /\ readableBytes(This) \in Nat /\ n \in 0 .. readableBytes(This)
        /\ Len(Readable(This)) = readableBytes(This)
    BY ReadableFacts DEF IInv, Sound, readableBytes
  <1>2. /\ Sound(retrieve(This, n))
        /\ Readable(retrieve(This, n)) = SubSeq(Readable(This), n + 1, Len(Readable(This)))
    BY <1>1, Retrieve_ DEF IInv
  <1>3. IInv' /\ Readable(This)' = Readable(retrieve(This, n))
    BY <1>2, Becoming
  <1>4. SubSeq(This.data, This.reader + 1, This.reader + n) = SubSeq(Readable(This), 1, n)
    BY <1>1, Prefix DEF IInv
  <1>5. This.data = buffer_ /\ This.reader = readerIndex_
    BY DEF This
  <1> QED BY <1>1, <1>2, <1>3, <1>4, <1>5 DEF Queue!Rest, Queue!First

LEMMA UnwriteStep ==
  ASSUME IInv, NEW n \in Nat, Unwrite(n)
  PROVE  IInv' /\ n \in 0 .. Len(Readable(This)) /\ Queue!Unwrite(n)
  <1> DEFINE w == [This EXCEPT !.writer = @ - n]
  <1>1. n <= readableBytes(This) /\ Becomes(w) /\ result' = Queue!Nothing
    BY DEF Unwrite
  <1>2. /\ readableBytes(This) \in Nat /\ n \in 0 .. readableBytes(This)
        /\ Len(Readable(This)) = readableBytes(This)
    BY <1>1, ReadableFacts DEF IInv, Sound, readableBytes
  <1>3. w = [This EXCEPT !.writer = @ - n]
    OBVIOUS
  <1> HIDE DEF w
  <1>4. Sound(w) /\ Readable(w) = SubSeq(Readable(This), 1, Len(Readable(This)) - n)
    BY <1>2, <1>3, Unwrite_ DEF IInv
  <1>5. IInv' /\ Readable(This)' = Readable(w)
    BY <1>1, <1>4, Becoming
  <1> QED BY <1>1, <1>2, <1>4, <1>5 DEF Queue!Unwrite, Queue!First

\* Room made or given up is not seen.
LEMMA QuietStep ==
  ASSUME IInv, NEW n \in Nat, EnsureWritable(n) \/ Shrink(n)
  PROVE  IInv' /\ Queue!Quiet
  <1>1. CASE EnsureWritable(n)
    <2>1. /\ Sound(ensureWritableBytes(This, n))
          /\ Readable(ensureWritableBytes(This, n)) = Readable(This)
      BY Ensure DEF IInv
    <2>2. IInv' /\ Readable(This)' = Readable(ensureWritableBytes(This, n))
      BY <1>1, <2>1, Becoming DEF EnsureWritable
    <2> QED BY <1>1, <2>1, <2>2 DEF EnsureWritable, Queue!Quiet
  <1>2. CASE Shrink(n)
    <2>1. Sound(shrink(This, n)) /\ Readable(shrink(This, n)) = Readable(This)
      BY Shrink_ DEF IInv
    <2>2. IInv' /\ Readable(This)' = Readable(shrink(This, n))
      BY <1>2, <2>1, Becoming DEF Shrink
    <2> QED BY <1>2, <2>1, <2>2 DEF Shrink, Queue!Quiet
  <1> QED BY <1>1, <1>2

\* The positions at which the searches find something.
LEMMA FindStep ==
  ASSUME IInv
  PROVE  /\ \A byte : FindEOL(byte) => IInv' /\ Queue!Find(byte)
         /\ \A first, second : FindCRLF(first, second) => IInv' /\ Queue!FindTwo(first, second)
         /\ ReadFdError => IInv' /\ Queue!ReadError
  <1>1. Becomes(This) => IInv' /\ Readable(This)' = Readable(This)
    BY Becoming DEF IInv
  <1>2. /\ Len(Readable(This)) = readableBytes(This) /\ readableBytes(This) \in Nat
        /\ \A i \in 1 .. readableBytes(This) : Readable(This)[i] = buffer_[readerIndex_ + i]
    <2>1. Sound(This)
      BY DEF IInv
    <2>2. /\ Len(Readable(This)) = This.writer - This.reader
          /\ \A i \in 1 .. This.writer - This.reader :
               Readable(This)[i] = This.data[This.reader + i]
      BY <2>1, ReadableFacts
    <2>3. readableBytes(This) = This.writer - This.reader /\ readableBytes(This) \in Nat
      BY <2>1 DEF Sound, readableBytes
    <2>4. This.data = buffer_ /\ This.reader = readerIndex_
      BY DEF This
    <2> QED BY <2>2, <2>3, <2>4
  <1> DEFINE n == readableBytes(This)
             q == Readable(This)
  <1>3. ASSUME NEW byte, FindEOL(byte) PROVE IInv' /\ Queue!Find(byte)
    <2>1. {i \in 1 .. n : buffer_[readerIndex_ + i] = byte} = {i \in 1 .. Len(q) : q[i] = byte}
      <3> HIDE DEF n, q
      <3> QED BY <1>2 DEF n, q
    <2> QED BY <1>1, <1>3, <2>1 DEF FindEOL, Queue!Find
  <1>4. ASSUME NEW first, NEW second, FindCRLF(first, second)
        PROVE  IInv' /\ Queue!FindTwo(first, second)
    <2>1. \A i \in 1 .. n - 1 : /\ q[i] = buffer_[readerIndex_ + i]
                                /\ q[i + 1] = buffer_[readerIndex_ + (i + 1)]
      <3>1. \A i \in 1 .. n - 1 : i \in 1 .. n /\ i + 1 \in 1 .. n
        BY <1>2
      <3> QED BY <1>2, <3>1
    <2>2. \A i \in 1 .. n - 1 : readerIndex_ + (i + 1) = readerIndex_ + i + 1
      BY <1>2 DEF IInv, Sound, This
    <2>3. {i \in 1 .. n - 1 :
             buffer_[readerIndex_ + i] = first /\ buffer_[readerIndex_ + i + 1] = second}
          = {i \in 1 .. Len(q) - 1 : q[i] = first /\ q[i + 1] = second}
      BY <1>2, <2>1, <2>2
    <2> QED BY <1>1, <1>4, <2>3 DEF FindCRLF, Queue!FindTwo
  <1>5. ReadFdError => IInv' /\ Queue!ReadError
    BY <1>1 DEF ReadFdError, Queue!ReadError
  <1> QED BY <1>3, <1>4, <1>5

----------------------------------------------------------------------------
(* The whole.                                                              *)

LEMMA NextStep ==
  ASSUME IInv, Next
  PROVE  IInv' /\ Queue!Next
  <1>1. ASSUME NEW s \in Strings, AppendBytes(s) \/ PrependBytes(s) \/ ReadFd(s)
        PROVE  IInv' /\ (Queue!Enqueue(s) \/ Queue!PutBack(s) \/ Queue!Read(s))
    <2>1. s \in Seq(Byte)
      BY Sizes
    <2> QED BY <1>1, <2>1, AppendStep, PrependStep, ReadStep
  <1>2. ASSUME NEW w \in Widths, NEW x \in Ints(w), AppendInt(x, w) \/ PrependInt(x, w)
        PROVE  IInv' /\ \E s \in [1 .. w -> Queue!Byte] : Queue!Enqueue(s) \/ Queue!PutBack(s)
    <2>1. PICK s \in [1 .. w -> Byte] : AppendBytes(s) \/ PrependBytes(s)
      BY <1>2 DEF AppendInt, PrependInt
    <2>2. s \in Seq(Byte) /\ s \in [1 .. w -> Queue!Byte]
      BY IntBytes
    <2>3. IInv' /\ (Queue!Enqueue(s) \/ Queue!PutBack(s))
      BY <2>1, <2>2, AppendStep, PrependStep
    <2> QED BY <2>2, <2>3
  <1>3. ASSUME NEW w \in Widths, ReadInt(w)
        PROVE  IInv' /\ w <= Len(Readable(This)) /\ Queue!ReadInt(w)
    <2>1. w \in Nat /\ w <= readableBytes(This) /\ Becomes(retrieve(This, w))
      BY <1>3, Sizes DEF ReadInt
    <2>2. /\ IInv' /\ w \in 0 .. Len(Readable(This))
          /\ Readable(This)' = Queue!Rest(w)
          /\ SubSeq(buffer_, readerIndex_ + 1, readerIndex_ + w) = Queue!First(w)
      BY <2>1, RetrieveStep
    <2>3. Queue!ReadInt(w)
      BY <1>3, <2>2 DEF ReadInt, Queue!ReadInt
    <2>4. w <= Len(Readable(This))
      BY <2>2
    <2> QED BY <2>2, <2>3, <2>4
  <1>4. ASSUME NEW n \in 0 .. MaxSize, EnsureWritable(n) \/ Shrink(n)
        PROVE  IInv' /\ Queue!Quiet
    BY <1>4, QuietStep
  <1>5. ASSUME NEW n \in 0 .. MaxSize, Unwrite(n)
        PROVE  IInv' /\ n \in 0 .. Len(Readable(This)) /\ Queue!Unwrite(n)
    BY <1>5, UnwriteStep
  <1>6. ASSUME NEW n \in 0 .. MaxSize, Retrieve(n) \/ RetrieveAsString(n)
        PROVE  /\ IInv' /\ n \in 0 .. Len(Readable(This))
               /\ Queue!Retrieve(n) \/ Queue!RetrieveAsString(n)
    <2>1. n \in Nat /\ n <= readableBytes(This) /\ Becomes(retrieve(This, n))
      BY <1>6 DEF Retrieve, RetrieveAsString
    <2>2. /\ IInv' /\ n \in 0 .. Len(Readable(This))
          /\ Readable(This)' = Queue!Rest(n)
          /\ SubSeq(buffer_, readerIndex_ + 1, readerIndex_ + n) = Queue!First(n)
      BY <2>1, RetrieveStep
    <2> QED BY <1>6, <2>2 DEF Retrieve, RetrieveAsString, Queue!Retrieve, Queue!RetrieveAsString
  <1>7. ASSUME NEW byte \in Byte, FindEOL(byte) PROVE IInv' /\ Queue!Find(byte)
    BY <1>7, FindStep
  <1>8. ASSUME NEW first \in Byte, NEW second \in Byte, FindCRLF(first, second)
        PROVE  IInv' /\ Queue!FindTwo(first, second)
    BY <1>8, FindStep
  <1>9. ASSUME ReadFdError PROVE IInv' /\ Queue!ReadError
    BY <1>9, FindStep
  <1>10. Byte = Queue!Byte
    BY DEF Byte, Queue!Byte
  <1>11. CASE \E s \in Strings : AppendBytes(s) \/ PrependBytes(s) \/ ReadFd(s)
    BY <1>1, <1>11 DEF Queue!Next
  <1>12. CASE \E w \in Widths : \E x \in Ints(w) : AppendInt(x, w) \/ PrependInt(x, w)
    BY <1>2, <1>12 DEF Queue!Next
  <1>13. CASE \E w \in Widths : ReadInt(w)
    BY <1>3, <1>13 DEF Queue!Next
  <1>14. CASE \E n \in 0 .. MaxSize : EnsureWritable(n) \/ Shrink(n)
    BY <1>4, <1>14 DEF Queue!Next
  <1>15. CASE \E n \in 0 .. MaxSize : Unwrite(n)
    BY <1>5, <1>15 DEF Queue!Next
  <1>16. CASE \E n \in 0 .. MaxSize : Retrieve(n) \/ RetrieveAsString(n)
    BY <1>6, <1>16 DEF Queue!Next
  <1>17. CASE \E byte \in Byte : FindEOL(byte)
    BY <1>7, <1>10, <1>17 DEF Queue!Next
  <1>18. CASE \E first, second \in Byte : FindCRLF(first, second)
    BY <1>8, <1>10, <1>18 DEF Queue!Next
  <1>19. CASE ReadFdError
    BY <1>9, <1>19 DEF Queue!Next
  <1> QED
    BY <1>11, <1>12, <1>13, <1>14, <1>15, <1>16, <1>17, <1>18, <1>19 DEF Next

LEMMA InitStep == Init => IInv /\ Queue!Init
  <1> SUFFICES ASSUME Init PROVE IInv /\ Queue!Init
    OBVIOUS
  <1>1. This = Fresh
    BY FreshFacts DEF Init, This, Sound
  <1> QED BY <1>1, FreshFacts DEF Init, IInv, Queue!Init

LEMMA Stutter == IInv /\ UNCHANGED vars => IInv' /\ UNCHANGED Queue!vars
  BY DEF vars, IInv, Sound, This, Queue!vars, Readable

\* No order of calls leaves a reader in front of the array, behind the writer,
\* or a writer behind the array's end.
THEOREM IndicesOrdered == Spec => []IndexOrder
  <1>1. Init => IInv
    BY InitStep
  <1>2. IInv /\ [Next]_vars => IInv'
    BY NextStep, Stutter
  <1>3. IInv => IndexOrder
    BY DEF IInv, Sound, This, IndexOrder
  <1> QED BY <1>1, <1>2, <1>3, PTL DEF Spec

\* The array with its two indices is a queue of bytes: what is read is what
\* was written, in that order, whatever growing, compacting and moving it took.
THEOREM ImplementsFifo == Spec => FifoSpec
  <1>1. Init => IInv /\ Queue!Init
    BY InitStep
  <1>2. IInv /\ [Next]_vars => IInv' /\ [Queue!Next]_(Queue!vars)
    BY NextStep, Stutter
  <1> QED BY <1>1, <1>2, PTL DEF Spec, FifoSpec, Queue!Spec

=============================================================================
