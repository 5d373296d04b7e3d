------------------------------- MODULE Buffer -------------------------------
(***************************************************************************)
(* SsmsBuffer (src/Base/SsmsBuffer.cpp), the receive buffer of a           *)
(* connection: one array with a free head of kCheapPrepend bytes, the      *)
(* readable bytes between two indices, and free room behind them.  It      *)
(* implements the queue of Fifo.                                           *)
(*                                                                         *)
(* Operators work on a value v of the three members; an action is a        *)
(* public operation, called as its assertions require.  Indices count      *)
(* from 0 as in the code: the byte at index i is buffer_[i + 1].           *)
(***************************************************************************)
EXTENDS Integers, Sequences

CONSTANTS
  Base, Strings, Widths,   \* those of Fifo
  kCheapPrepend,           \* 8 in the code
  kInitialSize,            \* 1024
  Extra,                   \* bytes of extrabuf: 65536
  MaxSize                  \* bound on the array

VARIABLES
  buffer_, readerIndex_, writerIndex_,
  result                   \* what the last operation returned

vars == <<buffer_, readerIndex_, writerIndex_, result>>

Byte == 0 .. Base - 1

Readable(v) == SubSeq(v.data, v.reader + 1, v.writer)

This == [data |-> buffer_, reader |-> readerIndex_, writer |-> writerIndex_]

Queue == INSTANCE Fifo WITH queue <- Readable(This)

ASSUME BufferAssumption ==
  /\ Base \in Nat \ {0, 1}
  /\ Strings \subseteq Seq(Byte)
  /\ Widths \subseteq Nat \ {0}
  /\ kCheapPrepend \in Nat /\ kInitialSize \in Nat /\ Extra \in Nat /\ MaxSize \in Nat

----------------------------------------------------------------------------
(* The members.                                                            *)

Fresh ==
  [data |-> [i \in 1 .. kCheapPrepend + kInitialSize |-> 0],
   reader |-> kCheapPrepend, writer |-> kCheapPrepend]

readableBytes(v) == v.writer - v.reader

writableBytes(v) == Len(v.data) - v.writer

prependableBytes(v) == v.reader

\* vector::resize to a larger size.
Resized(data, size) == [i \in 1 .. size |-> IF i <= Len(data) THEN data[i] ELSE 0]

\* std::copy of s to index at.
Copied(data, s, at) ==
  [i \in 1 .. Len(data) |-> IF at < i /\ i <= at + Len(s) THEN s[i - at] ELSE data[i]]

\* Mutant of makeSpace: the free head is counted as room for data.
MutMakeSpace(v, len) ==
  IF writableBytes(v) + prependableBytes(v) < len
    THEN [v EXCEPT !.data = Resized(@, v.writer + len)]
    ELSE [data   |-> Copied(v.data, Readable(v), kCheapPrepend),
          reader |-> kCheapPrepend,
          writer |-> kCheapPrepend + readableBytes(v)]

\* The array grows, or the readable bytes move to its front.
makeSpace(v, len) ==
  IF writableBytes(v) + prependableBytes(v) < len + kCheapPrepend
    THEN [v EXCEPT !.data = Resized(@, v.writer + len)]
    ELSE [data   |-> Copied(v.data, Readable(v), kCheapPrepend),
          reader |-> kCheapPrepend,
          writer |-> kCheapPrepend + readableBytes(v)]

ensureWritableBytes(v, len) == IF writableBytes(v) < len THEN makeSpace(v, len) ELSE v

append(v, s) ==
  LET room == ensureWritableBytes(v, Len(s))
  IN [room EXCEPT !.data = Copied(@, s, room.writer), !.writer = @ + Len(s)]

retrieve(v, len) ==
  IF len < readableBytes(v)
    THEN [v EXCEPT !.reader = @ + len]
    ELSE [v EXCEPT !.reader = kCheapPrepend, !.writer = kCheapPrepend]

prepend(v, s) ==
  [v EXCEPT !.data = Copied(@, s, v.reader - Len(s)), !.reader = @ - Len(s)]

\* Mutant of readFd: what went to extrabuf is appended where the read began.
MutReadFd(v, s) ==
  IF Len(s) <= writableBytes(v)
    THEN [v EXCEPT !.data = Copied(@, s, v.writer), !.writer = @ + Len(s)]
    ELSE append(v, SubSeq(s, writableBytes(v) + 1, Len(s)))

\* readFd of bytes s: readv fills the array, then extrabuf, which is appended.
readFd(v, s) ==
  IF Len(s) <= writableBytes(v)
    THEN [v EXCEPT !.data = Copied(@, s, v.writer), !.writer = @ + Len(s)]
    ELSE append([v EXCEPT !.data = Copied(@, SubSeq(s, 1, writableBytes(v)), v.writer),
                          !.writer = Len(v.data)],
                SubSeq(s, writableBytes(v) + 1, Len(s)))

\* Another buffer, with room for reserve more bytes, takes the contents.
shrink(v, reserve) ==
  append(ensureWritableBytes(Fresh, readableBytes(v) + reserve), Readable(v))

----------------------------------------------------------------------------
(* The operations.                                                         *)

Init ==
  /\ buffer_ = Fresh.data
  /\ readerIndex_ = Fresh.reader /\ writerIndex_ = Fresh.writer
  /\ result = Queue!Nothing

\* The members become those of v, within the bound.
Becomes(v) ==
  /\ Len(v.data) <= MaxSize
  /\ buffer_' = v.data /\ readerIndex_' = v.reader /\ writerIndex_' = v.writer

\* append: a string, or an integer as the bytes of which it is the value.
AppendBytes(s) == Becomes(append(This, s)) /\ result' = Queue!Nothing

AppendInt(x, w) == \E s \in [1 .. w -> Byte] : Queue!Value(s, w) = x /\ AppendBytes(s)

PrependBytes(s) ==
  /\ Len(s) <= prependableBytes(This)
  /\ Becomes(prepend(This, s)) /\ result' = Queue!Nothing

PrependInt(x, w) == \E s \in [1 .. w -> Byte] : Queue!Value(s, w) = x /\ PrependBytes(s)

EnsureWritable(len) == Becomes(ensureWritableBytes(This, len)) /\ result' = Queue!Nothing

\* hasWritten is only called by append here; unwrite gives back.
Unwrite(len) ==
  /\ len <= readableBytes(This)
  /\ Becomes([This EXCEPT !.writer = @ - len]) /\ result' = Queue!Nothing

\* retrieve, retrieveUntil, retrieveAll and the integers'.
Retrieve(len) ==
  /\ len <= readableBytes(This)
  /\ Becomes(retrieve(This, len)) /\ result' = Queue!Nothing

RetrieveAsString(len) ==
  /\ len <= readableBytes(This)
  /\ Becomes(retrieve(This, len))
  /\ result' = Queue!Text(SubSeq(buffer_, readerIndex_ + 1, readerIndex_ + len))

\* peek and retrieve: the bytes in the array, most significant first.
ReadInt(w) ==
  /\ w <= readableBytes(This)
  /\ Becomes(retrieve(This, w))
  /\ result' = Queue!Number(
       Queue!Value(SubSeq(buffer_, readerIndex_ + 1, readerIndex_ + w), w))

\* findEOL: the pointer it returns, as an offset from peek(), -1 for none.
FindEOL(byte) ==
  /\ Becomes(This)
  /\ result' = Queue!Number(Queue!Offset(
       {i \in 1 .. readableBytes(This) : buffer_[readerIndex_ + i] = byte}))

FindCRLF(first, second) ==
  /\ Becomes(This)
  /\ result' = Queue!Number(Queue!Offset(
       {i \in 1 .. readableBytes(This) - 1 :
          buffer_[readerIndex_ + i] = first /\ buffer_[readerIndex_ + i + 1] = second}))

\* readv is given extrabuf too when the room is smaller than it.
ReadFd(s) ==
  /\ Len(s) <= writableBytes(This) + (IF writableBytes(This) < Extra THEN Extra ELSE 0)
  /\ Becomes(readFd(This, s)) /\ result' = Queue!Number(Len(s))

ReadFdError == Becomes(This) /\ result' = Queue!Number(-1)

Shrink(reserve) == Becomes(shrink(This, reserve)) /\ result' = Queue!Nothing

Ints(w) == -(Base ^ w \div 2) .. Base ^ w - 1 - Base ^ w \div 2

Next ==
  \/ \E s \in Strings : AppendBytes(s) \/ PrependBytes(s) \/ ReadFd(s)
  \/ \E w \in Widths :
       \/ \E x \in Ints(w) : AppendInt(x, w) \/ PrependInt(x, w)
       \/ ReadInt(w)
  \/ \E len \in 0 .. MaxSize :
       EnsureWritable(len) \/ Shrink(len) \/ Unwrite(len) \/ Retrieve(len) \/ RetrieveAsString(len)
  \/ \E byte \in Byte : FindEOL(byte)
  \/ \E first, second \in Byte : FindCRLF(first, second)
  \/ ReadFdError

Spec == Init /\ [][Next]_vars

----------------------------------------------------------------------------

(* The picture of SsmsBuffer.h: 0 <= readerIndex <= writerIndex <= size,     *)
(* whatever order of calls leads here; the array never gets smaller than a   *)
(* new one.  Every pointer the class computes lies in the array.             *)
IndexOrder ==
  /\ buffer_ \in Seq(Byte)
  /\ readerIndex_ \in Nat /\ writerIndex_ \in Nat
  /\ readerIndex_ <= writerIndex_ /\ writerIndex_ <= Len(buffer_)
  /\ kCheapPrepend + kInitialSize <= Len(buffer_)

(* The buffer implements the queue: growing, compacting, the detour through  *)
(* extrabuf, shrinking and the reset of the indices by a retrieve of         *)
(* everything change no byte that is read nor their order.                   *)
FifoSpec == Queue!Spec

=============================================================================
