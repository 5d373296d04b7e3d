-------------------------------- MODULE Fifo --------------------------------
(***************************************************************************)
(* What SsmsBuffer promises to those who use it: a queue of bytes that is  *)
(* written at the back, read at the front, may be given back a few bytes   *)
(* at either end, and hands out strings and integers in network order.     *)
(***************************************************************************)
EXTENDS Integers, Sequences

CONSTANTS
  Base,      \* values of a byte, 256 in the code
  Strings,   \* strings that are appended, prepended or read from a descriptor
  Widths     \* bytes of the integers: {1, 2, 4, 8} in the code

Byte == 0 .. Base - 1

VARIABLES
  queue,     \* the bytes that can be read
  result     \* what the last operation returned: a string and a number

vars == <<queue, result>>

\* A string or number of no interest.
Nothing == [text |-> <<>>, number |-> 0]

Text(s) == [Nothing EXCEPT !.text = s]

Number(n) == [Nothing EXCEPT !.number = n]

\* The integer, signed, that w bytes stand for, the most significant first.
Value(s, w) ==
  LET sum[i \in 0 .. w] == IF i = 0 THEN 0 ELSE sum[i - 1] * Base + s[i]
  IN IF 2 * sum[w] >= Base ^ w THEN sum[w] - Base ^ w ELSE sum[w]

\* The first n bytes, and what follows them.
First(n) == SubSeq(queue, 1, n)

Rest(n) == SubSeq(queue, n + 1, Len(queue))

\* The offset of the first of the positions, -1 when there is none.
Offset(positions) ==
  IF positions = {} THEN -1
  ELSE (CHOOSE i \in positions : \A j \in positions : i <= j) - 1

Init == queue = <<>> /\ result = Nothing

Enqueue(s) == queue' = queue \o s /\ result' = Nothing

PutBack(s) == queue' = s \o queue /\ result' = Nothing

Retrieve(n) == queue' = Rest(n) /\ result' = Nothing

RetrieveAsString(n) == queue' = Rest(n) /\ result' = Text(First(n))

ReadInt(w) == queue' = Rest(w) /\ result' = Number(Value(First(w), w))

Unwrite(n) == queue' = First(Len(queue) - n) /\ result' = Nothing

\* Bytes from a descriptor, or an error.
Read(s) == queue' = queue \o s /\ result' = Number(Len(s))

ReadError == queue' = queue /\ result' = Number(-1)

Find(byte) ==
  /\ queue' = queue
  /\ result' = Number(Offset({i \in 1 .. Len(queue) : queue[i] = byte}))

FindTwo(first, second) ==
  /\ queue' = queue
  /\ result' = Number(Offset({i \in 1 .. Len(queue) - 1 :
                                queue[i] = first /\ queue[i + 1] = second}))

\* What costs room or saves it, and changes nothing that is read.
Quiet == queue' = queue /\ result' = Nothing

Next ==
  \/ \E s \in Strings : Enqueue(s) \/ PutBack(s) \/ Read(s)
  \/ \E n \in 0 .. Len(queue) : Retrieve(n) \/ RetrieveAsString(n) \/ Unwrite(n)
  \/ \E w \in Widths :
       \/ \E s \in [1 .. w -> Byte] : Enqueue(s) \/ PutBack(s)
       \/ w <= Len(queue) /\ ReadInt(w)
  \/ \E byte \in Byte : Find(byte)
  \/ \E first, second \in Byte : FindTwo(first, second)
  \/ ReadError
  \/ Quiet

Spec == Init /\ [][Next]_vars

=============================================================================
