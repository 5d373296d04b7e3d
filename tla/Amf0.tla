-------------------------------- MODULE Amf0 --------------------------------
(***************************************************************************)
(* The AMF0 values of src/Media/SsmsAmf0Message.cpp and what a connection  *)
(* makes of those in the peer's commands                                   *)
(* (SsmsRtmpMessageContext::ParseAmfData).                                 *)
(*                                                                         *)
(* A message is a sequence of tokens, the units the code reads and writes  *)
(* at once, each with its bytes.  The members of an object and of an array *)
(* are an unordered_map: they are written and searched in any order.       *)
(***************************************************************************)
EXTENDS Integers, Sequences, FiniteSetsExt
LOCAL INSTANCE SequencesExt

CONSTANTS
  Strings,    \* contents of strings, "" among them
  Keys,       \* names of members, "app" among them
  Length,     \* bytes of a string or key
  Commands,   \* those whose arguments are looked at, and others
  Arguments   \* bound: the arguments that are sent with a command

ASSUME Amf0Assumption ==
  /\ "" \in Strings /\ "app" \in Keys /\ "" \notin Keys
  /\ \A s \in Strings \cup Keys : Length[s] \in Nat

Simple == {"number", "bool", "string"}
Nested == {"object", "ecma"}
Types  == Simple \cup Nested \cup {"null", "undefined"}

\* A value: the text of a simple one, the members of a nested one.
Value(type, text, members) == [type |-> type, text |-> text, members |-> members]

NoMembers == [key \in {} |-> ""]

Plain(type, text) == Value(type, text, NoMembers)

----------------------------------------------------------------------------
(* Encode and EncodeSize.                                                  *)

Token(kind, text, size) == [kind |-> kind, text |-> text, size |-> size]

Key(key)  == Token("key", key, 2 + Length[key])
Mark(type) == Token("type", type, 1)

\* Two zero bytes, as of an empty key, and the type of the end.
EndMark == <<Token("key", "", 2), Mark("end")>>

Content(type, text) ==
  CASE type = "number" -> <<Token("number", text, 8)>>
    [] type = "bool"   -> <<Token("bool", text, 1)>>
    [] type = "string" -> <<Token("string", text, 2 + Length[text])>>
    [] OTHER           -> <<>>

\* The members in the order the map happens to have.
Ordered(members, order) == SelectSeq(order, LAMBDA key : key \in DOMAIN members)

RECURSIVE Encode(_, _)
Encode(v, order) ==
  LET Member(key) == <<Key(key)>> \o Encode(v.members[key], order)
      members     == FlattenSeq([i \in DOMAIN Ordered(v.members, order) |->
                                   Member(Ordered(v.members, order)[i])])
  IN <<Mark(v.type)>> \o
     CASE v.type = "object" -> members \o EndMark
       [] v.type = "ecma"   -> <<Token("count", Cardinality(DOMAIN v.members), 4)>>
                                 \o members \o EndMark
       [] OTHER -> Content(v.type, v.text)

\* Mutant of EncodeSize: the count of an array is forgotten.
RECURSIVE MutEncodeSize(_)
MutEncodeSize(v) ==
  CASE v.type \in Nested ->
         1 + 3 + MapThenSumSet(LAMBDA key : Length[key] + 2 + MutEncodeSize(v.members[key]),
                               DOMAIN v.members)
    [] v.type = "string" -> 3 + Length[v.text]
    [] v.type = "number" -> 9
    [] v.type = "bool"   -> 2
    [] OTHER             -> 1

RECURSIVE EncodeSize(_)
EncodeSize(v) ==
  CASE v.type \in Nested ->
         (IF v.type = "ecma" THEN 5 ELSE 1) + 3
           + MapThenSumSet(LAMBDA key : Length[key] + 2 + EncodeSize(v.members[key]),
                           DOMAIN v.members)
    [] v.type = "string" -> 3 + Length[v.text]
    [] v.type = "number" -> 9
    [] v.type = "bool"   -> 2
    [] OTHER             -> 1

Written(tokens) == FoldLeft(LAMBDA n, token : n + token.size, 0, tokens)

----------------------------------------------------------------------------
(* Parse: of tokens from position at on.  The answer has the position after *)
(* what was read, -1 for a refusal, and the members so far.                 *)

At(tokens, at, mark) == SubSeq(tokens, at, at + Len(mark) - 1) = mark

Refused == [at |-> -1, members |-> NoMembers]

With(members, key, v) ==
  [k \in DOMAIN members \cup {key} |-> IF k = key THEN v ELSE members[k]]

\* Mutant of Ends: the loop of an array stops one member early.
MutEnds(type, tokens, at, rest) ==
  IF type = "ecma" THEN rest <= 1 ELSE at > Len(tokens) \/ At(tokens, at, EndMark)

\* An array ends by its count, an object at its end mark or with the message.
Ends(type, tokens, at, rest) ==
  IF type = "ecma" THEN rest = 0 ELSE at > Len(tokens) \/ At(tokens, at, EndMark)

\* One member has the key at position at, then its type.  A null is passed over;
\* an undefined is refused in an object, passed over in an array, where only the
\* end mark decides in the end.  rest is how many members an array still has.
RECURSIVE ParseMembers(_, _, _, _, _)
ParseMembers(type, tokens, at, rest, members) ==
  LET key  == tokens[at].text
      kind == tokens[at + 1].text
      Go(next, ms) == ParseMembers(type, tokens, next, rest - 1, ms)
      inner == IF kind = "ecma"
                 THEN ParseMembers(kind, tokens, at + 3, tokens[at + 2].text, NoMembers)
                 ELSE ParseMembers(kind, tokens, at + 2, 0, NoMembers)
  IN CASE Ends(type, tokens, at, rest) ->
            CASE At(tokens, at, EndMark) -> [at |-> at + 2, members |-> members]
              [] type = "ecma" /\ ~At(tokens, at, EndMark) -> Refused
              [] OTHER -> [at |-> at, members |-> members]
       [] OTHER ->
            CASE kind \in Simple ->
                   Go(at + 3, With(members, key, Plain(kind, tokens[at + 2].text)))
              [] kind \in Nested ->
                   IF inner.at < 0 THEN Refused
                   ELSE Go(inner.at, With(members, key, Value(kind, "", inner.members)))
              [] kind = "null" \/ type = "ecma" -> Go(at + 2, members)
              [] OTHER -> Refused

\* GetProperty: the first member of that name in the map's order, those of nested
\* values at the place of these; an empty answer of a nested one is none.
RECURSIVE GetProperty(_, _, _)
GetProperty(members, key, order) ==
  LET Answer(k) == CASE k = key -> members[k].text
                     [] k # key /\ members[k].type \in Nested ->
                          GetProperty(members[k].members, key, order)
                     [] OTHER -> ""
      keys  == Ordered(members, order)
      found == {i \in DOMAIN keys : keys[i] = key \/ Answer(keys[i]) # ""}
  IN IF found = {} THEN "" ELSE Answer(keys[Min(found)])

----------------------------------------------------------------------------
(* One connection and the commands it receives.                            *)

VARIABLES
  app_, stream_,   \* SsmsContext: what the commands have named
  closed,          \* a message was refused and the connection closed
  received,        \* the message at hand: its command and the arguments as sent
  parsed,          \* auxiliary: ParseAmfData has been through it
  out              \* auxiliary: the values it took from it

vars == <<app_, stream_, closed, received, parsed, out>>

NoMessage == [command |-> "", args |-> <<>>]

Init ==
  /\ app_ = "" /\ stream_ = ""
  /\ closed = FALSE
  /\ received = NoMessage /\ parsed = FALSE
  /\ out = <<>>

\* The name of the stream: the first that is not empty stays.  "publish" only
\* looks at its first string, the second is how to publish.
TakeString(c, command, text) ==
  IF /\ c.stream = ""
     /\ \/ command \in {"releaseStream", "FCPublish", "play", "getStreamLength"}
        \/ command = "publish" /\ ~c.named
    THEN [c EXCEPT !.stream = text, !.named = (command = "publish")]
    ELSE c

\* ParseAmfData: value after value until the message ends or one is refused,
\* with c what the command has led to so far.
RECURSIVE ParseAmfData(_, _, _, _, _)
ParseAmfData(tokens, at, command, order, c) ==
  LET type  == tokens[at].text
      text  == tokens[at + 1].text
      inner == IF type = "ecma" THEN ParseMembers(type, tokens, at + 2, text, NoMembers)
               ELSE ParseMembers(type, tokens, at + 1, 0, NoMembers)
      Go(next, d, v) ==
        ParseAmfData(tokens, next, command, order, [d EXCEPT !.out = Append(@, v)])
  IN CASE at > Len(tokens) -> c
       [] at <= Len(tokens) /\ type \in Simple ->
            Go(at + 2, IF type = "string" THEN TakeString(c, command, text) ELSE c,
               Plain(type, text))
       [] at <= Len(tokens) /\ type \in Nested ->
            IF inner.at < 0 THEN [c EXCEPT !.ok = FALSE]
            ELSE Go(inner.at,
                    IF type = "object" /\ command = "connect"
                      THEN [c EXCEPT !.app = GetProperty(inner.members, "app", order)] ELSE c,
                    Value(type, "", inner.members))
       [] OTHER -> Go(at + 1, c, Plain(type, ""))

EncodeAll(args, order) == FlattenSeq([i \in DOMAIN args |-> Encode(args[i], order)])

Orders == SetToSeqs(Keys)

\* A message is complete.
Receive ==
  /\ received = NoMessage /\ ~closed
  /\ \E command \in Commands, args \in Arguments :
       received' = [command |-> command, args |-> args]
  /\ UNCHANGED <<app_, stream_, closed, parsed, out>>

\* The peer has ordered members as it liked, and so does the map here.
ParseCommandMessage ==
  /\ received # NoMessage /\ ~parsed
  /\ \E theirs, ours \in Orders :
       \E c \in {ParseAmfData(EncodeAll(received.args, theirs), 1, received.command, ours,
                   [app |-> app_, stream |-> stream_, named |-> FALSE, ok |-> TRUE, out |-> <<>>])} :
         /\ app_' = c.app /\ stream_' = c.stream
         /\ closed' = ~c.ok
         /\ out' = c.out
  /\ parsed' = TRUE
  /\ UNCHANGED received

\* The message is let go of.
Release ==
  /\ parsed
  /\ parsed' = FALSE /\ received' = NoMessage /\ out' = <<>>
  /\ UNCHANGED <<app_, stream_, closed>>

Next == Receive \/ ParseCommandMessage \/ Release

Spec == Init /\ [][Next]_vars

----------------------------------------------------------------------------
(* What a peer may count on.                                               *)

\* A value that is accepted ...
RECURSIVE Accepted(_)
Accepted(v) ==
  /\ \A key \in DOMAIN v.members : Accepted(v.members[key])
  /\ v.type = "object" => \A key \in DOMAIN v.members : v.members[key].type # "undefined"

\* ... and what is seen of it.
RECURSIVE Seen(_)
Seen(v) ==
  [v EXCEPT !.members =
     [key \in {k \in DOMAIN v.members : v.members[k].type \notin {"null", "undefined"}} |->
        Seen(v.members[key])]]

(* Whatever the order of the members, and whatever stands next to or inside  *)
(* of what, reading takes every value for what was written, but for members  *)
(* that are null (or undefined, in an array), which it leaves out; it        *)
(* refuses a message exactly when an object in it has an undefined member,   *)
(* and has then taken what came before.                                      *)
Understood ==
  LET args == received.args
      bad  == {i \in DOMAIN args : ~Accepted(args[i])}
      n    == IF bad = {} THEN Len(args) ELSE Min(bad) - 1
  IN parsed => /\ closed <=> bad # {}
               /\ out = [i \in 1 .. n |-> Seen(args[i])]

(* A packet is allocated by EncodeSize and filled by Encode, two walks over  *)
(* the same value: they agree to the byte for every value and order.         *)
SizesAgree ==
  \A i \in DOMAIN received.args : \A order \in Orders :
    Written(Encode(received.args[i], order)) = EncodeSize(received.args[i])

=============================================================================
