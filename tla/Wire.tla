--------------------------------- MODULE Wire ---------------------------------
(***************************************************************************)
(* The protobuf wire format, as the generated code of types/*.pb.go and    *)
(* api/bluechipchain/fixedmint/*.pulsar.go reads and writes it.            *)
(*                                                                         *)
(* A byte string is a sequence of tokens.  A token is a field with its     *)
(* number and wire type: 0 a varint, 2 a text or a nested byte string with *)
(* its length in front, 1 and 5 fixed widths, 3 and 4 the start and the    *)
(* end of a group, -1 a piece that cannot be read (cut short, a varint or  *)
(* a length out of range).  Texts are opaque, with a length each.          *)
(***************************************************************************)
EXTENDS Integers, Sequences, FiniteSets, FiniteSetsExt

CONSTANTS
  LengthOf,   \* text -> its number of bytes
  EmptyText   \* ""

\* The largest block CometBFT accepts: no text that travels is longer.
MaxTextBytes == 100 * 1024 * 1024

ASSUME LengthAssumption ==
  \A t \in DOMAIN LengthOf :
    LengthOf[t] \in 0 .. MaxTextBytes /\ (LengthOf[t] = 0 <=> t = EmptyText)

Texts == DOMAIN LengthOf

Token(num, wt, len, val) == [num |-> num, wt |-> wt, len |-> len, val |-> val]
Void == [void |-> TRUE]

\* The pieces foreign encoders may send.
Fixed64(num)    == Token(num, 1, 0, Void)
GroupStart(num) == Token(num, 3, 0, Void)
GroupEnd(num)   == Token(num, 4, 0, Void)
Unreadable      == Token(0, -1, 0, Void)

-----------------------------------------------------------------------------
\* Lengths in bytes.

\* The size of a varint as it is computed: (Len64(x|1) + 6) / 7.
Sov(x) == CHOOSE n \in 1 .. 4 : x < 128 ^ n /\ (n = 1 \/ x >= 128 ^ (n - 1))

\* The size of a varint as it is written: a byte for each seven bits.
EncodeVarint[x \in Nat] == IF x < 128 THEN 1 ELSE 1 + EncodeVarint[x \div 128]

\* Varints of the models are below 128.
TokenBytes(t) ==
  EncodeVarint[8 * t.num] + CASE t.wt = 2 -> EncodeVarint[t.len] + t.len
                              [] t.wt = 1 -> 8
                              [] t.wt = 0 -> 1
                              [] t.wt = 5 -> 4
                              [] OTHER -> 0
BytesOf(b) ==
  LET upTo[n \in 0 .. Len(b)] == IF n = 0 THEN 0 ELSE upTo[n - 1] + TokenBytes(b[n])
  IN upTo[Len(b)]

\* What the code counts for a field with a length in front.
Prefixed(l) == 1 + l + Sov(l)
SizeOfText(t) == IF LengthOf[t] > 0 THEN Prefixed(LengthOf[t]) ELSE 0
SizeOfBool(v) == IF v THEN 2 ELSE 0

-----------------------------------------------------------------------------
\* Writing.

Varint(num, v) == Token(num, 0, 0, [int |-> v])
Text(num, t)   == Token(num, 2, LengthOf[t], [text |-> t])
Sub(num, b)    == Token(num, 2, BytesOf(b), [sub |-> b])

\* proto3: a default value is not written.
OptText(num, t) == IF LengthOf[t] > 0 THEN <<Text(num, t)>> ELSE <<>>
OptBool(num, v) == IF v THEN <<Varint(num, 1)>> ELSE <<>>

\* A marshaller fills a buffer of the computed size from its end.  With the
\* wrong size it panics or leaves zeros in front, and nobody can read it.
Buffered(size, b) == IF size = BytesOf(b) THEN b ELSE <<Unreadable>>

-----------------------------------------------------------------------------
\* Reading.  A schema gives the wire type of each known field number.

\* How many groups are open before token i.
Depth(b, i) ==
  Cardinality({j \in 1 .. i - 1 : b[j].wt = 3}) - Cardinality({j \in 1 .. i - 1 : b[j].wt = 4})
TopLevel(b) == {i \in DOMAIN b : Depth(b, i) = 0}

\* A known field has its wire type; what is unknown, whole groups included,
\* can be skipped: tags of the groups' contents are not looked at.
Legal(b, schema) ==
  /\ \A i \in DOMAIN b : b[i].wt \in 0 .. 5
  /\ \A i \in TopLevel(b) :
       /\ b[i].wt # 4 /\ b[i].num > 0
       /\ b[i].num \in DOMAIN schema => b[i].wt = schema[b[i].num]
  /\ Depth(b, Len(b) + 1) = 0

At(b, num) == {i \in TopLevel(b) : b[i].num = num}

\* The last field of a number wins; without one the old value stays.
LastText(b, num, old) == IF At(b, num) = {} THEN old ELSE b[Max(At(b, num))].val.text
LastBool(b, num, old) == IF At(b, num) = {} THEN old ELSE b[Max(At(b, num))].val.int # 0

\* Nested messages of one number are read one after the other into the same
\* message, which is not reset in between.
Nested(b, num) ==
  LET upTo[n \in 0 .. Len(b)] ==
        IF n = 0 THEN <<>> ELSE upTo[n - 1] \o IF n \in At(b, num) THEN b[n].val.sub ELSE <<>>
  IN upTo[Len(b)]

\* Fields of other numbers and all that is in a group, in order.
UnknownOf(b, schema) ==
  LET known == {i \in TopLevel(b) : b[i].num \in DOMAIN schema}
      upTo[n \in 0 .. Len(b)] ==
        IF n = 0 THEN <<>> ELSE upTo[n - 1] \o IF n \in known THEN <<>> ELSE <<b[n]>>
  IN upTo[Len(b)]
=============================================================================
