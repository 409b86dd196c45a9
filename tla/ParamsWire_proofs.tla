--------------------------- MODULE ParamsWire_proofs ---------------------------
(***************************************************************************)
(* Proofs about the parameters as bytes, for every set of denominations    *)
(* and amounts, every text a block can carry, whatever other encoders send *)
(* and a later server adds.                                                *)
(*                                                                         *)
(* The decoders read a byte string token by token.  What they read of what *)
(* the marshallers wrote is proved in three steps: their results are the   *)
(* last values of traces, which change with one token at a time (BytesOf,  *)
(* Nested, UnknownOf); what is written has each field once or not at all   *)
(* and no groups (Written, Only), so that two pieces put one behind the    *)
(* other are read as they are read alone; and the size a marshaller counts *)
(* is the number of bytes of its pieces.  Where an argument is by          *)
(* induction it is about the least counterexample (LeastNat).              *)
(*                                                                         *)
(* With that the messages are records again, and the inductive invariant   *)
(* WireInv says of the store, of a proposal and of a client whose bytes    *)
(* they hold.                                                              *)
(***************************************************************************)
EXTENDS ParamsWire, FiniteSetTheorems, WellFoundedInduction, TLAPS

-----------------------------------------------------------------------------
(* Numbers.                                                                *)

\* A set of numbers that is not empty has a least one: what all inductions
\* of this module rest on.
LEMMA LeastNat ==
  ASSUME NEW B \in SUBSET Nat, B # {}
  PROVE  \E n \in B : \A m \in B : n <= m
<1>1. PICK n \in B : \A m \in B : <<m, n>> \notin OpToRel(<, Nat)
  BY NatLessThanWellFounded, WFMin
<1>2. \A m \in B : ~(m < n)
  BY <1>1 DEF OpToRel
<1>. QED
  BY <1>2

\* A set of numbers with 0 and every successor up to n has all up to n.
LEMMA AllUpTo ==
  ASSUME NEW n \in Nat, NEW Good, 0 \in Good, \A i \in 0 .. n : i \in Good /\ i < n => i + 1 \in Good
  PROVE  \A i \in 0 .. n : i \in Good
<1>. SUFFICES ASSUME (0 .. n) \ Good # {} PROVE FALSE
  OBVIOUS
<1>1. PICK i \in (0 .. n) \ Good : \A j \in (0 .. n) \ Good : i <= j
  <2>1. (0 .. n) \ Good \in SUBSET Nat
    OBVIOUS
  <2>. QED
    BY <2>1, LeastNat
<1>2. i # 0 /\ i - 1 \in 0 .. n /\ ~(i <= i - 1) /\ i - 1 < n /\ i - 1 + 1 = i
  BY <1>1
<1>3. i - 1 \in Good
  BY <1>1, <1>2
<1>. QED
  BY <1>1, <1>2, <1>3

\* The length of a varint is defined: on the numbers up to n for every n, and
\* any two such functions agree.
Varints(f, n) ==
  f = [x \in 0 .. n |-> IF x < 128 THEN 1 ELSE 1 + f[x \div 128]]

\* There is such a function for every bound,
LEMMA VarintsExist ==
  ASSUME NEW n \in Nat
  PROVE  \E f : Varints(f, n)
<1>. DEFINE Good == {i \in Nat : \E f : Varints(f, i)}
<1>1. 0 \in Good
  <2>1. Varints([x \in 0 .. 0 |-> 1], 0)
    BY DEF Varints
  <2>. QED
    BY <2>1
<1>2. ASSUME NEW i \in 0 .. n, i \in Good PROVE i + 1 \in Good
  <2>1. PICK f : Varints(f, i)
    BY <1>2
  <2>. DEFINE Eq(h, x) == IF x < 128 THEN 1 ELSE 1 + h[x \div 128]
              h == [x \in 0 .. (i + 1) |-> IF x = i + 1 THEN Eq(f, x) ELSE f[x]]
  <2>2. ASSUME NEW x \in 0 .. (i + 1), ~(x < 128)
        PROVE  x \div 128 \in 0 .. i
    BY <2>2
  <2>3. ASSUME NEW x \in 0 .. (i + 1) PROVE h[x] = Eq(f, x)
    BY <2>1 DEF Varints
  <2>4. ASSUME NEW x \in 0 .. (i + 1) PROVE Eq(f, x) = Eq(h, x)
    <3>1. CASE x < 128
      BY <3>1
    <3>2. CASE ~(x < 128)
      <4>1. x \div 128 \in 0 .. i
        BY <2>2, <3>2
      <4>2. h[x \div 128] = f[x \div 128]
        BY <4>1
      <4>. QED
        BY <3>2, <4>2
    <3>. QED
      BY <3>1, <3>2
  <2>5. h = [x \in 0 .. (i + 1) |-> h[x]]
    OBVIOUS
  <2>6. \A x \in 0 .. (i + 1) : h[x] = Eq(h, x)
    BY <2>3, <2>4
  <2>. HIDE DEF h
  <2>7. Varints(h, i + 1)
    BY <2>5, <2>6 DEF Varints
  <2>. QED
    BY <2>7
<1>. HIDE DEF Good
<1>3. \A i \in 0 .. n : i \in Good
  BY <1>1, <1>2, AllUpTo
<1>. QED
  BY <1>3 DEF Good

\* and two of them agree where both are defined,
LEMMA VarintsAgree ==
  ASSUME NEW n \in Nat, NEW m \in Nat, NEW f, NEW g, Varints(f, n), Varints(g, m),
         NEW x \in 0 .. n, x <= m
  PROVE  f[x] = g[x]
<1>. DEFINE B == {y \in Nat : y <= n /\ y <= m /\ f[y] # g[y]}
<1>. SUFFICES ASSUME B # {} PROVE FALSE
  OBVIOUS
<1>1. PICK y \in B : \A z \in B : y <= z
  <2>1. B \in SUBSET Nat
    OBVIOUS
  <2>. HIDE DEF B
  <2>. QED
    BY <2>1, LeastNat
<1>2. /\ f[y] = IF y < 128 THEN 1 ELSE 1 + f[y \div 128]
      /\ g[y] = IF y < 128 THEN 1 ELSE 1 + g[y \div 128]
  BY <1>1 DEF Varints
<1>3. ~(y < 128)
  BY <1>1, <1>2
<1>4. y \div 128 \in Nat /\ y \div 128 < y
  BY <1>1, <1>3
<1>5. y \div 128 \notin B
  BY <1>1, <1>4
<1>6. f[y \div 128] = g[y \div 128]
  BY <1>1, <1>4, <1>5
<1>. QED
  BY <1>1, <1>2, <1>6

\* so that EncodeVarint satisfies its own equation.
LEMMA EncodeVarintIs ==
  /\ EncodeVarint
       = [x \in Nat |-> IF x < 128 THEN 1 ELSE 1 + EncodeVarint[x \div 128]]
<1>. DEFINE Of(n) == CHOOSE f : Varints(f, n)
            h == [x \in Nat |-> Of(x)[x]]
            Eq(f, x) == IF x < 128 THEN 1 ELSE 1 + f[x \div 128]
<1>1. ASSUME NEW n \in Nat PROVE Varints(Of(n), n)
  BY VarintsExist
<1>. HIDE DEF Of
<1>2. ASSUME NEW x \in Nat PROVE h[x] = Eq(h, x)
  <2>1. Of(x)[x] = Eq(Of(x), x)
    BY <1>1 DEF Varints
  <2>2. CASE x < 128
    BY <2>1, <2>2
  <2>3. CASE ~(x < 128)
    <3>1. x \div 128 \in Nat /\ x \div 128 <= x
      BY <2>3
    <3>2. PICK y \in Nat : y = x \div 128
      BY <3>1
    <3>3. Of(y)[y] = Of(x)[y]
      BY <3>1, <3>2, <1>1, VarintsAgree
    <3>. QED
      BY <2>1, <2>3, <3>2, <3>3
  <2>. QED
    BY <2>2, <2>3
<1>3. h = [x \in Nat |-> h[x]]
  OBVIOUS
<1>. HIDE DEF h
<1>4. h = [x \in Nat |-> Eq(h, x)]
  BY <1>2, <1>3
<1>. QED
  BY <1>4 DEF EncodeVarint

\* A varint has a whole number of bytes.
LEMMA EncodeVarintType ==
  ASSUME NEW x \in Nat
  PROVE  EncodeVarint[x] \in Nat
<1>. DEFINE B == {y \in Nat : EncodeVarint[y] \notin Nat}
<1>. SUFFICES ASSUME B # {} PROVE FALSE
  OBVIOUS
<1>1. PICK y \in B : \A z \in B : y <= z
  <2>1. B \in SUBSET Nat
    OBVIOUS
  <2>. HIDE DEF B
  <2>. QED
    BY <2>1, LeastNat
<1>2. EncodeVarint[y] = IF y < 128 THEN 1 ELSE 1 + EncodeVarint[y \div 128]
  <2>1. PICK f : f = EncodeVarint
    OBVIOUS
  <2>2. f = [z \in Nat |-> IF z < 128 THEN 1 ELSE 1 + f[z \div 128]]
    BY <2>1, EncodeVarintIs
  <2>. QED
    BY <1>1, <2>1, <2>2
<1>3. ~(y < 128)
  BY <1>1, <1>2
<1>4. y \div 128 \in Nat /\ y \div 128 < y
  BY <1>1, <1>3
<1>5. y \div 128 \notin B
  BY <1>1, <1>4
<1>. QED
  BY <1>1, <1>2, <1>3, <1>4, <1>5

\* The bytes a length takes as they are counted and as they are written.
LEMMA SovIs ==
  ASSUME NEW x \in Nat, x < 128 * 128 * 128 * 128
  PROVE  Sov(x) = EncodeVarint[x] /\ Sov(x) \in 1 .. 4
<1>1. PICK f : f = EncodeVarint
  OBVIOUS
<1>2. f = [z \in Nat |-> IF z < 128 THEN 1 ELSE 1 + f[z \div 128]]
  BY <1>1, EncodeVarintIs
<1>3. f[x] = IF x < 128 THEN 1 ELSE 1 + f[x \div 128]
  BY <1>2
<1>4. x >= 128 => f[x \div 128] = IF x < 128 * 128 THEN 1 ELSE 1 + f[(x \div 128) \div 128]
  BY <1>2
<1>5. x >= 128 * 128 => f[(x \div 128) \div 128]
                      = IF x < 128 * 128 * 128 THEN 1 ELSE 1 + f[((x \div 128) \div 128) \div 128]
  BY <1>2
<1>6. x >= 128 * 128 * 128 => f[((x \div 128) \div 128) \div 128] = 1
  BY <1>2
<1>7. f[x] = IF x < 128 THEN 1 ELSE IF x < 128 * 128 THEN 2
             ELSE IF x < 128 * 128 * 128 THEN 3 ELSE 4
  BY <1>3, <1>4, <1>5, <1>6
<1>8. PICK k \in 1 .. 4 : k = f[x]
  BY <1>7
<1>9. \A n \in 1 .. 4 : x < 128 ^ n /\ (n = 1 \/ x >= 128 ^ (n - 1)) <=> n = k
  <2>1. 128 ^ 1 = 128 /\ 128 ^ 2 = 128 * 128 /\ 128 ^ 3 = 128 * 128 * 128
        /\ 128 ^ 4 = 128 * 128 * 128 * 128
    BY SMT
  <2>. SUFFICES ASSUME NEW n \in 1 .. 4
               PROVE  x < 128 ^ n /\ (n = 1 \/ x >= 128 ^ (n - 1)) <=> n = k
    OBVIOUS
  <2>2. CASE n = 1
    BY <1>7, <1>8, <2>1, <2>2
  <2>3. CASE n = 2 /\ n - 1 = 1
    BY <1>7, <1>8, <2>1, <2>3
  <2>4. CASE n = 3 /\ n - 1 = 2
    BY <1>7, <1>8, <2>1, <2>4
  <2>5. CASE n = 4 /\ n - 1 = 3
    BY <1>7, <1>8, <2>1, <2>5
  <2>. QED
    BY <2>2, <2>3, <2>4, <2>5
<1>10. Sov(x) = k
  BY <1>9 DEF Sov
<1>. QED
  BY <1>1, <1>8, <1>10

-----------------------------------------------------------------------------
(* Byte strings, and the values of what reads them token by token.         *)

LEMMA BytesAre ==
  ASSUME NEW b, IsBytes(b)
  PROVE  Len(b) \in Nat /\ DOMAIN b = 1 .. Len(b) /\ b = [i \in 1 .. Len(b) |-> b[i]]
BY DEF IsBytes

\* A function on 1 .. n is a byte string.
LEMMA SeqIsBytes ==
  ASSUME NEW b, NEW n \in Nat, DOMAIN b = 1 .. n, b = [i \in 1 .. n |-> b[i]]
  PROVE  IsBytes(b) /\ Len(b) = n
<1>1. b \in [1 .. n -> {b[i] : i \in DOMAIN b}]
  BY SMT
<1>2. b \in Seq({b[i] : i \in DOMAIN b})
  BY <1>1
<1>. QED
  BY <1>2 DEF IsBytes

\* One byte string behind another.
LEMMA BytesConcat ==
  ASSUME NEW a, IsBytes(a), NEW b, IsBytes(b)
  PROVE  /\ IsBytes(a \o b)
         /\ Len(a \o b) = Len(a) + Len(b)
         /\ \A i \in 1 .. Len(a) : (a \o b)[i] = a[i]
         /\ \A i \in 1 .. Len(b) : (a \o b)[Len(a) + i] = b[i]
<1>. DEFINE S == {a[i] : i \in DOMAIN a} \cup {b[i] : i \in DOMAIN b}
<1>1. a \in Seq(S) /\ b \in Seq(S)
  <2>1. \A i \in 1 .. Len(a) : a[i] \in S
    BY BytesAre
  <2>2. \A i \in 1 .. Len(b) : b[i] \in S
    BY BytesAre
  <2>. HIDE DEF S
  <2>3. a \in Seq(S)
    BY <2>1, BytesAre
  <2>4. b \in Seq(S)
    BY <2>2, BytesAre
  <2>. QED
    BY <2>3, <2>4
<1>. HIDE DEF S
<1>2. a \o b \in Seq(S) /\ Len(a \o b) = Len(a) + Len(b)
  BY <1>1
<1>3. IsBytes(a \o b)
  <2>1. PICK c : c = a \o b
    OBVIOUS
  <2>2. c \in Seq(S)
    BY <1>2, <2>1
  <2>3. c = [i \in 1 .. Len(c) |-> c[i]] /\ DOMAIN c = 1 .. Len(c) /\ Len(c) \in Nat
    BY <2>2
  <2>4. IsBytes(c)
    BY <2>3, SeqIsBytes
  <2>. QED
    BY <2>1, <2>4
<1>. QED
  BY <1>1, <1>2, <1>3

\* No bytes are a byte string, and so is one token.
LEMMA EmptyIsBytes == IsBytes(<<>>) /\ Len(<<>>) = 0
<1>1. <<>> \in Seq({})
  OBVIOUS
<1>. QED
  BY <1>1 DEF IsBytes

LEMMA OneIsBytes ==
  ASSUME NEW t
  PROVE  IsBytes(<<t>>) /\ Len(<<t>>) = 1 /\ <<t>>[1] = t
<1>1. <<t>> \in Seq({t}) /\ Len(<<t>>) = 1 /\ <<t>>[1] = t
  OBVIOUS
<1>2. PICK b : b = <<t>>
  OBVIOUS
<1>3. DOMAIN b = 1 .. 1 /\ b = [i \in 1 .. 1 |-> b[i]]
  BY <1>1, <1>2
<1>4. IsBytes(b)
  BY <1>3, SeqIsBytes
<1>. QED
  BY <1>1, <1>2, <1>4

\* Nothing in front or behind changes nothing.
LEMMA ConcatEmpty ==
  ASSUME NEW b, IsBytes(b)
  PROVE  b \o <<>> = b /\ <<>> \o b = b
<1>1. PICK S : b \in Seq(S)
  BY DEF IsBytes
<1>. QED
  BY <1>1

\* Equal lengths and equal tokens make equal byte strings.
LEMMA BytesEqual ==
  ASSUME NEW a, IsBytes(a), NEW b, IsBytes(b), Len(a) = Len(b),
         \A i \in 1 .. Len(a) : a[i] = b[i]
  PROVE  a = b
<1>1. a = [i \in 1 .. Len(a) |-> a[i]] /\ b = [i \in 1 .. Len(b) |-> b[i]]
  BY BytesAre
<1>. QED
  BY <1>1

Known(b, schema) == {i \in TopLevel(b) : b[i].num \in DOMAIN schema}

\* What a reading adds to its result with token n: to a number of bytes, to
\* the nested message, to the unknown fields.
StepOf(k, b, s, a, n) ==
  IF k = "bytes" THEN a + TokenBytes(b[n])
  ELSE IF k = "nested" THEN a \o IF n \in At(b, s) THEN b[n].val.sub ELSE <<>>
  ELSE a \o IF n \in Known(b, s) THEN <<>> ELSE <<b[n]>>

Reading(f, k, b, s, base, m) ==
  f = [n \in 0 .. m |-> IF n = 0 THEN base ELSE StepOf(k, b, s, f[n - 1], n)]

\* A reading of the first m tokens exists for every m.
LEMMA ReadingExists ==
  ASSUME NEW k, NEW b, NEW s, NEW base, NEW m \in Nat
  PROVE  \E f : Reading(f, k, b, s, base, m)
<1>. DEFINE Good == {i \in Nat : \E f : Reading(f, k, b, s, base, i)}
<1>1. 0 \in Good
  <2>1. Reading([n \in 0 .. 0 |-> base], k, b, s, base, 0)
    BY DEF Reading
  <2>. QED
    BY <2>1
<1>2. ASSUME NEW i \in 0 .. m, i \in Good PROVE i + 1 \in Good
  <2>1. PICK f : Reading(f, k, b, s, base, i)
    BY <1>2
  <2>. DEFINE Eq(h, n) == IF n = 0 THEN base ELSE StepOf(k, b, s, h[n - 1], n)
              h == [n \in 0 .. (i + 1) |-> Eq(f, n)]
  <2>2. ASSUME NEW n \in 0 .. i PROVE h[n] = f[n]
    BY <2>1 DEF Reading
  <2>3. ASSUME NEW n \in 0 .. (i + 1) PROVE Eq(f, n) = Eq(h, n)
    <3>1. CASE n = 0
      BY <3>1
    <3>2. CASE n # 0
      <4>1. n - 1 \in 0 .. i
        BY <3>2
      <4>2. h[n - 1] = f[n - 1]
        BY <4>1, <2>2
      <4>. QED
        BY <3>2, <4>2
    <3>. QED
      BY <3>1, <3>2
  <2>4. h = [n \in 0 .. (i + 1) |-> h[n]]
    OBVIOUS
  <2>5. \A n \in 0 .. (i + 1) : h[n] = Eq(h, n)
    BY <2>3
  <2>. HIDE DEF h
  <2>6. Reading(h, k, b, s, base, i + 1)
    BY <2>4, <2>5 DEF Reading
  <2>. QED
    BY <2>6
<1>. HIDE DEF Good
<1>3. \A i \in 0 .. m : i \in Good
  BY <1>1, <1>2, AllUpTo
<1>. QED
  BY <1>3 DEF Good

\* The values of a reading after each token.
Trace(t, k, b, s, base) ==
  /\ t[0] = base
  /\ \A n \in 1 .. Len(b) : t[n] = StepOf(k, b, s, t[n - 1], n)

ValueOf(k, b, s, base) == (CHOOSE f : Reading(f, k, b, s, base, Len(b)))[Len(b)]

\* Its values satisfy the equation of a reading token by token.
LEMMA ReadingTrace ==
  ASSUME NEW k, NEW b, IsBytes(b), NEW s, NEW base
  PROVE  \E t : Trace(t, k, b, s, base) /\ ValueOf(k, b, s, base) = t[Len(b)]
<1>1. Len(b) \in Nat
  BY BytesAre
<1>2. PICK t : t = CHOOSE f : Reading(f, k, b, s, base, Len(b))
  OBVIOUS
<1>3. Reading(t, k, b, s, base, Len(b))
  BY <1>1, <1>2, ReadingExists
<1>4. ASSUME NEW n \in 0 .. Len(b)
      PROVE  t[n] = IF n = 0 THEN base ELSE StepOf(k, b, s, t[n - 1], n)
  BY <1>3 DEF Reading
<1>5. Trace(t, k, b, s, base)
  BY <1>1, <1>4 DEF Trace
<1>. QED
  BY <1>2, <1>5 DEF ValueOf

\* This is how BytesOf, Nested and UnknownOf come to their results.
LEMMA BytesOfTrace ==
  ASSUME NEW b, IsBytes(b)
  PROVE  \E t : /\ t[0] = 0
                /\ \A n \in 1 .. Len(b) : t[n] = t[n - 1] + TokenBytes(b[n])
                /\ BytesOf(b) = t[Len(b)]
<1>1. BytesOf(b) = ValueOf("bytes", b, 0, 0)
  BY DEF BytesOf, ValueOf, Reading, StepOf
<1>2. PICK t : Trace(t, "bytes", b, 0, 0) /\ ValueOf("bytes", b, 0, 0) = t[Len(b)]
  BY ReadingTrace
<1>. QED
  BY <1>1, <1>2 DEF Trace, StepOf

LEMMA NestedTrace ==
  ASSUME NEW b, IsBytes(b), NEW num
  PROVE  \E t : /\ t[0] = <<>>
                /\ \A n \in 1 .. Len(b) :
                     t[n] = t[n - 1] \o IF n \in At(b, num) THEN b[n].val.sub ELSE <<>>
                /\ Nested(b, num) = t[Len(b)]
<1>1. Nested(b, num) = ValueOf("nested", b, num, <<>>)
  BY DEF Nested, ValueOf, Reading, StepOf
<1>2. PICK t : Trace(t, "nested", b, num, <<>>) /\ ValueOf("nested", b, num, <<>>) = t[Len(b)]
  BY ReadingTrace
<1>. QED
  BY <1>1, <1>2 DEF Trace, StepOf

LEMMA UnknownTrace ==
  ASSUME NEW b, IsBytes(b), NEW schema
  PROVE  \E t : /\ t[0] = <<>>
                /\ \A n \in 1 .. Len(b) :
                     t[n] = t[n - 1] \o IF n \in Known(b, schema) THEN <<>> ELSE <<b[n]>>
                /\ UnknownOf(b, schema) = t[Len(b)]
<1>1. UnknownOf(b, schema) = ValueOf("unknown", b, schema, <<>>)
  BY DEF UnknownOf, ValueOf, Reading, StepOf, Known
<1>2. PICK t : /\ Trace(t, "unknown", b, schema, <<>>)
               /\ ValueOf("unknown", b, schema, <<>>) = t[Len(b)]
  BY ReadingTrace
<1>. QED
  BY <1>1, <1>2 DEF Trace, StepOf

-----------------------------------------------------------------------------
(* Fields at the top level.                                                *)

LEMMA MaxOfOne == ASSUME NEW i \in Nat PROVE Max({i}) = i
BY DEF Max

\* The largest of some positions is one of them.
LEMMA MaxIs ==
  ASSUME NEW n \in Nat, NEW S \in SUBSET (1 .. n), S # {}
  PROVE  Max(S) \in S
<1>. DEFINE B == {n - i : i \in S}
<1>1. B \in SUBSET Nat /\ B # {}
  <2>1. \A i \in S : n - i \in Nat
    OBVIOUS
  <2>. QED
    BY <2>1
<1>. HIDE DEF B
<1>2. PICK m \in B : \A k \in B : m <= k
  BY <1>1, LeastNat
<1>3. PICK x \in S : m = n - x
  BY <1>2 DEF B
<1>4. \A y \in S : n - y \in B /\ y \in Nat
  BY DEF B
<1>5. \A y \in S : x >= y
  BY <1>2, <1>3, <1>4
<1>. QED
  BY <1>5 DEF Max

\* A byte string without groups.
Flat(b) == IsBytes(b) /\ \A i \in 1 .. Len(b) : b[i].wt \in {0, 2}

\* In a flat byte string every token is at the top level.
LEMMA FlatDepth ==
  ASSUME NEW b, Flat(b), NEW i \in 1 .. Len(b) + 1
  PROVE  Depth(b, i) = 0
<1>1. Len(b) \in Nat
  BY BytesAre DEF Flat
<1>2. ASSUME NEW w \in {3, 4} PROVE {j \in 1 .. i - 1 : b[j].wt = w} = {}
  <2>1. \A j \in 1 .. i - 1 : b[j].wt \in {0, 2}
    BY <1>1 DEF Flat
  <2>. QED
    BY <2>1
<1>3. {j \in 1 .. i - 1 : b[j].wt = 3} = {} /\ {j \in 1 .. i - 1 : b[j].wt = 4} = {}
  BY <1>2
<1>4. Cardinality({}) = 0
  BY FS_EmptySet
<1>5. Depth(b, i) = Cardinality({}) - Cardinality({})
  BY <1>3, Zenon DEF Depth
<1>. QED
  BY <1>4, <1>5

LEMMA FlatTop ==
  ASSUME NEW b, Flat(b)
  PROVE  TopLevel(b) = 1 .. Len(b)
<1>1. Len(b) \in Nat /\ DOMAIN b = 1 .. Len(b)
  BY BytesAre DEF Flat
<1>2. \A i \in 1 .. Len(b) : Depth(b, i) = 0
  BY <1>1, FlatDepth
<1>. QED
  BY <1>1, <1>2 DEF TopLevel

LEMMA FlatAt ==
  ASSUME NEW b, Flat(b), NEW num
  PROVE  At(b, num) = {i \in 1 .. Len(b) : b[i].num = num}
BY FlatTop DEF At

\* The tokens of a wire type before token i.
Opened(b, i, w) == Cardinality({j \in 1 .. i - 1 : b[j].wt = w})

\* The depth is the number of groups opened and not closed.
LEMMA DepthIs ==
  ASSUME NEW b, NEW i
  PROVE  Depth(b, i) = Opened(b, i, 3) - Opened(b, i, 4)
BY DEF Depth, Opened

\* Groups behind a byte string without groups are as deep as alone.
LEMMA OpenedLater ==
  ASSUME NEW b, Flat(b), NEW a, IsBytes(a), NEW i \in 1 .. Len(a) + 1, NEW w \in {3, 4}
  PROVE  Opened(b \o a, Len(b) + i, w) = Opened(a, i, w)
<1>1. Len(b) \in Nat /\ Len(a) \in Nat /\ IsBytes(b)
  BY BytesAre DEF Flat
<1>. DEFINE S == {j \in 1 .. i - 1 : a[j].wt = w}
            T == {j \in 1 .. (Len(b) + i) - 1 : (b \o a)[j].wt = w}
            f == [j \in S |-> Len(b) + j]
<1>2. /\ \A j \in 1 .. Len(b) : (b \o a)[j] = b[j]
      /\ \A j \in 1 .. Len(a) : (b \o a)[Len(b) + j] = a[j]
  BY <1>1, BytesConcat
<1>3. \A j \in 1 .. Len(b) : (b \o a)[j].wt # w
  BY <1>2 DEF Flat
<1>4. \A j \in S : Len(b) + j \in T
  BY <1>1, <1>2
<1>5. ASSUME NEW k \in T PROVE k - Len(b) \in S /\ k = Len(b) + (k - Len(b))
  <2>1. k > Len(b)
    BY <1>1, <1>3
  <2>2. k - Len(b) \in 1 .. i - 1 /\ k - Len(b) \in 1 .. Len(a) /\ k = Len(b) + (k - Len(b))
    BY <1>1, <2>1
  <2>. QED
    BY <1>2, <2>2
<1>6. f \in Bijection(S, T)
  <2>1. f \in [S -> T]
    BY <1>4
  <2>2. \A x, y \in S : f[x] = f[y] => x = y
    BY <1>1
  <2>3. \A k \in T : \E j \in S : f[j] = k
    BY <1>5
  <2>. HIDE DEF f, S, T
  <2>4. f \in Injection(S, T)
    BY <2>1, <2>2 DEF Injection, IsInjective
  <2>5. f \in Surjection(S, T)
    BY <2>1, <2>3 DEF Surjection
  <2>. QED
    BY <2>4, <2>5 DEF Bijection
<1>7. IsFiniteSet(S)
  <2>1. IsFiniteSet(1 .. i - 1)
    BY <1>1, FS_Interval
  <2>. QED
    BY <2>1, FS_Subset
<1>. HIDE DEF f, S, T
<1>8. ExistsBijection(S, T)
  BY <1>6 DEF ExistsBijection
<1>9. Cardinality(T) = Cardinality(S)
  BY <1>7, <1>8, FS_Bijection
<1>10. Opened(a, i, w) = Cardinality(S)
  BY Zenon DEF Opened, S
<1>11. Opened(b \o a, Len(b) + i, w) = Cardinality(T)
  BY Zenon DEF Opened, T
<1>. QED
  BY <1>9, <1>10, <1>11

\* What is flat in front changes no depth behind it,
LEMMA DepthBehind ==
  ASSUME NEW b, Flat(b), NEW a, IsBytes(a), NEW i \in 1 .. Len(a) + 1
  PROVE  Depth(b \o a, Len(b) + i) = Depth(a, i)
<1>1. Len(b) \in Nat /\ Len(a) \in Nat
  BY BytesAre DEF Flat
<1>2. /\ Opened(b \o a, Len(b) + i, 3) = Opened(a, i, 3)
      /\ Opened(b \o a, Len(b) + i, 4) = Opened(a, i, 4)
  BY OpenedLater
<1>. QED
  BY <1>2, DepthIs

\* and what is behind changes none in front.
LEMMA DepthBefore ==
  ASSUME NEW b, Flat(b), NEW a, IsBytes(a), NEW i \in 1 .. Len(b)
  PROVE  Depth(b \o a, i) = 0
<1>1. Len(b) \in Nat /\ Len(a) \in Nat /\ IsBytes(b)
  BY BytesAre DEF Flat
<1>2. ASSUME NEW w \in {3, 4} PROVE {j \in 1 .. i - 1 : (b \o a)[j].wt = w} = {}
  <2>1. \A j \in 1 .. i - 1 : j \in 1 .. Len(b)
    BY <1>1
  <2>2. \A j \in 1 .. i - 1 : (b \o a)[j].wt \in {0, 2}
    BY <1>1, <2>1, BytesConcat DEF Flat
  <2>. QED
    BY <2>2
<1>3. PICK c : c = b \o a
  OBVIOUS
<1>4. {j \in 1 .. i - 1 : c[j].wt = 3} = {} /\ {j \in 1 .. i - 1 : c[j].wt = 4} = {}
  BY <1>2, <1>3
<1>5. Cardinality({}) = 0
  BY FS_EmptySet
<1>6. Depth(c, i) = Cardinality({}) - Cardinality({})
  BY <1>4, Zenon DEF Depth
<1>. QED
  BY <1>3, <1>5, <1>6

\* The top level of a flat byte string with another behind it.
LEMMA TopOfBoth ==
  ASSUME NEW b, Flat(b), NEW a, IsBytes(a)
  PROVE  /\ \A i \in 1 .. Len(b) : i \in TopLevel(b \o a)
         /\ \A i \in 1 .. Len(a) : Len(b) + i \in TopLevel(b \o a) <=> i \in TopLevel(a)
         /\ \A k \in TopLevel(b \o a) : k \in 1 .. Len(b) \/ \E i \in TopLevel(a) : k = Len(b) + i
<1>1. Len(b) \in Nat /\ Len(a) \in Nat /\ IsBytes(b) /\ DOMAIN a = 1 .. Len(a)
  BY BytesAre DEF Flat
<1>2. Len(b \o a) = Len(b) + Len(a) /\ DOMAIN (b \o a) = 1 .. Len(b) + Len(a)
  <2>1. IsBytes(b \o a) /\ Len(b \o a) = Len(b) + Len(a)
    BY <1>1, BytesConcat
  <2>. QED
    BY <2>1, BytesAre
<1>3. \A i \in 1 .. Len(b) : i \in TopLevel(b \o a)
  BY <1>1, <1>2, DepthBefore DEF TopLevel
<1>4. \A i \in 1 .. Len(a) : Len(b) + i \in TopLevel(b \o a) <=> i \in TopLevel(a)
  <2>1. \A i \in 1 .. Len(a) : Depth(b \o a, Len(b) + i) = Depth(a, i)
    BY <1>1, DepthBehind
  <2>2. \A i \in 1 .. Len(a) : Len(b) + i \in 1 .. Len(b) + Len(a)
    BY <1>1
  <2>. QED
    BY <1>1, <1>2, <2>1, <2>2 DEF TopLevel
<1>5. ASSUME NEW k \in TopLevel(b \o a), k \notin 1 .. Len(b)
      PROVE  \E i \in TopLevel(a) : k = Len(b) + i
  <2>1. k \in 1 .. Len(b) + Len(a)
    BY <1>2 DEF TopLevel
  <2>2. k - Len(b) \in 1 .. Len(a) /\ k = Len(b) + (k - Len(b))
    BY <1>1, <1>5, <2>1
  <2>. QED
    BY <1>4, <2>2
<1>. QED
  BY <1>3, <1>4, <1>5

\* A flat byte string is legal if its fields have their wire types,
LEMMA FlatLegal ==
  ASSUME NEW b, Flat(b), NEW schema,
         \A i \in 1 .. Len(b) :
           /\ b[i].num > 0
           /\ b[i].num \in DOMAIN schema => b[i].wt = schema[b[i].num]
  PROVE  Legal(b, schema)
<1>1. Len(b) \in Nat /\ DOMAIN b = 1 .. Len(b)
  BY BytesAre DEF Flat
<1>2. TopLevel(b) = 1 .. Len(b)
  BY FlatTop
<1>3. \A i \in 1 .. Len(b) : b[i].wt \in 0 .. 5 /\ b[i].wt # 4
  BY DEF Flat
<1>4. Depth(b, Len(b) + 1) = 0
  BY <1>1, FlatDepth
<1>. QED
  BY <1>1, <1>2, <1>3, <1>4 DEF Legal

\* and stays legal with something behind it that the reader can skip,
LEMMA LegalBoth ==
  ASSUME NEW b, Flat(b), NEW schema, Legal(b, schema), NEW a, IsBytes(a), Legal(a, <<>>),
         \A i \in TopLevel(a) : a[i].num \notin DOMAIN schema
  PROVE  Legal(b \o a, schema)
<1>1. /\ Len(b) \in Nat /\ DOMAIN b = 1 .. Len(b) /\ IsBytes(b)
      /\ Len(a) \in Nat /\ DOMAIN a = 1 .. Len(a)
  BY BytesAre DEF Flat
<1>2. PICK c : c = b \o a
  OBVIOUS
<1>3. /\ IsBytes(c) /\ Len(c) = Len(b) + Len(a)
      /\ \A i \in 1 .. Len(b) : c[i] = b[i]
      /\ \A i \in 1 .. Len(a) : c[Len(b) + i] = a[i]
  BY <1>1, <1>2, BytesConcat
<1>4. DOMAIN c = 1 .. Len(b) + Len(a)
  BY <1>3, BytesAre
<1>5. ASSUME NEW k \in DOMAIN c
      PROVE  k \in 1 .. Len(b) \/ \E i \in 1 .. Len(a) : k = Len(b) + i
  <2>1. k \notin 1 .. Len(b) => k - Len(b) \in 1 .. Len(a) /\ k = Len(b) + (k - Len(b))
    BY <1>1, <1>4
  <2>. QED
    BY <2>1
<1>6. ASSUME NEW k \in DOMAIN c PROVE c[k].wt \in 0 .. 5
  <2>1. (\A i \in 1 .. Len(b) : b[i].wt \in 0 .. 5) /\ \A i \in 1 .. Len(a) : a[i].wt \in 0 .. 5
    BY <1>1 DEF Legal
  <2>. QED
    BY <1>3, <1>5, <2>1
<1>7. ASSUME NEW k \in TopLevel(c)
      PROVE  /\ c[k].wt # 4 /\ c[k].num > 0
             /\ c[k].num \in DOMAIN schema => c[k].wt = schema[c[k].num]
  <2>1. CASE k \in 1 .. Len(b)
    <3>1. k \in TopLevel(b)
      BY <2>1, FlatTop
    <3>. QED
      BY <1>3, <2>1, <3>1 DEF Legal
  <2>2. CASE \E i \in TopLevel(a) : k = Len(b) + i
    <3>1. PICK i \in TopLevel(a) : k = Len(b) + i
      BY <2>2
    <3>2. i \in 1 .. Len(a) /\ c[k] = a[i]
      BY <1>1, <1>3, <3>1 DEF TopLevel
    <3>. QED
      BY <3>2 DEF Legal
  <2>3. k \in 1 .. Len(b) \/ \E i \in TopLevel(a) : k = Len(b) + i
    BY <1>2, TopOfBoth
  <2>. QED
    BY <2>1, <2>2, <2>3
<1>8. Depth(c, Len(c) + 1) = 0
  <2>1. Len(a) + 1 \in 1 .. Len(a) + 1 /\ Len(c) + 1 = Len(b) + (Len(a) + 1)
    BY <1>1, <1>3
  <2>2. Depth(b \o a, Len(b) + (Len(a) + 1)) = Depth(a, Len(a) + 1)
    BY <2>1, DepthBehind
  <2>. QED
    BY <1>2, <2>1, <2>2 DEF Legal
<1>. QED
  BY <1>2, <1>6, <1>7, <1>8 DEF Legal

\* which changes none of its fields.
LEMMA AtBoth ==
  ASSUME NEW b, Flat(b), NEW a, IsBytes(a), NEW num, \A i \in TopLevel(a) : a[i].num # num
  PROVE  At(b \o a, num) = At(b, num)
<1>1. /\ Len(b) \in Nat /\ DOMAIN b = 1 .. Len(b) /\ IsBytes(b)
      /\ Len(a) \in Nat /\ DOMAIN a = 1 .. Len(a)
  BY BytesAre DEF Flat
<1>2. PICK c : c = b \o a
  OBVIOUS
<1>3. /\ \A i \in 1 .. Len(b) : c[i] = b[i]
      /\ \A i \in 1 .. Len(a) : c[Len(b) + i] = a[i]
  BY <1>1, <1>2, BytesConcat
<1>4. /\ \A i \in 1 .. Len(b) : i \in TopLevel(c)
      /\ \A k \in TopLevel(c) : k \in 1 .. Len(b) \/ \E i \in TopLevel(a) : k = Len(b) + i
  BY <1>2, TopOfBoth
<1>5. ASSUME NEW k \in TopLevel(c), c[k].num = num PROVE k \in 1 .. Len(b) /\ b[k].num = num
  <2>1. ASSUME NEW i \in TopLevel(a), k = Len(b) + i PROVE FALSE
    BY <1>1, <1>3, <1>5, <2>1 DEF TopLevel
  <2>. QED
    BY <1>3, <1>4, <1>5, <2>1
<1>6. At(b, num) = {i \in 1 .. Len(b) : b[i].num = num}
  BY FlatAt
<1>7. At(c, num) = {i \in 1 .. Len(b) : b[i].num = num}
  BY <1>3, <1>4, <1>5 DEF At
<1>. QED
  BY <1>2, <1>6, <1>7

\* No field of the number: nothing is nested.
LEMMA NestedNone ==
  ASSUME NEW b, IsBytes(b), NEW num, At(b, num) = {}
  PROVE  Nested(b, num) = <<>>
<1>1. PICK t : /\ t[0] = <<>>
               /\ \A n \in 1 .. Len(b) :
                    t[n] = t[n - 1] \o IF n \in At(b, num) THEN b[n].val.sub ELSE <<>>
               /\ Nested(b, num) = t[Len(b)]
  BY NestedTrace
<1>2. Len(b) \in Nat
  BY BytesAre
<1>. DEFINE Q == {n \in 0 .. Len(b) : t[n] = <<>>}
<1>3. 0 \in Q
  BY <1>1, <1>2
<1>4. ASSUME NEW n \in 0 .. Len(b), n \in Q, n < Len(b) PROVE n + 1 \in Q
  <2>1. n + 1 \in 1 .. Len(b) /\ (n + 1) - 1 = n
    BY <1>2, <1>4
  <2>2. t[n + 1] = t[n] \o <<>>
    BY <1>1, <2>1
  <2>3. t[n] = <<>> /\ <<>> \o <<>> = <<>>
    BY <1>4, EmptyIsBytes, ConcatEmpty
  <2>. QED
    BY <1>2, <2>1, <2>2, <2>3
<1>. HIDE DEF Q
<1>5. \A n \in 0 .. Len(b) : n \in Q
  BY <1>2, <1>3, <1>4, AllUpTo
<1>6. Len(b) \in Q
  BY <1>2, <1>5
<1>. QED
  BY <1>1, <1>6 DEF Q

\* A nested message that was written once is read as it was written.
LEMMA NestedOne ==
  ASSUME NEW b, IsBytes(b), NEW num, NEW i \in 1 .. Len(b), At(b, num) = {i},
         IsBytes(b[i].val.sub)
  PROVE  Nested(b, num) = b[i].val.sub
<1>1. PICK t : /\ t[0] = <<>>
               /\ \A n \in 1 .. Len(b) :
                    t[n] = t[n - 1] \o IF n \in At(b, num) THEN b[n].val.sub ELSE <<>>
               /\ Nested(b, num) = t[Len(b)]
  BY NestedTrace
<1>2. Len(b) \in Nat
  BY BytesAre
<1>3. PICK s : s = b[i].val.sub
  OBVIOUS
<1>4. <<>> \o <<>> = <<>> /\ <<>> \o s = s /\ s \o <<>> = s
  BY <1>3, EmptyIsBytes, ConcatEmpty
<1>. DEFINE Q == {n \in 0 .. Len(b) : t[n] = IF n < i THEN <<>> ELSE s}
<1>5. 0 \in Q
  BY <1>1, <1>2
<1>6. ASSUME NEW n \in 0 .. Len(b), n \in Q, n < Len(b) PROVE n + 1 \in Q
  <2>1. n + 1 \in 1 .. Len(b) /\ n + 1 \in 0 .. Len(b) /\ (n + 1) - 1 = n
    BY <1>2, <1>6
  <2>2. n + 1 = i => t[n + 1] = t[n] \o s
    BY <1>1, <1>3, <2>1
  <2>3. n + 1 # i => t[n + 1] = t[n] \o <<>>
    BY <1>1, <2>1
  <2>4. (n < i => t[n] = <<>>) /\ (~(n < i) => t[n] = s)
    BY <1>6
  <2>5. CASE n + 1 < i
    <3>1. n < i /\ n + 1 # i
      BY <1>2, <2>5
    <3>2. t[n + 1] = <<>>
      BY <3>1, <2>3, <2>4, <1>4, Zenon
    <3>. QED
      BY <2>1, <2>5, <3>2
  <2>6. CASE n + 1 = i
    <3>1. n < i /\ ~(n + 1 < i)
      BY <1>2, <2>6
    <3>2. t[n + 1] = s
      BY <3>1, <2>2, <2>4, <2>6, <1>4, Zenon
    <3>. QED
      BY <2>1, <3>1, <3>2
  <2>7. CASE i < n + 1
    <3>1. ~(n < i) /\ ~(n + 1 < i) /\ n + 1 # i
      BY <1>2, <2>7
    <3>2. t[n + 1] = s
      BY <3>1, <2>3, <2>4, <1>4, Zenon
    <3>. QED
      BY <2>1, <3>1, <3>2
  <2>. QED
    BY <1>2, <2>5, <2>6, <2>7
<1>. HIDE DEF Q
<1>7. \A n \in 0 .. Len(b) : n \in Q
  BY <1>2, <1>5, <1>6, AllUpTo
<1>8. Len(b) \in Q
  BY <1>2, <1>7
<1>. QED
  BY <1>1, <1>2, <1>3, <1>8 DEF Q

\* The first n tokens.
Prefix(a, n) == [i \in 1 .. n |-> a[i]]

\* Token by token.
LEMMA PrefixGrows ==
  ASSUME NEW a, IsBytes(a), NEW k \in 1 .. Len(a)
  PROVE  Prefix(a, k - 1) \o <<a[k]>> = Prefix(a, k)
<1>1. k \in Nat /\ k - 1 \in Nat /\ k - 1 + 1 = k
  BY BytesAre
<1>2. PICK b : b = Prefix(a, k - 1)
  OBVIOUS
<1>3. IsBytes(b) /\ Len(b) = k - 1 /\ \A i \in 1 .. k - 1 : b[i] = a[i]
  <2>1. DOMAIN b = 1 .. k - 1 /\ b = [i \in 1 .. k - 1 |-> b[i]]
    BY <1>2 DEF Prefix
  <2>. QED
    BY <1>1, <1>2, <2>1, SeqIsBytes DEF Prefix
<1>4. PICK c : c = Prefix(a, k)
  OBVIOUS
<1>5. IsBytes(c) /\ Len(c) = k /\ \A i \in 1 .. k : c[i] = a[i]
  <2>1. DOMAIN c = 1 .. k /\ c = [i \in 1 .. k |-> c[i]]
    BY <1>4 DEF Prefix
  <2>. QED
    BY <1>1, <1>4, <2>1, SeqIsBytes DEF Prefix
<1>6. PICK o : o = <<a[k]>>
  OBVIOUS
<1>7. IsBytes(o) /\ Len(o) = 1 /\ o[1] = a[k]
  BY <1>6, OneIsBytes
<1>8. PICK d : d = b \o o
  OBVIOUS
<1>9. /\ IsBytes(d) /\ Len(d) = Len(b) + Len(o)
      /\ \A i \in 1 .. Len(b) : d[i] = b[i]
      /\ \A i \in 1 .. Len(o) : d[Len(b) + i] = o[i]
  <2>1. IsBytes(b) /\ IsBytes(o)
    BY <1>3, <1>7
  <2>. QED
    BY ONLY <2>1, <1>8, BytesConcat
<1>10. d[k] = a[k]
  <2>1. 1 \in 1 .. Len(o) /\ Len(b) + 1 = k
    BY <1>1, <1>3, <1>7
  <2>. QED
    BY <1>7, <1>9, <2>1
<1>11. \A i \in 1 .. k : i = k \/ i \in 1 .. k - 1
  BY <1>1
<1>12. \A i \in 1 .. k : d[i] = c[i]
  BY <1>3, <1>5, <1>9, <1>10, <1>11
<1>13. Len(d) = k
  BY <1>1, <1>3, <1>7, <1>9
<1>14. d = c
  BY <1>5, <1>9, <1>12, <1>13, BytesEqual
<1>. QED
  BY <1>2, <1>4, <1>6, <1>8, <1>14

\* What is unknown is kept and what is known is not, whatever groups follow.
LEMMA UnknownBoth ==
  ASSUME NEW b, Flat(b), NEW a, IsBytes(a), NEW schema,
         \A i \in 1 .. Len(b) : b[i].num \in DOMAIN schema,
         \A i \in TopLevel(a) : a[i].num \notin DOMAIN schema
  PROVE  UnknownOf(b \o a, schema) = a
<1>1. /\ Len(b) \in Nat /\ IsBytes(b) /\ Len(a) \in Nat /\ DOMAIN a = 1 .. Len(a)
  BY BytesAre DEF Flat
<1>2. PICK c : c = b \o a
  OBVIOUS
<1>3. /\ IsBytes(c) /\ Len(c) = Len(b) + Len(a)
      /\ \A i \in 1 .. Len(b) : c[i] = b[i]
      /\ \A i \in 1 .. Len(a) : c[Len(b) + i] = a[i]
  BY <1>1, <1>2, BytesConcat
<1>4. PICK t : /\ t[0] = <<>>
               /\ \A n \in 1 .. Len(c) :
                    t[n] = t[n - 1] \o IF n \in Known(c, schema) THEN <<>> ELSE <<c[n]>>
               /\ UnknownOf(c, schema) = t[Len(c)]
  BY <1>3, UnknownTrace
<1>5. /\ \A i \in 1 .. Len(b) : i \in Known(c, schema)
      /\ \A i \in 1 .. Len(a) : Len(b) + i \notin Known(c, schema)
  <2>1. /\ \A i \in 1 .. Len(b) : i \in TopLevel(c)
        /\ \A i \in 1 .. Len(a) : Len(b) + i \in TopLevel(c) <=> i \in TopLevel(a)
    BY <1>2, TopOfBoth
  <2>. QED
    BY <1>3, <2>1 DEF Known
<1>. DEFINE Q == {n \in 0 .. Len(b) : t[n] = <<>>}
            R == {n \in 0 .. Len(a) : t[Len(b) + n] = Prefix(a, n)}
<1>6. 0 \in Q
  BY <1>1, <1>4
<1>7. ASSUME NEW n \in 0 .. Len(b), n \in Q, n < Len(b) PROVE n + 1 \in Q
  <2>1. n + 1 \in 1 .. Len(b) /\ n + 1 \in 1 .. Len(c) /\ (n + 1) - 1 = n
    BY <1>1, <1>3, <1>7
  <2>2. t[n + 1] = t[n] \o IF n + 1 \in Known(c, schema) THEN <<>> ELSE <<c[n + 1]>>
    BY <1>4, <2>1
  <2>3. t[n + 1] = t[n] \o <<>>
    BY <1>5, <2>1, <2>2
  <2>4. t[n] = <<>> /\ <<>> \o <<>> = <<>>
    BY <1>7, EmptyIsBytes, ConcatEmpty
  <2>. QED
    BY <1>1, <2>1, <2>3, <2>4
<1>. HIDE DEF Q
<1>8. \A n \in 0 .. Len(b) : n \in Q
  BY <1>1, <1>6, <1>7, AllUpTo
<1>9. 0 \in R
  <2>1. t[Len(b)] = <<>>
    BY <1>1, <1>8 DEF Q
  <2>2. 1 .. 0 = {}
    OBVIOUS
  <2>3. Prefix(a, 0) = <<>>
    BY <2>2 DEF Prefix
  <2>. QED
    BY <1>1, <2>1, <2>3
<1>10. ASSUME NEW n \in 0 .. Len(a), n \in R, n < Len(a) PROVE n + 1 \in R
  <2>1. PICK k \in 1 .. Len(a) : k = n + 1
    BY <1>1, <1>10
  <2>2. Len(b) + k \in 1 .. Len(c) /\ (Len(b) + k) - 1 = Len(b) + n /\ k - 1 = n
    BY <1>1, <1>3, <2>1
  <2>3. t[Len(b) + k] = t[(Len(b) + k) - 1] \o
          IF Len(b) + k \in Known(c, schema) THEN <<>> ELSE <<c[Len(b) + k]>>
    BY <1>4, <2>2
  <2>4. Len(b) + k \notin Known(c, schema) /\ c[Len(b) + k] = a[k]
    BY <1>3, <1>5
  <2>5. t[Len(b) + k] = t[Len(b) + n] \o <<a[k]>>
    BY <2>2, <2>3, <2>4
  <2>6. t[Len(b) + n] = Prefix(a, k - 1)
    BY <1>10, <2>2
  <2>7. t[Len(b) + k] = Prefix(a, k)
    BY <2>5, <2>6, PrefixGrows
  <2>. QED
    BY <1>1, <2>1, <2>7
<1>. HIDE DEF R
<1>11. \A n \in 0 .. Len(a) : n \in R
  BY <1>1, <1>9, <1>10, AllUpTo
<1>12. t[Len(c)] = Prefix(a, Len(a))
  BY <1>1, <1>3, <1>11 DEF R
<1>13. Prefix(a, Len(a)) = a
  BY BytesAre DEF Prefix
<1>. QED
  BY <1>2, <1>4, <1>12, <1>13

\* Nothing is unknown where every number is in the schema.
LEMMA NothingUnknown ==
  ASSUME NEW b, Flat(b), NEW schema, \A i \in 1 .. Len(b) : b[i].num \in DOMAIN schema
  PROVE  UnknownOf(b, schema) = <<>>
<1>1. IsBytes(<<>>) /\ TopLevel(<<>>) = {} /\ IsBytes(b)
  BY EmptyIsBytes DEF TopLevel, Flat
<1>2. UnknownOf(b \o <<>>, schema) = <<>>
  BY <1>1, UnknownBoth
<1>. QED
  BY <1>1, <1>2, ConcatEmpty

-----------------------------------------------------------------------------
(* Sizes.                                                                  *)

LEMMA TokenType ==
  ASSUME NEW t, t.num \in Nat, t.len \in Nat
  PROVE  TokenBytes(t) \in Nat
<1>1. EncodeVarint[8 * t.num] \in Nat /\ EncodeVarint[t.len] \in Nat
  BY EncodeVarintType
<1>. QED
  BY <1>1 DEF TokenBytes

\* A byte string whose sizes are numbers.
Sized(b) == IsBytes(b) /\ \A i \in 1 .. Len(b) : b[i].num \in Nat /\ b[i].len \in Nat

\* Sizes of what is put together: BytesOf is a sum.
LEMMA SizedBoth ==
  ASSUME NEW a, Sized(a), NEW b, Sized(b)
  PROVE  Sized(a \o b)
<1>1. IsBytes(a) /\ IsBytes(b) /\ Len(a) \in Nat /\ Len(b) \in Nat
  BY BytesAre DEF Sized
<1>2. PICK c : c = a \o b
  OBVIOUS
<1>3. /\ IsBytes(c) /\ Len(c) = Len(a) + Len(b)
      /\ \A i \in 1 .. Len(a) : c[i] = a[i]
      /\ \A i \in 1 .. Len(b) : c[Len(a) + i] = b[i]
  BY <1>1, <1>2, BytesConcat
<1>4. ASSUME NEW i \in 1 .. Len(c) PROVE c[i].num \in Nat /\ c[i].len \in Nat
  <2>1. CASE i \in 1 .. Len(a)
    BY <1>3, <2>1 DEF Sized
  <2>2. CASE i \notin 1 .. Len(a)
    <3>1. PICK k \in 1 .. Len(b) : i = Len(a) + k
      <4>1. i - Len(a) \in 1 .. Len(b) /\ i = Len(a) + (i - Len(a))
        BY <1>1, <1>3, <2>2
      <4>. QED
        BY <4>1
    <3>. QED
      BY <1>3, <3>1 DEF Sized
  <2>. QED
    BY <2>1, <2>2
<1>. QED
  BY <1>2, <1>3, <1>4 DEF Sized

LEMMA BytesOfType ==
  ASSUME NEW b, Sized(b)
  PROVE  BytesOf(b) \in Nat
<1>1. IsBytes(b) /\ Len(b) \in Nat
  BY BytesAre DEF Sized
<1>2. PICK t : /\ t[0] = 0
               /\ \A n \in 1 .. Len(b) : t[n] = t[n - 1] + TokenBytes(b[n])
               /\ BytesOf(b) = t[Len(b)]
  BY <1>1, BytesOfTrace
<1>. DEFINE Q == {n \in 0 .. Len(b) : t[n] \in Nat}
<1>3. 0 \in Q
  BY <1>1, <1>2
<1>4. ASSUME NEW n \in 0 .. Len(b), n \in Q, n < Len(b) PROVE n + 1 \in Q
  <2>1. n + 1 \in 1 .. Len(b) /\ (n + 1) - 1 = n
    BY <1>1, <1>4
  <2>2. TokenBytes(b[n + 1]) \in Nat
    BY <2>1, TokenType DEF Sized
  <2>3. t[n + 1] = t[n] + TokenBytes(b[n + 1])
    BY <1>2, <2>1
  <2>. QED
    BY <1>1, <1>4, <2>1, <2>2, <2>3
<1>. HIDE DEF Q
<1>5. \A n \in 0 .. Len(b) : n \in Q
  BY <1>1, <1>3, <1>4, AllUpTo
<1>. QED
  BY <1>1, <1>2, <1>5 DEF Q

LEMMA BytesOfBoth ==
  ASSUME NEW a, Sized(a), NEW b, Sized(b)
  PROVE  BytesOf(a \o b) = BytesOf(a) + BytesOf(b)
<1>1. IsBytes(a) /\ IsBytes(b) /\ Len(a) \in Nat /\ Len(b) \in Nat
  BY BytesAre DEF Sized
<1>2. PICK c : c = a \o b
  OBVIOUS
<1>3. /\ IsBytes(c) /\ Len(c) = Len(a) + Len(b)
      /\ \A i \in 1 .. Len(a) : c[i] = a[i]
      /\ \A i \in 1 .. Len(b) : c[Len(a) + i] = b[i]
  BY <1>1, <1>2, BytesConcat
<1>4. PICK t : /\ t[0] = 0
               /\ \A n \in 1 .. Len(a) : t[n] = t[n - 1] + TokenBytes(a[n])
               /\ BytesOf(a) = t[Len(a)]
  BY <1>1, BytesOfTrace
<1>5. PICK u : /\ u[0] = 0
               /\ \A n \in 1 .. Len(b) : u[n] = u[n - 1] + TokenBytes(b[n])
               /\ BytesOf(b) = u[Len(b)]
  BY <1>1, BytesOfTrace
<1>6. PICK v : /\ v[0] = 0
               /\ \A n \in 1 .. Len(c) : v[n] = v[n - 1] + TokenBytes(c[n])
               /\ BytesOf(c) = v[Len(c)]
  BY <1>3, BytesOfTrace
<1>. DEFINE Q == {n \in 0 .. Len(a) : v[n] = t[n]}
            R == {n \in 0 .. Len(b) : u[n] \in Nat /\ v[Len(a) + n] = BytesOf(a) + u[n]}
<1>7. 0 \in Q
  BY <1>1, <1>4, <1>6
<1>8. ASSUME NEW n \in 0 .. Len(a), n \in Q, n < Len(a) PROVE n + 1 \in Q
  <2>1. n + 1 \in 1 .. Len(a) /\ n + 1 \in 1 .. Len(c) /\ (n + 1) - 1 = n /\ v[n] = t[n]
    BY <1>1, <1>3, <1>8
  <2>2. t[n + 1] = t[n] + TokenBytes(a[n + 1]) /\ v[n + 1] = v[n] + TokenBytes(c[n + 1])
    BY <1>4, <1>6, <2>1
  <2>. QED
    BY <1>1, <1>3, <2>1, <2>2
<1>. HIDE DEF Q
<1>9. \A n \in 0 .. Len(a) : n \in Q
  BY <1>1, <1>7, <1>8, AllUpTo
<1>10. BytesOf(a) \in Nat /\ v[Len(a)] = BytesOf(a)
  <2>1. v[Len(a)] = BytesOf(a)
    BY <1>1, <1>4, <1>9 DEF Q
  <2>. QED
    BY <2>1, BytesOfType
<1>11. 0 \in R
  BY <1>1, <1>5, <1>10
<1>12. ASSUME NEW n \in 0 .. Len(b), n \in R, n < Len(b) PROVE n + 1 \in R
  <2>1. PICK k \in 1 .. Len(b) : k = n + 1
    BY <1>1, <1>12
  <2>2. Len(a) + k \in 1 .. Len(c) /\ (Len(a) + k) - 1 = Len(a) + n /\ k - 1 = n
    BY <1>1, <1>3, <2>1
  <2>3. u[k] = u[n] + TokenBytes(b[k]) /\ v[Len(a) + k] = v[Len(a) + n] + TokenBytes(b[k])
    <3>1. u[k] = u[k - 1] + TokenBytes(b[k])
      BY <1>5
    <3>2. v[Len(a) + k] = v[(Len(a) + k) - 1] + TokenBytes(c[Len(a) + k])
      BY <1>6, <2>2
    <3>. QED
      BY <1>3, <2>2, <3>1, <3>2
  <2>4. TokenBytes(b[k]) \in Nat
    BY TokenType DEF Sized
  <2>5. u[n] \in Nat /\ v[Len(a) + n] = BytesOf(a) + u[n]
    BY <1>12
  <2>6. u[k] \in Nat /\ v[Len(a) + k] = BytesOf(a) + u[k]
    BY <1>10, <2>3, <2>4, <2>5
  <2>. QED
    BY <1>1, <2>1, <2>6
<1>. HIDE DEF R
<1>13. \A n \in 0 .. Len(b) : n \in R
  BY <1>1, <1>11, <1>12, AllUpTo
<1>14. v[Len(c)] = BytesOf(a) + BytesOf(b)
  BY <1>1, <1>3, <1>5, <1>13 DEF R
<1>. QED
  BY <1>2, <1>6, <1>14

LEMMA BytesOfNone == BytesOf(<<>>) = 0
<1>1. IsBytes(<<>>) /\ Len(<<>>) = 0
  BY EmptyIsBytes
<1>. QED
  BY <1>1, BytesOfTrace

LEMMA BytesOfOne ==
  ASSUME NEW t, t.num \in Nat, t.len \in Nat
  PROVE  BytesOf(<<t>>) = TokenBytes(t)
<1>1. PICK b : b = <<t>>
  OBVIOUS
<1>2. IsBytes(b) /\ Len(b) = 1 /\ b[1] = t
  BY <1>1, OneIsBytes
<1>3. PICK v : v[0] = 0 /\ (\A n \in 1 .. Len(b) : v[n] = v[n - 1] + TokenBytes(b[n]))
               /\ BytesOf(b) = v[Len(b)]
  BY <1>2, BytesOfTrace
<1>4. 1 \in 1 .. Len(b) /\ 1 - 1 = 0
  BY <1>2
<1>5. v[1] = v[1 - 1] + TokenBytes(b[1])
  BY <1>3, <1>4
<1>6. TokenBytes(t) \in Nat
  BY TokenType
<1>. QED
  BY <1>1, <1>2, <1>3, <1>4, <1>5, <1>6

-----------------------------------------------------------------------------
(* What the marshallers write: known fields, each once or not at all.      *)

Written(b, schema) ==
  /\ IsBytes(b)
  /\ \A i \in 1 .. Len(b) :
       /\ b[i].num \in DOMAIN schema /\ b[i].num \in 1 .. 3 /\ b[i].len \in Nat
       /\ b[i].wt = schema[b[i].num] /\ b[i].wt \in {0, 2}

\* The fields of a number are those of f, none or one.
Only(b, num, f) ==
  \/ f = <<>> /\ \A i \in 1 .. Len(b) : b[i].num # num
  \/ \E i \in 1 .. Len(b) :
       f = <<b[i]>> /\ \A j \in 1 .. Len(b) : b[j].num = num <=> j = i

\* A token of two byte strings is of one of them.
LEMMA EveryOfBoth ==
  ASSUME NEW a, IsBytes(a), NEW b, IsBytes(b), NEW i \in 1 .. Len(a \o b)
  PROVE  \/ i \in 1 .. Len(a) /\ (a \o b)[i] = a[i]
         \/ \E k \in 1 .. Len(b) : i = Len(a) + k /\ (a \o b)[i] = b[k]
<1>1. Len(a) \in Nat /\ Len(b) \in Nat
  BY BytesAre
<1>2. PICK c : c = a \o b
  OBVIOUS
<1>3. /\ IsBytes(c) /\ Len(c) = Len(a) + Len(b)
      /\ \A j \in 1 .. Len(a) : c[j] = a[j]
      /\ \A j \in 1 .. Len(b) : c[Len(a) + j] = b[j]
  BY <1>2, BytesConcat
<1>4. i \notin 1 .. Len(a) => i - Len(a) \in 1 .. Len(b) /\ i = Len(a) + (i - Len(a))
  BY <1>1, <1>2, <1>3
<1>5. i \notin 1 .. Len(a) => \E k \in 1 .. Len(b) : i = Len(a) + k
  BY <1>4
<1>. QED
  BY <1>2, <1>3, <1>5

\* What is written in pieces is written.
LEMMA WrittenBoth ==
  ASSUME NEW schema, NEW a, Written(a, schema), NEW b, Written(b, schema)
  PROVE  Written(a \o b, schema)
<1>1. IsBytes(a) /\ IsBytes(b)
  BY DEF Written
<1>2. PICK c : c = a \o b
  OBVIOUS
<1>3. IsBytes(c)
  BY <1>1, <1>2, BytesConcat
<1>4. \A i \in 1 .. Len(c) : (i \in 1 .. Len(a) /\ c[i] = a[i])
                            \/ \E k \in 1 .. Len(b) : i = Len(a) + k /\ c[i] = b[k]
  BY <1>1, <1>2, EveryOfBoth
<1>. DEFINE OfSchema(t) == /\ t.num \in DOMAIN schema /\ t.num \in 1 .. 3 /\ t.len \in Nat
                           /\ t.wt = schema[t.num] /\ t.wt \in {0, 2}
<1>5. (\A i \in 1 .. Len(a) : OfSchema(a[i])) /\ \A i \in 1 .. Len(b) : OfSchema(b[i])
  BY DEF Written
<1>. HIDE DEF OfSchema
<1>6. \A i \in 1 .. Len(c) : OfSchema(c[i])
  BY <1>4, <1>5
<1>. QED
  BY <1>2, <1>3, <1>6 DEF Written, OfSchema

\* What a reader finds in what was written.
LEMMA WrittenIs ==
  ASSUME NEW schema, NEW b, Written(b, schema)
  PROVE  /\ IsBytes(b) /\ Flat(b) /\ Sized(b) /\ Legal(b, schema)
         /\ UnknownOf(b, schema) = <<>>
         /\ \A i \in 1 .. Len(b) : b[i].num \in DOMAIN schema
<1>1. IsBytes(b) /\ Flat(b)
  BY DEF Written, Flat
<1>2. Sized(b)
  BY DEF Written, Sized
<1>3. \A i \in 1 .. Len(b) :
        /\ b[i].num \in DOMAIN schema /\ b[i].num > 0
        /\ b[i].num \in DOMAIN schema => b[i].wt = schema[b[i].num]
  BY DEF Written
<1>4. Legal(b, schema)
  BY <1>1, <1>3, FlatLegal
<1>5. UnknownOf(b, schema) = <<>>
  BY <1>1, <1>3, NothingUnknown
<1>. QED
  BY <1>1, <1>2, <1>3, <1>4, <1>5

\* The fields of a number in two byte strings, when one has none.
LEMMA OnlyBefore ==
  ASSUME NEW a, IsBytes(a), NEW b, IsBytes(b), NEW num, NEW f,
         Only(a, num, f), Only(b, num, <<>>)
  PROVE  Only(a \o b, num, f)
<1>1. \A i \in 1 .. Len(b) : b[i].num # num
  BY DEF Only
<1>2. PICK c : c = a \o b
  OBVIOUS
<1>3. Len(a) \in Nat /\ Len(b) \in Nat
  BY BytesAre
<1>4. /\ Len(c) = Len(a) + Len(b)
      /\ \A j \in 1 .. Len(a) : c[j] = a[j]
  BY <1>2, BytesConcat
<1>5. \A i \in 1 .. Len(c) : (i \in 1 .. Len(a) /\ c[i] = a[i])
                            \/ \E k \in 1 .. Len(b) : i = Len(a) + k /\ c[i] = b[k]
  BY <1>2, EveryOfBoth
<1>6. \A i \in 1 .. Len(c) : c[i].num = num => i \in 1 .. Len(a) /\ a[i].num = num
  BY <1>1, <1>5
<1>7. CASE f = <<>> /\ \A i \in 1 .. Len(a) : a[i].num # num
  BY <1>2, <1>6, <1>7 DEF Only
<1>8. ASSUME NEW i \in 1 .. Len(a), f = <<a[i]>>,
             \A j \in 1 .. Len(a) : a[j].num = num <=> j = i
      PROVE  Only(c, num, f)
  <2>1. i \in 1 .. Len(c) /\ c[i] = a[i] /\ c[i].num = num
    BY <1>3, <1>4, <1>8
  <2>2. \A j \in 1 .. Len(c) : c[j].num = num <=> j = i
    BY <1>6, <1>8, <2>1
  <2>3. f = <<c[i]>>
    BY <1>8, <2>1
  <2>. QED
    BY <2>1, <2>2, <2>3 DEF Only
<1>. QED
  BY <1>2, <1>7, <1>8 DEF Only

LEMMA OnlyBehind ==
  ASSUME NEW a, IsBytes(a), NEW b, IsBytes(b), NEW num, NEW f,
         Only(a, num, <<>>), Only(b, num, f)
  PROVE  Only(a \o b, num, f)
<1>1. \A i \in 1 .. Len(a) : a[i].num # num
  BY DEF Only
<1>2. PICK c : c = a \o b
  OBVIOUS
<1>3. Len(a) \in Nat /\ Len(b) \in Nat
  BY BytesAre
<1>4. /\ Len(c) = Len(a) + Len(b)
      /\ \A j \in 1 .. Len(b) : c[Len(a) + j] = b[j]
  BY <1>2, BytesConcat
<1>5. \A i \in 1 .. Len(c) : (i \in 1 .. Len(a) /\ c[i] = a[i])
                            \/ \E k \in 1 .. Len(b) : i = Len(a) + k /\ c[i] = b[k]
  BY <1>2, EveryOfBoth
<1>6. \A i \in 1 .. Len(c) :
        c[i].num = num => \E k \in 1 .. Len(b) : i = Len(a) + k /\ b[k].num = num
  BY <1>1, <1>5
<1>7. CASE f = <<>> /\ \A i \in 1 .. Len(b) : b[i].num # num
  BY <1>2, <1>6, <1>7 DEF Only
<1>8. ASSUME NEW i \in 1 .. Len(b), f = <<b[i]>>,
             \A j \in 1 .. Len(b) : b[j].num = num <=> j = i
      PROVE  Only(c, num, f)
  <2>1. PICK m \in 1 .. Len(c) : m = Len(a) + i
    BY <1>3, <1>4
  <2>2. c[m] = b[i] /\ c[m].num = num
    BY <1>4, <1>8, <2>1
  <2>3. \A j \in 1 .. Len(c) : c[j].num = num <=> j = m
    BY <1>6, <1>8, <2>1, <2>2
  <2>4. f = <<c[m]>>
    BY <1>8, <2>2
  <2>. QED
    BY <2>3, <2>4 DEF Only
<1>. QED
  BY <1>2, <1>7, <1>8 DEF Only

\* In no token and in one.
LEMMA OnlyNone == ASSUME NEW num PROVE Only(<<>>, num, <<>>)
BY EmptyIsBytes DEF Only

LEMMA OnlyOne ==
  ASSUME NEW t, NEW num
  PROVE  IF t.num = num THEN Only(<<t>>, num, <<t>>) ELSE Only(<<t>>, num, <<>>)
<1>1. PICK b : b = <<t>>
  OBVIOUS
<1>2. Len(b) = 1 /\ b[1] = t /\ \A i \in 1 .. Len(b) : i = 1
  BY <1>1, OneIsBytes
<1>3. 1 \in 1 .. Len(b) /\ b = <<b[1]>>
  BY <1>1, <1>2
<1>4. t.num = num => Only(b, num, b)
  BY <1>2, <1>3 DEF Only
<1>5. t.num # num => Only(b, num, <<>>)
  BY <1>2 DEF Only
<1>. QED
  BY <1>1, <1>4, <1>5

\* Where a reader finds them.
LEMMA AtNone ==
  ASSUME NEW b, Flat(b), NEW num, Only(b, num, <<>>)
  PROVE  At(b, num) = {}
<1>1. \A i \in 1 .. Len(b) : b[i].num # num
  BY DEF Only
<1>. QED
  BY <1>1, FlatAt

\* A field that was written once is at one place.
LEMMA AtOne ==
  ASSUME NEW b, Flat(b), NEW num, NEW t, Only(b, num, <<t>>)
  PROVE  \E i \in 1 .. Len(b) : At(b, num) = {i} /\ Max(At(b, num)) = i /\ b[i] = t
<1>1. PICK i \in 1 .. Len(b) : <<t>> = <<b[i]>>
                              /\ \A j \in 1 .. Len(b) : b[j].num = num <=> j = i
  BY DEF Only
<1>2. b[i] = t
  BY <1>1
<1>3. At(b, num) = {i}
  BY <1>1, FlatAt
<1>4. i \in Nat
  BY BytesAre DEF Flat
<1>. QED
  BY <1>2, <1>3, <1>4, MaxOfOne

-----------------------------------------------------------------------------
(* The fields of this module's messages.                                   *)

\* Lengths whose varint has at most four bytes.
Lengths == {l \in Nat : l < 128 * 128 * 128 * 128}

\* The length in front of a text or a message is counted as it is written.
LEMMA PrefixedIs ==
  ASSUME NEW l \in Lengths
  PROVE  Prefixed(l) = 1 + (EncodeVarint[l] + l) /\ Prefixed(l) \in Nat /\ Prefixed(l) <= l + 5
<1>1. l \in Nat /\ Sov(l) = EncodeVarint[l] /\ Sov(l) \in 1 .. 4
  BY SovIs DEF Lengths
<1>. QED
  BY <1>1 DEF Prefixed

\* Texts have lengths whose varints are at most four bytes.
LEMMA TextType ==
  ASSUME NEW t \in Texts
  PROVE  /\ LengthOf[t] \in Lengths /\ LengthOf[t] \in Nat /\ LengthOf[t] <= 100 * 1024 * 1024
         /\ (LengthOf[t] > 0 <=> t # EmptyText)
<1>1. LengthOf[t] \in 0 .. MaxTextBytes /\ (LengthOf[t] = 0 <=> t = EmptyText)
  BY LengthAssumption DEF Texts
<1>2. PICK l \in Nat : l = LengthOf[t] /\ l <= 100 * 1024 * 1024
  <2>1. PICK m \in Nat : m = MaxTextBytes /\ m <= 100 * 1024 * 1024
    BY DEF MaxTextBytes
  <2>2. LengthOf[t] \in 0 .. m
    BY <1>1, <2>1
  <2>3. LengthOf[t] \in Nat /\ LengthOf[t] <= m
    BY <2>2
  <2>. QED
    BY <2>1, <2>3
<1>3. l \in Lengths
  BY <1>2 DEF Lengths
<1>. QED
  BY <1>1, <1>2, <1>3

LEMMA EmptyType == EmptyText \in Texts /\ LengthOf[EmptyText] = 0
<1>1. EmptyText \in Texts
  BY TextAssumption DEF AllDenoms
<1>. QED
  BY <1>1, TextType

\* The tags of this module's fields take one byte.
LEMMA SmallTag ==
  ASSUME NEW n \in 1 .. 3
  PROVE  EncodeVarint[8 * n] = 1
<1>1. PICK f : f = EncodeVarint
  OBVIOUS
<1>2. f = [z \in Nat |-> IF z < 128 THEN 1 ELSE 1 + f[z \div 128]]
  BY <1>1, EncodeVarintIs
<1>3. 8 * n \in Nat /\ 8 * n < 128
  OBVIOUS
<1>. QED
  BY <1>1, <1>2, <1>3

\* One token of a known field, and none.
LEMMA OneIsWritten ==
  ASSUME NEW schema, NEW t, t.num \in DOMAIN schema, t.num \in 1 .. 3, t.len \in Nat,
         t.wt = schema[t.num], t.wt \in {0, 2}
  PROVE  Written(<<t>>, schema) /\ BytesOf(<<t>>) = TokenBytes(t)
<1>1. PICK b : b = <<t>>
  OBVIOUS
<1>2. IsBytes(b) /\ Len(b) = 1 /\ b[1] = t /\ \A i \in 1 .. Len(b) : i = 1
  BY <1>1, OneIsBytes
<1>3. Written(b, schema)
  BY <1>2 DEF Written
<1>. QED
  BY <1>1, <1>3, BytesOfOne

LEMMA NoneIsWritten == ASSUME NEW schema PROVE Written(<<>>, schema) /\ BytesOf(<<>>) = 0
BY EmptyIsBytes, BytesOfNone DEF Written

\* A text field as it is written: its size is the one SizeOfText counts, and
\* no other number occurs in it.
LEMMA OptTextIs ==
  ASSUME NEW schema, NEW n \in 1 .. 3, n \in DOMAIN schema, schema[n] = 2, NEW t \in Texts
  PROVE  /\ Written(OptText(n, t), schema)
         /\ BytesOf(OptText(n, t)) = SizeOfText(t)
         /\ SizeOfText(t) \in Nat /\ SizeOfText(t) <= LengthOf[t] + 5
         /\ Only(OptText(n, t), n, OptText(n, t))
         /\ \A m : m # n => Only(OptText(n, t), m, <<>>)
<1>1. /\ LengthOf[t] \in Lengths /\ LengthOf[t] \in Nat
  BY TextType
<1>2. CASE LengthOf[t] > 0
  <2>1. PICK tok : tok = Text(n, t)
    OBVIOUS
  <2>2. tok.num = n /\ tok.wt = 2 /\ tok.len = LengthOf[t]
    BY <2>1 DEF Text, Token
  <2>3. OptText(n, t) = <<tok>> /\ SizeOfText(t) = Prefixed(LengthOf[t])
    BY <1>2, <2>1 DEF OptText, SizeOfText
  <2>4. Written(<<tok>>, schema) /\ BytesOf(<<tok>>) = TokenBytes(tok)
    BY <1>1, <2>2, OneIsWritten
  <2>5. TokenBytes(tok) = Prefixed(LengthOf[t])
    <3>1. TokenBytes(tok) = EncodeVarint[8 * n] + (EncodeVarint[LengthOf[t]] + LengthOf[t])
      BY <2>2 DEF TokenBytes
    <3>. QED
      BY <1>1, <3>1, SmallTag, PrefixedIs
  <2>6. Only(<<tok>>, n, <<tok>>) /\ \A m : m # n => Only(<<tok>>, m, <<>>)
    BY <2>2, OnlyOne
  <2>. QED
    BY <1>1, <2>3, <2>4, <2>5, <2>6, PrefixedIs
<1>3. CASE ~(LengthOf[t] > 0)
  <2>1. OptText(n, t) = <<>> /\ SizeOfText(t) = 0
    BY <1>3 DEF OptText, SizeOfText
  <2>. QED
    BY <1>1, <2>1, NoneIsWritten, OnlyNone
<1>. QED
  BY <1>2, <1>3

\* The same of a switch,
LEMMA OptBoolIs ==
  ASSUME NEW schema, NEW n \in 1 .. 3, n \in DOMAIN schema, schema[n] = 0, NEW v \in BOOLEAN
  PROVE  /\ Written(OptBool(n, v), schema)
         /\ BytesOf(OptBool(n, v)) = SizeOfBool(v)
         /\ SizeOfBool(v) \in 0 .. 2
         /\ Only(OptBool(n, v), n, OptBool(n, v))
         /\ \A m : m # n => Only(OptBool(n, v), m, <<>>)
<1>1. CASE v
  <2>1. PICK tok : tok = Varint(n, 1)
    OBVIOUS
  <2>2. tok.num = n /\ tok.wt = 0 /\ tok.len = 0
    BY <2>1 DEF Varint, Token
  <2>3. OptBool(n, v) = <<tok>> /\ SizeOfBool(v) = 2
    BY <1>1, <2>1 DEF OptBool, SizeOfBool
  <2>4. Written(<<tok>>, schema) /\ BytesOf(<<tok>>) = TokenBytes(tok)
    BY <2>2, OneIsWritten
  <2>5. TokenBytes(tok) = 2
    <3>1. TokenBytes(tok) = EncodeVarint[8 * n] + 1
      BY <2>2 DEF TokenBytes
    <3>. QED
      BY <3>1, SmallTag
  <2>6. Only(<<tok>>, n, <<tok>>) /\ \A m : m # n => Only(<<tok>>, m, <<>>)
    BY <2>2, OnlyOne
  <2>. QED
    BY <2>3, <2>4, <2>5, <2>6
<1>2. CASE ~v
  <2>1. OptBool(n, v) = <<>> /\ SizeOfBool(v) = 0
    BY <1>2 DEF OptBool, SizeOfBool
  <2>. QED
    BY <2>1, NoneIsWritten, OnlyNone
<1>. QED
  BY <1>1, <1>2

\* and of a nested message.
LEMMA SubIs ==
  ASSUME NEW schema, NEW n \in 1 .. 3, n \in DOMAIN schema, schema[n] = 2,
         NEW b, BytesOf(b) \in Lengths
  PROVE  /\ Written(<<Sub(n, b)>>, schema)
         /\ BytesOf(<<Sub(n, b)>>) = Prefixed(BytesOf(b))
         /\ Only(<<Sub(n, b)>>, n, <<Sub(n, b)>>)
         /\ \A m : m # n => Only(<<Sub(n, b)>>, m, <<>>)
<1>1. PICK tok : tok = Sub(n, b)
  OBVIOUS
<1>2. PICK l \in Lengths : l = BytesOf(b)
  OBVIOUS
<1>3. tok.num = n /\ tok.wt = 2 /\ tok.len = l /\ l \in Nat
  BY <1>1, <1>2 DEF Sub, Token, Lengths
<1>4. Written(<<tok>>, schema) /\ BytesOf(<<tok>>) = TokenBytes(tok)
  BY <1>3, OneIsWritten
<1>5. TokenBytes(tok) = EncodeVarint[8 * n] + (EncodeVarint[l] + l)
  BY <1>3 DEF TokenBytes
<1>6. TokenBytes(tok) = Prefixed(l)
  BY <1>5, SmallTag, PrefixedIs
<1>7. Only(<<tok>>, n, <<tok>>) /\ \A m : m # n => Only(<<tok>>, m, <<>>)
  BY <1>3, OnlyOne
<1>. QED
  BY <1>1, <1>2, <1>4, <1>6, <1>7

\* Reading a field that was written once, or not at all.
LEMMA ReadsText ==
  ASSUME NEW b, Flat(b), NEW n, NEW t \in Texts, Only(b, n, OptText(n, t))
  PROVE  /\ LastText(b, n, EmptyText) = t
         /\ \A i \in At(b, n) : b[i].val.text = t
         /\ t = EmptyText => At(b, n) = {}
         /\ t # EmptyText => At(b, n) # {} /\ Max(At(b, n)) \in At(b, n)
<1>1. CASE t = EmptyText
  <2>1. OptText(n, t) = <<>>
    BY <1>1, TextType DEF OptText
  <2>2. At(b, n) = {}
    BY <2>1, AtNone
  <2>. QED
    BY <1>1, <2>2 DEF LastText
<1>2. CASE t # EmptyText
  <2>1. OptText(n, t) = <<Text(n, t)>>
    BY <1>2, TextType DEF OptText
  <2>2. PICK i \in 1 .. Len(b) : At(b, n) = {i} /\ Max(At(b, n)) = i /\ b[i] = Text(n, t)
    BY <2>1, AtOne
  <2>3. b[i].val.text = t
    BY <2>2 DEF Text, Token
  <2>. QED
    BY <1>2, <2>2, <2>3 DEF LastText
<1>. QED
  BY <1>1, <1>2

LEMMA ReadsBool ==
  ASSUME NEW b, Flat(b), NEW n, NEW v \in BOOLEAN, Only(b, n, OptBool(n, v))
  PROVE  LastBool(b, n, FALSE) = v
<1>1. CASE ~v
  <2>1. OptBool(n, v) = <<>>
    BY <1>1 DEF OptBool
  <2>2. At(b, n) = {}
    BY <2>1, AtNone
  <2>. QED
    BY <1>1, <2>2 DEF LastBool
<1>2. CASE v
  <2>1. OptBool(n, v) = <<Varint(n, 1)>>
    BY <1>2 DEF OptBool
  <2>2. PICK i \in 1 .. Len(b) : At(b, n) = {i} /\ Max(At(b, n)) = i /\ b[i] = Varint(n, 1)
    BY <2>1, AtOne
  <2>3. b[i].val.int # 0 /\ At(b, n) # {}
    BY <2>2 DEF Varint, Token
  <2>4. LastBool(b, n, FALSE) = (b[i].val.int # 0)
    BY <2>2, <2>3, Zenon DEF LastBool
  <2>5. LastBool(b, n, FALSE) = TRUE
    BY <2>3, <2>4, Zenon
  <2>6. v = TRUE
    BY <1>2
  <2>. QED
    BY <2>5, <2>6
<1>. QED
  BY <1>1, <1>2

\* Reading a nested message that was written once.
LEMMA ReadsSub ==
  ASSUME NEW b, Flat(b), NEW n, NEW s, IsBytes(s), Only(b, n, <<Sub(n, s)>>)
  PROVE  /\ Nested(b, n) = s /\ At(b, n) # {}
         /\ \A i \in At(b, n) : b[i].val.sub = s
<1>1. PICK i \in 1 .. Len(b) : At(b, n) = {i} /\ b[i] = Sub(n, s)
  BY AtOne
<1>2. b[i].val.sub = s
  BY <1>1 DEF Sub, Token
<1>3. IsBytes(b)
  BY DEF Flat
<1>4. Nested(b, n) = b[i].val.sub
  BY <1>1, <1>2, <1>3, NestedOne
<1>. QED
  BY <1>1, <1>2, <1>4

-----------------------------------------------------------------------------
(* Parameters and messages as the module's own types write and read them.  *)

Body(d, a, e) == OptText(1, d) \o OptText(2, a) \o OptBool(3, e)

\* Fields 1 and 2 of Params are texts, field 3 a varint.
LEMMA SchemaIs ==
  /\ ParamsSchema = <<2, 2, 0>> /\ DOMAIN ParamsSchema = 1 .. 3
  /\ ParamsSchema[1] = 2 /\ ParamsSchema[2] = 2 /\ ParamsSchema[3] = 0
  /\ 1 \in 1 .. 3 /\ 2 \in 1 .. 3 /\ 3 \in 1 .. 3
BY DEF ParamsSchema

\* Three fields in a row have the size that is computed for them.
LEMMA BodyWritten ==
  ASSUME NEW d \in Texts, NEW a \in Texts, NEW e \in BOOLEAN
  PROVE  /\ Written(Body(d, a, e), ParamsSchema)
         /\ BytesOf(Body(d, a, e)) = SizeOfText(d) + SizeOfText(a) + SizeOfBool(e)
         /\ BytesOf(Body(d, a, e)) \in Lengths
         /\ Only(Body(d, a, e), 1, OptText(1, d))
         /\ Only(Body(d, a, e), 2, OptText(2, a))
         /\ Only(Body(d, a, e), 3, OptBool(3, e))
<1>1. PICK x : x = OptText(1, d)
  OBVIOUS
<1>2. PICK y : y = OptText(2, a)
  OBVIOUS
<1>3. PICK z : z = OptBool(3, e)
  OBVIOUS
<1>4. /\ Written(x, ParamsSchema) /\ BytesOf(x) = SizeOfText(d)
      /\ Only(x, 1, x) /\ Only(x, 2, <<>>) /\ Only(x, 3, <<>>)
  BY <1>1, SchemaIs, OptTextIs
<1>5. /\ Written(y, ParamsSchema) /\ BytesOf(y) = SizeOfText(a)
      /\ Only(y, 1, <<>>) /\ Only(y, 2, y) /\ Only(y, 3, <<>>)
  BY <1>2, SchemaIs, OptTextIs
<1>6. /\ Written(z, ParamsSchema) /\ BytesOf(z) = SizeOfBool(e)
      /\ Only(z, 1, <<>>) /\ Only(z, 2, <<>>) /\ Only(z, 3, z)
  BY <1>3, SchemaIs, OptBoolIs
<1>7. PICK xy : xy = x \o y
  OBVIOUS
<1>8. IsBytes(x) /\ IsBytes(y) /\ IsBytes(z) /\ Sized(x) /\ Sized(y) /\ Sized(z)
  BY <1>4, <1>5, <1>6, WrittenIs
<1>9. Written(xy, ParamsSchema) /\ IsBytes(xy) /\ Sized(xy)
  BY <1>4, <1>5, <1>7, WrittenBoth, WrittenIs
<1>10. BytesOf(xy) = SizeOfText(d) + SizeOfText(a)
  BY <1>4, <1>5, <1>7, <1>8, BytesOfBoth
<1>11. Only(xy, 1, x) /\ Only(xy, 3, <<>>)
  BY <1>4, <1>5, <1>7, <1>8, OnlyBefore
<1>12. Only(xy, 2, y)
  BY <1>4, <1>5, <1>7, <1>8, OnlyBehind
<1>13. PICK b : b = xy \o z
  OBVIOUS
<1>14. b = Body(d, a, e)
  BY <1>1, <1>2, <1>3, <1>7, <1>13 DEF Body
<1>15. Written(b, ParamsSchema)
  BY <1>6, <1>9, <1>13, WrittenBoth
<1>16. BytesOf(b) = SizeOfText(d) + SizeOfText(a) + SizeOfBool(e)
  BY <1>6, <1>8, <1>9, <1>10, <1>13, BytesOfBoth
<1>17. Only(b, 1, x) /\ Only(b, 2, y)
  BY <1>6, <1>8, <1>9, <1>11, <1>12, <1>13, OnlyBefore
<1>18. Only(b, 3, z)
  BY <1>6, <1>8, <1>9, <1>11, <1>13, OnlyBehind
<1>19. BytesOf(b) \in Lengths
  <2>1. /\ SizeOfText(d) \in Nat /\ SizeOfText(d) <= LengthOf[d] + 5
        /\ SizeOfText(a) \in Nat /\ SizeOfText(a) <= LengthOf[a] + 5
        /\ SizeOfBool(e) \in 0 .. 2
    BY SchemaIs, OptTextIs, OptBoolIs
  <2>2. /\ LengthOf[d] \in Nat /\ LengthOf[d] <= 100 * 1024 * 1024
        /\ LengthOf[a] \in Nat /\ LengthOf[a] <= 100 * 1024 * 1024
    BY TextType
  <2>3. PICK i \in Nat, j \in Nat, k \in 0 .. 2 :
          i = SizeOfText(d) /\ j = SizeOfText(a) /\ k = SizeOfBool(e)
    BY <2>1
  <2>4. i <= 100 * 1024 * 1024 + 5 /\ j <= 100 * 1024 * 1024 + 5
    BY <2>1, <2>2, <2>3
  <2>5. i + j + k \in Nat /\ i + j + k < 128 * 128 * 128 * 128
    BY <2>4
  <2>. QED
    BY <1>16, <2>3, <2>5 DEF Lengths
<1>. QED
  BY <1>1, <1>2, <1>3, <1>14, <1>15, <1>16, <1>17, <1>18, <1>19

\* They are read as they were written.
LEMMA BodyReads ==
  ASSUME NEW d \in Texts, NEW a \in Texts, NEW e \in BOOLEAN
  PROVE  /\ LastText(Body(d, a, e), 1, EmptyText) = d
         /\ LastText(Body(d, a, e), 2, EmptyText) = a
         /\ LastBool(Body(d, a, e), 3, FALSE) = e
         /\ Legal(Body(d, a, e), ParamsSchema)
         /\ UnknownOf(Body(d, a, e), ParamsSchema) = <<>>
<1>1. PICK b : b = Body(d, a, e)
  OBVIOUS
<1>2. /\ Written(b, ParamsSchema) /\ Only(b, 1, OptText(1, d))
      /\ Only(b, 2, OptText(2, a)) /\ Only(b, 3, OptBool(3, e))
  BY <1>1, BodyWritten
<1>3. Flat(b) /\ Legal(b, ParamsSchema) /\ UnknownOf(b, ParamsSchema) = <<>>
  BY <1>2, WrittenIs
<1>4. LastText(b, 1, EmptyText) = d /\ LastText(b, 2, EmptyText) = a
  BY <1>2, <1>3, ReadsText
<1>5. LastBool(b, 3, FALSE) = e
  BY <1>2, <1>3, ReadsBool
<1>. QED
  BY <1>1, <1>3, <1>4, <1>5

\* An amount is written as a number that is read back; nil is written as 0.
LEMMA IntTextIs ==
  ASSUME NEW a \in Ints \cup {NilInt}
  PROVE  /\ IntText(a) \in Texts /\ IntText(a) # EmptyText /\ IntReads(IntText(a))
         /\ ParseInt[IntText(a)] = IF a = NilInt THEN 0 ELSE a
         /\ ParseInt[IntText(a)] \in Ints
<1>1. 0 \in Ints
  BY AmountsAssumption DEF Ints
<1>2. (IF a = NilInt THEN 0 ELSE a) \in Ints
  BY <1>1
<1>3. \A i \in Ints : /\ FormatInt[i] \in Texts /\ FormatInt[i] # EmptyText
                      /\ ParseInt[FormatInt[i]] = i
  BY TextAssumption
<1>. QED
  BY <1>2, <1>3 DEF IntText, IntReads

\* Params.Unmarshal of three fields.
LEMMA ParamsRead ==
  ASSUME NEW d \in Texts, NEW a \in Texts, NEW e \in BOOLEAN
  PROVE  ParamsUnmarshal(ZeroParams, Body(d, a, e)) =
           IF IntReads(a) THEN {NewParams(d, IF a = EmptyText THEN NilInt ELSE ParseInt[a], e)}
                          ELSE {}
<1>1. PICK b : b = Body(d, a, e)
  OBVIOUS
<1>2. Written(b, ParamsSchema) /\ Only(b, 2, OptText(2, a))
  BY <1>1, BodyWritten
<1>3. Flat(b) /\ Legal(b, ParamsSchema)
  BY <1>2, WrittenIs
<1>4. LastText(b, 1, EmptyText) = d /\ LastBool(b, 3, FALSE) = e
  BY <1>1, BodyReads
<1>5. /\ \A i \in At(b, 2) : b[i].val.text = a
      /\ a = EmptyText => At(b, 2) = {}
      /\ a # EmptyText => At(b, 2) # {} /\ Max(At(b, 2)) \in At(b, 2)
  BY <1>2, <1>3, ReadsText
<1>6. ZeroParams.denom = EmptyText /\ ZeroParams.amount = NilInt /\ ZeroParams.enabled = FALSE
  BY TextAssumption DEF ZeroParams, NewParams
<1>. DEFINE amounts == {i \in At(b, 2) : b[i].val.text # EmptyText}
<1>7. CASE a = EmptyText
  <2>1. At(b, 2) = {} /\ amounts = {} /\ IntReads(a)
    BY <1>5, <1>7 DEF IntReads
  <2>2. ParamsUnmarshal(ZeroParams, b) = {NewParams(d, NilInt, e)}
    BY <1>3, <1>4, <1>6, <2>1 DEF ParamsUnmarshal
  <2>. QED
    BY <1>1, <1>7, <2>1, <2>2
<1>8. CASE a # EmptyText
  <2>1. amounts = At(b, 2) /\ amounts # {} /\ b[Max(amounts)].val.text = a
    <3>1. amounts = At(b, 2)
      BY <1>5, <1>8
    <3>. HIDE DEF amounts
    <3>. QED
      BY <1>5, <1>8, <3>1
  <2>2. (\E i \in At(b, 2) : ~IntReads(b[i].val.text)) <=> ~IntReads(a)
    BY <1>5, <1>8
  <2>3. CASE IntReads(a)
    <3>1. ParamsUnmarshal(ZeroParams, b) = {NewParams(d, ParseInt[a], e)}
      BY <1>3, <1>4, <1>6, <2>1, <2>2, <2>3 DEF ParamsUnmarshal
    <3>. QED
      BY <1>1, <1>8, <2>3, <3>1
  <2>4. CASE ~IntReads(a)
    <3>1. ParamsUnmarshal(ZeroParams, b) = {}
      BY <1>3, <2>2, <2>4 DEF ParamsUnmarshal
    <3>. QED
      BY <1>1, <2>4, <3>1
  <2>. QED
    BY <2>3, <2>4
<1>. QED
  BY <1>7, <1>8

PBytes(p) == Body(p.denom, IntText(p.amount), p.enabled)

\* The fields of parameters.
LEMMA ParamsFields ==
  ASSUME NEW p \in Params
  PROVE  /\ p.denom \in AllDenoms /\ p.denom \in Texts
         /\ p.amount \in Ints \cup {NilInt} /\ p.enabled \in BOOLEAN
         /\ p = NewParams(p.denom, p.amount, p.enabled)
BY TextAssumption DEF Params, NewParams

\* Parameters with a nil amount have the bytes of those with a zero.
LEMMA StoredIs ==
  ASSUME NEW p \in Params
  PROVE  /\ Stored(p) \in StorableParams /\ Stored(p) \in Params
         /\ Stored(p) = NewParams(p.denom, IF p.amount = NilInt THEN 0 ELSE p.amount, p.enabled)
         /\ PBytes(Stored(p)) = PBytes(p)
         /\ p \in StorableParams => Stored(p) = p
<1>1. 0 \in Ints /\ NilInt \notin Ints
  BY AmountsAssumption DEF Ints
<1>2. PICK a : a = IF p.amount = NilInt THEN 0 ELSE p.amount
  OBVIOUS
<1>3. a \in Ints /\ a # NilInt
  BY <1>1, <1>2, ParamsFields
<1>4. Stored(p) = NewParams(p.denom, a, p.enabled)
  BY <1>2 DEF Stored, NewParams, Params
<1>5. Stored(p).denom = p.denom /\ Stored(p).amount = a /\ Stored(p).enabled = p.enabled
  BY <1>4 DEF NewParams
<1>6. IntText(a) = IntText(p.amount)
  BY <1>2, <1>3 DEF IntText
<1>7. PBytes(Stored(p)) = PBytes(p)
  BY <1>5, <1>6 DEF PBytes
<1>8. Stored(p) \in StorableParams /\ Stored(p) \in Params
  BY <1>3, <1>4, ParamsFields DEF StorableParams, Params, NewParams
<1>9. p \in StorableParams => Stored(p) = p
  BY <1>1, <1>2, <1>4, ParamsFields DEF StorableParams
<1>. QED
  BY <1>2, <1>4, <1>7, <1>8, <1>9

\* Params.Size counts what Params.Marshal writes.
LEMMA PBytesWritten ==
  ASSUME NEW p \in Params
  PROVE  /\ Written(PBytes(p), ParamsSchema) /\ IsBytes(PBytes(p))
         /\ BytesOf(PBytes(p)) \in Lengths
         /\ ParamsSize(p) = BytesOf(PBytes(p))
<1>1. /\ p.denom \in Texts /\ IntText(p.amount) \in Texts /\ p.enabled \in BOOLEAN
      /\ IntText(p.amount) # EmptyText
  BY ParamsFields, IntTextIs
<1>2. /\ Written(PBytes(p), ParamsSchema)
      /\ BytesOf(PBytes(p)) = SizeOfText(p.denom) + SizeOfText(IntText(p.amount))
                                + SizeOfBool(p.enabled)
      /\ BytesOf(PBytes(p)) \in Lengths
  BY <1>1, BodyWritten DEF PBytes
<1>3. SizeOfText(IntText(p.amount)) = Prefixed(LengthOf[IntText(p.amount)])
  BY <1>1, TextType DEF SizeOfText
<1>4. ParamsSize(p) = BytesOf(PBytes(p))
  BY <1>2, <1>3 DEF ParamsSize
<1>5. IsBytes(PBytes(p))
  BY <1>2 DEF Written
<1>. QED
  BY <1>2, <1>4, <1>5

\* The buffer has the size of what is written into it.
LEMMA ParamsMarshalIs ==
  ASSUME NEW p \in Params
  PROVE  ParamsMarshal(p) = PBytes(p)
<1>1. IntText(p.amount) \in Texts /\ IntText(p.amount) # EmptyText
  BY ParamsFields, IntTextIs
<1>2. OptText(2, IntText(p.amount)) = <<Text(2, IntText(p.amount))>>
  BY <1>1, TextType DEF OptText
<1>3. PBytes(p) = OptText(1, p.denom) \o <<Text(2, IntText(p.amount))>> \o OptBool(3, p.enabled)
  BY <1>2 DEF PBytes, Body
<1>4. ParamsMarshal(p) = Buffered(ParamsSize(p), PBytes(p))
  BY <1>3 DEF ParamsMarshal
<1>. QED
  BY <1>4, PBytesWritten DEF Buffered

\* Unmarshal of Marshal is what the store holds.
LEMMA ParamsRoundTrip ==
  ASSUME NEW p \in Params
  PROVE  ParamsUnmarshal(ZeroParams, PBytes(p)) = {Stored(p)}
<1>1. p.denom \in Texts /\ p.enabled \in BOOLEAN
  BY ParamsFields
<1>2. /\ IntText(p.amount) \in Texts /\ IntText(p.amount) # EmptyText
      /\ IntReads(IntText(p.amount))
      /\ ParseInt[IntText(p.amount)] = IF p.amount = NilInt THEN 0 ELSE p.amount
  BY ParamsFields, IntTextIs
<1>3. ParamsUnmarshal(ZeroParams, PBytes(p))
        = {NewParams(p.denom, ParseInt[IntText(p.amount)], p.enabled)}
  BY <1>1, <1>2, ParamsRead DEF PBytes
<1>. QED
  BY <1>2, <1>3, StoredIs

\* A message: an authority and the parameters, nested.
MsgSchema == <<2, 2>>
MsgBytes(u, s) == OptText(1, u) \o <<Sub(2, s)>>

\* Both fields of the message have their length in front.
LEMMA MsgSchemaIs ==
  /\ DOMAIN MsgSchema = 1 .. 2 /\ MsgSchema[1] = 2 /\ MsgSchema[2] = 2
  /\ 1 \in 1 .. 2 /\ 2 \in 1 .. 2 /\ 1 \in 1 .. 3 /\ 2 \in 1 .. 3
BY DEF MsgSchema

\* The message as it is written,
LEMMA MsgWritten ==
  ASSUME NEW u \in Texts, NEW s, BytesOf(s) \in Lengths
  PROVE  /\ Written(MsgBytes(u, s), MsgSchema)
         /\ BytesOf(MsgBytes(u, s)) = SizeOfText(u) + Prefixed(BytesOf(s))
         /\ Only(MsgBytes(u, s), 1, OptText(1, u))
         /\ Only(MsgBytes(u, s), 2, <<Sub(2, s)>>)
<1>1. PICK x : x = OptText(1, u)
  OBVIOUS
<1>2. PICK y : y = <<Sub(2, s)>>
  OBVIOUS
<1>3. Written(x, MsgSchema) /\ BytesOf(x) = SizeOfText(u) /\ Only(x, 1, x) /\ Only(x, 2, <<>>)
  BY <1>1, MsgSchemaIs, OptTextIs
<1>4. /\ Written(y, MsgSchema) /\ BytesOf(y) = Prefixed(BytesOf(s))
      /\ Only(y, 2, y) /\ Only(y, 1, <<>>)
  BY <1>2, MsgSchemaIs, SubIs
<1>5. IsBytes(x) /\ IsBytes(y) /\ Sized(x) /\ Sized(y)
  BY <1>3, <1>4, WrittenIs
<1>6. PICK b : b = x \o y
  OBVIOUS
<1>7. b = MsgBytes(u, s)
  BY <1>1, <1>2, <1>6 DEF MsgBytes
<1>8. Written(b, MsgSchema)
  BY <1>3, <1>4, <1>6, WrittenBoth
<1>9. BytesOf(b) = SizeOfText(u) + Prefixed(BytesOf(s))
  BY <1>3, <1>4, <1>5, <1>6, BytesOfBoth
<1>10. Only(b, 1, x)
  BY <1>3, <1>4, <1>5, <1>6, OnlyBefore
<1>11. Only(b, 2, y)
  BY <1>3, <1>4, <1>5, <1>6, OnlyBehind
<1>. QED
  BY <1>1, <1>2, <1>7, <1>8, <1>9, <1>10, <1>11

\* and as it is read.
LEMMA MsgReads ==
  ASSUME NEW u \in Texts, NEW s, IsBytes(s), BytesOf(s) \in Lengths
  PROVE  /\ LastText(MsgBytes(u, s), 1, EmptyText) = u
         /\ Nested(MsgBytes(u, s), 2) = s
         /\ At(MsgBytes(u, s), 2) # {}
         /\ \A i \in At(MsgBytes(u, s), 2) : MsgBytes(u, s)[i].val.sub = s
         /\ Legal(MsgBytes(u, s), MsgSchema)
         /\ UnknownOf(MsgBytes(u, s), MsgSchema) = <<>>
<1>1. PICK b : b = MsgBytes(u, s)
  OBVIOUS
<1>2. Written(b, MsgSchema) /\ Only(b, 1, OptText(1, u)) /\ Only(b, 2, <<Sub(2, s)>>)
  BY <1>1, MsgWritten
<1>3. Flat(b) /\ Legal(b, MsgSchema) /\ UnknownOf(b, MsgSchema) = <<>>
  BY <1>2, WrittenIs
<1>4. LastText(b, 1, EmptyText) = u
  BY <1>2, <1>3, ReadsText
<1>5. Nested(b, 2) = s /\ At(b, 2) # {} /\ \A i \in At(b, 2) : b[i].val.sub = s
  BY <1>2, <1>3, ReadsSub
<1>. QED
  BY <1>1, <1>3, <1>4, <1>5

\* The buffer of the message has its size.
LEMMA MsgMarshalIs ==
  ASSUME NEW u \in Texts, NEW p \in Params
  PROVE  MsgUpdateParamsMarshal(MsgUpdateParams(u, p)) = MsgBytes(u, PBytes(p))
<1>1. PICK m : m = MsgUpdateParams(u, p)
  OBVIOUS
<1>2. m.authority = u /\ m.params = p
  BY <1>1 DEF MsgUpdateParams
<1>3. ParamsMarshal(p) = PBytes(p) /\ ParamsSize(p) = BytesOf(PBytes(p))
      /\ BytesOf(PBytes(p)) \in Lengths
  BY ParamsMarshalIs, PBytesWritten
<1>4. MsgUpdateParamsSize(m) = BytesOf(MsgBytes(u, PBytes(p)))
  BY <1>2, <1>3, MsgWritten DEF MsgUpdateParamsSize
<1>5. MsgUpdateParamsMarshal(m) = Buffered(MsgUpdateParamsSize(m), MsgBytes(u, PBytes(p)))
  BY <1>2, <1>3 DEF MsgUpdateParamsMarshal, MsgBytes
<1>6. MsgUpdateParamsMarshal(m) = MsgBytes(u, PBytes(p))
  BY <1>4, <1>5 DEF Buffered
<1>. QED
  BY <1>1, <1>6

\* MsgUpdateParams.Unmarshal reads what is nested, whatever that is.
LEMMA MsgUnmarshalIs ==
  ASSUME NEW u \in Texts, NEW s, IsBytes(s), BytesOf(s) \in Lengths
  PROVE  MsgUpdateParamsUnmarshal(MsgBytes(u, s))
           = {MsgUpdateParams(u, q) : q \in ParamsUnmarshal(ZeroParams, s)}
<1>1. PICK b : b = MsgBytes(u, s)
  OBVIOUS
<1>2. /\ LastText(b, 1, EmptyText) = u /\ Nested(b, 2) = s /\ At(b, 2) # {}
      /\ \A i \in At(b, 2) : b[i].val.sub = s
      /\ Legal(b, <<2, 2>>)
  BY <1>1, MsgReads DEF MsgSchema
<1>3. ReadParams(ZeroParams, b, 2) = ParamsUnmarshal(ZeroParams, s)
  BY <1>2 DEF ReadParams
<1>. QED
  BY <1>1, <1>2, <1>3 DEF MsgUpdateParamsUnmarshal

\* MsgUpdateParams: Unmarshal of Marshal.
LEMMA MsgRoundTrip ==
  ASSUME NEW u \in Texts, NEW p \in Params
  PROVE  MsgUpdateParamsUnmarshal(MsgBytes(u, PBytes(p))) = {MsgUpdateParams(u, Stored(p))}
<1>1. IsBytes(PBytes(p)) /\ BytesOf(PBytes(p)) \in Lengths
  BY PBytesWritten
<1>2. MsgUpdateParamsUnmarshal(MsgBytes(u, PBytes(p)))
        = {MsgUpdateParams(u, q) : q \in ParamsUnmarshal(ZeroParams, PBytes(p))}
  BY <1>1, MsgUnmarshalIs
<1>. QED
  BY <1>2, ParamsRoundTrip

\* A message around the parameters: the genesis state, the answer to a query.
\* Behind it there may be what the reader can skip.
WrapperSchema == <<2>>
WrapperBytes(s, x) == <<Sub(1, s)>> \o x
Skippable(x) ==
  /\ Sized(x) /\ Legal(x, <<>>)
  /\ \A i \in TopLevel(x) : x[i].num # 1

\* Nothing can be skipped, and so can what a later server adds.
LEMMA NothingSkippable == Skippable(<<>>)
<1>1. Written(<<>>, <<>>)
  BY NoneIsWritten
<1>2. Sized(<<>>) /\ Legal(<<>>, <<>>)
  BY <1>1, WrittenIs
<1>3. TopLevel(<<>>) = {}
  BY DEF TopLevel
<1>. QED
  BY <1>2, <1>3 DEF Skippable

LEMMA AdditionSkippable == ASSUME NEW x \in Additions PROVE Skippable(x)
<1>1. IsBytes(x) /\ DOMAIN x = 1 .. Len(x)
  BY WireAssumption, BytesAre
<1>. QED
  BY <1>1, WireAssumption DEF Skippable, Sized

\* The wrapper and what is behind it, as they are read.
LEMMA WrapperReads ==
  ASSUME NEW s, IsBytes(s), BytesOf(s) \in Lengths, NEW x, Skippable(x)
  PROVE  /\ Legal(WrapperBytes(s, x), WrapperSchema)
         /\ Nested(WrapperBytes(s, x), 1) = s
         /\ At(WrapperBytes(s, x), 1) # {}
         /\ \A i \in At(WrapperBytes(s, x), 1) : WrapperBytes(s, x)[i].val.sub = s
         /\ UnknownOf(WrapperBytes(s, x), WrapperSchema) = x
         /\ BytesOf(WrapperBytes(s, x)) = Prefixed(BytesOf(s)) + BytesOf(x)
<1>1. DOMAIN WrapperSchema = 1 .. 1 /\ WrapperSchema[1] = 2 /\ 1 \in 1 .. 1 /\ 1 \in 1 .. 3
  BY DEF WrapperSchema
<1>2. PICK y : y = <<Sub(1, s)>>
  OBVIOUS
<1>3. Written(y, WrapperSchema) /\ BytesOf(y) = Prefixed(BytesOf(s)) /\ Only(y, 1, y)
  BY <1>1, <1>2, SubIs
<1>4. /\ IsBytes(y) /\ Flat(y) /\ Sized(y) /\ Legal(y, WrapperSchema)
      /\ \A i \in 1 .. Len(y) : y[i].num \in DOMAIN WrapperSchema
  BY <1>3, WrittenIs
<1>5. /\ Sized(x) /\ IsBytes(x) /\ Legal(x, <<>>)
      /\ \A i \in TopLevel(x) : x[i].num # 1
  BY DEF Skippable, Sized
<1>6. \A i \in TopLevel(x) : x[i].num \notin DOMAIN WrapperSchema
  BY <1>1, <1>5
<1>7. PICK c : c = y \o x
  OBVIOUS
<1>8. Legal(c, WrapperSchema)
  BY <1>4, <1>5, <1>6, <1>7, LegalBoth
<1>9. UnknownOf(c, WrapperSchema) = x
  BY <1>4, <1>5, <1>6, <1>7, UnknownBoth
<1>10. BytesOf(c) = Prefixed(BytesOf(s)) + BytesOf(x)
  BY <1>3, <1>4, <1>5, <1>7, BytesOfBoth
<1>11. At(c, 1) = At(y, 1)
  BY <1>4, <1>5, <1>7, AtBoth
<1>12. PICK i \in 1 .. Len(y) : At(y, 1) = {i} /\ y[i] = Sub(1, s)
  BY <1>2, <1>3, <1>4, AtOne
<1>13. IsBytes(c) /\ i \in 1 .. Len(c) /\ c[i] = Sub(1, s)
  <2>1. /\ IsBytes(c) /\ Len(c) = Len(y) + Len(x)
        /\ \A j \in 1 .. Len(y) : c[j] = y[j]
    BY <1>4, <1>5, <1>7, BytesConcat
  <2>2. Len(y) \in Nat /\ Len(x) \in Nat
    BY <1>4, <1>5, BytesAre
  <2>. QED
    BY <1>12, <2>1, <2>2
<1>14. c[i].val.sub = s
  BY <1>13 DEF Sub, Token
<1>15. At(c, 1) = {i}
  BY <1>11, <1>12
<1>16. Nested(c, 1) = s
  BY <1>13, <1>14, <1>15, NestedOne
<1>17. c = WrapperBytes(s, x)
  BY <1>2, <1>7 DEF WrapperBytes
<1>. QED
  BY <1>8, <1>9, <1>10, <1>14, <1>15, <1>16, <1>17

LEMMA WrapperEmpty ==
  ASSUME NEW s
  PROVE  WrapperBytes(s, <<>>) = <<Sub(1, s)>>
<1>1. IsBytes(<<Sub(1, s)>>)
  BY OneIsBytes
<1>. QED
  BY <1>1, ConcatEmpty DEF WrapperBytes

\* GenesisState.Marshal and QueryParamsResponse.Marshal,
LEMMA WrapperMarshalIs ==
  ASSUME NEW p \in Params
  PROVE  /\ GenesisStateMarshal([params |-> p]) = WrapperBytes(PBytes(p), <<>>)
         /\ QueryParamsResponseMarshal([params |-> p]) = WrapperBytes(PBytes(p), <<>>)
<1>1. PICK b : b = <<Sub(1, PBytes(p))>>
  OBVIOUS
<1>2. b = WrapperBytes(PBytes(p), <<>>)
  BY <1>1, WrapperEmpty
<1>3. /\ IsBytes(PBytes(p)) /\ BytesOf(PBytes(p)) \in Lengths
      /\ ParamsSize(p) = BytesOf(PBytes(p)) /\ ParamsMarshal(p) = PBytes(p)
  BY ParamsMarshalIs, PBytesWritten
<1>4. Prefixed(BytesOf(PBytes(p))) \in Nat
  BY <1>3, PrefixedIs
<1>5. BytesOf(b) = Prefixed(ParamsSize(p))
  BY <1>2, <1>3, <1>4, WrapperReads, NothingSkippable, BytesOfNone
<1>6. PICK g : g = [params |-> p]
  OBVIOUS
<1>7. g.params = p
  BY <1>6
<1>8. GenesisStateMarshal(g) = b
  BY <1>1, <1>3, <1>5, <1>7 DEF GenesisStateMarshal, GenesisStateSize, Buffered
<1>9. QueryParamsResponseMarshal(g) = b
  BY <1>1, <1>3, <1>5, <1>7 DEF QueryParamsResponseMarshal, QueryParamsResponseSize, Buffered
<1>. QED
  BY <1>2, <1>6, <1>8, <1>9

\* and Unmarshal of their results.
LEMMA WrapperRoundTrip ==
  ASSUME NEW p \in Params, NEW x, Skippable(x)
  PROVE  /\ GenesisStateUnmarshal(WrapperBytes(PBytes(p), x)) = {[params |-> Stored(p)]}
         /\ QueryParamsResponseUnmarshal(WrapperBytes(PBytes(p), x)) = {[params |-> Stored(p)]}
<1>1. PICK b : b = WrapperBytes(PBytes(p), x)
  OBVIOUS
<1>2. IsBytes(PBytes(p)) /\ BytesOf(PBytes(p)) \in Lengths
  BY PBytesWritten
<1>3. /\ Legal(b, <<2>>) /\ Nested(b, 1) = PBytes(p) /\ At(b, 1) # {}
      /\ \A i \in At(b, 1) : b[i].val.sub = PBytes(p)
  BY <1>1, <1>2, WrapperReads DEF WrapperSchema
<1>4. ReadParams(ZeroParams, b, 1) = {Stored(p)}
  BY <1>3, ParamsRoundTrip DEF ReadParams
<1>5. GenesisStateUnmarshal(b) = {[params |-> Stored(p)]}
  BY <1>3, <1>4 DEF GenesisStateUnmarshal
<1>6. QueryParamsResponseUnmarshal(b) = {[params |-> Stored(p)]}
  BY <1>3, <1>4 DEF QueryParamsResponseUnmarshal
<1>. QED
  BY <1>1, <1>5, <1>6

-----------------------------------------------------------------------------
(* The api module has the wire format of the node.                         *)

LEMMA SameBytesOf == ASSUME NEW b PROVE P!BytesOf(b) = BytesOf(b)
BY DEF P!BytesOf, BytesOf, P!TokenBytes, TokenBytes, P!EncodeVarint, EncodeVarint

\* Writing is the same,
LEMMA SameText ==
  ASSUME NEW n, NEW t
  PROVE  P!OptText(n, t) = OptText(n, t) /\ P!SizeOfText(t) = SizeOfText(t)
BY DEF P!OptText, OptText, P!Text, Text, P!Token, Token, P!SizeOfText, SizeOfText,
       P!Prefixed, Prefixed, P!Sov, Sov

LEMMA SameBool ==
  ASSUME NEW n, NEW v
  PROVE  P!OptBool(n, v) = OptBool(n, v) /\ P!SizeOfBool(v) = SizeOfBool(v)
BY DEF P!OptBool, OptBool, P!Varint, Varint, P!Token, Token, P!SizeOfBool, SizeOfBool

LEMMA SamePrefixed == ASSUME NEW l PROVE P!Prefixed(l) = Prefixed(l)
BY DEF P!Prefixed, Prefixed, P!Sov, Sov

LEMMA SameSub == ASSUME NEW n, NEW b PROVE P!Sub(n, b) = Sub(n, b)
BY SameBytesOf DEF P!Sub, Sub, P!Token, Token

LEMMA SameBuffered == ASSUME NEW l, NEW b PROVE P!Buffered(l, b) = Buffered(l, b)
BY SameBytesOf DEF P!Buffered, Buffered, P!Unreadable, Unreadable, P!Token, Token, P!Void, Void

\* and so is reading.
LEMMA SameCardinality == ASSUME NEW S PROVE P!Cardinality(S) = Cardinality(S)
BY Zenon DEF P!Cardinality, Cardinality

LEMMA SameDepth == ASSUME NEW b, NEW i PROVE P!Depth(b, i) = Depth(b, i)
BY SameCardinality DEF P!Depth, Depth

LEMMA SameTop == ASSUME NEW b PROVE P!TopLevel(b) = TopLevel(b)
BY SameDepth DEF P!TopLevel, TopLevel

LEMMA SameAt == ASSUME NEW b, NEW n PROVE P!At(b, n) = At(b, n)
BY SameTop DEF P!At, At

LEMMA SameLegal == ASSUME NEW b, NEW schema PROVE P!Legal(b, schema) <=> Legal(b, schema)
BY SameTop, SameDepth DEF P!Legal, Legal

LEMMA SameMax == ASSUME NEW S PROVE P!Max(S) = Max(S)
BY DEF P!Max, Max

LEMMA SameLast ==
  ASSUME NEW b, NEW n, NEW old
  PROVE  P!LastText(b, n, old) = LastText(b, n, old) /\ P!LastBool(b, n, old) = LastBool(b, n, old)
BY SameAt, SameMax, Zenon DEF P!LastText, LastText, P!LastBool, LastBool

LEMMA SameNested == ASSUME NEW b, NEW n PROVE P!Nested(b, n) = Nested(b, n)
BY SameAt DEF P!Nested, Nested

LEMMA SameUnknown ==
  ASSUME NEW b, NEW schema
  PROVE  P!UnknownOf(b, schema) = UnknownOf(b, schema)
BY SameTop DEF P!UnknownOf, UnknownOf

-----------------------------------------------------------------------------
(* Parameters and messages as the api module writes and reads them.  What  *)
(* the generated code of either side writes leaves no unknown fields.      *)

Shape(d, a, e) == [denom |-> d, amount |-> a, enabled |-> e, unknown |-> <<>>]
Letter(u, ps)  == [authority |-> u, params |-> ps, unknown |-> <<>>]
Envelope(ps, x) == [params |-> ps, unknown |-> x]

\* A new message keeps what is unknown in the bytes.
LEMMA KeptIs ==
  ASSUME NEW m, m.unknown = <<>>, NEW b, NEW schema, NEW x,
         UnknownOf(b, schema) = x, IsBytes(x)
  PROVE  P!Kept(m, b, schema) = x
<1>1. P!Kept(m, b, schema) = <<>> \o x
  BY SameUnknown DEF P!Kept
<1>. QED
  BY <1>1, ConcatEmpty

\* Params: unmarshal,
LEMMA ShapeRead ==
  ASSUME NEW d \in Texts, NEW a \in Texts, NEW e \in BOOLEAN
  PROVE  P!ParamsUnmarshal(P!NewParams, Body(d, a, e)) = {Shape(d, a, e)}
<1>1. PICK b : b = Body(d, a, e)
  OBVIOUS
<1>2. PICK z : z = P!NewParams
  OBVIOUS
<1>3. /\ z.denom = EmptyText /\ z.amount = EmptyText /\ z.enabled = FALSE /\ z.unknown = <<>>
  BY <1>2 DEF P!NewParams
<1>4. P!ParamsSchema = ParamsSchema
  BY DEF P!ParamsSchema, ParamsSchema
<1>5. /\ LastText(b, 1, EmptyText) = d /\ LastText(b, 2, EmptyText) = a
      /\ LastBool(b, 3, FALSE) = e
      /\ Legal(b, ParamsSchema) /\ UnknownOf(b, ParamsSchema) = <<>>
  <2>1. /\ LastText(Body(d, a, e), 1, EmptyText) = d
        /\ LastText(Body(d, a, e), 2, EmptyText) = a
        /\ LastBool(Body(d, a, e), 3, FALSE) = e
        /\ Legal(Body(d, a, e), ParamsSchema)
        /\ UnknownOf(Body(d, a, e), ParamsSchema) = <<>>
    BY BodyReads
  <2>. QED
    BY <1>1, <2>1
<1>6. P!Kept(z, b, ParamsSchema) = <<>>
  BY <1>3, <1>5, EmptyIsBytes, KeptIs
<1>7. P!Legal(b, ParamsSchema)
  BY <1>5, SameLegal
<1>8. /\ P!LastText(b, 1, z.denom) = d /\ P!LastText(b, 2, z.amount) = a
      /\ P!LastBool(b, 3, z.enabled) = e
  <2>1. /\ P!LastText(b, 1, z.denom) = d /\ P!LastText(b, 2, z.amount) = a
    BY <1>3, <1>5, SameLast
  <2>2. P!LastBool(b, 3, z.enabled) = LastBool(b, 3, FALSE)
    BY <1>3, SameLast, Zenon
  <2>. QED
    BY <1>5, <2>1, <2>2
<1>9. P!ParamsUnmarshal(z, b) = {Shape(d, a, e)}
  BY <1>4, <1>6, <1>7, <1>8 DEF P!ParamsUnmarshal, Shape
<1>. QED
  BY <1>1, <1>2, <1>9

\* and marshal.
LEMMA ShapeWritten ==
  ASSUME NEW d \in Texts, NEW a \in Texts, NEW e \in BOOLEAN
  PROVE  /\ P!ParamsMarshal(Shape(d, a, e)) = Body(d, a, e)
         /\ P!ParamsSize(Shape(d, a, e)) = BytesOf(Body(d, a, e))
<1>1. PICK m : m = Shape(d, a, e)
  OBVIOUS
<1>2. m.denom = d /\ m.amount = a /\ m.unknown = <<>>
  BY <1>1 DEF Shape
<1>3. m.enabled = e
  BY <1>1 DEF Shape
<1>4. /\ BytesOf(Body(d, a, e)) = SizeOfText(d) + SizeOfText(a) + SizeOfBool(e)
      /\ IsBytes(Body(d, a, e)) /\ BytesOf(Body(d, a, e)) \in Nat
  BY BodyWritten DEF Written, Lengths
<1>5. P!SizeOfBool(m.enabled) = SizeOfBool(e)
  BY <1>3, SameBool, Zenon
<1>6. P!ParamsSize(m) = SizeOfText(d) + SizeOfText(a) + SizeOfBool(e) + 0
  BY <1>2, <1>5, SameText, SameBytesOf, BytesOfNone DEF P!ParamsSize
<1>7. P!ParamsSize(m) = BytesOf(Body(d, a, e))
  BY <1>4, <1>6
<1>8. P!OptBool(3, m.enabled) = OptBool(3, e)
  BY <1>3, SameBool, Zenon
<1>9. P!ParamsMarshal(m) = P!Buffered(P!ParamsSize(m), Body(d, a, e) \o <<>>)
  BY <1>2, <1>8, SameText DEF P!ParamsMarshal, Body
<1>10. P!ParamsMarshal(m) = Body(d, a, e)
  BY <1>4, <1>7, <1>9, ConcatEmpty, SameBuffered DEF Buffered
<1>. QED
  BY <1>1, <1>7, <1>10

\* What a nested message contributes to the one around it.
LEMMA NestedWritten ==
  ASSUME NEW d \in Texts, NEW a \in Texts, NEW e \in BOOLEAN, NEW n
  PROVE  /\ P!OptNested(n, {Shape(d, a, e)}) = <<Sub(n, Body(d, a, e))>>
         /\ P!SizeOfNested({Shape(d, a, e)}) = Prefixed(BytesOf(Body(d, a, e)))
<1>1. PICK m : m = Shape(d, a, e)
  OBVIOUS
<1>2. P!Pointee({m}) = m /\ {m} # {}
  BY DEF P!Pointee
<1>3. P!ParamsMarshal(m) = Body(d, a, e) /\ P!ParamsSize(m) = BytesOf(Body(d, a, e))
  BY <1>1, ShapeWritten
<1>4. P!OptNested(n, {m}) = <<Sub(n, Body(d, a, e))>>
  BY <1>2, <1>3, SameSub DEF P!OptNested
<1>5. P!SizeOfNested({m}) = Prefixed(BytesOf(Body(d, a, e)))
  BY <1>2, <1>3, SamePrefixed DEF P!SizeOfNested
<1>. QED
  BY <1>1, <1>4, <1>5

\* A nested message that was written once is read into a new one.
LEMMA NestedRead ==
  ASSUME NEW d \in Texts, NEW a \in Texts, NEW e \in BOOLEAN, NEW b, NEW n,
         Nested(b, n) = Body(d, a, e), At(b, n) # {},
         \A i \in At(b, n) : b[i].val.sub = Body(d, a, e)
  PROVE  P!ReadNested({}, b, n) = {{Shape(d, a, e)}}
<1>1. PICK s : s = Body(d, a, e)
  OBVIOUS
<1>2. P!ParamsUnmarshal(P!NewParams, s) = {Shape(d, a, e)}
  BY <1>1, ShapeRead
<1>3. P!Pointee({}) = P!NewParams
  BY DEF P!Pointee
<1>4. P!At(b, n) = At(b, n) /\ P!Nested(b, n) = s
  BY <1>1, SameAt, SameNested
<1>5. ~ \E i \in P!At(b, n) : P!ParamsUnmarshal(P!NewParams, b[i].val.sub) = {}
  BY <1>1, <1>2, <1>4
<1>6. P!ReadNested({}, b, n) = {P!ParamsUnmarshal(P!NewParams, s)}
  BY <1>3, <1>4, <1>5 DEF P!ReadNested
<1>. QED
  BY <1>2, <1>6

\* MsgUpdateParams: unmarshal,
LEMMA LetterRead ==
  ASSUME NEW u \in Texts, NEW d \in Texts, NEW a \in Texts, NEW e \in BOOLEAN
  PROVE  Pulsar(MsgBytes(u, Body(d, a, e))) = {Letter(u, {Shape(d, a, e)})}
<1>1. PICK s : s = Body(d, a, e)
  OBVIOUS
<1>2. IsBytes(s) /\ BytesOf(s) \in Lengths
  BY <1>1, BodyWritten DEF Written
<1>3. PICK b : b = MsgBytes(u, s)
  OBVIOUS
<1>4. /\ LastText(b, 1, EmptyText) = u /\ Nested(b, 2) = s /\ At(b, 2) # {}
      /\ \A i \in At(b, 2) : b[i].val.sub = s
      /\ Legal(b, MsgSchema) /\ UnknownOf(b, MsgSchema) = <<>>
  BY <1>2, <1>3, MsgReads
<1>5. PICK z : z = P!NewMsg
  OBVIOUS
<1>6. z.authority = EmptyText /\ z.params = {} /\ z.unknown = <<>>
  BY <1>5 DEF P!NewMsg
<1>7. P!MsgUpdateParamsSchema = MsgSchema
  BY DEF P!MsgUpdateParamsSchema, MsgSchema
<1>8. P!Kept(z, b, MsgSchema) = <<>>
  BY <1>4, <1>6, EmptyIsBytes, KeptIs
<1>9. P!ReadNested(z.params, b, 2) = {{Shape(d, a, e)}}
  BY <1>1, <1>4, <1>6, NestedRead
<1>10. P!Legal(b, MsgSchema)
  BY <1>4, SameLegal
<1>11. P!LastText(b, 1, z.authority) = u
  BY <1>4, <1>6, SameLast
<1>12. P!MsgUpdateParamsUnmarshal(z, b) = {Letter(u, {Shape(d, a, e)})}
  BY <1>7, <1>8, <1>9, <1>10, <1>11 DEF P!MsgUpdateParamsUnmarshal, Letter
<1>. QED
  BY <1>1, <1>3, <1>5, <1>12 DEF Pulsar

\* and marshal.
LEMMA LetterWritten ==
  ASSUME NEW u \in Texts, NEW d \in Texts, NEW a \in Texts, NEW e \in BOOLEAN
  PROVE  P!MsgUpdateParamsMarshal(Letter(u, {Shape(d, a, e)})) = MsgBytes(u, Body(d, a, e))
<1>1. PICK s : s = Body(d, a, e)
  OBVIOUS
<1>2. IsBytes(s) /\ BytesOf(s) \in Lengths
  BY <1>1, BodyWritten DEF Written
<1>3. PICK m : m = Letter(u, {Shape(d, a, e)})
  OBVIOUS
<1>4. m.authority = u /\ m.params = {Shape(d, a, e)} /\ m.unknown = <<>>
  BY <1>3 DEF Letter
<1>5. P!OptNested(2, m.params) = <<Sub(2, s)>> /\ P!SizeOfNested(m.params) = Prefixed(BytesOf(s))
  <2>1. /\ P!OptNested(2, {Shape(d, a, e)}) = <<Sub(2, Body(d, a, e))>>
        /\ P!SizeOfNested({Shape(d, a, e)}) = Prefixed(BytesOf(Body(d, a, e)))
    BY NestedWritten
  <2>. QED
    BY <1>1, <1>4, <2>1
<1>6. /\ BytesOf(MsgBytes(u, s)) = SizeOfText(u) + Prefixed(BytesOf(s))
      /\ IsBytes(MsgBytes(u, s))
  BY <1>2, MsgWritten DEF Written
<1>7. SizeOfText(u) \in Nat /\ Prefixed(BytesOf(s)) \in Nat
  <2>1. SizeOfText(u) \in Nat
    BY MsgSchemaIs, OptTextIs
  <2>. QED
    BY <1>2, <2>1, PrefixedIs
<1>8. P!MsgUpdateParamsSize(m) = BytesOf(MsgBytes(u, s))
  BY <1>4, <1>5, <1>6, <1>7, SameText, SameBytesOf, BytesOfNone DEF P!MsgUpdateParamsSize
<1>9. P!MsgUpdateParamsMarshal(m) = P!Buffered(P!MsgUpdateParamsSize(m), MsgBytes(u, s) \o <<>>)
  BY <1>4, <1>5, SameText DEF P!MsgUpdateParamsMarshal, MsgBytes
<1>10. P!MsgUpdateParamsMarshal(m) = MsgBytes(u, s)
  BY <1>6, <1>8, <1>9, ConcatEmpty, SameBuffered DEF Buffered
<1>. QED
  BY <1>1, <1>3, <1>10

\* A draft without parameters.
LEMMA BareWritten ==
  ASSUME NEW u \in Texts
  PROVE  /\ P!MsgUpdateParamsMarshal(Letter(u, {})) = OptText(1, u)
         /\ Legal(OptText(1, u), MsgSchema)
         /\ LastText(OptText(1, u), 1, EmptyText) = u
         /\ At(OptText(1, u), 2) = {} /\ Nested(OptText(1, u), 2) = <<>>
<1>1. PICK m : m = Letter(u, {})
  OBVIOUS
<1>2. m.authority = u /\ m.params = {} /\ m.unknown = <<>>
  BY <1>1 DEF Letter
<1>3. PICK b : b = OptText(1, u)
  OBVIOUS
<1>4. /\ Written(b, MsgSchema) /\ BytesOf(b) = SizeOfText(u) /\ SizeOfText(u) \in Nat
      /\ Only(b, 1, b) /\ Only(b, 2, <<>>)
  BY <1>3, MsgSchemaIs, OptTextIs
<1>5. Flat(b) /\ IsBytes(b) /\ Legal(b, MsgSchema)
  BY <1>4, WrittenIs
<1>6. P!OptNested(2, {}) = <<>> /\ P!SizeOfNested({}) = 0
  BY DEF P!OptNested, P!SizeOfNested
<1>7. P!MsgUpdateParamsSize(m) = BytesOf(b)
  BY <1>2, <1>4, <1>6, SameText, SameBytesOf, BytesOfNone DEF P!MsgUpdateParamsSize
<1>8. P!MsgUpdateParamsMarshal(m) = P!Buffered(P!MsgUpdateParamsSize(m), b \o <<>> \o <<>>)
  BY <1>2, <1>3, <1>6, SameText DEF P!MsgUpdateParamsMarshal
<1>9. P!MsgUpdateParamsMarshal(m) = b
  BY <1>5, <1>7, <1>8, ConcatEmpty, SameBuffered DEF Buffered
<1>10. LastText(b, 1, EmptyText) = u
  BY <1>3, <1>4, <1>5, ReadsText
<1>11. At(b, 2) = {}
  BY <1>4, <1>5, AtNone
<1>12. Nested(b, 2) = <<>>
  BY <1>5, <1>11, NestedNone
<1>. QED
  BY <1>1, <1>3, <1>5, <1>9, <1>10, <1>11, <1>12

\* A copy made by reflection: what Range leaves out is what the new message
\* has anyway.
LEMMA ShapeCopied ==
  ASSUME NEW d, NEW a, NEW e \in BOOLEAN
  PROVE  P!Copied(Shape(d, a, e), P!NewParams) = Shape(d, a, e)
<1>1. PICK m : m = Shape(d, a, e)
  OBVIOUS
<1>2. PICK z : z = P!NewParams
  OBVIOUS
<1>3. DOMAIN m = {"denom", "amount", "enabled", "unknown"}
  BY <1>1 DEF Shape
<1>4. \A f \in DOMAIN m : f # "unknown" => z[f] = P!Default[f] /\ f \in DOMAIN P!Default
  <2>1. PICK y : y = P!Default
    OBVIOUS
  <2>2. /\ y["denom"] = EmptyText /\ y["amount"] = EmptyText /\ y["enabled"] = FALSE
        /\ DOMAIN y = {"denom", "amount", "enabled", "authority", "params"}
    BY <2>1 DEF P!Default
  <2>3. z["denom"] = EmptyText /\ z["amount"] = EmptyText /\ z["enabled"] = FALSE
    BY <1>2 DEF P!NewParams
  <2>. QED
    BY <1>3, <2>1, <2>2, <2>3, Zenon
<1>5. \A f \in DOMAIN m : f # "unknown" /\ f \notin P!RangeOf(m) => m[f] = z[f]
  BY <1>4 DEF P!RangeOf, P!Has
<1>6. P!Copied(m, z) = [f \in DOMAIN m |-> m[f]]
  BY <1>5 DEF P!Copied
<1>7. m = [f \in DOMAIN m |-> m[f]]
  BY <1>1 DEF Shape
<1>. QED
  BY <1>1, <1>2, <1>6, <1>7

\* The same of the messages around it.
LEMMA LetterCopied ==
  ASSUME NEW u, NEW d, NEW a, NEW e \in BOOLEAN
  PROVE  P!Clone(Letter(u, {Shape(d, a, e)}), P!NewMsg) = Letter(u, {Shape(d, a, e)})
<1>1. PICK m : m = Letter(u, {Shape(d, a, e)})
  OBVIOUS
<1>2. PICK z : z = P!NewMsg
  OBVIOUS
<1>3. DOMAIN m = {"authority", "params", "unknown"} /\ m.params = {Shape(d, a, e)}
  BY <1>1 DEF Letter
<1>4. \A f \in DOMAIN m : f # "unknown" => z[f] = P!Default[f] /\ f \in DOMAIN P!Default
  <2>1. PICK y : y = P!Default
    OBVIOUS
  <2>2. /\ y["authority"] = EmptyText /\ y["params"] = {}
        /\ DOMAIN y = {"denom", "amount", "enabled", "authority", "params"}
    BY <2>1 DEF P!Default
  <2>3. z["authority"] = EmptyText /\ z["params"] = {}
    BY <1>2 DEF P!NewMsg
  <2>. QED
    BY <1>3, <2>1, <2>2, <2>3
<1>5. \A f \in DOMAIN m : f # "unknown" /\ f \notin P!RangeOf(m) => m[f] = z[f]
  BY <1>4 DEF P!RangeOf, P!Has
<1>6. P!Copied(m, z) = [f \in DOMAIN m |-> m[f]]
  BY <1>5 DEF P!Copied
<1>7. m = [f \in DOMAIN m |-> m[f]]
  BY <1>1 DEF Letter
<1>8. {P!Copied(p, P!NewParams) : p \in m.params} = m.params
  BY <1>3, ShapeCopied
<1>9. [m EXCEPT !.params = m.params] = m
  BY <1>1 DEF Letter
<1>10. P!Clone(m, z) = m
  BY <1>3, <1>6, <1>7, <1>8, <1>9 DEF P!Clone
<1>. QED
  BY <1>1, <1>2, <1>10

LEMMA EnvelopeCopied ==
  ASSUME NEW d, NEW a, NEW e \in BOOLEAN, NEW x
  PROVE  P!Clone(Envelope({Shape(d, a, e)}, x), P!NewWrapper) = Envelope({Shape(d, a, e)}, x)
<1>1. PICK m : m = Envelope({Shape(d, a, e)}, x)
  OBVIOUS
<1>2. PICK z : z = P!NewWrapper
  OBVIOUS
<1>3. DOMAIN m = {"params", "unknown"} /\ m.params = {Shape(d, a, e)}
  BY <1>1 DEF Envelope
<1>4. \A f \in DOMAIN m : f # "unknown" => z[f] = P!Default[f] /\ f \in DOMAIN P!Default
  <2>1. PICK y : y = P!Default
    OBVIOUS
  <2>2. y["params"] = {} /\ DOMAIN y = {"denom", "amount", "enabled", "authority", "params"}
    BY <2>1 DEF P!Default
  <2>3. z["params"] = {}
    BY <1>2 DEF P!NewWrapper
  <2>. QED
    BY <1>3, <2>1, <2>2, <2>3
<1>5. \A f \in DOMAIN m : f # "unknown" /\ f \notin P!RangeOf(m) => m[f] = z[f]
  BY <1>4 DEF P!RangeOf, P!Has
<1>6. P!Copied(m, z) = [f \in DOMAIN m |-> m[f]]
  BY <1>5 DEF P!Copied
<1>7. m = [f \in DOMAIN m |-> m[f]]
  BY <1>1 DEF Envelope
<1>8. {P!Copied(p, P!NewParams) : p \in m.params} = m.params
  BY <1>3, ShapeCopied
<1>9. [m EXCEPT !.params = m.params] = m
  BY <1>1 DEF Envelope
<1>10. P!Clone(m, z) = m
  BY <1>3, <1>6, <1>7, <1>8, <1>9 DEF P!Clone
<1>. QED
  BY <1>1, <1>2, <1>10

\* The genesis state and the answer to a query, with what a later version
\* adds behind them: the api module keeps it and writes it again.
LEMMA EnvelopeRead ==
  ASSUME NEW d \in Texts, NEW a \in Texts, NEW e \in BOOLEAN, NEW x, Skippable(x)
  PROVE  LET b == WrapperBytes(Body(d, a, e), x)
             m == Envelope({Shape(d, a, e)}, x)
         IN /\ P!GenesisStateUnmarshal(P!NewWrapper, b) = {m}
            /\ P!QueryParamsResponseUnmarshal(P!NewWrapper, b) = {m}
<1>1. PICK s : s = Body(d, a, e)
  OBVIOUS
<1>2. IsBytes(s) /\ BytesOf(s) \in Lengths
  BY <1>1, BodyWritten DEF Written
<1>3. PICK b : b = WrapperBytes(s, x)
  OBVIOUS
<1>4. /\ Legal(b, WrapperSchema) /\ Nested(b, 1) = s /\ At(b, 1) # {}
      /\ \A i \in At(b, 1) : b[i].val.sub = s
      /\ UnknownOf(b, WrapperSchema) = x
  BY <1>2, <1>3, WrapperReads
<1>5. IsBytes(x)
  BY DEF Skippable, Sized
<1>6. PICK z : z = P!NewWrapper
  OBVIOUS
<1>7. z.params = {} /\ z.unknown = <<>>
  BY <1>6 DEF P!NewWrapper
<1>8. P!Kept(z, b, WrapperSchema) = x
  BY <1>4, <1>5, <1>7, KeptIs
<1>9. P!ReadNested(z.params, b, 1) = {{Shape(d, a, e)}}
  BY <1>1, <1>4, <1>7, NestedRead
<1>10. P!Legal(b, WrapperSchema)
  BY <1>4, SameLegal
<1>11. P!GenesisStateUnmarshal(z, b) = {Envelope({Shape(d, a, e)}, x)}
  BY <1>8, <1>9, <1>10 DEF P!GenesisStateUnmarshal, Envelope, WrapperSchema
<1>12. P!QueryParamsResponseUnmarshal(z, b) = {Envelope({Shape(d, a, e)}, x)}
  BY <1>8, <1>9, <1>10 DEF P!QueryParamsResponseUnmarshal, Envelope, WrapperSchema
<1>. QED
  BY <1>1, <1>3, <1>6, <1>11, <1>12

\* Written again, additions included.
LEMMA EnvelopeWritten ==
  ASSUME NEW d \in Texts, NEW a \in Texts, NEW e \in BOOLEAN, NEW x, Skippable(x)
  PROVE  LET b == WrapperBytes(Body(d, a, e), x)
             m == Envelope({Shape(d, a, e)}, x)
         IN P!GenesisStateMarshal(m) = b /\ P!QueryParamsResponseMarshal(m) = b
<1>1. PICK s : s = Body(d, a, e)
  OBVIOUS
<1>2. IsBytes(s) /\ BytesOf(s) \in Lengths
  BY <1>1, BodyWritten DEF Written
<1>3. PICK b : b = WrapperBytes(s, x)
  OBVIOUS
<1>4. BytesOf(b) = Prefixed(BytesOf(s)) + BytesOf(x)
  BY <1>2, <1>3, WrapperReads
<1>5. PICK m : m = Envelope({Shape(d, a, e)}, x)
  OBVIOUS
<1>6. m.params = {Shape(d, a, e)} /\ m.unknown = x
  BY <1>5 DEF Envelope
<1>7. P!OptNested(1, m.params) = <<Sub(1, s)>> /\ P!SizeOfNested(m.params) = Prefixed(BytesOf(s))
  <2>1. /\ P!OptNested(1, {Shape(d, a, e)}) = <<Sub(1, Body(d, a, e))>>
        /\ P!SizeOfNested({Shape(d, a, e)}) = Prefixed(BytesOf(Body(d, a, e)))
    BY NestedWritten
  <2>. QED
    BY <1>1, <1>6, <2>1
<1>8. P!OptNested(1, m.params) \o m.unknown = b
  BY <1>3, <1>6, <1>7 DEF WrapperBytes
<1>9. P!SizeOfNested(m.params) + P!BytesOf(m.unknown) = BytesOf(b)
  BY <1>4, <1>6, <1>7, SameBytesOf
<1>10. P!GenesisStateMarshal(m) = b
  BY <1>8, <1>9, SameBuffered DEF P!GenesisStateMarshal, P!GenesisStateSize, Buffered
<1>11. P!QueryParamsResponseMarshal(m) = b
  BY <1>8, <1>9, SameBuffered DEF P!QueryParamsResponseMarshal, P!QueryParamsResponseSize, Buffered
<1>. QED
  BY <1>1, <1>3, <1>5, <1>10, <1>11

\* The message without fields.
LEMMA EmptyAnswer ==
  /\ MsgUpdateParamsResponseMarshal = <<>>
  /\ MsgUpdateParamsResponseUnmarshal(<<>>) # {}
  /\ {P!MsgUpdateParamsResponseMarshal(m) :
        m \in P!MsgUpdateParamsResponseUnmarshal(P!NewEmpty, <<>>)} = {<<>>}
<1>1. Written(<<>>, <<>>) /\ BytesOf(<<>>) = 0
  BY NoneIsWritten
<1>2. Legal(<<>>, <<>>) /\ UnknownOf(<<>>, <<>>) = <<>>
  BY <1>1, WrittenIs
<1>3. PICK z : z = P!NewEmpty
  OBVIOUS
<1>4. z.unknown = <<>>
  BY <1>3 DEF P!NewEmpty
<1>5. P!Kept(z, <<>>, <<>>) = <<>>
  BY <1>2, <1>4, EmptyIsBytes, KeptIs
<1>6. P!MsgUpdateParamsResponseUnmarshal(z, <<>>) = {[unknown |-> <<>>]}
  BY <1>2, <1>5, SameLegal DEF P!MsgUpdateParamsResponseUnmarshal
<1>7. PICK m : m = [unknown |-> <<>>]
  OBVIOUS
<1>8. P!MsgUpdateParamsResponseMarshal(m) = <<>>
  BY <1>1, <1>7, SameBytesOf, SameBuffered
  DEF P!MsgUpdateParamsResponseMarshal, P!MsgUpdateParamsResponseSize, Buffered
<1>9. MsgUpdateParamsResponseMarshal = <<>>
  BY <1>1 DEF MsgUpdateParamsResponseMarshal, Buffered
<1>10. MsgUpdateParamsResponseUnmarshal(<<>>) # {}
  BY <1>2 DEF MsgUpdateParamsResponseUnmarshal
<1>. QED
  BY <1>3, <1>6, <1>7, <1>8, <1>9, <1>10
-----------------------------------------------------------------------------
(* Bytes of other encoders: what is nested is made of their pieces.        *)

LEMMA NestedPieces ==
  ASSUME NEW b, IsBytes(b), NEW num, NEW T,
         \A i \in At(b, num) : IsBytes(b[i].val.sub)
                               /\ \A j \in DOMAIN b[i].val.sub : b[i].val.sub[j] \in T
  PROVE  IsBytes(Nested(b, num)) /\ \A j \in DOMAIN Nested(b, num) : Nested(b, num)[j] \in T
<1>. DEFINE Pieces(c) == IsBytes(c) /\ \A j \in DOMAIN c : c[j] \in T
<1>1. PICK t : /\ t[0] = <<>>
               /\ \A n \in 1 .. Len(b) :
                    t[n] = t[n - 1] \o IF n \in At(b, num) THEN b[n].val.sub ELSE <<>>
               /\ Nested(b, num) = t[Len(b)]
  BY NestedTrace
<1>. DEFINE G == {n \in Nat : Pieces(t[n])}
<1>2. Len(b) \in Nat
  BY BytesAre
<1>3. Pieces(<<>>)
  <2>1. IsBytes(<<>>) /\ DOMAIN <<>> = {}
    BY EmptyIsBytes
  <2>. QED
    BY <2>1
<1>4. ASSUME NEW c, NEW d, Pieces(c), Pieces(d) PROVE Pieces(c \o d)
  <2>1. PICK cd : cd = c \o d
    OBVIOUS
  <2>2. /\ IsBytes(cd) /\ Len(cd) = Len(c) + Len(d)
        /\ \A j \in 1 .. Len(c) : cd[j] = c[j]
        /\ \A j \in 1 .. Len(d) : cd[Len(c) + j] = d[j]
    BY <1>4, <2>1, BytesConcat
  <2>3. /\ Len(c) \in Nat /\ Len(d) \in Nat /\ DOMAIN c = 1 .. Len(c) /\ DOMAIN d = 1 .. Len(d)
        /\ DOMAIN cd = 1 .. Len(cd)
    BY <1>4, <2>2, BytesAre
  <2>4. ASSUME NEW j \in 1 .. Len(cd) PROVE cd[j] \in T
    <3>1. CASE j <= Len(c)
      BY <1>4, <2>2, <2>3, <3>1
    <3>2. CASE ~(j <= Len(c))
      <4>1. PICK k \in 1 .. Len(d) : j = Len(c) + k
        <5>1. j - Len(c) \in 1 .. Len(d) /\ j = Len(c) + (j - Len(c))
          BY <2>2, <2>3, <3>2
        <5>. QED
          BY <5>1
      <4>. QED
        BY <1>4, <2>2, <2>3, <4>1
    <3>. QED
      BY <3>1, <3>2
  <2>. QED
    BY <2>1, <2>2, <2>3, <2>4
<1>5. \A i \in At(b, num) : Pieces(b[i].val.sub)
  OBVIOUS
<1>. HIDE DEF Pieces
<1>6. 0 \in G
  BY <1>1, <1>3
<1>7. ASSUME NEW i \in 0 .. Len(b), i \in G, i < Len(b) PROVE i + 1 \in G
  <2>1. i + 1 \in 1 .. Len(b) /\ (i + 1) - 1 = i
    BY <1>2, <1>7
  <2>2. PICK d : d = IF i + 1 \in At(b, num) THEN b[i + 1].val.sub ELSE <<>>
    OBVIOUS
  <2>3. Pieces(d)
    BY <1>3, <1>5, <2>2
  <2>4. t[i + 1] = t[i] \o d
    BY <1>1, <2>1, <2>2
  <2>5. Pieces(t[i])
    BY <1>7
  <2>6. Pieces(t[i + 1])
    BY <1>4, <2>3, <2>4, <2>5
  <2>. QED
    BY <2>1, <2>6
<1>. HIDE DEF G
<1>8. \A i \in 0 .. Len(b) : i \in G
  BY <1>2, <1>6, <1>7, AllUpTo
<1>9. Len(b) \in G
  BY <1>2, <1>8
<1>10. Pieces(t[Len(b)])
  BY <1>9 DEF G
<1>. QED
  BY <1>1, <1>10 DEF Pieces

\* What the node reads of bytes it accepts are parameters.
LEMMA ParamsReadType ==
  ASSUME NEW b, IsBytes(b), NEW p \in ParamsUnmarshal(ZeroParams, b),
         \A i \in DOMAIN b : b[i].num = 1 /\ b[i].wt = 2 => b[i].val.text \in AllDenoms
  PROVE  p \in Params
<1>1. ZeroParams.denom = EmptyText /\ ZeroParams.amount = NilInt /\ ZeroParams.enabled = FALSE
  BY TextAssumption DEF ZeroParams, NewParams
<1>2. EmptyText \in AllDenoms
  BY TextAssumption DEF AllDenoms
<1>. DEFINE amounts == {i \in At(b, 2) : b[i].val.text # EmptyText}
            amount == IF amounts = {} THEN NilInt ELSE ParseInt[b[Max(amounts)].val.text]
            enabled == LastBool(b, 3, ZeroParams.enabled)
<1>3. /\ Legal(b, ParamsSchema)
      /\ \A i \in At(b, 2) : IntReads(b[i].val.text)
      /\ p = NewParams(LastText(b, 1, EmptyText), amount, enabled)
  BY <1>1 DEF ParamsUnmarshal
<1>4. Len(b) \in Nat /\ DOMAIN b = 1 .. Len(b)
  BY BytesAre
<1>5. At(b, 1) \in SUBSET (1 .. Len(b)) /\ amounts \in SUBSET (1 .. Len(b))
  BY <1>4 DEF At, TopLevel
<1>6. LastText(b, 1, EmptyText) \in AllDenoms
  <2>1. CASE At(b, 1) = {}
    BY <1>2, <2>1 DEF LastText
  <2>2. CASE At(b, 1) # {}
    <3>1. PICK i : i = Max(At(b, 1))
      OBVIOUS
    <3>2. i \in At(b, 1)
      BY <1>4, <1>5, <2>2, <3>1, MaxIs
    <3>3. i \in DOMAIN b /\ i \in TopLevel(b) /\ b[i].num = 1
      BY <3>2 DEF At, TopLevel
    <3>4. b[i].wt = 2
      BY <1>3, <3>3, SchemaIs DEF Legal
    <3>5. LastText(b, 1, EmptyText) = b[i].val.text
      <4>1. PICK S : S = At(b, 1)
        OBVIOUS
      <4>2. LastText(b, 1, EmptyText) = b[Max(S)].val.text
        BY <2>2, <4>1, Zenon DEF LastText
      <4>. QED
        BY <3>1, <4>1, <4>2
    <3>. QED
      BY <3>3, <3>4, <3>5
  <2>. QED
    BY <2>1, <2>2
<1>7. amount \in Ints \cup {NilInt}
  <2>1. CASE amounts = {}
    BY <2>1
  <2>2. CASE amounts # {}
    <3>1. PICK i : i = Max(amounts)
      OBVIOUS
    <3>2. i \in amounts
      BY <1>4, <1>5, <2>2, <3>1, MaxIs
    <3>3. ParseInt[b[i].val.text] \in Ints
      BY <1>3, <3>2 DEF IntReads
    <3>. QED
      BY <2>2, <3>1, <3>3
  <2>. QED
    BY <2>1, <2>2
<1>8. enabled \in BOOLEAN
  <2>1. CASE At(b, 3) = {}
    BY <1>1, <2>1 DEF LastBool
  <2>2. CASE At(b, 3) # {}
    <3>1. enabled = (b[Max(At(b, 3))].val.int # 0)
      BY <2>2, Zenon DEF LastBool
    <3>. QED
      BY <3>1
  <2>. QED
    BY <2>1, <2>2
<1>. HIDE DEF amount, enabled
<1>. QED
  BY <1>3, <1>6, <1>7, <1>8 DEF Params, NewParams

-----------------------------------------------------------------------------
(* The messages that arrive.                                               *)

LEMMA Authors == Gov \in Texts /\ User \in Texts /\ EmptyText \in Texts
BY WireAssumption, EmptyType

\* Parameters that pass Validate can be stored.
LEMMA EnactableIs ==
  ASSUME NEW p \in Params, Validate(p) = "ok"
  PROVE  p \in EnactableParams /\ p \in StorableParams /\ p.amount # NilInt
         /\ p.denom # EmptyDenom /\ Stored(p) = p
<1>1. p.amount # NilInt
  BY DEF Validate, validateMintAmount, validateMintDenom
<1>2. p.denom # EmptyDenom
  BY DEF Validate, validateMintDenom
<1>3. p \in StorableParams
  BY <1>1 DEF Params, StorableParams
<1>. QED
  BY <1>1, <1>2, <1>3, StoredIs DEF EnactableParams, ValidParams

\* The store gives back what it was given.
LEMMA StorableIs == ASSUME NEW p \in StorableParams PROVE p \in Params /\ Stored(p) = p
<1>1. p \in Params
  BY DEF Params, StorableParams
<1>. QED
  BY <1>1, StoredIs

\* Only a message that can be enacted and says what was meant arrives.
Meets(meant, b) ==
  \A s \in {Gov, User} : \A m \in Received(b, s) :
    \E a \in {Gov, User}, p \in EnactableParams :
      m = MsgUpdateParams(a, p) /\ meant \subseteq {p}

\* A client on the module's types,
LEMMA GogoMeets ==
  ASSUME NEW a \in {Gov, User}, NEW p \in Params
  PROVE  Meets({Stored(p)}, MsgUpdateParamsMarshal(MsgUpdateParams(a, p)))
<1>1. PICK b : b = MsgUpdateParamsMarshal(MsgUpdateParams(a, p))
  OBVIOUS
<1>2. a \in Texts
  BY Authors
<1>3. MsgUpdateParamsUnmarshal(b) = {MsgUpdateParams(a, Stored(p))}
  BY <1>1, <1>2, MsgMarshalIs, MsgRoundTrip
<1>4. ASSUME NEW s \in {Gov, User}, NEW m \in Received(b, s)
      PROVE  m = MsgUpdateParams(a, Stored(p)) /\ Stored(p) \in EnactableParams
  <2>1. m = MsgUpdateParams(a, Stored(p)) /\ Validate(m.params) = "ok"
    BY <1>3, <1>4 DEF Received
  <2>2. m.params = Stored(p)
    BY <2>1 DEF MsgUpdateParams
  <2>3. Stored(p) \in Params
    BY StoredIs
  <2>. QED
    BY <2>1, <2>2, <2>3, EnactableIs
<1>. QED
  BY <1>1, <1>4 DEF Meets

\* any other encoder,
LEMMA ForeignMeets == ASSUME NEW b \in Foreign PROVE Meets({}, b)
<1>1. IsBytes(b)
      /\ \A i \in DOMAIN b : b[i].num = 2 /\ b[i].wt = 2 =>
           /\ IsBytes(b[i].val.sub)
           /\ \A k \in DOMAIN b[i].val.sub :
                b[i].val.sub[k].num = 1 /\ b[i].val.sub[k].wt = 2
                  => b[i].val.sub[k].val.text \in AllDenoms
  BY WireAssumption
<1>. DEFINE T == {b[i].val.sub[k] : i \in At(b, 2), k \in Nat}
            U == {x \in UNION {{b[i].val.sub[k] : k \in DOMAIN b[i].val.sub} : i \in At(b, 2)} :
                    x.num = 1 /\ x.wt = 2 => x.val.text \in AllDenoms}
<1>2. ASSUME NEW s \in {Gov, User}, NEW m \in Received(b, s)
      PROVE  \E a \in {Gov, User}, p \in EnactableParams : m = MsgUpdateParams(a, p)
  <2>1. /\ m \in MsgUpdateParamsUnmarshal(b) /\ m.authority \in {Gov, User}
        /\ Validate(m.params) = "ok"
    BY <1>2 DEF Received
  <2>2. Legal(b, <<2, 2>>)
    BY <2>1 DEF MsgUpdateParamsUnmarshal
  <2>3. PICK a, p : m = MsgUpdateParams(a, p) /\ p \in ReadParams(ZeroParams, b, 2)
    BY <2>1 DEF MsgUpdateParamsUnmarshal
  <2>4. m.authority = a /\ m.params = p
    BY <2>3 DEF MsgUpdateParams
  <2>5. p \in ParamsUnmarshal(ZeroParams, Nested(b, 2))
    BY <2>3 DEF ReadParams
  <2>6. ASSUME NEW i \in At(b, 2)
        PROVE  i \in DOMAIN b /\ b[i].num = 2 /\ b[i].wt = 2
    <3>1. i \in DOMAIN b /\ i \in TopLevel(b) /\ b[i].num = 2
      BY DEF At, TopLevel
    <3>2. 2 \in DOMAIN <<2, 2>> /\ <<2, 2>>[2] = 2
      OBVIOUS
    <3>. QED
      BY <2>2, <3>1, <3>2 DEF Legal
  <2>7. ASSUME NEW i \in At(b, 2)
        PROVE  IsBytes(b[i].val.sub) /\ \A j \in DOMAIN b[i].val.sub : b[i].val.sub[j] \in U
    BY <1>1, <2>6, <2>7
  <2>. HIDE DEF U
  <2>8. PICK c : c = Nested(b, 2)
    OBVIOUS
  <2>9. IsBytes(c) /\ \A j \in DOMAIN c : c[j] \in U
    BY <1>1, <2>7, <2>8, NestedPieces
  <2>10. \A j \in DOMAIN c : c[j].num = 1 /\ c[j].wt = 2 => c[j].val.text \in AllDenoms
    BY <2>9 DEF U
  <2>11. p \in Params
    BY <2>5, <2>8, <2>9, <2>10, ParamsReadType
  <2>. QED
    BY <2>1, <2>3, <2>4, <2>11, EnactableIs
<1>. QED
  BY <1>2 DEF Meets

\* What a client on the api module holds while it edits.
Draftable(m) ==
  \E u \in {EmptyText, Gov, User} :
    \/ m = Letter(u, {})
    \/ \E d \in Denoms \cup {EmptyText}, a \in Typed \cup {EmptyText}, e \in BOOLEAN :
         m = Letter(u, {Shape(d, a, e)})

\* a client on the api module that sets no parameters: they do not pass
\* Validate,
LEMMA BareMeets == ASSUME NEW u \in Texts, NEW meant PROVE Meets(meant, OptText(1, u))
<1>1. PICK b : b = OptText(1, u)
  OBVIOUS
<1>2. /\ Legal(b, <<2, 2>>) /\ At(b, 2) = {} /\ Nested(b, 2) = <<>>
  BY <1>1, BareWritten DEF MsgSchema
<1>3. ReadParams(ZeroParams, b, 2) = ParamsUnmarshal(ZeroParams, <<>>)
  BY <1>2 DEF ReadParams
<1>4. Body(EmptyText, EmptyText, FALSE) = <<>>
  <2>1. ~(LengthOf[EmptyText] > 0)
    BY EmptyType
  <2>2. OptText(1, EmptyText) = <<>> /\ OptText(2, EmptyText) = <<>> /\ OptBool(3, FALSE) = <<>>
    BY <2>1 DEF OptText, OptBool
  <2>. QED
    BY <2>2, EmptyIsBytes, ConcatEmpty DEF Body
<1>5. ParamsUnmarshal(ZeroParams, <<>>) = {NewParams(EmptyText, NilInt, FALSE)}
  BY <1>4, EmptyType, ParamsRead DEF IntReads
<1>6. Validate(NewParams(EmptyText, NilInt, FALSE)) # "ok"
  BY TextAssumption DEF Validate, validateMintDenom, NewParams
<1>7. ASSUME NEW s \in {Gov, User}, NEW m \in Received(b, s) PROVE FALSE
  <2>1. m \in MsgUpdateParamsUnmarshal(b) /\ Validate(m.params) = "ok"
    BY <1>7 DEF Received
  <2>2. m.params = NewParams(EmptyText, NilInt, FALSE)
    <3>1. PICK z : z = NewParams(EmptyText, NilInt, FALSE)
      OBVIOUS
    <3>2. PICK a, p : m = MsgUpdateParams(a, p) /\ p \in {z}
      BY <1>3, <1>5, <2>1, <3>1 DEF MsgUpdateParamsUnmarshal
    <3>. QED
      BY <3>1, <3>2 DEF MsgUpdateParams
  <2>. QED
    BY <1>6, <2>1, <2>2
<1>. QED
  BY <1>1, <1>7 DEF Meets

\* What a client on the api module shows,
LEMMA ShownIs ==
  ASSUME NEW d, NEW a, NEW e
  PROVE  /\ \A u : Shown(Letter(u, {Shape(d, a, e)})) = NewParams(d, ParseInt[a], e)
         /\ \A x : Shown(Envelope({Shape(d, a, e)}, x)) = NewParams(d, ParseInt[a], e)
<1>1. PICK q : q = Shape(d, a, e)
  OBVIOUS
<1>2. P!Pointee({q}) = q
  BY DEF P!Pointee
<1>3. NewParams(q.denom, ParseInt[q.amount], q.enabled) = NewParams(d, ParseInt[a], e)
  BY <1>1 DEF Shape
<1>4. ASSUME NEW u PROVE Shown(Letter(u, {q})) = NewParams(q.denom, ParseInt[q.amount], q.enabled)
  <2>1. P!Get(Letter(u, {q}), "params") = {q}
    BY DEF P!Get, Letter
  <2>. QED
    BY <1>2, <2>1 DEF Shown
<1>5. ASSUME NEW x
      PROVE  Shown(Envelope({q}, x)) = NewParams(q.denom, ParseInt[q.amount], q.enabled)
  <2>1. P!Get(Envelope({q}, x), "params") = {q}
    BY DEF P!Get, Envelope
  <2>. QED
    BY <1>2, <2>1 DEF Shown
<1>. QED
  BY <1>1, <1>3, <1>4, <1>5

\* and what it sends.
LEMMA DraftMeets ==
  ASSUME NEW m, Draftable(m)
  PROVE  Meets({Shown(m)}, P!MsgUpdateParamsMarshal(m))
<1>1. CASE \E u \in {EmptyText, Gov, User} : m = Letter(u, {})
  <2>1. PICK u \in {EmptyText, Gov, User} : m = Letter(u, {})
    BY <1>1
  <2>2. u \in Texts
    BY Authors
  <2>3. P!MsgUpdateParamsMarshal(m) = OptText(1, u)
    BY <2>1, <2>2, BareWritten
  <2>. QED
    BY <2>2, <2>3, BareMeets
<1>2. CASE \E u \in {EmptyText, Gov, User}, d \in Denoms \cup {EmptyText},
              a \in Typed \cup {EmptyText}, e \in BOOLEAN : m = Letter(u, {Shape(d, a, e)})
  <2>1. PICK u \in {EmptyText, Gov, User}, d \in Denoms \cup {EmptyText},
             a \in Typed \cup {EmptyText}, e \in BOOLEAN : m = Letter(u, {Shape(d, a, e)})
    BY <1>2
  <2>2. u \in Texts /\ d \in Texts /\ d \in AllDenoms /\ a \in Texts
    BY Authors, WireAssumption, TextAssumption DEF AllDenoms
  <2>3. PICK s : s = Body(d, a, e)
    OBVIOUS
  <2>4. IsBytes(s) /\ BytesOf(s) \in Lengths
    BY <2>2, <2>3, BodyWritten DEF Written
  <2>5. PICK b : b = MsgBytes(u, s)
    OBVIOUS
  <2>6. P!MsgUpdateParamsMarshal(m) = b
    BY <2>1, <2>2, <2>3, <2>5, LetterWritten
  <2>7. MsgUpdateParamsUnmarshal(b) = {MsgUpdateParams(u, q) : q \in ParamsUnmarshal(ZeroParams, s)}
    BY <2>2, <2>4, <2>5, MsgUnmarshalIs
  <2>8. Shown(m) = NewParams(d, ParseInt[a], e)
    BY <2>1, ShownIs
  <2>9. ASSUME NEW t \in {Gov, User}, NEW n \in Received(b, t)
        PROVE  \E g \in {Gov, User}, p \in EnactableParams :
                 n = MsgUpdateParams(g, p) /\ {Shown(m)} \subseteq {p}
    <3>1. n \in MsgUpdateParamsUnmarshal(b) /\ n.authority \in {Gov, User}
          /\ Validate(n.params) = "ok"
      BY <2>9 DEF Received
    <3>2. PICK q \in ParamsUnmarshal(ZeroParams, s) : n = MsgUpdateParams(u, q)
      BY <2>7, <3>1
    <3>3. n.authority = u /\ n.params = q
      BY <3>2 DEF MsgUpdateParams
    <3>4. IntReads(a) /\ q = NewParams(d, IF a = EmptyText THEN NilInt ELSE ParseInt[a], e)
      <4>1. ParamsUnmarshal(ZeroParams, s) =
              IF IntReads(a) THEN {NewParams(d, IF a = EmptyText THEN NilInt ELSE ParseInt[a], e)}
                             ELSE {}
        BY <2>2, <2>3, ParamsRead
      <4>. QED
        BY <3>2, <4>1
    <3>5. q \in Params
      BY <2>2, <3>4 DEF Params, NewParams, IntReads
    <3>6. q \in EnactableParams /\ q.amount # NilInt
      BY <3>1, <3>3, <3>5, EnactableIs
    <3>7. a # EmptyText
      BY <3>4, <3>6 DEF NewParams
    <3>8. q = Shown(m)
      BY <2>8, <3>4, <3>7
    <3>. QED
      BY <3>1, <3>2, <3>3, <3>6, <3>8
  <2>. QED
    BY <2>6, <2>9 DEF Meets
<1>. QED
  BY <1>1, <1>2 DEF Draftable
-----------------------------------------------------------------------------
(* The inductive invariant: the store and the proposal hold what the       *)
(* node's types write of storable parameters, a client holds what its own  *)
(* types make or the answer it was given.                                  *)

Announced(meant, a, p) == [meant |-> meant, raw |-> MsgBytes(a, PBytes(p)), shown |-> p]

StoreOf(k) == k = {} \/ \E p \in StorableParams : k = {PBytes(p)}

ProposalOf(k, r) ==
  r # NoProposal =>
    /\ k # {}
    /\ \E a \in {Gov, User}, p \in EnactableParams : \E meant \in SUBSET {p} :
         r = Announced(meant, a, p)

ClientOf(c) ==
  \/ c = Idle
  \/ \E m : Draftable(m) /\ c = Draft(m)
  \/ \E p \in StorableParams, x \in Additions : c = Reply(WrapperBytes(PBytes(p), x), p)
  \/ \E p \in EnactableParams : \E meant \in SUBSET {p} : c = Done(meant, p, <<>>)

WireInv == StoreOf(kv) /\ ProposalOf(kv, prop) /\ ClientOf(client)

\* The parameters of a store.
ParamsIn(k) == IF k = {} THEN ZeroParams ELSE The(ParamsUnmarshal(ZeroParams, The(k)))

\* The only element of a result.
LEMMA TheIs == ASSUME NEW x PROVE The({x}) = x
BY DEF The

\* GetParams of what SetParams stored.
LEMMA ParamsInIs ==
  ASSUME NEW p \in StorableParams
  PROVE  ParamsIn({PBytes(p)}) = p
<1>1. PICK b : b = PBytes(p)
  OBVIOUS
<1>2. ParamsUnmarshal(ZeroParams, b) = {p}
  BY <1>1, StorableIs, ParamsRoundTrip
<1>3. The({b}) = b /\ The({p}) = p /\ {b} # {}
  BY TheIs
<1>. QED
  BY <1>1, <1>2, <1>3 DEF ParamsIn

\* The same before a step and after it.
LEMMA GetParamsIs ==
  ASSUME StoreOf(kv), kv # {}
  PROVE  GetParams \in StorableParams /\ GetParams \in Params /\ kv = {PBytes(GetParams)}
<1>1. PICK p \in StorableParams : kv = {PBytes(p)}
  BY DEF StoreOf
<1>2. GetParams = ParamsIn({PBytes(p)})
  BY <1>1 DEF GetParams, ParamsIn
<1>3. GetParams = p
  BY <1>2, ParamsInIs
<1>. QED
  BY <1>1, <1>3, StorableIs

LEMMA NextParamsIs ==
  ASSUME NEW p \in StorableParams, kv' = {PBytes(p)}
  PROVE  GetParams' = p /\ kv' # {} /\ StoreOf(kv')
<1>1. GetParams' = ParamsIn({PBytes(p)})
  BY DEF GetParams, ParamsIn
<1>. QED
  BY <1>1, ParamsInIs DEF StoreOf

\* What can be enacted can be stored.
LEMMA EnactableType ==
  ASSUME NEW p \in EnactableParams
  PROVE  p \in StorableParams /\ p \in Params /\ Stored(p) = p
BY StorableIs DEF EnactableParams

\* A proposal of a message the node has encoded again.
LEMMA ProposalIs ==
  ASSUME NEW meant, NEW a \in Texts, NEW p \in StorableParams
  PROVE  Proposal(meant, MsgUpdateParamsMarshal(MsgUpdateParams(a, p))) = Announced(meant, a, p)
<1>1. p \in Params /\ Stored(p) = p
  BY StorableIs
<1>2. PICK b : b = MsgBytes(a, PBytes(p))
  OBVIOUS
<1>3. MsgUpdateParamsMarshal(MsgUpdateParams(a, p)) = b
  BY <1>1, <1>2, MsgMarshalIs
<1>4. /\ p.denom \in Texts /\ IntText(p.amount) \in Texts /\ p.enabled \in BOOLEAN
      /\ ParseInt[IntText(p.amount)] = p.amount
      /\ p = NewParams(p.denom, p.amount, p.enabled)
  <2>1. p.amount \in Ints \cup {NilInt} /\ p.amount # NilInt
    BY AmountsAssumption DEF StorableParams, Ints
  <2>. QED
    BY <1>1, <2>1, ParamsFields, IntTextIs
<1>5. PICK m : m = Letter(a, {Shape(p.denom, IntText(p.amount), p.enabled)})
  OBVIOUS
<1>6. Pulsar(b) = {m}
  BY <1>2, <1>4, <1>5, LetterRead DEF PBytes
<1>7. Shown(m) = p
  BY <1>4, <1>5, ShownIs
<1>8. Proposal(meant, b) = [meant |-> meant, raw |-> b, shown |-> p]
  BY <1>6, <1>7, TheIs DEF Proposal
<1>. QED
  BY <1>2, <1>3, <1>8 DEF Announced

\* What can become of the messages that arrive.
Arrive(R) ==
  \A s \in {Gov, User} : \A r \in R[s] :
    \E a \in {Gov, User}, p \in EnactableParams : \E meant \in SUBSET {p} :
      r.msg = MsgUpdateParams(a, p) /\ r.prop = Announced(meant, a, p)

\* What meets its meaning becomes a proposal or an update of that value,
LEMMA MeetsArrive ==
  ASSUME NEW meant, NEW b, Meets(meant, b)
  PROVE  Arrive(Arrivals(meant, b))
<1>1. ASSUME NEW s \in {Gov, User}, NEW r \in Arrivals(meant, b)[s]
      PROVE  \E a \in {Gov, User}, p \in EnactableParams : \E w \in SUBSET {p} :
               r.msg = MsgUpdateParams(a, p) /\ r.prop = Announced(w, a, p)
  <2>1. PICK m \in Received(b, s) :
          r = [msg |-> m, prop |-> Proposal(meant, MsgUpdateParamsMarshal(m))]
    BY <1>1 DEF Arrivals
  <2>2. PICK a \in {Gov, User}, p \in EnactableParams :
          m = MsgUpdateParams(a, p) /\ meant \subseteq {p}
    BY DEF Meets
  <2>3. Proposal(meant, MsgUpdateParamsMarshal(m)) = Announced(meant, a, p)
    BY <2>2, Authors, EnactableType, ProposalIs
  <2>. QED
    BY <2>1, <2>2, <2>3
<1>. QED
  BY <1>1 DEF Arrive

\* whoever sends it.
LEMMA SendArrives ==
  ASSUME ClientOf(client), SendGogo \/ SendForeign \/ SendPulsar
  PROVE  \E R : Arrive(R) /\ Send(R)
<1>1. CASE SendGogo
  <2>1. PICK R \in GogoArrivals : Send(R)
    BY <1>1 DEF SendGogo
  <2>2. PICK a \in {Gov, User}, p \in Params :
          R = FilledIn(a, p)
    BY DEF GogoArrivals
  <2>. QED
    BY <2>1, <2>2, GogoMeets, MeetsArrive DEF FilledIn
<1>2. CASE SendForeign
  <2>1. PICK R \in ForeignArrivals : Send(R)
    BY <1>2 DEF SendForeign
  <2>2. PICK b \in Foreign : R = Arrivals({}, b)
    BY DEF ForeignArrivals
  <2>. QED
    BY <2>1, <2>2, ForeignMeets, MeetsArrive
<1>3. CASE SendPulsar
  <2>1. PICK m : Draftable(m) /\ client = Draft(m)
    BY <1>3 DEF ClientOf, SendPulsar, Idle, Reply, Done
  <2>2. client.msg = m
    BY <2>1 DEF Draft
  <2>3. PICK R : R = Arrivals({Shown(m)}, P!MsgUpdateParamsMarshal(m))
    OBVIOUS
  <2>4. Send(R)
    BY <1>3, <2>2, <2>3 DEF SendPulsar
  <2>. QED
    BY <2>1, <2>3, <2>4, DraftMeets, MeetsArrive
<1>. QED
  BY <1>1, <1>2, <1>3

\* A draft begins empty,
LEMMA DraftStarts == Draftable(P!NewMsg)
<1>1. P!NewMsg = Letter(EmptyText, {})
  BY DEF P!NewMsg, Letter
<1>. QED
  BY <1>1 DEF Draftable

\* has at most what its user may choose,
LEMMA DraftWith ==
  ASSUME NEW u \in {EmptyText, Gov, User}, NEW d \in Denoms \cup {EmptyText},
         NEW a \in Typed \cup {EmptyText}, NEW e \in BOOLEAN
  PROVE  Draftable(Letter(u, {Shape(d, a, e)}))
BY DEF Draftable

\* and stays a draft: Set, Clear and Mutable through reflection.
LEMMA DraftEdited ==
  ASSUME NEW m, Draftable(m), NEW n \in Edited(m)
  PROVE  Draftable(n)
<1>0. PICK u \in {EmptyText, Gov, User} :
        \/ m = Letter(u, {})
        \/ \E d \in Denoms \cup {EmptyText}, a \in Typed \cup {EmptyText}, e \in BOOLEAN :
             m = Letter(u, {Shape(d, a, e)})
  BY DEF Draftable
<1>1. PICK ps :
        /\ m = Letter(u, ps)
        /\ \/ ps = {}
           \/ \E d \in Denoms \cup {EmptyText}, a \in Typed \cup {EmptyText}, e \in BOOLEAN :
                ps = {Shape(d, a, e)}
  BY <1>0
<1>2. \A w \in {EmptyText, Gov, User} : Draftable(Letter(w, ps))
  BY <1>1 DEF Draftable
<1>3. CASE \E w \in {Gov, User} : n = P!Set(m, "authority", w)
  <2>1. PICK w \in {Gov, User} : n = P!Set(m, "authority", w)
    BY <1>3
  <2>2. n = Letter(w, ps)
    BY <1>1, <2>1 DEF P!Set, Letter
  <2>. QED
    BY <1>2, <2>2
<1>4. CASE \E f \in P!RangeOf(m) : n = P!Clear(m, f)
  <2>1. PICK f \in P!RangeOf(m) : n = P!Clear(m, f)
    BY <1>4
  <2>2. f \in DOMAIN m /\ f \in DOMAIN P!Default
    BY DEF P!RangeOf
  <2>3. DOMAIN m = {"authority", "params", "unknown"}
    BY <1>1 DEF Letter
  <2>4. DOMAIN P!Default = {"denom", "amount", "enabled", "authority", "params"}
    BY DEF P!Default
  <2>5. P!Default["authority"] = EmptyText /\ P!Default["params"] = {}
    BY DEF P!Default
  <2>6. f = "authority" \/ f = "params"
    BY <2>2, <2>3, <2>4
  <2>7. CASE f = "authority"
    <3>1. n = Letter(EmptyText, ps)
      BY <1>1, <2>1, <2>5, <2>7 DEF P!Clear, Letter
    <3>. QED
      BY <1>2, <3>1
  <2>8. CASE f = "params"
    <3>1. n = Letter(u, {})
      BY <1>1, <2>1, <2>5, <2>8 DEF P!Clear, Letter
    <3>. QED
      BY <1>0, <3>1 DEF Draftable
  <2>. QED
    BY <2>6, <2>7, <2>8
<1>5. PICK d \in Denoms \cup {EmptyText}, a \in Typed \cup {EmptyText}, e \in BOOLEAN :
        P!Mutable(m, "params") = Letter(u, {Shape(d, a, e)})
  <2>1. CASE ps = {}
    <3>1. P!NewField("params") = {Shape(EmptyText, EmptyText, FALSE)}
      BY DEF P!NewField, P!NewParams, Shape
    <3>2. m["params"] = {}
      BY <1>1, <2>1 DEF Letter
    <3>3. P!Mutable(m, "params") = [m EXCEPT !["params"] = {Shape(EmptyText, EmptyText, FALSE)}]
      BY <3>1, <3>2 DEF P!Mutable
    <3>4. P!Mutable(m, "params") = Letter(u, {Shape(EmptyText, EmptyText, FALSE)})
      BY <1>1, <3>3 DEF Letter
    <3>. QED
      BY <3>4
  <2>2. CASE ps # {}
    <3>1. PICK d \in Denoms \cup {EmptyText}, a \in Typed \cup {EmptyText}, e \in BOOLEAN :
            ps = {Shape(d, a, e)}
      BY <1>1, <2>2
    <3>2. m["params"] = ps
      BY <1>1 DEF Letter
    <3>3. P!Mutable(m, "params") = m
      BY <2>2, <3>2 DEF P!Mutable
    <3>. QED
      BY <1>1, <3>1, <3>3
  <2>. QED
    BY <2>1, <2>2
<1>. DEFINE c == P!Mutable(m, "params")
<1>6. ASSUME NEW f, NEW v PROVE With(c, f, v) = Letter(u, {P!Set(Shape(d, a, e), f, v)})
  <2>1. PICK q : q = Shape(d, a, e)
    OBVIOUS
  <2>2. c = Letter(u, {q}) /\ c.params = {q}
    BY <1>5, <2>1 DEF Letter
  <2>3. {P!Set(y, f, v) : y \in c.params} = {P!Set(q, f, v)}
    BY <2>2
  <2>4. With(c, f, v) = [c EXCEPT !.params = {P!Set(q, f, v)}]
    BY <2>3 DEF With
  <2>5. PICK x : x = {P!Set(q, f, v)}
    OBVIOUS
  <2>6. [Letter(u, {q}) EXCEPT !.params = x] = Letter(u, x)
    BY DEF Letter
  <2>. QED
    BY <2>1, <2>2, <2>4, <2>5, <2>6
<1>7. CASE \E w \in Denoms : n = With(c, "denom", w)
  <2>1. PICK w \in Denoms : n = With(c, "denom", w)
    BY <1>7
  <2>2. P!Set(Shape(d, a, e), "denom", w) = Shape(w, a, e)
    BY DEF P!Set, Shape
  <2>3. n = Letter(u, {Shape(w, a, e)})
    BY <1>6, <2>1, <2>2
  <2>. QED
    BY <1>0, <1>5, <2>3, DraftWith
<1>8. CASE \E w \in Typed : n = With(c, "amount", w)
  <2>1. PICK w \in Typed : n = With(c, "amount", w)
    BY <1>8
  <2>2. P!Set(Shape(d, a, e), "amount", w) = Shape(d, w, e)
    BY DEF P!Set, Shape
  <2>3. n = Letter(u, {Shape(d, w, e)})
    BY <1>6, <2>1, <2>2
  <2>. QED
    BY <1>0, <1>5, <2>3, DraftWith
<1>9. CASE \E w \in BOOLEAN : n = With(c, "enabled", w)
  <2>1. PICK w \in BOOLEAN : n = With(c, "enabled", w)
    BY <1>9
  <2>2. P!Set(Shape(d, a, e), "enabled", w) = Shape(d, a, w)
    BY DEF P!Set, Shape
  <2>3. n = Letter(u, {Shape(d, a, w)})
    BY <1>6, <2>1, <2>2
  <2>. QED
    BY <1>0, <1>5, <2>3, DraftWith
<1>. QED
  BY <1>3, <1>4, <1>7, <1>8, <1>9 DEF Edited
-----------------------------------------------------------------------------
(* Every step keeps the invariant and is a step of the register.           *)

\* What the register sees, before and after a step.
LEMMA InForceIs ==
  ASSUME StoreOf(kv)
  PROVE  kv # {} => GetParams \in StorableParams /\ GetParams # NoProposal
<1>1. ASSUME kv # {} PROVE GetParams \in StorableParams /\ GetParams \in Params
  BY <1>1, GetParamsIs
<1>. QED
  BY <1>1, WireAssumption

\* The fields of a proposal and of a message.
LEMMA AnnouncedIs ==
  ASSUME NEW meant, NEW a, NEW p
  PROVE  /\ Announced(meant, a, p).shown = p
         /\ Announced(meant, a, p).raw = MsgBytes(a, PBytes(p))
         /\ Announced(meant, a, p).meant = meant
BY DEF Announced

\* The message of a proposal, as it is read when the proposal passes.
LEMMA StoredMessage ==
  ASSUME NEW meant, NEW a \in {Gov, User}, NEW p \in EnactableParams
  PROVE  MsgUpdateParamsUnmarshal(Announced(meant, a, p).raw) = {MsgUpdateParams(a, p)}
<1>1. a \in Texts /\ p \in Params /\ Stored(p) = p
  BY Authors, EnactableType
<1>. QED
  BY <1>1, MsgRoundTrip, AnnouncedIs

LEMMA MsgFields ==
  ASSUME NEW a, NEW p
  PROVE  MsgUpdateParams(a, p).authority = a /\ MsgUpdateParams(a, p).params = p
BY DEF MsgUpdateParams

\* SetParams, then GetParams.
LEMMA SetParamsIs ==
  ASSUME NEW p \in Params, SetParams(p)
  PROVE  kv' = {PBytes(Stored(p))} /\ StoreOf(kv') /\ kv' # {} /\ GetParams' = Stored(p)
<1>1. Stored(p) \in StorableParams /\ PBytes(Stored(p)) = PBytes(p)
  BY StoredIs
<1>2. kv' = {PBytes(Stored(p))}
  BY <1>1, ParamsMarshalIs DEF SetParams
<1>. QED
  BY <1>1, <1>2, NextParamsIs

\* A chain begins without parameters and proposals.
LEMMA WireInitial == ASSUME Init PROVE WireInv
BY DEF Init, WireInv, StoreOf, ProposalOf, ClientOf

\* What is left alone keeps its meaning.
LEMMA SameForce ==
  ASSUME kv' = kv
  PROVE  GetParams' = GetParams
BY DEF GetParams

\* What the register sees of the store and of the proposal.
InForce == IF kv = {} THEN NoProposal ELSE GetParams
Shows == IF prop = NoProposal THEN NoProposal ELSE prop.shown

\* The steps of the register, by what changes.
LEMMA RegisterStep ==
  ASSUME \/ InForce' = InForce /\ Shows' = Shows
         \/ InForce = NoProposal /\ InForce' \in StorableParams /\ Shows' = Shows
         \/ /\ InForce # NoProposal /\ Shows = NoProposal
            /\ Shows' \in EnactableParams /\ InForce' = InForce
         \/ Shows' = NoProposal /\ InForce' = InForce
         \/ Shows # NoProposal /\ InForce' = Shows /\ Shows' = NoProposal
         \/ InForce # NoProposal /\ InForce' \in EnactableParams /\ Shows' = Shows
  PROVE  [Register!Next]_(Register!registerVars)
BY DEF Register!Next, Register!registerVars, Register!Found, Register!Announce,
       Register!Withdraw, Register!Enact, Register!Replace, InForce, Shows

Moves == WireInv' /\ [Register!Next]_(Register!registerVars)

\* InitGenesis finds a value.
LEMMA InitGenesisMoves ==
  ASSUME WireInv, NEW p \in Params, InitGenesis(p)
  PROVE  Moves
<1>1. kv = {} /\ StoreOf(kv') /\ kv' # {} /\ GetParams' = Stored(p) /\ prop' = prop
      /\ client' = client
  BY SetParamsIs DEF InitGenesis
<1>2. Stored(p) \in StorableParams
  BY StoredIs
<1>3. WireInv'
  BY <1>1 DEF WireInv, ProposalOf
<1>4. InForce = NoProposal /\ InForce' = Stored(p) /\ Shows' = Shows
  BY <1>1 DEF InForce, Shows
<1>. QED
  BY <1>2, <1>3, <1>4, RegisterStep DEF Moves

\* Export and import change no byte.
LEMMA ExportGenesisMoves ==
  ASSUME WireInv, ExportGenesis
  PROVE  Moves
<1>1. kv # {} /\ SetParams(GetParams) /\ client' = client
  BY DEF ExportGenesis
<1>2. GetParams \in StorableParams /\ GetParams \in Params /\ kv = {PBytes(GetParams)}
  BY <1>1, GetParamsIs DEF WireInv
<1>3. PICK g \in StorableParams : g = GetParams /\ g \in Params
  BY <1>2
<1>4. Stored(g) = g
  BY StorableIs
<1>5. SetParams(g)
  BY <1>1, <1>3
<1>6. kv' = kv /\ GetParams' = GetParams /\ StoreOf(kv')
  BY <1>2, <1>3, <1>4, <1>5, SetParamsIs
<1>7. prop' = prop
  <2>1. CASE prop = NoProposal
    BY <2>1 DEF ExportGenesis
  <2>2. CASE prop # NoProposal
    <3>1. PICK a, p, meant :
            /\ a \in {Gov, User} /\ p \in EnactableParams
            /\ prop = Announced(meant, a, p)
      BY <2>2 DEF WireInv, ProposalOf
    <3>2. The(MsgUpdateParamsUnmarshal(prop.raw)) = MsgUpdateParams(a, p)
      BY <3>1, StoredMessage, TheIs
    <3>3. prop' = Proposal(meant, MsgUpdateParamsMarshal(MsgUpdateParams(a, p)))
      BY <2>2, <3>1, <3>2, AnnouncedIs DEF ExportGenesis
    <3>. QED
      BY <3>1, <3>3, Authors, EnactableType, ProposalIs
  <2>. QED
    BY <2>1, <2>2
<1>8. WireInv'
  BY <1>1, <1>6, <1>7 DEF WireInv
<1>9. InForce' = InForce /\ Shows' = Shows
  BY <1>6, <1>7 DEF InForce, Shows
<1>. QED
  BY <1>2, <1>8, <1>9, RegisterStep DEF Moves

\* A proposal announces the value it shows.
LEMMA SubmitProposalMoves ==
  ASSUME WireInv, NEW R, Arrive(R), SubmitProposal(R)
  PROVE  Moves
<1>1. PICK r \in R[Gov] : prop' = r.prop
  BY DEF SubmitProposal
<1>2. PICK a, p, meant :
        /\ a \in {Gov, User} /\ p \in EnactableParams
        /\ r.prop = Announced(meant, a, p) /\ meant \in SUBSET {p}
  BY DEF Arrive
<1>3. kv # {} /\ prop = NoProposal /\ client' = Idle /\ kv' = kv
  BY DEF SubmitProposal
<1>4. GetParams' = GetParams
  BY <1>3, SameForce
<1>5. WireInv'
  <2>1. ProposalOf(kv', prop')
    BY <1>1, <1>2, <1>3 DEF ProposalOf
  <2>. QED
    BY <1>3, <2>1 DEF WireInv, ClientOf
<1>6. InForce' = InForce /\ InForce # NoProposal
  BY <1>3, <1>4, InForceIs DEF InForce, WireInv
<1>7. Shows = NoProposal /\ (Shows' = NoProposal \/ Shows' = p)
  BY <1>1, <1>2, <1>3, AnnouncedIs DEF Shows
<1>. QED
  BY <1>2, <1>5, <1>6, <1>7, RegisterStep DEF Moves

\* A message of the configured account replaces the value.
LEMMA UpdateParamsMoves ==
  ASSUME WireInv, NEW R, Arrive(R), UpdateParams(R)
  PROVE  Moves
<1>1. PICK r \in R[User] :
        /\ SetParams(r.msg.params)
        /\ client' = Done(r.prop.meant, r.msg.params, MsgUpdateParamsResponseMarshal)
  BY DEF UpdateParams
<1>2. PICK a, p, meant :
        /\ a \in {Gov, User} /\ p \in EnactableParams
        /\ r.msg = MsgUpdateParams(a, p) /\ r.prop = Announced(meant, a, p)
        /\ meant \in SUBSET {p}
  BY DEF Arrive
<1>3. kv # {} /\ prop' = prop
  BY DEF UpdateParams
<1>4. SetParams(p) /\ client' = Done(meant, p, <<>>)
  BY <1>1, <1>2, MsgFields, AnnouncedIs, EmptyAnswer
<1>5. p \in Params /\ Stored(p) = p
  BY <1>2, EnactableType
<1>6. StoreOf(kv') /\ kv' # {} /\ GetParams' = p
  BY <1>4, <1>5, SetParamsIs
<1>7. ClientOf(client')
  BY <1>2, <1>4 DEF ClientOf
<1>8. WireInv'
  BY <1>3, <1>6, <1>7 DEF WireInv, ProposalOf
<1>9. InForce # NoProposal /\ InForce' = p /\ Shows' = Shows
  BY <1>3, <1>6, InForceIs DEF InForce, Shows, WireInv
<1>. QED
  BY <1>2, <1>8, <1>9, RegisterStep DEF Moves

\* A proposal that passes enacts its value, if governance is the authority.
LEMMA PassMoves ==
  ASSUME WireInv, Pass
  PROVE  Moves
<1>1. PICK a, p, meant :
        /\ a \in {Gov, User} /\ p \in EnactableParams
        /\ prop = Announced(meant, a, p)
  BY DEF Pass, WireInv, ProposalOf
<1>2. MsgUpdateParamsUnmarshal(prop.raw) = {MsgUpdateParams(a, p)}
  BY <1>1, StoredMessage
<1>3. IF a = authority THEN SetParams(p) ELSE kv' = kv
  BY <1>2, MsgFields DEF Pass
<1>4. prop # NoProposal /\ prop' = NoProposal /\ client' = client
  BY DEF Pass
<1>5. Shows = p /\ Shows' = NoProposal
  BY <1>1, <1>4, AnnouncedIs DEF Shows
<1>6. p \in Params /\ Stored(p) = p
  BY <1>1, EnactableType
<1>7. p # NoProposal
  BY <1>6, WireAssumption
<1>8. CASE a = authority
  <2>1. StoreOf(kv') /\ kv' # {} /\ GetParams' = p
    BY <1>3, <1>6, <1>8, SetParamsIs
  <2>2. WireInv'
    BY <1>4, <2>1 DEF WireInv, ProposalOf
  <2>3. InForce' = p
    BY <2>1 DEF InForce
  <2>. QED
    BY <1>5, <1>7, <2>2, <2>3, RegisterStep DEF Moves
<1>9. CASE a # authority
  <2>1. kv' = kv /\ GetParams' = GetParams
    BY <1>3, <1>9, SameForce
  <2>2. WireInv'
    BY <1>4, <2>1 DEF WireInv, ProposalOf
  <2>3. InForce' = InForce
    BY <2>1 DEF InForce
  <2>. QED
    BY <1>5, <2>2, <2>3, RegisterStep DEF Moves
<1>. QED
  BY <1>8, <1>9

\* A proposal that fails is withdrawn.
LEMMA FailMoves ==
  ASSUME WireInv, Fail
  PROVE  Moves
<1>1. prop' = NoProposal /\ kv' = kv /\ client' = client
  BY DEF Fail
<1>2. GetParams' = GetParams
  BY <1>1, SameForce
<1>3. WireInv'
  BY <1>1 DEF WireInv, ProposalOf
<1>4. InForce' = InForce /\ Shows' = NoProposal
  BY <1>1, <1>2 DEF InForce, Shows
<1>. QED
  BY <1>3, <1>4, RegisterStep DEF Moves

\* Steps of a client only.
LEMMA ClientMoves ==
  ASSUME WireInv, kv' = kv, prop' = prop, ClientOf(client')
  PROVE  Moves
<1>1. GetParams' = GetParams
  BY SameForce
<1>2. WireInv'
  BY DEF WireInv
<1>3. InForce' = InForce /\ Shows' = Shows
  BY <1>1 DEF InForce, Shows
<1>. QED
  BY <1>2, <1>3, RegisterStep DEF Moves

\* A query changes nothing of the node,
LEMMA QueryParamsMoves ==
  ASSUME WireInv, NEW req, NEW x \in Additions, QueryParams(req, x)
  PROVE  Moves
<1>1. /\ kv # {} /\ kv' = kv /\ prop' = prop
      /\ client' = Reply(QueryParamsResponseMarshal([params |-> GetParams]) \o x, GetParams)
  BY DEF QueryParams
<1>2. PICK g \in StorableParams : g = GetParams /\ g \in Params
  BY <1>1, GetParamsIs DEF WireInv
<1>3. QueryParamsResponseMarshal([params |-> g]) = <<Sub(1, PBytes(g))>>
  BY <1>2, WrapperMarshalIs, WrapperEmpty
<1>4. client' = Reply(WrapperBytes(PBytes(g), x), g)
  BY <1>1, <1>2, <1>3 DEF WrapperBytes
<1>5. ClientOf(client')
  BY <1>4 DEF ClientOf
<1>. QED
  BY <1>1, <1>5, ClientMoves

\* nor does a client that edits its draft.
LEMMA EditMoves ==
  ASSUME WireInv, Begin \/ Edit \/ Close
  PROVE  Moves
<1>1. kv' = kv /\ prop' = prop
  BY DEF Begin, Edit, Close
<1>2. CASE Begin
  <2>1. ClientOf(client')
    BY <1>2, DraftStarts DEF Begin, ClientOf
  <2>. QED
    BY <1>1, <2>1, ClientMoves
<1>3. CASE Edit
  <2>1. PICK m : Draftable(m) /\ client = Draft(m)
    BY <1>3 DEF Edit, WireInv, ClientOf, Idle, Reply, Done
  <2>2. client.msg = m
    BY <2>1 DEF Draft
  <2>3. PICK n \in Edited(m) : client' = Draft(n)
    BY <1>3, <2>2 DEF Edit
  <2>4. ClientOf(client')
    BY <2>1, <2>3, DraftEdited DEF ClientOf
  <2>. QED
    BY <1>1, <2>4, ClientMoves
<1>4. CASE Close
  <2>1. ClientOf(client')
    BY <1>4 DEF Close, ClientOf
  <2>. QED
    BY <1>1, <2>1, ClientMoves
<1>. QED
  BY <1>2, <1>3, <1>4

\* All steps.
LEMMA WireStep == ASSUME WireInv, [Next]_vars PROVE Moves
<1>1. CASE \E p \in Params : InitGenesis(p)
  BY <1>1, InitGenesisMoves
<1>2. CASE ExportGenesis
  BY <1>2, ExportGenesisMoves
<1>3. CASE SendGogo \/ SendForeign \/ SendPulsar
  <2>1. PICK R : Arrive(R) /\ Send(R)
    BY <1>3, SendArrives DEF WireInv
  <2>. QED
    BY <2>1, SubmitProposalMoves, UpdateParamsMoves DEF Send
<1>4. CASE Begin \/ Edit \/ Close
  BY <1>4, EditMoves
<1>5. CASE Pass
  BY <1>5, PassMoves
<1>6. CASE Fail
  BY <1>6, FailMoves
<1>7. CASE \E req \in Requests, x \in Additions : QueryParams(req, x)
  BY <1>7, QueryParamsMoves
<1>8. CASE UNCHANGED vars
  <2>1. kv' = kv /\ prop' = prop /\ client' = client
    BY <1>8 DEF vars
  <2>. QED
    BY <2>1, ClientMoves DEF WireInv
<1>. QED
  BY <1>1, <1>2, <1>3, <1>4, <1>5, <1>6, <1>7, <1>8 DEF Next

\* The invariant of the bytes: the store and a proposal hold exactly what the
\* node's Marshal writes of parameters it may hold, a client its own draft,
\* or an answer in which nothing but additions follows the parameters.
THEOREM WireInvariant == Spec => []WireInv
<1>1. Init => WireInv
  BY WireInitial
<1>2. WireInv /\ [Next]_vars => WireInv'
  BY WireStep DEF Moves
<1>. QED
  BY <1>1, <1>2, PTL DEF Spec

-----------------------------------------------------------------------------
(* What the invariant says of the bytes.                                   *)

LEMMA StorableShape ==
  ASSUME NEW p \in StorableParams
  PROVE  \E d \in Texts, a \in Texts, e \in BOOLEAN :
           PBytes(p) = Body(d, a, e) /\ NewParams(d, ParseInt[a], e) = p
<1>1. p \in Params /\ p.amount # NilInt
  BY StorableIs, AmountsAssumption DEF StorableParams, Ints
<1>2. /\ p.denom \in Texts /\ IntText(p.amount) \in Texts /\ p.enabled \in BOOLEAN
      /\ ParseInt[IntText(p.amount)] = p.amount
      /\ p = NewParams(p.denom, p.amount, p.enabled)
  BY <1>1, ParamsFields, IntTextIs
<1>3. NewParams(p.denom, ParseInt[IntText(p.amount)], p.enabled) = p
  BY <1>2
<1>. QED
  BY <1>2, <1>3 DEF PBytes

\* Both decoders and both encoders, on what a store holds.
LEMMA StoreAgrees ==
  ASSUME NEW p \in StorableParams
  PROVE  LET b == PBytes(p)
             g == [params |-> p]
             bz == GenesisStateMarshal(g)
         IN /\ {ParamsMarshal(q) : q \in ParamsUnmarshal(ZeroParams, b)} = {b}
            /\ {P!ParamsMarshal(q) : q \in P!ParamsUnmarshal(P!NewParams, b)} = {b}
            /\ GenesisStateUnmarshal(bz) = {g}
            /\ {P!GenesisStateMarshal(m) : m \in P!GenesisStateUnmarshal(P!NewWrapper, bz)} = {bz}
<1>1. p \in Params /\ Stored(p) = p
  BY StorableIs
<1>2. PICK b : b = PBytes(p)
  OBVIOUS
<1>3. PICK d \in Texts, a \in Texts, e \in BOOLEAN : b = Body(d, a, e)
  BY <1>2, StorableShape
<1>4. ParamsUnmarshal(ZeroParams, b) = {p} /\ ParamsMarshal(p) = b
  BY <1>1, <1>2, ParamsRoundTrip, ParamsMarshalIs
<1>5. /\ P!ParamsUnmarshal(P!NewParams, b) = {Shape(d, a, e)}
      /\ P!ParamsMarshal(Shape(d, a, e)) = b
  BY <1>3, ShapeRead, ShapeWritten
<1>6. PICK g : g = [params |-> p]
  OBVIOUS
<1>7. PICK x, bz : x = <<>> /\ bz = WrapperBytes(b, x) /\ Skippable(x)
  BY NothingSkippable
<1>8. GenesisStateMarshal(g) = bz /\ GenesisStateUnmarshal(bz) = {g}
  BY <1>1, <1>2, <1>6, <1>7, WrapperMarshalIs, WrapperRoundTrip, NothingSkippable
<1>9. PICK m : m = Envelope({Shape(d, a, e)}, x)
  OBVIOUS
<1>10. P!GenesisStateUnmarshal(P!NewWrapper, bz) = {m} /\ P!GenesisStateMarshal(m) = bz
  <2>1. bz = WrapperBytes(Body(d, a, e), x) /\ m = Envelope({Shape(d, a, e)}, x)
    BY <1>3, <1>7, <1>9
  <2>2. Skippable(x)
    BY <1>7
  <2>3. PICK s : s = WrapperBytes(Body(d, a, e), x)
    OBVIOUS
  <2>4. PICK t : t = Envelope({Shape(d, a, e)}, x)
    OBVIOUS
  <2>5. P!GenesisStateUnmarshal(P!NewWrapper, s) = {t} /\ P!GenesisStateMarshal(t) = s
    BY <2>2, <2>3, <2>4, EnvelopeRead, EnvelopeWritten
  <2>. QED
    BY <2>1, <2>3, <2>4, <2>5
<1>11. {ParamsMarshal(q) : q \in ParamsUnmarshal(ZeroParams, b)} = {b}
  BY <1>4
<1>12. {P!ParamsMarshal(q) : q \in P!ParamsUnmarshal(P!NewParams, b)} = {b}
  BY <1>5
<1>13. {P!GenesisStateMarshal(n) : n \in P!GenesisStateUnmarshal(P!NewWrapper, bz)} = {bz}
  BY <1>10
<1>. QED
  BY <1>2, <1>6, <1>8, <1>11, <1>12, <1>13

\* Two values that can be stored are Equal exactly if their bytes are.
LEMMA EqualBytes ==
  ASSUME NEW p \in StorableParams, NEW q \in StorableParams
  PROVE  ParamsEqual(p, q) = IF {PBytes(p)} = {ParamsMarshal(q)} THEN "equal" ELSE "different"
<1>1. /\ p \in Params /\ q \in Params /\ Stored(p) = p /\ Stored(q) = q
      /\ p.amount # NilInt /\ q.amount # NilInt
  BY StorableIs, AmountsAssumption DEF StorableParams, Ints
<1>2. ParamsMarshal(q) = PBytes(q)
  BY <1>1, ParamsMarshalIs
<1>3. PBytes(p) = PBytes(q) => p = q
  <2>1. ParamsUnmarshal(ZeroParams, PBytes(p)) = {p} /\ ParamsUnmarshal(ZeroParams, PBytes(q)) = {q}
    BY <1>1, ParamsRoundTrip
  <2>. QED
    BY <2>1
<1>4. ParamsEqual(p, q) = IF p = q THEN "equal" ELSE "different"
  BY <1>1 DEF ParamsEqual
<1>5. {PBytes(p)} = {ParamsMarshal(q)} <=> p = q
  BY <1>2, <1>3
<1>. QED
  BY <1>4, <1>5

\* A copy made by reflection of what is proposed is written byte for byte.
LEMMA ProposalAgrees ==
  ASSUME NEW a \in {Gov, User}, NEW p \in EnactableParams
  PROVE  {P!MsgUpdateParamsMarshal(P!Clone(m, P!NewMsg)) : m \in Pulsar(MsgBytes(a, PBytes(p)))}
           = {MsgBytes(a, PBytes(p))}
<1>1. PICK b : b = MsgBytes(a, PBytes(p))
  OBVIOUS
<1>2. PICK d \in Texts, t \in Texts, e \in BOOLEAN : PBytes(p) = Body(d, t, e)
  BY EnactableType, StorableShape
<1>3. PICK l : l = Letter(a, {Shape(d, t, e)})
  OBVIOUS
<1>4. Pulsar(b) = {l}
  BY <1>1, <1>2, <1>3, Authors, LetterRead
<1>5. P!Clone(l, P!NewMsg) = l
  BY <1>3, LetterCopied
<1>6. P!MsgUpdateParamsMarshal(l) = b
  BY <1>1, <1>2, <1>3, Authors, LetterWritten
<1>. QED
  BY <1>1, <1>4, <1>5, <1>6

\* CodecsAgree holds wherever the invariant does,
LEMMA InvCodecs == WireInv => CodecsAgree
<1>. SUFFICES ASSUME WireInv PROVE CodecsAgree
  OBVIOUS
<1>1. ASSUME NEW b \in kv
      PROVE  LET g == [params |-> GetParams]
                 bz == GenesisStateMarshal(g)
             IN /\ {ParamsMarshal(p) : p \in ParamsUnmarshal(ZeroParams, b)} = kv
                /\ {P!ParamsMarshal(q) : q \in P!ParamsUnmarshal(P!NewParams, b)} = kv
                /\ GenesisStateUnmarshal(bz) = {g}
                /\ {P!GenesisStateMarshal(m) : m \in P!GenesisStateUnmarshal(P!NewWrapper, bz)}
                     = {bz}
  <2>1. PICK p \in StorableParams : p = GetParams /\ kv = {PBytes(p)}
    BY GetParamsIs DEF WireInv
  <2>2. b = PBytes(p) /\ kv = {b}
    BY <2>1
  <2>. QED
    BY <2>1, <2>2, StoreAgrees
<1>2. ASSUME prop # NoProposal
      PROVE  /\ {P!MsgUpdateParamsMarshal(P!Clone(m, P!NewMsg)) : m \in Pulsar(prop.raw)}
                  = {prop.raw}
             /\ \A m \in MsgUpdateParamsUnmarshal(prop.raw) :
                  ParamsEqual(GetParams, m.params) =
                    IF kv = {ParamsMarshal(m.params)} THEN "equal" ELSE "different"
  <2>1. PICK a, p, meant :
          /\ a \in {Gov, User} /\ p \in EnactableParams
          /\ prop = Announced(meant, a, p) /\ kv # {}
    BY <1>2 DEF WireInv, ProposalOf
  <2>2. prop.raw = MsgBytes(a, PBytes(p))
    BY <2>1, AnnouncedIs
  <2>3. MsgUpdateParamsUnmarshal(prop.raw) = {MsgUpdateParams(a, p)}
    BY <2>1, StoredMessage
  <2>4. PICK g \in StorableParams : g = GetParams /\ kv = {PBytes(g)}
    BY <2>1, GetParamsIs DEF WireInv
  <2>5. ParamsEqual(g, p) = IF {PBytes(g)} = {ParamsMarshal(p)} THEN "equal" ELSE "different"
    BY <2>1, EnactableType, EqualBytes
  <2>6. ParamsEqual(GetParams, p) = IF kv = {ParamsMarshal(p)} THEN "equal" ELSE "different"
    BY <2>4, <2>5
  <2>7. {P!MsgUpdateParamsMarshal(P!Clone(m, P!NewMsg)) : m \in Pulsar(prop.raw)} = {prop.raw}
    BY <2>1, <2>2, ProposalAgrees
  <2>. QED
    BY <2>3, <2>6, <2>7, MsgFields
<1>. QED
  BY <1>1, <1>2 DEF CodecsAgree

\* and so does MeantIsApplied,
LEMMA InvMeant == WireInv => MeantIsApplied
<1>. SUFFICES ASSUME WireInv PROVE MeantIsApplied
  OBVIOUS
<1>1. ASSUME prop # NoProposal, NEW m \in MsgUpdateParamsUnmarshal(prop.raw)
      PROVE  prop.meant \subseteq {m.params}
  <2>1. PICK a, p, meant :
          /\ a \in {Gov, User} /\ p \in EnactableParams
          /\ prop = Announced(meant, a, p) /\ meant \in SUBSET {p}
    BY <1>1 DEF WireInv, ProposalOf
  <2>2. MsgUpdateParamsUnmarshal(prop.raw) = {MsgUpdateParams(a, p)}
    BY <2>1, StoredMessage
  <2>3. m = MsgUpdateParams(a, p)
    BY <1>1, <2>2
  <2>. QED
    BY <2>1, <2>3, MsgFields, AnnouncedIs
<1>2. ASSUME client.kind = "done"
      PROVE  client.meant \subseteq {Stored(client.applied)}
  <2>1. PICK p, meant :
          /\ p \in EnactableParams
          /\ meant \in SUBSET {p} /\ client = Done(meant, p, <<>>)
    BY <1>2 DEF WireInv, ClientOf, Idle, Draft, Reply
  <2>2. client.meant = meant /\ client.applied = p
    BY <2>1 DEF Done
  <2>. QED
    BY <2>1, <2>2, EnactableType
<1>. QED
  BY <1>1, <1>2 DEF MeantIsApplied

\* The answer to a query, with what a later server adds.
LEMMA ReplyAgrees ==
  ASSUME NEW p \in StorableParams, NEW x \in Additions
  PROVE  LET b == WrapperBytes(PBytes(p), x)
             ms == P!QueryParamsResponseUnmarshal(P!NewWrapper, b)
         IN /\ QueryParamsResponseUnmarshal(b) = {[params |-> p]}
            /\ {Shown(m) : m \in ms} = {p}
            /\ {P!QueryParamsResponseMarshal(P!Clone(m, P!NewWrapper)) : m \in ms} = {b}
<1>1. Skippable(x)
  BY AdditionSkippable
<1>2. p \in Params /\ Stored(p) = p
  BY StorableIs
<1>3. PICK b : b = WrapperBytes(PBytes(p), x)
  OBVIOUS
<1>4. QueryParamsResponseUnmarshal(b) = {[params |-> p]}
  BY <1>1, <1>2, <1>3, WrapperRoundTrip
<1>5. PICK d \in Texts, t \in Texts, e \in BOOLEAN :
        PBytes(p) = Body(d, t, e) /\ NewParams(d, ParseInt[t], e) = p
  BY StorableShape
<1>6. PICK n : n = Envelope({Shape(d, t, e)}, x)
  OBVIOUS
<1>7. /\ P!QueryParamsResponseUnmarshal(P!NewWrapper, b) = {n}
      /\ P!QueryParamsResponseMarshal(n) = b
  BY <1>1, <1>3, <1>5, <1>6, EnvelopeRead, EnvelopeWritten
<1>8. P!Clone(n, P!NewWrapper) = n
  BY <1>6, EnvelopeCopied
<1>9. Shown(n) = p
  BY <1>5, <1>6, ShownIs
<1>. QED
  BY <1>3, <1>4, <1>7, <1>8, <1>9

\* and RepliesAgree.
LEMMA InvReplies == WireInv => RepliesAgree
<1>. SUFFICES ASSUME WireInv PROVE RepliesAgree
  OBVIOUS
<1>1. ASSUME client.kind = "reply"
      PROVE  /\ QueryParamsResponseUnmarshal(client.bytes) = {[params |-> client.was]}
             /\ LET ms == P!QueryParamsResponseUnmarshal(P!NewWrapper, client.bytes)
                IN /\ {Shown(m) : m \in ms} = {client.was}
                   /\ {P!QueryParamsResponseMarshal(P!Clone(m, P!NewWrapper)) : m \in ms}
                        = {client.bytes}
  <2>1. PICK p \in StorableParams, x \in Additions :
          client = Reply(WrapperBytes(PBytes(p), x), p)
    BY <1>1 DEF WireInv, ClientOf, Idle, Draft, Done
  <2>2. client.bytes = WrapperBytes(PBytes(p), x) /\ client.was = p
    BY <2>1 DEF Reply
  <2>. QED
    BY <2>2, ReplyAgrees
<1>2. ASSUME client.kind = "done"
      PROVE  /\ MsgUpdateParamsResponseUnmarshal(client.bytes) # {}
             /\ {P!MsgUpdateParamsResponseMarshal(m) :
                   m \in P!MsgUpdateParamsResponseUnmarshal(P!NewEmpty, client.bytes)}
                  = {client.bytes}
  <2>1. PICK p, meant : client = Done(meant, p, <<>>)
    BY <1>2 DEF WireInv, ClientOf, Idle, Draft, Reply
  <2>2. client.bytes = <<>>
    BY <2>1 DEF Done
  <2>. QED
    BY <2>2, EmptyAnswer
<1>. QED
  BY <1>1, <1>2 DEF RepliesAgree

\* Every marshaller of params.pb.go, tx.pb.go, genesis.pb.go and their pulsar
\* counterparts computes the size it writes, for denominations, amounts and
\* addresses of any length a block can carry: what the node stored is read by
\* both sets of generated code and written again byte for byte.
THEOREM CodecsAlwaysAgree == Spec => []CodecsAgree
BY WireInvariant, InvCodecs, PTL

\* What a client of this repository asks for is what UpdateParams applies,
\* over both encoders, both decoders and the checks in between.
THEOREM MeantAlwaysApplied == Spec => []MeantIsApplied
BY WireInvariant, InvMeant, PTL

\* Every client reads from the answer of the query server the value that was
\* in force, whatever skippable fields a later server added, and passes it on
\* unchanged.
THEOREM RepliesAlwaysAgree == Spec => []RepliesAgree
BY WireInvariant, InvReplies, PTL

\* The bytes in the store and in a proposal implement a register of values:
\* a proposal that passes enacts the value it showed, and nothing else but a
\* message of the configured account and the genesis changes what is in force.
THEOREM WireImplementsRegister == Spec => RegisterSpec
<1>1. Init => Register!Init
  BY DEF Init, Register!Init
<1>2. WireInv /\ [Next]_vars => [Register!Next]_(Register!registerVars)
  BY WireStep DEF Moves
<1>. QED
  BY <1>1, <1>2, WireInvariant, PTL DEF Spec, RegisterSpec, Register!Spec
=============================================================================
