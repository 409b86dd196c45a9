------------------------------ MODULE Ante_proofs ------------------------------
(***************************************************************************)
(* Proofs about the ante handler, for any number of nodes, accounts and    *)
(* transactions, any amounts and any local settings.                       *)
(*                                                                         *)
(* A fold is reasoned about through its trace, the values it has after     *)
(* each element; what the chain of decorators does to a transaction is     *)
(* said once, by what it leaves in the state (Charge), and the invariants  *)
(* are about that.                                                         *)
(***************************************************************************)
EXTENDS Ante, FiniteSetTheorems, WellFoundedInduction, TLAPS

-----------------------------------------------------------------------------
(* Numbers.                                                                *)

LEMMA LeastNat ==
  ASSUME NEW B \in SUBSET Nat, B # {}
  PROVE  \E n \in B : \A m \in B : n <= m
<1>1. PICK n \in B : \A m \in B : <<m, n>> \notin OpToRel(<, Nat)
  BY NatLessThanWellFounded, WFMin
<1>2. \A m \in B : ~(m < n)
  BY <1>1 DEF OpToRel
<1>. QED
  BY <1>2

\* A set of numbers with 0 and every successor up to n has all up to n.
LEMMA AllUpTo ==
  ASSUME NEW n \in Nat, NEW P, 0 \in P, \A i \in 0 .. n : i \in P /\ i < n => i + 1 \in P
  PROVE  \A i \in 0 .. n : i \in P
<1>. SUFFICES ASSUME (0 .. n) \ P # {} PROVE FALSE
  OBVIOUS
<1>1. PICK i \in (0 .. n) \ P : \A j \in (0 .. n) \ P : i <= j
  <2>1. (0 .. n) \ P \in SUBSET Nat
    OBVIOUS
  <2>. QED
    BY <2>1, LeastNat
<1>2. i # 0 /\ i - 1 \in 0 .. n /\ ~(i <= i - 1) /\ i - 1 < n /\ i - 1 + 1 = i
  BY <1>1
<1>3. i - 1 \in P
  BY <1>1, <1>2
<1>. QED
  BY <1>1, <1>2, <1>3

-----------------------------------------------------------------------------
(* Folds.  Every fold of the model is one of these steps, with what it     *)
(* needs besides the accumulator and the element in e.                     *)

StepOf(k, e, a, x) ==
  IF k = "msgs" THEN HandleMsg(a, x, e)
  ELSE IF k = "block" THEN DeliverTx(a, x, e)
  ELSE IF k = "recheck" THEN RecheckTx(a, x, e.call, e.block)
  ELSE a + x.tx.fee

\* The equation of a fold, on all subsets and on those of at most n elements.
Folded(g, k, e, base, seq) ==
  g = [s \in SUBSET DOMAIN seq |->
         IF s = {} THEN base ELSE StepOf(k, e, g[s \ {Max(s)}], seq[Max(s)])]
UpTo(S, n) == {s \in SUBSET S : Cardinality(s) <= n}
FoldedUpTo(g, k, e, base, seq, n) ==
  g = [s \in UpTo(DOMAIN seq, n) |->
         IF s = {} THEN base ELSE StepOf(k, e, g[s \ {Max(s)}], seq[Max(s)])]

Trace(t, k, e, base, seq) ==
  t[0] = base /\ \A i \in 1 .. Len(seq) : t[i] = StepOf(k, e, t[i - 1], seq[i])

LEMMA MaxIs ==
  ASSUME NEW S \in SUBSET Nat, IsFiniteSet(S), S # {}
  PROVE  Max(S) \in S /\ \A x \in S : x <= Max(S)
<1>1. \E x \in S : \A y \in S : x >= y
  <2>. DEFINE P == {n \in Nat : \A s \in SUBSET S :
                      s # {} /\ Cardinality(s) <= n => \E x \in s : \A y \in s : x >= y}
  <2>1. Cardinality(S) \in Nat
    BY FS_CardinalityType
  <2>2. 0 \in P
    <3>. SUFFICES ASSUME NEW s \in SUBSET S, s # {}, Cardinality(s) <= 0 PROVE FALSE
      OBVIOUS
    <3>1. IsFiniteSet(s)
      BY FS_Subset
    <3>. QED
      BY <3>1, FS_EmptySet, FS_CardinalityType
  <2>3. ASSUME NEW i \in 0 .. Cardinality(S), i \in P PROVE i + 1 \in P
    <3>. SUFFICES ASSUME NEW s \in SUBSET S, s # {}, Cardinality(s) <= i + 1
                  PROVE  \E x \in s : \A y \in s : x >= y
      BY <2>1
    <3>1. PICK z : z \in s
      OBVIOUS
    <3>2. IsFiniteSet(s) /\ Cardinality(s) \in Nat /\ Cardinality(s \ {z}) = Cardinality(s) - 1
      BY <3>1, FS_Subset, FS_RemoveElement, FS_CardinalityType
    <3>3. CASE s \ {z} = {}
      <4>1. \A y \in s : y = z
        BY <3>3
      <4>. QED
        BY <3>1, <4>1
    <3>4. CASE s \ {z} # {}
      <4>1. PICK x \in s \ {z} : \A y \in s \ {z} : x >= y
        BY <2>1, <2>3, <3>2, <3>4
      <4>2. x \in Nat /\ z \in Nat /\ \A y \in s : y \in Nat
        BY <3>1
      <4>3. CASE x >= z
        BY <4>1, <4>3
      <4>4. CASE ~(x >= z)
        <5>1. \A y \in s : z >= y
          BY <4>1, <4>2, <4>4
        <5>. QED
          BY <3>1, <5>1
      <4>. QED
        BY <4>3, <4>4
    <3>. QED
      BY <3>3, <3>4
  <2>4. \A i \in 0 .. Cardinality(S) : i \in P
    BY <2>1, <2>2, <2>3, AllUpTo
  <2>5. Cardinality(S) \in P
    BY <2>1, <2>4
  <2>. QED
    BY <2>1, <2>5
<1>. QED
  BY <1>1 DEF Max

LEMMA MaxOfRange == ASSUME NEW i \in Nat, i > 0 PROVE Max(1 .. i) = i
<1>1. IsFiniteSet(1 .. i)
  BY FS_Interval
<1>2. 1 .. i # {} /\ i \in 1 .. i /\ 1 .. i \in SUBSET Nat
  OBVIOUS
<1>3. Max(1 .. i) \in 1 .. i /\ i <= Max(1 .. i)
  BY <1>1, <1>2, MaxIs
<1>. QED
  BY <1>3

LEMMA LastLeaves ==
  ASSUME NEW S \in SUBSET Nat, IsFiniteSet(S), NEW s \in SUBSET S, s # {}
  PROVE  /\ s \ {Max(s)} \in SUBSET S /\ IsFiniteSet(s)
         /\ Cardinality(s) \in Nat /\ Cardinality(s \ {Max(s)}) = Cardinality(s) - 1
<1>1. IsFiniteSet(s)
  BY FS_Subset
<1>2. Max(s) \in s
  BY <1>1, MaxIs
<1>. QED
  BY <1>1, <1>2, FS_RemoveElement, FS_CardinalityType

LEMMA FoldExists ==
  ASSUME NEW k, NEW e, NEW base, NEW seq, DOMAIN seq \in SUBSET Nat, IsFiniteSet(DOMAIN seq)
  PROVE  \E g : Folded(g, k, e, base, seq)
<1>. DEFINE S == DOMAIN seq
            P == {n \in Nat : \E g : FoldedUpTo(g, k, e, base, seq, n)}
<1>0. Cardinality(S) \in Nat
  BY FS_CardinalityType
<1>1. 0 \in P
  <2>. DEFINE g == [s \in UpTo(S, 0) |-> base]
  <2>1. \A s \in UpTo(S, 0) : s = {}
    BY FS_EmptySet, FS_Subset, FS_CardinalityType DEF UpTo
  <2>2. FoldedUpTo(g, k, e, base, seq, 0)
    BY <2>1 DEF FoldedUpTo
  <2>. QED
    BY <2>2
<1>2. ASSUME NEW n \in 0 .. Cardinality(S), n \in P PROVE n + 1 \in P
  <2>1. PICK g : FoldedUpTo(g, k, e, base, seq, n)
    BY <1>2
  <2>. DEFINE Eq(h, s) == IF s = {} THEN base ELSE StepOf(k, e, h[s \ {Max(s)}], seq[Max(s)])
              h == [s \in UpTo(S, n + 1) |-> Eq(g, s)]
  <2>. n \in Nat
    BY <1>2
  <2>2. ASSUME NEW s \in UpTo(S, n + 1), s # {}
        PROVE  s \ {Max(s)} \in UpTo(S, n) /\ s \ {Max(s)} \in UpTo(S, n + 1)
    BY <2>2, LastLeaves DEF UpTo
  <2>3. \A s \in UpTo(S, n) : s \in UpTo(S, n + 1)
    <3>. SUFFICES ASSUME NEW s \in UpTo(S, n) PROVE s \in UpTo(S, n + 1)
      OBVIOUS
    <3>1. s \in SUBSET S /\ Cardinality(s) <= n
      BY DEF UpTo
    <3>2. Cardinality(s) \in Nat
      BY <3>1, FS_Subset, FS_CardinalityType
    <3>. QED
      BY <3>1, <3>2 DEF UpTo
  <2>4. \A s \in UpTo(S, n) : g[s] = Eq(g, s)
    BY <2>1 DEF FoldedUpTo
  <2>5. \A s \in UpTo(S, n + 1) : h[s] = Eq(g, s)
    OBVIOUS
  <2>6. \A s \in UpTo(S, n) : h[s] = g[s]
    BY <2>3, <2>4, <2>5
  <2>7. ASSUME NEW s \in UpTo(S, n + 1) PROVE Eq(g, s) = Eq(h, s)
    <3>1. CASE s = {}
      BY <3>1
    <3>2. CASE s # {}
      <4>1. h[s \ {Max(s)}] = g[s \ {Max(s)}]
        BY <2>2, <2>6, <3>2
      <4>. QED
        BY <3>2, <4>1
    <3>. QED
      BY <3>1, <3>2
  <2>8. h = [s \in UpTo(S, n + 1) |-> Eq(h, s)]
    <3>1. \A s \in UpTo(S, n + 1) : h[s] = Eq(h, s)
      BY <2>5, <2>7
    <3>2. h = [s \in UpTo(S, n + 1) |-> h[s]]
      OBVIOUS
    <3>. HIDE DEF h
    <3>. QED
      BY <3>1, <3>2
  <2>9. FoldedUpTo(h, k, e, base, seq, n + 1)
    BY <2>8 DEF FoldedUpTo
  <2>. QED
    BY <2>9
<1>3. \A n \in 0 .. Cardinality(S) : n \in P
  BY <1>0, <1>1, <1>2, AllUpTo
<1>4. PICK g : FoldedUpTo(g, k, e, base, seq, Cardinality(S))
  <2>1. Cardinality(S) \in P
    BY <1>0, <1>3
  <2>. QED
    BY <2>1
<1>5. UpTo(S, Cardinality(S)) = SUBSET S
  BY FS_Subset DEF UpTo
<1>6. Folded(g, k, e, base, seq)
  BY <1>4, <1>5 DEF Folded, FoldedUpTo
<1>. QED
  BY <1>6

FoldValue(k, e, base, seq) == (CHOOSE g : Folded(g, k, e, base, seq))[DOMAIN seq]

\* The value of a fold is the end of a trace.
LEMMA FoldTrace ==
  ASSUME NEW k, NEW e, NEW base, NEW X, NEW seq \in Seq(X)
  PROVE  \E t : /\ Trace(t, k, e, base, seq)
                /\ FoldValue(k, e, base, seq) = t[Len(seq)]
<1>1. DOMAIN seq = 1 .. Len(seq) /\ Len(seq) \in Nat /\ DOMAIN seq \in SUBSET Nat
  OBVIOUS
<1>2. IsFiniteSet(DOMAIN seq)
  BY <1>1, FS_Interval
<1>3. PICK g : g = CHOOSE h : Folded(h, k, e, base, seq)
  OBVIOUS
<1>4. Folded(g, k, e, base, seq)
  BY <1>1, <1>2, <1>3, FoldExists
<1>. DEFINE t == [i \in 0 .. Len(seq) |-> g[1 .. i]]
<1>5. t[0] = base
  <2>1. 1 .. 0 = {} /\ {} \in SUBSET DOMAIN seq
    OBVIOUS
  <2>2. g[{}] = base
    BY <1>4, <2>1 DEF Folded
  <2>. QED
    BY <1>1, <2>1, <2>2
<1>6. ASSUME NEW i \in 1 .. Len(seq) PROVE t[i] = StepOf(k, e, t[i - 1], seq[i])
  <2>1. 1 .. i \in SUBSET DOMAIN seq /\ 1 .. i # {} /\ i \in Nat /\ i > 0
    BY <1>1
  <2>2. Max(1 .. i) = i
    BY <2>1, MaxOfRange
  <2>3. (1 .. i) \ {i} = 1 .. (i - 1)
    BY <2>1
  <2>4. g[1 .. i] = StepOf(k, e, g[(1 .. i) \ {Max(1 .. i)}], seq[Max(1 .. i)])
    BY <1>4, <2>1 DEF Folded
  <2>5. g[1 .. i] = StepOf(k, e, g[1 .. (i - 1)], seq[i])
    BY <2>2, <2>3, <2>4
  <2>6. t[i] = g[1 .. i] /\ t[i - 1] = g[1 .. (i - 1)]
    BY <1>1
  <2>. HIDE DEF t
  <2>. QED
    BY <2>5, <2>6
<1>7. t[Len(seq)] = g[DOMAIN seq]
  BY <1>1
<1>. HIDE DEF t
<1>8. Trace(t, k, e, base, seq)
  BY <1>5, <1>6 DEF Trace
<1>. QED
  BY <1>3, <1>7, <1>8 DEF FoldValue

LEMMA RunMsgsTrace ==
  ASSUME NEW c, NEW tx, tx.msgs \in Seq(MsgKinds)
  PROVE  \E t : Trace(t, "msgs", tx, c, tx.msgs) /\ RunMsgs(c, tx) = t[Len(tx.msgs)]
<1>1. RunMsgs(c, tx) = FoldValue("msgs", tx, c, tx.msgs)
  BY DEF RunMsgs, FoldLeft, MapThenFoldSet, FoldValue, Folded, StepOf
<1>2. PICK seq : seq = tx.msgs
  OBVIOUS
<1>3. \E t : Trace(t, "msgs", tx, c, seq)
             /\ FoldValue("msgs", tx, c, seq) = t[Len(seq)]
  BY <1>2, FoldTrace
<1>. QED
  BY <1>1, <1>2, <1>3

LEMMA ExecuteTrace ==
  ASSUME NEW n, NEW block \in Seq(Txs)
  PROVE  \E t : /\ Trace(t, "block", Call(n, "deliver", node[n].height),
                         [st |-> node[n].st, log |-> <<>>], block)
                /\ Execute(n, block) = t[Len(block)]
<1>. DEFINE e == Call(n, "deliver", node[n].height)
            base == [st |-> node[n].st, log |-> <<>>]
<1>1. Execute(n, block) = FoldValue("block", e, base, block)
  BY DEF Execute, FoldLeft, MapThenFoldSet, FoldValue, Folded, StepOf
<1>. HIDE DEF e, base
<1>2. \E t : Trace(t, "block", e, base, block) /\ Execute(n, block) = t[Len(block)]
  BY <1>1, FoldTrace
<1>. QED
  BY <1>2 DEF e, base

LEMMA RecheckTrace ==
  ASSUME NEW n, NEW s, NEW block, node[n].pool \in Seq(Txs)
  PROVE  \E t : /\ Trace(t, "recheck",
                         [call |-> Call(n, "recheck", node[n].height + 1), block |-> block],
                         [check |-> s, pool |-> <<>>], node[n].pool)
                /\ Recheck(n, s, block) = t[Len(node[n].pool)]
<1>. DEFINE e == [call |-> Call(n, "recheck", node[n].height + 1), block |-> block]
            base == [check |-> s, pool |-> <<>>]
<1>1. Recheck(n, s, block)
        = FoldValue("recheck", e, base, node[n].pool)
  BY DEF Recheck, FoldLeft, MapThenFoldSet, FoldValue, Folded, StepOf
<1>. HIDE DEF e, base
<1>2. PICK pool : pool = node[n].pool
  OBVIOUS
<1>3. \E t : Trace(t, "recheck", e, base, pool)
             /\ FoldValue("recheck", e, base, pool) = t[Len(pool)]
  BY <1>2, FoldTrace
<1>. QED
  BY <1>1, <1>2, <1>3 DEF e, base

\* Equal steps make equal traces.
LEMMA TracesEqual ==
  ASSUME NEW k, NEW base, NEW e, NEW d, NEW X, NEW seq \in Seq(X), NEW t, NEW u,
         Trace(t, k, e, base, seq), Trace(u, k, d, base, seq),
         \A i \in 1 .. Len(seq) : \A a : StepOf(k, e, a, seq[i]) = StepOf(k, d, a, seq[i])
  PROVE  \A i \in 0 .. Len(seq) : t[i] = u[i]
<1>. DEFINE P == {i \in 0 .. Len(seq) : t[i] = u[i]}
<1>1. Len(seq) \in Nat
  OBVIOUS
<1>2. 0 \in P
  BY <1>1 DEF Trace
<1>3. ASSUME NEW i \in 0 .. Len(seq), i \in P, i < Len(seq) PROVE i + 1 \in P
  <2>1. i + 1 \in 1 .. Len(seq) /\ i + 1 - 1 = i /\ t[i] = u[i]
    BY <1>1, <1>3
  <2>2. t[i + 1] = StepOf(k, e, t[i], seq[i + 1]) /\ u[i + 1] = StepOf(k, d, u[i], seq[i + 1])
    BY <2>1 DEF Trace
  <2>. QED
    BY <2>1, <2>2
<1>. HIDE DEF P
<1>4. \A i \in 0 .. Len(seq) : i \in P
  BY <1>1, <1>2, <1>3, AllUpTo
<1>. QED
  BY <1>4 DEF P

\* The sum of the fees of a log.
Fees(log) == FoldLeft(LAMBDA x, e : x + e.tx.fee, 0, log)

LEMMA FeesTrace ==
  ASSUME NEW X, NEW log \in Seq(X)
  PROVE  \E t : Trace(t, "fees", 0, 0, log) /\ Fees(log) = t[Len(log)]
<1>1. Fees(log) = FoldValue("fees", 0, 0, log)
  BY DEF Fees, FoldLeft, MapThenFoldSet, FoldValue, Folded, StepOf
<1>. QED
  BY <1>1, FoldTrace

LEMMA FeesEmpty == Fees(<<>>) = 0
<1>1. <<>> \in Seq({}) /\ Len(<<>>) = 0
  OBVIOUS
<1>2. PICK t : Trace(t, "fees", 0, 0, <<>>) /\ Fees(<<>>) = t[0]
  BY <1>1, FeesTrace
<1>. QED
  BY <1>2 DEF Trace

LEMMA FeesAppend ==
  ASSUME NEW X, NEW log \in Seq(X), NEW x \in X
  PROVE  Fees(Append(log, x)) = Fees(log) + x.tx.fee
<1>1. PICK t : Trace(t, "fees", 0, 0, log) /\ Fees(log) = t[Len(log)]
  BY FeesTrace
<1>2. PICK q : q = Append(log, x)
  OBVIOUS
<1>3. /\ q \in Seq(X) /\ Len(q) = Len(log) + 1 /\ Len(log) \in Nat
      /\ q[Len(log) + 1] = x /\ \A i \in 1 .. Len(log) : q[i] = log[i]
  BY <1>2
<1>4. PICK u : Trace(u, "fees", 0, 0, q) /\ Fees(q) = u[Len(log) + 1]
  BY <1>3, FeesTrace
<1>5. Trace(u, "fees", 0, 0, log)
  <2>1. ASSUME NEW i \in 1 .. Len(log) PROVE i \in 1 .. Len(q) /\ q[i] = log[i]
    BY <1>3
  <2>. QED
    BY <1>4, <2>1 DEF Trace
<1>6. t[Len(log)] = u[Len(log)]
  BY <1>1, <1>3, <1>5, TracesEqual
<1>7. u[Len(log) + 1] = u[Len(log)] + x.tx.fee
  <2>1. Len(log) + 1 \in 1 .. Len(q) /\ Len(log) + 1 - 1 = Len(log)
    BY <1>3
  <2>2. u[Len(log) + 1] = StepOf("fees", 0, u[Len(log)], x)
    BY <1>3, <1>4, <2>1 DEF Trace
  <2>. QED
    BY <2>2 DEF StepOf
<1>. QED
  BY <1>1, <1>2, <1>4, <1>6, <1>7

-----------------------------------------------------------------------------
(* The chain of decorators.                                                *)

AnteStep(i, c, tx, call) ==
  IF c.ok THEN AnteHandle(AnteDecorators[i], c, tx, call) ELSE c
After(f, n, s, tx, call) ==
  f = [i \in 0 .. n |-> IF i = 0 THEN Context(s) ELSE AnteStep(i, f[i - 1], tx, call)]
\* What the decorators make of a transaction, one after another.
Chain(t, s, tx, call) ==
  t[0] = Context(s) /\ \A i \in 1 .. 13 : t[i] = AnteStep(i, t[i - 1], tx, call)

LEMMA ThirteenDecorators == Len(AnteDecorators) = 13
BY DEF AnteDecorators

LEMMA AfterExists ==
  ASSUME NEW n \in Nat, NEW s, NEW tx, NEW call
  PROVE  \E f : After(f, n, s, tx, call)
<1>. DEFINE P == {m \in Nat : \E f : After(f, m, s, tx, call)}
<1>1. 0 \in P
  <2>. DEFINE f == [i \in 0 .. 0 |-> Context(s)]
  <2>1. After(f, 0, s, tx, call)
    BY DEF After
  <2>. QED
    BY <2>1
<1>2. ASSUME NEW m \in 0 .. n, m \in P PROVE m + 1 \in P
  <2>1. PICK f : After(f, m, s, tx, call)
    BY <1>2
  <2>. m \in Nat
    OBVIOUS
  <2>. DEFINE Eq(h, i) == IF i = 0 THEN Context(s) ELSE AnteStep(i, h[i - 1], tx, call)
              h == [i \in 0 .. m + 1 |-> Eq(f, i)]
  <2>2. \A i \in 0 .. m : f[i] = Eq(f, i)
    BY <2>1 DEF After
  <2>3. \A i \in 0 .. m + 1 : h[i] = Eq(f, i)
    OBVIOUS
  <2>4. \A i \in 0 .. m : h[i] = f[i]
    BY <2>2, <2>3
  <2>5. \A i \in 0 .. m + 1 : Eq(f, i) = Eq(h, i)
    <3>. TAKE i \in 0 .. m + 1
    <3>1. CASE i = 0
      BY <3>1
    <3>2. CASE i # 0
      <4>1. i - 1 \in 0 .. m
        BY <3>2
      <4>2. h[i - 1] = f[i - 1]
        BY <2>4, <4>1
      <4>. HIDE DEF h
      <4>. QED
        BY <3>2, <4>2
    <3>. QED
      BY <3>1, <3>2
  <2>6. h = [i \in 0 .. m + 1 |-> Eq(h, i)]
    <3>1. \A i \in 0 .. m + 1 : h[i] = Eq(h, i)
      BY <2>3, <2>5
    <3>2. h = [i \in 0 .. m + 1 |-> h[i]]
      OBVIOUS
    <3>. HIDE DEF h
    <3>. QED
      BY <3>1, <3>2
  <2>7. After(h, m + 1, s, tx, call)
    BY <2>6 DEF After
  <2>. QED
    BY <2>7
<1>. HIDE DEF P
<1>3. n \in P
  BY <1>1, <1>2, AllUpTo
<1>. QED
  BY <1>3 DEF P

LEMMA AnteChain ==
  ASSUME NEW s, NEW tx, NEW call
  PROVE  \E t : Chain(t, s, tx, call) /\ AnteHandler(s, tx, call) = t[13]
<1>1. PICK f : f = CHOOSE g : After(g, Len(AnteDecorators), s, tx, call)
  OBVIOUS
<1>2. After(f, 13, s, tx, call)
  BY <1>1, ThirteenDecorators, AfterExists
<1>3. AnteHandler(s, tx, call) = f[13]
  BY <1>1, ThirteenDecorators DEF AnteHandler, After, AnteStep
<1>4. Chain(f, s, tx, call)
  <2>1. f[0] = Context(s)
    BY <1>2 DEF After
  <2>2. ASSUME NEW i \in 1 .. 13 PROVE f[i] = AnteStep(i, f[i - 1], tx, call)
    <3>1. i \in 0 .. 13 /\ i # 0
      OBVIOUS
    <3>. QED
      BY <1>2, <3>1 DEF After
  <2>. QED
    BY <2>1, <2>2 DEF Chain
<1>. QED
  BY <1>3, <1>4

LEMMA DecoratorsInOrder ==
  ASSUME NEW c, NEW tx, NEW call, c.ok
  PROVE  /\ AnteStep(1, c, tx, call) = SetUpContext(c, tx, call)
         /\ AnteStep(2, c, tx, call) = LimitSimulationGas(c, tx, call)
         /\ AnteStep(3, c, tx, call) = CountTX(c, tx, call)
         /\ AnteStep(4, c, tx, call) = CircuitBreaker(c, tx, call)
         /\ AnteStep(5, c, tx, call) = ValidateBasic(c, tx, call)
         /\ AnteStep(6, c, tx, call) = TxTimeoutHeight(c, tx, call)
         /\ AnteStep(7, c, tx, call) = ConsumeGasForTxSize(c, tx, call)
         /\ AnteStep(8, c, tx, call) = DeductFee(c, tx, call)
         /\ AnteStep(9, c, tx, call) = SetPubKey(c, tx, call)
         /\ AnteStep(10, c, tx, call) = SigGasConsume(c, tx, call)
         /\ AnteStep(11, c, tx, call) = SigVerification(c, tx, call)
         /\ AnteStep(12, c, tx, call) = IncrementSequence(c, tx, call)
         /\ AnteStep(13, c, tx, call) = RedundantRelay(c, tx, call)
<1>1. /\ AnteDecorators[1] = "SetUpContext" /\ AnteDecorators[2] = "LimitSimulationGas"
      /\ AnteDecorators[3] = "CountTX" /\ AnteDecorators[4] = "CircuitBreaker"
      /\ AnteDecorators[5] = "ValidateBasic" /\ AnteDecorators[6] = "TxTimeoutHeight"
      /\ AnteDecorators[7] = "ConsumeGasForTxSize" /\ AnteDecorators[8] = "DeductFee"
      /\ AnteDecorators[9] = "SetPubKey" /\ AnteDecorators[10] = "SigGasConsume"
      /\ AnteDecorators[11] = "SigVerification" /\ AnteDecorators[12] = "IncrementSequence"
      /\ AnteDecorators[13] = "RedundantRelay"
  BY DEF AnteDecorators
<1>. QED
  BY <1>1 DEF AnteStep, AnteHandle

\* A decorator that refuses ends the chain.
LEMMA AllAccept ==
  ASSUME NEW t, NEW s, NEW tx, NEW call, Chain(t, s, tx, call), t[13].ok
  PROVE  \A i \in 0 .. 13 : t[i].ok
<1>1. \A i \in 1 .. 13 : t[i].ok => t[i - 1].ok
  <2>. TAKE i \in 1 .. 13
  <2>1. t[i] = AnteStep(i, t[i - 1], tx, call)
    BY DEF Chain
  <2>. QED
    BY <2>1 DEF AnteStep
<1>2. t[12].ok
  BY <1>1
<1>3. t[11].ok
  BY <1>1, <1>2
<1>4. t[10].ok
  BY <1>1, <1>3
<1>5. t[9].ok
  BY <1>1, <1>4
<1>6. t[8].ok
  BY <1>1, <1>5
<1>7. t[7].ok
  BY <1>1, <1>6
<1>8. t[6].ok
  BY <1>1, <1>7
<1>9. t[5].ok
  BY <1>1, <1>8
<1>10. t[4].ok
  BY <1>1, <1>9
<1>11. t[3].ok
  BY <1>1, <1>10
<1>12. t[2].ok
  BY <1>1, <1>11
<1>13. t[1].ok
  BY <1>1, <1>12
<1>14. t[0].ok
  BY <1>1, <1>13
<1>. QED
  BY <1>2, <1>3, <1>4, <1>5, <1>6, <1>7, <1>8, <1>9, <1>10, <1>11, <1>12, <1>13, <1>14

-----------------------------------------------------------------------------
(* What a decorator does.                                                  *)

States ==
  [seq : [Accounts -> Nat], keyed : SUBSET Accounts, balance : [Accounts -> Nat],
   allowance : [Accounts \X Accounts -> Nat], collected : Nat,
   counted : [height : Nat, txs : Nat], disabled : SUBSET MsgKinds, received : BOOLEAN]
Contexts == [st : States, ok : BOOLEAN, gas : Nat, limit : Nat, tx : Int]
Modes == {"check", "recheck", "simulate", "deliver"}
Calls == [n : Nodes, mode : Modes, height : Nat]

Kept(c, d) == d.st = c.st /\ d.gas = c.gas /\ d.limit = c.limit /\ d.tx = c.tx

LEMMA TxFields ==
  ASSUME NEW tx \in Txs
  PROVE  /\ tx.signer \in Accounts /\ tx.granter \in Accounts \cup {None}
         /\ tx.seq \in Nat /\ tx.fee \in Nat /\ tx.gas \in Nat /\ tx.timeout \in Nat
         /\ tx.signed \in BOOLEAN /\ tx.basic \in BOOLEAN
         /\ tx.msgs \in Seq(MsgKinds) /\ tx.msgs # <<>>
         /\ Payer(tx) \in Accounts
BY AnteAssumption DEF TxRecords, Payer

LEMMA StateFields ==
  ASSUME NEW s \in States
  PROVE  /\ s.seq \in [Accounts -> Nat] /\ s.keyed \subseteq Accounts
         /\ s.balance \in [Accounts -> Nat] /\ s.allowance \in [Accounts \X Accounts -> Nat]
         /\ s.collected \in Nat /\ s.counted \in [height : Nat, txs : Nat]
         /\ s.disabled \subseteq MsgKinds /\ s.received \in BOOLEAN
BY DEF States

LEMMA ContextFields ==
  ASSUME NEW c \in Contexts
  PROVE  c.st \in States /\ c.ok \in BOOLEAN /\ c.gas \in Nat /\ c.limit \in Nat /\ c.tx \in Int
BY DEF Contexts

LEMMA RefuseIs ==
  ASSUME NEW c \in Contexts
  PROVE  Refuse(c) \in Contexts /\ Kept(c, Refuse(c)) /\ Refuse(c).ok = FALSE
BY DEF Refuse, Contexts, Kept

LEMMA ConsumeIs ==
  ASSUME NEW c \in Contexts, NEW units \in Nat
  PROVE  LET d == Consume(c, units) IN
         /\ d \in Contexts /\ d.st = c.st /\ d.limit = c.limit /\ d.tx = c.tx
         /\ d.gas = c.gas + units /\ (d.ok <=> c.gas + units <= c.limit /\ c.ok)
<1>. DEFINE d == [c EXCEPT !.gas = @ + units]
<1>1. /\ d \in Contexts /\ d.st = c.st /\ d.limit = c.limit /\ d.tx = c.tx
      /\ d.gas = c.gas + units /\ d.ok = c.ok
  BY DEF Contexts
<1>2. Consume(c, units) = IF c.gas + units <= c.limit THEN d ELSE Refuse(d)
  BY DEF Consume, Require
<1>. HIDE DEF d
<1>. QED
  BY <1>1, <1>2, RefuseIs DEF Kept

LEMMA SetUpContextIs ==
  ASSUME NEW c \in Contexts, NEW tx \in Txs, NEW call \in Calls
  PROVE  LET d == SetUpContext(c, tx, call) IN
         /\ d \in Contexts /\ d.st = c.st /\ d.tx = c.tx /\ d.gas = c.gas /\ d.ok = c.ok
         /\ d.limit = IF call.mode = "simulate" THEN Unlimited ELSE tx.gas
<1>1. tx.gas \in Nat /\ Unlimited \in Nat
  BY TxFields DEF Unlimited
<1>. QED
  BY <1>1 DEF SetUpContext, Contexts

LEMMA LimitSimulationGasIs ==
  ASSUME NEW c \in Contexts, NEW tx, NEW call \in Calls
  PROVE  LET d == LimitSimulationGas(c, tx, call) IN
         /\ d \in Contexts /\ d.st = c.st /\ d.tx = c.tx /\ d.gas = c.gas /\ d.ok = c.ok
         /\ call.mode # "simulate" => d.limit = c.limit
         /\ call.mode = "simulate" /\ SimulationGas[call.n] # None =>
              d.limit = SimulationGas[call.n]
<1>1. call.n \in Nodes /\ SimulationGas[call.n] \in Nat \cup {None}
  BY AnteAssumption DEF Calls
<1>. QED
  BY <1>1 DEF LimitSimulationGas, Contexts

\* The number a transaction gets, and the counter it leaves.
Number(s, call) == IF s.counted.height = call.height THEN s.counted.txs ELSE 0

LEMMA CountTXIs ==
  ASSUME NEW c \in Contexts, NEW tx, NEW call \in Calls
  PROVE  LET d == CountTX(c, tx, call) IN
         /\ d \in Contexts /\ d.gas = c.gas /\ d.limit = c.limit /\ d.ok = c.ok
         /\ call.mode = "simulate" => d = c
         /\ call.mode # "simulate" =>
              /\ d.tx = Number(c.st, call)
              /\ d.st = [c.st EXCEPT !.counted = [height |-> call.height,
                                                  txs |-> Number(c.st, call) + 1]]
<1>. DEFINE n == Number(c.st, call)
            counted == [height |-> call.height, txs |-> n + 1]
<1>1. c.st \in States /\ n \in Nat /\ call.height \in Nat
  BY ContextFields, StateFields DEF Number, Calls
<1>2. counted \in [height : Nat, txs : Nat]
  BY <1>1
<1>3. CASE call.mode = "simulate"
  BY <1>3 DEF CountTX
<1>4. CASE call.mode # "simulate"
  <2>. DEFINE st == [c.st EXCEPT !.counted = counted]
              d == [c EXCEPT !.tx = n, !.st.counted = counted]
  <2>1. CountTX(c, tx, call) = d
    BY <1>4 DEF CountTX, Number
  <2>. HIDE DEF n, counted
  <2>2. st \in States
    BY <1>1, <1>2 DEF States
  <2>3. d.st = st /\ d.tx = n /\ d.gas = c.gas /\ d.limit = c.limit /\ d.ok = c.ok
    BY DEF Contexts
  <2>. HIDE DEF st
  <2>4. d \in Contexts
    <3>1. d = [c EXCEPT !.tx = n, !.st = st]
      BY DEF st
    <3>2. n \in Int /\ st \in States
      BY <1>1, <2>2
    <3>3. [c EXCEPT !.tx = n, !.st = st] \in Contexts
      BY <3>2 DEF Contexts
    <3>. HIDE DEF d
    <3>. QED
      BY <3>1, <3>3
  <2>. HIDE DEF d
  <2>. QED
    BY <1>4, <2>1, <2>3, <2>4 DEF n, counted, st
<1>. QED
  BY <1>3, <1>4

\* These four look at the state and change nothing in it.
LEMMA CircuitBreakerIs ==
  ASSUME NEW c \in Contexts, NEW tx, NEW call
  PROVE  LET d == CircuitBreaker(c, tx, call) IN
         /\ d \in Contexts /\ Kept(c, d)
         /\ d.ok <=> c.ok /\ Range(tx.msgs) \cap c.st.disabled = {}
BY RefuseIs DEF CircuitBreaker, Require, Kept

LEMMA ValidateBasicIs ==
  ASSUME NEW c \in Contexts, NEW tx, NEW call
  PROVE  LET d == ValidateBasic(c, tx, call) IN
         /\ d \in Contexts /\ Kept(c, d)
         /\ d.ok <=> c.ok /\ (call.mode = "recheck" \/ tx.basic)
BY RefuseIs DEF ValidateBasic, Require, Kept

LEMMA TxTimeoutHeightIs ==
  ASSUME NEW c \in Contexts, NEW tx, NEW call
  PROVE  LET d == TxTimeoutHeight(c, tx, call) IN
         /\ d \in Contexts /\ Kept(c, d)
         /\ d.ok <=> c.ok /\ (tx.timeout = 0 \/ call.height <= tx.timeout)
BY RefuseIs DEF TxTimeoutHeight, Require, Kept

LEMMA SigVerificationIs ==
  ASSUME NEW c \in Contexts, NEW tx, NEW call
  PROVE  LET d == SigVerification(c, tx, call) IN
         /\ d \in Contexts /\ Kept(c, d)
         /\ d.ok <=> /\ c.ok /\ tx.seq = c.st.seq[tx.signer]
                     /\ \/ call.mode \in {"simulate", "recheck"}
                        \/ tx.signed /\ tx.signer \in c.st.keyed
BY RefuseIs DEF SigVerification, Require, Kept

LEMMA ConsumeGasForTxSizeIs ==
  ASSUME NEW c \in Contexts, NEW tx, NEW call
  PROVE  LET d == ConsumeGasForTxSize(c, tx, call) IN
         /\ d \in Contexts /\ d.st = c.st /\ d.limit = c.limit /\ d.tx = c.tx
         /\ d.gas = c.gas + SizeGas /\ (d.ok <=> c.gas + SizeGas <= c.limit /\ c.ok)
<1>1. SizeGas \in Nat
  BY DEF SizeGas
<1>. QED
  BY <1>1, ConsumeIs DEF ConsumeGasForTxSize

LEMMA SigGasConsumeIs ==
  ASSUME NEW c \in Contexts, NEW tx, NEW call
  PROVE  LET d == SigGasConsume(c, tx, call) IN
         /\ d \in Contexts /\ d.st = c.st /\ d.limit = c.limit /\ d.tx = c.tx
         /\ d.gas = c.gas + SigGas
         /\ d.ok <=> /\ c.gas + SigGas <= c.limit /\ c.ok
                     /\ tx.signer \in c.st.keyed \/ call.mode = "simulate"
<1>. DEFINE e == Consume(c, SigGas)
<1>1. SigGas \in Nat
  BY DEF SigGas
<1>2. /\ e \in Contexts /\ e.st = c.st /\ e.limit = c.limit /\ e.tx = c.tx
      /\ e.gas = c.gas + SigGas /\ (e.ok <=> c.gas + SigGas <= c.limit /\ c.ok)
  BY <1>1, ConsumeIs
<1>3. SigGasConsume(c, tx, call)
        = IF tx.signer \in c.st.keyed \/ call.mode = "simulate" THEN e ELSE Refuse(e)
  BY DEF SigGasConsume, Require
<1>. HIDE DEF e
<1>. QED
  BY <1>2, <1>3, RefuseIs DEF Kept

\* These change the state only.
LEMMA WithState ==
  ASSUME NEW c \in Contexts, NEW st \in States
  PROVE  LET d == [c EXCEPT !.st = st] IN
         /\ d \in Contexts /\ d.st = st /\ d.ok = c.ok
         /\ d.gas = c.gas /\ d.limit = c.limit /\ d.tx = c.tx
BY DEF Contexts

Changed(c, d, st) ==
  d.st = st /\ d.ok = c.ok /\ d.gas = c.gas /\ d.limit = c.limit /\ d.tx = c.tx

WithKey(s, tx) == [s EXCEPT !.keyed = @ \cup {tx.signer}]
LEMMA SetPubKeyIs ==
  ASSUME NEW c \in Contexts, NEW tx \in Txs, NEW call
  PROVE  LET d == SetPubKey(c, tx, call) IN
         d \in Contexts /\ Changed(c, d, WithKey(c.st, tx)) /\ WithKey(c.st, tx) \in States
<1>1. c.st \in States /\ tx.signer \in Accounts
  BY ContextFields, TxFields
<1>2. WithKey(c.st, tx) \in States
  BY <1>1 DEF WithKey, States
<1>3. PICK s : s = WithKey(c.st, tx)
  OBVIOUS
<1>4. PICK d : d = [c EXCEPT !.st = s]
  OBVIOUS
<1>5. SetPubKey(c, tx, call) = d
  BY <1>3, <1>4 DEF SetPubKey, WithKey
<1>6. d \in Contexts /\ Changed(c, d, s)
  BY <1>2, <1>3, <1>4, WithState DEF Changed
<1>. QED
  BY <1>2, <1>3, <1>5, <1>6

NextSequence(s, tx) == [s EXCEPT !.seq[tx.signer] = @ + 1]
LEMMA IncrementSequenceIs ==
  ASSUME NEW c \in Contexts, NEW tx \in Txs, NEW call
  PROVE  LET d == IncrementSequence(c, tx, call) IN
         d \in Contexts /\ Changed(c, d, NextSequence(c.st, tx)) /\ NextSequence(c.st, tx) \in States
<1>1. c.st \in States /\ tx.signer \in Accounts
  BY ContextFields, TxFields
<1>2. NextSequence(c.st, tx) \in States
  <2>1. PICK seq : seq = [c.st.seq EXCEPT ![tx.signer] = @ + 1]
    OBVIOUS
  <2>2. seq \in [Accounts -> Nat]
    BY <1>1, <2>1, StateFields
  <2>3. NextSequence(c.st, tx) = [c.st EXCEPT !.seq = seq]
    BY <2>1 DEF NextSequence
  <2>. QED
    BY <1>1, <2>2, <2>3 DEF States
<1>3. PICK s : s = NextSequence(c.st, tx)
  OBVIOUS
<1>4. PICK d : d = [c EXCEPT !.st = s]
  OBVIOUS
<1>5. IncrementSequence(c, tx, call) = d
  BY <1>3, <1>4 DEF IncrementSequence, NextSequence
<1>6. d \in Contexts /\ Changed(c, d, s)
  BY <1>2, <1>3, <1>4, WithState DEF Changed
<1>. QED
  BY <1>2, <1>3, <1>5, <1>6

Received(s) == [s EXCEPT !.received = TRUE]
LEMMA ReceivedIs ==
  ASSUME NEW c \in Contexts
  PROVE  LET d == [c EXCEPT !.st.received = TRUE] IN
         d \in Contexts /\ Changed(c, d, Received(c.st)) /\ Received(c.st) \in States
<1>1. c.st \in States
  BY ContextFields
<1>2. Received(c.st) \in States
  BY <1>1 DEF Received, States
<1>3. PICK s : s = Received(c.st)
  OBVIOUS
<1>4. PICK d : d = [c EXCEPT !.st = s]
  OBVIOUS
<1>5. [c EXCEPT !.st.received = TRUE] = d
  BY <1>3, <1>4 DEF Received
<1>6. d \in Contexts /\ Changed(c, d, s)
  BY <1>2, <1>3, <1>4, WithState DEF Changed
<1>. QED
  BY <1>2, <1>3, <1>5, <1>6

InMempool(call) == call.mode \in {"check", "recheck"}
LEMMA RedundantRelayIs ==
  ASSUME NEW c \in Contexts, NEW tx, NEW call
  PROVE  LET d == RedundantRelay(c, tx, call)
             relay == InMempool(call) /\ Head(tx.msgs) = "recv" IN
         /\ d \in Contexts /\ d.gas = c.gas /\ d.limit = c.limit /\ d.tx = c.tx
         /\ d.st = (IF relay THEN Received(c.st) ELSE c.st) /\ d.st \in States
         /\ d.ok <=> c.ok /\ ~(relay /\ OnlyRelays(tx) /\ c.st.received)
<1>. DEFINE e == [c EXCEPT !.st.received = TRUE]
<1>1. e \in Contexts /\ Changed(c, e, Received(c.st)) /\ Received(c.st) \in States
  BY ReceivedIs
<1>2. RedundantRelay(c, tx, call)
        = IF InMempool(call) /\ Head(tx.msgs) = "recv"
          THEN IF OnlyRelays(tx) /\ c.st.received THEN Refuse(e) ELSE e
          ELSE c
  BY DEF RedundantRelay, Require, InMempool
<1>. HIDE DEF e
<1>. QED
  BY <1>1, <1>2, RefuseIs, ContextFields DEF Kept, Changed

\* The fee.
Payable(s, tx, call) ==
  /\ call.mode = "simulate" \/ tx.gas > 0
  /\ call.mode \in {"check", "recheck"} => tx.fee >= MinFee[call.n]
  /\ Granted(s, tx)
  /\ s.balance[Payer(tx)] >= tx.fee
Rest(s, tx) == [s.balance EXCEPT ![Payer(tx)] = @ - tx.fee]
Deducted(s, tx) ==
  [s EXCEPT !.balance = Rest(s, tx), !.collected = @ + tx.fee, !.allowance = Spent(s, tx)]

LEMMA DeductedIs ==
  ASSUME NEW s \in States, NEW tx \in Txs, Granted(s, tx), s.balance[Payer(tx)] >= tx.fee
  PROVE  /\ Deducted(s, tx) \in States
         /\ Deducted(s, tx).collected = s.collected + tx.fee
         /\ Deducted(s, tx).seq = s.seq /\ Deducted(s, tx).keyed = s.keyed
         /\ Deducted(s, tx).counted = s.counted /\ Deducted(s, tx).disabled = s.disabled
         /\ Deducted(s, tx).received = s.received
<1>1. /\ Payer(tx) \in Accounts /\ tx.fee \in Nat /\ tx.signer \in Accounts
      /\ tx.granter \in Accounts \cup {None}
  BY TxFields
<1>2. Rest(s, tx) \in [Accounts -> Nat]
  BY <1>1, StateFields DEF Rest
<1>3. Spent(s, tx) \in [Accounts \X Accounts -> Nat]
  <2>1. CASE tx.granter \in {None, tx.signer}
    BY <2>1, StateFields DEF Spent
  <2>2. CASE tx.granter \notin {None, tx.signer}
    <3>1. PICK x : x = <<tx.granter, tx.signer>>
      OBVIOUS
    <3>2. x \in Accounts \X Accounts /\ s.allowance[x] >= tx.fee
      BY <1>1, <2>2, <3>1 DEF Granted
    <3>3. Spent(s, tx) = [s.allowance EXCEPT ![x] = @ - tx.fee]
      BY <2>2, <3>1 DEF Spent
    <3>. QED
      BY <1>1, <3>2, <3>3, StateFields
  <2>. QED
    BY <2>1, <2>2
<1>4. PICK d : d = Deducted(s, tx)
  OBVIOUS
<1>5. d = [s EXCEPT !.balance = Rest(s, tx), !.collected = @ + tx.fee, !.allowance = Spent(s, tx)]
  BY <1>4 DEF Deducted
<1>6. s.collected + tx.fee \in Nat
  BY <1>1, StateFields
<1>7. d \in States
  BY <1>2, <1>3, <1>5, <1>6 DEF States
<1>8. /\ d.collected = s.collected + tx.fee /\ d.seq = s.seq /\ d.keyed = s.keyed
      /\ d.counted = s.counted /\ d.disabled = s.disabled /\ d.received = s.received
  BY <1>5 DEF States
<1>. QED
  BY <1>4, <1>7, <1>8

LEMMA DeductFeeIs ==
  ASSUME NEW c \in Contexts, NEW tx \in Txs, NEW call
  PROVE  LET d == DeductFee(c, tx, call) IN
         IF Payable(c.st, tx, call)
         THEN d \in Contexts /\ Changed(c, d, Deducted(c.st, tx))
         ELSE d.ok = FALSE
<1>1. CASE ~Payable(c.st, tx, call)
  <2>1. DeductFee(c, tx, call) = Refuse(c)
    BY <1>1 DEF DeductFee, Payable
  <2>. QED
    BY <1>1, <2>1, RefuseIs
<1>2. CASE Payable(c.st, tx, call)
  <2>1. DeductFee(c, tx, call) = [c EXCEPT !.st = Deducted(c.st, tx)]
    BY <1>2 DEF DeductFee, Payable, Deducted, Rest
  <2>2. Deducted(c.st, tx) \in States
    BY <1>2, ContextFields, DeductedIs DEF Payable
  <2>. QED
    BY <1>2, <2>1, <2>2, WithState DEF Changed
<1>. QED
  BY <1>1, <1>2

-----------------------------------------------------------------------------
(* What the handler does: one charge, or nothing.                          *)

LEMMA Steps ==
  ASSUME NEW t, NEW s, NEW tx, NEW call, Chain(t, s, tx, call)
  PROVE  /\ t[0] = Context(s)
         /\ t[0].ok => t[1] = SetUpContext(t[0], tx, call)
         /\ t[1].ok => t[2] = LimitSimulationGas(t[1], tx, call)
         /\ t[2].ok => t[3] = CountTX(t[2], tx, call)
         /\ t[3].ok => t[4] = CircuitBreaker(t[3], tx, call)
         /\ t[4].ok => t[5] = ValidateBasic(t[4], tx, call)
         /\ t[5].ok => t[6] = TxTimeoutHeight(t[5], tx, call)
         /\ t[6].ok => t[7] = ConsumeGasForTxSize(t[6], tx, call)
         /\ t[7].ok => t[8] = DeductFee(t[7], tx, call)
         /\ t[8].ok => t[9] = SetPubKey(t[8], tx, call)
         /\ t[9].ok => t[10] = SigGasConsume(t[9], tx, call)
         /\ t[10].ok => t[11] = SigVerification(t[10], tx, call)
         /\ t[11].ok => t[12] = IncrementSequence(t[11], tx, call)
         /\ t[12].ok => t[13] = RedundantRelay(t[12], tx, call)
<1>1. t[0].ok => t[1] = SetUpContext(t[0], tx, call)
  <2>1. t[1] = AnteStep(1, t[0], tx, call)
    BY DEF Chain
  <2>. QED
    BY <2>1, DecoratorsInOrder
<1>2. t[1].ok => t[2] = LimitSimulationGas(t[1], tx, call)
  <2>1. t[2] = AnteStep(2, t[1], tx, call)
    BY DEF Chain
  <2>. QED
    BY <2>1, DecoratorsInOrder
<1>3. t[2].ok => t[3] = CountTX(t[2], tx, call)
  <2>1. t[3] = AnteStep(3, t[2], tx, call)
    BY DEF Chain
  <2>. QED
    BY <2>1, DecoratorsInOrder
<1>4. t[3].ok => t[4] = CircuitBreaker(t[3], tx, call)
  <2>1. t[4] = AnteStep(4, t[3], tx, call)
    BY DEF Chain
  <2>. QED
    BY <2>1, DecoratorsInOrder
<1>5. t[4].ok => t[5] = ValidateBasic(t[4], tx, call)
  <2>1. t[5] = AnteStep(5, t[4], tx, call)
    BY DEF Chain
  <2>. QED
    BY <2>1, DecoratorsInOrder
<1>6. t[5].ok => t[6] = TxTimeoutHeight(t[5], tx, call)
  <2>1. t[6] = AnteStep(6, t[5], tx, call)
    BY DEF Chain
  <2>. QED
    BY <2>1, DecoratorsInOrder
<1>7. t[6].ok => t[7] = ConsumeGasForTxSize(t[6], tx, call)
  <2>1. t[7] = AnteStep(7, t[6], tx, call)
    BY DEF Chain
  <2>. QED
    BY <2>1, DecoratorsInOrder
<1>8. t[7].ok => t[8] = DeductFee(t[7], tx, call)
  <2>1. t[8] = AnteStep(8, t[7], tx, call)
    BY DEF Chain
  <2>. QED
    BY <2>1, DecoratorsInOrder
<1>9. t[8].ok => t[9] = SetPubKey(t[8], tx, call)
  <2>1. t[9] = AnteStep(9, t[8], tx, call)
    BY DEF Chain
  <2>. QED
    BY <2>1, DecoratorsInOrder
<1>10. t[9].ok => t[10] = SigGasConsume(t[9], tx, call)
  <2>1. t[10] = AnteStep(10, t[9], tx, call)
    BY DEF Chain
  <2>. QED
    BY <2>1, DecoratorsInOrder
<1>11. t[10].ok => t[11] = SigVerification(t[10], tx, call)
  <2>1. t[11] = AnteStep(11, t[10], tx, call)
    BY DEF Chain
  <2>. QED
    BY <2>1, DecoratorsInOrder
<1>12. t[11].ok => t[12] = IncrementSequence(t[11], tx, call)
  <2>1. t[12] = AnteStep(12, t[11], tx, call)
    BY DEF Chain
  <2>. QED
    BY <2>1, DecoratorsInOrder
<1>13. t[12].ok => t[13] = RedundantRelay(t[12], tx, call)
  <2>1. t[13] = AnteStep(13, t[12], tx, call)
    BY DEF Chain
  <2>. QED
    BY <2>1, DecoratorsInOrder
<1>. QED
  BY <1>1, <1>2, <1>3, <1>4, <1>5, <1>6, <1>7,
     <1>8, <1>9, <1>10, <1>11, <1>12, <1>13 DEF Chain

\* What is true of an accepted transaction, and of what the handler leaves.
Charge(s, a, tx, call) ==
  /\ a \in Contexts
  /\ tx.seq = s.seq[tx.signer] /\ a.st.seq = [s.seq EXCEPT ![tx.signer] = @ + 1]
  /\ a.st.collected = s.collected + tx.fee
  /\ a.st.disabled = s.disabled /\ Range(tx.msgs) \cap s.disabled = {}
  /\ call.mode # "simulate" =>
       /\ a.tx = Number(s, call)
       /\ a.st.counted = [height |-> call.height, txs |-> Number(s, call) + 1]
  /\ call.mode \in {"check", "deliver"} => tx.signed
  /\ s.received => a.st.received
  /\ InMempool(call) /\ OnlyRelays(tx) => ~s.received /\ a.st.received
  /\ a.gas <= a.limit
  /\ call.mode = "simulate" /\ SimulationGas[call.n] # None => a.limit = SimulationGas[call.n]

LEMMA OnlyRelaysFirst ==
  ASSUME NEW tx \in Txs, OnlyRelays(tx)
  PROVE  Head(tx.msgs) = "recv"
<1>1. PICK msgs : msgs = tx.msgs
  OBVIOUS
<1>2. msgs \in Seq(MsgKinds) /\ msgs # <<>>
  BY <1>1, TxFields
<1>3. 1 \in DOMAIN msgs /\ Head(msgs) = msgs[1]
  BY <1>2
<1>. QED
  BY <1>1, <1>3 DEF OnlyRelays, Range

LEMMA ContextIs ==
  ASSUME NEW s \in States
  PROVE  LET c == Context(s) IN
         c \in Contexts /\ c.ok /\ c.st = s /\ c.gas = 0 /\ c.limit = Unlimited
BY DEF Context, Contexts, Unlimited

LEMMA Accepted ==
  ASSUME NEW s \in States, NEW tx \in Txs, NEW call \in Calls,
         AnteHandler(s, tx, call).ok
  PROVE  Charge(s, AnteHandler(s, tx, call), tx, call)
<1>1. PICK t : Chain(t, s, tx, call) /\ AnteHandler(s, tx, call) = t[13]
  BY AnteChain
<1>2. \A i \in 0 .. 13 : t[i].ok
  BY <1>1, AllAccept
<1>3. /\ t[0] = Context(s)
      /\ t[1] = SetUpContext(t[0], tx, call)
      /\ t[2] = LimitSimulationGas(t[1], tx, call)
      /\ t[3] = CountTX(t[2], tx, call)
      /\ t[4] = CircuitBreaker(t[3], tx, call)
      /\ t[5] = ValidateBasic(t[4], tx, call)
      /\ t[6] = TxTimeoutHeight(t[5], tx, call)
      /\ t[7] = ConsumeGasForTxSize(t[6], tx, call)
      /\ t[8] = DeductFee(t[7], tx, call)
      /\ t[9] = SetPubKey(t[8], tx, call)
      /\ t[10] = SigGasConsume(t[9], tx, call)
      /\ t[11] = SigVerification(t[10], tx, call)
      /\ t[12] = IncrementSequence(t[11], tx, call)
      /\ t[13] = RedundantRelay(t[12], tx, call)
  BY <1>1, <1>2, Steps
<1>4. t[0] \in Contexts /\ t[0].st = s /\ t[0].gas = 0
  BY <1>3, ContextIs
<1>5. t[1] \in Contexts /\ t[1].st = s /\ t[1].gas = 0
  BY <1>3, <1>4, SetUpContextIs
<1>6. /\ t[2] \in Contexts /\ t[2].st = s /\ t[2].gas = 0
      /\ call.mode = "simulate" /\ SimulationGas[call.n] # None => t[2].limit = SimulationGas[call.n]
  BY <1>3, <1>5, LimitSimulationGasIs
<1>7. /\ t[3] \in Contexts /\ t[3].gas = 0 /\ t[3].limit = t[2].limit
      /\ call.mode # "simulate" =>
           /\ t[3].tx = Number(s, call)
           /\ t[3].st.counted = [height |-> call.height, txs |-> Number(s, call) + 1]
      /\ t[3].st.seq = s.seq /\ t[3].st.collected = s.collected
      /\ t[3].st.disabled = s.disabled /\ t[3].st.received = s.received
  <2>1. t[3] = CountTX(t[2], tx, call)
    BY <1>3
  <2>2. /\ t[3] \in Contexts /\ t[3].gas = t[2].gas /\ t[3].limit = t[2].limit
        /\ call.mode = "simulate" => t[3] = t[2]
        /\ call.mode # "simulate" =>
             /\ t[3].tx = Number(t[2].st, call)
             /\ t[3].st = [t[2].st EXCEPT !.counted = [height |-> call.height,
                                                      txs |-> Number(t[2].st, call) + 1]]
    BY <1>6, <2>1, CountTXIs
  <2>. QED
    BY <1>6, <2>2 DEF States
<1>8. t[4] \in Contexts /\ Kept(t[3], t[4]) /\ Range(tx.msgs) \cap t[3].st.disabled = {}
  BY <1>2, <1>3, <1>7, CircuitBreakerIs
<1>9. t[5] \in Contexts /\ Kept(t[4], t[5])
  BY <1>3, <1>8, ValidateBasicIs
<1>10. t[6] \in Contexts /\ Kept(t[5], t[6])
  BY <1>3, <1>9, TxTimeoutHeightIs
<1>11. t[6].st = t[3].st /\ t[6].limit = t[3].limit /\ t[6].tx = t[3].tx
  BY <1>8, <1>9, <1>10 DEF Kept
<1>12. t[7] \in Contexts /\ t[7].st = t[3].st /\ t[7].limit = t[3].limit /\ t[7].tx = t[3].tx
  BY <1>3, <1>10, <1>11, ConsumeGasForTxSizeIs
<1>13. /\ t[8] \in Contexts /\ Payable(t[7].st, tx, call)
       /\ Changed(t[7], t[8], Deducted(t[7].st, tx))
  <2>1. t[8] = DeductFee(t[7], tx, call) /\ t[8].ok
    BY <1>2, <1>3
  <2>2. IF Payable(t[7].st, tx, call)
        THEN t[8] \in Contexts /\ Changed(t[7], t[8], Deducted(t[7].st, tx))
        ELSE t[8].ok = FALSE
    BY <1>12, <2>1, DeductFeeIs
  <2>. QED
    BY <2>1, <2>2
<1>14. /\ t[8].st.collected = s.collected + tx.fee
       /\ t[8].st.seq = s.seq /\ t[8].st.counted = t[3].st.counted
       /\ t[8].st.disabled = s.disabled /\ t[8].st.received = s.received
  <2>1. t[7].st \in States /\ Granted(t[7].st, tx) /\ t[7].st.balance[Payer(tx)] >= tx.fee
    BY <1>12, <1>13, ContextFields DEF Payable
  <2>. QED
    BY <1>7, <1>12, <1>13, <2>1, DeductedIs DEF Changed
<1>15. t[9] \in Contexts /\ Changed(t[8], t[9], WithKey(t[8].st, tx))
  BY <1>3, <1>13, SetPubKeyIs
<1>16. /\ t[9].st.collected = s.collected + tx.fee
       /\ t[9].st.seq = s.seq /\ t[9].st.counted = t[3].st.counted
       /\ t[9].st.disabled = s.disabled /\ t[9].st.received = s.received
  <2>1. t[8].st \in States
    BY <1>13, ContextFields
  <2>. QED
    BY <1>14, <1>15, <2>1 DEF Changed, WithKey, States
<1>17. /\ t[10] \in Contexts /\ t[10].st = t[9].st /\ t[10].limit = t[9].limit
       /\ t[10].tx = t[9].tx /\ t[10].gas = t[9].gas + SigGas /\ t[9].gas + SigGas <= t[9].limit
  BY <1>2, <1>3, <1>15, SigGasConsumeIs
<1>18. /\ t[11] \in Contexts /\ Kept(t[10], t[11]) /\ tx.seq = t[10].st.seq[tx.signer]
       /\ call.mode \in {"simulate", "recheck"} \/ tx.signed
  BY <1>2, <1>3, <1>17, SigVerificationIs
<1>19. t[12] \in Contexts /\ Changed(t[11], t[12], NextSequence(t[11].st, tx))
  BY <1>3, <1>18, IncrementSequenceIs
<1>20. /\ t[12].st.collected = s.collected + tx.fee
       /\ t[12].st.seq = [s.seq EXCEPT ![tx.signer] = @ + 1] /\ t[12].st.counted = t[3].st.counted
       /\ t[12].st.disabled = s.disabled /\ t[12].st.received = s.received
  <2>1. t[11].st \in States /\ t[11].st = t[9].st
    BY <1>17, <1>18, ContextFields DEF Kept
  <2>. QED
    BY <1>16, <1>19, <2>1 DEF Changed, NextSequence, States
<1>21. /\ t[13] \in Contexts /\ t[13].gas = t[12].gas /\ t[13].limit = t[12].limit
       /\ t[13].tx = t[12].tx
       /\ t[13].st = (IF InMempool(call) /\ Head(tx.msgs) = "recv"
                      THEN Received(t[12].st) ELSE t[12].st)
       /\ ~(InMempool(call) /\ Head(tx.msgs) = "recv" /\ OnlyRelays(tx) /\ t[12].st.received)
  BY <1>2, <1>3, <1>19, RedundantRelayIs
<1>22. /\ t[13].gas <= t[13].limit /\ t[13].limit = t[2].limit /\ t[13].tx = t[3].tx
  BY <1>7, <1>12, <1>13, <1>15, <1>17, <1>18, <1>19, <1>21 DEF Changed, Kept
<1>23. /\ t[13].st.collected = s.collected + tx.fee
       /\ t[13].st.seq = [s.seq EXCEPT ![tx.signer] = @ + 1] /\ t[13].st.counted = t[3].st.counted
       /\ t[13].st.disabled = s.disabled /\ (s.received => t[13].st.received)
       /\ InMempool(call) /\ OnlyRelays(tx) => ~s.received /\ t[13].st.received
  <2>1. t[12].st \in States
    BY <1>19, ContextFields
  <2>. QED
    BY <1>20, <1>21, <2>1, OnlyRelaysFirst DEF Received, States
<1>24. tx.seq = s.seq[tx.signer] /\ Range(tx.msgs) \cap s.disabled = {}
  BY <1>7, <1>8, <1>16, <1>17, <1>18
<1>. QED
  BY <1>1, <1>6, <1>7, <1>18, <1>21, <1>22, <1>23, <1>24 DEF Charge

-----------------------------------------------------------------------------
(* What the messages do: nothing to the sequences, the fees, the counter.  *)

Untouched(s, u) == u.seq = s.seq /\ u.collected = s.collected /\ u.counted = s.counted

LEMMA HandleMsgIs ==
  ASSUME NEW c \in Contexts, NEW tx \in Txs, NEW msg \in MsgKinds
  PROVE  LET d == HandleMsg(c, msg, tx) IN
         /\ d \in Contexts /\ d.limit = c.limit /\ Untouched(c.st, d.st)
         /\ d.ok => d.gas <= d.limit
<1>. DEFINE d == Consume(c, GasOf(msg))
            stop == ~c.ok \/ ~d.ok \/ msg \in c.st.disabled \/ msg = "fail"
<1>1. GasOf(msg) \in Nat
  BY DEF GasOf
<1>2. /\ d \in Contexts /\ d.st = c.st /\ d.limit = c.limit
      /\ d.ok => d.gas <= d.limit
  BY <1>1, ConsumeIs
<1>3. c.st \in States /\ tx.signer \in Accounts
  BY ContextFields, TxFields
<1>4. CASE stop
  <2>1. HandleMsg(c, msg, tx) = Refuse(d)
    BY <1>4 DEF HandleMsg
  <2>. HIDE DEF d
  <2>. QED
    BY <1>2, <2>1, RefuseIs DEF Kept, Untouched
<1>5. CASE ~stop /\ msg = "send"
  <2>1. HandleMsg(c, msg, tx) = IF c.st.balance[tx.signer] = 0 THEN Refuse(d)
                                ELSE [d EXCEPT !.st.balance[tx.signer] = @ - 1]
    BY <1>5 DEF HandleMsg
  <2>. HIDE DEF d, stop
  <2>2. CASE c.st.balance[tx.signer] = 0
    <3>1. HandleMsg(c, msg, tx) = Refuse(d)
      BY <2>1, <2>2
    <3>2. Refuse(d) \in Contexts /\ Kept(d, Refuse(d)) /\ Refuse(d).ok = FALSE
      BY <1>2, RefuseIs
    <3>. QED
      BY <1>2, <3>1, <3>2 DEF Kept, Untouched
  <2>3. CASE c.st.balance[tx.signer] # 0
    <3>1. PICK balance : balance = [d.st.balance EXCEPT ![tx.signer] = @ - 1]
      OBVIOUS
    <3>2. balance \in [Accounts -> Nat]
      <4>1. d.st.balance \in [Accounts -> Nat] /\ d.st.balance[tx.signer] # 0
        BY <1>2, <1>3, <2>3, StateFields
      <4>2. d.st.balance[tx.signer] - 1 \in Nat
        BY <1>3, <4>1
      <4>. QED
        BY <1>3, <3>1, <4>1, <4>2
    <3>3. PICK st : st = [d.st EXCEPT !.balance = balance]
      OBVIOUS
    <3>4. st \in States /\ Untouched(c.st, st)
      BY <1>2, <1>3, <3>2, <3>3 DEF States, Untouched
    <3>5. HandleMsg(c, msg, tx) = [d EXCEPT !.st = st]
      BY <2>1, <2>3, <3>1, <3>3
    <3>. QED
      BY <1>2, <3>4, <3>5, WithState
  <2>. QED
    BY <2>2, <2>3
<1>6. CASE ~stop /\ msg = "trip"
  <2>1. HandleMsg(c, msg, tx) = [d EXCEPT !.st.disabled = @ \cup {"send"}]
    BY <1>6 DEF HandleMsg
  <2>. HIDE DEF d, stop
  <2>2. PICK st : st = [d.st EXCEPT !.disabled = @ \cup {"send"}]
    OBVIOUS
  <2>3. st \in States /\ Untouched(c.st, st)
    BY <1>2, <1>3, <2>2 DEF States, Untouched, MsgKinds
  <2>4. HandleMsg(c, msg, tx) = [d EXCEPT !.st = st]
    BY <2>1, <2>2
  <2>. QED
    BY <1>2, <2>3, <2>4, WithState
<1>7. CASE ~stop /\ msg = "recv"
  <2>1. HandleMsg(c, msg, tx) = [d EXCEPT !.st.received = TRUE]
    BY <1>7 DEF HandleMsg
  <2>. HIDE DEF d, stop
  <2>2. /\ HandleMsg(c, msg, tx) \in Contexts
        /\ Changed(d, HandleMsg(c, msg, tx), Received(d.st))
    BY <1>2, <2>1, ReceivedIs
  <2>3. Untouched(c.st, Received(d.st))
    BY <1>2, <1>3 DEF Untouched, Received, States
  <2>. QED
    BY <1>2, <2>2, <2>3 DEF Changed
<1>8. CASE ~stop /\ msg = "heavy"
  <2>1. HandleMsg(c, msg, tx) = d
    BY <1>8 DEF HandleMsg
  <2>. HIDE DEF d, stop
  <2>. QED
    BY <1>2, <2>1 DEF Untouched
<1>. QED
  BY <1>4, <1>5, <1>6, <1>7, <1>8 DEF MsgKinds

LEMMA RunMsgsIs ==
  ASSUME NEW a \in Contexts, NEW tx \in Txs, a.gas <= a.limit
  PROVE  LET r == RunMsgs(a, tx) IN
         /\ r \in Contexts /\ r.limit = a.limit /\ Untouched(a.st, r.st)
         /\ r.ok => r.gas <= r.limit
<1>1. PICK msgs : msgs = tx.msgs
  OBVIOUS
<1>2. msgs \in Seq(MsgKinds) /\ Len(msgs) \in Nat
  BY <1>1, TxFields
<1>3. PICK t : Trace(t, "msgs", tx, a, msgs) /\ RunMsgs(a, tx) = t[Len(msgs)]
  BY <1>1, <1>2, RunMsgsTrace
<1>. DEFINE Good(c) == /\ c \in Contexts /\ c.limit = a.limit /\ Untouched(a.st, c.st)
                       /\ c.ok => c.gas <= c.limit
            P == {i \in 0 .. Len(msgs) : Good(t[i])}
<1>4. 0 \in P
  BY <1>2, <1>3 DEF Trace, Untouched
<1>5. ASSUME NEW i \in 0 .. Len(msgs), i \in P, i < Len(msgs) PROVE i + 1 \in P
  <2>1. i + 1 \in 1 .. Len(msgs) /\ i + 1 - 1 = i /\ Good(t[i])
    BY <1>2, <1>5
  <2>2. t[i + 1] = HandleMsg(t[i], msgs[i + 1], tx) /\ msgs[i + 1] \in MsgKinds
    BY <1>2, <1>3, <2>1 DEF Trace, StepOf
  <2>3. Good(t[i + 1])
    BY <2>1, <2>2, HandleMsgIs DEF Untouched
  <2>. QED
    BY <1>2, <2>1, <2>3
<1>. HIDE DEF P
<1>6. \A i \in 0 .. Len(msgs) : i \in P
  BY <1>2, <1>4, <1>5, AllUpTo
<1>7. Len(msgs) \in P
  BY <1>2, <1>6
<1>. QED
  BY <1>3, <1>7 DEF P

-----------------------------------------------------------------------------
(* What a call of the handler with the messages after it does.             *)

Result(s, r, tx, call) ==
  /\ r.st \in States
  /\ ~r.charged => r.st = s
  /\ r.charged =>
       /\ tx.seq = s.seq[tx.signer] /\ r.st.seq = [s.seq EXCEPT ![tx.signer] = @ + 1]
       /\ r.st.collected = s.collected + tx.fee
       /\ Range(tx.msgs) \cap s.disabled = {}
       /\ call.mode # "simulate" =>
            /\ r.counter = Number(s, call)
            /\ r.st.counted = [height |-> call.height, txs |-> Number(s, call) + 1]
       /\ call.mode \in {"check", "deliver"} => tx.signed
  /\ InMempool(call) =>
       /\ r.ok <=> r.charged
       /\ s.received => r.st.received
       /\ r.charged /\ OnlyRelays(tx) => ~s.received /\ r.st.received
  /\ call.mode = "simulate" /\ SimulationGas[call.n] # None /\ r.ok =>
       r.gas <= SimulationGas[call.n]

LEMMA RunTxIs ==
  ASSUME NEW s \in States, NEW tx \in Txs, NEW call \in Calls
  PROVE  Result(s, RunTx(s, tx, call), tx, call)
<1>1. PICK a : a = AnteHandler(s, tx, call)
  OBVIOUS
<1>2. PICK m : m = RunMsgs(a, tx)
  OBVIOUS
<1>3. PICK r : r = RunTx(s, tx, call)
  OBVIOUS
<1>4. /\ r.st = (IF ~a.ok THEN s ELSE IF m.ok /\ call.mode = "deliver" THEN m.st ELSE a.st)
      /\ r.charged = a.ok
      /\ r.ok = (a.ok /\ (call.mode \in {"deliver", "simulate"} => m.ok))
      /\ r.gas = (IF call.mode \in {"deliver", "simulate"} THEN m.gas ELSE a.gas)
      /\ r.counter = a.tx
  BY <1>1, <1>2, <1>3 DEF RunTx
<1>5. CASE ~a.ok
  BY <1>3, <1>4, <1>5 DEF Result, InMempool
<1>6. CASE a.ok
  <2>1. Charge(s, a, tx, call)
    BY <1>1, <1>6, Accepted
  <2>2. /\ m \in Contexts /\ m.limit = a.limit /\ Untouched(a.st, m.st)
        /\ m.ok => m.gas <= m.limit
    BY <1>2, <2>1, RunMsgsIs DEF Charge
  <2>3. r.st \in States /\ Untouched(a.st, r.st)
    BY <1>4, <1>6, <2>1, <2>2, ContextFields DEF Charge, Untouched
  <2>4. InMempool(call) => r.st = a.st /\ (r.ok <=> r.charged)
    BY <1>4, <1>6 DEF InMempool
  <2>5. call.mode = "simulate" /\ SimulationGas[call.n] # None /\ r.ok =>
          r.gas <= SimulationGas[call.n]
    BY <1>4, <2>1, <2>2 DEF Charge
  <2>. QED
    BY <1>3, <1>4, <1>6, <2>1, <2>3, <2>4, <2>5 DEF Result, Charge, Untouched
<1>. QED
  BY <1>5, <1>6

LEMMA DeservingAccepted ==
  ASSUME NEW s \in States, NEW tx \in Txs, NEW call \in Calls,
         call.mode = "deliver", Deserves(s, tx, call.height)
  PROVE  AnteHandler(s, tx, call).ok
<1>1. PICK t : Chain(t, s, tx, call) /\ AnteHandler(s, tx, call) = t[13]
  BY AnteChain
<1>2. /\ tx.basic /\ tx.signed /\ tx.seq = s.seq[tx.signer]
      /\ tx.gas >= SizeGas + SigGas /\ (tx.timeout = 0 \/ call.height <= tx.timeout)
      /\ s.balance[Payer(tx)] >= tx.fee /\ Granted(s, tx)
      /\ Range(tx.msgs) \cap s.disabled = {}
  BY DEF Deserves
<1>3. t[0] \in Contexts /\ t[0].st = s /\ t[0].gas = 0 /\ t[0].ok
  BY <1>1, Steps, ContextIs
<1>4. t[1] = SetUpContext(t[0], tx, call)
  BY <1>1, <1>3, Steps
<1>5. /\ t[1] \in Contexts /\ t[1].st = s /\ t[1].gas = 0 /\ t[1].ok
      /\ t[1].limit = tx.gas
  BY <1>3, <1>4, SetUpContextIs
<1>6. t[2] = LimitSimulationGas(t[1], tx, call)
  BY <1>1, <1>5, Steps
<1>7. /\ t[2] \in Contexts /\ t[2].st = s /\ t[2].gas = 0 /\ t[2].ok
      /\ t[2].limit = tx.gas
  BY <1>5, <1>6, LimitSimulationGasIs
<1>8. t[3] = CountTX(t[2], tx, call)
  BY <1>1, <1>7, Steps
<1>9. /\ t[3] \in Contexts /\ t[3].gas = 0 /\ t[3].limit = tx.gas /\ t[3].ok
      /\ t[3].st = [s EXCEPT !.counted = [height |-> call.height, txs |-> Number(s, call) + 1]]
  BY <1>7, <1>8, CountTXIs
<1>10. /\ t[3].st.seq = s.seq /\ t[3].st.balance = s.balance /\ t[3].st.allowance = s.allowance
       /\ t[3].st.disabled = s.disabled /\ t[3].st.keyed = s.keyed
  BY <1>9 DEF States
<1>11. t[4] = CircuitBreaker(t[3], tx, call)
  BY <1>1, <1>9, Steps
<1>12. t[4] \in Contexts /\ Kept(t[3], t[4]) /\ t[4].ok
  <2>1. Range(tx.msgs) \cap t[3].st.disabled = {}
    BY <1>2, <1>10
  <2>2. /\ t[4] \in Contexts /\ Kept(t[3], t[4])
        /\ t[4].ok <=> t[3].ok /\ Range(tx.msgs) \cap t[3].st.disabled = {}
    <3>1. t[3] \in Contexts
      BY <1>9
    <3>. QED
      BY <1>11, <3>1, CircuitBreakerIs
  <2>3. t[3].ok
    BY <1>9
  <2>. QED
    BY <2>1, <2>2, <2>3
<1>13. t[5] = ValidateBasic(t[4], tx, call)
  BY <1>1, <1>12, Steps
<1>14. t[5] \in Contexts /\ Kept(t[4], t[5]) /\ t[5].ok
  BY <1>2, <1>12, <1>13, ValidateBasicIs
<1>15. t[6] = TxTimeoutHeight(t[5], tx, call)
  BY <1>1, <1>14, Steps
<1>16. t[6] \in Contexts /\ Kept(t[5], t[6]) /\ t[6].ok
  BY <1>2, <1>14, <1>15, TxTimeoutHeightIs
<1>17. t[6].st = t[3].st /\ t[6].gas = 0 /\ t[6].limit = tx.gas
  BY <1>9, <1>12, <1>14, <1>16 DEF Kept
<1>18. tx.gas \in Nat /\ SizeGas = 1 /\ SigGas = 1 /\ tx.signer \in Accounts /\ tx.gas >= 2
  BY <1>2, TxFields DEF SizeGas, SigGas
<1>19. t[7] = ConsumeGasForTxSize(t[6], tx, call)
  BY <1>1, <1>16, Steps
<1>20. /\ t[7] \in Contexts /\ t[7].st = t[3].st /\ t[7].gas = 1 /\ t[7].limit = tx.gas /\ t[7].ok
  BY <1>16, <1>17, <1>18, <1>19, ConsumeGasForTxSizeIs
<1>21. t[8] = DeductFee(t[7], tx, call)
  BY <1>1, <1>20, Steps
<1>22. Payable(t[7].st, tx, call)
  BY <1>2, <1>10, <1>18, <1>20 DEF Payable, Granted
<1>23. /\ t[8] \in Contexts /\ Changed(t[7], t[8], Deducted(t[7].st, tx)) /\ t[8].ok
  <2>1. IF Payable(t[7].st, tx, call)
        THEN t[8] \in Contexts /\ Changed(t[7], t[8], Deducted(t[7].st, tx))
        ELSE t[8].ok = FALSE
    <3>1. t[7] \in Contexts
      BY <1>20
    <3>. QED
      BY <1>21, <3>1, DeductFeeIs
  <2>. QED
    BY <1>20, <1>22, <2>1 DEF Changed
<1>24. t[8].st.seq = s.seq /\ t[8].st \in States
  <2>1. t[7].st \in States /\ Granted(t[7].st, tx) /\ t[7].st.balance[Payer(tx)] >= tx.fee
    BY <1>20, <1>22, ContextFields DEF Payable
  <2>. QED
    BY <1>10, <1>20, <1>23, <2>1, DeductedIs DEF Changed
<1>25. t[9] = SetPubKey(t[8], tx, call)
  BY <1>1, <1>23, Steps
<1>26. t[9] \in Contexts /\ Changed(t[8], t[9], WithKey(t[8].st, tx))
  BY <1>23, <1>25, SetPubKeyIs
<1>27. /\ t[9].ok /\ t[9].gas = 1 /\ t[9].limit = tx.gas
       /\ t[9].st.seq = s.seq /\ tx.signer \in t[9].st.keyed
  <2>1. WithKey(t[8].st, tx).seq = t[8].st.seq /\ tx.signer \in WithKey(t[8].st, tx).keyed
    BY <1>24 DEF WithKey, States
  <2>. QED
    BY <1>20, <1>23, <1>24, <1>26, <2>1 DEF Changed
<1>28. t[10] = SigGasConsume(t[9], tx, call)
  BY <1>1, <1>27, Steps
<1>29. t[10] \in Contexts /\ t[10].st = t[9].st /\ t[10].ok
  BY <1>18, <1>26, <1>27, <1>28, SigGasConsumeIs
<1>30. t[11] = SigVerification(t[10], tx, call)
  BY <1>1, <1>29, Steps
<1>31. t[11] \in Contexts /\ t[11].ok
  BY <1>2, <1>27, <1>29, <1>30, SigVerificationIs
<1>32. t[12] = IncrementSequence(t[11], tx, call)
  BY <1>1, <1>31, Steps
<1>33. t[12] \in Contexts /\ t[12].ok
  BY <1>31, <1>32, IncrementSequenceIs DEF Changed
<1>34. t[13] = RedundantRelay(t[12], tx, call)
  BY <1>1, <1>33, Steps
<1>35. t[13].ok
  BY <1>33, <1>34, RedundantRelayIs DEF InMempool
<1>. QED
  BY <1>1, <1>35

-----------------------------------------------------------------------------
(* A block is executed without a look at the node's settings.              *)

LEMMA DecoratorsIgnoreNode ==
  ASSUME NEW c, NEW tx, NEW m, NEW n, NEW h, NEW name
  PROVE  AnteHandle(name, c, tx, Call(m, "deliver", h)) = AnteHandle(name, c, tx, Call(n, "deliver", h))
<1>. DEFINE x == Call(m, "deliver", h)
            y == Call(n, "deliver", h)
<1>1. x.mode = "deliver" /\ y.mode = "deliver" /\ x.height = h /\ y.height = h
  BY DEF Call
<1>. HIDE DEF x, y
<1>2. /\ SetUpContext(c, tx, x) = SetUpContext(c, tx, y)
      /\ LimitSimulationGas(c, tx, x) = LimitSimulationGas(c, tx, y)
  BY <1>1 DEF SetUpContext, LimitSimulationGas
<1>3. CountTX(c, tx, x) = CountTX(c, tx, y)
  BY <1>1 DEF CountTX
<1>4. /\ CircuitBreaker(c, tx, x) = CircuitBreaker(c, tx, y)
      /\ ValidateBasic(c, tx, x) = ValidateBasic(c, tx, y)
      /\ TxTimeoutHeight(c, tx, x) = TxTimeoutHeight(c, tx, y)
  BY <1>1 DEF CircuitBreaker, ValidateBasic, TxTimeoutHeight, Require
<1>5. ConsumeGasForTxSize(c, tx, x) = ConsumeGasForTxSize(c, tx, y)
  BY DEF ConsumeGasForTxSize
<1>6. DeductFee(c, tx, x) = DeductFee(c, tx, y)
  BY <1>1 DEF DeductFee
<1>7. SetPubKey(c, tx, x) = SetPubKey(c, tx, y)
  BY DEF SetPubKey
<1>8. /\ SigGasConsume(c, tx, x) = SigGasConsume(c, tx, y)
      /\ SigVerification(c, tx, x) = SigVerification(c, tx, y)
  BY <1>1 DEF SigGasConsume, SigVerification, Require
<1>9. IncrementSequence(c, tx, x) = IncrementSequence(c, tx, y)
  BY DEF IncrementSequence
<1>10. RedundantRelay(c, tx, x) = RedundantRelay(c, tx, y)
  BY <1>1 DEF RedundantRelay
<1>11. AnteHandle(name, c, tx, x) = AnteHandle(name, c, tx, y)
  BY <1>2, <1>3, <1>4, <1>5, <1>6, <1>7, <1>8, <1>9, <1>10 DEF AnteHandle
<1>. QED
  BY <1>11 DEF x, y

LEMMA HandlerIgnoresNode ==
  ASSUME NEW s, NEW tx, NEW m, NEW n, NEW h
  PROVE  AnteHandler(s, tx, Call(m, "deliver", h)) = AnteHandler(s, tx, Call(n, "deliver", h))
<1>1. PICK t : Chain(t, s, tx, Call(m, "deliver", h))
               /\ AnteHandler(s, tx, Call(m, "deliver", h)) = t[13]
  BY AnteChain
<1>2. PICK u : Chain(u, s, tx, Call(n, "deliver", h))
               /\ AnteHandler(s, tx, Call(n, "deliver", h)) = u[13]
  BY AnteChain
<1>3. \A i \in 1 .. 13 : \A c :
        AnteStep(i, c, tx, Call(m, "deliver", h)) = AnteStep(i, c, tx, Call(n, "deliver", h))
  BY DecoratorsIgnoreNode DEF AnteStep
<1>. DEFINE P == {i \in 0 .. 13 : t[i] = u[i]}
<1>4. 0 \in P
  BY <1>1, <1>2 DEF Chain
<1>5. ASSUME NEW i \in 0 .. 13, i \in P, i < 13 PROVE i + 1 \in P
  <2>1. i + 1 \in 1 .. 13 /\ i + 1 - 1 = i /\ t[i] = u[i]
    BY <1>5
  <2>2. t[i + 1] = AnteStep(i + 1, t[i], tx, Call(m, "deliver", h))
    BY <1>1, <2>1 DEF Chain
  <2>3. u[i + 1] = AnteStep(i + 1, u[i], tx, Call(n, "deliver", h))
    BY <1>2, <2>1 DEF Chain
  <2>. QED
    BY <1>3, <2>1, <2>2, <2>3
<1>. HIDE DEF P
<1>6. \A i \in 0 .. 13 : i \in P
  BY <1>4, <1>5, AllUpTo
<1>7. 13 \in P
  BY <1>6
<1>. QED
  BY <1>1, <1>2, <1>7 DEF P

LEMMA DeliverIgnoresNode ==
  ASSUME NEW acc, NEW tx, NEW m, NEW n, NEW h
  PROVE  DeliverTx(acc, tx, Call(m, "deliver", h)) = DeliverTx(acc, tx, Call(n, "deliver", h))
<1>. DEFINE x == Call(m, "deliver", h)
            y == Call(n, "deliver", h)
<1>1. x.mode = y.mode /\ x.height = y.height
  BY DEF Call
<1>2. AnteHandler(acc.st, tx, x) = AnteHandler(acc.st, tx, y)
  BY HandlerIgnoresNode
<1>. HIDE DEF x, y
<1>3. RunTx(acc.st, tx, x) = RunTx(acc.st, tx, y)
  BY <1>1, <1>2 DEF RunTx
<1>4. DeliverTx(acc, tx, x) = DeliverTx(acc, tx, y)
  BY <1>1, <1>3 DEF DeliverTx
<1>. QED
  BY <1>4 DEF x, y

-----------------------------------------------------------------------------
(* What a node has charged.                                                *)

Entries == [tx : Txs, height : Nat, counter : Int, disabled : SUBSET MsgKinds]

\* Positions of a log, and those before one that are like it.
By(log, a) == {j \in DOMAIN log : log[j].tx.signer = a}
At(log, height) == {j \in DOMAIN log : log[j].height = height}
SameSigner(log, i) == {j \in 1 .. i - 1 : log[j].tx.signer = log[i].tx.signer}
SameHeight(log, i) == {j \in 1 .. i - 1 : log[j].height = log[i].height}

\* The number of the next transaction at a height.
NumberAt(s, height) == IF s.counted.height = height THEN s.counted.txs ELSE 0

\* What the log of a node says of its state, while it executes height.
InTurn(log, s) ==
  /\ \A a \in Accounts : s.seq[a] = Cardinality(By(log, a))
  /\ \A i \in DOMAIN log : log[i].tx.seq = Cardinality(SameSigner(log, i))
Counting(log, s, height) ==
  /\ s.counted.height <= height /\ \A i \in DOMAIN log : log[i].height <= height
  /\ NumberAt(s, height) = Cardinality(At(log, height))
  /\ \A i \in DOMAIN log : log[i].counter = Cardinality(SameHeight(log, i))
Enabled(log) == \A i \in DOMAIN log : Range(log[i].tx.msgs) \cap log[i].disabled = {}
History(log, s, height) ==
  InTurn(log, s) /\ s.collected = Fees(log) /\ Counting(log, s, height) /\ Enabled(log)

LEMMA AddLast ==
  ASSUME NEW n \in Nat, NEW S \in SUBSET (1 .. n)
  PROVE  /\ IsFiniteSet(S) /\ Cardinality(S) \in Nat
         /\ Cardinality(S \cup {n + 1}) = Cardinality(S) + 1
<1>1. IsFiniteSet(1 .. n)
  BY FS_Interval
<1>2. IsFiniteSet(S)
  BY <1>1, FS_Subset
<1>3. n + 1 \notin S
  OBVIOUS
<1>. QED
  BY <1>2, <1>3, FS_AddElement, FS_CardinalityType

LEMMA Appended ==
  ASSUME NEW X, NEW q \in Seq(X), NEW x \in X
  PROVE  LET p == Append(q, x) IN
         /\ p \in Seq(X) /\ Len(q) \in Nat /\ DOMAIN q = 1 .. Len(q)
         /\ DOMAIN p = 1 .. (Len(q) + 1) /\ p[Len(q) + 1] = x
         /\ \A j \in 1 .. Len(q) : p[j] = q[j]
OBVIOUS

\* One more charge keeps the turns.
LEMMA NextInTurn ==
  ASSUME NEW log \in Seq(Entries), NEW s \in States, NEW e \in Entries, NEW u \in States,
         InTurn(log, s), e.tx.seq = s.seq[e.tx.signer],
         u.seq = [s.seq EXCEPT ![e.tx.signer] = @ + 1]
  PROVE  InTurn(Append(log, e), u)
<1>1. PICK p : p = Append(log, e)
  OBVIOUS
<1>2. PICK n : n = Len(log)
  OBVIOUS
<1>3. /\ n \in Nat /\ DOMAIN log = 1 .. n /\ DOMAIN p = 1 .. (n + 1) /\ p[n + 1] = e
      /\ \A j \in 1 .. n : p[j] = log[j]
  BY <1>1, <1>2, Appended
<1>4. e.tx.signer \in Accounts /\ s.seq \in [Accounts -> Nat]
  BY StateFields, TxFields DEF Entries
<1>5. ASSUME NEW a \in Accounts PROVE u.seq[a] = Cardinality(By(p, a))
  <2>1. By(log, a) \in SUBSET (1 .. n) /\ s.seq[a] = Cardinality(By(log, a))
    BY <1>3 DEF By, InTurn
  <2>2. CASE a = e.tx.signer
    <3>1. By(p, a) = By(log, a) \cup {n + 1}
      BY <1>3, <2>2 DEF By
    <3>2. Cardinality(By(log, a) \cup {n + 1}) = Cardinality(By(log, a)) + 1
      BY <1>3, <2>1, AddLast
    <3>3. u.seq[a] = s.seq[a] + 1
      BY <1>4, <2>2
    <3>. QED
      BY <2>1, <3>1, <3>2, <3>3
  <2>3. CASE a # e.tx.signer
    <3>1. By(p, a) = By(log, a)
      BY <1>3, <2>3 DEF By
    <3>. QED
      BY <1>4, <2>1, <2>3, <3>1
  <2>. QED
    BY <2>2, <2>3
<1>6. ASSUME NEW i \in DOMAIN p PROVE p[i].tx.seq = Cardinality(SameSigner(p, i))
  <2>1. CASE i \in 1 .. n
    <3>1. SameSigner(p, i) = SameSigner(log, i) /\ p[i] = log[i] /\ i \in DOMAIN log
      BY <1>3, <2>1 DEF SameSigner
    <3>. QED
      BY <3>1 DEF InTurn
  <2>2. CASE i = n + 1
    <3>1. SameSigner(p, i) = By(log, e.tx.signer) /\ p[i] = e
      BY <1>3, <2>2 DEF SameSigner, By
    <3>. QED
      BY <1>4, <3>1 DEF InTurn
  <2>. QED
    BY <1>3, <2>1, <2>2
<1>. QED
  BY <1>1, <1>5, <1>6 DEF InTurn

\* One more charge gets the next number of its block.
LEMMA NextCounted ==
  ASSUME NEW log \in Seq(Entries), NEW s \in States, NEW e \in Entries, NEW u \in States,
         Counting(log, s, e.height), e.counter = NumberAt(s, e.height),
         u.counted = [height |-> e.height, txs |-> NumberAt(s, e.height) + 1]
  PROVE  Counting(Append(log, e), u, e.height)
<1>1. PICK p : p = Append(log, e)
  OBVIOUS
<1>2. PICK n : n = Len(log)
  OBVIOUS
<1>3. /\ n \in Nat /\ DOMAIN log = 1 .. n /\ DOMAIN p = 1 .. (n + 1) /\ p[n + 1] = e
      /\ \A j \in 1 .. n : p[j] = log[j]
  BY <1>1, <1>2, Appended
<1>4. e.height \in Nat
  BY DEF Entries
<1>5. u.counted.height <= e.height /\ \A i \in DOMAIN p : p[i].height <= e.height
  BY <1>3, <1>4 DEF Counting
<1>6. NumberAt(u, e.height) = Cardinality(At(p, e.height))
  <2>1. At(log, e.height) \in SUBSET (1 .. n) /\ At(p, e.height) = At(log, e.height) \cup {n + 1}
    BY <1>3 DEF At
  <2>2. Cardinality(At(p, e.height)) = Cardinality(At(log, e.height)) + 1
    BY <1>3, <2>1, AddLast
  <2>3. NumberAt(u, e.height) = NumberAt(s, e.height) + 1
    BY DEF NumberAt
  <2>. QED
    BY <2>2, <2>3 DEF Counting
<1>7. ASSUME NEW i \in DOMAIN p PROVE p[i].counter = Cardinality(SameHeight(p, i))
  <2>1. CASE i \in 1 .. n
    <3>1. SameHeight(p, i) = SameHeight(log, i) /\ p[i] = log[i] /\ i \in DOMAIN log
      BY <1>3, <2>1 DEF SameHeight
    <3>. QED
      BY <3>1 DEF Counting
  <2>2. CASE i = n + 1
    <3>1. SameHeight(p, i) = At(log, e.height) /\ p[i] = e
      BY <1>3, <2>2 DEF SameHeight, At
    <3>. QED
      BY <3>1 DEF Counting
  <2>. QED
    BY <1>3, <2>1, <2>2
<1>. QED
  BY <1>1, <1>5, <1>6, <1>7 DEF Counting

LEMMA NextHeight ==
  ASSUME NEW log \in Seq(Entries), NEW s \in States, NEW h \in Nat, History(log, s, h)
  PROVE  History(log, s, h + 1)
<1>1. s.counted.height \in Nat /\ \A i \in DOMAIN log : log[i].height \in Nat
  <2>1. \A i \in DOMAIN log : log[i] \in Entries
    OBVIOUS
  <2>2. s.counted \in [height : Nat, txs : Nat]
    BY StateFields
  <2>. QED
    BY <2>1, <2>2 DEF Entries
<1>2. s.counted.height <= h + 1 /\ \A i \in DOMAIN log : log[i].height <= h + 1
  BY <1>1 DEF History, Counting
<1>3. NumberAt(s, h + 1) = 0 /\ At(log, h + 1) = {}
  BY <1>1 DEF History, Counting, NumberAt, At
<1>. QED
  BY <1>2, <1>3, FS_EmptySet DEF History, Counting

\* A transaction of a block, on the log of all blocks before.
Growing(old, acc, height) ==
  acc.st \in States /\ acc.log \in Seq(Entries) /\ History(old \o acc.log, acc.st, height)

LEMMA Delivered ==
  ASSUME NEW old \in Seq(Entries), NEW acc, NEW tx \in Txs, NEW call \in Calls,
         call.mode = "deliver", Growing(old, acc, call.height)
  PROVE  Growing(old, DeliverTx(acc, tx, call), call.height)
<1>1. PICK s : s = acc.st
  OBVIOUS
<1>2. PICK log : log = acc.log
  OBVIOUS
<1>3. s \in States /\ log \in Seq(Entries) /\ History(old \o log, s, call.height)
  BY <1>1, <1>2 DEF Growing
<1>4. PICK r : r = RunTx(s, tx, call)
  OBVIOUS
<1>5. Result(s, r, tx, call) /\ r.st \in States
  <2>1. Result(s, r, tx, call)
    BY <1>3, <1>4, RunTxIs
  <2>. QED
    BY <2>1 DEF Result
<1>. DEFINE e == [tx |-> tx, height |-> call.height, counter |-> r.counter, disabled |-> s.disabled]
<1>6. DeliverTx(acc, tx, call) = [st |-> r.st, log |-> IF ~r.charged THEN log ELSE Append(log, e)]
  BY <1>1, <1>2, <1>4 DEF DeliverTx
<1>7. CASE ~r.charged
  BY <1>3, <1>5, <1>6, <1>7 DEF Growing, Result
<1>8. CASE r.charged
  <2>1. /\ tx.seq = s.seq[tx.signer] /\ r.st.seq = [s.seq EXCEPT ![tx.signer] = @ + 1]
        /\ r.st.collected = s.collected + tx.fee /\ Range(tx.msgs) \cap s.disabled = {}
        /\ r.counter = NumberAt(s, call.height)
        /\ r.st.counted = [height |-> call.height, txs |-> NumberAt(s, call.height) + 1]
    BY <1>5, <1>8 DEF Result, Number, NumberAt
  <2>2. e \in Entries /\ e.tx = tx /\ e.height = call.height /\ e.counter = r.counter
        /\ e.disabled = s.disabled
    <3>1. NumberAt(s, call.height) \in Nat
      BY <1>3, StateFields DEF NumberAt
    <3>2. call.height \in Nat /\ s.disabled \subseteq MsgKinds
      BY <1>3, StateFields DEF Calls
    <3>. QED
      BY <2>1, <3>1, <3>2 DEF Entries
  <2>. HIDE DEF e
  <2>3. PICK all : all = old \o log
    OBVIOUS
  <2>4. all \in Seq(Entries) /\ old \o Append(log, e) = Append(all, e) /\ Append(log, e) \in Seq(Entries)
    BY <1>3, <2>2, <2>3
  <2>5. History(all, s, call.height)
    BY <1>3, <2>3
  <2>6. InTurn(Append(all, e), r.st)
    BY <1>3, <1>5, <2>1, <2>2, <2>4, <2>5, NextInTurn DEF History
  <2>7. Counting(Append(all, e), r.st, call.height)
    BY <1>3, <1>5, <2>1, <2>2, <2>4, <2>5, NextCounted DEF History
  <2>8. r.st.collected = Fees(Append(all, e))
    BY <2>1, <2>2, <2>4, <2>5, FeesAppend DEF History
  <2>9. Enabled(Append(all, e))
    <3>1. PICK p : p = Append(all, e)
      OBVIOUS
    <3>2. /\ DOMAIN all = 1 .. Len(all) /\ DOMAIN p = 1 .. (Len(all) + 1) /\ Len(all) \in Nat
          /\ p[Len(all) + 1] = e /\ \A j \in 1 .. Len(all) : p[j] = all[j]
      BY <2>2, <2>4, <3>1, Appended
    <3>3. ASSUME NEW i \in DOMAIN p PROVE Range(p[i].tx.msgs) \cap p[i].disabled = {}
      <4>1. CASE i \in 1 .. Len(all)
        BY <2>5, <3>2, <4>1 DEF History, Enabled
      <4>2. CASE i = Len(all) + 1
        BY <2>1, <2>2, <3>2, <4>2
      <4>. QED
        BY <3>2, <4>1, <4>2
    <3>. QED
      BY <3>1, <3>3 DEF Enabled
  <2>10. History(Append(all, e), r.st, call.height)
    BY <2>6, <2>7, <2>8, <2>9 DEF History
  <2>11. DeliverTx(acc, tx, call).st = r.st /\ DeliverTx(acc, tx, call).log = Append(log, e)
    BY <1>6, <1>8 DEF e
  <2>. QED
    BY <1>5, <2>3, <2>4, <2>10, <2>11 DEF Growing
<1>. QED
  BY <1>7, <1>8

-----------------------------------------------------------------------------
(* What a mempool has, relative to the committed state s.                  *)

Mine(pool, a) == {j \in DOMAIN pool : pool[j].signer = a}
Ahead(pool, i) == {j \in 1 .. i - 1 : pool[j].signer = pool[i].signer}
Relays(pool) == {i \in DOMAIN pool : OnlyRelays(pool[i])}

RunsOn(s, check, pool) ==
  /\ \A a \in Accounts : check.seq[a] = s.seq[a] + Cardinality(Mine(pool, a))
  /\ \A i \in DOMAIN pool :
       pool[i].signed /\ pool[i].seq = s.seq[pool[i].signer] + Cardinality(Ahead(pool, i))
RelaysOnce(s, check, pool) ==
  /\ s.received => check.received
  /\ Relays(pool) # {} => check.received
  /\ Cardinality(Relays(pool)) <= (IF s.received THEN 0 ELSE 1)
Queue(s, check, pool) ==
  check \in States /\ pool \in Seq(Txs) /\ RunsOn(s, check, pool) /\ RelaysOnce(s, check, pool)

LEMMA EmptyQueue ==
  ASSUME NEW s \in States
  PROVE  Queue(s, s, <<>>)
<1>1. \A a : Mine(<<>>, a) = {}
  BY DEF Mine
<1>2. Relays(<<>>) = {}
  BY DEF Relays
<1>3. s.seq \in [Accounts -> Nat]
  BY StateFields
<1>4. \A a \in Accounts : s.seq[a] = s.seq[a] + 0
  BY <1>3
<1>. QED
  <2>1. Cardinality({}) = 0 /\ DOMAIN <<>> = {} /\ <<>> \in Seq(Txs)
    BY FS_EmptySet
  <2>2. RunsOn(s, s, <<>>)
    BY <1>1, <1>4, <2>1 DEF RunsOn
  <2>3. RelaysOnce(s, s, <<>>)
    <3>1. Cardinality(Relays(<<>>)) = 0
      BY <1>2, FS_EmptySet
    <3>. HIDE DEF Relays
    <3>. QED
      BY <1>2, <3>1 DEF RelaysOnce
  <2>. QED
    BY <2>1, <2>2, <2>3 DEF Queue

\* A transaction the handler accepts goes to the end of its signer's run.
LEMMA Enqueued ==
  ASSUME NEW s \in States, NEW check, NEW pool, Queue(s, check, pool),
         NEW tx \in Txs, tx.signed, NEW call \in Calls, InMempool(call),
         NEW r, Result(check, r, tx, call), r.charged
  PROVE  Queue(s, r.st, Append(pool, tx))
<1>1. PICK p : p = Append(pool, tx)
  OBVIOUS
<1>2. PICK n : n = Len(pool)
  OBVIOUS
<1>3. check \in States /\ pool \in Seq(Txs) /\ r.st \in States
  BY DEF Queue, Result
<1>4. /\ n \in Nat /\ DOMAIN pool = 1 .. n /\ DOMAIN p = 1 .. (n + 1) /\ p[n + 1] = tx
      /\ p \in Seq(Txs) /\ \A j \in 1 .. n : p[j] = pool[j]
  BY <1>1, <1>2, <1>3, Appended
<1>5. tx.signer \in Accounts /\ check.seq \in [Accounts -> Nat] /\ s.seq \in [Accounts -> Nat]
  BY <1>3, StateFields, TxFields
<1>6. /\ tx.seq = check.seq[tx.signer] /\ r.st.seq = [check.seq EXCEPT ![tx.signer] = @ + 1]
      /\ check.received => r.st.received
      /\ OnlyRelays(tx) => ~check.received /\ r.st.received
  BY DEF Result
<1>7. ASSUME NEW a \in Accounts PROVE r.st.seq[a] = s.seq[a] + Cardinality(Mine(p, a))
  <2>1. Mine(pool, a) \in SUBSET (1 .. n) /\ check.seq[a] = s.seq[a] + Cardinality(Mine(pool, a))
    BY <1>4 DEF Mine, Queue, RunsOn
  <2>2. CASE a = tx.signer
    <3>1. Mine(p, a) = Mine(pool, a) \cup {n + 1}
      BY <1>4, <2>2 DEF Mine
    <3>2. Cardinality(Mine(p, a)) = Cardinality(Mine(pool, a)) + 1 /\ Cardinality(Mine(pool, a)) \in Nat
      <4>1. /\ Cardinality(Mine(pool, a) \cup {n + 1}) = Cardinality(Mine(pool, a)) + 1
            /\ Cardinality(Mine(pool, a)) \in Nat
        BY <1>4, <2>1, AddLast
      <4>. QED
        BY <3>1, <4>1
    <3>3. r.st.seq[a] = check.seq[a] + 1 /\ s.seq[a] \in Nat
      BY <1>5, <1>6, <2>2
    <3>. QED
      BY <2>1, <3>2, <3>3
  <2>3. CASE a # tx.signer
    <3>1. Mine(p, a) = Mine(pool, a)
      BY <1>4, <2>3 DEF Mine
    <3>. QED
      BY <1>5, <1>6, <2>1, <2>3, <3>1
  <2>. QED
    BY <2>2, <2>3
<1>8. ASSUME NEW i \in DOMAIN p
      PROVE  p[i].signed /\ p[i].seq = s.seq[p[i].signer] + Cardinality(Ahead(p, i))
  <2>1. CASE i \in 1 .. n
    <3>1. Ahead(p, i) = Ahead(pool, i) /\ p[i] = pool[i] /\ i \in DOMAIN pool
      BY <1>4, <2>1 DEF Ahead
    <3>. QED
      BY <3>1 DEF Queue, RunsOn
  <2>2. CASE i = n + 1
    <3>1. Ahead(p, i) = Mine(pool, tx.signer) /\ p[i] = tx
      BY <1>4, <2>2 DEF Ahead, Mine
    <3>. QED
      BY <1>5, <1>6, <3>1 DEF Queue, RunsOn
  <2>. QED
    BY <1>4, <2>1, <2>2
<1>9. RelaysOnce(s, r.st, p)
  <2>1. CASE OnlyRelays(tx)
    <3>1. Relays(pool) = {} /\ ~s.received
      BY <1>6, <2>1 DEF Queue, RelaysOnce
    <3>2. Relays(p) = {} \cup {n + 1}
      BY <1>4, <2>1, <3>1 DEF Relays
    <3>3. Cardinality(Relays(p)) = 1
      <4>1. {} \in SUBSET (1 .. n) /\ Cardinality({}) = 0
        BY FS_EmptySet
      <4>2. Cardinality({} \cup {n + 1}) = Cardinality({}) + 1
        BY <1>4, <4>1, AddLast
      <4>. QED
        BY <3>2, <4>1, <4>2
    <3>. QED
      BY <1>6, <2>1, <3>1, <3>3 DEF RelaysOnce
  <2>2. CASE ~OnlyRelays(tx)
    <3>1. Relays(p) = Relays(pool)
      BY <1>4, <2>2 DEF Relays
    <3>. QED
      BY <1>6, <3>1 DEF Queue, RelaysOnce
  <2>. QED
    BY <2>1, <2>2
<1>. QED
  BY <1>1, <1>3, <1>4, <1>7, <1>8, <1>9 DEF Queue, RunsOn

LEMMA Rechecked ==
  ASSUME NEW s \in States, NEW acc, Queue(s, acc.check, acc.pool),
         NEW tx \in Txs, tx.signed, NEW call \in Calls, call.mode = "recheck", NEW block
  PROVE  LET d == RecheckTx(acc, tx, call, block) IN Queue(s, d.check, d.pool)
<1>1. PICK r : r = RunTx(acc.check, tx, call)
  OBVIOUS
<1>2. Result(acc.check, r, tx, call) /\ InMempool(call)
  BY <1>1, RunTxIs DEF Queue, InMempool
<1>3. CASE Contains(block, tx)
  BY <1>3 DEF RecheckTx
<1>4. CASE ~Contains(block, tx)
  <2>1. PICK d : d = RecheckTx(acc, tx, call, block)
    OBVIOUS
  <2>2. d.check = r.st /\ d.pool = IF r.ok THEN Append(acc.pool, tx) ELSE acc.pool
    BY <1>1, <1>4, <2>1 DEF RecheckTx
  <2>3. r.ok <=> r.charged
    BY <1>2 DEF Result
  <2>4. CASE r.charged
    BY <1>2, <2>1, <2>2, <2>3, <2>4, Enqueued
  <2>5. CASE ~r.charged
    BY <1>2, <2>1, <2>2, <2>3, <2>5 DEF Result
  <2>. QED
    BY <2>4, <2>5
<1>. QED
  BY <1>3, <1>4

-----------------------------------------------------------------------------
(* The invariant.                                                          *)

NodeRecords == [st : States, check : States, pool : Seq(Txs), height : Nat \ {0}]
AnteTypes ==
  /\ node \in [Nodes -> NodeRecords] /\ chain \in Seq(Seq(Txs))
  /\ ran \in [Nodes -> Seq(Entries)]
  /\ \A n \in Nodes : node[n].height <= Len(chain) + 1

\* The state a block leaves, whichever node executes it.
BlockState(s, height, block) ==
  FoldValue("block", Call(None, "deliver", height), [st |-> s, log |-> <<>>], block).st

\* There is one state for each height, and a node has that of its own.
StatesOf(S) ==
  /\ S[1] = Genesis
  /\ \A h \in 1 .. Len(chain) : S[h + 1] = BlockState(S[h], h, chain[h])
  /\ \A n \in Nodes : node[n].st = S[node[n].height]
OneStatePerHeight == \E S : StatesOf(S)

AnteInv ==
  /\ AnteTypes /\ OneStatePerHeight
  /\ \A n \in Nodes : History(ran[n], node[n].st, node[n].height)
  /\ \A n \in Nodes : Queue(node[n].st, node[n].check, node[n].pool)

LEMMA Records ==
  ASSUME AnteTypes, NEW n \in Nodes
  PROVE  /\ node[n] \in NodeRecords /\ node[n].st \in States /\ node[n].check \in States
         /\ node[n].pool \in Seq(Txs) /\ node[n].height \in Nat /\ node[n].height > 0
         /\ ran[n] \in Seq(Entries)
BY DEF AnteTypes, NodeRecords

LEMMA CallIs ==
  ASSUME NEW n \in Nodes, NEW mode \in Modes, NEW h \in Nat
  PROVE  /\ Call(n, mode, h) \in Calls /\ Call(n, mode, h).mode = mode
         /\ Call(n, mode, h).height = h /\ Call(n, mode, h).n = n
BY DEF Call, Calls

LEMMA GenesisIs ==
  /\ Genesis \in States /\ Genesis.collected = 0 /\ Genesis.counted.height = 0
  /\ \A a \in Accounts : Genesis.seq[a] = 0
BY AnteAssumption DEF Genesis, States

LEMMA AnteInit == Init => AnteInv
<1>. SUFFICES ASSUME Init PROVE AnteInv
  OBVIOUS
<1>1. /\ \A n \in Nodes : /\ node[n].st = Genesis /\ node[n].check = Genesis
                          /\ node[n].pool = <<>> /\ node[n].height = 1 /\ ran[n] = <<>>
      /\ chain = <<>> /\ Len(chain) = 0
  BY DEF Init
<1>2. AnteTypes
  <2>1. [st |-> Genesis, check |-> Genesis, pool |-> <<>>, height |-> 1] \in NodeRecords
    BY GenesisIs DEF NodeRecords
  <2>. QED
    BY <1>1, <2>1 DEF AnteTypes, Init
<1>3. OneStatePerHeight
  <2>. DEFINE S == [h \in {1} |-> Genesis]
  <2>1. StatesOf(S)
    BY <1>1 DEF StatesOf
  <2>. QED
    BY <2>1 DEF OneStatePerHeight
<1>4. History(<<>>, Genesis, 1)
  <2>1. \A a : By(<<>>, a) = {}
    BY DEF By
  <2>2. At(<<>>, 1) = {} /\ NumberAt(Genesis, 1) = 0
    BY GenesisIs DEF At, NumberAt
  <2>3. Cardinality({}) = 0 /\ DOMAIN <<>> = {}
    BY FS_EmptySet
  <2>4. InTurn(<<>>, Genesis)
    BY <2>1, <2>3, GenesisIs DEF InTurn
  <2>5. Counting(<<>>, Genesis, 1)
    <3>1. Cardinality(At(<<>>, 1)) = 0
      BY <2>2, FS_EmptySet
    <3>2. Genesis.counted.height <= 1
      BY GenesisIs
    <3>. QED
      BY <2>2, <2>3, <3>1, <3>2 DEF Counting
  <2>. QED
    BY <2>3, <2>4, <2>5, GenesisIs, FeesEmpty DEF History, Enabled
<1>5. Queue(Genesis, Genesis, <<>>)
  BY GenesisIs, EmptyQueue
<1>. QED
  BY <1>1, <1>2, <1>3, <1>4, <1>5 DEF AnteInv

-----------------------------------------------------------------------------
(* The steps.                                                              *)

LEMMA BlockExecuted ==
  ASSUME AnteTypes, NEW n \in Nodes, NEW block \in Seq(Txs),
         History(ran[n], node[n].st, node[n].height)
  PROVE  /\ Growing(ran[n], Execute(n, block), node[n].height)
         /\ Execute(n, block).st = BlockState(node[n].st, node[n].height, block)
<1>. DEFINE call == Call(n, "deliver", node[n].height)
            base == [st |-> node[n].st, log |-> <<>>]
<1>1. PICK t : Trace(t, "block", call, base, block) /\ Execute(n, block) = t[Len(block)]
  BY ExecuteTrace
<1>2. call \in Calls /\ call.mode = "deliver" /\ call.height = node[n].height
  BY Records, CallIs DEF Modes
<1>3. Len(block) \in Nat /\ \A i \in 1 .. Len(block) : block[i] \in Txs
  OBVIOUS
<1>4. Growing(ran[n], base, node[n].height)
  <2>1. ran[n] \o <<>> = ran[n] /\ <<>> \in Seq(Entries)
    BY Records
  <2>. QED
    BY <2>1, Records DEF Growing
<1>5. base.st = node[n].st
  OBVIOUS
<1>. HIDE DEF call, base
<1>. DEFINE P == {i \in 0 .. Len(block) : Growing(ran[n], t[i], node[n].height)}
<1>6. 0 \in P
  BY <1>1, <1>3, <1>4 DEF Trace
<1>7. ASSUME NEW i \in 0 .. Len(block), i \in P, i < Len(block) PROVE i + 1 \in P
  <2>1. i + 1 \in 1 .. Len(block) /\ i + 1 - 1 = i /\ Growing(ran[n], t[i], node[n].height)
    BY <1>3, <1>7
  <2>2. t[i + 1] = DeliverTx(t[i], block[i + 1], call) /\ block[i + 1] \in Txs
    BY <1>1, <1>3, <2>1 DEF Trace, StepOf
  <2>3. Growing(ran[n], t[i + 1], node[n].height)
    BY <1>2, <2>1, <2>2, Records, Delivered
  <2>. QED
    BY <1>3, <2>1, <2>3
<1>. HIDE DEF P
<1>8. \A i \in 0 .. Len(block) : i \in P
  BY <1>3, <1>6, <1>7, AllUpTo
<1>9. Len(block) \in P
  BY <1>3, <1>8
<1>10. Growing(ran[n], Execute(n, block), node[n].height)
  BY <1>1, <1>9 DEF P
\* The same, with no node's call.
<1>. DEFINE nobody == Call(None, "deliver", node[n].height)
<1>11. PICK u : Trace(u, "block", nobody, base, block)
                /\ FoldValue("block", nobody, base, block) = u[Len(block)]
  BY FoldTrace
<1>12. \A i \in 1 .. Len(block) : \A a :
         StepOf("block", call, a, block[i]) = StepOf("block", nobody, a, block[i])
  BY DeliverIgnoresNode DEF StepOf, call
<1>. HIDE DEF nobody
<1>13. \A i \in 0 .. Len(block) : t[i] = u[i]
  <2>. DEFINE E == {i \in 0 .. Len(block) : t[i] = u[i]}
  <2>1. 0 \in E
    BY <1>1, <1>3, <1>11 DEF Trace
  <2>2. ASSUME NEW i \in 0 .. Len(block), i \in E, i < Len(block) PROVE i + 1 \in E
    <3>1. i + 1 \in 1 .. Len(block) /\ i + 1 - 1 = i /\ t[i] = u[i]
      BY <1>3, <2>2
    <3>2. t[i + 1] = StepOf("block", call, t[i], block[i + 1])
      BY <1>1, <3>1 DEF Trace
    <3>3. u[i + 1] = StepOf("block", nobody, u[i], block[i + 1])
      BY <1>11, <3>1 DEF Trace
    <3>4. t[i + 1] = u[i + 1]
      BY <1>12, <3>1, <3>2, <3>3
    <3>. QED
      BY <1>3, <3>1, <3>4
  <2>. HIDE DEF E
  <2>3. \A i \in 0 .. Len(block) : i \in E
    BY <1>3, <2>1, <2>2, AllUpTo
  <2>. QED
    BY <2>3 DEF E
<1>14. Execute(n, block) = FoldValue("block", nobody, base, block)
  BY <1>1, <1>3, <1>11, <1>13
<1>. QED
  BY <1>10, <1>14 DEF BlockState, base, nobody

LEMMA MempoolRechecked ==
  ASSUME AnteTypes, NEW n \in Nodes, Queue(node[n].st, node[n].check, node[n].pool),
         NEW s \in States, NEW block
  PROVE  LET again == Recheck(n, s, block) IN Queue(s, again.check, again.pool)
<1>1. PICK pool : pool = node[n].pool
  OBVIOUS
<1>2. pool \in Seq(Txs) /\ Len(pool) \in Nat
  BY <1>1, Records
<1>3. \A i \in 1 .. Len(pool) : pool[i] \in Txs /\ pool[i].signed
  BY <1>1, <1>2 DEF Queue, RunsOn
<1>. DEFINE call == Call(n, "recheck", node[n].height + 1)
            e == [call |-> call, block |-> block]
            base == [check |-> s, pool |-> <<>>]
<1>4. PICK t : Trace(t, "recheck", e, base, pool) /\ Recheck(n, s, block) = t[Len(pool)]
  <2>1. node[n].pool \in Seq(Txs)
    BY <1>1, <1>2
  <2>2. \E t : /\ Trace(t, "recheck", e, base, node[n].pool)
               /\ Recheck(n, s, block) = t[Len(node[n].pool)]
    BY <2>1, RecheckTrace
  <2>. QED
    BY <1>1, <2>2
<1>5. call \in Calls /\ call.mode = "recheck"
  <2>1. node[n].height + 1 \in Nat
    BY Records
  <2>. QED
    BY <2>1, CallIs DEF Modes
<1>6. e.call = call /\ e.block = block /\ base.check = s /\ base.pool = <<>>
  OBVIOUS
<1>. HIDE DEF call, e, base
<1>. DEFINE P == {i \in 0 .. Len(pool) : Queue(s, t[i].check, t[i].pool)}
<1>7. 0 \in P
  BY <1>2, <1>4, <1>6, EmptyQueue DEF Trace
<1>8. ASSUME NEW i \in 0 .. Len(pool), i \in P, i < Len(pool) PROVE i + 1 \in P
  <2>1. i + 1 \in 1 .. Len(pool) /\ i + 1 - 1 = i /\ Queue(s, t[i].check, t[i].pool)
    BY <1>2, <1>8
  <2>2. t[i + 1] = RecheckTx(t[i], pool[i + 1], call, block)
    BY <1>4, <1>6, <2>1 DEF Trace, StepOf
  <2>3. Queue(s, t[i + 1].check, t[i + 1].pool)
    BY <1>3, <1>5, <2>1, <2>2, Rechecked
  <2>. QED
    BY <1>2, <2>1, <2>3
<1>. HIDE DEF P
<1>9. \A i \in 0 .. Len(pool) : i \in P
  BY <1>2, <1>7, <1>8, AllUpTo
<1>10. Len(pool) \in P
  BY <1>2, <1>9
<1>. QED
  BY <1>4, <1>10 DEF P

LEMMA CheckTxStep ==
  ASSUME AnteInv, NEW n \in Nodes, NEW tx \in Txs, CheckTx(n, tx)
  PROVE  AnteInv'
<1>1. PICK r : r = RunTx(node[n].check, tx, Call(n, "check", node[n].height))
  OBVIOUS
<1>2. /\ r.ok /\ node' = [node EXCEPT ![n].check = r.st, ![n].pool = Append(@, tx)]
      /\ chain' = chain /\ ran' = ran
  BY <1>1 DEF CheckTx
<1>3. /\ AnteTypes /\ OneStatePerHeight
      /\ \A m \in Nodes : History(ran[m], node[m].st, node[m].height)
      /\ \A m \in Nodes : Queue(node[m].st, node[m].check, node[m].pool)
  BY DEF AnteInv
<1>4. PICK call \in Calls : call = Call(n, "check", node[n].height) /\ call.mode = "check"
  BY <1>3, Records, CallIs DEF Modes
<1>5. Result(node[n].check, r, tx, call)
  BY <1>1, <1>3, <1>4, Records, RunTxIs
<1>6. r.charged /\ tx.signed /\ r.st \in States /\ InMempool(call)
  BY <1>2, <1>4, <1>5 DEF Result, InMempool
<1>7. Queue(node[n].st, r.st, Append(node[n].pool, tx))
  BY <1>3, <1>5, <1>6, Records, Enqueued
<1>8. Append(node[n].pool, tx) \in Seq(Txs)
  BY <1>3, Records
<1>9. /\ node'[n].st = node[n].st /\ node'[n].height = node[n].height
      /\ node'[n].check = r.st /\ node'[n].pool = Append(node[n].pool, tx)
      /\ \A m \in Nodes : m # n => node'[m] = node[m]
      /\ node' \in [Nodes -> NodeRecords]
  <2>1. node \in [Nodes -> NodeRecords]
    BY <1>3 DEF AnteTypes
  <2>. QED
    BY <1>2, <1>6, <1>8, <2>1 DEF NodeRecords
<1>10. \A m \in Nodes : node'[m].st = node[m].st /\ node'[m].height = node[m].height
  BY <1>9
<1>11. AnteTypes'
  <2>1. \A m \in Nodes : node'[m].height <= Len(chain') + 1
    BY <1>2, <1>3, <1>10 DEF AnteTypes
  <2>2. chain' \in Seq(Seq(Txs)) /\ ran' \in [Nodes -> Seq(Entries)]
    BY <1>2, <1>3 DEF AnteTypes
  <2>. QED
    BY <1>9, <2>1, <2>2 DEF AnteTypes
<1>12. OneStatePerHeight'
  <2>1. PICK S : StatesOf(S)
    BY <1>3 DEF OneStatePerHeight
  <2>2. \A m \in Nodes : node'[m].st = S[node'[m].height]
    BY <1>10, <2>1 DEF StatesOf
  <2>3. StatesOf(S)'
    BY <1>2, <2>1, <2>2 DEF StatesOf
  <2>. QED
    BY <2>3 DEF OneStatePerHeight
<1>13. \A m \in Nodes : History(ran'[m], node'[m].st, node'[m].height)
  BY <1>2, <1>3, <1>10
<1>14. \A m \in Nodes : Queue(node'[m].st, node'[m].check, node'[m].pool)
  BY <1>3, <1>7, <1>9
<1>. QED
  BY <1>11, <1>12, <1>13, <1>14 DEF AnteInv

LEMMA DecideStep ==
  ASSUME AnteInv, NEW n \in Nodes, Decide(n)
  PROVE  AnteInv'
<1>1. PICK k \in 0 .. Len(node[n].pool), extra \in {<<>>} \cup {<<tx>> : tx \in Txs} :
        chain' = Append(chain, SubSeq(node[n].pool, 1, k) \o extra)
  BY DEF Decide
<1>2. node' = node /\ ran' = ran
  BY DEF Decide
<1>3. AnteTypes /\ OneStatePerHeight
  BY DEF AnteInv
<1>4. PICK block : block = SubSeq(node[n].pool, 1, k) \o extra
  OBVIOUS
<1>5. block \in Seq(Txs)
  <2>1. extra \in Seq(Txs)
    <3>1. CASE extra = <<>>
      BY <3>1
    <3>2. ASSUME NEW tx \in Txs, extra = <<tx>> PROVE extra \in Seq(Txs)
      BY <3>2
    <3>. QED
      BY <1>1, <3>1, <3>2
  <2>2. PICK pool \in Seq(Txs) : pool = node[n].pool
    BY <1>3, Records
  <2>3. SubSeq(pool, 1, k) \in Seq(Txs)
    BY <1>1, <2>2
  <2>. QED
    BY <1>4, <2>1, <2>2, <2>3
<1>6. chain \in Seq(Seq(Txs)) /\ chain' = Append(chain, block)
  BY <1>1, <1>3, <1>4 DEF AnteTypes
<1>7. PICK l : l = Len(chain)
  OBVIOUS
<1>8. /\ l \in Nat /\ Len(chain') = l + 1 /\ chain'[l + 1] = block /\ chain' \in Seq(Seq(Txs))
      /\ \A i \in 1 .. l : chain'[i] = chain[i]
  BY <1>5, <1>6, <1>7
<1>9. \A m \in Nodes : node[m].height \in 1 .. l + 1
  BY <1>3, <1>7, <1>8, Records DEF AnteTypes
<1>10. AnteTypes'
  BY <1>2, <1>3, <1>8, <1>9 DEF AnteTypes
<1>11. OneStatePerHeight'
  <2>1. PICK S : StatesOf(S)
    BY <1>3 DEF OneStatePerHeight
  <2>. DEFINE R == [h \in 1 .. l + 2 |-> IF h <= l + 1 THEN S[h] ELSE BlockState(S[l + 1], l + 1, block)]
  <2>2. /\ \A h \in 1 .. l + 1 : R[h] = S[h]
        /\ R[l + 2] = BlockState(S[l + 1], l + 1, block)
    BY <1>8
  <2>. HIDE DEF R
  <2>3. R[1] = Genesis
    BY <1>8, <2>1, <2>2 DEF StatesOf
  <2>4. ASSUME NEW h \in 1 .. l + 1 PROVE R[h + 1] = BlockState(R[h], h, chain'[h])
    <3>1. CASE h \in 1 .. l
      <4>1. h + 1 \in 1 .. l + 1 /\ h \in 1 .. l + 1
        BY <1>8, <3>1
      <4>2. S[h + 1] = BlockState(S[h], h, chain[h])
        BY <1>7, <2>1, <3>1 DEF StatesOf
      <4>. QED
        BY <1>8, <2>2, <3>1, <4>1, <4>2
    <3>2. CASE h = l + 1
      <4>1. h + 1 = l + 2
        BY <1>8, <3>2
      <4>. QED
        BY <1>8, <2>2, <3>2, <4>1
    <3>. QED
      BY <1>8, <3>1, <3>2
  <2>5. \A m \in Nodes : node'[m].st = R[node'[m].height]
    BY <1>2, <1>9, <2>1, <2>2 DEF StatesOf
  <2>6. StatesOf(R)'
    BY <1>8, <2>3, <2>4, <2>5 DEF StatesOf
  <2>. QED
    BY <2>6 DEF OneStatePerHeight
<1>. QED
  BY <1>2, <1>10, <1>11 DEF AnteInv

LEMMA FinalizeStep ==
  ASSUME AnteInv, NEW n \in Nodes, FinalizeAndCommit(n)
  PROVE  AnteInv'
<1>1. PICK h : h = node[n].height
  OBVIOUS
<1>2. PICK block : block = chain[h]
  OBVIOUS
<1>3. PICK done : done = Execute(n, block)
  OBVIOUS
<1>4. PICK again : again = Recheck(n, done.st, block)
  OBVIOUS
<1>5. /\ h <= Len(chain) /\ chain' = chain
      /\ node' = [node EXCEPT ![n] = [st |-> done.st, check |-> again.check,
                                      pool |-> again.pool, height |-> h + 1]]
      /\ ran' = [ran EXCEPT ![n] = ran[n] \o done.log]
  BY <1>1, <1>2, <1>3, <1>4 DEF FinalizeAndCommit
<1>6. /\ AnteTypes /\ OneStatePerHeight
      /\ \A m \in Nodes : History(ran[m], node[m].st, node[m].height)
      /\ \A m \in Nodes : Queue(node[m].st, node[m].check, node[m].pool)
  BY DEF AnteInv
<1>7. h \in Nat /\ h > 0 /\ h \in 1 .. Len(chain) /\ Len(chain) \in Nat /\ block \in Seq(Txs)
  <2>1. h \in Nat /\ h > 0 /\ chain \in Seq(Seq(Txs))
    BY <1>1, <1>6, Records DEF AnteTypes
  <2>2. Len(chain) \in Nat
    BY <2>1
  <2>3. h \in 1 .. Len(chain)
    BY <1>5, <2>1, <2>2
  <2>. QED
    BY <1>2, <2>1, <2>2, <2>3
<1>8. /\ done.st \in States /\ done.log \in Seq(Entries) /\ History(ran[n] \o done.log, done.st, h)
      /\ done.st = BlockState(node[n].st, h, block)
  BY <1>1, <1>3, <1>6, <1>7, BlockExecuted DEF Growing
<1>9. ran[n] \o done.log \in Seq(Entries)
  BY <1>6, <1>8, Records
<1>10. History(ran[n] \o done.log, done.st, h + 1)
  BY <1>7, <1>8, <1>9, NextHeight
<1>11. Queue(done.st, again.check, again.pool)
  BY <1>4, <1>6, <1>8, MempoolRechecked
<1>12. again.check \in States /\ again.pool \in Seq(Txs)
  BY <1>11 DEF Queue
<1>13. PICK rec : rec = [st |-> done.st, check |-> again.check, pool |-> again.pool, height |-> h + 1]
  OBVIOUS
<1>14. rec \in NodeRecords /\ rec.st = done.st /\ rec.check = again.check
       /\ rec.pool = again.pool /\ rec.height = h + 1
  BY <1>7, <1>8, <1>12, <1>13 DEF NodeRecords
<1>15. /\ node' \in [Nodes -> NodeRecords] /\ node'[n] = rec
       /\ \A m \in Nodes : m # n => node'[m] = node[m]
  BY <1>5, <1>6, <1>13, <1>14 DEF AnteTypes
<1>16. /\ ran' \in [Nodes -> Seq(Entries)] /\ ran'[n] = ran[n] \o done.log
       /\ \A m \in Nodes : m # n => ran'[m] = ran[m]
  BY <1>5, <1>6, <1>9 DEF AnteTypes
<1>17. AnteTypes'
  <2>1. \A m \in Nodes : node'[m].height <= Len(chain) + 1
    <3>. TAKE m \in Nodes
    <3>1. CASE m = n
      BY <1>5, <1>7, <1>14, <1>15, <3>1
    <3>2. CASE m # n
      BY <1>6, <1>15, <3>2 DEF AnteTypes
    <3>. QED
      BY <3>1, <3>2
  <2>. QED
    BY <1>5, <1>6, <1>15, <1>16, <2>1 DEF AnteTypes
<1>18. OneStatePerHeight'
  <2>1. PICK S : StatesOf(S)
    BY <1>6 DEF OneStatePerHeight
  <2>2. S[h + 1] = BlockState(S[h], h, block) /\ node[n].st = S[h]
    BY <1>1, <1>2, <1>7, <2>1 DEF StatesOf
  <2>3. \A m \in Nodes : node'[m].st = S[node'[m].height]
    BY <1>8, <1>14, <1>15, <2>1, <2>2 DEF StatesOf
  <2>4. StatesOf(S)'
    BY <1>5, <2>1, <2>3 DEF StatesOf
  <2>. QED
    BY <2>4 DEF OneStatePerHeight
<1>19. \A m \in Nodes : History(ran'[m], node'[m].st, node'[m].height)
  BY <1>6, <1>10, <1>14, <1>15, <1>16
<1>20. \A m \in Nodes : Queue(node'[m].st, node'[m].check, node'[m].pool)
  BY <1>6, <1>11, <1>14, <1>15
<1>. QED
  BY <1>17, <1>18, <1>19, <1>20 DEF AnteInv

LEMMA AnteKeeps == AnteInv /\ [Next]_vars => AnteInv'
<1>. SUFFICES ASSUME AnteInv, [Next]_vars PROVE AnteInv'
  OBVIOUS
<1>1. CASE UNCHANGED vars
  BY <1>1 DEF AnteInv, AnteTypes, OneStatePerHeight, StatesOf, vars
<1>2. ASSUME NEW n \in Nodes, NEW tx \in Txs, CheckTx(n, tx) PROVE AnteInv'
  BY <1>2, CheckTxStep
<1>3. ASSUME NEW n \in Nodes, Decide(n) PROVE AnteInv'
  BY <1>3, DecideStep
<1>4. ASSUME NEW n \in Nodes, FinalizeAndCommit(n) PROVE AnteInv'
  BY <1>4, FinalizeStep
<1>. QED
  BY <1>1, <1>2, <1>3, <1>4 DEF Next


-----------------------------------------------------------------------------
(* The theorems.                                                           *)

\* The handler, the mempool and the blocks of every node (app/ante.go, as
\* baseapp calls it) keep the invariant: one state for each height whatever the
\* nodes' settings, a log that tells sequences, fees and counters, and a mempool
\* that runs on from the committed state.
THEOREM AnteRuns == Spec => []AnteInv
<1>. QED
  BY AnteInit, AnteKeeps, PTL DEF Spec

LEMMA AgreeOnState == AnteInv => NodesAgree
<1>. SUFFICES ASSUME AnteInv, NEW m \in Nodes, NEW n \in Nodes, node[m].height = node[n].height
              PROVE  node[m].st = node[n].st
  BY DEF NodesAgree
<1>1. PICK S : StatesOf(S)
  BY DEF AnteInv, OneStatePerHeight
<1>. QED
  BY <1>1 DEF StatesOf

LEMMA AnsweredWithinLimit == AnteInv => SimulationLimited
<1>. SUFFICES ASSUME AnteInv, NEW n \in Nodes, NEW tx \in Txs,
                     SimulationGas[n] # None, Simulate(n, tx).ok
              PROVE  Simulate(n, tx).gas <= SimulationGas[n]
  BY DEF SimulationLimited
<1>1. AnteTypes
  BY DEF AnteInv
<1>2. PICK call : call = Call(n, "simulate", node[n].height)
  OBVIOUS
<1>3. call \in Calls /\ call.mode = "simulate" /\ call.n = n
  BY <1>1, <1>2, Records, CallIs DEF Modes
<1>4. PICK r : r = RunTx(node[n].check, tx, call)
  OBVIOUS
<1>5. Result(node[n].check, r, tx, call)
  BY <1>1, <1>3, <1>4, Records, RunTxIs
<1>6. Simulate(n, tx) = r
  BY <1>2, <1>4 DEF Simulate
<1>. QED
  BY <1>3, <1>5, <1>6 DEF Result

\* What a node's own configuration sets, the minimum fee, wasm's simulation limit
\* and the check of relays (NewAnteHandler), never reaches the execution of a
\* block, and a simulation that answers has kept to the limit.
THEOREM LocalSettings == Spec => []SettingsStayLocal
<1>1. AnteInv => SettingsStayLocal
  BY AgreeOnState, AnsweredWithinLimit DEF SettingsStayLocal
<1>. QED
  BY <1>1, AnteRuns, PTL

LEMMA HistoryInOrder == AnteInv => ChargesInOrder
<1>. SUFFICES ASSUME AnteInv PROVE ChargesInOrder
  OBVIOUS
<1>1. \A n \in Nodes : History(ran[n], node[n].st, node[n].height)
  BY DEF AnteInv
<1>2. SequencesInOrder
  BY <1>1 DEF History, InTurn, SameSigner, SequencesInOrder
<1>3. FeesCollected
  BY <1>1 DEF History, Fees, FeesCollected
<1>4. CountersConsecutive
  BY <1>1 DEF History, Counting, SameHeight, CountersConsecutive
<1>5. DisabledNotCharged
  BY <1>1 DEF History, Enabled, DisabledNotCharged
<1>. QED
  BY <1>2, <1>3, <1>4, <1>5 DEF ChargesInOrder

\* What the order of the decorators of NewAnteHandler promises: the charged
\* transactions of an account carry its sequence numbers in turn, their fees are
\* what is collected, a block's counters have no gap, and nothing disabled is
\* charged.
THEOREM OrderedCharges == Spec => []ChargesInOrder
<1>. QED
  BY HistoryInOrder, AnteRuns, PTL

LEMMA QueueRuns == AnteInv => MempoolCanRun
<1>. SUFFICES ASSUME AnteInv PROVE MempoolCanRun
  OBVIOUS
<1>1. \A n \in Nodes : Queue(node[n].st, node[n].check, node[n].pool)
  BY DEF AnteInv
<1>2. MempoolRuns
  BY <1>1 DEF Queue, RunsOn, Ahead, MempoolRuns
<1>3. PacketRelayedOnce
  BY <1>1 DEF Queue, RelaysOnce, Relays, PacketRelayedOnce
<1>. QED
  BY <1>2, <1>3 DEF MempoolCanRun

\* Across CheckTx, blocks of other proposers and rechecks that verify no
\* signature, a mempool holds a run of each account's sequence numbers from the
\* committed state, and no packet twice (the handler's RedundantRelayDecorator).
THEOREM RunnableMempool == Spec => []MempoolCanRun
<1>. QED
  BY QueueRuns, AnteRuns, PTL

LEMMA GoodAccepted == AnteInv => GoodTxsCharged
<1>. SUFFICES ASSUME AnteInv, NEW n \in Nodes, NEW tx \in Txs,
                     Deserves(node[n].st, tx, node[n].height)
              PROVE  RunTx(node[n].st, tx, Call(n, "deliver", node[n].height)).charged
  BY DEF GoodTxsCharged
<1>1. AnteTypes
  BY DEF AnteInv
<1>2. PICK call : call = Call(n, "deliver", node[n].height)
  OBVIOUS
<1>3. call \in Calls /\ call.mode = "deliver" /\ call.height = node[n].height
  BY <1>1, <1>2, Records, CallIs DEF Modes
<1>4. AnteHandler(node[n].st, tx, call).ok
  BY <1>1, <1>3, Records, DeservingAccepted
<1>5. RunTx(node[n].st, tx, call).charged <=> AnteHandler(node[n].st, tx, call).ok
  BY DEF RunTx
<1>. QED
  BY <1>2, <1>4, <1>5

\* No decorator refuses a well-formed, signed transaction that has its turn and
\* its fee, not even the first of an account without a public key: the key is
\* set (SetPubKeyDecorator) before it is needed.
THEOREM GoodOnesCharged == Spec => []GoodTxsCharged
<1>. QED
  BY GoodAccepted, AnteRuns, PTL

=============================================================================
