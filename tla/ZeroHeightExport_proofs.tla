------------------------ MODULE ZeroHeightExport_proofs ------------------------
(***************************************************************************)
(* Proofs about the zero-height export, for any number of validators,      *)
(* delegations and unbonding entries and any amounts.                      *)
(*                                                                         *)
(* The invariant says, for each phase of the call, what the loops have     *)
(* done and what they have left: who has been paid, how often each         *)
(* historical reward is referred to, which heights are reset and who is    *)
(* jailed.  Sums over the validators need lemmas of their own, which come  *)
(* before the steps.                                                       *)
(***************************************************************************)
EXTENDS ZeroHeightExport, FiniteSetTheorems, WellFoundedInduction, TLAPS

-----------------------------------------------------------------------------
(* The invariant.                                                          *)

\* What the loops run over, and what got the call past its first step.
Visiting ==
  /\ phase \in {"commissions", "validators"} => todo \subseteq Validators /\ todo # {}
  /\ phase \in {"rewards", "delegations"} => todo \subseteq Delegations /\ todo # {}
  /\ phase \notin {"commissions", "validators", "rewards", "delegations"} => todo = {}
  /\ phase \notin {"start", "done", "failed"} => zero
  /\ zero /\ phase \notin {"start", "failed"} => ~residue /\ Malformed \notin allowed

\* Who waits for its payment.
Unpaid ==
  IF phase = "start" THEN Delegations \cup Validators
  ELSE IF phase = "commissions" THEN todo \cup Delegations
  ELSE IF phase = "rewards" THEN todo ELSE {}

Payments ==
  /\ zero /\ phase # "failed" =>
       \A x \in Delegations \cup Validators :
         paid[x] = IF x \in Unpaid THEN 0 ELSE Whole(owed[x])
  /\ phase \in {"start", "commissions"} =>
       \A v \in Validators : v \in Unpaid => dist[v].commission = owed[v]

\* A validator's records have what it and its delegations wait for.
Enough(r, waiting) == r.outstanding >= r.current + r.commission + SumFunctionOnSet(owed, waiting)
Amounts ==
  /\ phase \in {"start", "commissions", "rewards"} =>
       \A v \in Validators : Enough(dist[v], Of(v) \cap Unpaid)
  /\ phase = "validators" => \A v \in Validators \ todo : dist[v].current = 0
  /\ phase = "delegations" => \A v \in Validators : dist[v].current = 0

\* Every visit of a delegation closes a period.
PeriodBound(v) ==
  LET new == Cardinality(Delegations) - Cardinality(todo) IN
  CASE phase \in {"start", "commissions"}         -> Periods + 1
    [] phase = "rewards"                          -> Periods + 1 + new
    [] phase = "validators" /\ v \notin todo      -> 1
    [] phase = "delegations"                      -> 1 + new
    [] OTHER                                      -> Periods + 1 + Cardinality(Delegations)
PeriodsFit == \A v \in Validators : dist[v].period <= PeriodBound(v)

\* The starting infos that refer to a validator's rewards.
Live(v) ==
  IF phase = "validators" THEN {}
  ELSE IF phase = "delegations" THEN Of(v) \ todo ELSE Of(v)

At(live, i, p) == {d \in live : i[d].period = p}
Counted(r, i, live, p) ==
  Cardinality(At(live, i, p))
    + (IF p \in r.slashes THEN 1 ELSE 0) + (IF p = r.period - 1 THEN 1 ELSE 0)

Fitting(r, i, live) ==
  /\ \A p \in AllPeriods : r.hist[p] = Counted(r, i, live, p)
  /\ \A d \in live : i[d].period < r.period
  /\ \A p \in r.slashes : p < r.period

Cleared(r) == r.slashes = {} /\ \A p \in AllPeriods : r.hist[p] = 0

Referred ==
  /\ \A v \in Validators :
       IF phase = "validators" /\ v \in todo THEN Cleared(dist[v])
       ELSE Fitting(dist[v], info, Live(v))
  /\ phase \in {"validators", "delegations"} => \A v \in Validators : dist[v].slashes = {}

Heights ==
  /\ phase = "delegations" => \A d \in Delegations \ todo : info[d].height = 0
  /\ zero /\ phase \in {"entries", "powers", "apply", "slashing", "done"} =>
       \A d \in Delegations : info[d].height = 0
  /\ zero /\ phase \in {"powers", "apply", "slashing", "done"} =>
       \A e \in Entries : created[e] = 0
  /\ zero /\ phase \in {"apply", "slashing", "done"} =>
       \A v \in Validators : val[v].unbondingHeight = 0
  /\ zero /\ phase = "done" => \A v \in Validators : signing[v] = 0

\* The power index is without those that were jailed before the export; those
\* the export jails stay in it.
Barred(v) == allowed # {} /\ v \notin allowed
Jailing ==
  /\ last = WithPower(val, index)
  /\ last = {v \in Validators : val[v].status = "bonded"}
  /\ IF zero /\ phase \in {"apply", "slashing", "done"}
     THEN \A v \in index : val[v].jailed <=> Barred(v)
     ELSE phase # "failed" => \A v \in Validators : val[v].jailed <=> v \notin index
  /\ zero /\ phase \in {"slashing", "done"} => \A v \in Reached(val, index) : ~val[v].jailed
  /\ phase = "failed" => residue \/ Malformed \in allowed \/ Excluded

ExportInv ==
  /\ TypeOK /\ Visiting /\ Payments /\ Amounts /\ EscrowCovered
  /\ PeriodsFit /\ Referred /\ Heights /\ Jailing

-----------------------------------------------------------------------------
(* Sums.  The induction is over the size of a set, by a least              *)
(* counterexample.                                                         *)

LEMMA LeastNat ==
  ASSUME NEW B \in SUBSET Nat, B # {}
  PROVE  \E n \in B : \A m \in B : n <= m
<1>1. PICK n \in B : \A m \in B : <<m, n>> \notin OpToRel(<, Nat)
  BY NatLessThanWellFounded, WFMin
<1>2. \A m \in B : ~(m < n)
  BY <1>1 DEF OpToRel
<1>. QED
  BY <1>2

\* A set of numbers with 0 and every successor has them all.
LEMMA AllNat ==
  ASSUME NEW P \in SUBSET Nat, 0 \in P, \A n \in P : n + 1 \in P
  PROVE  P = Nat
<1>. SUFFICES ASSUME Nat \ P # {} PROVE FALSE
  OBVIOUS
<1>1. PICK n \in Nat \ P : \A m \in Nat \ P : n <= m
  BY LeastNat
<1>2. n # 0 /\ n - 1 \in Nat /\ ~(n <= n - 1)
  BY <1>1
<1>3. n - 1 \in P
  BY <1>1, <1>2
<1>. QED
  BY <1>1, <1>3

Pick(s) == CHOOSE x \in s : TRUE

\* The equation of a sum over the subsets of S with at most n elements.
Sums(g, f, S) ==
  g = [s \in SUBSET S |-> IF s = {} THEN 0 ELSE f[Pick(s)] + g[s \ {Pick(s)}]]
UpTo(S, n) == {s \in SUBSET S : Cardinality(s) <= n}
SumsUpTo(g, f, S, n) ==
  g = [s \in UpTo(S, n) |-> IF s = {} THEN 0 ELSE f[Pick(s)] + g[s \ {Pick(s)}]]

LEMMA SumDef ==
  ASSUME NEW f, NEW S
  PROVE  SumFunctionOnSet(f, S) = (CHOOSE g : Sums(g, f, S))[S]
BY DEF SumFunctionOnSet, FoldFunctionOnSet, MapThenFoldSet, Sums, Pick

LEMMA PickSmaller ==
  ASSUME NEW S, IsFiniteSet(S), NEW s \in SUBSET S, s # {}
  PROVE  /\ Pick(s) \in s /\ s \ {Pick(s)} \in SUBSET S /\ IsFiniteSet(s)
         /\ Cardinality(s) \in Nat /\ Cardinality(s) > 0
         /\ Cardinality(s \ {Pick(s)}) = Cardinality(s) - 1
<1>1. Pick(s) \in s
  BY DEF Pick
<1>2. IsFiniteSet(s)
  BY FS_Subset
<1>. QED
  BY <1>1, <1>2, FS_RemoveElement, FS_CardinalityType, FS_EmptySet

LEMMA SumsExist ==
  ASSUME NEW f, NEW S, IsFiniteSet(S)
  PROVE  \E g : Sums(g, f, S)
<1>. DEFINE P == {n \in Nat : \E g : SumsUpTo(g, f, S, n)}
<1>1. 0 \in P
  <2>. DEFINE g == [s \in UpTo(S, 0) |-> 0]
  <2>1. \A s \in UpTo(S, 0) : s = {}
    BY FS_EmptySet, FS_Subset, FS_CardinalityType DEF UpTo
  <2>2. SumsUpTo(g, f, S, 0)
    BY <2>1 DEF SumsUpTo
  <2>. QED
    BY <2>2
<1>2. ASSUME NEW n \in P PROVE n + 1 \in P
  <2>1. PICK g : SumsUpTo(g, f, S, n)
    OBVIOUS
  <2>. DEFINE Eq(h, s) == IF s = {} THEN 0 ELSE f[Pick(s)] + h[s \ {Pick(s)}]
              h == [s \in UpTo(S, n + 1) |-> Eq(g, s)]
  <2>2. ASSUME NEW s \in UpTo(S, n + 1), s # {}
        PROVE  s \ {Pick(s)} \in UpTo(S, n) /\ s \ {Pick(s)} \in UpTo(S, n + 1)
    BY <2>2, PickSmaller DEF UpTo
  <2>3. \A s \in UpTo(S, n) : s \in UpTo(S, n + 1)
    <3>. SUFFICES ASSUME NEW s \in UpTo(S, n) PROVE s \in UpTo(S, n + 1)
      OBVIOUS
    <3>1. s \in SUBSET S /\ Cardinality(s) <= n
      BY DEF UpTo
    <3>2. Cardinality(s) \in Nat
      BY <3>1, FS_Subset, FS_CardinalityType
    <3>. QED
      BY <3>1, <3>2 DEF UpTo
  <2>4. \A s \in UpTo(S, n) : g[s] = Eq(g, s)
    BY <2>1 DEF SumsUpTo
  <2>5. \A s \in UpTo(S, n + 1) : h[s] = Eq(g, s)
    OBVIOUS
  <2>6. \A s \in UpTo(S, n) : h[s] = g[s]
    BY <2>3, <2>4, <2>5
  <2>7. ASSUME NEW s \in UpTo(S, n + 1) PROVE Eq(g, s) = Eq(h, s)
    <3>1. CASE s = {}
      BY <3>1
    <3>2. CASE s # {}
      <4>1. h[s \ {Pick(s)}] = g[s \ {Pick(s)}]
        BY <2>2, <2>6, <3>2
      <4>. QED
        BY <3>2, <4>1
    <3>. QED
      BY <3>1, <3>2
  <2>8. h = [s \in UpTo(S, n + 1) |-> Eq(h, s)]
    <3>1. \A s \in UpTo(S, n + 1) : h[s] = Eq(h, s)
      BY <2>5, <2>7
    <3>2. h = [s \in UpTo(S, n + 1) |-> h[s]]
      OBVIOUS
    <3>. HIDE DEF h
    <3>. QED
      BY <3>1, <3>2
  <2>9. SumsUpTo(h, f, S, n + 1)
    BY <2>8 DEF SumsUpTo
  <2>. QED
    BY <2>9
<1>3. P = Nat
  BY <1>1, <1>2, AllNat
<1>4. Cardinality(S) \in Nat
  BY FS_CardinalityType
<1>5. PICK g : SumsUpTo(g, f, S, Cardinality(S))
  BY <1>3, <1>4
<1>6. UpTo(S, Cardinality(S)) = SUBSET S
  BY FS_Subset DEF UpTo
<1>7. Sums(g, f, S)
  BY <1>5, <1>6 DEF Sums, SumsUpTo
<1>. QED
  BY <1>7

\* Two sums agree where both are defined, when their summands do.
LEMMA SumsAgree ==
  ASSUME NEW f, NEW S, NEW g, Sums(g, f, S), IsFiniteSet(S),
         NEW e, NEW T, NEW h, Sums(h, e, T), IsFiniteSet(T)
  PROVE  \A s \in SUBSET (S \cap T) : (\A x \in s : f[x] = e[x]) => g[s] = h[s]
<1>. DEFINE Good(s) == (\A x \in s : f[x] = e[x]) => g[s] = h[s]
            P == {n \in Nat : \A s \in SUBSET (S \cap T) : Cardinality(s) = n => Good(s)}
<1>0. ASSUME NEW s \in SUBSET (S \cap T)
      PROVE  s \in SUBSET S /\ s \in SUBSET T
  OBVIOUS
<1>1. 0 \in P
  <2>. SUFFICES ASSUME NEW s \in SUBSET (S \cap T), Cardinality(s) = 0 PROVE g[s] = h[s]
    OBVIOUS
  <2>1. s = {}
    BY FS_Subset, FS_EmptySet
  <2>. QED
    BY <2>1 DEF Sums
<1>2. ASSUME NEW n \in P PROVE n + 1 \in P
  <2>. SUFFICES ASSUME NEW s \in SUBSET (S \cap T), Cardinality(s) = n + 1,
                       \A x \in s : f[x] = e[x]
                PROVE  g[s] = h[s]
    OBVIOUS
  <2>1. s # {} /\ n \in Nat
    BY FS_EmptySet
  <2>2. Pick(s) \in s /\ Cardinality(s \ {Pick(s)}) = n
    BY <2>1, PickSmaller
  <2>3. g[s \ {Pick(s)}] = h[s \ {Pick(s)}]
    BY <2>2
  <2>4. g[s] = f[Pick(s)] + g[s \ {Pick(s)}]
    BY <2>1 DEF Sums
  <2>5. h[s] = e[Pick(s)] + h[s \ {Pick(s)}]
    BY <2>1 DEF Sums
  <2>. QED
    BY <2>2, <2>3, <2>4, <2>5
<1>3. P = Nat
  BY <1>1, <1>2, AllNat
<1>4. \A s \in SUBSET (S \cap T) : Cardinality(s) \in Nat
  BY FS_Subset, FS_CardinalityType
<1>. QED
  BY <1>3, <1>4

\* The value is that of any solution of the equation.
LEMMA SumIs ==
  ASSUME NEW f, NEW S, IsFiniteSet(S), NEW g, Sums(g, f, S), NEW s \in SUBSET S
  PROVE  SumFunctionOnSet(f, s) = g[s]
<1>1. IsFiniteSet(s)
  BY FS_Subset
<1>2. PICK h : h = CHOOSE x : Sums(x, f, s)
  OBVIOUS
<1>3. Sums(h, f, s)
  BY <1>1, <1>2, SumsExist
<1>4. SumFunctionOnSet(f, s) = h[s]
  BY <1>2, SumDef
<1>5. s \in SUBSET (S \cap s)
  OBVIOUS
<1>6. g[s] = h[s]
  BY <1>1, <1>3, <1>5, SumsAgree
<1>. QED
  BY <1>4, <1>6

LEMMA SumEmpty == \A f : SumFunctionOnSet(f, {}) = 0
<1>. SUFFICES ASSUME NEW f PROVE SumFunctionOnSet(f, {}) = 0
  OBVIOUS
<1>1. PICK g : Sums(g, f, {})
  BY SumsExist, FS_EmptySet
<1>2. g[{}] = 0
  BY <1>1 DEF Sums
<1>. QED
  BY <1>1, <1>2, SumIs, FS_EmptySet

LEMMA SumCong ==
  ASSUME NEW S, IsFiniteSet(S), NEW f, NEW e, \A x \in S : f[x] = e[x]
  PROVE  SumFunctionOnSet(f, S) = SumFunctionOnSet(e, S)
<1>1. PICK g : Sums(g, f, S)
  BY SumsExist
<1>2. PICK h : Sums(h, e, S)
  BY SumsExist
<1>3. g[S] = h[S]
  BY <1>1, <1>2, SumsAgree
<1>. QED
  BY <1>1, <1>2, <1>3, SumIs

LEMMA SumPick ==
  ASSUME NEW S, IsFiniteSet(S), NEW f, NEW s \in SUBSET S, s # {}
  PROVE  SumFunctionOnSet(f, s) = f[Pick(s)] + SumFunctionOnSet(f, s \ {Pick(s)})
<1>1. PICK g : Sums(g, f, S)
  BY SumsExist
<1>2. g[s] = f[Pick(s)] + g[s \ {Pick(s)}]
  BY <1>1 DEF Sums
<1>3. s \ {Pick(s)} \in SUBSET S
  OBVIOUS
<1>. QED
  BY <1>1, <1>2, <1>3, SumIs

\* A sum of natural numbers is one; in any order.
LEMMA SumNat ==
  ASSUME NEW S, IsFiniteSet(S), NEW f, \A x \in S : f[x] \in Nat
  PROVE  SumFunctionOnSet(f, S) \in Nat
<1>. DEFINE P == {n \in Nat : \A s \in SUBSET S : Cardinality(s) = n => SumFunctionOnSet(f, s) \in Nat}
<1>1. 0 \in P
  BY SumEmpty, FS_Subset, FS_EmptySet
<1>2. ASSUME NEW n \in P PROVE n + 1 \in P
  <2>. SUFFICES ASSUME NEW s \in SUBSET S, Cardinality(s) = n + 1
                PROVE  SumFunctionOnSet(f, s) \in Nat
    OBVIOUS
  <2>1. s # {} /\ n \in Nat
    BY FS_EmptySet
  <2>2. Pick(s) \in s /\ Cardinality(s \ {Pick(s)}) = n
    BY <2>1, PickSmaller
  <2>3. SumFunctionOnSet(f, s \ {Pick(s)}) \in Nat
    BY <2>2
  <2>. QED
    BY <2>1, <2>2, <2>3, SumPick
<1>3. P = Nat
  BY <1>1, <1>2, AllNat
<1>4. Cardinality(S) \in Nat
  BY FS_CardinalityType
<1>. QED
  BY <1>3, <1>4

LEMMA SumRemove ==
  ASSUME NEW S, IsFiniteSet(S), NEW f, \A x \in S : f[x] \in Nat, NEW y \in S
  PROVE  SumFunctionOnSet(f, S) = f[y] + SumFunctionOnSet(f, S \ {y})
<1>. DEFINE Good(s) == \A x \in s : SumFunctionOnSet(f, s) = f[x] + SumFunctionOnSet(f, s \ {x})
            P == {n \in Nat : \A s \in SUBSET S : Cardinality(s) = n => Good(s)}
<1>0. \A s \in SUBSET S : SumFunctionOnSet(f, s) \in Nat
  BY SumNat, FS_Subset
<1>1. 0 \in P
  BY FS_Subset, FS_EmptySet
<1>2. ASSUME NEW n \in P PROVE n + 1 \in P
  <2>. SUFFICES ASSUME NEW s \in SUBSET S, Cardinality(s) = n + 1, NEW x \in s
                PROVE  SumFunctionOnSet(f, s) = f[x] + SumFunctionOnSet(f, s \ {x})
    OBVIOUS
  <2>1. s # {} /\ n \in Nat
    BY FS_EmptySet
  <2>. DEFINE c == Pick(s)
  <2>2. c \in s /\ Cardinality(s \ {c}) = n /\ Cardinality(s \ {x}) = n /\ IsFiniteSet(s)
    <3>1. c \in s /\ Cardinality(s \ {c}) = n
      BY <2>1, PickSmaller
    <3>2. IsFiniteSet(s)
      BY FS_Subset
    <3>3. Cardinality(s \ {x}) = Cardinality(s) - 1
      BY <3>2, FS_RemoveElement
    <3>. QED
      BY <2>1, <3>1, <3>2, <3>3
  <2>3. SumFunctionOnSet(f, s) = f[c] + SumFunctionOnSet(f, s \ {c})
    BY <2>1, SumPick
  <2>. HIDE DEF c
  <2>4. CASE c = x
    BY <2>3, <2>4
  <2>5. CASE c # x
    <3>1. SumFunctionOnSet(f, s \ {c}) = f[x] + SumFunctionOnSet(f, (s \ {c}) \ {x})
      BY <2>2, <2>5
    <3>2. SumFunctionOnSet(f, s \ {x}) = f[c] + SumFunctionOnSet(f, (s \ {x}) \ {c})
      BY <2>2, <2>5
    <3>3. (s \ {c}) \ {x} = (s \ {x}) \ {c}
      OBVIOUS
    <3>4. SumFunctionOnSet(f, (s \ {x}) \ {c}) \in Nat
      BY <1>0
    <3>5. f[x] \in Nat /\ f[c] \in Nat
      BY <2>2
    <3>6. SumFunctionOnSet(f, s \ {x}) = f[c] + SumFunctionOnSet(f, (s \ {c}) \ {x})
      BY <3>2, <3>3
    <3>. QED
      BY <2>3, <3>1, <3>3, <3>4, <3>5, <3>6
  <2>. QED
    BY <2>4, <2>5
<1>3. P = Nat
  BY <1>1, <1>2, AllNat
<1>4. Cardinality(S) \in Nat
  BY FS_CardinalityType
<1>. QED
  BY <1>3, <1>4

\* One summand changes.
LEMMA SumUpdate ==
  ASSUME NEW S, IsFiniteSet(S), NEW f, NEW e, \A x \in S : f[x] \in Nat /\ e[x] \in Nat,
         NEW y \in S, \A x \in S : x # y => f[x] = e[x]
  PROVE  SumFunctionOnSet(e, S) = SumFunctionOnSet(f, S) - f[y] + e[y]
<1>1. SumFunctionOnSet(f, S) = f[y] + SumFunctionOnSet(f, S \ {y})
  BY SumRemove
<1>2. SumFunctionOnSet(e, S) = e[y] + SumFunctionOnSet(e, S \ {y})
  BY SumRemove
<1>3. IsFiniteSet(S \ {y})
  BY FS_RemoveElement
<1>4. SumFunctionOnSet(e, S \ {y}) = SumFunctionOnSet(f, S \ {y})
  BY <1>3, SumCong
<1>5. SumFunctionOnSet(f, S \ {y}) \in Nat
  BY <1>3, SumNat
<1>. QED
  BY <1>1, <1>2, <1>4, <1>5

-----------------------------------------------------------------------------
(* Constants and operators.                                                *)

N == Cardinality(Delegations)

LEMMA Consts ==
  /\ Validators \subseteq Nat /\ IsFiniteSet(Validators) /\ IsFiniteSet(Delegations)
  /\ Delegations \cap Validators = {} /\ Validators # {} /\ Delegations # {}
  /\ To \in [Delegations -> Validators] /\ N \in Nat /\ N > 0
  /\ Height \in Nat /\ Height # 0 /\ Unit \in Nat /\ Unit > 0 /\ Periods \in Nat /\ Periods > 0
  /\ AllPeriods = 0 .. Periods + N /\ Cardinality(AllPeriods) = Periods + N + 1
<1>1. /\ IsFiniteSet(Validators) /\ IsFiniteSet(Delegations) /\ Periods \in Nat /\ Periods > 0
      /\ Delegations # {}
  BY ExportAssumption
<1>2. N \in Nat /\ N > 0
  BY <1>1, FS_CardinalityType, FS_EmptySet DEF N
<1>3. AllPeriods = 0 .. Periods + N
  BY DEF AllPeriods, N
<1>4. Cardinality(0 .. Periods + N) = Periods + N + 1
  BY <1>1, <1>2, FS_Interval
<1>. QED
  BY <1>1, <1>2, <1>3, <1>4, ExportAssumption

LEMMA OfFacts ==
  /\ \A v \in Validators : Of(v) \subseteq Delegations
  /\ \A d \in Delegations : To[d] \in Validators /\ d \in Of(To[d])
  /\ \A d \in Delegations, v \in Validators : d \in Of(v) => v = To[d]
  BY Consts DEF Of

\* Where the periods lie that m visits are still to come after.
LEMMA PeriodsReached ==
  ASSUME NEW k \in Nat, k > 0, NEW m \in Nat, m > 0, k <= Periods + 1 + (N - m)
  PROVE  k \in AllPeriods /\ k - 1 \in AllPeriods
<1>1. k \in 0 .. Periods + N /\ k - 1 \in 0 .. Periods + N
  BY Consts
<1>. QED
  BY <1>1, Consts

LEMMA DivideFits ==
  ASSUME NEW x \in Nat, NEW u \in Nat, u > 0
  PROVE  (x \div u) * u \in Nat /\ (x \div u) * u <= x
<1>1. x \div u \in Nat
  OBVIOUS
<1>. DEFINE q == x \div u
<1>. HIDE DEF q
<1>2. q * u \in Nat
  BY <1>1 DEF q
<1>3. (x \div u) * u <= x
  OBVIOUS
<1>. QED
  BY <1>2, <1>3 DEF q

LEMMA WholeFits ==
  \A x \in Nat : Whole(x) \in Nat /\ Remainder(x) \in Nat /\ Whole(x) <= x
                 /\ Whole(x) + Remainder(x) = x
<1>. SUFFICES ASSUME NEW x \in Nat PROVE Whole(x) \in Nat /\ Whole(x) <= x
  BY DEF Remainder
<1>. QED
  BY Consts, DivideFits DEF Whole

\* A bound that grows by one with each visit.
LEMMA OneMore ==
  ASSUME NEW before \in Nat, NEW after \in Nat, NEW base \in Nat, NEW left \in Nat,
         before <= base + (N - left), after <= before + 1
  PROVE  after <= base + (N - (left - 1))
BY Consts

\* The validator that is visited next is one of those left.
LEMMA NextIsLeft ==
  ASSUME NEW S, S \subseteq Validators, S # {}
  PROVE  Min(S) \in S
<1>1. PICK n \in S : \A m \in S : n <= m
  BY Consts, LeastNat
<1>. QED
  BY <1>1 DEF Min

LEMMA VisitLeaves ==
  ASSUME NEW x \in todo, NEW after, NEW next, Visit(x, after, next)
  PROVE  \/ todo = {x} /\ phase' = after /\ todo' = next
         \/ todo \ {x} # {} /\ phase' = phase /\ todo' = todo \ {x}
  BY DEF Visit

-----------------------------------------------------------------------------
(* A validator's records.                                                  *)

Records ==
  [outstanding : Nat, commission : Nat, current : Nat, slashes : SUBSET (1 .. Periods),
   period : 1 .. Cardinality(AllPeriods), hist : [AllPeriods -> Nat]]

\* While a record is rewritten its numbers are integers.
Rewritten ==
  [outstanding : Int, commission : Nat, current : Nat, slashes : SUBSET (1 .. Periods),
   period : Nat, hist : [AllPeriods -> Int]]

LEMMA RecordPeriod ==
  ASSUME NEW r \in Records
  PROVE  r.period \in Nat /\ r.period > 0
<1>1. r.period \in 1 .. Cardinality(AllPeriods)
  BY DEF Records
<1>. QED
  BY <1>1, Consts

LEMMA RecordsRewritten == Records \subseteq Rewritten
<1>1. [AllPeriods -> Nat] \subseteq [AllPeriods -> Int]
  OBVIOUS
<1>2. 1 .. Cardinality(AllPeriods) \subseteq Nat
  OBVIOUS
<1>. QED
  BY <1>1, <1>2 DEF Records, Rewritten

LEMMA IncrementFields ==
  ASSUME NEW r \in Rewritten, NEW v, Unshared(r, v) \in Nat,
         r.period \in AllPeriods, r.period - 1 \in AllPeriods
  PROVE  /\ IncrementPeriod(r, v) \in Rewritten
         /\ IncrementPeriod(r, v).outstanding = r.outstanding - Unshared(r, v)
         /\ IncrementPeriod(r, v).commission = r.commission
         /\ IncrementPeriod(r, v).current = 0 /\ IncrementPeriod(r, v).slashes = r.slashes
         /\ IncrementPeriod(r, v).period = r.period + 1
         /\ \A p \in AllPeriods :
              IncrementPeriod(r, v).hist[p] =
                IF p = r.period THEN 1
                ELSE IF p = r.period - 1 THEN r.hist[p] - 1 ELSE r.hist[p]
<1>. DEFINE u  == r.outstanding - Unshared(r, v)
            s1 == [r EXCEPT !.outstanding = u]
            s2 == [s1 EXCEPT !.current = 0]
            s3 == [s2 EXCEPT !.hist[r.period - 1] = @ - 1]
            s4 == [s3 EXCEPT !.hist[r.period] = 1]
            s5 == [s4 EXCEPT !.period = @ + 1]
<1>1. IncrementPeriod(r, v) = s5
  BY DEF IncrementPeriod
<1>2. u \in Int
  BY DEF Rewritten
<1>. HIDE DEF u
<1>3. s1 \in Rewritten /\ s1.outstanding = u /\ s1.commission = r.commission
      /\ s1.slashes = r.slashes /\ s1.period = r.period /\ s1.hist = r.hist
  BY <1>2 DEF Rewritten
<1>. HIDE DEF s1
<1>4. s2 \in Rewritten /\ s2.outstanding = u /\ s2.commission = r.commission /\ s2.current = 0
      /\ s2.slashes = r.slashes /\ s2.period = r.period /\ s2.hist = r.hist
  BY <1>3 DEF Rewritten
<1>. HIDE DEF s2
<1>5. s3 \in Rewritten /\ s3.outstanding = u /\ s3.commission = r.commission /\ s3.current = 0
      /\ s3.slashes = r.slashes /\ s3.period = r.period
      /\ \A p \in AllPeriods :
           s3.hist[p] = IF p = r.period - 1 THEN r.hist[p] - 1 ELSE r.hist[p]
  BY <1>4 DEF Rewritten
<1>. HIDE DEF s3
<1>6. s4 \in Rewritten /\ s4.outstanding = u /\ s4.commission = r.commission /\ s4.current = 0
      /\ s4.slashes = r.slashes /\ s4.period = r.period
      /\ \A p \in AllPeriods : s4.hist[p] = IF p = r.period THEN 1 ELSE s3.hist[p]
  BY <1>5 DEF Rewritten
<1>. HIDE DEF s4
<1>7. s5 \in Rewritten /\ s5.outstanding = u /\ s5.commission = r.commission /\ s5.current = 0
      /\ s5.slashes = r.slashes /\ s5.period = r.period + 1 /\ s5.hist = s4.hist
  BY <1>6 DEF Rewritten
<1>. HIDE DEF s5
<1>8. u = r.outstanding - Unshared(r, v)
  BY DEF u
<1>9. \A p \in AllPeriods :
        s5.hist[p] = IF p = r.period THEN 1
                     ELSE IF p = r.period - 1 THEN r.hist[p] - 1 ELSE r.hist[p]
  BY <1>5, <1>6, <1>7
<1>. QED
  BY <1>1, <1>7, <1>8, <1>9

\* t is r with n more references to period q.
Refers(t, r, q, n) ==
  /\ t \in Rewritten /\ t.outstanding = r.outstanding /\ t.commission = r.commission
  /\ t.current = r.current /\ t.slashes = r.slashes /\ t.period = r.period
  /\ \A p \in AllPeriods : t.hist[p] = IF p = q THEN r.hist[p] + n ELSE r.hist[p]

LEMMA ReferFields ==
  ASSUME NEW r \in Rewritten, NEW q \in AllPeriods, NEW n \in Int
  PROVE  Refers(Refer(r, q, n), r, q, n)
<1>. DEFINE h == [r.hist EXCEPT ![q] = @ + n]
            s == [outstanding |-> r.outstanding, commission |-> r.commission,
                  current |-> r.current, slashes |-> r.slashes, period |-> r.period, hist |-> h]
<1>1. r = [outstanding |-> r.outstanding, commission |-> r.commission, current |-> r.current,
           slashes |-> r.slashes, period |-> r.period, hist |-> r.hist]
  BY DEF Rewritten
<1>2. Refer(r, q, n) = s
  BY <1>1 DEF Refer
<1>3. r.hist \in [AllPeriods -> Int]
  BY DEF Rewritten
<1>4. h \in [AllPeriods -> Int]
      /\ \A p \in AllPeriods : h[p] = IF p = q THEN r.hist[p] + n ELSE r.hist[p]
  BY <1>3
<1>. HIDE DEF h
<1>5. s \in Rewritten
  BY <1>4 DEF Rewritten
<1>6. Refers(s, r, q, n)
  BY <1>4, <1>5 DEF Refers
<1>. QED
  BY <1>2, <1>6

LEMMA CreatedFields ==
  ASSUME NEW r \in Rewritten
  PROVE  /\ Created(r) \in Rewritten /\ Created(r).outstanding = 0
         /\ Created(r).commission = 0 /\ Created(r).current = 0
         /\ Created(r).slashes = r.slashes /\ Created(r).period = 1
         /\ \A p \in AllPeriods : Created(r).hist[p] = IF p = 0 THEN 1 ELSE r.hist[p]
<1>. DEFINE s1 == [r EXCEPT !.outstanding = 0]
            s2 == [s1 EXCEPT !.commission = 0]
            s3 == [s2 EXCEPT !.current = 0]
            s4 == [s3 EXCEPT !.hist[0] = 1]
            s5 == [s4 EXCEPT !.period = 1]
<1>1. Created(r) = s5
  BY DEF Created
<1>2. s1 \in Rewritten /\ s1.outstanding = 0 /\ s1.slashes = r.slashes /\ s1.hist = r.hist
  BY DEF Rewritten
<1>. HIDE DEF s1
<1>3. s2 \in Rewritten /\ s2.outstanding = 0 /\ s2.commission = 0
      /\ s2.slashes = r.slashes /\ s2.hist = r.hist
  BY <1>2 DEF Rewritten
<1>. HIDE DEF s2
<1>4. s3 \in Rewritten /\ s3.outstanding = 0 /\ s3.commission = 0 /\ s3.current = 0
      /\ s3.slashes = r.slashes /\ s3.hist = r.hist
  BY <1>3 DEF Rewritten
<1>. HIDE DEF s3
<1>5. 0 \in AllPeriods
  BY Consts
<1>6. s4 \in Rewritten /\ s4.outstanding = 0 /\ s4.commission = 0 /\ s4.current = 0
      /\ s4.slashes = r.slashes
      /\ \A p \in AllPeriods : s4.hist[p] = IF p = 0 THEN 1 ELSE r.hist[p]
  BY <1>4, <1>5 DEF Rewritten
<1>. HIDE DEF s4
<1>7. s5 \in Rewritten /\ s5.outstanding = 0 /\ s5.commission = 0 /\ s5.current = 0
      /\ s5.slashes = r.slashes /\ s5.period = 1 /\ s5.hist = s4.hist
  BY <1>6 DEF Rewritten
<1>. HIDE DEF s5
<1>. QED
  BY <1>1, <1>6, <1>7

-----------------------------------------------------------------------------
(* References.                                                             *)

\* A starting info that moves is counted at its new period.
LEMMA CountMoves ==
  ASSUME NEW L, IsFiniteSet(L), NEW d \in L, NEW i, NEW j,
         \A e \in L : e # d => j[e] = i[e], NEW p
  PROVE  Cardinality(At(L, j, p)) =
           Cardinality(At(L, i, p))
             - (IF i[d].period = p THEN 1 ELSE 0) + (IF j[d].period = p THEN 1 ELSE 0)
<1>. DEFINE R == {e \in L : e # d /\ i[e].period = p}
            A == At(L, i, p)
            B == At(L, j, p)
<1>1. A = IF i[d].period = p THEN R \cup {d} ELSE R
  BY DEF At
<1>2. B = IF j[d].period = p THEN R \cup {d} ELSE R
  BY DEF At
<1>3. IsFiniteSet(R)
  BY FS_Subset
<1>4. d \notin R
  OBVIOUS
<1>. HIDE DEF A, B, R
<1>5. Cardinality(R) \in Nat /\ Cardinality(R \cup {d}) = Cardinality(R) + 1
  BY <1>3, <1>4, FS_AddElement, FS_CardinalityType
<1>6. Cardinality(A) = IF i[d].period = p THEN Cardinality(R) + 1 ELSE Cardinality(R)
  BY <1>1, <1>5
<1>7. Cardinality(B) = IF j[d].period = p THEN Cardinality(R) + 1 ELSE Cardinality(R)
  BY <1>2, <1>5
<1>8. Cardinality(B) = Cardinality(A) - (IF i[d].period = p THEN 1 ELSE 0)
                         + (IF j[d].period = p THEN 1 ELSE 0)
  BY <1>5, <1>6, <1>7
<1>. QED
  BY <1>8 DEF A, B

LEMMA CountAdds ==
  ASSUME NEW L, IsFiniteSet(L), NEW d, d \notin L, NEW M, M = L \cup {d}, NEW i, NEW j,
         \A e \in L : j[e] = i[e], NEW p
  PROVE  Cardinality(At(M, j, p)) =
           Cardinality(At(L, i, p)) + (IF j[d].period = p THEN 1 ELSE 0)
<1>. DEFINE A == At(L, i, p)
            B == At(M, j, p)
<1>1. B = IF j[d].period = p THEN A \cup {d} ELSE A
  BY DEF At
<1>2. IsFiniteSet(A) /\ d \notin A
  BY FS_Subset DEF At
<1>. HIDE DEF A, B
<1>3. Cardinality(A) \in Nat /\ Cardinality(A \cup {d}) = Cardinality(A) + 1
  BY <1>2, FS_AddElement, FS_CardinalityType
<1>4. Cardinality(B) = Cardinality(A) + (IF j[d].period = p THEN 1 ELSE 0)
  BY <1>1, <1>3
<1>. QED
  BY <1>4 DEF A, B

LEMMA CountNat ==
  ASSUME NEW L, IsFiniteSet(L), NEW i, NEW p
  PROVE  /\ Cardinality(At(L, i, p)) \in Nat
         /\ (\A e \in L : i[e].period # p) => Cardinality(At(L, i, p)) = 0
<1>. DEFINE A == At(L, i, p)
<1>1. IsFiniteSet(A)
  BY FS_Subset DEF At
<1>2. (\A e \in L : i[e].period # p) => A = {}
  BY DEF At
<1>. QED
  BY <1>1, <1>2, FS_CardinalityType, FS_EmptySet

\* The record of a validator when a delegation has withdrawn w, and when one is
\* started anew.
Withdrawn(r, v, q, w) ==
  LET c == Refer(IncrementPeriod(r, v), q, -1)
  IN  Refer([c EXCEPT !.outstanding = @ - w], c.period - 1, 1)
Restarted(r, v) == LET c == IncrementPeriod(r, v) IN Refer(c, c.period - 1, 1)

LEMMA WithdrawnFields ==
  ASSUME NEW r \in Rewritten, NEW v, Unshared(r, v) \in Nat, NEW q \in AllPeriods, NEW w \in Nat,
         r.period \in AllPeriods, r.period - 1 \in AllPeriods, q < r.period
  PROVE  /\ Withdrawn(r, v, q, w) \in Rewritten
         /\ Withdrawn(r, v, q, w).outstanding = r.outstanding - Unshared(r, v) - w
         /\ Withdrawn(r, v, q, w).commission = r.commission
         /\ Withdrawn(r, v, q, w).current = 0
         /\ Withdrawn(r, v, q, w).slashes = r.slashes
         /\ Withdrawn(r, v, q, w).period = r.period + 1
         /\ \A p \in AllPeriods :
              Withdrawn(r, v, q, w).hist[p] =
                IF p = r.period THEN 2
                ELSE r.hist[p] - (IF p = r.period - 1 THEN 1 ELSE 0) - (IF p = q THEN 1 ELSE 0)
<1>. DEFINE b == IncrementPeriod(r, v)
            c == Refer(b, q, -1)
            e == [c EXCEPT !.outstanding = @ - w]
            t == Refer(e, c.period - 1, 1)
<1>1. Withdrawn(r, v, q, w) = t
  BY DEF Withdrawn
<1>2. /\ b \in Rewritten /\ b.outstanding = r.outstanding - Unshared(r, v)
      /\ b.commission = r.commission /\ b.current = 0 /\ b.slashes = r.slashes
      /\ b.period = r.period + 1
      /\ \A p \in AllPeriods :
           b.hist[p] = IF p = r.period THEN 1
                       ELSE IF p = r.period - 1 THEN r.hist[p] - 1 ELSE r.hist[p]
  BY IncrementFields
<1>. HIDE DEF b
<1>3. Refers(c, b, q, -1)
  BY <1>2, ReferFields
<1>. HIDE DEF c
<1>4. /\ e \in Rewritten /\ e.outstanding = c.outstanding - w /\ e.commission = c.commission
      /\ e.current = c.current /\ e.slashes = c.slashes /\ e.period = c.period /\ e.hist = c.hist
  BY <1>3 DEF Rewritten, Refers
<1>. HIDE DEF e
<1>5. c.period - 1 = r.period /\ c.period = r.period + 1
  <2>1. r.period \in Int
    BY DEF Rewritten
  <2>. QED
    BY <1>2, <1>3, <2>1 DEF Refers
<1>6. Refers(t, e, c.period - 1, 1)
  BY <1>4, <1>5, ReferFields
<1>. HIDE DEF t
<1>7. ASSUME NEW p \in AllPeriods
      PROVE  t.hist[p] = IF p = r.period THEN 2
                         ELSE r.hist[p] - (IF p = r.period - 1 THEN 1 ELSE 0)
                                - (IF p = q THEN 1 ELSE 0)
  <2>1. r.hist[p] \in Int /\ r.period \in Int /\ q \in Int /\ p \in Int
    BY Consts DEF Rewritten
  <2>. QED
    BY <1>2, <1>3, <1>4, <1>5, <1>6, <2>1 DEF Refers
<1>8. t.outstanding = r.outstanding - Unshared(r, v) - w
  BY <1>2, <1>3, <1>4, <1>6 DEF Refers
<1>. QED
  BY <1>1, <1>2, <1>3, <1>4, <1>5, <1>6, <1>7, <1>8 DEF Refers

LEMMA RestartedFields ==
  ASSUME NEW r \in Rewritten, NEW v, Unshared(r, v) \in Nat,
         r.period \in AllPeriods, r.period - 1 \in AllPeriods
  PROVE  /\ Restarted(r, v) \in Rewritten
         /\ Restarted(r, v).outstanding = r.outstanding - Unshared(r, v)
         /\ Restarted(r, v).commission = r.commission
         /\ Restarted(r, v).current = 0
         /\ Restarted(r, v).slashes = r.slashes
         /\ Restarted(r, v).period = r.period + 1
         /\ \A p \in AllPeriods :
              Restarted(r, v).hist[p] =
                IF p = r.period THEN 2 ELSE r.hist[p] - (IF p = r.period - 1 THEN 1 ELSE 0)
<1>. DEFINE b == IncrementPeriod(r, v)
            t == Refer(b, b.period - 1, 1)
<1>1. Restarted(r, v) = t
  BY DEF Restarted
<1>2. /\ b \in Rewritten /\ b.outstanding = r.outstanding - Unshared(r, v)
      /\ b.commission = r.commission /\ b.current = 0 /\ b.slashes = r.slashes
      /\ b.period = r.period + 1
      /\ \A p \in AllPeriods :
           b.hist[p] = IF p = r.period THEN 1
                       ELSE IF p = r.period - 1 THEN r.hist[p] - 1 ELSE r.hist[p]
  BY IncrementFields
<1>. HIDE DEF b
<1>3. b.period - 1 = r.period
  <2>1. r.period \in Int
    BY DEF Rewritten
  <2>. QED
    BY <1>2, <2>1
<1>4. Refers(t, b, b.period - 1, 1)
  BY <1>2, <1>3, ReferFields
<1>. HIDE DEF t
<1>5. ASSUME NEW p \in AllPeriods
      PROVE  t.hist[p] = IF p = r.period THEN 2
                         ELSE r.hist[p] - (IF p = r.period - 1 THEN 1 ELSE 0)
  <2>1. r.hist[p] \in Int /\ r.period \in Int /\ p \in Int
    BY Consts DEF Rewritten
  <2>. QED
    BY <1>2, <1>3, <1>4, <2>1 DEF Refers
<1>. QED
  BY <1>1, <1>2, <1>4, <1>5 DEF Refers

\* Both keep the counts right.
LEMMA WithdrawnFits ==
  ASSUME NEW r \in Records, NEW L, IsFiniteSet(L), NEW i, Fitting(r, i, L),
         \A e \in L : i[e].period \in Nat, NEW d \in L,
         r.period \in AllPeriods, r.period - 1 \in AllPeriods, i[d].period \in AllPeriods,
         NEW j, \A e \in L : e # d => j[e] = i[e], j[d].period = r.period,
         NEW t \in Rewritten, t.slashes = r.slashes, t.period = r.period + 1,
         \A p \in AllPeriods :
           t.hist[p] = IF p = r.period THEN 2
                       ELSE r.hist[p] - (IF p = r.period - 1 THEN 1 ELSE 0)
                              - (IF p = i[d].period THEN 1 ELSE 0)
  PROVE  Fitting(t, j, L) /\ \A p \in AllPeriods : t.hist[p] \in Nat
<1>1. r.period \in Nat /\ i[d].period < r.period /\ i[d].period \in Nat
  BY Consts DEF Records, Fitting
<1>2. ASSUME NEW p \in AllPeriods
      PROVE  t.hist[p] = Counted(t, j, L, p) /\ t.hist[p] \in Nat
  <2>. DEFINE a == Cardinality(At(L, i, p))
              b == Cardinality(At(L, j, p))
              s == IF p \in r.slashes THEN 1 ELSE 0
  <2>1. b = a - (IF i[d].period = p THEN 1 ELSE 0) + (IF j[d].period = p THEN 1 ELSE 0)
    BY CountMoves
  <2>2. a \in Nat /\ b \in Nat /\ p \in Nat /\ s \in Nat
    BY CountNat, Consts
  <2>3. p = r.period => a = 0 /\ s = 0
    BY CountNat, <1>1 DEF Fitting
  <2>4. r.hist[p] = a + s + (IF p = r.period - 1 THEN 1 ELSE 0)
    BY DEF Fitting, Counted
  <2>5. Counted(t, j, L, p) = b + s + (IF p = r.period THEN 1 ELSE 0)
    BY <1>1 DEF Counted
  <2>. HIDE DEF a, b, s
  <2>6. t.hist[p] = b + s + (IF p = r.period THEN 1 ELSE 0)
    BY <1>1, <2>1, <2>2, <2>3, <2>4
  <2>. QED
    BY <2>2, <2>5, <2>6
<1>3. \A e \in L : j[e].period < t.period
  BY <1>1 DEF Fitting
<1>4. \A p \in t.slashes : p < t.period
  <2>1. r.slashes \subseteq Nat
    BY DEF Records
  <2>. QED
    BY <1>1, <2>1 DEF Fitting
<1>. QED
  BY <1>2, <1>3, <1>4 DEF Fitting

\* d joins the starting infos that refer to the rewards.
Joins(M, L, d) == M = L \cup {d}

LEMMA RestartedFits ==
  ASSUME NEW r \in Records, NEW L, IsFiniteSet(L), NEW i, Fitting(r, i, L),
         \A e \in L : i[e].period \in Nat, NEW d, d \notin L,
         NEW M, Joins(M, L, d),
         r.period \in AllPeriods, r.period - 1 \in AllPeriods,
         NEW j, \A e \in L : j[e] = i[e], j[d].period = r.period,
         NEW t \in Rewritten, t.slashes = r.slashes, t.period = r.period + 1,
         \A p \in AllPeriods :
           t.hist[p] = IF p = r.period THEN 2
                       ELSE r.hist[p] - (IF p = r.period - 1 THEN 1 ELSE 0)
  PROVE  Fitting(t, j, M) /\ \A p \in AllPeriods : t.hist[p] \in Nat
<1>1. r.period \in Nat
  BY DEF Records
<1>2. ASSUME NEW p
      PROVE  Cardinality(At(M, j, p)) =
               Cardinality(At(L, i, p)) + (IF j[d].period = p THEN 1 ELSE 0)
  BY CountAdds DEF Joins
<1>3. ASSUME NEW p \in AllPeriods
      PROVE  t.hist[p] = Counted(t, j, M, p) /\ t.hist[p] \in Nat
  <2>. DEFINE a == Cardinality(At(L, i, p))
              b == Cardinality(At(M, j, p))
              s == IF p \in r.slashes THEN 1 ELSE 0
  <2>1. b = a + (IF j[d].period = p THEN 1 ELSE 0)
    BY <1>2
  <2>2. a \in Nat /\ p \in Nat /\ s \in Nat
    BY CountNat, Consts
  <2>3. p = r.period => a = 0 /\ s = 0
    BY CountNat, <1>1 DEF Fitting
  <2>4. r.hist[p] = a + s + (IF p = r.period - 1 THEN 1 ELSE 0)
    BY DEF Fitting, Counted
  <2>5. Counted(t, j, M, p) = b + s + (IF p = r.period THEN 1 ELSE 0)
    BY <1>1 DEF Counted
  <2>. HIDE DEF a, b, s
  <2>6. t.hist[p] = b + s + (IF p = r.period THEN 1 ELSE 0)
    BY <1>1, <2>1, <2>2, <2>3, <2>4
  <2>7. b \in Nat
    BY <2>1, <2>2
  <2>. QED
    BY <2>2, <2>5, <2>6, <2>7
<1>4. \A e \in M : j[e].period < t.period
  BY <1>1 DEF Fitting, Joins
<1>5. \A p \in t.slashes : p < t.period
  <2>1. r.slashes \subseteq Nat
    BY DEF Records
  <2>. QED
    BY <1>1, <2>1 DEF Fitting
<1>. QED
  BY <1>3, <1>4, <1>5 DEF Fitting

\* What a validator created anew refers to.
LEMMA CreatedFits ==
  ASSUME NEW r \in Records, Cleared(r), NEW i,
         NEW t \in Rewritten, t.slashes = r.slashes, t.period = 1,
         \A p \in AllPeriods : t.hist[p] = IF p = 0 THEN 1 ELSE r.hist[p]
  PROVE  Fitting(t, i, {}) /\ \A p \in AllPeriods : t.hist[p] \in Nat
<1>1. ASSUME NEW p \in AllPeriods
      PROVE  t.hist[p] = Counted(t, i, {}, p) /\ t.hist[p] \in Nat
  <2>1. Cardinality(At({}, i, p)) = 0
    BY CountNat, FS_EmptySet
  <2>2. t.hist[p] = IF p = 0 THEN 1 ELSE 0
    BY DEF Cleared
  <2>3. p \in Nat /\ p \notin t.slashes
    BY Consts DEF Cleared
  <2>. QED
    BY <2>1, <2>2, <2>3 DEF Counted
<1>. QED
  BY <1>1 DEF Fitting, Cleared

-----------------------------------------------------------------------------
(* What a step leaves alone.                                               *)

CallType ==
  /\ phase \in {"start", "commissions", "rewards", "clear", "validators",
                "delegations", "entries", "powers", "apply", "slashing",
                "done", "failed"}
  /\ todo \subseteq Validators \cup Delegations
  /\ allowed \in AllowLists /\ zero \in BOOLEAN /\ residue \in BOOLEAN

DistType ==
  /\ dist \in [Validators -> Records]
  /\ info \in [Delegations -> [period : AllPeriods, height : {0, Height}]]
  /\ pool \in Nat /\ escrow \in Nat
  /\ owed \in [Delegations \cup Validators -> Nat]
  /\ paid \in [Delegations \cup Validators -> Nat]

StakingType ==
  /\ val \in [Validators -> [tokens : Tokens, jailed : BOOLEAN,
                 status : {"bonded", "unbonding", "unbonded"},
                 unbondingHeight : {0, Height}]]
  /\ index \subseteq Validators /\ last \subseteq Validators
  /\ created \in [Entries -> {0, Height}] /\ signing \in [Validators -> {0, Height}]

LEMMA Types == TypeOK <=> CallType /\ DistType /\ StakingType
  BY DEF TypeOK, CallType, DistType, StakingType, Records

LEMMA TypesNext == TypeOK' <=> CallType' /\ DistType' /\ StakingType'
  BY DEF TypeOK, CallType, DistType, StakingType, Records

\* The records of distribution, when only staking's change.
DistPart == Visiting /\ Payments /\ Amounts /\ EscrowCovered /\ PeriodsFit /\ Referred

LEMMA DistStays ==
  ASSUME ExportInv, phase \in {"entries", "powers", "apply", "slashing"},
         phase' \in {"powers", "apply", "slashing", "done", "failed"},
         UNCHANGED <<todo, inputVars, distVars>>
  PROVE  CallType' /\ DistType' /\ DistPart'
<1>1. CallType /\ DistType /\ DistPart
  BY Types DEF ExportInv, DistPart
<1>2. UNCHANGED <<todo, allowed, zero, residue, dist, info, pool, escrow, owed, paid>>
  BY DEF inputVars, distVars
<1>3. zero /\ ~residue /\ Malformed \notin allowed /\ todo = {}
  BY <1>1 DEF DistPart, Visiting
<1>4. CallType' /\ DistType' /\ Visiting'
  BY <1>1, <1>2, <1>3 DEF CallType, DistType, Visiting
<1>5. Payments'
  BY <1>1, <1>2 DEF DistPart, Payments, Unpaid
<1>6. Amounts'
  BY DEF Amounts
<1>7. EscrowCovered'
  BY <1>1, <1>2 DEF DistPart, EscrowCovered, Outstanding
<1>8. PeriodsFit'
  <2>1. \A v \in Validators : PeriodBound(v)' = PeriodBound(v)
    BY <1>2 DEF PeriodBound
  <2>. QED
    BY <1>1, <1>2, <2>1 DEF DistPart, PeriodsFit
<1>9. Referred'
  <2>1. \A v \in Validators : Live(v) = Of(v) /\ Live(v)' = Of(v)
    BY DEF Live, Of
  <2>2. \A v \in Validators : Fitting(dist[v], info, Of(v))
    BY <1>1, <2>1 DEF DistPart, Referred
  <2>. QED
    BY <1>2, <2>1, <2>2 DEF Referred
<1>. QED
  BY <1>4, <1>5, <1>6, <1>7, <1>8, <1>9 DEF DistPart

\* The records of staking, when only distribution's change.
LEMMA StakingStays ==
  ASSUME ExportInv, phase \notin {"entries", "powers", "apply", "slashing", "done", "failed"},
         phase' \notin {"powers", "apply", "slashing", "failed"},
         phase' = "done" => ~zero,
         UNCHANGED <<inputVars, stakingVars, signing>>
  PROVE  StakingType' /\ Jailing'
<1>1. StakingType /\ Jailing
  BY Types DEF ExportInv
<1>2. UNCHANGED <<allowed, zero, residue, val, index, last, created, signing>>
  BY DEF inputVars, stakingVars
<1>3. StakingType'
  BY <1>1, <1>2 DEF StakingType
<1>4. Jailing'
  <2>1. \A v \in Validators : val[v].jailed <=> v \notin index
    BY <1>1 DEF Jailing
  <2>2. last = WithPower(val, index) /\ last = {v \in Validators : val[v].status = "bonded"}
    BY <1>1 DEF Jailing
  <2>. QED
    BY <1>2, <2>1, <2>2 DEF Jailing
<1>. QED
  BY <1>3, <1>4

\* What the iteration of the power index reaches depends on the tokens alone.
LEMMA TokensDecide ==
  ASSUME NEW i, NEW f, NEW g, \A v \in i : f[v].tokens = g[v].tokens
  PROVE  Reached(f, i) = Reached(g, i) /\ WithPower(f, i) = WithPower(g, i)
<1>1. \A v, w \in i : Before(f, w, v) <=> Before(g, w, v)
  BY DEF Before
<1>2. \A v \in i : {w \in i : Before(f, w, v)} = {w \in i : Before(g, w, v)}
  BY <1>1
<1>3. ASSUME NEW v \in i
      PROVE  v \in Reached(f, i) <=> v \in Reached(g, i)
  <2>1. (\A w \in i : Before(f, w, v) => f[w].tokens > 0)
          <=> (\A w \in i : Before(g, w, v) => g[w].tokens > 0)
    BY <1>1
  <2>. QED
    BY <1>2, <2>1 DEF Reached
<1>4. Reached(f, i) \subseteq i /\ Reached(g, i) \subseteq i
  BY DEF Reached
<1>5. Reached(f, i) = Reached(g, i)
  BY <1>3, <1>4
<1>. QED
  BY <1>4, <1>5 DEF WithPower

-----------------------------------------------------------------------------
(* The steps that rewrite the records of staking.                          *)

LEMMA EntriesStep == ExportInv /\ ResetEntries => ExportInv'
<1>. SUFFICES ASSUME ExportInv, ResetEntries PROVE ExportInv'
  OBVIOUS
<1>1. phase = "entries" /\ phase' = "powers" /\ created' = [e \in Entries |-> 0]
      /\ UNCHANGED <<todo, inputVars, distVars, val, index, last, signing>>
  BY DEF ResetEntries
<1>2. CallType' /\ DistType' /\ DistPart'
  BY <1>1, DistStays
<1>3. StakingType /\ Jailing /\ Heights /\ zero /\ zero' = zero /\ allowed' = allowed
      /\ info' = info
  BY <1>1, Types DEF ExportInv, Visiting, inputVars, distVars
<1>4. StakingType' /\ Heights'
  BY <1>1, <1>3 DEF StakingType, Heights
<1>5. Jailing'
  BY <1>1, <1>3 DEF Jailing
<1>. QED
  BY <1>2, <1>4, <1>5, TypesNext DEF ExportInv, DistPart

LEMMA ValidatorsStep == ExportInv /\ ResetValidators => ExportInv'
<1>. SUFFICES ASSUME ExportInv, ResetValidators PROVE ExportInv'
  OBVIOUS
<1>. DEFINE now(v) == [val[v] EXCEPT !.unbondingHeight = 0,
                          !.jailed = @ \/ (allowed # {} /\ v \notin allowed)]
<1>1. phase = "powers" /\ phase' = "apply" /\ val' = [v \in Validators |-> now(v)]
      /\ UNCHANGED <<todo, inputVars, distVars, index, last, created, signing>>
  BY DEF ResetValidators
<1>2. CallType' /\ DistType' /\ DistPart'
  BY <1>1, DistStays
<1>3. StakingType /\ Jailing /\ Heights /\ zero /\ zero' = zero /\ allowed' = allowed
      /\ info' = info /\ residue' = residue
  BY <1>1, Types DEF ExportInv, Visiting, inputVars, distVars
<1>4. ASSUME NEW v \in Validators
      PROVE  /\ val'[v] \in [tokens : Tokens, jailed : BOOLEAN,
                             status : {"bonded", "unbonding", "unbonded"},
                             unbondingHeight : {0, Height}]
             /\ val'[v].unbondingHeight = 0 /\ val'[v].tokens = val[v].tokens
             /\ val'[v].status = val[v].status
             /\ val'[v].jailed <=> val[v].jailed \/ Barred(v)
  <2>1. val[v] \in [tokens : Tokens, jailed : BOOLEAN,
                    status : {"bonded", "unbonding", "unbonded"},
                    unbondingHeight : {0, Height}]
    BY <1>3 DEF StakingType
  <2>2. val'[v] = now(v)
    BY <1>1
  <2>. QED
    BY <2>1, <2>2 DEF Barred
<1>5. StakingType'
  <2>1. val' = [v \in Validators |-> val'[v]]
    BY <1>1
  <2>. QED
    BY <1>1, <1>3, <1>4, <2>1 DEF StakingType
<1>6. Heights'
  BY <1>1, <1>3, <1>4 DEF Heights
<1>7. Jailing'
  <2>1. last' = WithPower(val, index) /\ index' = index /\ index \subseteq Validators
    BY <1>1, <1>3 DEF Jailing, StakingType
  <2>2. WithPower(val, index) = WithPower(val', index)
    BY <1>4, <2>1, TokensDecide
  <2>3. last' = {v \in Validators : val'[v].status = "bonded"}
    <3>1. last' = {v \in Validators : val[v].status = "bonded"}
      BY <1>1, <1>3 DEF Jailing
    <3>2. \A v \in Validators : val'[v].status = val[v].status
      BY <1>4
    <3>. QED
      BY <3>1, <3>2
  <2>4. \A v \in index : val'[v].jailed <=> Barred(v)
    BY <1>1, <1>3, <1>4, <2>1 DEF Jailing
  <2>5. \A v : Barred(v)' <=> Barred(v)
    BY <1>3 DEF Barred
  <2>. QED
    BY <1>1, <1>3, <2>1, <2>2, <2>3, <2>4, <2>5 DEF Jailing
<1>. QED
  BY <1>2, <1>5, <1>6, <1>7, TypesNext DEF ExportInv, DistPart

\* No validator leaves the set, so none begins to unbond.
LEMMA ApplyStep == ExportInv /\ ApplyValidatorSet => ExportInv'
<1>. SUFFICES ASSUME ExportInv, ApplyValidatorSet PROVE ExportInv'
  OBVIOUS
<1>1. StakingType /\ Jailing /\ Heights /\ zero /\ phase = "apply"
  BY Types DEF ExportInv, Visiting, ApplyValidatorSet
<1>2. \A v \in index : val[v].jailed <=> Barred(v)
  BY <1>1 DEF Jailing
<1>3. Reached(val, index) \subseteq index
  BY DEF Reached
<1>4. CASE \E v \in Reached(val, index) : val[v].jailed
  <2>1. phase' = "failed"
        /\ UNCHANGED <<todo, inputVars, distVars, stakingVars, signing>>
    BY <1>4 DEF ApplyValidatorSet, Fail
  <2>2. CallType' /\ DistType' /\ DistPart'
    BY <1>1, <2>1, DistStays
  <2>3. UNCHANGED <<allowed, zero, residue, val, index, last, created, info, signing>>
    BY <2>1 DEF inputVars, distVars, stakingVars
  <2>4. StakingType' /\ Heights'
    BY <1>1, <2>1, <2>3 DEF StakingType, Heights
  <2>5. Excluded
    BY <1>2, <1>3, <1>4 DEF Excluded, Barred
  <2>6. Jailing'
    BY <1>1, <2>1, <2>3, <2>5 DEF Jailing, Excluded
  <2>. QED
    BY <2>2, <2>4, <2>6, TypesNext DEF ExportInv, DistPart
<1>5. CASE ~\E v \in Reached(val, index) : val[v].jailed
  <2>. DEFINE now(v) == IF v \in last' THEN [val[v] EXCEPT !.status = "bonded"]
                        ELSE IF v \in last THEN [val[v] EXCEPT !.status = "unbonding",
                                                     !.unbondingHeight = Height]
                        ELSE val[v]
  <2>1. /\ last' = WithPower(val, index) /\ val' = [v \in Validators |-> now(v)]
        /\ phase' = "slashing" /\ UNCHANGED <<todo, inputVars, distVars, index, created, signing>>
    BY <1>5 DEF ApplyValidatorSet
  <2>2. CallType' /\ DistType' /\ DistPart'
    BY <1>1, <2>1, DistStays
  <2>3. last' = last /\ last = {v \in Validators : val[v].status = "bonded"}
    BY <1>1, <2>1 DEF Jailing
  <2>4. UNCHANGED <<allowed, zero, residue, index, created, info, signing>>
    BY <2>1 DEF inputVars, distVars
  <2>5. ASSUME NEW v \in Validators PROVE val'[v] = val[v]
    <3>1. val'[v] = now(v)
      BY <2>1
    <3>2. CASE v \in last
      <4>1. val[v] = [tokens |-> val[v].tokens, jailed |-> val[v].jailed,
                      status |-> "bonded", unbondingHeight |-> val[v].unbondingHeight]
        BY <1>1, <2>3, <3>2 DEF StakingType
      <4>2. now(v) = [val[v] EXCEPT !.status = "bonded"]
        BY <2>3, <3>2
      <4>. HIDE DEF now
      <4>. QED
        BY <3>1, <4>1, <4>2
    <3>3. CASE v \notin last
      BY <2>3, <3>1, <3>3
    <3>. QED
      BY <3>2, <3>3
  <2>6. val' = val
    <3>1. val' = [v \in Validators |-> val'[v]]
      BY <2>1
    <3>2. val = [v \in Validators |-> val[v]]
      BY <1>1 DEF StakingType
    <3>. QED
      BY <2>5, <3>1, <3>2
  <2>7. StakingType' /\ Heights'
    BY <1>1, <2>1, <2>3, <2>4, <2>6 DEF StakingType, Heights
  <2>8. Jailing'
    BY <1>1, <1>5, <2>1, <2>3, <2>4, <2>6 DEF Jailing, Barred
  <2>. QED
    BY <2>2, <2>7, <2>8, TypesNext DEF ExportInv, DistPart
<1>. QED
  BY <1>4, <1>5

LEMMA SigningStep == ExportInv /\ ResetSigningInfos => ExportInv'
<1>. SUFFICES ASSUME ExportInv, ResetSigningInfos PROVE ExportInv'
  OBVIOUS
<1>1. phase = "slashing" /\ phase' = "done" /\ signing' = [v \in Validators |-> 0]
      /\ UNCHANGED <<todo, inputVars, distVars, stakingVars>>
  BY DEF ResetSigningInfos
<1>2. CallType' /\ DistType' /\ DistPart'
  BY <1>1, DistStays
<1>3. UNCHANGED <<allowed, zero, residue, val, index, last, created, info>>
  BY <1>1 DEF inputVars, distVars, stakingVars
<1>4. StakingType /\ Jailing /\ Heights /\ zero
  BY <1>1, Types DEF ExportInv, Visiting
<1>5. StakingType' /\ Heights'
  BY <1>1, <1>3, <1>4 DEF StakingType, Heights
<1>6. Jailing'
  BY <1>1, <1>3, <1>4 DEF Jailing, Barred
<1>. QED
  BY <1>2, <1>5, <1>6, TypesNext DEF ExportInv, DistPart

-----------------------------------------------------------------------------
(* The steps that rewrite the records of distribution.                     *)

\* One validator's record changes, and the sum with it.
LEMMA OneRecord ==
  ASSUME dist \in [Validators -> Records], NEW v \in Validators, NEW t \in Records,
         dist' = [dist EXCEPT ![v] = t]
  PROVE  /\ dist' \in [Validators -> Records] /\ dist'[v] = t
         /\ \A w \in Validators : w # v => dist'[w] = dist[w]
         /\ Outstanding \in Nat /\ Outstanding' \in Nat
         /\ Outstanding' = Outstanding - dist[v].outstanding + t.outstanding
<1>1. /\ dist' \in [Validators -> Records] /\ dist'[v] = t
      /\ \A w \in Validators : w # v => dist'[w] = dist[w]
  OBVIOUS
<1>2. PICK f : f = [w \in Validators |-> dist[w].outstanding]
  OBVIOUS
<1>3. PICK g : g = [w \in Validators |-> dist'[w].outstanding]
  OBVIOUS
<1>4. Outstanding = SumFunctionOnSet(f, Validators) /\ Outstanding' = SumFunctionOnSet(g, Validators)
  <2>1. Outstanding = SumFunction(f) /\ Outstanding' = SumFunction(g)
    BY <1>2, <1>3 DEF Outstanding
  <2>2. DOMAIN f = Validators /\ DOMAIN g = Validators
    BY <1>2, <1>3
  <2>. QED
    BY <2>1, <2>2 DEF SumFunction
<1>5. \A w \in Validators : dist[w].outstanding \in Nat /\ dist'[w].outstanding \in Nat
  BY <1>1 DEF Records
<1>6. \A w \in Validators : f[w] = dist[w].outstanding /\ g[w] = dist'[w].outstanding
  BY <1>2, <1>3
<1>7. \A w \in Validators : f[w] \in Nat /\ g[w] \in Nat
  BY <1>5, <1>6
<1>8. \A w \in Validators : w # v => f[w] = g[w]
  BY <1>1, <1>6
<1>9. IsFiniteSet(Validators)
  BY Consts
<1>10. SumFunctionOnSet(g, Validators) = SumFunctionOnSet(f, Validators) - f[v] + g[v]
  BY <1>7, <1>8, <1>9, SumUpdate
<1>11. SumFunctionOnSet(f, Validators) \in Nat /\ SumFunctionOnSet(g, Validators) \in Nat
  BY <1>7, <1>9, SumNat
<1>. QED
  BY <1>1, <1>4, <1>6, <1>10, <1>11

LEMMA FittingSame ==
  ASSUME NEW r, NEW L, NEW i, NEW j, Fitting(r, i, L), \A e \in L : j[e] = i[e]
  PROVE  Fitting(r, j, L)
<1>1. \A p : At(L, i, p) = At(L, j, p)
  BY DEF At
<1>2. \A p : Counted(r, j, L, p) = Counted(r, i, L, p)
  BY <1>1 DEF Counted
<1>. QED
  BY <1>2 DEF Fitting

\* A record with the same counts, slash events and period fits what the old one did.
LEMMA FittingRecord ==
  ASSUME NEW r, NEW t, NEW L, NEW i, Fitting(r, i, L),
         t.hist = r.hist, t.slashes = r.slashes, t.period = r.period
  PROVE  Fitting(t, i, L)
<1>1. \A p : Counted(t, i, L, p) = Counted(r, i, L, p)
  BY DEF Counted
<1>. QED
  BY <1>1 DEF Fitting

Paying == \A x \in Delegations \cup Validators :
            paid[x] = IF x \in Unpaid THEN 0 ELSE Whole(owed[x])

LEMMA OnePayment ==
  ASSUME DistType, Paying, NEW x \in Unpaid, x \in Delegations \cup Validators,
         Unpaid' = Unpaid \ {x}, owed' = owed,
         paid' = [paid EXCEPT ![x] = @ + Whole(owed[x])]
  PROVE  Paying' /\ paid' \in [Delegations \cup Validators -> Nat]
<1>1. owed[x] \in Nat /\ paid[x] = 0 /\ paid \in [Delegations \cup Validators -> Nat]
  BY DEF DistType, Paying
<1>2. Whole(owed[x]) \in Nat /\ 0 + Whole(owed[x]) = Whole(owed[x])
  <2>1. \A n \in Nat : 0 + n = n
    OBVIOUS
  <2>. QED
    BY <1>1, <2>1, WholeFits, Zenon
<1>3. paid'[x] = Whole(owed[x])
  BY <1>1, <1>2
<1>4. ASSUME NEW y \in Delegations \cup Validators
      PROVE  paid'[y] = IF y \in Unpaid' THEN 0 ELSE Whole(owed[y])
  <2>1. CASE y = x
    BY <1>3, <2>1
  <2>2. CASE y # x
    <3>1. paid'[y] = paid[y] /\ (y \in Unpaid' <=> y \in Unpaid)
      BY <1>1, <2>2
    <3>. QED
      BY <3>1 DEF Paying
  <2>. QED
    BY <2>1, <2>2
<1>5. Paying'
  <2>1. \A y \in Delegations \cup Validators : Whole(owed'[y]) = Whole(owed[y])
    OBVIOUS
  <2>. QED
    BY <1>4, <2>1 DEF Paying, Whole
<1>. QED
  BY <1>1, <1>2, <1>3, <1>5

\* What an export at height 0 knows while it rewrites the rewards.
LEMMA Rewriting ==
  ASSUME ExportInv, phase \in {"commissions", "rewards", "clear", "validators", "delegations"}
  PROVE  /\ CallType /\ DistType /\ StakingType /\ zero /\ ~residue /\ Malformed \notin allowed
         /\ Visiting /\ Paying /\ Amounts /\ EscrowCovered /\ PeriodsFit /\ Referred
BY Types DEF ExportInv, Visiting, Payments, Paying

LEMMA CommissionFields ==
  ASSUME NEW r \in Records, NEW c \in Nat, c <= r.commission, c <= r.outstanding
  PROVE  LET t == [r EXCEPT !.outstanding = @ - c, !.commission = @ - c]
         IN  /\ t \in Records /\ t.outstanding = r.outstanding - c
             /\ t.commission = r.commission - c /\ t.current = r.current
             /\ t.slashes = r.slashes /\ t.period = r.period /\ t.hist = r.hist
<1>. DEFINE o  == r.outstanding - c
            m  == r.commission - c
            s1 == [r EXCEPT !.outstanding = o]
            s2 == [s1 EXCEPT !.commission = m]
<1>1. o \in Nat /\ m \in Nat
  BY DEF Records
<1>. HIDE DEF o, m
<1>2. s1 \in Records /\ s1.outstanding = o /\ s1.commission = r.commission /\ s1.current = r.current
      /\ s1.slashes = r.slashes /\ s1.period = r.period /\ s1.hist = r.hist
  BY <1>1 DEF Records
<1>. HIDE DEF s1
<1>3. s2 \in Records /\ s2.outstanding = o /\ s2.commission = m /\ s2.current = r.current
      /\ s2.slashes = r.slashes /\ s2.period = r.period /\ s2.hist = r.hist
  BY <1>1, <1>2 DEF Records
<1>4. s2 = [r EXCEPT !.outstanding = @ - c, !.commission = @ - c]
  BY DEF s1, o, m, Records
<1>. QED
  BY <1>3, <1>4 DEF o, m

LEMMA CommissionStep ==
  ASSUME ExportInv, NEW v \in Validators, WithdrawCommission(v)
  PROVE  ExportInv'
<1>. DEFINE r == dist[v]
            c == Whole(dist[v].commission)
            t == [r EXCEPT !.outstanding = @ - c, !.commission = @ - c]
<1>1. phase = "commissions" /\ v = Min(todo) /\ escrow' = escrow - c
      /\ paid' = [paid EXCEPT ![v] = @ + c] /\ Visit(v, "rewards", Delegations)
      /\ UNCHANGED <<allowed, zero, residue, info, pool, owed>>
      /\ UNCHANGED <<inputVars, stakingVars, signing>>
  BY DEF WithdrawCommission, inputVars
<1>2. /\ CallType /\ DistType /\ StakingType /\ zero /\ ~residue /\ Malformed \notin allowed
      /\ Visiting /\ Paying /\ Amounts /\ EscrowCovered /\ PeriodsFit /\ Referred
  BY <1>1, Rewriting
<1>3. v \in todo /\ todo \subseteq Validators
  BY <1>1, <1>2, NextIsLeft DEF Visiting
<1>4. \/ todo = {v} /\ phase' = "rewards" /\ todo' = Delegations
      \/ todo \ {v} # {} /\ phase' = "commissions" /\ todo' = todo \ {v}
  BY <1>1, <1>3, VisitLeaves
<1>5. Unpaid = todo \cup Delegations /\ Unpaid' = Unpaid \ {v} /\ v \in Unpaid
  <2>1. Unpaid = todo \cup Delegations /\ Unpaid' = (todo \ {v}) \cup Delegations
    BY <1>1, <1>4 DEF Unpaid
  <2>. QED
    BY <1>3, <2>1, Consts
<1>6. r \in Records /\ r.commission = owed[v] /\ dist \in [Validators -> Records]
  BY <1>1, <1>2, <1>5 DEF DistType, ExportInv, Payments
<1>7. c = Whole(owed[v]) /\ c \in Nat /\ c <= r.commission
  BY <1>6, WholeFits DEF Records
<1>8. \A w \in Validators : /\ Of(w) \cap Unpaid = Of(w) /\ Of(w) \cap Unpaid' = Of(w)
                            /\ IsFiniteSet(Of(w)) /\ SumFunctionOnSet(owed, Of(w)) \in Nat
  <2>. TAKE w \in Validators
  <2>1. Of(w) \subseteq Delegations /\ IsFiniteSet(Of(w))
    BY Consts, OfFacts, FS_Subset
  <2>2. \A d \in Of(w) : owed[d] \in Nat
    BY <1>2, <2>1 DEF DistType
  <2>3. SumFunctionOnSet(owed, Of(w)) \in Nat
    BY <2>1, <2>2, SumNat
  <2>4. \A d \in Of(w) : d \in Unpaid /\ d # v
    BY <1>5, <2>1, Consts
  <2>. QED
    BY <1>5, <2>1, <2>3, <2>4
<1>9. \A w \in Validators : dist[w].outstanding >= dist[w].current + dist[w].commission
                                                    + SumFunctionOnSet(owed, Of(w))
  BY <1>1, <1>2, <1>8 DEF Amounts, Enough
<1>10. c <= r.outstanding
  BY <1>6, <1>7, <1>8, <1>9 DEF Records
<1>11. t \in Records /\ t.outstanding = r.outstanding - c
       /\ t.commission = r.commission - c /\ t.current = r.current
       /\ t.slashes = r.slashes /\ t.period = r.period /\ t.hist = r.hist
  BY <1>6, <1>7, <1>10, CommissionFields
<1>12. dist' = [dist EXCEPT ![v] = t]
  BY <1>6 DEF WithdrawCommission
<1>. HIDE DEF t
<1>13. /\ dist' \in [Validators -> Records] /\ dist'[v] = t
       /\ \A w \in Validators : w # v => dist'[w] = dist[w]
       /\ Outstanding \in Nat /\ Outstanding' \in Nat
       /\ Outstanding' = Outstanding - dist[v].outstanding + t.outstanding
  BY <1>6, <1>11, <1>12, OneRecord
<1>14. CallType' /\ Visiting'
  BY <1>1, <1>2, <1>4, Consts DEF CallType, Visiting
<1>15. EscrowCovered' /\ escrow' \in Nat
  BY <1>1, <1>2, <1>6, <1>7, <1>11, <1>13 DEF EscrowCovered, DistType, Records
<1>16. Paying' /\ paid' \in [Delegations \cup Validators -> Nat]
  BY <1>1, <1>2, <1>5, <1>7, OnePayment
<1>17. DistType'
  BY <1>1, <1>2, <1>13, <1>15, <1>16 DEF DistType
<1>18. Payments'
  <2>1. \A w \in Validators : w \in Unpaid' => w # v /\ w \in Unpaid
    BY <1>5
  <2>2. \A w \in Validators : w \in Unpaid' => dist'[w].commission = owed'[w]
    BY <1>1, <1>13, <2>1 DEF ExportInv, Payments
  <2>. QED
    BY <1>16, <2>2 DEF Payments, Paying
<1>19. Amounts'
  <2>1. ASSUME NEW w \in Validators PROVE Enough(dist[w], Of(w) \cap Unpaid)'
    <3>1. dist'[w].outstanding >= dist'[w].current + dist'[w].commission
                                   + SumFunctionOnSet(owed, Of(w))
      <4>1. CASE w = v
        BY <1>6, <1>7, <1>8, <1>9, <1>11, <1>13, <4>1 DEF Records
      <4>2. CASE w # v
        BY <1>9, <1>13, <4>2
      <4>. QED
        BY <4>1, <4>2
    <3>. QED
      BY <1>1, <1>8, <3>1 DEF Enough
  <2>2. phase' \in {"commissions", "rewards"}
    BY <1>4
  <2>. QED
    BY <2>1, <2>2 DEF Amounts
<1>20. \A w \in Validators : dist'[w].period = dist[w].period
  BY <1>11, <1>13
<1>21. PeriodsFit'
  <2>1. \A w \in Validators : PeriodBound(w) = Periods + 1
    BY <1>1 DEF PeriodBound
  <2>2. ASSUME NEW w \in Validators PROVE PeriodBound(w)' = Periods + 1
    <3>1. CASE phase' = "commissions"
      BY <3>1 DEF PeriodBound
    <3>2. CASE phase' = "rewards" /\ todo' = Delegations
      <4>1. PeriodBound(w)' = Periods + 1 + (N - N)
        BY <3>2 DEF PeriodBound, N
      <4>. QED
        BY <4>1, Consts
    <3>. QED
      BY <1>4, <3>1, <3>2
  <2>. QED
    BY <1>2, <1>20, <2>1, <2>2 DEF PeriodsFit
<1>22. Referred'
  <2>1. \A w \in Validators : Live(w) = Of(w) /\ Live(w)' = Of(w)
    BY <1>1, <1>4 DEF Live, Of
  <2>2. \A w \in Validators : Fitting(dist[w], info, Of(w))
    BY <1>1, <1>2, <2>1 DEF Referred
  <2>3. ASSUME NEW w \in Validators PROVE Fitting(dist'[w], info, Of(w))
    <3>1. CASE w = v
      BY <1>11, <1>13, <2>2, <3>1, FittingRecord
    <3>2. CASE w # v
      BY <1>13, <2>2, <3>2
    <3>. QED
      BY <3>1, <3>2
  <2>4. phase' \in {"commissions", "rewards"}
    BY <1>4
  <2>. QED
    BY <1>1, <2>1, <2>3, <2>4 DEF Referred
<1>23. Heights'
  BY <1>4 DEF Heights
<1>24. StakingType' /\ Jailing'
  BY <1>1, <1>4, StakingStays
<1>. QED
  BY <1>14, <1>15, <1>17, <1>18, <1>19, <1>21, <1>22, <1>23, <1>24, TypesNext DEF ExportInv

LEMMA UnsharedFits ==
  ASSUME NEW r \in Records, NEW v
  PROVE  Unshared(r, v) \in Nat /\ Unshared(r, v) <= r.current
BY DEF Records, Unshared

LEMMA RewardsStep ==
  ASSUME ExportInv, NEW d \in Delegations, WithdrawRewards(d)
  PROVE  ExportInv'
<1>1. PICK v : v = To[d]
  OBVIOUS
<1>. DEFINE r == dist[v]
            q == info[d].period
            u == Unshared(dist[v], v)
            t == Withdrawn(r, v, q, owed[d])
            c == Refer(IncrementPeriod(r, v), q, -1)
<1>2. /\ phase = "rewards" /\ d \in todo
      /\ dist' = [dist EXCEPT ![v] = t]
      /\ pool' = pool + u + Remainder(owed[d])
      /\ info' = [info EXCEPT ![d] = StartingInfo(c, Height)]
      /\ escrow' = escrow - Whole(owed[d])
      /\ paid' = [paid EXCEPT ![d] = @ + Whole(owed[d])]
      /\ Visit(d, "clear", {})
      /\ UNCHANGED <<inputVars, owed, stakingVars, signing>>
  BY <1>1 DEF WithdrawRewards, Withdrawn
<1>3. UNCHANGED <<allowed, zero, residue, owed>>
  BY <1>2 DEF inputVars
<1>4. /\ CallType /\ DistType /\ StakingType /\ zero /\ ~residue /\ Malformed \notin allowed
      /\ Visiting /\ Paying /\ Amounts /\ EscrowCovered /\ PeriodsFit /\ Referred
  BY <1>2, Rewriting
<1>5. \/ todo = {d} /\ phase' = "clear" /\ todo' = {}
      \/ todo \ {d} # {} /\ phase' = "rewards" /\ todo' = todo \ {d}
  BY <1>2, VisitLeaves
<1>6. todo \subseteq Delegations /\ todo' = todo \ {d} /\ Unpaid = todo /\ Unpaid' = todo \ {d}
  BY <1>2, <1>4, <1>5 DEF Visiting, Unpaid
<1>7. /\ v \in Validators /\ d \in Of(v) /\ Of(v) \subseteq Delegations /\ IsFiniteSet(Of(v))
      /\ \A w \in Validators : w # v => d \notin Of(w)
  BY <1>1, Consts, OfFacts, FS_Subset
<1>8. r \in Records /\ dist \in [Validators -> Records] /\ owed[d] \in Nat /\ q \in AllPeriods
  BY <1>4, <1>7 DEF DistType
<1>9. u \in Nat /\ u <= r.current
  BY <1>8, UnsharedFits
\* Periods.
<1>10. /\ Cardinality(todo) \in Nat /\ Cardinality(todo) > 0 /\ Cardinality(todo) <= N
       /\ Cardinality(todo \ {d}) = Cardinality(todo) - 1
  <2>1. IsFiniteSet(todo) /\ Cardinality(todo) <= N
    BY <1>6, Consts, FS_Subset DEF N
  <2>2. Cardinality(todo) # 0
    BY <1>2, <2>1, FS_EmptySet
  <2>3. Cardinality(todo) \in Nat
    BY <2>1, FS_CardinalityType
  <2>4. Cardinality(todo \ {d}) = Cardinality(todo) - 1
    BY <1>2, <2>1, FS_RemoveElement
  <2>. QED
    BY <2>1, <2>2, <2>3, <2>4
<1>11. /\ \A w \in Validators : dist[w].period <= Periods + 1 + (N - Cardinality(todo))
       /\ r.period \in AllPeriods /\ r.period - 1 \in AllPeriods
  <2>1. \A w \in Validators : PeriodBound(w) = Periods + 1 + (N - Cardinality(todo))
    BY <1>2 DEF PeriodBound, N
  <2>2. \A w \in Validators : dist[w].period <= Periods + 1 + (N - Cardinality(todo))
    BY <1>4, <2>1 DEF PeriodsFit
  <2>3. r.period \in Nat /\ r.period > 0 /\ r.period <= Periods + 1 + (N - Cardinality(todo))
    BY <1>7, <1>8, <2>2, RecordPeriod
  <2>4. r.period \in AllPeriods /\ r.period - 1 \in AllPeriods
    BY <1>10, <2>3, PeriodsReached
  <2>. QED
    BY <2>2, <2>4
<1>12. \A w \in Validators : Live(w) = Of(w) /\ Live(w)' = Of(w)
  BY <1>2, <1>5 DEF Live, Of
<1>13. \A w \in Validators : Fitting(dist[w], info, Of(w))
  BY <1>2, <1>4, <1>12 DEF Referred
<1>14. q < r.period
  BY <1>7, <1>13 DEF Fitting
\* The record.
<1>15. r \in Rewritten
  BY <1>8, RecordsRewritten
<1>16. /\ t \in Rewritten /\ t.outstanding = r.outstanding - u - owed[d]
       /\ t.commission = r.commission /\ t.current = 0 /\ t.slashes = r.slashes
       /\ t.period = r.period + 1
       /\ \A p \in AllPeriods :
            t.hist[p] = IF p = r.period THEN 2
                        ELSE r.hist[p] - (IF p = r.period - 1 THEN 1 ELSE 0)
                               - (IF p = q THEN 1 ELSE 0)
  BY <1>8, <1>9, <1>11, <1>14, <1>15, WithdrawnFields
<1>17. c.period = r.period + 1
  <2>1. IncrementPeriod(r, v) \in Rewritten /\ IncrementPeriod(r, v).period = r.period + 1
    BY <1>9, <1>11, <1>15, IncrementFields
  <2>2. Refers(c, IncrementPeriod(r, v), q, -1)
    BY <1>8, <2>1, ReferFields
  <2>. QED
    BY <2>1, <2>2 DEF Refers
<1>. HIDE DEF t, c, u
<1>18. StartingInfo(c, Height) = [period |-> r.period, height |-> Height]
  <2>1. r.period \in Int
    BY <1>8 DEF Records
  <2>2. c.period - 1 = r.period
    BY <1>17, <2>1
  <2>. QED
    BY <2>2 DEF StartingInfo
<1>19. /\ info' \in [Delegations -> [period : AllPeriods, height : {0, Height}]]
       /\ info'[d].period = r.period
       /\ \A e \in Delegations : e # d => info'[e] = info[e]
  BY <1>2, <1>4, <1>11, <1>18 DEF DistType
<1>20. Fitting(t, info', Of(v)) /\ \A p \in AllPeriods : t.hist[p] \in Nat
  <2>1. PICK i : i = info
    OBVIOUS
  <2>2. PICK j : j = info'
    OBVIOUS
  <2>3. \A e \in Of(v) : i[e].period \in Nat
    BY <1>4, <1>7, <2>1, Consts DEF DistType
  <2>4. \A e \in Of(v) : e # d => j[e] = i[e]
    BY <1>7, <1>19, <2>1, <2>2
  <2>5. Fitting(r, i, Of(v)) /\ i[d].period = q /\ j[d].period = r.period
    BY <1>7, <1>13, <1>19, <2>1, <2>2
  <2>6. Fitting(t, j, Of(v)) /\ \A p \in AllPeriods : t.hist[p] \in Nat
    BY <1>7, <1>8, <1>11, <1>16, <2>3, <2>4, <2>5, WithdrawnFits
  <2>. QED
    BY <2>2, <2>6
\* The amounts.
<1>21. \A w \in Validators :
         /\ IsFiniteSet(Of(w) \cap todo) /\ \A e \in Of(w) \cap todo : owed[e] \in Nat
         /\ SumFunctionOnSet(owed, Of(w) \cap todo) \in Nat
  <2>. TAKE w \in Validators
  <2>1. IsFiniteSet(Of(w) \cap todo)
    BY <1>6, Consts, FS_Subset
  <2>2. \A e \in Of(w) \cap todo : owed[e] \in Nat
    BY <1>4, <1>6 DEF DistType
  <2>. QED
    BY <2>1, <2>2, SumNat
<1>22. \A w \in Validators : dist[w].outstanding >= dist[w].current + dist[w].commission
                                                     + SumFunctionOnSet(owed, Of(w) \cap todo)
  BY <1>2, <1>4, <1>6 DEF Amounts, Enough
<1>23. PICK rest : rest = (Of(v) \cap todo) \ {d}
  OBVIOUS
<1>24. /\ SumFunctionOnSet(owed, Of(v) \cap todo) = owed[d] + SumFunctionOnSet(owed, rest)
       /\ SumFunctionOnSet(owed, rest) \in Nat
  <2>1. d \in Of(v) \cap todo
    BY <1>2, <1>7
  <2>2. SumFunctionOnSet(owed, Of(v) \cap todo) = owed[d] + SumFunctionOnSet(owed, rest)
    BY <1>7, <1>21, <1>23, <2>1, SumRemove
  <2>3. IsFiniteSet(rest) /\ \A e \in rest : owed[e] \in Nat
    BY <1>7, <1>21, <1>23, FS_Subset
  <2>. QED
    BY <2>2, <2>3, SumNat
<1>25. t.outstanding >= t.current + t.commission + SumFunctionOnSet(owed, rest)
       /\ t.outstanding \in Nat
  BY <1>7, <1>8, <1>9, <1>16, <1>22, <1>24 DEF Records
<1>26. t \in Records
  <2>1. t.hist \in [AllPeriods -> Nat]
    BY <1>16, <1>20 DEF Rewritten
  <2>2. t.period \in 1 .. Cardinality(AllPeriods)
    <3>1. r.period \in 0 .. Periods + N /\ t.period = r.period + 1
      BY <1>11, <1>16, Consts
    <3>2. Cardinality(AllPeriods) = Periods + N + 1 /\ Periods \in Nat /\ N \in Nat
      BY Consts
    <3>. QED
      BY <3>1, <3>2
  <2>. QED
    BY <1>16, <1>25, <2>1, <2>2 DEF Rewritten, Records
<1>27. /\ dist' \in [Validators -> Records] /\ dist'[v] = t
       /\ \A w \in Validators : w # v => dist'[w] = dist[w]
       /\ Outstanding \in Nat /\ Outstanding' \in Nat
       /\ Outstanding' = Outstanding - dist[v].outstanding + t.outstanding
  BY <1>2, <1>7, <1>8, <1>26, OneRecord
<1>28. Whole(owed[d]) \in Nat /\ Remainder(owed[d]) \in Nat
       /\ Whole(owed[d]) + Remainder(owed[d]) = owed[d]
  BY <1>8, WholeFits
<1>29. pool' \in Nat
  BY <1>2, <1>4, <1>9, <1>28 DEF DistType
<1>30. EscrowCovered' /\ escrow' \in Nat
  <2>1. r.outstanding \in Nat /\ pool \in Nat /\ escrow = Outstanding + pool
    BY <1>4, <1>8 DEF EscrowCovered, DistType, Records
  <2>2. escrow' = Outstanding' + pool'
    BY <1>2, <1>8, <1>9, <1>16, <1>27, <1>28, <2>1
  <2>. QED
    BY <1>27, <1>29, <2>2 DEF EscrowCovered
<1>31. Paying' /\ paid' \in [Delegations \cup Validators -> Nat]
  BY <1>2, <1>3, <1>4, <1>6, OnePayment
<1>32. DistType'
  BY <1>3, <1>4, <1>19, <1>27, <1>29, <1>30, <1>31 DEF DistType
<1>33. CallType' /\ Visiting'
  BY <1>3, <1>4, <1>5, <1>6 DEF CallType, Visiting
<1>34. Payments'
  BY <1>5, <1>31 DEF Payments, Paying
<1>35. Amounts'
  <2>1. ASSUME NEW w \in Validators PROVE Enough(dist[w], Of(w) \cap Unpaid)'
    <3>1. CASE w = v
      <4>1. Of(v) \cap Unpaid' = rest
        BY <1>6, <1>23
      <4>2. dist'[v].outstanding >= dist'[v].current + dist'[v].commission
                                     + SumFunctionOnSet(owed, Of(v) \cap Unpaid')
        BY <1>25, <1>27, <4>1
      <4>. QED
        BY <1>3, <3>1, <4>2 DEF Enough, Of
    <3>2. CASE w # v
      <4>1. Of(w) \cap Unpaid' = Of(w) \cap todo
        BY <1>6, <1>7, <3>2
      <4>2. dist'[w].outstanding >= dist'[w].current + dist'[w].commission
                                     + SumFunctionOnSet(owed, Of(w) \cap Unpaid')
        BY <1>22, <1>27, <3>2, <4>1
      <4>. QED
        BY <1>3, <4>2 DEF Enough, Of
    <3>. QED
      BY <3>1, <3>2
  <2>2. phase' \in {"rewards", "clear"}
    BY <1>5
  <2>. QED
    BY <2>1, <2>2 DEF Amounts
<1>36. PeriodsFit'
  <2>1. ASSUME NEW w \in Validators
        PROVE  dist'[w].period <= Periods + 1 + (N - (Cardinality(todo) - 1))
    <3>1. dist'[w].period <= dist[w].period + 1 /\ dist[w].period \in Nat
      BY <1>8, <1>16, <1>27 DEF Records
    <3>2. dist'[w].period \in Nat
      BY <1>27 DEF Records
    <3>3. dist[w].period <= (Periods + 1) + (N - Cardinality(todo)) /\ Periods + 1 \in Nat
      BY <1>11, Consts
    <3>. QED
      BY <1>10, <3>1, <3>2, <3>3, OneMore
  <2>2. ASSUME NEW w \in Validators
        PROVE  PeriodBound(w)' = Periods + 1 + (N - (Cardinality(todo) - 1))
    <3>1. CASE phase' = "rewards"
      BY <1>6, <1>10, <3>1 DEF PeriodBound, N
    <3>2. CASE phase' = "clear" /\ todo = {d}
      <4>1. Cardinality(todo \ {d}) = 0
        BY <3>2, FS_EmptySet
      <4>2. PeriodBound(w)' = Periods + 1 + N
        BY <3>2 DEF PeriodBound, N
      <4>. QED
        BY <1>10, <4>1, <4>2, Consts
    <3>. QED
      BY <1>5, <3>1, <3>2
  <2>. QED
    BY <2>1, <2>2 DEF PeriodsFit
<1>37. Referred'
  <2>1. ASSUME NEW w \in Validators PROVE Fitting(dist'[w], info', Of(w))
    <3>1. CASE w = v
      BY <1>20, <1>27, <3>1
    <3>2. CASE w # v
      <4>1. PICK i : i = info
        OBVIOUS
      <4>2. PICK j : j = info'
        OBVIOUS
      <4>3. Of(w) \subseteq Delegations /\ d \notin Of(w)
        BY <1>7, <3>2, OfFacts
      <4>4. \A e \in Of(w) : j[e] = i[e]
        BY <1>19, <4>1, <4>2, <4>3
      <4>5. Fitting(dist[w], j, Of(w))
        BY <1>13, <4>1, <4>4, FittingSame
      <4>. QED
        BY <1>27, <3>2, <4>2, <4>5
    <3>. QED
      BY <3>1, <3>2
  <2>2. phase' \in {"rewards", "clear"}
    BY <1>5
  <2>. QED
    BY <1>12, <2>1, <2>2 DEF Referred
<1>38. Heights'
  BY <1>5 DEF Heights
<1>39. StakingType' /\ Jailing'
  BY <1>2, <1>5, StakingStays
<1>. QED
  BY <1>30, <1>32, <1>33, <1>34, <1>35, <1>36, <1>37, <1>38, <1>39, TypesNext DEF ExportInv

LEMMA ClearStep == ExportInv /\ ClearRecords => ExportInv'
<1>. SUFFICES ASSUME ExportInv, ClearRecords PROVE ExportInv'
  OBVIOUS
<1>. DEFINE now(v) == [dist[v] EXCEPT !.slashes = {}, !.hist = [p \in AllPeriods |-> 0]]
<1>1. /\ phase = "clear" /\ phase' = "validators" /\ todo' = Validators
      /\ dist' = [v \in Validators |-> now(v)]
      /\ UNCHANGED <<inputVars, info, pool, escrow, owed, paid, stakingVars, signing>>
  BY DEF ClearRecords
<1>2. UNCHANGED <<allowed, zero, residue>>
  BY <1>1 DEF inputVars
<1>3. /\ CallType /\ DistType /\ StakingType /\ zero /\ ~residue /\ Malformed \notin allowed
      /\ Visiting /\ Paying /\ Amounts /\ EscrowCovered /\ PeriodsFit /\ Referred
  BY <1>1, Rewriting
<1>4. ASSUME NEW v \in Validators
      PROVE  /\ dist'[v] \in Records /\ dist'[v].outstanding = dist[v].outstanding
             /\ dist'[v].period = dist[v].period /\ Cleared(dist'[v])
  <2>. DEFINE h  == [p \in AllPeriods |-> 0]
              s1 == [dist[v] EXCEPT !.slashes = {}]
              s2 == [s1 EXCEPT !.hist = h]
  <2>1. dist[v] \in Records
    BY <1>3 DEF DistType
  <2>2. dist'[v] = s2
    BY <1>1
  <2>3. h \in [AllPeriods -> Nat] /\ \A p \in AllPeriods : h[p] = 0
    OBVIOUS
  <2>. HIDE DEF h
  <2>4. s1 \in Records /\ s1.outstanding = dist[v].outstanding /\ s1.period = dist[v].period
        /\ s1.slashes = {}
    BY <2>1 DEF Records
  <2>. HIDE DEF s1
  <2>5. s2 \in Records /\ s2.outstanding = dist[v].outstanding /\ s2.period = dist[v].period
        /\ s2.slashes = {} /\ s2.hist = h
    BY <2>3, <2>4 DEF Records
  <2>. QED
    BY <2>2, <2>3, <2>5 DEF Cleared
<1>5. dist' \in [Validators -> Records]
  BY <1>1, <1>4
<1>6. Outstanding' = Outstanding
  <2>1. [v \in Validators |-> dist'[v].outstanding] = [v \in Validators |-> dist[v].outstanding]
    BY <1>4
  <2>. QED
    BY <2>1 DEF Outstanding
<1>7. CallType' /\ Visiting'
  BY <1>1, <1>2, <1>3, Consts DEF CallType, Visiting
<1>8. DistType'
  BY <1>1, <1>2, <1>3, <1>5 DEF DistType
<1>9. EscrowCovered'
  BY <1>1, <1>3, <1>6 DEF EscrowCovered
<1>10. Payments'
  <2>1. Unpaid = {} /\ Unpaid' = {}
    BY <1>1 DEF Unpaid
  <2>2. \A x \in Delegations \cup Validators : paid'[x] = Whole(owed'[x])
    BY <1>1, <1>3, <2>1 DEF Paying
  <2>. QED
    BY <1>1, <2>1, <2>2 DEF Payments, Whole
<1>11. Amounts'
  BY <1>1 DEF Amounts
<1>12. PeriodsFit'
  <2>1. \A v \in Validators : PeriodBound(v) = Periods + 1 + N
    BY <1>1 DEF PeriodBound, N
  <2>2. \A v \in Validators : PeriodBound(v)' = Periods + 1 + N
    BY <1>1 DEF PeriodBound, N
  <2>. QED
    BY <1>3, <1>4, <2>1, <2>2 DEF PeriodsFit
<1>13. Referred'
  <2>1. \A v \in Validators : dist'[v].slashes = {}
    BY <1>4 DEF Cleared
  <2>. QED
    BY <1>1, <1>4, <2>1 DEF Referred, Cleared
<1>14. Heights'
  BY <1>1 DEF Heights
<1>15. StakingType' /\ Jailing'
  BY <1>1, StakingStays
<1>. QED
  BY <1>7, <1>8, <1>9, <1>10, <1>11, <1>12, <1>13, <1>14, <1>15, TypesNext DEF ExportInv

LEMMA ReinitValidatorStep ==
  ASSUME ExportInv, NEW v \in Validators, ReinitValidator(v)
  PROVE  ExportInv'
<1>. DEFINE r == dist[v]
            t == Created(r)
<1>1. /\ phase = "validators" /\ v = Min(todo) /\ Visit(v, "delegations", Delegations)
      /\ pool' = pool + r.outstanding
      /\ UNCHANGED <<inputVars, info, escrow, owed, paid, stakingVars, signing>>
  BY DEF ReinitValidator
<1>2. UNCHANGED <<allowed, zero, residue>>
  BY <1>1 DEF inputVars
<1>3. /\ CallType /\ DistType /\ StakingType /\ zero /\ ~residue /\ Malformed \notin allowed
      /\ Visiting /\ Paying /\ Amounts /\ EscrowCovered /\ PeriodsFit /\ Referred
  BY <1>1, Rewriting
<1>4. v \in todo /\ todo \subseteq Validators
  BY <1>1, <1>3, NextIsLeft DEF Visiting
<1>5. \/ todo = {v} /\ phase' = "delegations" /\ todo' = Delegations
      \/ todo \ {v} # {} /\ phase' = "validators" /\ todo' = todo \ {v}
  BY <1>1, <1>4, VisitLeaves
<1>6. r \in Records /\ dist \in [Validators -> Records] /\ r \in Rewritten
  BY <1>3, RecordsRewritten DEF DistType
<1>7. dist' = [dist EXCEPT ![v] = t]
  BY <1>6 DEF ReinitValidator
<1>8. /\ t \in Rewritten /\ t.outstanding = 0 /\ t.commission = 0 /\ t.current = 0
      /\ t.slashes = r.slashes /\ t.period = 1
      /\ \A p \in AllPeriods : t.hist[p] = IF p = 0 THEN 1 ELSE r.hist[p]
  BY <1>6, CreatedFields
<1>. HIDE DEF t
<1>9. Cleared(r)
  BY <1>1, <1>3, <1>4 DEF Referred
<1>10. \A i : Fitting(t, i, {}) /\ \A p \in AllPeriods : t.hist[p] \in Nat
  BY <1>6, <1>8, <1>9, CreatedFits
<1>11. t \in Records
  <2>1. t.hist \in [AllPeriods -> Nat]
    BY <1>8, <1>10 DEF Rewritten
  <2>2. t.period \in 1 .. Cardinality(AllPeriods)
    BY <1>8, Consts
  <2>. QED
    BY <1>8, <2>1, <2>2 DEF Rewritten, Records
<1>12. /\ dist' \in [Validators -> Records] /\ dist'[v] = t
       /\ \A w \in Validators : w # v => dist'[w] = dist[w]
       /\ Outstanding \in Nat /\ Outstanding' \in Nat
       /\ Outstanding' = Outstanding - dist[v].outstanding + t.outstanding
  BY <1>6, <1>7, <1>11, OneRecord
<1>13. r.outstanding \in Nat /\ pool \in Nat /\ pool' \in Nat
  BY <1>1, <1>3, <1>6 DEF DistType, Records
<1>14. EscrowCovered'
  BY <1>1, <1>3, <1>8, <1>12, <1>13 DEF EscrowCovered
<1>15. CallType' /\ Visiting'
  BY <1>2, <1>3, <1>4, <1>5, Consts DEF CallType, Visiting
<1>16. DistType'
  BY <1>1, <1>3, <1>12, <1>13 DEF DistType
<1>17. Payments'
  <2>1. Unpaid = {} /\ Unpaid' = {}
    BY <1>1, <1>5 DEF Unpaid
  <2>2. \A x \in Delegations \cup Validators : paid'[x] = Whole(owed'[x])
    BY <1>1, <1>3, <2>1 DEF Paying
  <2>. QED
    BY <1>5, <2>1, <2>2 DEF Payments, Whole
<1>18. Amounts'
  <2>1. \A w \in Validators \ (todo \ {v}) : dist'[w].current = 0
    <3>1. \A w \in Validators \ todo : dist[w].current = 0
      BY <1>1, <1>3 DEF Amounts
    <3>. QED
      BY <1>8, <1>12, <3>1
  <2>. QED
    BY <1>5, <2>1 DEF Amounts
<1>19. PeriodsFit'
  <2>1. ASSUME NEW w \in Validators, w \in todo \ {v}
        PROVE  dist'[w].period <= PeriodBound(w)'
    <3>1. PeriodBound(w) = Periods + 1 + N
      BY <1>1, <2>1 DEF PeriodBound, N
    <3>2. phase' = "validators" /\ todo' = todo \ {v}
      BY <1>5, <2>1
    <3>3. PeriodBound(w)' = Periods + 1 + N
      BY <2>1, <3>2 DEF PeriodBound, N
    <3>4. dist'[w] = dist[w] /\ dist[w].period <= PeriodBound(w)
      BY <1>3, <1>12, <2>1 DEF PeriodsFit
    <3>. QED
      BY <3>1, <3>3, <3>4
  <2>2. ASSUME NEW w \in Validators, w \notin todo \ {v}
        PROVE  dist'[w].period <= PeriodBound(w)'
    <3>1. dist'[w].period <= 1
      <4>1. CASE w = v
        BY <1>8, <1>12, <4>1
      <4>2. CASE w # v
        <5>1. PeriodBound(w) = 1
          BY <1>1, <2>2, <4>2 DEF PeriodBound
        <5>. QED
          BY <1>3, <1>12, <4>2, <5>1 DEF PeriodsFit
      <4>. QED
        BY <4>1, <4>2
    <3>2. PeriodBound(w)' = 1
      <4>1. CASE phase' = "validators" /\ todo' = todo \ {v}
        BY <2>2, <4>1 DEF PeriodBound
      <4>2. CASE phase' = "delegations" /\ todo' = Delegations
        <5>1. PeriodBound(w)' = 1 + (N - N)
          BY <4>2 DEF PeriodBound, N
        <5>. QED
          BY <5>1, Consts
      <4>. QED
        BY <1>5, <4>1, <4>2
    <3>. QED
      BY <3>1, <3>2
  <2>. QED
    BY <2>1, <2>2 DEF PeriodsFit
<1>20. Referred'
  <2>1. \A w \in Validators : dist'[w].slashes = {}
    BY <1>1, <1>3, <1>8, <1>12 DEF Referred
  <2>2. ASSUME NEW w \in Validators, w \in todo \ {v} PROVE Cleared(dist'[w])
    BY <1>1, <1>3, <1>12, <2>2 DEF Referred
  <2>3. \A w \in Validators : Live(w)' = {}
    BY <1>5 DEF Live, Of
  <2>4. ASSUME NEW w \in Validators, w \notin todo \ {v} PROVE Fitting(dist'[w], info, {})
    <3>1. CASE w = v
      BY <1>10, <1>12, <3>1
    <3>2. CASE w # v
      <4>1. Live(w) = {} /\ w \notin todo
        BY <1>1, <2>4, <3>2 DEF Live
      <4>. QED
        BY <1>1, <1>3, <1>12, <3>2, <4>1 DEF Referred
    <3>. QED
      BY <3>1, <3>2
  <2>5. CASE phase' = "validators" /\ todo' = todo \ {v}
    BY <1>1, <2>1, <2>2, <2>3, <2>4, <2>5 DEF Referred, Cleared
  <2>6. CASE phase' = "delegations" /\ todo = {v}
    <3>1. \A w \in Validators : Fitting(dist'[w], info, {})
      BY <2>4, <2>6
    <3>. QED
      BY <1>1, <2>1, <2>3, <2>6, <3>1 DEF Referred
  <2>. QED
    BY <1>5, <2>5, <2>6
<1>21. Heights'
  BY <1>5 DEF Heights
<1>22. StakingType' /\ Jailing'
  BY <1>1, <1>5, StakingStays
<1>. QED
  BY <1>14, <1>15, <1>16, <1>17, <1>18, <1>19, <1>20, <1>21, <1>22, TypesNext DEF ExportInv

LEMMA ReinitDelegationStep ==
  ASSUME ExportInv, NEW d \in Delegations, ReinitDelegation(d)
  PROVE  ExportInv'
<1>1. PICK v : v = To[d]
  OBVIOUS
<1>. DEFINE r == dist[v]
            u == Unshared(dist[v], v)
            t == Restarted(r, v)
            c == IncrementPeriod(r, v)
<1>2. /\ phase = "delegations" /\ d \in todo
      /\ dist' = [dist EXCEPT ![v] = t]
      /\ pool' = pool + u
      /\ info' = [info EXCEPT ![d] = StartingInfo(c, 0)]
      /\ Visit(d, "entries", {})
      /\ UNCHANGED <<inputVars, escrow, owed, paid, stakingVars, signing>>
  BY <1>1 DEF ReinitDelegation, Restarted
<1>3. UNCHANGED <<allowed, zero, residue>>
  BY <1>2 DEF inputVars
<1>4. /\ CallType /\ DistType /\ StakingType /\ zero /\ ~residue /\ Malformed \notin allowed
      /\ Visiting /\ Paying /\ Amounts /\ EscrowCovered /\ PeriodsFit /\ Referred /\ Heights
  BY <1>2, Rewriting DEF ExportInv
<1>5. \/ todo = {d} /\ phase' = "entries" /\ todo' = {}
      \/ todo \ {d} # {} /\ phase' = "delegations" /\ todo' = todo \ {d}
  BY <1>2, VisitLeaves
<1>6. todo \subseteq Delegations /\ todo' = todo \ {d}
  BY <1>2, <1>4, <1>5 DEF Visiting
<1>7. /\ v \in Validators /\ d \in Of(v) /\ Of(v) \subseteq Delegations /\ IsFiniteSet(Of(v))
      /\ \A w \in Validators : w # v => d \notin Of(w)
  BY <1>1, Consts, OfFacts, FS_Subset
<1>8. r \in Records /\ dist \in [Validators -> Records] /\ r \in Rewritten
  BY <1>4, <1>7, RecordsRewritten DEF DistType
\* The period closes without rewards.
<1>9. r.current = 0 /\ u = 0
  BY <1>2, <1>4, <1>7 DEF Amounts, Unshared
\* Periods.
<1>10. /\ Cardinality(todo) \in Nat /\ Cardinality(todo) > 0 /\ Cardinality(todo) <= N
       /\ Cardinality(todo \ {d}) = Cardinality(todo) - 1
  <2>1. IsFiniteSet(todo) /\ Cardinality(todo) <= N
    BY <1>6, Consts, FS_Subset DEF N
  <2>2. Cardinality(todo) # 0
    BY <1>2, <2>1, FS_EmptySet
  <2>3. Cardinality(todo) \in Nat
    BY <2>1, FS_CardinalityType
  <2>4. Cardinality(todo \ {d}) = Cardinality(todo) - 1
    BY <1>2, <2>1, FS_RemoveElement
  <2>. QED
    BY <2>1, <2>2, <2>3, <2>4
<1>11. /\ \A w \in Validators : dist[w].period <= 1 + (N - Cardinality(todo))
       /\ r.period \in AllPeriods /\ r.period - 1 \in AllPeriods
  <2>1. \A w \in Validators : PeriodBound(w) = 1 + (N - Cardinality(todo))
    BY <1>2 DEF PeriodBound, N
  <2>2. \A w \in Validators : dist[w].period <= 1 + (N - Cardinality(todo))
    BY <1>4, <2>1 DEF PeriodsFit
  <2>3. r.period \in Nat /\ r.period > 0 /\ r.period <= 1 + (N - Cardinality(todo))
    BY <1>7, <1>8, <2>2, RecordPeriod
  <2>4. r.period <= Periods + 1 + (N - Cardinality(todo))
    BY <1>10, <2>3, Consts
  <2>5. r.period \in AllPeriods /\ r.period - 1 \in AllPeriods
    BY <1>10, <2>3, <2>4, PeriodsReached
  <2>. QED
    BY <2>2, <2>5
<1>12. \A w \in Validators : Live(w) = Of(w) \ todo /\ Live(w)' = Of(w) \ (todo \ {d})
  <2>1. \A w \in Validators : Live(w) = Of(w) \ todo
    BY <1>2 DEF Live
  <2>2. ASSUME NEW w \in Validators PROVE Live(w)' = Of(w) \ (todo \ {d})
    <3>1. CASE todo = {d} /\ phase' = "entries"
      BY <3>1 DEF Live, Of
    <3>2. CASE phase' = "delegations" /\ todo' = todo \ {d}
      BY <3>2 DEF Live, Of
    <3>. QED
      BY <1>5, <3>1, <3>2
  <2>. QED
    BY <2>1, <2>2
<1>13. \A w \in Validators : Fitting(dist[w], info, Of(w) \ todo)
  BY <1>2, <1>4, <1>12 DEF Referred
\* The record.
<1>14. /\ t \in Rewritten /\ t.outstanding = r.outstanding - u
       /\ t.commission = r.commission /\ t.current = 0 /\ t.slashes = r.slashes
       /\ t.period = r.period + 1
       /\ \A p \in AllPeriods :
            t.hist[p] = IF p = r.period THEN 2
                        ELSE r.hist[p] - (IF p = r.period - 1 THEN 1 ELSE 0)
  BY <1>8, <1>9, <1>11, RestartedFields
<1>15. c.period = r.period + 1
  BY <1>8, <1>9, <1>11, IncrementFields
<1>. HIDE DEF t, c, u
<1>16. StartingInfo(c, 0) = [period |-> r.period, height |-> 0]
  <2>1. r.period \in Int
    BY <1>8 DEF Records
  <2>2. c.period - 1 = r.period
    BY <1>15, <2>1
  <2>. QED
    BY <2>2 DEF StartingInfo
<1>17. /\ info' \in [Delegations -> [period : AllPeriods, height : {0, Height}]]
       /\ info'[d].period = r.period /\ info'[d].height = 0
       /\ \A e \in Delegations : e # d => info'[e] = info[e]
  BY <1>2, <1>4, <1>11, <1>16 DEF DistType
<1>18. Fitting(t, info', Of(v) \ (todo \ {d})) /\ \A p \in AllPeriods : t.hist[p] \in Nat
  <2>1. PICK i : i = info
    OBVIOUS
  <2>2. PICK j : j = info'
    OBVIOUS
  <2>3. PICK L : L = Of(v) \ todo
    OBVIOUS
  <2>4. PICK M : M = Of(v) \ (todo \ {d})
    OBVIOUS
  <2>5. IsFiniteSet(L) /\ L \subseteq Delegations /\ d \notin L /\ Joins(M, L, d)
    BY <1>2, <1>7, <2>3, <2>4, FS_Subset DEF Joins
  <2>6. \A e \in L : i[e].period \in Nat
    BY <1>4, <2>1, <2>5, Consts DEF DistType
  <2>7. \A e \in L : j[e] = i[e]
    BY <1>17, <2>1, <2>2, <2>5
  <2>8. Fitting(r, i, L) /\ j[d].period = r.period
    BY <1>7, <1>13, <1>17, <2>1, <2>2, <2>3
  <2>9. Fitting(t, j, M) /\ \A p \in AllPeriods : t.hist[p] \in Nat
    <3>. PICK s : s = dist[v]
      OBVIOUS
    <3>. PICK n : n = t
      OBVIOUS
    <3>1. /\ s \in Records /\ s.period \in AllPeriods /\ s.period - 1 \in AllPeriods
          /\ Fitting(s, i, L) /\ j[d].period = s.period
      BY <1>8, <1>11, <2>8
    <3>2. /\ n \in Rewritten /\ n.slashes = s.slashes /\ n.period = s.period + 1
          /\ \A p \in AllPeriods :
               n.hist[p] = IF p = s.period THEN 2
                           ELSE s.hist[p] - (IF p = s.period - 1 THEN 1 ELSE 0)
      BY <1>14
    <3>3. Fitting(n, j, M) /\ \A p \in AllPeriods : n.hist[p] \in Nat
      BY <2>5, <2>6, <2>7, <3>1, <3>2, RestartedFits
    <3>. QED
      BY <3>3
  <2>. QED
    BY <2>2, <2>4, <2>9
<1>19. t \in Records
  <2>1. t.hist \in [AllPeriods -> Nat]
    BY <1>14, <1>18 DEF Rewritten
  <2>2. t.period \in 1 .. Cardinality(AllPeriods)
    <3>1. r.period \in 0 .. Periods + N /\ t.period = r.period + 1
      BY <1>11, <1>14, Consts
    <3>2. Cardinality(AllPeriods) = Periods + N + 1 /\ Periods \in Nat /\ N \in Nat
      BY Consts
    <3>. QED
      BY <3>1, <3>2
  <2>3. t.outstanding \in Nat
    BY <1>8, <1>9, <1>14 DEF Records
  <2>. QED
    BY <1>14, <2>1, <2>2, <2>3 DEF Rewritten, Records
<1>20. /\ dist' \in [Validators -> Records] /\ dist'[v] = t
       /\ \A w \in Validators : w # v => dist'[w] = dist[w]
       /\ Outstanding \in Nat /\ Outstanding' \in Nat
       /\ Outstanding' = Outstanding - dist[v].outstanding + t.outstanding
  BY <1>2, <1>7, <1>8, <1>19, OneRecord
<1>21. r.outstanding \in Nat /\ pool \in Nat /\ pool' = pool
  BY <1>2, <1>4, <1>8, <1>9 DEF DistType, Records
<1>22. EscrowCovered'
  BY <1>2, <1>4, <1>9, <1>14, <1>20, <1>21 DEF EscrowCovered
<1>23. CallType' /\ Visiting'
  BY <1>3, <1>4, <1>5, <1>6 DEF CallType, Visiting
<1>24. DistType'
  BY <1>2, <1>4, <1>17, <1>20, <1>21 DEF DistType
<1>25. Payments'
  <2>1. Unpaid = {} /\ Unpaid' = {}
    BY <1>2, <1>5 DEF Unpaid
  <2>2. \A x \in Delegations \cup Validators : paid'[x] = Whole(owed'[x])
    BY <1>2, <1>4, <2>1 DEF Paying
  <2>. QED
    BY <1>5, <2>1, <2>2 DEF Payments, Whole
<1>26. Amounts'
  <2>1. \A w \in Validators : dist'[w].current = 0
    BY <1>2, <1>4, <1>14, <1>20 DEF Amounts
  <2>. QED
    BY <1>5, <2>1 DEF Amounts
<1>27. PeriodsFit'
  <2>1. ASSUME NEW w \in Validators
        PROVE  dist'[w].period <= 1 + (N - (Cardinality(todo) - 1)) /\ dist'[w].period \in Nat
    <3>1. dist'[w].period <= dist[w].period + 1 /\ dist[w].period \in Nat
      <4>1. dist[w].period \in Nat
        BY <1>8, RecordPeriod
      <4>2. dist'[w].period = dist[w].period + 1 \/ dist'[w].period = dist[w].period
        BY <1>14, <1>20
      <4>. QED
        BY <4>1, <4>2
    <3>2. dist'[w].period \in Nat
      BY <1>20 DEF Records
    <3>3. dist[w].period <= 1 + (N - Cardinality(todo)) /\ 1 \in Nat
      BY <1>11
    <3>. QED
      BY <1>10, <3>1, <3>2, <3>3, OneMore
  <2>2. ASSUME NEW w \in Validators PROVE dist'[w].period <= PeriodBound(w)'
    <3>1. CASE phase' = "delegations"
      <4>1. PeriodBound(w)' = 1 + (N - (Cardinality(todo) - 1))
        BY <1>6, <1>10, <3>1 DEF PeriodBound, N
      <4>. QED
        BY <2>1, <4>1
    <3>2. CASE phase' = "entries"
      <4>1. PeriodBound(w)' = Periods + 1 + N
        BY <3>2 DEF PeriodBound, N
      <4>. QED
        BY <1>10, <2>1, <4>1, Consts
    <3>. QED
      BY <1>5, <3>1, <3>2
  <2>. QED
    BY <2>2 DEF PeriodsFit
<1>28. Referred'
  <2>1. ASSUME NEW w \in Validators PROVE Fitting(dist'[w], info', Of(w) \ (todo \ {d}))
    <3>1. CASE w = v
      BY <1>18, <1>20, <3>1
    <3>2. CASE w # v
      <4>1. PICK i : i = info
        OBVIOUS
      <4>2. PICK j : j = info'
        OBVIOUS
      <4>3. PICK L : L = Of(w) \ todo
        OBVIOUS
      <4>4. Of(w) \subseteq Delegations /\ d \notin Of(w) /\ Of(w) \ (todo \ {d}) = L
        BY <1>7, <3>2, <4>3, OfFacts
      <4>5. \A e \in L : j[e] = i[e]
        BY <1>17, <4>1, <4>2, <4>3, <4>4
      <4>6. Fitting(dist[w], i, L)
        BY <1>13, <4>1, <4>3
      <4>7. Fitting(dist[w], j, L)
        BY <4>5, <4>6, FittingSame
      <4>. QED
        BY <1>20, <3>2, <4>2, <4>4, <4>7
    <3>. QED
      BY <3>1, <3>2
  <2>2. \A w \in Validators : dist'[w].slashes = {}
    BY <1>2, <1>4, <1>14, <1>20 DEF Referred
  <2>3. phase' \in {"delegations", "entries"}
    BY <1>5
  <2>. QED
    BY <1>12, <2>1, <2>2, <2>3 DEF Referred
<1>29. Heights'
  <2>1. \A e \in Delegations \ (todo \ {d}) : info'[e].height = 0
    <3>1. \A e \in Delegations \ todo : info[e].height = 0
      BY <1>2, <1>4 DEF Heights
    <3>. QED
      BY <1>17, <3>1
  <2>. QED
    BY <1>5, <2>1 DEF Heights
<1>30. StakingType' /\ Jailing'
  BY <1>2, <1>5, StakingStays
<1>. QED
  BY <1>22, <1>23, <1>24, <1>25, <1>26, <1>27, <1>28, <1>29, <1>30, TypesNext DEF ExportInv

LEMMA StartStep == ExportInv /\ Start => ExportInv'
<1>. SUFFICES ASSUME ExportInv, Start PROVE ExportInv'
  OBVIOUS
<1>1. phase = "start" /\ todo = {} /\ UNCHANGED <<inputVars, distVars, stakingVars, signing>>
  BY DEF ExportInv, Visiting, Start, Fail
<1>2. UNCHANGED <<allowed, zero, residue, dist, info, pool, escrow, owed, paid>>
      /\ UNCHANGED <<val, index, last, created, signing>>
  BY <1>1 DEF inputVars, distVars, stakingVars
<1>3. /\ CallType /\ DistType /\ StakingType /\ Payments /\ Amounts /\ EscrowCovered
      /\ PeriodsFit /\ Referred /\ Jailing
  BY Types DEF ExportInv
<1>4. \/ /\ zero /\ (Malformed \in allowed \/ residue) /\ phase' = "failed" /\ todo' = {}
      \/ /\ zero /\ ~residue /\ Malformed \notin allowed /\ phase' = "commissions"
         /\ todo' = Validators
      \/ ~zero /\ phase' = "done" /\ todo' = {}
  BY <1>1, <1>3 DEF Start, Fail, CallType
<1>5. CallType' /\ DistType' /\ StakingType'
  BY <1>2, <1>3, <1>4 DEF CallType, DistType, StakingType
<1>6. Visiting'
  BY <1>2, <1>4, Consts DEF Visiting
<1>7. EscrowCovered'
  BY <1>2, <1>3 DEF EscrowCovered, Outstanding
<1>8. phase' = "commissions" => Unpaid' = Unpaid /\ Unpaid = Delegations \cup Validators
  BY <1>1, <1>4 DEF Unpaid
<1>9. Payments'
  <2>1. CASE phase' = "commissions"
    BY <1>1, <1>2, <1>3, <1>8, <2>1 DEF Payments, Whole
  <2>2. CASE phase' \in {"failed", "done"}
    BY <1>2, <1>4, <2>2 DEF Payments
  <2>. QED
    BY <1>4, <2>1, <2>2
<1>10. Amounts'
  <2>1. CASE phase' = "commissions"
    <3>1. \A v \in Validators : Enough(dist[v], Of(v) \cap Unpaid)
      BY <1>1, <1>3 DEF Amounts
    <3>2. \A v \in Validators : Enough(dist[v], Of(v) \cap Unpaid)'
      BY <1>2, <1>8, <2>1, <3>1 DEF Enough, Of
    <3>. QED
      BY <2>1, <3>2 DEF Amounts
  <2>2. CASE phase' \in {"failed", "done"}
    BY <2>2 DEF Amounts
  <2>. QED
    BY <1>4, <2>1, <2>2
<1>11. PeriodsFit'
  <2>1. ASSUME NEW v \in Validators PROVE dist[v].period <= Periods + 1 /\ dist[v].period \in Nat
    <3>1. dist[v].period \in Nat
      BY <1>3 DEF DistType, Records
    <3>. QED
      BY <1>1, <1>3, <3>1 DEF PeriodsFit, PeriodBound
  <2>2. ASSUME NEW v \in Validators PROVE PeriodBound(v)' >= Periods + 1 /\ PeriodBound(v)' \in Int
    <3>1. PeriodBound(v)' = Periods + 1 \/ PeriodBound(v)' = Periods + 1 + N
      BY <1>4 DEF PeriodBound, N
    <3>. QED
      BY <3>1, Consts
  <2>. QED
    BY <1>2, <2>1, <2>2, Consts DEF PeriodsFit
<1>12. Referred'
  <2>1. \A v \in Validators : Live(v) = Of(v) /\ Live(v)' = Of(v)
    BY <1>1, <1>4 DEF Live, Of
  <2>2. \A v \in Validators : Fitting(dist[v], info, Of(v))
    BY <1>1, <1>3, <2>1 DEF Referred
  <2>. QED
    BY <1>2, <1>4, <2>1, <2>2 DEF Referred
<1>13. Heights'
  BY <1>2, <1>4 DEF Heights
<1>14. Jailing'
  <2>1. \A v \in Validators : val[v].jailed <=> v \notin index
    BY <1>1, <1>3 DEF Jailing
  <2>2. last = WithPower(val, index) /\ last = {v \in Validators : val[v].status = "bonded"}
    BY <1>3 DEF Jailing
  <2>. QED
    BY <1>2, <1>4, <2>1, <2>2 DEF Jailing
<1>. QED
  BY <1>5, <1>6, <1>7, <1>9, <1>10, <1>11, <1>12, <1>13, <1>14, TypesNext DEF ExportInv

-----------------------------------------------------------------------------
(* The first state.                                                        *)

LEMMA ModuloFits ==
  ASSUME NEW x \in Int, NEW u \in Nat, u > 0
  PROVE  x % u \in Nat
  OBVIOUS

LEMMA InitStakingFits ==
  ASSUME Init
  PROVE  StakingType /\ Jailing
<1>1. PICK past \in [Validators -> [tokens : Tokens, jailed : BOOLEAN, unbonding : BOOLEAN]] :
        /\ index = {v \in Validators : ~past[v].jailed}
        /\ last = WithPower(past, index)
        /\ val = [v \in Validators |->
             [tokens |-> past[v].tokens, jailed |-> past[v].jailed,
              status |-> CASE v \in last -> "bonded"
                           [] v \notin last /\ past[v].unbonding -> "unbonding"
                           [] OTHER -> "unbonded",
              unbondingHeight |-> IF v \in last /\ ~past[v].unbonding
                                    THEN 0 ELSE Height]]
        /\ created = [e \in Entries |-> Height]
        /\ signing = [v \in Validators |-> Height]
  BY DEF Init, InitStaking
<1>2. phase = "start"
  BY DEF Init
<1>3. index \subseteq Validators /\ last \subseteq index
  BY <1>1 DEF WithPower, Reached
<1>4. ASSUME NEW v \in Validators
      PROVE  /\ val[v] \in [tokens : Tokens, jailed : BOOLEAN,
                            status : {"bonded", "unbonding", "unbonded"},
                            unbondingHeight : {0, Height}]
             /\ val[v].tokens = past[v].tokens /\ (val[v].jailed <=> past[v].jailed)
             /\ val[v].status = "bonded" <=> v \in last
  <2>1. past[v] \in [tokens : Tokens, jailed : BOOLEAN, unbonding : BOOLEAN]
    OBVIOUS
  <2>2. PICK s : s = CASE v \in last -> "bonded"
                       [] v \notin last /\ past[v].unbonding -> "unbonding"
                       [] OTHER -> "unbonded"
    OBVIOUS
  <2>3. PICK h : h = IF v \in last /\ ~past[v].unbonding THEN 0 ELSE Height
    OBVIOUS
  <2>4. val[v] = [tokens |-> past[v].tokens, jailed |-> past[v].jailed, status |-> s,
                  unbondingHeight |-> h]
    BY <1>1, <2>2, <2>3
  <2>5. s \in {"bonded", "unbonding", "unbonded"} /\ (s = "bonded" <=> v \in last)
    BY <2>2
  <2>6. h \in {0, Height}
    BY <2>3
  <2>. QED
    BY <2>1, <2>4, <2>5, <2>6
<1>5. StakingType
  <2>1. val = [v \in Validators |-> val[v]]
    BY <1>1
  <2>2. created \in [Entries -> {0, Height}] /\ signing \in [Validators -> {0, Height}]
    BY <1>1
  <2>3. last \subseteq Validators
    BY <1>3
  <2>. QED
    BY <1>3, <1>4, <2>1, <2>2, <2>3 DEF StakingType
<1>6. Jailing
  <2>1. last = WithPower(val, index)
    <3>1. \A v \in index : val[v].tokens = past[v].tokens
      BY <1>3, <1>4
    <3>2. WithPower(val, index) = WithPower(past, index)
      BY <3>1, TokensDecide
    <3>. QED
      BY <1>1, <3>2
  <2>2. last = {v \in Validators : val[v].status = "bonded"}
    BY <1>3, <1>4
  <2>3. \A v \in Validators : val[v].jailed <=> v \notin index
    BY <1>1, <1>4
  <2>. QED
    BY <1>2, <2>1, <2>2, <2>3 DEF Jailing
<1>. QED
  BY <1>5, <1>6

LEMMA ReferencesAre ==
  ASSUME NEW s, NEW n, NEW v, NEW p
  PROVE  References(s, n, v, p) =
           Cardinality(At(Of(v), info, p)) + (IF p \in s THEN 1 ELSE 0)
             + (IF p = n - 1 THEN 1 ELSE 0)
BY DEF References, At

LEMMA CountedAre ==
  ASSUME NEW r, NEW i, NEW L, NEW s, NEW n, r.slashes = s, r.period = n, NEW p
  PROVE  Counted(r, i, L, p) =
           Cardinality(At(L, i, p)) + (IF p \in s THEN 1 ELSE 0) + (IF p = n - 1 THEN 1 ELSE 0)
BY DEF Counted

LEMMA InitStep == Init => ExportInv
<1>. SUFFICES ASSUME Init PROVE ExportInv
  OBVIOUS
<1>1. phase = "start" /\ todo = {} /\ allowed \in AllowLists /\ zero \in BOOLEAN
      /\ residue \in BOOLEAN
  BY DEF Init
<1>2. /\ owed \in [Delegations \cup Validators -> Rewards \cup Commissions]
      /\ info \in [Delegations -> [period : 1 .. Periods, height : {Height}]]
      /\ pool = (-Outstanding) % Unit /\ escrow = Outstanding + pool
      /\ paid = [x \in Delegations \cup Validators |-> 0]
  BY DEF Init, InitDistribution
<1>3. PICK current \in [Validators -> Currents], dust \in [Validators -> Dusts],
           slashed \in SUBSET Validators :
        dist = [v \in Validators |->
          LET slashes == IF v \in slashed THEN Unused(v) ELSE {}
          IN  [outstanding |-> current[v] + dust[v]
                                 + SumFunctionOnSet(owed, Of(v) \cup {v}),
               commission |-> owed[v], current |-> current[v],
               slashes |-> slashes, period |-> Periods + 1,
               hist |-> [p \in AllPeriods |->
                          References(slashes, Periods + 1, v, p)]]]
  <2>. DEFINE Right(c, u, s) ==
         dist = [v \in Validators |->
           LET slashes == IF v \in s THEN Unused(v) ELSE {}
           IN  [outstanding |-> c[v] + u[v]
                                  + SumFunctionOnSet(owed, Of(v) \cup {v}),
                commission |-> owed[v], current |-> c[v],
                slashes |-> slashes, period |-> Periods + 1,
                hist |-> [p \in AllPeriods |->
                           References(slashes, Periods + 1, v, p)]]]
  <2>1. PICK c \in [Validators -> Currents], u \in [Validators -> Dusts],
             s \in SUBSET {v \in Validators : Unused(v) # {}} : Right(c, u, s)
    BY DEF Init, InitDistribution
  <2>2. s \in SUBSET Validators
    OBVIOUS
  <2>. HIDE DEF Right
  <2>3. \E a \in [Validators -> Currents], b \in [Validators -> Dusts],
           e \in SUBSET Validators : Right(a, b, e)
    BY <2>1, <2>2
  <2>. QED
    BY <2>3 DEF Right
<1>4. owed \in [Delegations \cup Validators -> Nat]
  <2>1. Rewards \subseteq Nat /\ Commissions \subseteq Nat
    BY ExportAssumption
  <2>. QED
    BY <1>2, <2>1
<1>5. ASSUME NEW v \in Validators
      PROVE  /\ dist[v] \in Records /\ dist[v].commission = owed[v] /\ dist[v].period = Periods + 1
             /\ Enough(dist[v], Of(v)) /\ Fitting(dist[v], info, Of(v))
  <2>a. PICK r : r = dist[v]
    OBVIOUS
  <2>b. PICK s : s = IF v \in slashed THEN Unused(v) ELSE {}
    OBVIOUS
  <2>c. PICK h : h = [p \in AllPeriods |-> References(s, Periods + 1, v, p)]
    OBVIOUS
  <2>d. PICK o : o = current[v] + dust[v] + SumFunctionOnSet(owed, Of(v) \cup {v})
    OBVIOUS
  <2>e. PICK n : n = Periods + 1
    OBVIOUS
  <2>1. r = [outstanding |-> o, commission |-> owed[v], current |-> current[v],
             slashes |-> s, period |-> n, hist |-> h]
    BY <1>3, <2>a, <2>b, <2>c, <2>d, <2>e
  <2>2. Of(v) \subseteq Delegations /\ v \notin Of(v) /\ IsFiniteSet(Of(v))
    BY OfFacts, Consts, FS_Subset
  <2>3. \A d \in Of(v) : owed[d] \in Nat
    BY <1>4, <2>2
  <2>4. SumFunctionOnSet(owed, Of(v) \cup {v}) = owed[v] + SumFunctionOnSet(owed, Of(v))
        /\ SumFunctionOnSet(owed, Of(v)) \in Nat
    <3>. PICK S : S = Of(v) \cup {v}
      OBVIOUS
    <3>1. IsFiniteSet(S) /\ v \in S /\ S \ {v} = Of(v)
      BY <2>2, FS_AddElement
    <3>2. \A x \in S : owed[x] \in Nat
      BY <1>4, <2>2
    <3>3. SumFunctionOnSet(owed, S) = owed[v] + SumFunctionOnSet(owed, S \ {v})
      BY <3>1, <3>2, SumRemove
    <3>4. SumFunctionOnSet(owed, Of(v)) \in Nat
      BY <2>2, <2>3, SumNat
    <3>. QED
      BY <3>1, <3>3, <3>4
  <2>5. current[v] \in Nat /\ dust[v] \in Nat /\ owed[v] \in Nat
    BY <1>4, ExportAssumption
  <2>6. o \in Nat /\ o >= current[v] + owed[v] + SumFunctionOnSet(owed, Of(v))
    BY <2>4, <2>5, <2>d
  <2>7. s \in SUBSET (1 .. Periods)
    BY <2>b DEF Unused
  <2>8. \A p \in AllPeriods :
          h[p] = Cardinality(At(Of(v), info, p)) + (IF p \in s THEN 1 ELSE 0)
                   + (IF p = n - 1 THEN 1 ELSE 0)
    <3>1. \A p \in AllPeriods : h[p] = References(s, n, v, p)
      BY <2>c, <2>e
    <3>. QED
      BY <3>1, ReferencesAre
  <2>9. h \in [AllPeriods -> Nat]
    <3>1. ASSUME NEW p \in AllPeriods PROVE h[p] \in Nat
      <4>1. Cardinality(At(Of(v), info, p)) \in Nat
        BY <2>2, CountNat
      <4>. QED
        BY <2>8, <4>1
    <3>. QED
      BY <2>c, <3>1
  <2>10. r \in Records
    <3>1. n \in 1 .. Cardinality(AllPeriods)
      BY <2>e, Consts
    <3>. QED
      BY <2>1, <2>5, <2>6, <2>7, <2>9, <3>1 DEF Records
  <2>11. r.outstanding = o /\ r.commission = owed[v] /\ r.current = current[v]
         /\ r.slashes = s /\ r.period = n /\ r.hist = h
    BY <2>1
  <2>12. Enough(r, Of(v))
    BY <2>4, <2>5, <2>6, <2>11 DEF Enough
  <2>13. Fitting(r, info, Of(v))
    <3>1. ASSUME NEW p \in AllPeriods PROVE r.hist[p] = Counted(r, info, Of(v), p)
      <4>1. Counted(r, info, Of(v), p) =
              Cardinality(At(Of(v), info, p)) + (IF p \in s THEN 1 ELSE 0)
                + (IF p = n - 1 THEN 1 ELSE 0)
        BY <2>11, CountedAre
      <4>. QED
        BY <2>8, <2>11, <4>1
    <3>2. \A d \in Of(v) : info[d].period < r.period
      BY <1>2, <2>2, <2>11, <2>e, Consts
    <3>3. ASSUME NEW p \in r.slashes PROVE p < r.period
      <4>1. p \in 1 .. Periods
        BY <2>7, <2>11
      <4>. QED
        BY <2>11, <2>e, <4>1, Consts
    <3>. QED
      BY <3>1, <3>2, <3>3 DEF Fitting
  <2>. QED
    BY <2>10, <2>11, <2>12, <2>13, <2>a, <2>e
<1>6. dist \in [Validators -> Records]
  <2>1. dist = [v \in Validators |-> dist[v]]
    BY <1>3
  <2>. QED
    BY <1>5, <2>1
<1>7. Outstanding \in Nat
  <2>1. PICK f : f = [v \in Validators |-> dist[v].outstanding]
    OBVIOUS
  <2>2. DOMAIN f = Validators /\ \A v \in Validators : f[v] \in Nat
    BY <1>5, <2>1 DEF Records
  <2>3. SumFunctionOnSet(f, Validators) \in Nat
    BY <2>2, Consts, SumNat
  <2>. QED
    BY <2>1, <2>2, <2>3 DEF Outstanding, SumFunction
<1>8. pool \in Nat /\ escrow \in Nat
  BY <1>2, <1>7, Consts, ModuloFits
<1>9. CallType
  BY <1>1 DEF CallType
<1>10. DistType
  <2>1. info \in [Delegations -> [period : AllPeriods, height : {0, Height}]]
    <3>1. 1 .. Periods \subseteq AllPeriods
      BY Consts
    <3>. QED
      BY <1>2, <3>1
  <2>2. paid \in [Delegations \cup Validators -> Nat]
    BY <1>2
  <2>. QED
    BY <1>4, <1>6, <1>8, <2>1, <2>2 DEF DistType
<1>11. Visiting /\ Heights
  BY <1>1 DEF Visiting, Heights
<1>12. Unpaid = Delegations \cup Validators
  BY <1>1 DEF Unpaid
<1>13. Payments
  BY <1>2, <1>5, <1>12 DEF Payments
<1>14. Amounts
  <2>1. \A v \in Validators : Of(v) \cap Unpaid = Of(v)
    BY <1>12, OfFacts
  <2>. QED
    BY <1>1, <1>5, <2>1 DEF Amounts
<1>15. EscrowCovered
  BY <1>2 DEF EscrowCovered
<1>16. PeriodsFit
  BY <1>1, <1>5, Consts DEF PeriodsFit, PeriodBound
<1>17. Referred
  <2>1. \A v \in Validators : Live(v) = Of(v)
    BY <1>1 DEF Live
  <2>. QED
    BY <1>1, <1>5, <2>1 DEF Referred
<1>. QED
  BY <1>9, <1>10, <1>11, <1>13, <1>14, <1>15, <1>16, <1>17, Types, InitStakingFits DEF ExportInv

-----------------------------------------------------------------------------
(* The invariant, and what follows from it.                                *)

LEMMA Stutters == ExportInv /\ UNCHANGED vars => ExportInv'
<1>. SUFFICES ASSUME ExportInv, UNCHANGED vars PROVE ExportInv'
  OBVIOUS
<1>1. /\ UNCHANGED <<phase, todo, allowed, zero, residue, dist, info, pool, escrow, owed, paid>>
      /\ UNCHANGED <<val, index, last, created, signing>>
  BY DEF vars, inputVars, distVars, stakingVars
<1>2. TypeOK' /\ Visiting' /\ Heights' /\ EscrowCovered'
  BY <1>1 DEF ExportInv, TypeOK, Visiting, Heights, EscrowCovered, Outstanding
<1>3. Unpaid' = Unpaid
  BY <1>1 DEF Unpaid
<1>4. Payments'
  BY <1>1, <1>3 DEF ExportInv, Payments, Whole
<1>5. Amounts'
  BY <1>1, <1>3 DEF ExportInv, Amounts, Enough, Of
<1>6. PeriodsFit'
  <2>1. \A v \in Validators : PeriodBound(v)' = PeriodBound(v)
    BY <1>1 DEF PeriodBound
  <2>. QED
    BY <1>1, <2>1 DEF ExportInv, PeriodsFit
<1>7. Referred'
  <2>1. \A v \in Validators : Live(v)' = Live(v)
    BY <1>1 DEF Live, Of
  <2>. QED
    BY <1>1, <2>1 DEF ExportInv, Referred
<1>8. Jailing'
  BY <1>1 DEF ExportInv, Jailing, Barred, Excluded
<1>. QED
  BY <1>2, <1>4, <1>5, <1>6, <1>7, <1>8 DEF ExportInv

LEMMA NextKeeps == ExportInv /\ [Next]_vars => ExportInv'
<1>. SUFFICES ASSUME ExportInv, [Next]_vars PROVE ExportInv'
  OBVIOUS
<1>1. CASE Start
  BY <1>1, StartStep
<1>2. CASE \E v \in Validators : WithdrawCommission(v)
  BY <1>2, CommissionStep
<1>3. CASE \E v \in Validators : ReinitValidator(v)
  BY <1>3, ReinitValidatorStep
<1>4. CASE \E d \in Delegations : WithdrawRewards(d)
  BY <1>4, RewardsStep
<1>5. CASE \E d \in Delegations : ReinitDelegation(d)
  BY <1>5, ReinitDelegationStep
<1>6. CASE ClearRecords
  BY <1>6, ClearStep
<1>7. CASE ResetEntries
  BY <1>7, EntriesStep
<1>8. CASE ResetValidators
  BY <1>8, ValidatorsStep
<1>9. CASE ApplyValidatorSet
  BY <1>9, ApplyStep
<1>10. CASE ResetSigningInfos
  BY <1>10, SigningStep
<1>11. CASE UNCHANGED vars
  BY <1>11, Stutters
<1>. QED
  BY <1>1, <1>2, <1>3, <1>4, <1>5, <1>6, <1>7, <1>8, <1>9, <1>10, <1>11 DEF Next

\* Every state of an export, at a height or for height 0, satisfies the
\* invariant, whatever the records it starts from.
THEOREM ExportRuns == Spec => []ExportInv
<1>1. Init => ExportInv
  BY InitStep
<1>2. ExportInv /\ [Next]_vars => ExportInv'
  BY NextKeeps
<1>. QED
  BY <1>1, <1>2, PTL DEF Spec

\* No amount the withdrawals of prepForZeroHeightGenesis leave is negative, no
\* historical reward is released more often than it is referred to, and no period
\* is beyond the ones that exist: the keeper's panics on these are not reached.
THEOREM NoNegativeAmount == Spec => []TypeOK
<1>1. ExportInv => TypeOK
  BY DEF ExportInv
<1>. QED
  BY <1>1, ExportRuns, PTL

\* Step by step the escrow of the distribution module equals the records of
\* rewards and the community pool, although each withdrawal rounds, so that
\* InitGenesis of the exported file accepts it.
THEOREM EscrowAccounted == Spec => []EscrowCovered
<1>1. ExportInv => EscrowCovered
  BY DEF ExportInv
<1>. QED
  BY <1>1, ExportRuns, PTL

\* A finished zero-height export has paid every delegation its rewards and every
\* validator its commission, in whole coins, once.
THEOREM NobodyUnpaid == Spec => []PaidInFull
<1>1. ExportInv => PaidInFull
  <2>. SUFFICES ASSUME ExportInv, zero, phase = "done"
                PROVE  \A x \in Delegations \cup Validators : paid[x] = Whole(owed[x])
    BY DEF PaidInFull
  <2>1. Unpaid = {}
    BY DEF Unpaid
  <2>. QED
    BY <2>1 DEF ExportInv, Payments
<1>. QED
  BY <1>1, ExportRuns, PTL

\* What an export writes is one genesis state: each historical reward has the
\* references its count says, no height of the old chain is left, and the
\* validators beside the records are the bonded ones and not jailed.
THEOREM OneGenesis == Spec => []RecordsFitTogether
<1>1. ExportInv => ReferencesCounted
  <2>. SUFFICES ASSUME ExportInv, phase \notin {"validators", "delegations"},
                       NEW v \in Validators, NEW p \in AllPeriods
                PROVE  dist[v].hist[p] = References(dist[v].slashes, dist[v].period, v, p)
    BY DEF ReferencesCounted
  <2>1. Fitting(dist[v], info, Of(v))
    <3>1. Live(v) = Of(v)
      BY DEF Live
    <3>. QED
      BY <3>1 DEF ExportInv, Referred
  <2>2. dist[v].hist[p] = Counted(dist[v], info, Of(v), p)
    BY <2>1 DEF Fitting
  <2>3. Counted(dist[v], info, Of(v), p)
          = References(dist[v].slashes, dist[v].period, v, p)
    BY ReferencesAre, CountedAre
  <2>. QED
    BY <2>2, <2>3
<1>2. ExportInv => NoOldHeights
  BY DEF ExportInv, Heights, NoOldHeights
<1>3. ExportInv => SetMatchesRecords
  <2>. SUFFICES ASSUME ExportInv, phase = "done" PROVE SetMatchesRecords
    BY DEF SetMatchesRecords
  <2>1. last = {v \in Validators : val[v].status = "bonded"} /\ last \subseteq Validators
    BY DEF ExportInv, Jailing
  <2>2. last \subseteq Reached(val, index) /\ last \subseteq index
    BY DEF ExportInv, Jailing, WithPower, Reached
  <2>3. \A v \in last : ~val[v].jailed
    <3>1. CASE zero
      BY <2>2, <3>1 DEF ExportInv, Jailing
    <3>2. CASE ~zero
      <4>1. \A v \in Validators : val[v].jailed <=> v \notin index
        BY <3>2 DEF ExportInv, Jailing
      <4>. QED
        BY <2>1, <2>2, <4>1
    <3>. QED
      BY <3>1, <3>2
  <2>. QED
    BY <2>1, <2>3 DEF SetMatchesRecords
<1>4. ExportInv => RecordsFitTogether
  BY <1>1, <1>2, <1>3 DEF RecordsFitTogether
<1>. QED
  BY <1>4, ExportRuns, PTL

\* Only a broken invariant, an address that does not parse and an excluded
\* validator within reach of the set make an export fail, and each of them does.
THEOREM KnownFailures == Spec => []FailsForAReason
<1>1. ExportInv => FailsForAReason
  <2>. SUFFICES ASSUME ExportInv PROVE FailsForAReason
    OBVIOUS
  <2>1. phase = "failed" => residue \/ Malformed \in allowed \/ Excluded
    BY DEF ExportInv, Jailing
  <2>2. ASSUME zero, phase = "done" PROVE ~residue /\ Malformed \notin allowed /\ ~Excluded
    <3>1. ~residue /\ Malformed \notin allowed
      BY <2>2 DEF ExportInv, Visiting
    <3>2. \A v \in index : val[v].jailed <=> Barred(v)
      BY <2>2 DEF ExportInv, Jailing
    <3>3. \A v \in Reached(val, index) : ~val[v].jailed /\ v \in index
      BY <2>2 DEF ExportInv, Jailing, Reached
    <3>4. ~Excluded
      BY <3>2, <3>3 DEF Excluded, Barred
    <3>. QED
      BY <3>1, <3>4
  <2>. QED
    BY <2>1, <2>2 DEF FailsForAReason
<1>. QED
  BY <1>1, ExportRuns, PTL

=============================================================================
