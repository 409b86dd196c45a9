------------------------ MODULE InPlaceTestnet_proofs ------------------------
(***************************************************************************)
(* Proofs about the in-place testnet, for every chain, every number of     *)
(* calls of the command and any place at which the process may die.        *)
(*                                                                         *)
(* The invariant says of every version of the application state (the disk, *)
(* the uncommitted root multistore, the cache of a block) that its records *)
(* fit together, and of CometBFT's validator sets which of the versions    *)
(* they follow: the disk until the SDK has rewritten them, the uncommitted *)
(* state from then on, none once that state is lost.                       *)
(***************************************************************************)
EXTENDS InPlaceTestnet, FiniteSetTheorems, TLAPS

AppState ==
  [val     : [Operators -> [key    : Keys \cup {None},
                            status : {"absent", "bonded", "unbonding", "unbonded"},
                            power  : Int]],
   byCons  : [Keys -> Operators \cup {None}],
   index   : SUBSET Operators,
   last    : [Operators -> Int],
   queue   : SUBSET Operators,
   signing : SUBSET Keys,
   period  : [Operators -> Int],
   refs    : [Operators -> [Periods -> Int]],
   start   : [Operators -> [Delegators -> Int]],
   mixed   : SUBSET Operators,
   funds   : [Accounts -> Nat]]

\* Staking and slashing: what the index, the last validators and the queue
\* lead to, and that a validator's key leads back to it.
RecordsFit(s) ==
  /\ \A o \in s.index : s.val[o].status = "bonded" /\ s.last[o] >= 0
  /\ \A o \in Operators \ s.index : s.last[o] = -1
  /\ \A o \in s.queue : s.val[o].status = "unbonding"
  /\ \A o \in Operators :
       IF Exists(s, o)
       THEN s.val[o].key \in s.signing /\ s.byCons[s.val[o].key] = o /\ s.val[o].power > 0
       ELSE s.val[o].key = None

\* Distribution: a validator's ended periods are referred to by the delegation
\* that starts from it, the last of them by the current period too.
RefsFit(s, o) ==
  /\ s.period[o] \in 1 .. MaxPeriod + 1
  /\ \A d \in Delegators : s.start[o][d] \in -1 .. s.period[o] - 1
  /\ \A d, e \in Delegators : s.start[o][d] = s.start[o][e] /\ d # e => s.start[o][d] = -1
  /\ \A p \in 0 .. s.period[o] - 1 :
       s.refs[o][p] = (IF \E d \in Delegators : s.start[o][d] = p THEN 1 ELSE 0)
                        + (IF p = s.period[o] - 1 THEN 1 ELSE 0)

PeriodsFit(s) == \A o \in Operators \ s.mixed : Exists(s, o) => RefsFit(s, o)

Fits(s) == s \in AppState /\ RecordsFit(s) /\ PeriodsFit(s)

\* The transactions of a block leave these records alone.
SameValidators(s, t) ==
  /\ s.byCons = t.byCons /\ s.index = t.index /\ s.last = t.last
  /\ s.queue = t.queue /\ s.signing = t.signing
  /\ s.mixed = t.mixed /\ s.funds = t.funds
  /\ \A o \in Operators : s.val[o].key = t.val[o].key /\ s.val[o].status = t.val[o].status

ValidatorSets == [last : [Keys -> Int], now : [Keys -> Int], next : [Keys -> Int]]

\* Every key CometBFT counts, or will, resolves, and its next validator set has
\* the last powers of s, where they are not the 0 the command leaves.
Indexed(s, k) == \E o \in s.index : s.val[o].key = k
CometFollows(c, s) ==
  /\ \A k \in Keys : c.last[k] > 0 \/ c.now[k] > 0 \/ c.next[k] > 0 => VoteResolves(s, k)
  /\ \A o \in s.index : s.last[o] # 0 => c.next[s.val[o].key] = s.last[o]
  /\ \A k \in Keys : ~Indexed(s, k) => c.next[k] = 0

TypeOK ==
  /\ stage \in {"stopped", "rewriting", "idle", "delivering"}
  /\ comet \in ValidatorSets
  /\ lost \in BOOLEAN /\ failed \in BOOLEAN
  /\ owed \in [Accounts -> Nat]
  /\ disk \in AppState /\ work \in AppState /\ block \in AppState

\* What the call that no block has committed would add to the disk.
PendingInv ==
  /\ pending = {} => work = disk
  /\ pending # {} => \E p \in pending : pending = {p}
  /\ \A p \in pending : /\ p \in [Accounts -> Nat]
                        /\ work.funds = [a \in Accounts |-> disk.funds[a] + p[a]]
  /\ stage = "stopped" => pending = {}

\* The state the command leaves: the new validator alone, its last power 0.
Rewritten(s) == \A o \in Operators : Exists(s, o) => o \in s.index /\ s.last[o] = 0

InPlaceInv ==
  /\ TypeOK
  /\ Fits(disk) /\ Fits(work) /\ Fits(block)
  /\ PendingInv
  /\ \A o \in disk.index : disk.last[o] > 0
  /\ stage = "rewriting" => Rewritten(work)
  /\ stage = "delivering" => SameValidators(block, work)
  /\ ~lost => CometFollows(comet, IF stage = "rewriting" THEN disk ELSE work)
  /\ disk.funds = owed
  /\ ~failed

-----------------------------------------------------------------------------
\* A state is one of AppState when its fields have their types.
LEMMA StateFields ==
  ASSUME NEW s \in AppState
  PROVE  /\ s.val \in [Operators -> [key    : Keys \cup {None},
                            status : {"absent", "bonded", "unbonding", "unbonded"},
                            power  : Int]]
         /\ s.byCons \in [Keys -> Operators \cup {None}]
         /\ s.index \subseteq Operators
         /\ s.last \in [Operators -> Int]
         /\ s.queue \subseteq Operators
         /\ s.signing \subseteq Keys
         /\ s.period \in [Operators -> Int]
         /\ s.refs \in [Operators -> [Periods -> Int]]
         /\ s.start \in [Operators -> [Delegators -> Int]]
         /\ s.mixed \subseteq Operators
         /\ s.funds \in [Accounts -> Nat]
  BY DEF AppState

\* How often an address is in a list is a number.
LEMMA TimesType ==
  ASSUME NEW list \in Seq(Accounts \cup {Unparsable}), NEW x
  PROVE  Times(list, x) \in Nat
<1>1. IsFiniteSet(1 .. Len(list))
  BY FS_Interval
<1>2. IsFiniteSet({i \in DOMAIN list : list[i] = x})
  <2>1. {i \in DOMAIN list : list[i] = x} \subseteq 1 .. Len(list)
    OBVIOUS
  <2> QED BY <1>1, <2>1, FS_Subset
<1> QED BY <1>2, FS_CardinalityType DEF Times

-----------------------------------------------------------------------------
\* The end of a validator's period keeps what its delegations refer to, and
\* no delegation starts from the period that has just ended.
Fresh(s, o) == \A d \in Delegators : s.start[o][d] < s.period[o] - 1

LEMMA NextPeriodKeeps ==
  ASSUME NEW s \in AppState, NEW o \in Operators
  PROVE  LET n == NextPeriod(s, o)
         IN  /\ n \in AppState
             /\ n.val = s.val /\ n.start = s.start /\ SameValidators(n, s)
             /\ n.period[o] = s.period[o] + 1
             /\ \A q \in Operators \ {o} : n.period[q] = s.period[q] /\ n.refs[q] = s.refs[q]
             /\ \A p \in Periods : n.refs[o][p] = IF p = s.period[o] THEN 1
                                                 ELSE IF p = s.period[o] - 1
                                                      THEN s.refs[o][p] - 1
                                                      ELSE s.refs[o][p]
<1> DEFINE P  == s.period[o]
           f  == s.refs[o]
           f1 == [f EXCEPT ![P - 1] = f[P - 1] - 1]
           x1 == [s.refs EXCEPT ![o] = f1]
           s1 == [s EXCEPT !.refs = x1]
           g  == s1.refs[o]
           f2 == [g EXCEPT ![P] = 1]
           x2 == [s1.refs EXCEPT ![o] = f2]
           s2 == [s1 EXCEPT !.refs = x2]
           y  == [s2.period EXCEPT ![o] = P + 1]
           n  == [s2 EXCEPT !.period = y]
<1>1. NextPeriod(s, o) = n
  BY DEF NextPeriod
<1>2. f \in [Periods -> Int] /\ P \in Int /\ s.refs \in [Operators -> [Periods -> Int]]
      /\ s.period \in [Operators -> Int]
  BY StateFields
<1> HIDE DEF n, y, s2, x2, f2, g, s1, x1, f1, f, P
<1>3. f1 \in [Periods -> Int]
  <2>1. P - 1 \in Periods => f[P - 1] - 1 \in Int
    BY <1>2
  <2>2. \A v : (P - 1 \in Periods => v \in Int) => [f EXCEPT ![P - 1] = v] \in [Periods -> Int]
    BY <1>2
  <2> QED BY <2>1, <2>2 DEF f1
<1>4. x1 \in [Operators -> [Periods -> Int]] /\ x1[o] = f1
      /\ \A q \in Operators \ {o} : x1[q] = s.refs[q]
  BY <1>2, <1>3 DEF x1
<1>5. /\ s1 \in AppState /\ s1.refs = x1
      /\ s1.val = s.val /\ s1.start = s.start /\ s1.period = s.period /\ SameValidators(s1, s)
  BY <1>4 DEF s1, AppState, SameValidators
<1>6. g = f1
  BY <1>4, <1>5 DEF g
<1>7. f2 \in [Periods -> Int] /\ f2 = [f1 EXCEPT ![P] = 1]
  <2>1. f2 = [f1 EXCEPT ![P] = 1]
    BY <1>6 DEF f2
  <2>2. \A i, v : v \in Int => [f1 EXCEPT ![i] = v] \in [Periods -> Int]
    BY <1>3
  <2> QED BY <2>1, <2>2
<1>8. x2 \in [Operators -> [Periods -> Int]] /\ x2[o] = f2
      /\ \A q \in Operators \ {o} : x2[q] = x1[q]
  BY <1>4, <1>5, <1>7 DEF x2
<1>9. /\ s2 \in AppState /\ s2.refs = x2
      /\ s2.val = s1.val /\ s2.start = s1.start /\ s2.period = s1.period
      /\ SameValidators(s2, s1)
  BY <1>5, <1>8 DEF s2, AppState, SameValidators
<1>10. y \in [Operators -> Int] /\ y = [s.period EXCEPT ![o] = P + 1]
  BY <1>2, <1>5, <1>9 DEF y
<1>11. /\ n \in AppState /\ n.period = y
       /\ n.val = s2.val /\ n.start = s2.start /\ n.refs = s2.refs
       /\ SameValidators(n, s2)
  BY <1>9, <1>10 DEF n, AppState, SameValidators
<1>12. SameValidators(n, s)
  BY <1>5, <1>9, <1>11 DEF SameValidators
<1>13. \A p \in Periods : n.refs[o][p] = IF p = P THEN 1
                                          ELSE IF p = P - 1 THEN f[p] - 1 ELSE f[p]
  <2>1. \A p \in Periods : f1[p] = IF p = P - 1 THEN f[p] - 1 ELSE f[p]
    BY <1>2 DEF f1
  <2>2. \A p \in Periods : f2[p] = IF p = P THEN 1 ELSE f1[p]
    BY <1>3, <1>7
  <2>3. n.refs[o] = f2
    BY <1>8, <1>9, <1>11
  <2> QED BY <2>1, <2>2, <2>3
<1>14. \A q \in Operators \ {o} : n.refs[q] = s.refs[q]
  BY <1>4, <1>8, <1>9, <1>11
<1>15. n.period[o] = P + 1 /\ \A q \in Operators \ {o} : n.period[q] = s.period[q]
  BY <1>2, <1>10, <1>11
<1> QED BY <1>1, <1>5, <1>9, <1>11, <1>12, <1>13, <1>14, <1>15 DEF P, f

LEMMA NextPeriodFits ==
  ASSUME NEW s \in AppState, NEW o \in Operators, RefsFit(s, o), s.period[o] < MaxPeriod
  PROVE  RefsFit(NextPeriod(s, o), o) /\ Fresh(NextPeriod(s, o), o)
<1> DEFINE n == NextPeriod(s, o)
           P == s.period[o]
<1>1. /\ n.start = s.start /\ n.period[o] = P + 1
      /\ \A p \in Periods : n.refs[o][p] = IF p = P THEN 1
                                            ELSE IF p = P - 1 THEN s.refs[o][p] - 1
                                            ELSE s.refs[o][p]
  BY NextPeriodKeeps
<1>2. P \in 1 .. MaxPeriod - 1 /\ P \in Int /\ s.refs[o] \in [Periods -> Int] /\ MaxPeriod \in Nat
  <2>1. s.refs[o] \in [Periods -> Int] /\ P \in Int /\ MaxPeriod \in Nat
    BY StateFields, InPlaceAssumption
  <2> QED BY <2>1 DEF RefsFit
<1>3. \A d \in Delegators : n.start[o][d] \in -1 .. P - 1
  BY <1>1 DEF RefsFit
<1>4. \A d, e \in Delegators : n.start[o][d] = n.start[o][e] /\ d # e => n.start[o][d] = -1
  BY <1>1 DEF RefsFit
<1>11. \A p \in 0 .. P - 1 :
        s.refs[o][p] = (IF \E d \in Delegators : n.start[o][d] = p THEN 1 ELSE 0)
                         + (IF p = P - 1 THEN 1 ELSE 0)
  <2>1. \A p \in 0 .. P - 1 :
          s.refs[o][p] = (IF \E d \in Delegators : s.start[o][d] = p THEN 1 ELSE 0)
                           + (IF p = P - 1 THEN 1 ELSE 0)
    BY DEF RefsFit
  <2>2. n.start = s.start
    BY <1>1
  <2> HIDE DEF n, P
  <2> QED BY <2>1, <2>2
<1> HIDE DEF n, P
<1>10. \A p \in 0 .. P - 2 : n.refs[o][p] = s.refs[o][p]
  <2>1. \A p \in 0 .. P - 2 : p \in Periods /\ p # P /\ p # P - 1
    BY <1>2 DEF Periods
  <2> QED BY <1>1, <2>1
<1>5. n.refs[o][P - 1] = s.refs[o][P - 1] - 1 /\ n.refs[o][P] = 1
  BY <1>1, <1>2 DEF Periods
<1>6. \A p \in 0 .. P :
        n.refs[o][p] = (IF \E d \in Delegators : n.start[o][d] = p THEN 1 ELSE 0)
                         + (IF p = P THEN 1 ELSE 0)
  <2> SUFFICES ASSUME NEW p \in 0 .. P
               PROVE  n.refs[o][p] = (IF \E d \in Delegators : n.start[o][d] = p THEN 1 ELSE 0)
                         + (IF p = P THEN 1 ELSE 0)
    OBVIOUS
  <2>1. CASE p = P
    BY <1>2, <1>3, <1>5, <2>1
  <2>2. CASE p # P
    <3>1. s.refs[o][p] = (IF \E d \in Delegators : n.start[o][d] = p THEN 1 ELSE 0)
                           + (IF p = P - 1 THEN 1 ELSE 0)
      BY <1>2, <1>11, <2>2
    <3>2. CASE p = P - 1
      BY <1>2, <1>5, <3>1, <3>2
    <3>3. CASE p # P - 1
      BY <1>2, <1>10, <2>2, <3>1, <3>3
    <3> QED BY <3>2, <3>3
  <2> QED BY <2>1, <2>2
<1>8. RefsFit(n, o)
  BY <1>1, <1>2, <1>3, <1>4, <1>6 DEF RefsFit
<1>9. Fresh(n, o)
  BY <1>1, <1>2, <1>3 DEF Fresh
<1> QED BY <1>8, <1>9 DEF n

\* A delegation's start set to w, and the count of period p to v.
Refer(s, d, o, p, v, w) == [s EXCEPT !.refs[o][p] = v, !.start[o][d] = w]

Referred(t, s, d, o, p, v, w) ==
  /\ t \in AppState
  /\ t.val = s.val /\ t.period = s.period /\ SameValidators(t, s)
  /\ \A q \in Operators \ {o} : t.refs[q] = s.refs[q] /\ t.start[q] = s.start[q]
  /\ \A q \in Periods : t.refs[o][q] = IF q = p THEN v ELSE s.refs[o][q]
  /\ \A e \in Delegators : t.start[o][e] = IF e = d THEN w ELSE s.start[o][e]

LEMMA ReferKeeps ==
  ASSUME NEW s \in AppState, NEW o \in Operators, NEW d \in Delegators,
         NEW p, NEW v, p \in Periods => v \in Int, NEW w \in Int
  PROVE  Referred(Refer(s, d, o, p, v, w), s, d, o, p, v, w)
<1> DEFINE f  == s.refs[o]
           f1 == [f EXCEPT ![p] = v]
           x1 == [s.refs EXCEPT ![o] = f1]
           s1 == [s EXCEPT !.refs = x1]
           g  == s1.start[o]
           f2 == [g EXCEPT ![d] = w]
           x2 == [s1.start EXCEPT ![o] = f2]
           t  == [s1 EXCEPT !.start = x2]
<1>1. Refer(s, d, o, p, v, w) = t
  BY DEF Refer
<1>2. /\ f \in [Periods -> Int] /\ s.refs \in [Operators -> [Periods -> Int]]
      /\ s.start \in [Operators -> [Delegators -> Int]]
      /\ s.start[o] \in [Delegators -> Int]
  BY StateFields
<1> HIDE DEF t, x2, f2, g, s1, x1, f1, f
<1>3. f1 \in [Periods -> Int] /\ \A q \in Periods : f1[q] = IF q = p THEN v ELSE f[q]
  BY <1>2 DEF f1
<1>4. x1 \in [Operators -> [Periods -> Int]] /\ x1[o] = f1
      /\ \A q \in Operators \ {o} : x1[q] = s.refs[q]
  BY <1>2, <1>3 DEF x1
<1>5. /\ s1 \in AppState /\ s1.refs = x1
      /\ s1.val = s.val /\ s1.start = s.start /\ s1.period = s.period /\ SameValidators(s1, s)
  BY <1>4 DEF s1, AppState, SameValidators
<1>6. g = s.start[o] /\ g \in [Delegators -> Int]
  BY <1>2, <1>5 DEF g
<1>7. f2 \in [Delegators -> Int] /\ \A e \in Delegators : f2[e] = IF e = d THEN w ELSE g[e]
  BY <1>6 DEF f2
<1>8. x2 \in [Operators -> [Delegators -> Int]] /\ x2[o] = f2
      /\ \A q \in Operators \ {o} : x2[q] = s.start[q]
  BY <1>2, <1>5, <1>7 DEF x2
<1>9. /\ t \in AppState /\ t.start = x2
      /\ t.val = s1.val /\ t.refs = s1.refs /\ t.period = s1.period /\ SameValidators(t, s1)
  BY <1>5, <1>8 DEF t, AppState, SameValidators
<1>10. SameValidators(t, s)
  BY <1>5, <1>9 DEF SameValidators
<1>11. /\ \A q \in Operators \ {o} : t.refs[q] = s.refs[q] /\ t.start[q] = s.start[q]
       /\ \A q \in Periods : t.refs[o][q] = IF q = p THEN v ELSE f[q]
       /\ \A e \in Delegators : t.start[o][e] = IF e = d THEN w ELSE g[e]
  BY <1>3, <1>4, <1>5, <1>7, <1>8, <1>9
<1> QED BY <1>1, <1>5, <1>6, <1>9, <1>10, <1>11 DEF f, Referred

\* What a transaction does to other validators' records: nothing.
OnlyTouches(t, s, o) ==
  /\ t \in AppState /\ t.val = s.val /\ SameValidators(t, s)
  /\ \A q \in Operators \ {o} : /\ t.period[q] = s.period[q] /\ t.refs[q] = s.refs[q]
                                /\ t.start[q] = s.start[q]

LEMMA NextPeriodOnly ==
  ASSUME NEW s \in AppState, NEW o \in Operators
  PROVE  OnlyTouches(NextPeriod(s, o), s, o)
BY NextPeriodKeeps DEF OnlyTouches

\* A delegation that starts refers to the period that has just ended.
LEMMA InitDelegationFits ==
  ASSUME NEW s \in AppState, NEW o \in Operators, NEW d \in Delegators
  PROVE  LET t == InitDelegation(s, d, o)
         IN  /\ OnlyTouches(t, s, o)
             /\ RefsFit(s, o) /\ Fresh(s, o) /\ s.start[o][d] = -1 => RefsFit(t, o)
<1> DEFINE p == s.period[o] - 1
           v == s.refs[o][p] + 1
           t == Refer(s, d, o, p, v, p)
<1>1. InitDelegation(s, d, o) = t
  BY DEF InitDelegation, Refer
<1>2. p \in Int /\ s.period[o] = p + 1 /\ s.refs[o] \in [Periods -> Int]
  BY StateFields
<1>3. p \in Periods => v \in Int
  BY <1>2
<1> HIDE DEF v, t
<1>4. /\ t \in AppState
      /\ t.val = s.val /\ t.period = s.period /\ SameValidators(t, s)
      /\ \A q \in Operators \ {o} : t.refs[q] = s.refs[q] /\ t.start[q] = s.start[q]
      /\ \A q \in Periods : t.refs[o][q] = IF q = p THEN v ELSE s.refs[o][q]
      /\ \A e \in Delegators : t.start[o][e] = IF e = d THEN p ELSE s.start[o][e]
  <2>1. p \in Int
    BY <1>2
  <2> HIDE DEF p
  <2>2. Referred(Refer(s, d, o, p, v, p), s, d, o, p, v, p)
    BY <1>3, <2>1, ReferKeeps
  <2>3. Referred(t, s, d, o, p, v, p)
    BY <2>2 DEF t
  <2> QED BY <2>3 DEF Referred
<1>5. OnlyTouches(t, s, o)
  BY <1>4 DEF OnlyTouches
<1>6. ASSUME RefsFit(s, o), Fresh(s, o), s.start[o][d] = -1
      PROVE  RefsFit(t, o)
  <2>1. \A e \in Delegators : s.start[o][e] \in -1 .. p - 1
    BY <1>2, <1>6 DEF RefsFit, Fresh
  <2>2. p \in 0 .. MaxPeriod /\ t.period[o] = p + 1 /\ MaxPeriod \in Nat
    BY <1>2, <1>4, <1>6, InPlaceAssumption DEF RefsFit
  <2>3. \A q \in 0 .. p : s.refs[o][q] =
          (IF \E e \in Delegators : s.start[o][e] = q THEN 1 ELSE 0) + (IF q = p THEN 1 ELSE 0)
    BY <1>2, <1>6 DEF RefsFit
  <2>4. \A e1, e2 \in Delegators :
          s.start[o][e1] = s.start[o][e2] /\ e1 # e2 => s.start[o][e1] = -1
    BY <1>6 DEF RefsFit
  <2> HIDE DEF p
  <2>5. v = 2
    BY <2>1, <2>2, <2>3 DEF v
  <2>6. \A q \in 0 .. p : t.refs[o][q] = IF q = p THEN v ELSE s.refs[o][q]
    BY <1>4, <2>2 DEF Periods
  <2>7. \A q \in 0 .. p : t.refs[o][q] =
          (IF \E e \in Delegators : t.start[o][e] = q THEN 1 ELSE 0) + (IF q = p THEN 1 ELSE 0)
    <3> SUFFICES ASSUME NEW q \in 0 .. p
                 PROVE  t.refs[o][q] = (IF \E e \in Delegators : t.start[o][e] = q
                                        THEN 1 ELSE 0) + (IF q = p THEN 1 ELSE 0)
      OBVIOUS
    <3>1. CASE q = p
      BY <1>4, <2>5, <2>6, <3>1
    <3>2. CASE q # p
      <4>1. (\E e \in Delegators : t.start[o][e] = q) <=> \E e \in Delegators : s.start[o][e] = q
        BY <1>4, <1>6, <2>2, <3>2
      <4> QED BY <2>3, <2>6, <3>2, <4>1
    <3> QED BY <3>1, <3>2
  <2>8. \A e1, e2 \in Delegators :
          t.start[o][e1] = t.start[o][e2] /\ e1 # e2 => t.start[o][e1] = -1
    BY <1>4, <2>1, <2>2, <2>4
  <2>9. \A e \in Delegators : t.start[o][e] \in -1 .. p
    BY <1>4, <2>1, <2>2
  <2> QED BY <2>2, <2>7, <2>8, <2>9 DEF RefsFit
<1> QED BY <1>1, <1>5, <1>6

\* A delegation that ends, or starts again, first gives up the period it
\* started from, which another one does not refer to.
LEMMA WithdrawFits ==
  ASSUME NEW s \in AppState, NEW o \in Operators, NEW d \in Delegators
  PROVE  LET t == Withdraw(s, d, o)
         IN  /\ OnlyTouches(t, s, o)
             /\ RefsFit(s, o) /\ s.period[o] < MaxPeriod /\ s.start[o][d] # -1
                  => RefsFit(t, o) /\ Fresh(t, o) /\ t.start[o][d] = -1
<1> DEFINE n == NextPeriod(s, o)
           p == s.start[o][d]
           v == n.refs[o][p] - 1
           t == Refer(n, d, o, p, v, -1)
<1>1. Withdraw(s, d, o) = t
  BY DEF Withdraw, Refer
<1>2. n \in AppState /\ n.start = s.start /\ OnlyTouches(n, s, o)
  BY NextPeriodKeeps, NextPeriodOnly
<1> HIDE DEF n
<1>3. p \in Int /\ n.refs[o] \in [Periods -> Int] /\ n.period[o] \in Int
  BY <1>2, StateFields
<1>4. p \in Periods => v \in Int
  BY <1>3
<1> HIDE DEF v, t
<1>5. Referred(t, n, d, o, p, v, -1)
  <2>1. p \in Int /\ -1 \in Int
    BY <1>3
  <2> HIDE DEF p
  <2>2. Referred(Refer(n, d, o, p, v, -1), n, d, o, p, v, -1)
    BY <1>2, <1>4, <2>1, ReferKeeps
  <2> QED BY <2>2 DEF t
<1>6. OnlyTouches(t, s, o)
  BY <1>2, <1>5 DEF OnlyTouches, Referred, SameValidators
<1>7. ASSUME RefsFit(s, o), s.period[o] < MaxPeriod, p # -1
      PROVE  RefsFit(t, o) /\ Fresh(t, o) /\ t.start[o][d] = -1
  <2> DEFINE P == n.period[o] - 1
  <2>1. RefsFit(n, o) /\ Fresh(n, o)
    BY <1>7, NextPeriodFits DEF n
  <2>2. P \in 0 .. MaxPeriod /\ MaxPeriod \in Nat /\ n.period[o] = P + 1
    BY <1>3, <2>1, InPlaceAssumption DEF RefsFit
  <2>3. \A e \in Delegators : n.start[o][e] \in -1 .. P - 1
    BY <1>3, <2>1 DEF RefsFit, Fresh
  <2>4. \A q \in 0 .. P : n.refs[o][q] =
          (IF \E e \in Delegators : n.start[o][e] = q THEN 1 ELSE 0) + (IF q = P THEN 1 ELSE 0)
    BY <1>3, <2>1 DEF RefsFit
  <2>5. \A e1, e2 \in Delegators :
          n.start[o][e1] = n.start[o][e2] /\ e1 # e2 => n.start[o][e1] = -1
    BY <2>1 DEF RefsFit
  <2>6. p = n.start[o][d]
    BY <1>2
  <2>7. p \in 0 .. P - 1
    BY <1>7, <2>2, <2>3, <2>6
  <2>8. /\ t.period[o] = P + 1
        /\ \A q \in Periods : t.refs[o][q] = IF q = p THEN v ELSE n.refs[o][q]
        /\ \A e \in Delegators : t.start[o][e] = IF e = d THEN -1 ELSE n.start[o][e]
    BY <1>5, <2>2 DEF Referred
  <2> HIDE DEF P, p
  <2>9. v = 0
    BY <2>2, <2>4, <2>6, <2>7 DEF v
  <2>10. \A q \in 0 .. P : t.refs[o][q] = IF q = p THEN v ELSE n.refs[o][q]
    BY <2>2, <2>8 DEF Periods
  <2>11. \A q \in 0 .. P : t.refs[o][q] =
          (IF \E e \in Delegators : t.start[o][e] = q THEN 1 ELSE 0) + (IF q = P THEN 1 ELSE 0)
    <3> SUFFICES ASSUME NEW q \in 0 .. P
                 PROVE  t.refs[o][q] = (IF \E e \in Delegators : t.start[o][e] = q
                                        THEN 1 ELSE 0) + (IF q = P THEN 1 ELSE 0)
      OBVIOUS
    <3>1. CASE q = p
      <4>1. \A e \in Delegators : t.start[o][e] # q
        BY <2>5, <2>6, <2>7, <2>8, <3>1
      <4> QED BY <2>2, <2>7, <2>9, <2>10, <3>1, <4>1
    <3>2. CASE q # p
      <4>1. (\E e \in Delegators : t.start[o][e] = q) <=> \E e \in Delegators : n.start[o][e] = q
        BY <2>2, <2>6, <2>8, <3>2
      <4> QED BY <2>4, <2>10, <3>2, <4>1
    <3> QED BY <3>1, <3>2
  <2>12. \A e1, e2 \in Delegators :
          t.start[o][e1] = t.start[o][e2] /\ e1 # e2 => t.start[o][e1] = -1
    BY <2>5, <2>8
  <2>13. \A e \in Delegators : t.start[o][e] \in -1 .. P - 1
    BY <2>2, <2>3, <2>8
  <2>14. RefsFit(t, o)
    BY <2>2, <2>8, <2>11, <2>12, <2>13 DEF RefsFit
  <2>15. Fresh(t, o)
    BY <2>2, <2>8, <2>13 DEF Fresh
  <2> QED BY <2>8, <2>14, <2>15
<1> QED BY <1>1, <1>6, <1>7 DEF p

\* The power of one validator set to x.
SetPower(s, o, x) == [s EXCEPT !.val[o].power = x]

LEMMA SetPowerKeeps ==
  ASSUME NEW s \in AppState, NEW o \in Operators, NEW x \in Int
  PROVE  LET t == SetPower(s, o, x)
         IN  /\ t \in AppState /\ SameValidators(t, s)
             /\ t.period = s.period /\ t.refs = s.refs /\ t.start = s.start
             /\ \A q \in Operators : t.val[q].power = IF q = o THEN x ELSE s.val[q].power
<1> DEFINE r == s.val[o]
           r1 == [r EXCEPT !.power = x]
           v == [s.val EXCEPT ![o] = r1]
           t == [s EXCEPT !.val = v]
           Record == [key    : Keys \cup {None},
                      status : {"absent", "bonded", "unbonding", "unbonded"},
                      power  : Int]
<1>1. SetPower(s, o, x) = t
  BY DEF SetPower
<1>2. s.val \in [Operators -> Record] /\ r \in Record
  BY StateFields
<1> HIDE DEF t, v, r1, r
<1>3. r1 \in Record /\ r1.key = r.key /\ r1.status = r.status /\ r1.power = x
  BY <1>2 DEF r1
<1>4. v \in [Operators -> Record] /\ v[o] = r1 /\ \A q \in Operators \ {o} : v[q] = s.val[q]
  <2> HIDE DEF Record
  <2> QED BY <1>2, <1>3 DEF v
<1>5. /\ t \in AppState /\ t.val = v
      /\ t.byCons = s.byCons /\ t.index = s.index /\ t.last = s.last
      /\ t.queue = s.queue /\ t.signing = s.signing
      /\ t.mixed = s.mixed /\ t.funds = s.funds
      /\ t.period = s.period /\ t.refs = s.refs /\ t.start = s.start
  BY <1>4 DEF t, AppState
<1>6. \A q \in Operators : v[q].key = s.val[q].key /\ v[q].status = s.val[q].status
  BY <1>3, <1>4 DEF r
<1>7. \A q \in Operators : v[q].power = IF q = o THEN x ELSE s.val[q].power
  BY <1>3, <1>4
<1> QED BY <1>1, <1>5, <1>6, <1>7 DEF SameValidators

\* What does not touch the validators but their powers keeps what fits.
LEMMA PowersFit ==
  ASSUME NEW s, NEW t \in AppState, Fits(s), SameValidators(t, s),
         \A o \in Operators : Exists(s, o) => t.val[o].power > 0,
         \A o \in Operators \ s.mixed : Exists(s, o) => RefsFit(t, o)
  PROVE  Fits(t)
<1>1. RecordsFit(t)
  BY StateFields DEF Fits, RecordsFit, SameValidators, Exists
<1>2. PeriodsFit(t)
  BY DEF PeriodsFit, SameValidators, Exists
<1> QED BY <1>1, <1>2 DEF Fits

LEMMA OthersFit ==
  ASSUME NEW s, NEW t, NEW o \in Operators, Fits(s), OnlyTouches(t, s, o),
         o \notin s.mixed => RefsFit(t, o), Exists(s, o)
  PROVE  Fits(t) /\ SameValidators(t, s) /\ t.val = s.val
<1>1. \A q \in Operators \ {o} : RefsFit(s, q) => RefsFit(t, q)
  BY DEF OnlyTouches, RefsFit
<1>2. \A q \in Operators \ s.mixed : Exists(s, q) => RefsFit(t, q)
  BY <1>1 DEF Fits, PeriodsFit
<1>3. \A q \in Operators : Exists(s, q) => t.val[q].power > 0
  BY DEF OnlyTouches, Fits, RecordsFit
<1> QED BY <1>2, <1>3, PowersFit DEF OnlyTouches

\* A message leaves the records of the block as fitting as it found them.
LEMMA TransactionFits ==
  ASSUME Fits(block), NEW d \in Delegators, NEW o \in Operators,
         Delegate(d, o) \/ WithdrawReward(d, o) \/ Undelegate(d, o)
  PROVE  block' \in AppState /\ Fits(block') /\ SameValidators(block', block)
<1> DEFINE n == NextPeriod(block, o)
           w == Withdraw(block, d, o)
<1>1. /\ block \in AppState /\ Exists(block, o) /\ block.period[o] < MaxPeriod
      /\ block.val[o].power > 0 /\ block.val[o].power \in Int
      /\ o \notin block.mixed => RefsFit(block, o)
  <2>1. Exists(block, o) /\ block.period[o] < MaxPeriod
    BY DEF Delegate, WithdrawReward, Undelegate, CanDeliver
  <2>2. block.val[o] \in [key : Keys \cup {None},
                          status : {"absent", "bonded", "unbonding", "unbonded"}, power : Int]
    BY StateFields DEF Fits
  <2> QED BY <2>1, <2>2 DEF Fits, RecordsFit, PeriodsFit
<1>2. OnlyTouches(n, block, o) /\ n.start = block.start
      /\ (o \notin block.mixed => RefsFit(n, o) /\ Fresh(n, o))
  BY <1>1, NextPeriodOnly, NextPeriodKeeps, NextPeriodFits
<1>3. /\ OnlyTouches(w, block, o)
      /\ o \notin block.mixed /\ block.start[o][d] # -1
           => RefsFit(w, o) /\ Fresh(w, o) /\ w.start[o][d] = -1
  BY <1>1, WithdrawFits
<1> HIDE DEF n, w
<1>4. ASSUME NEW s \in AppState, OnlyTouches(s, block, o),
             o \notin block.mixed => RefsFit(s, o) /\ Fresh(s, o) /\ s.start[o][d] = -1
      PROVE  LET t == InitDelegation(s, d, o)
             IN  OnlyTouches(t, block, o) /\ (o \notin block.mixed => RefsFit(t, o))
  <2> DEFINE t == InitDelegation(s, d, o)
  <2>1. OnlyTouches(t, s, o) /\ (o \notin block.mixed => RefsFit(t, o))
    BY <1>4, InitDelegationFits
  <2> HIDE DEF t
  <2>2. OnlyTouches(t, block, o)
    BY <1>4, <2>1 DEF OnlyTouches, SameValidators
  <2> QED BY <2>1, <2>2 DEF t
<1>5. ASSUME NEW s, OnlyTouches(s, block, o), o \notin block.mixed => RefsFit(s, o),
             NEW x \in Int, x > 0
      PROVE  LET t == SetPower(s, o, x)
             IN  t \in AppState /\ Fits(t) /\ SameValidators(t, block)
  <2> DEFINE t == SetPower(s, o, x)
  <2>1. s \in AppState
    BY <1>5 DEF OnlyTouches
  <2>2. /\ t \in AppState /\ SameValidators(t, s)
        /\ t.period = s.period /\ t.refs = s.refs /\ t.start = s.start
        /\ \A q \in Operators : t.val[q].power = IF q = o THEN x ELSE s.val[q].power
    BY <1>5, <2>1, SetPowerKeeps
  <2>3. Fits(s) /\ SameValidators(s, block)
    BY <1>1, <1>5, OthersFit
  <2> HIDE DEF t
  <2>4. \A q \in Operators : Exists(s, q) => t.val[q].power > 0
    BY <1>5, <2>2, <2>3 DEF Fits, RecordsFit
  <2>5. \A q \in Operators \ s.mixed : Exists(s, q) => RefsFit(t, q)
    BY <2>2, <2>3 DEF Fits, PeriodsFit, RefsFit
  <2>6. Fits(t)
    BY <2>2, <2>3, <2>4, <2>5, PowersFit
  <2>7. SameValidators(t, block)
    BY <2>2, <2>3 DEF SameValidators
  <2> QED BY <2>2, <2>6, <2>7 DEF t
<1>6. CASE Delegate(d, o)
  <2> DEFINE i == InitDelegation(n, d, o)
  <2>1. block.start[o][d] = -1 /\ block' = [i EXCEPT !.val[o].power = @ + 1]
    BY <1>6 DEF Delegate, n
  <2>2. n \in AppState
    BY <1>2 DEF OnlyTouches
  <2>3. OnlyTouches(i, block, o) /\ (o \notin block.mixed => RefsFit(i, o))
    BY <1>2, <1>4, <2>1, <2>2
  <2> HIDE DEF i
  <2>4. block' = SetPower(i, o, i.val[o].power + 1)
    BY <2>1 DEF SetPower
  <2>5. i.val[o].power + 1 \in Int /\ i.val[o].power + 1 > 0
    BY <1>1, <2>3 DEF OnlyTouches
  <2> QED BY <1>5, <2>3, <2>4, <2>5
<1>7. CASE WithdrawReward(d, o)
  <2> DEFINE i == InitDelegation(w, d, o)
  <2>1. block.start[o][d] # -1 /\ block' = i
    BY <1>7 DEF WithdrawReward, w
  <2>2. w \in AppState
    BY <1>3 DEF OnlyTouches
  <2>3. OnlyTouches(i, block, o) /\ (o \notin block.mixed => RefsFit(i, o))
    BY <1>3, <1>4, <2>1, <2>2
  <2> HIDE DEF i
  <2>4. Fits(i) /\ SameValidators(i, block)
    BY <1>1, <2>3, OthersFit
  <2> QED BY <2>1, <2>3, <2>4 DEF OnlyTouches
<1>8. CASE Undelegate(d, o)
  <2>1. /\ block.start[o][d] # -1 /\ block.val[o].power > 1
        /\ block' = [w EXCEPT !.val[o].power = @ - 1]
    BY <1>8 DEF Undelegate, w
  <2>2. block' = SetPower(w, o, w.val[o].power - 1)
    BY <2>1 DEF SetPower
  <2>3. w.val[o].power - 1 \in Int /\ w.val[o].power - 1 > 0
    BY <1>1, <1>3, <2>1 DEF OnlyTouches
  <2> QED BY <1>3, <1>5, <2>1, <2>2, <2>3
<1> QED BY <1>6, <1>7, <1>8

-----------------------------------------------------------------------------
\* What the end of a block leaves of its records.
Ended(t, s) ==
  /\ t \in AppState
  /\ t.index = s.index /\ t.byCons = s.byCons /\ s.signing \subseteq t.signing
  /\ t.mixed = s.mixed /\ t.funds = s.funds
  /\ t.period = s.period /\ t.refs = s.refs /\ t.start = s.start
  /\ \A o \in Operators : t.val[o].key = s.val[o].key /\ t.val[o].power = s.val[o].power
  /\ \A o \in Operators : Exists(t, o) <=> Exists(s, o)
  /\ \A o \in s.index : t.val[o].status = "bonded"
  /\ \A o \in t.queue : t.val[o].status = "unbonding"

LEMMA UpdateEnds ==
  ASSUME NEW s, Fits(s)
  PROVE  /\ ~UpdatePanics(s)
         /\ Ended(UpdateValidatorSet(s), s)
         /\ UpdateValidatorSet(s).last = [o \in Operators |-> NewPower(s, o)]
         /\ UpdateValidatorSet(s).queue = s.queue
<1> DEFINE L  == [o \in Operators |-> NewPower(s, o)]
           s1 == [s EXCEPT !.last = L]
           V  == [o \in Operators |->
                    IF o \in s.index THEN [s1.val[o] EXCEPT !.status = "bonded"]
                    ELSE IF s.last[o] # -1 THEN [s1.val[o] EXCEPT !.status = "unbonding"]
                    ELSE s1.val[o]]
           s2 == [s1 EXCEPT !.val = V]
           Q  == (s2.queue \ s.index) \cup {o \in Operators \ s.index : s.last[o] # -1}
           s3 == [s2 EXCEPT !.queue = Q]
           S  == s3.signing \cup {s.val[o].key : o \in s.index}
           t  == [s3 EXCEPT !.signing = S]
           Record == [key    : Keys \cup {None},
                      status : {"absent", "bonded", "unbonding", "unbonded"},
                      power  : Int]
<1>1. UpdateValidatorSet(s) = t
  BY DEF UpdateValidatorSet
<1>2. /\ s \in AppState /\ s.index \subseteq Operators /\ s.queue \subseteq Operators
      /\ s.val \in [Operators -> Record] /\ s.signing \subseteq Keys
  BY StateFields DEF Fits
<1>3. /\ \A o \in s.index : s.val[o].status = "bonded"
      /\ \A o \in s.index : s.val[o].key \in s.signing /\ s.val[o].power \in Int
      /\ \A o \in Operators \ s.index : s.last[o] = -1
      /\ \A o \in s.queue : s.val[o].status = "unbonding"
  BY <1>2 DEF Fits, RecordsFit, Exists
<1>4. ~UpdatePanics(s)
  BY <1>2, <1>3 DEF UpdatePanics, Exists
<1> HIDE DEF t, S, s3, Q, s2, V, s1, L
<1>5. L \in [Operators -> Int]
  BY <1>2, <1>3 DEF L, NewPower
<1>6. /\ s1 \in AppState /\ s1.last = L /\ s1.val = s.val /\ s1.byCons = s.byCons
      /\ s1.index = s.index /\ s1.queue = s.queue /\ s1.signing = s.signing
      /\ s1.mixed = s.mixed /\ s1.funds = s.funds
      /\ s1.period = s.period /\ s1.refs = s.refs /\ s1.start = s.start
  <2> HIDE DEF Record
  <2> QED BY <1>2, <1>5 DEF s1, AppState
<1>7. /\ V \in [Operators -> Record]
      /\ \A o \in Operators : V[o].key = s.val[o].key /\ V[o].power = s.val[o].power
                              /\ V[o].status = s.val[o].status
  <2>1. \A o \in Operators : V[o] = IF o \in s.index THEN [s.val[o] EXCEPT !.status = "bonded"]
                                    ELSE s.val[o]
    BY <1>3, <1>6 DEF V
  <2>2. ASSUME NEW o \in Operators
        PROVE  /\ V[o] \in Record
               /\ V[o].key = s.val[o].key /\ V[o].power = s.val[o].power
               /\ V[o].status = s.val[o].status
    <3> DEFINE r == s.val[o]
               r1 == [r EXCEPT !.status = "bonded"]
    <3>1. r \in Record
      BY <1>2
    <3> HIDE DEF r
    <3>2. r1 \in Record /\ r1.key = r.key /\ r1.power = r.power /\ r1.status = "bonded"
      BY <3>1
    <3>3. V[o] = IF o \in s.index THEN r1 ELSE r
      BY <2>1 DEF r
    <3> HIDE DEF r1, Record
    <3>4. o \in s.index => r.status = "bonded"
      BY <1>3 DEF r
    <3>5. CASE o \in s.index
      BY <3>2, <3>3, <3>4, <3>5 DEF r
    <3>6. CASE o \notin s.index
      BY <3>1, <3>3, <3>6 DEF r
    <3> QED BY <3>5, <3>6
  <2>3. V = [o \in Operators |-> V[o]]
    BY DEF V
  <2> HIDE DEF Record
  <2> QED BY <2>2, <2>3
<1>8. /\ s2 \in AppState /\ s2.last = s1.last /\ s2.val = V /\ s2.byCons = s1.byCons
      /\ s2.index = s1.index /\ s2.queue = s1.queue /\ s2.signing = s1.signing
      /\ s2.mixed = s1.mixed /\ s2.funds = s1.funds
      /\ s2.period = s1.period /\ s2.refs = s1.refs /\ s2.start = s1.start
  BY <1>6, <1>7 DEF s2, AppState
<1> HIDE DEF Record
<1>9. Q = s.queue
  BY <1>3, <1>6, <1>8 DEF Q
<1>10. /\ s3 \in AppState /\ s3.last = s2.last /\ s3.val = s2.val /\ s3.byCons = s2.byCons
       /\ s3.index = s2.index /\ s3.queue = Q /\ s3.signing = s2.signing
       /\ s3.mixed = s2.mixed /\ s3.funds = s2.funds
       /\ s3.period = s2.period /\ s3.refs = s2.refs /\ s3.start = s2.start
  BY <1>2, <1>8, <1>9 DEF s3, AppState
<1>11. S = s.signing
  BY <1>3, <1>6, <1>8, <1>10 DEF S
<1>12. /\ t \in AppState /\ t.last = s3.last /\ t.val = s3.val /\ t.byCons = s3.byCons
       /\ t.index = s3.index /\ t.queue = s3.queue /\ t.signing = S
       /\ t.mixed = s3.mixed /\ t.funds = s3.funds
       /\ t.period = s3.period /\ t.refs = s3.refs /\ t.start = s3.start
  BY <1>2, <1>10, <1>11 DEF t, AppState
<1>13. /\ t \in AppState /\ t.last = L /\ t.val = V /\ t.byCons = s.byCons
       /\ t.index = s.index /\ t.queue = s.queue /\ t.signing = s.signing
       /\ t.mixed = s.mixed /\ t.funds = s.funds
       /\ t.period = s.period /\ t.refs = s.refs /\ t.start = s.start
  BY <1>6, <1>8, <1>9, <1>10, <1>11, <1>12
<1>14. Ended(t, s)
  BY <1>2, <1>3, <1>7, <1>13 DEF Ended, Exists
<1> QED BY <1>1, <1>4, <1>13, <1>14 DEF L

LEMMA UnbondEnds ==
  ASSUME NEW s, NEW u, Fits(s), Ended(u, s), NEW mature \in SUBSET u.queue
  PROVE  ~UnbondPanics(u, mature) /\ Ended(UnbondMature(u, mature), s)
         /\ LET t == UnbondMature(u, mature) IN t.last = u.last
<1> DEFINE V == [o \in Operators |-> IF o \in mature THEN [u.val[o] EXCEPT !.status = "unbonded"]
                                     ELSE u.val[o]]
           s1 == [u EXCEPT !.val = V]
           Q  == s1.queue \ mature
           t  == [s1 EXCEPT !.queue = Q]
           Record == [key    : Keys \cup {None},
                      status : {"absent", "bonded", "unbonding", "unbonded"},
                      power  : Int]
<1>1. UnbondMature(u, mature) = t
  BY DEF UnbondMature
<1>2. /\ u \in AppState /\ u.queue \subseteq Operators /\ u.val \in [Operators -> Record]
      /\ u.index \subseteq Operators
  BY StateFields DEF Ended
<1>3. \A o \in u.queue : u.val[o].status = "unbonding"
  BY DEF Ended
<1>4. ~UnbondPanics(u, mature)
  BY <1>3 DEF UnbondPanics
<1> HIDE DEF t, Q, s1, V
<1>5. /\ V \in [Operators -> Record]
      /\ \A o \in Operators :
           /\ V[o].key = u.val[o].key /\ V[o].power = u.val[o].power
           /\ V[o].status = IF o \in mature THEN "unbonded" ELSE u.val[o].status
  <2>1. ASSUME NEW o \in Operators
        PROVE  /\ V[o] \in Record
               /\ V[o].key = u.val[o].key /\ V[o].power = u.val[o].power
               /\ V[o].status = IF o \in mature THEN "unbonded" ELSE u.val[o].status
    <3> DEFINE r == u.val[o]
               r1 == [r EXCEPT !.status = "unbonded"]
    <3>1. r \in Record
      BY <1>2
    <3>2. V[o] = IF o \in mature THEN r1 ELSE r
      BY DEF V
    <3> HIDE DEF r
    <3>3. r1 \in Record /\ r1.key = r.key /\ r1.power = r.power /\ r1.status = "unbonded"
      BY <3>1
    <3> HIDE DEF r1, Record
    <3>4. CASE o \in mature
      BY <3>2, <3>3, <3>4 DEF r
    <3>5. CASE o \notin mature
      BY <3>1, <3>2, <3>5 DEF r
    <3> QED BY <3>4, <3>5
  <2>2. V = [o \in Operators |-> V[o]]
    BY DEF V
  <2> HIDE DEF Record
  <2> QED BY <2>1, <2>2
<1>6. /\ s1 \in AppState /\ s1.last = u.last /\ s1.val = V /\ s1.byCons = u.byCons
      /\ s1.index = u.index /\ s1.queue = u.queue /\ s1.signing = u.signing
      /\ s1.mixed = u.mixed /\ s1.funds = u.funds
      /\ s1.period = u.period /\ s1.refs = u.refs /\ s1.start = u.start
  BY <1>2, <1>5 DEF s1, AppState
<1> HIDE DEF Record
<1>7. Q = u.queue \ mature /\ Q \subseteq Operators
  BY <1>2, <1>6 DEF Q
<1>8. /\ t \in AppState /\ t.last = s1.last /\ t.val = s1.val /\ t.byCons = s1.byCons
      /\ t.index = s1.index /\ t.queue = Q /\ t.signing = s1.signing
      /\ t.mixed = s1.mixed /\ t.funds = s1.funds
      /\ t.period = s1.period /\ t.refs = s1.refs /\ t.start = s1.start
  BY <1>6, <1>7 DEF t, AppState
<1>9. Ended(t, s)
  <2>1. \A o \in s.index : o \notin mature /\ o \in Operators
    BY <1>2, <1>3 DEF Ended
  <2>2. \A o \in Operators : t.val[o].key = s.val[o].key /\ t.val[o].power = s.val[o].power
    BY <1>5, <1>6, <1>8 DEF Ended
  <2>3. \A o \in Operators : Exists(t, o) <=> Exists(s, o)
    BY <1>2, <1>3, <1>5, <1>6, <1>8 DEF Ended, Exists
  <2>4. \A o \in s.index : t.val[o].status = "bonded"
    BY <1>5, <1>6, <1>8, <2>1 DEF Ended
  <2>5. \A o \in t.queue : t.val[o].status = "unbonding"
    BY <1>2, <1>3, <1>5, <1>6, <1>7, <1>8
  <2>6. /\ t \in AppState
        /\ t.index = s.index /\ t.byCons = s.byCons /\ s.signing \subseteq t.signing
        /\ t.mixed = s.mixed /\ t.funds = s.funds
        /\ t.period = s.period /\ t.refs = s.refs /\ t.start = s.start
    BY <1>6, <1>8 DEF Ended
  <2> QED BY <2>2, <2>3, <2>4, <2>5, <2>6 DEF Ended
<1> QED BY <1>1, <1>4, <1>6, <1>8, <1>9

\* The end of a block does not fail, and what it leaves fits together, with the
\* powers of the validators as their last powers.
LEMMA BlockEndFits ==
  ASSUME NEW s, Fits(s), NEW mature \in SUBSET s.queue
  PROVE  /\ ~UpdatePanics(s) /\ ~UnbondPanics(UpdateValidatorSet(s), mature)
         /\ LET t == UnbondMature(UpdateValidatorSet(s), mature)
            IN  /\ Ended(t, s) /\ Fits(t)
                /\ \A o \in s.index : t.last[o] = s.val[o].power /\ t.last[o] > 0
<1> DEFINE u == UpdateValidatorSet(s)
           t == UnbondMature(u, mature)
<1>1. /\ ~UpdatePanics(s) /\ Ended(u, s) /\ u.queue = s.queue
      /\ u.last = [o \in Operators |-> NewPower(s, o)]
  BY UpdateEnds
<1> HIDE DEF u
<1>2. ~UnbondPanics(u, mature) /\ Ended(t, s) /\ t.last = u.last
  BY <1>1, UnbondEnds
<1> HIDE DEF t
<1>3. /\ s \in AppState /\ s.index \subseteq Operators
      /\ s.val \in [Operators -> [key : Keys \cup {None},
                                  status : {"absent", "bonded", "unbonding", "unbonded"},
                                  power : Int]]
  BY StateFields DEF Fits
<1>4. \A o \in s.index : t.last[o] = s.val[o].power /\ t.last[o] > 0
  BY <1>1, <1>2, <1>3 DEF NewPower, Fits, RecordsFit, Exists
<1>5. \A o \in Operators \ s.index : t.last[o] = -1
  BY <1>1, <1>2 DEF NewPower
<1>6. \A o \in Operators :
        IF Exists(t, o)
        THEN t.val[o].key \in t.signing /\ t.byCons[t.val[o].key] = o /\ t.val[o].power > 0
        ELSE t.val[o].key = None
  <2>1. \A o \in Operators : t.val[o].key = s.val[o].key /\ t.val[o].power = s.val[o].power
                             /\ (Exists(t, o) <=> Exists(s, o))
    BY <1>2 DEF Ended
  <2>2. t.byCons = s.byCons /\ s.signing \subseteq t.signing
    BY <1>2 DEF Ended
  <2> QED BY <2>1, <2>2 DEF Fits, RecordsFit
<1>7. RecordsFit(t)
  <2>1. t.index = s.index /\ (\A o \in s.index : t.val[o].status = "bonded")
        /\ \A o \in t.queue : t.val[o].status = "unbonding"
    BY <1>2 DEF Ended
  <2>2. \A o \in t.index : t.val[o].status = "bonded" /\ t.last[o] >= 0
    BY <1>3, <1>4, <2>1
  <2> QED BY <1>5, <1>6, <2>1, <2>2 DEF RecordsFit
<1>8. PeriodsFit(t)
  BY <1>2 DEF Ended, Fits, PeriodsFit, RefsFit
<1>9. Fits(t)
  BY <1>2, <1>7, <1>8 DEF Ended, Fits
<1> QED BY <1>1, <1>2, <1>4, <1>9 DEF t, u

\* The fields of a state no validator section of the command sets.
Others(t, s) ==
  /\ t \in AppState
  /\ t.byCons = s.byCons /\ t.signing = s.signing /\ t.mixed = s.mixed /\ t.funds = s.funds
  /\ t.period = s.period /\ t.refs = s.refs /\ t.start = s.start

LEMMA ClearedFields ==
  ASSUME NEW s \in AppState
  PROVE  LET t == ClearValidators(s)
         IN  /\ Others(t, s)
             /\ t.index = {} /\ t.queue = {} /\ t.last = [o \in Operators |-> -1]
             /\ t.val = [o \in Operators |-> Absent]
<1> DEFINE I  == {}
           s1 == [s EXCEPT !.index = I]
           s2 == [s1 EXCEPT !.queue = I]
           L  == [o \in Operators |-> -1]
           s3 == [s2 EXCEPT !.last = L]
           V  == [o \in Operators |-> Absent]
           t  == [s3 EXCEPT !.val = V]
<1>1. ClearValidators(s) = t
  BY DEF ClearValidators
<1>2. L \in [Operators -> Int] /\ I \subseteq Operators
      /\ V \in [Operators -> [key    : Keys \cup {None},
                              status : {"absent", "bonded", "unbonding", "unbonded"},
                              power  : Int]]
  BY DEF Absent
<1> HIDE DEF t, V, s3, L, s2, s1, I
<1>3. Others(s1, s) /\ s1.index = I /\ s1.queue = s.queue /\ s1.last = s.last /\ s1.val = s.val
  BY <1>2 DEF s1, AppState, Others
<1>4. Others(s2, s1) /\ s2.index = I /\ s2.queue = I /\ s2.last = s.last /\ s2.val = s.val
  BY <1>2, <1>3 DEF s2, AppState, Others
<1>5. Others(s3, s2) /\ s3.index = I /\ s3.queue = I /\ s3.last = L /\ s3.val = s.val
  BY <1>2, <1>4 DEF s3, AppState, Others
<1>6. Others(t, s3) /\ t.index = I /\ t.queue = I /\ t.last = L /\ t.val = V
  BY <1>2, <1>5 DEF t, AppState, Others
<1>7. Others(t, s)
  BY <1>3, <1>4, <1>5, <1>6 DEF Others
<1> QED BY <1>1, <1>6, <1>7 DEF I, L, V

LEMMA NewValidatorFields ==
  ASSUME NEW s \in AppState, NEW a \in CommandArgs
  PROVE  LET t == SetNewValidator(s, a)
         IN  /\ t \in AppState
             /\ t.index = s.index \cup {a.operator} /\ t.queue = s.queue
             /\ t.signing = s.signing /\ t.mixed = s.mixed /\ t.funds = s.funds
             /\ t.period = s.period /\ t.refs = s.refs /\ t.start = s.start
             /\ t.val[a.operator] = [key |-> a.key, status |-> "bonded", power |-> BondedPower]
             /\ t.byCons[a.key] = a.operator /\ t.last[a.operator] = 0
             /\ \A o \in Operators \ {a.operator} : t.val[o] = s.val[o] /\ t.last[o] = s.last[o]
<1> DEFINE r  == [key |-> a.key, status |-> "bonded", power |-> BondedPower]
           V  == [s.val EXCEPT ![a.operator] = r]
           s1 == [s EXCEPT !.val = V]
           B  == [s1.byCons EXCEPT ![a.key] = a.operator]
           s2 == [s1 EXCEPT !.byCons = B]
           I  == s2.index \cup {a.operator}
           s3 == [s2 EXCEPT !.index = I]
           L  == [s3.last EXCEPT ![a.operator] = 0]
           t  == [s3 EXCEPT !.last = L]
           Record == [key    : Keys \cup {None},
                      status : {"absent", "bonded", "unbonding", "unbonded"},
                      power  : Int]
<1>1. SetNewValidator(s, a) = t
  BY DEF SetNewValidator
<1>2. /\ s.val \in [Operators -> Record] /\ s.byCons \in [Keys -> Operators \cup {None}]
      /\ s.index \subseteq Operators /\ s.last \in [Operators -> Int]
  BY StateFields
<1>3. a.operator \in Operators /\ a.key \in Keys /\ r \in Record
  BY InPlaceAssumption DEF CommandArgs
<1> HIDE DEF t, L, s3, I, s2, B, s1, V, r
<1>4. /\ V \in [Operators -> Record] /\ V[a.operator] = r
      /\ \A o \in Operators \ {a.operator} : V[o] = s.val[o]
  <2> HIDE DEF Record
  <2> QED BY <1>2, <1>3 DEF V
<1>5. /\ s1 \in AppState /\ s1.val = V /\ s1.byCons = s.byCons /\ s1.index = s.index
      /\ s1.last = s.last /\ s1.queue = s.queue /\ s1.signing = s.signing
      /\ s1.mixed = s.mixed /\ s1.funds = s.funds
      /\ s1.period = s.period /\ s1.refs = s.refs /\ s1.start = s.start
  BY <1>4 DEF s1, AppState
<1> HIDE DEF Record
<1>6. B \in [Keys -> Operators \cup {None}] /\ B[a.key] = a.operator
  BY <1>2, <1>3, <1>5 DEF B
<1>7. /\ s2 \in AppState /\ s2.val = V /\ s2.byCons = B /\ s2.index = s.index
      /\ s2.last = s.last /\ s2.queue = s.queue /\ s2.signing = s.signing
      /\ s2.mixed = s.mixed /\ s2.funds = s.funds
      /\ s2.period = s.period /\ s2.refs = s.refs /\ s2.start = s.start
  BY <1>5, <1>6 DEF s2, AppState
<1>8. I = s.index \cup {a.operator} /\ I \subseteq Operators
  BY <1>2, <1>3, <1>7 DEF I
<1>9. /\ s3 \in AppState /\ s3.val = V /\ s3.byCons = B /\ s3.index = I
      /\ s3.last = s.last /\ s3.queue = s.queue /\ s3.signing = s.signing
      /\ s3.mixed = s.mixed /\ s3.funds = s.funds
      /\ s3.period = s.period /\ s3.refs = s.refs /\ s3.start = s.start
  BY <1>7, <1>8 DEF s3, AppState
<1>10. L \in [Operators -> Int] /\ L[a.operator] = 0
       /\ \A o \in Operators \ {a.operator} : L[o] = s.last[o]
  BY <1>2, <1>3, <1>9 DEF L
<1>11. /\ t \in AppState /\ t.val = V /\ t.byCons = B /\ t.index = I
       /\ t.last = L /\ t.queue = s.queue /\ t.signing = s.signing
       /\ t.mixed = s.mixed /\ t.funds = s.funds
       /\ t.period = s.period /\ t.refs = s.refs /\ t.start = s.start
  BY <1>9, <1>10 DEF t, AppState
<1> QED BY <1>1, <1>4, <1>6, <1>8, <1>10, <1>11 DEF r

\* The records of staking that the sections on distribution, slashing and the
\* accounts leave alone.
SameStaking(t, s) ==
  /\ t \in AppState
  /\ t.val = s.val /\ t.byCons = s.byCons /\ t.index = s.index /\ t.last = s.last
  /\ t.queue = s.queue

LEMMA DistributionFields ==
  ASSUME NEW s \in AppState, NEW a \in CommandArgs
  PROVE  LET t == SetDistributionRecords(s, a)
         IN  /\ SameStaking(t, s) /\ t.signing = s.signing /\ t.funds = s.funds
             /\ t.start = s.start /\ t.mixed \subseteq Operators /\ s.mixed \subseteq t.mixed
             /\ t.period[a.operator] = 1
             /\ t.refs[a.operator][0] = 1
             /\ a.operator \notin t.mixed =>
                  \A d \in Delegators : t.start[a.operator][d] = -1
<1> DEFINE P  == [s.period EXCEPT ![a.operator] = 1]
           s1 == [s EXCEPT !.period = P]
           f  == FreshPeriods(s1.refs[a.operator])
           R  == [s1.refs EXCEPT ![a.operator] = f]
           s2 == [s1 EXCEPT !.refs = R]
           M  == s2.mixed \cup {o \in {a.operator} : Delegated(s, o) # {}}
           t  == [s2 EXCEPT !.mixed = M]
<1>1. SetDistributionRecords(s, a) = t
  BY DEF SetDistributionRecords
<1>2. /\ s.period \in [Operators -> Int] /\ s.refs \in [Operators -> [Periods -> Int]]
      /\ s.mixed \subseteq Operators /\ a.operator \in Operators /\ 0 \in Periods
  BY StateFields, InPlaceAssumption DEF CommandArgs, Periods
<1> HIDE DEF t, M, s2, R, f, s1, P
<1>3. P \in [Operators -> Int] /\ P[a.operator] = 1
  BY <1>2 DEF P
<1>4. /\ SameStaking(s1, s) /\ s1.signing = s.signing /\ s1.funds = s.funds
      /\ s1.start = s.start /\ s1.mixed = s.mixed /\ s1.period = P /\ s1.refs = s.refs
  BY <1>3 DEF s1, AppState, SameStaking
<1>5. f \in [Periods -> Int] /\ f[0] = 1
  <2> DEFINE g == s.refs[a.operator]
  <2>1. g \in [Periods -> Int] /\ f = [g EXCEPT ![0] = 1]
    BY <1>2, <1>4 DEF f, FreshPeriods
  <2> HIDE DEF g
  <2> QED BY <1>2, <2>1
<1>6. R \in [Operators -> [Periods -> Int]] /\ R[a.operator] = f
  BY <1>2, <1>4, <1>5 DEF R
<1>7. /\ SameStaking(s2, s) /\ s2.signing = s.signing /\ s2.funds = s.funds
      /\ s2.start = s.start /\ s2.mixed = s.mixed /\ s2.period = P /\ s2.refs = R
  BY <1>4, <1>6 DEF s2, AppState, SameStaking
<1>8. M = s.mixed \cup {o \in {a.operator} : Delegated(s, o) # {}} /\ M \subseteq Operators
  BY <1>2, <1>7 DEF M
<1>9. /\ SameStaking(t, s) /\ t.signing = s.signing /\ t.funds = s.funds
      /\ t.start = s.start /\ t.mixed = M /\ t.period = P /\ t.refs = R
  BY <1>7, <1>8 DEF t, AppState, SameStaking
<1>10. ASSUME a.operator \notin M
       PROVE  \A d \in Delegators : s.start[a.operator][d] = -1
  BY <1>8, <1>10 DEF Delegated
<1> QED BY <1>1, <1>3, <1>5, <1>6, <1>8, <1>9, <1>10

LEMMA SigningFields ==
  ASSUME NEW s \in AppState, NEW a \in CommandArgs
  PROVE  LET t == SetSigningInfo(s, a)
         IN  /\ SameStaking(t, s) /\ t.signing = s.signing \cup {a.key} /\ t.funds = s.funds
             /\ t.start = s.start /\ t.mixed = s.mixed /\ t.period = s.period /\ t.refs = s.refs
<1> DEFINE S == s.signing \cup {a.key}
           t == [s EXCEPT !.signing = S]
<1>1. SetSigningInfo(s, a) = t
  BY DEF SetSigningInfo
<1>2. S \subseteq Keys
  BY StateFields, InPlaceAssumption DEF CommandArgs
<1> HIDE DEF t, S
<1>3. /\ SameStaking(t, s) /\ t.signing = S /\ t.funds = s.funds
      /\ t.start = s.start /\ t.mixed = s.mixed /\ t.period = s.period /\ t.refs = s.refs
  BY <1>2 DEF t, AppState, SameStaking
<1> QED BY <1>1, <1>3 DEF S

LEMMA FundFields ==
  ASSUME NEW s \in AppState, NEW a \in CommandArgs
  PROVE  LET t == FundAccounts(s, a)
         IN  /\ SameStaking(t, s) /\ t.signing = s.signing
             /\ t.funds = [x \in Accounts |-> s.funds[x] + Times(a.fund, x)]
             /\ t.start = s.start /\ t.mixed = s.mixed /\ t.period = s.period /\ t.refs = s.refs
<1> DEFINE F == [x \in Accounts |-> s.funds[x] + Times(a.fund, x)]
           t == [s EXCEPT !.funds = F]
<1>1. FundAccounts(s, a) = t
  BY DEF FundAccounts
<1>2. F \in [Accounts -> Nat]
  <2>1. s.funds \in [Accounts -> Nat]
    BY StateFields
  <2>2. \A x \in Accounts : Times(a.fund, x) \in Nat
    BY TimesType, InPlaceAssumption DEF CommandArgs
  <2> QED BY <2>1, <2>2
<1> HIDE DEF t, F
<1>3. /\ SameStaking(t, s) /\ t.signing = s.signing /\ t.funds = F
      /\ t.start = s.start /\ t.mixed = s.mixed /\ t.period = s.period /\ t.refs = s.refs
  BY <1>2 DEF t, AppState, SameStaking
<1> QED BY <1>1, <1>3 DEF F

\* What the command leaves of records that fit together: the new validator
\* alone, with records that fit together.
LEMMA CommandFits ==
  ASSUME NEW s, Fits(s), NEW a \in CommandArgs
  PROVE  LET t == initAppForTestnet(s, a)
         IN  /\ Fits(t) /\ Rewritten(t)
             /\ t.funds = [x \in Accounts |-> s.funds[x] + Times(a.fund, x)]
<1> DEFINE s1 == ClearValidators(s)
           s2 == SetNewValidator(s1, a)
           s3 == SetDistributionRecords(s2, a)
           s4 == SetSigningInfo(s3, a)
           t  == FundAccounts(s4, a)
           o  == a.operator
<1>1. initAppForTestnet(s, a) = t
  BY DEF initAppForTestnet
<1>2. s \in AppState /\ o \in Operators /\ a.key \in Keys /\ o # None /\ a.key # None
      /\ MaxPeriod \in Nat /\ BondedPower > 0
  BY InPlaceAssumption DEF Fits, CommandArgs
<1>3. /\ s1 \in AppState /\ s1.funds = s.funds
      /\ s1.index = {} /\ s1.queue = {}
      /\ \A q \in Operators : s1.last[q] = -1 /\ s1.val[q] = Absent
  BY <1>2, ClearedFields DEF Others
<1> HIDE DEF s1
<1>4. /\ s2 \in AppState /\ s2.funds = s.funds
      /\ s2.index = {o} /\ s2.queue = {}
      /\ s2.val[o] = [key |-> a.key, status |-> "bonded", power |-> BondedPower]
      /\ s2.byCons[a.key] = o /\ s2.last[o] = 0
      /\ \A q \in Operators \ {o} : s2.val[q] = Absent /\ s2.last[q] = -1
  BY <1>3, NewValidatorFields
<1> HIDE DEF s2
<1>5. /\ SameStaking(s3, s2) /\ s3.funds = s.funds
      /\ s3.period[o] = 1 /\ s3.refs[o][0] = 1
      /\ o \notin s3.mixed => \A d \in Delegators : s3.start[o][d] = -1
  BY <1>4, DistributionFields
<1> HIDE DEF s3
<1>6. /\ SameStaking(s4, s3) /\ a.key \in s4.signing /\ s4.funds = s.funds
      /\ s4.start = s3.start /\ s4.mixed = s3.mixed
      /\ s4.period = s3.period /\ s4.refs = s3.refs
  BY <1>5, SigningFields DEF SameStaking
<1> HIDE DEF s4
<1>7. /\ SameStaking(t, s4) /\ t.signing = s4.signing
      /\ t.funds = [x \in Accounts |-> s4.funds[x] + Times(a.fund, x)]
      /\ t.start = s3.start /\ t.mixed = s3.mixed
      /\ t.period = s3.period /\ t.refs = s3.refs
  BY <1>6, FundFields DEF SameStaking
<1> HIDE DEF t
<1>8. /\ t \in AppState /\ t.index = {o} /\ t.queue = {}
      /\ t.val[o] = [key |-> a.key, status |-> "bonded", power |-> BondedPower]
      /\ t.byCons[a.key] = o /\ t.last[o] = 0
      /\ \A q \in Operators \ {o} : t.val[q] = Absent /\ t.last[q] = -1
      /\ a.key \in t.signing
  BY <1>4, <1>5, <1>6, <1>7 DEF SameStaking
<1>9. Exists(t, o) /\ t.val[o].key = a.key /\ t.val[o].status = "bonded"
      /\ t.val[o].power = BondedPower
  BY <1>8 DEF Exists
<1>10. \A q \in Operators \ {o} : ~Exists(t, q) /\ t.val[q].key = None
  BY <1>8 DEF Exists, Absent
<1> HIDE DEF o
<1>11. RecordsFit(t)
  BY <1>2, <1>8, <1>9, <1>10 DEF RecordsFit
<1>12. o \notin t.mixed => RefsFit(t, o)
  <2> SUFFICES ASSUME o \notin t.mixed
               PROVE  RefsFit(t, o)
    OBVIOUS
  <2>1. t.period[o] = 1 /\ t.refs[o][0] = 1 /\ \A d \in Delegators : t.start[o][d] = -1
    BY <1>5, <1>7
  <2>2. \A p \in 0 .. 0 : t.refs[o][p] =
          (IF \E d \in Delegators : t.start[o][d] = p THEN 1 ELSE 0) + (IF p = 0 THEN 1 ELSE 0)
    BY <2>1
  <2> QED BY <1>2, <2>1, <2>2 DEF RefsFit
<1>13. PeriodsFit(t)
  BY <1>10, <1>12 DEF PeriodsFit
<1>14. Rewritten(t)
  BY <1>8, <1>10 DEF Rewritten
<1>15. t.funds = [x \in Accounts |-> s.funds[x] + Times(a.fund, x)]
  BY <1>6, <1>7
<1> QED BY <1>1, <1>8, <1>11, <1>13, <1>14, <1>15 DEF Fits

-----------------------------------------------------------------------------
\* CometBFT follows whatever has the same validators.
LEMMA FollowsTheSame ==
  ASSUME NEW c, NEW s, NEW t, s \in AppState, CometFollows(c, s), SameValidators(t, s)
  PROVE  CometFollows(c, t)
<1>1. s.index \subseteq Operators /\ s.byCons \in [Keys -> Operators \cup {None}]
  BY StateFields
<1>2. \A k \in Keys : VoteResolves(s, k) => VoteResolves(t, k)
  BY <1>1 DEF VoteResolves, SameValidators, Exists
<1>3. \A k \in Keys : Indexed(t, k) <=> Indexed(s, k)
  BY <1>1 DEF Indexed, SameValidators
<1>4. \A o \in t.index : t.last[o] # 0 => c.next[t.val[o].key] = t.last[o]
  BY <1>1 DEF CometFollows, SameValidators
<1> QED BY <1>2, <1>3, <1>4 DEF CometFollows

\* A validator of the index has a key of its own.
LEMMA OwnKeys ==
  ASSUME NEW s, Fits(s)
  PROVE  /\ \A o \in s.index : o \in Operators /\ Exists(s, o) /\ s.val[o].key \in Keys
                               /\ VoteResolves(s, s.val[o].key)
         /\ \A o, q \in s.index : s.val[o].key = s.val[q].key => o = q
<1>1. s.index \subseteq Operators /\ s.signing \subseteq Keys
  BY StateFields DEF Fits
<1>2. \A o \in s.index : o \in Operators /\ Exists(s, o) /\ o # None
  BY <1>1, InPlaceAssumption DEF Fits, RecordsFit, Exists
<1>3. \A o \in s.index : s.val[o].key \in s.signing /\ s.byCons[s.val[o].key] = o
  BY <1>2 DEF Fits, RecordsFit
<1> QED BY <1>1, <1>2, <1>3 DEF VoteResolves

\* After the updates of a block, CometBFT follows what the block leaves.
LEMMA FollowsTheBlock ==
  ASSUME Fits(block), comet \in ValidatorSets, CometFollows(comet, block),
         NEW mature \in SUBSET block.queue
  PROVE  CometFollows(Follow(block), UnbondMature(UpdateValidatorSet(block), mature))
<1> DEFINE t == UnbondMature(UpdateValidatorSet(block), mature)
           c == Follow(block)
<1>1. /\ Ended(t, block)
      /\ \A o \in block.index : t.last[o] = block.val[o].power /\ t.last[o] > 0
  BY BlockEndFits
<1> HIDE DEF t
<1>2. /\ \A o \in block.index : o \in Operators /\ Exists(block, o) /\ block.val[o].key \in Keys
                                /\ VoteResolves(block, block.val[o].key)
      /\ \A o, q \in block.index : block.val[o].key = block.val[q].key => o = q
  BY OwnKeys
<1>3. /\ t.index = block.index /\ t.byCons = block.byCons /\ block.signing \subseteq t.signing
      /\ \A o \in Operators : t.val[o].key = block.val[o].key
      /\ \A o \in Operators : Exists(t, o) <=> Exists(block, o)
  BY <1>1 DEF Ended
<1>4. \A k \in Keys : VoteResolves(block, k) => VoteResolves(t, k)
  <2>1. block.byCons \in [Keys -> Operators \cup {None}]
    BY StateFields DEF Fits
  <2> QED BY <1>3, <2>1 DEF VoteResolves
<1>5. ValidatorUpdates(block) = {o \in block.index : block.val[o].power # block.last[o]}
  BY <1>2 DEF ValidatorUpdates, NewPower, Fits, RecordsFit
<1>6. \A o \in block.index : NewPower(block, o) = block.val[o].power /\ block.val[o].power > 0
  BY <1>1 DEF NewPower
<1>7. /\ c.last = comet.now /\ c.now = comet.next
      /\ c.next = [k \in Keys |->
           IF \E o \in ValidatorUpdates(block) : block.val[o].key = k
           THEN LET o == CHOOSE x \in ValidatorUpdates(block) : block.val[x].key = k
                IN IF NewPower(block, o) > 0 THEN NewPower(block, o) ELSE 0
           ELSE comet.next[k]]
  BY DEF Follow
<1> HIDE DEF c
<1>8. \A o \in block.index : c.next[block.val[o].key] = block.val[o].power
  <2> SUFFICES ASSUME NEW o \in block.index
               PROVE  c.next[block.val[o].key] = block.val[o].power
    OBVIOUS
  <2> DEFINE k == block.val[o].key
             x == CHOOSE x \in ValidatorUpdates(block) : block.val[x].key = k
  <2>1. CASE o \in ValidatorUpdates(block)
    <3>1. x \in ValidatorUpdates(block) /\ block.val[x].key = k
      BY <2>1
    <3>2. x = o
      BY <1>2, <1>5, <3>1
    <3>3. c.next[k] = IF NewPower(block, x) > 0 THEN NewPower(block, x) ELSE 0
      BY <1>2, <1>7, <2>1
    <3> QED BY <1>6, <3>2, <3>3
  <2>2. CASE o \notin ValidatorUpdates(block)
    <3>1. ~\E q \in ValidatorUpdates(block) : block.val[q].key = k
      BY <1>2, <1>5, <2>2
    <3>2. c.next[k] = comet.next[k]
      BY <1>2, <1>7, <3>1
    <3>3. block.last[o] = block.val[o].power /\ block.last[o] # 0
      BY <1>5, <1>6, <2>2
    <3> QED BY <3>2, <3>3 DEF CometFollows
  <2> QED BY <2>1, <2>2
<1>9. \A k \in Keys : ~Indexed(block, k) => c.next[k] = 0
  BY <1>5, <1>7 DEF Indexed, CometFollows
<1>10. \A k \in Keys : c.next[k] > 0 => VoteResolves(block, k)
  BY <1>2, <1>9 DEF Indexed
<1>11. \A k \in Keys : c.last[k] > 0 \/ c.now[k] > 0 => VoteResolves(block, k)
  BY <1>7 DEF CometFollows
<1>12. \A k \in Keys : ~Indexed(t, k) => c.next[k] = 0
  BY <1>2, <1>3, <1>9 DEF Indexed
<1>13. \A o \in t.index : t.last[o] # 0 => c.next[t.val[o].key] = t.last[o]
  BY <1>1, <1>2, <1>3, <1>8
<1>14. CometFollows(c, t)
  BY <1>4, <1>10, <1>11, <1>12, <1>13 DEF CometFollows
<1> QED BY <1>14 DEF c, t

LEMMA FollowType ==
  ASSUME Fits(block), comet \in ValidatorSets
  PROVE  Follow(block) \in ValidatorSets
<1>1. \A o \in ValidatorUpdates(block) : NewPower(block, o) \in Int
  <2>1. block.index \subseteq Operators
        /\ block.val \in [Operators -> [key : Keys \cup {None},
                            status : {"absent", "bonded", "unbonding", "unbonded"},
                            power  : Int]]
    BY StateFields DEF Fits
  <2> QED BY <2>1 DEF ValidatorUpdates, NewPower
<1>2. \A k \in Keys : (\E o \in ValidatorUpdates(block) : block.val[o].key = k) =>
        NewPower(block, CHOOSE x \in ValidatorUpdates(block) : block.val[x].key = k) \in Int
  BY <1>1
<1> QED BY <1>2 DEF Follow, ValidatorSets

\* CometBFT rewritten follows the state the command leaves.
LEMMA FollowsTheCommand ==
  ASSUME NEW s, Fits(s), Rewritten(s), NEW k \in Keys,
         \E o \in Operators : Exists(s, o) /\ s.val[o].key = k
  PROVE  LET only == [x \in Keys |-> IF x = k THEN valVotingPower ELSE 0]
             c == [last |-> only, now |-> only, next |-> only]
         IN  c \in ValidatorSets /\ CometFollows(c, s)
<1> DEFINE only == [x \in Keys |-> IF x = k THEN valVotingPower ELSE 0]
           c == [last |-> only, now |-> only, next |-> only]
<1>1. only \in [Keys -> Int]
  BY InPlaceAssumption
<1>2. \A x \in Keys : only[x] = IF x = k THEN valVotingPower ELSE 0
  OBVIOUS
<1> HIDE DEF only
<1>3. c.last = only /\ c.now = only /\ c.next = only /\ c \in ValidatorSets
  BY <1>1 DEF ValidatorSets
<1> HIDE DEF c
<1>4. PICK o \in Operators : Exists(s, o) /\ s.val[o].key = k
  OBVIOUS
<1>5. o \in s.index /\ \A q \in s.index : s.last[q] = 0
  <2>1. s.index \subseteq Operators
    BY StateFields DEF Fits
  <2>2. \A q \in s.index : Exists(s, q)
    BY OwnKeys
  <2> QED BY <1>4, <2>1, <2>2 DEF Rewritten
<1>6. VoteResolves(s, k)
  BY <1>4, <1>5, OwnKeys
<1>7. \A x \in Keys : only[x] > 0 => VoteResolves(s, x)
  BY <1>2, <1>6
<1>8. \A x \in Keys : ~Indexed(s, x) => only[x] = 0
  BY <1>2, <1>4, <1>5 DEF Indexed
<1>9. CometFollows(c, s)
  BY <1>3, <1>5, <1>7, <1>8 DEF CometFollows
<1> QED BY <1>3, <1>9 DEF c, only

-----------------------------------------------------------------------------
\* The chain before the command: its records fit together, and CometBFT has
\* the powers of its validators.
LEMMA ChainFits ==
  /\ Fits(ChainState) /\ ChainState.funds = [a \in Accounts |-> 0]
  /\ \A o \in ChainState.index : ChainState.last[o] > 0
<1> DEFINE s == ChainState
<1>1. \A o \in DOMAIN Chain :
        /\ o \in Operators /\ Chain[o].key \in Keys /\ Chain[o].power \in Nat /\ Chain[o].power > 0
        /\ Chain[o].status \in {"bonded", "unbonding", "unbonded"}
        /\ Chain[o] \in [key    : Keys \cup {None},
                         status : {"absent", "bonded", "unbonding", "unbonded"},
                         power  : Int]
  BY InPlaceAssumption
<1>2. \A o \in DOMAIN Chain :
        (CHOOSE q \in DOMAIN Chain : Chain[q].key = Chain[o].key) = o
  BY InPlaceAssumption
<1>3. \A k \in Keys : (\E o \in DOMAIN Chain : Chain[o].key = k) =>
        (CHOOSE q \in DOMAIN Chain : Chain[q].key = k) \in Operators
  BY <1>1
<1>4. /\ s.val = [o \in Operators |-> IF o \in DOMAIN Chain THEN Chain[o] ELSE Absent]
      /\ s.byCons = [k \in Keys |-> IF \E o \in DOMAIN Chain : Chain[o].key = k
                                    THEN CHOOSE o \in DOMAIN Chain : Chain[o].key = k
                                    ELSE None]
      /\ s.index = {o \in DOMAIN Chain : Chain[o].status = "bonded"}
      /\ s.last = [o \in Operators |-> IF o \in DOMAIN Chain /\ Chain[o].status = "bonded"
                                       THEN Chain[o].power ELSE -1]
      /\ s.queue = {o \in DOMAIN Chain : Chain[o].status = "unbonding"}
      /\ s.signing = {Chain[o].key : o \in DOMAIN Chain}
      /\ s.period = [o \in Operators |-> IF o \in DOMAIN Chain THEN 1 ELSE 0]
      /\ s.refs = [o \in Operators |-> [p \in Periods |->
                     IF o \in DOMAIN Chain /\ p = 0 THEN 1 ELSE 0]]
      /\ s.start = [o \in Operators |-> [d \in Delegators |-> -1]]
      /\ s.mixed = {}
      /\ s.funds = [a \in Accounts |-> 0]
  BY DEF ChainState
<1>5. s = [val |-> s.val, byCons |-> s.byCons, index |-> s.index, last |-> s.last,
           queue |-> s.queue, signing |-> s.signing, period |-> s.period,
           refs |-> s.refs, start |-> s.start, mixed |-> s.mixed, funds |-> s.funds]
  BY DEF ChainState
<1> HIDE DEF s
<1>6. s \in AppState
  <2>1. s.val \in [Operators -> [key : Keys \cup {None},
                          status : {"absent", "bonded", "unbonding", "unbonded"}, power : Int]]
    BY <1>1, <1>4 DEF Absent
  <2>2. s.byCons \in [Keys -> Operators \cup {None}]
    BY <1>3, <1>4
  <2>3. s.index \subseteq Operators /\ s.queue \subseteq Operators /\ s.signing \subseteq Keys
    BY <1>1, <1>4
  <2>4. s.last \in [Operators -> Int]
    BY <1>1, <1>4
  <2>5. s.period \in [Operators -> Int] /\ s.refs \in [Operators -> [Periods -> Int]]
    BY <1>4
  <2>6. s.start \in [Operators -> [Delegators -> Int]] /\ s.mixed \subseteq Operators
        /\ s.funds \in [Accounts -> Nat]
    BY <1>4
  <2> QED BY <1>5, <2>1, <2>2, <2>3, <2>4, <2>5, <2>6 DEF AppState
<1>7. \A o \in s.index : s.val[o].status = "bonded" /\ s.last[o] > 0 /\ s.last[o] \in Int
  BY <1>1, <1>4
<1>8. RecordsFit(s)
  <2>1. \A o \in s.index : s.val[o].status = "bonded" /\ s.last[o] >= 0
    BY <1>7
  <2>2. \A o \in Operators \ s.index : s.last[o] = -1
    BY <1>4
  <2>3. \A o \in s.queue : s.val[o].status = "unbonding"
    BY <1>1, <1>4
  <2>4. \A o \in DOMAIN Chain : Exists(s, o) /\ s.val[o] = Chain[o]
    BY <1>1, <1>4 DEF Exists
  <2>5. \A o \in Operators \ DOMAIN Chain : ~Exists(s, o) /\ s.val[o].key = None
    BY <1>4 DEF Exists, Absent
  <2>6. \A o \in DOMAIN Chain : Chain[o].key \in s.signing /\ s.byCons[Chain[o].key] = o
    BY <1>1, <1>2, <1>4
  <2> QED BY <1>1, <2>1, <2>2, <2>3, <2>4, <2>5, <2>6 DEF RecordsFit
<1>9. PeriodsFit(s)
  <2> SUFFICES ASSUME NEW o \in Operators, Exists(s, o)
               PROVE  RefsFit(s, o)
    BY DEF PeriodsFit
  <2>1. o \in DOMAIN Chain
    BY <1>4 DEF Exists, Absent
  <2>2. s.period[o] = 1 /\ \A d \in Delegators : s.start[o][d] = -1
    BY <1>4, <2>1
  <2>3. MaxPeriod \in Nat /\ 0 \in Periods
    BY InPlaceAssumption DEF Periods
  <2>4. s.refs[o][0] = 1
    BY <1>4, <2>1, <2>3
  <2>5. \A p \in 0 .. 0 : s.refs[o][p] =
          (IF \E d \in Delegators : s.start[o][d] = p THEN 1 ELSE 0) + (IF p = 0 THEN 1 ELSE 0)
    BY <2>2, <2>4
  <2> QED BY <2>2, <2>3, <2>5 DEF RefsFit
<1>10. Fits(s) /\ s.funds = [a \in Accounts |-> 0]
  BY <1>4, <1>6, <1>8, <1>9 DEF Fits
<1> QED BY <1>7, <1>10 DEF s

\* The powers of a committed state are those CometBFT has when it follows it.
LEMMA FollowsPowers ==
  ASSUME NEW s, Fits(s), \A o \in s.index : s.last[o] > 0, NEW c \in ValidatorSets
  PROVE  /\ CometFollows(c, s) => c.next = PowersOf(s)
         /\ PowersOf(s) \in [Keys -> Int]
         /\ LET p == [last |-> PowersOf(s), now |-> PowersOf(s), next |-> PowersOf(s)]
            IN  p \in ValidatorSets /\ CometFollows(p, s)
<1>1. /\ s.index \subseteq Operators /\ s.last \in [Operators -> Int]
      /\ s.byCons \in [Keys -> Operators \cup {None}]
  BY StateFields DEF Fits
<1>2. \A k \in Keys : s.byCons[k] # None => s.last[s.byCons[k]] \in Int
  BY <1>1
<1>3. PowersOf(s) \in [Keys -> Int]
  BY <1>2 DEF PowersOf
<1>4. \A o \in s.index : /\ o \in Operators /\ s.byCons[s.val[o].key] = o /\ o # None
                         /\ s.val[o].key \in Keys /\ VoteResolves(s, s.val[o].key)
  BY <1>1, OwnKeys, InPlaceAssumption DEF Fits, RecordsFit
<1>5. \A o \in s.index : PowersOf(s)[s.val[o].key] = s.last[o]
  BY <1>4 DEF PowersOf
<1>6. ASSUME NEW k \in Keys, ~Indexed(s, k)
      PROVE  PowersOf(s)[k] = 0
  <2> DEFINE o == s.byCons[k]
  <2>1. o \in Operators /\ s.val[o].key = k => s.last[o] = -1
    BY <1>6 DEF Indexed, Fits, RecordsFit
  <2> QED BY <1>1, <2>1 DEF PowersOf
<1>7. ASSUME CometFollows(c, s)
      PROVE  c.next = PowersOf(s)
  <2>1. \A k \in Keys : c.next[k] = PowersOf(s)[k]
    <3> SUFFICES ASSUME NEW k \in Keys
                 PROVE  c.next[k] = PowersOf(s)[k]
      OBVIOUS
    <3>1. CASE Indexed(s, k)
      <4>1. PICK o \in s.index : s.val[o].key = k
        BY <3>1 DEF Indexed
      <4>2. s.last[o] # 0
        BY <1>1
      <4> QED BY <1>5, <1>7, <4>1, <4>2 DEF CometFollows
    <3>2. CASE ~Indexed(s, k)
      BY <1>6, <1>7, <3>2 DEF CometFollows
    <3> QED BY <3>1, <3>2
  <2> QED BY <1>3, <2>1 DEF ValidatorSets
<1>8. \A k \in Keys : PowersOf(s)[k] > 0 => VoteResolves(s, k)
  BY <1>4, <1>6 DEF Indexed
<1> DEFINE p == [last |-> PowersOf(s), now |-> PowersOf(s), next |-> PowersOf(s)]
<1>9. p.last = PowersOf(s) /\ p.now = PowersOf(s) /\ p.next = PowersOf(s) /\ p \in ValidatorSets
  BY <1>3 DEF ValidatorSets
<1> HIDE DEF p
<1>10. CometFollows(p, s)
  BY <1>5, <1>6, <1>8, <1>9 DEF CometFollows
<1> QED BY <1>3, <1>7, <1>9, <1>10 DEF p

-----------------------------------------------------------------------------
LEMMA InPlaceInit == Init => InPlaceInv
<1> SUFFICES ASSUME Init PROVE InPlaceInv
  OBVIOUS
<1>1. disk = ChainState /\ work = disk /\ block = disk /\ stage = "stopped" /\ pending = {}
      /\ lost = FALSE /\ failed = FALSE /\ owed = [a \in Accounts |-> 0]
      /\ comet = [last |-> PowersOf(disk), now |-> PowersOf(disk), next |-> PowersOf(disk)]
  BY DEF Init
<1>2. Fits(disk) /\ disk.funds = owed /\ \A o \in disk.index : disk.last[o] > 0
  BY <1>1, ChainFits
<1>3. comet \in ValidatorSets /\ CometFollows(comet, disk)
  <2> DEFINE c == [last |-> PowersOf(disk), now |-> PowersOf(disk), next |-> PowersOf(disk)]
             z == [k \in Keys |-> 0]
  <2>1. [last |-> z, now |-> z, next |-> z] \in ValidatorSets
    BY DEF ValidatorSets
  <2>2. c \in ValidatorSets /\ CometFollows(c, disk)
    BY <1>2, <2>1, FollowsPowers
  <2>3. comet = c
    BY <1>1
  <2> HIDE DEF c
  <2> QED BY <2>2, <2>3
<1>4. TypeOK
  <2>1. owed \in [Accounts -> Nat] /\ disk \in AppState
    BY <1>1, <1>2 DEF Fits
  <2> QED BY <1>1, <1>3, <2>1 DEF TypeOK
<1>5. PendingInv
  BY <1>1 DEF PendingInv
<1> QED BY <1>1, <1>2, <1>3, <1>4, <1>5 DEF InPlaceInv

LEMMA InPlaceCommand ==
  ASSUME InPlaceInv, NEW a \in CommandArgs, newTestnetApp(a)
  PROVE  InPlaceInv'
<1>1. CASE UNCHANGED vars
  BY <1>1 DEF vars, InPlaceInv, TypeOK, PendingInv
<1>2. CASE /\ work' = initAppForTestnet(disk, a) /\ stage' = "rewriting"
           /\ pending' = {[x \in Accounts |-> Times(a.fund, x)]}
  <2>1. UNCHANGED <<disk, block, comet, lost, failed, owed>>
    BY DEF newTestnetApp
  <2>2. /\ Fits(work') /\ Rewritten(work')
        /\ work'.funds = [x \in Accounts |-> disk.funds[x] + Times(a.fund, x)]
    <3>1. Fits(disk)
      BY DEF InPlaceInv
    <3> QED BY <1>2, <3>1, CommandFits
  <2>3. [x \in Accounts |-> Times(a.fund, x)] \in [Accounts -> Nat]
    BY TimesType, InPlaceAssumption DEF CommandArgs
  <2>4. TypeOK'
    BY <1>2, <2>1, <2>2 DEF InPlaceInv, TypeOK, Fits
  <2>5. PendingInv'
    BY <1>2, <2>1, <2>2, <2>3 DEF PendingInv
  <2>6. stage = "stopped" /\ work = disk
    BY DEF newTestnetApp, InPlaceInv, PendingInv
  <2>7. (~lost => CometFollows(comet, IF stage = "rewriting" THEN disk ELSE work))'
    BY <1>2, <2>1, <2>6 DEF InPlaceInv
  <2> QED BY <1>2, <2>1, <2>2, <2>4, <2>5, <2>7 DEF InPlaceInv
<1> QED BY <1>1, <1>2 DEF newTestnetApp, vars

LEMMA InPlaceRewrite ==
  ASSUME InPlaceInv, NEW k \in Keys, RewriteConsensus(k)
  PROVE  InPlaceInv'
<1>1. /\ stage = "rewriting" /\ stage' = "idle" /\ lost' = FALSE /\ failed' = FALSE
      /\ UNCHANGED <<disk, work, block, pending, owed>>
      /\ \E o \in Operators : Exists(work, o) /\ work.val[o].key = k
  BY DEF RewriteConsensus
<1>2. comet' \in ValidatorSets /\ CometFollows(comet', work)
  <2> DEFINE only == [x \in Keys |-> IF x = k THEN valVotingPower ELSE 0]
             c == [last |-> only, now |-> only, next |-> only]
  <2>1. c \in ValidatorSets /\ CometFollows(c, work)
    BY <1>1, FollowsTheCommand DEF InPlaceInv
  <2>2. comet' = c
    BY DEF RewriteConsensus
  <2> HIDE DEF c
  <2> QED BY <2>1, <2>2
<1>3. TypeOK'
  BY <1>1, <1>2 DEF InPlaceInv, TypeOK
<1>4. PendingInv'
  BY <1>1 DEF InPlaceInv, PendingInv
<1> QED BY <1>1, <1>2, <1>3, <1>4 DEF InPlaceInv

LEMMA InPlaceStart ==
  ASSUME InPlaceInv, Start
  PROVE  InPlaceInv'
<1>1. /\ stage = "stopped" /\ stage' = "idle" /\ work' = disk /\ work = disk
      /\ UNCHANGED <<disk, block, comet, pending, lost, failed, owed>>
  BY DEF Start, InPlaceInv, PendingInv
<1>2. TypeOK'
  BY <1>1 DEF InPlaceInv, TypeOK
<1>3. PendingInv'
  BY <1>1 DEF InPlaceInv, PendingInv
<1> QED BY <1>1, <1>2, <1>3 DEF InPlaceInv

\* The process ends, with whatever was not committed.
LEMMA InPlaceStops ==
  ASSUME InPlaceInv, stage # "stopped", stage' = "stopped", work' = disk, block' = disk,
         pending' = {}, lost' \in BOOLEAN, failed' = FALSE,
         lost' = FALSE => ~lost /\ (pending = {} \/ stage = "rewriting"),
         UNCHANGED <<disk, comet, owed>>
  PROVE  InPlaceInv'
<1>1. TypeOK'
  BY DEF InPlaceInv, TypeOK
<1>2. PendingInv'
  BY DEF PendingInv
<1>3. ~lost' => CometFollows(comet, disk)
  BY DEF InPlaceInv, PendingInv, TypeOK
<1> QED BY <1>1, <1>2, <1>3 DEF InPlaceInv

LEMMA InPlaceBegin ==
  ASSUME InPlaceInv, BeginBlock
  PROVE  InPlaceInv'
<1>1. CASE \A k \in Keys : comet.last[k] > 0 => VoteResolves(work, k)
  <2>1. /\ stage = "idle" /\ stage' = "delivering" /\ block' = work
        /\ UNCHANGED <<disk, work, comet, pending, lost, failed, owed>>
    BY <1>1 DEF BeginBlock
  <2>2. TypeOK'
    BY <2>1 DEF InPlaceInv, TypeOK
  <2>3. PendingInv'
    BY <2>1 DEF InPlaceInv, PendingInv
  <2>4. SameValidators(work, work)
    BY DEF SameValidators
  <2> QED BY <2>1, <2>2, <2>3, <2>4 DEF InPlaceInv
<1>2. CASE \E k \in Keys : comet.last[k] > 0 /\ ~VoteResolves(work, k)
  <2>1. lost
    BY <1>2 DEF BeginBlock, InPlaceInv, CometFollows
  <2>2. /\ stage = "idle" /\ failed' = ~lost /\ stage' = "stopped"
        /\ work' = disk /\ block' = disk
        /\ lost' = (lost \/ pending # {}) /\ pending' = {}
        /\ UNCHANGED <<disk, comet, owed>>
    BY <1>2 DEF BeginBlock, Fail
  <2> QED BY <2>1, <2>2, InPlaceStops DEF InPlaceInv, TypeOK
<1> QED BY <1>1, <1>2

LEMMA InPlaceTransaction ==
  ASSUME InPlaceInv, NEW d \in Delegators, NEW o \in Operators,
         Delegate(d, o) \/ WithdrawReward(d, o) \/ Undelegate(d, o)
  PROVE  InPlaceInv'
<1>1. stage = "delivering"
      /\ UNCHANGED <<stage, disk, work, comet, height, calls, pending, lost, failed, owed>>
  BY DEF Delegate, WithdrawReward, Undelegate, CanDeliver, Delivered
<1>2. block' \in AppState /\ Fits(block') /\ SameValidators(block', block)
  BY TransactionFits DEF InPlaceInv
<1>3. SameValidators(block', work)
  BY <1>1, <1>2 DEF SameValidators, InPlaceInv
<1>4. TypeOK'
  BY <1>1, <1>2 DEF InPlaceInv, TypeOK
<1>5. PendingInv'
  BY <1>1 DEF InPlaceInv, PendingInv
<1> QED BY <1>1, <1>2, <1>3, <1>4, <1>5 DEF InPlaceInv

LEMMA InPlaceEnd ==
  ASSUME InPlaceInv, NEW mature \in SUBSET Operators, EndBlockAndCommit(mature)
  PROVE  InPlaceInv'
<1> DEFINE t == UnbondMature(UpdateValidatorSet(block), mature)
<1>1. stage = "delivering" /\ mature \in SUBSET block.queue /\ Fits(block)
      /\ SameValidators(block, work)
  BY DEF EndBlockAndCommit, InPlaceInv
<1>2. /\ ~UpdatePanics(block) /\ ~UnbondPanics(UpdateValidatorSet(block), mature)
      /\ Ended(t, block) /\ Fits(t)
      /\ \A o \in block.index : t.last[o] > 0
  BY <1>1, BlockEndFits
<1>3. /\ stage' = "idle" /\ work' = t /\ disk' = t /\ block' = t
      /\ comet' = Follow(block) /\ pending' = {}
      /\ owed' = [a \in Accounts |->
                   owed[a] + (IF pending = {} THEN 0 ELSE (CHOOSE p \in pending : TRUE)[a])]
      /\ UNCHANGED <<lost, failed>>
  BY <1>2 DEF EndBlockAndCommit
<1>4. comet' \in ValidatorSets
  BY <1>1, <1>3, FollowType DEF InPlaceInv, TypeOK
<1>5. ~lost => CometFollows(comet', t)
  <2> SUFFICES ASSUME ~lost PROVE CometFollows(comet', t)
    OBVIOUS
  <2>1. CometFollows(comet, work)
    BY <1>1 DEF InPlaceInv
  <2>2. CometFollows(comet, block)
    BY <1>1, <2>1, FollowsTheSame DEF InPlaceInv, TypeOK
  <2> QED BY <1>1, <1>3, <2>2, FollowsTheBlock DEF InPlaceInv, TypeOK
<1> HIDE DEF t
<1>6. t \in AppState /\ t.funds = work.funds /\ \A o \in t.index : t.last[o] > 0
  BY <1>1, <1>2 DEF Ended, SameValidators
<1>7. t.funds = owed' /\ owed' \in [Accounts -> Nat]
  <2>1. disk.funds = owed /\ owed \in [Accounts -> Nat] /\ PendingInv
    BY DEF InPlaceInv, TypeOK
  <2>2. CASE pending = {}
    <3>1. owed' = [a \in Accounts |-> owed[a]]
      BY <1>3, <2>1, <2>2
    <3>2. work.funds = owed
      BY <2>1, <2>2 DEF PendingInv
    <3> QED BY <1>6, <2>1, <3>1, <3>2
  <2>3. CASE pending # {}
    <3>1. PICK p \in pending : pending = {p}
      BY <2>1, <2>3 DEF PendingInv
    <3>2. (CHOOSE q \in pending : TRUE) = p
      BY <3>1
    <3>3. p \in [Accounts -> Nat] /\ work.funds = [a \in Accounts |-> disk.funds[a] + p[a]]
      BY <2>1 DEF PendingInv
    <3>4. owed' = [a \in Accounts |-> owed[a] + p[a]]
      BY <1>3, <2>3, <3>2
    <3> QED BY <1>6, <2>1, <3>3, <3>4
  <2> QED BY <2>2, <2>3
<1>8. TypeOK'
  BY <1>3, <1>4, <1>6, <1>7 DEF InPlaceInv, TypeOK
<1>9. PendingInv'
  BY <1>3 DEF PendingInv
<1> QED BY <1>2, <1>3, <1>5, <1>6, <1>7, <1>8, <1>9 DEF InPlaceInv

LEMMA InPlaceNext == InPlaceInv /\ [Next]_vars => InPlaceInv'
<1> SUFFICES ASSUME InPlaceInv, [Next]_vars PROVE InPlaceInv'
  OBVIOUS
<1>1. CASE \E a \in CommandArgs : newTestnetApp(a)
  BY <1>1, InPlaceCommand
<1>2. CASE \E k \in Keys : RewriteConsensus(k)
  BY <1>2, InPlaceRewrite
<1>3. CASE Start
  BY <1>3, InPlaceStart
<1>4. CASE Crash
  BY <1>4, InPlaceStops DEF Crash, InPlaceInv, TypeOK
<1>5. CASE BeginBlock
  BY <1>5, InPlaceBegin
<1>6. CASE \E d \in Delegators, o \in Operators :
             Delegate(d, o) \/ WithdrawReward(d, o) \/ Undelegate(d, o)
  BY <1>6, InPlaceTransaction
<1>7. CASE \E mature \in SUBSET Operators : EndBlockAndCommit(mature)
  BY <1>7, InPlaceEnd
<1>8. CASE UNCHANGED vars
  BY <1>8 DEF vars, InPlaceInv, TypeOK, PendingInv
<1> QED BY <1>1, <1>2, <1>3, <1>4, <1>5, <1>6, <1>7, <1>8 DEF Next

\* The records of every version of the state fit together, at any time.
THEOREM VersionsFit == Spec => []InPlaceInv
BY InPlaceInit, InPlaceNext, PTL DEF Spec

\* A chain goes on whatever was called on it, and wherever a call died, as long
\* as no call's writes are lost after CometBFT was rewritten: no vote, index or
\* queue that the begin and end blockers follow leads nowhere.
THEOREM ChainGoesOn == Spec => []BlocksExecute
<1>1. InPlaceInv => BlocksExecute
  BY DEF InPlaceInv, BlocksExecute
<1> QED BY <1>1, VersionsFit, PTL

\* CometBFT and staking count the same powers once a block has committed what
\* the command wrote, which they do not when it has been called.
THEOREM SamePowers == Spec => []PowersAgree
<1>1. InPlaceInv => PowersAgree
  <2> SUFFICES ASSUME InPlaceInv, stage = "idle", pending = {}, ~lost
               PROVE  comet.next = PowersOf(disk)
    BY DEF PowersAgree
  <2>1. work = disk /\ comet \in ValidatorSets
    BY DEF InPlaceInv, PendingInv, TypeOK
  <2>2. CometFollows(comet, disk) /\ Fits(disk) /\ \A o \in disk.index : disk.last[o] > 0
    BY <2>1 DEF InPlaceInv
  <2> QED BY <2>1, <2>2, FollowsPowers
<1> QED BY <1>1, VersionsFit, PTL

\* The delegations to a validator that had none when the command took it over
\* can be withdrawn: every period they start from is still counted.
THEOREM WithdrawalsSucceed == Spec => []DelegationsWithdraw
<1>1. InPlaceInv => DelegationsWithdraw
  <2> SUFFICES ASSUME InPlaceInv, NEW o \in Operators \ block.mixed, Exists(block, o)
               PROVE  /\ ~PeriodPanics(block, o)
                      /\ \A d \in Delegated(block, o) :
                           block.period[o] < MaxPeriod => ~WithdrawPanics(block, d, o)
    BY DEF DelegationsWithdraw
  <2> DEFINE P == block.period[o]
             n == NextPeriod(block, o)
  <2>1. RefsFit(block, o) /\ block \in AppState
    BY DEF InPlaceInv, Fits, PeriodsFit
  <2>2. P \in 1 .. MaxPeriod + 1 /\ P \in Int /\ MaxPeriod \in Nat
    BY <2>1, StateFields, InPlaceAssumption DEF RefsFit
  <2>3. \A p \in 0 .. P - 1 : block.refs[o][p] =
          (IF \E d \in Delegators : block.start[o][d] = p THEN 1 ELSE 0)
            + (IF p = P - 1 THEN 1 ELSE 0)
    BY <2>1 DEF RefsFit
  <2>4. \A d \in Delegators : block.start[o][d] \in -1 .. P - 1
    BY <2>1 DEF RefsFit
  <2> HIDE DEF P
  <2>5. block.refs[o][P - 1] # 0
    BY <2>2, <2>3
  <2>6. ASSUME NEW d \in Delegated(block, o), P < MaxPeriod
        PROVE  ~WithdrawPanics(block, d, o)
    <3>1. d \in Delegators /\ block.start[o][d] \in 0 .. P - 1
      BY <2>2, <2>4 DEF Delegated
    <3>2. RefsFit(n, o) /\ n.start = block.start /\ n.period[o] = P + 1
      BY <2>1, <2>6, NextPeriodFits, NextPeriodKeeps DEF P
    <3> HIDE DEF n
    <3>3. n.refs[o][block.start[o][d]] # 0
      <4>1. \A p \in 0 .. P : n.refs[o][p] =
              (IF \E e \in Delegators : n.start[o][e] = p THEN 1 ELSE 0)
                + (IF p = P THEN 1 ELSE 0)
        BY <2>2, <3>2 DEF RefsFit
      <4> QED BY <2>2, <3>1, <3>2, <4>1
    <3>4. ~(block.start[o][d] > P)
      BY <2>2, <3>1
    <3> QED BY <2>5, <3>3, <3>4 DEF WithdrawPanics, PeriodPanics, n, P
  <2> QED BY <2>5, <2>6 DEF PeriodPanics, P
<1> QED BY <1>1, VersionsFit, PTL

\* Accounts are funded once for every call that a block has committed.
THEOREM FundsOnce == Spec => []FundedOnce
<1>1. InPlaceInv => FundedOnce
  BY DEF InPlaceInv, FundedOnce
<1> QED BY <1>1, VersionsFit, PTL
=============================================================================
