---------------------------- MODULE Upgrade_proofs ----------------------------
(***************************************************************************)
(* Proofs about the upgrade, for any number of nodes, plans and modules    *)
(* and any length of the chain.                                            *)
(*                                                                         *)
(* The decided blocks determine one history of states, which does not      *)
(* speak of binaries: an upgrade that is due is applied when this code has *)
(* its handler and dropped otherwise.  The invariant says that every       *)
(* node's disk is a state of that history, and what binary a node can      *)
(* have, so that a node whose preblocker does not stop it can only take    *)
(* the history's next step.                                                *)
(***************************************************************************)
EXTENDS Upgrade, SequenceTheorems, TLAPS

\* The upgrade this code has a handler of.
UpgradeName == CHOOSE name \in PlanNames : Handlers[New_] = {name}

States ==
  [height : Nat,
   vm     : [Modules -> Nat],
   plan   : SUBSET Plans,
   done   : Seq(PlanNames),
   inits  : [Modules -> Nat],
   moved  : [Modules -> Seq(Nat)],
   ranOn  : {Old, New_}]

Messages == {NoMsg, CancelMsg} \cup {Schedule(p) : p \in Plans}

\* The code a state belongs to.
CodeOf(s) == IF s.done = <<>> THEN Old ELSE New_

\* The versions a module has migrated to.
Migrated(m) == [i \in 1 .. Versions[New_][m] - Versions[Old][m] |-> Versions[Old][m] + i]

WorkFits(s) ==
  /\ s \in States
  /\ s.done \in {<<>>, <<UpgradeName>>}
  /\ s.plan = {} \/ \E p \in Plans : s.plan = {p}
  /\ \A p \in s.plan : p.name = UpgradeName => s.done = <<>>
  /\ s.vm = Versions[CodeOf(s)]
  /\ \A m \in Modules : /\ s.inits[m] = 1
                        /\ s.moved[m] = IF s.done = <<>> THEN <<>> ELSE Migrated(m)

StateFits(s) == WorkFits(s) /\ s.ranOn = CodeOf(s)

-----------------------------------------------------------------------------
\* A block, whatever the binary.
Applied(s) == [RunMigrations(s, New_) EXCEPT !.plan = {}, !.done = Append(@, UpgradeName)]
Prepared(s) ==
  IF Due(s) = {} THEN s
  ELSE IF \E p \in Due(s) : p.name = UpgradeName THEN Applied(s)
  ELSE [s EXCEPT !.plan = {}]
Finished(t, s) == [t EXCEPT !.height = s.height + 1, !.ranOn = CodeOf(t)]
Decided(s, msg) == Finished(HandleMsg(Prepared(s), msg), s)

\* The state a block is executed on.
From(s) == IF s.height = 0 THEN InitChainer(Old) ELSE s

IsHistory(f, c) ==
  /\ f \in [0 .. Len(c) -> States] /\ f[0] = Empty
  /\ \A k \in 1 .. Len(c) : /\ f[k] = Decided(From(f[k - 1]), c[k])
                            /\ StateFits(f[k]) /\ f[k].height = k

\* A node's disk is a state of the history, and its binary may run it: the old
\* one before the upgrade only, the new one not before it is scheduled.
NodeFits(r, f, c, s) ==
  /\ r \in [bin : {Old, New_}, disk : States, up : {r.up}, verified : BOOLEAN,
            halted : BOOLEAN, skip : SUBSET s]
  /\ r.disk.height \in 0 .. Len(c) /\ r.disk = f[r.disk.height]
  /\ r.verified => r.up = "ready" /\ (r.bin = Old => r.disk.done = <<>>)
  /\ r.bin = New_ => \/ r.disk.done # <<>>
                     \/ \E p \in r.disk.plan : p.name = UpgradeName

\* A height that is skipped has a plan that no binary has a handler of.
SkipsFit(f, c, s) ==
  \A k \in s : /\ k - 1 \in 1 .. Len(c)
               /\ \A p \in Due(f[k - 1]) : p.name # UpgradeName

Follows(f) ==
  /\ IsHistory(f, chain)
  /\ node = [n \in Procs |-> node[n]]
  /\ \A n \in Procs : NodeFits(node[n], f, chain, skips)
  /\ SkipsFit(f, chain, skips)

UpgradeInv == chain \in Seq(Messages) /\ \E f : Follows(f)
-----------------------------------------------------------------------------
\* The constants.
LEMMA Binaries ==
  /\ Old # New_
  /\ UpgradeName \in PlanNames
  /\ Handlers[Old] = {} /\ Handlers[New_] = {UpgradeName}
  /\ \A b \in {Old, New_} : /\ Versions[b] \in [Modules -> Nat]
                            /\ \A m \in Modules : Versions[b][m] \in Nat /\ Versions[b][m] > 0
  /\ \A m \in Modules : Versions[Old][m] <= Versions[New_][m]
  /\ MaxHeight \in Nat
<1>1. Versions \in [{Old, New_} -> [Modules -> Nat \ {0}]]
  BY UpgradeAssumption
<1>2. \A b \in {Old, New_} : Versions[b] \in [Modules -> Nat \ {0}]
  BY <1>1
<1>3. ASSUME NEW b \in {Old, New_}
      PROVE  /\ Versions[b] \in [Modules -> Nat]
             /\ \A m \in Modules : Versions[b][m] \in Nat /\ Versions[b][m] > 0
  BY <1>2
<1>4. \E name \in PlanNames : Handlers[New_] = {name}
  BY UpgradeAssumption
<1>5. UpgradeName \in PlanNames /\ Handlers[New_] = {UpgradeName}
  BY <1>4 DEF UpgradeName
<1>. QED
  BY <1>3, <1>5, UpgradeAssumption

\* The versions a module migrates to are a sequence.
LEMMA MigratedType == \A m \in Modules : Migrated(m) \in Seq(Nat)
<1>. SUFFICES ASSUME NEW m \in Modules PROVE Migrated(m) \in Seq(Nat)
  OBVIOUS
<1>. DEFINE d == Versions[New_][m] - Versions[Old][m]
<1>1. d \in Nat /\ Versions[Old][m] \in Nat
  BY Binaries
<1>2. Migrated(m) \in [1 .. d -> Nat]
  BY <1>1 DEF Migrated
<1>. QED
  BY <1>1, <1>2, SeqDef

-----------------------------------------------------------------------------
\* Genesis.
LEMMA EmptyType == Empty \in States /\ Empty.height = 0 /\ Empty.done = <<>> /\ Empty.plan = {}
  BY DEF Empty, States

LEMMA GenesisFits ==
  /\ StateFits(InitChainer(Old)) /\ InitChainer(Old).height = 0
  /\ InitChainer(Old).done = <<>> /\ InitChainer(Old).plan = {}
<1>. DEFINE v == InitVersionMap([m \in Modules |-> Versions[Old][m]], Old)
            i == [m \in Modules |-> 1]
            w == [m \in Modules |-> <<>>]
            s == InitChainer(Old)
<1>1. v = Versions[Old]
  BY Binaries DEF InitVersionMap
<1>2. s = [Empty EXCEPT !.vm = v, !.inits = i, !.ranOn = Old]
  BY DEF InitChainer
<1>. HIDE DEF v, i
<1>3. s = [height |-> 0, vm |-> v, plan |-> {}, done |-> <<>>, inits |-> i,
           moved |-> w, ranOn |-> Old]
  BY <1>2 DEF Empty
<1>. HIDE DEF s
<1>4. s.height = 0 /\ s.done = <<>> /\ s.plan = {} /\ s.ranOn = Old /\ s.vm = v
      /\ s.inits = i /\ s.moved = w
  BY <1>3
<1>5. i \in [Modules -> Nat] /\ w \in [Modules -> Seq(Nat)] /\ v \in [Modules -> Nat]
  BY <1>1, Binaries DEF i
<1>6. s \in States
  BY <1>3, <1>5 DEF States
<1>7. \A m \in Modules : s.inits[m] = 1 /\ s.moved[m] = <<>>
  BY <1>4 DEF i
<1>8. StateFits(s)
  BY <1>1, <1>4, <1>6, <1>7 DEF StateFits, WorkFits, CodeOf
<1>. QED
  BY <1>4, <1>8 DEF s

-----------------------------------------------------------------------------
\* A block.

\* Applying the upgrade migrates every module from the old version to the new.
LEMMA AppliedFits ==
  ASSUME NEW s, WorkFits(s), s.done = <<>>
  PROVE  /\ WorkFits(Applied(s)) /\ Applied(s).height = s.height
         /\ Applied(s).done = <<UpgradeName>>
<1>. DEFINE i == [m \in Modules |-> IF s.vm[m] = 0 THEN s.inits[m] + 1 ELSE s.inits[m]]
            w == [m \in Modules |->
                    IF s.vm[m] = 0 THEN s.moved[m]
                    ELSE s.moved[m] \o [j \in 1 .. Versions[New_][m] - s.vm[m] |-> s.vm[m] + j]]
            t == [height |-> s.height, vm |-> Versions[New_], plan |-> {},
                  done |-> Append(s.done, UpgradeName),
                  inits |-> i, moved |-> w, ranOn |-> s.ranOn]
<1>1. s = [height |-> s.height, vm |-> s.vm, plan |-> s.plan, done |-> s.done,
           inits |-> s.inits, moved |-> s.moved, ranOn |-> s.ranOn]
  BY DEF WorkFits, States
<1>2. RunMigrations(s, New_) = [s EXCEPT !.vm = Versions[New_], !.inits = i, !.moved = w]
  BY DEF RunMigrations
<1>. HIDE DEF i, w
<1>3. RunMigrations(s, New_) =
        [height |-> s.height, vm |-> Versions[New_], plan |-> s.plan, done |-> s.done,
         inits |-> i, moved |-> w, ranOn |-> s.ranOn]
  BY <1>1, <1>2
<1>. DEFINE r == RunMigrations(s, New_)
<1>. HIDE DEF r
<1>4. Applied(s) = t
  <2>1. Applied(s) = [r EXCEPT !.plan = {}, !.done = Append(r.done, UpgradeName)]
    BY DEF Applied, r
  <2>2. r.done = s.done
    BY <1>3 DEF r
  <2>3. r = [height |-> s.height, vm |-> Versions[New_], plan |-> s.plan, done |-> s.done,
             inits |-> i, moved |-> w, ranOn |-> s.ranOn]
    BY <1>3 DEF r
  <2>. QED
    BY <2>1, <2>2, <2>3
<1>5. ASSUME NEW m \in Modules
      PROVE  i[m] = 1 /\ w[m] = Migrated(m)
  <2>1. s.vm[m] = Versions[Old][m] /\ s.vm[m] # 0 /\ s.inits[m] = 1 /\ s.moved[m] = <<>>
    BY Binaries DEF WorkFits, CodeOf
  <2>2. w[m] = <<>> \o Migrated(m)
    BY <2>1 DEF w, Migrated
  <2>. QED
    BY <2>1, <2>2, MigratedType, ConcatEmptySeq DEF i
<1>6. i \in [Modules -> Nat] /\ w \in [Modules -> Seq(Nat)]
  <2>1. \A m \in Modules : i[m] \in Nat /\ w[m] \in Seq(Nat)
    BY <1>5, MigratedType
  <2>2. i = [m \in Modules |-> i[m]] /\ w = [m \in Modules |-> w[m]]
    BY DEF i, w
  <2>. QED
    BY <2>1, <2>2
<1>7. Append(s.done, UpgradeName) = <<UpgradeName>> /\ <<UpgradeName>> \in Seq(PlanNames)
  BY Binaries
<1>8. t \in States
  BY <1>6, <1>7, Binaries DEF WorkFits, States
<1>. QED
  <2>1. t.height = s.height /\ t.vm = Versions[New_] /\ t.plan = {} /\ t.inits = i /\ t.moved = w
        /\ t.done = <<UpgradeName>>
    BY <1>7
  <2>. HIDE DEF t
  <2>2. CodeOf(t) = New_ /\ t.done # <<>>
    BY <2>1 DEF CodeOf
  <2>3. WorkFits(t)
    BY <1>5, <1>8, <2>1, <2>2 DEF WorkFits
  <2>. QED
    BY <1>4, <2>1, <2>3

\* So is a plan that is made or dropped, unless it is for the upgrade done.
Planned(s, x) == [s EXCEPT !.plan = x]

LEMMA PlannedFits ==
  ASSUME NEW s, WorkFits(s), NEW x, x = {} \/ \E p \in Plans : x = {p},
         \A p \in x : p.name = UpgradeName => s.done = <<>>
  PROVE  /\ WorkFits(Planned(s, x)) /\ Planned(s, x).height = s.height
         /\ Planned(s, x).done = s.done
<1>. DEFINE t == Planned(s, x)
<1>1. x \in SUBSET Plans
  OBVIOUS
<1>2. t \in States /\ t.plan = x /\ t.done = s.done /\ t.vm = s.vm /\ t.inits = s.inits
      /\ t.moved = s.moved /\ t.height = s.height
  BY <1>1 DEF WorkFits, States, Planned
<1>. HIDE DEF t
<1>3. CodeOf(t) = CodeOf(s)
  BY <1>2 DEF CodeOf
<1>4. WorkFits(t)
  BY <1>2, <1>3 DEF WorkFits
<1>. QED
  BY <1>2, <1>4 DEF t

LEMMA PreparedFits ==
  ASSUME NEW s, WorkFits(s)
  PROVE  /\ WorkFits(Prepared(s)) /\ Prepared(s).height = s.height
         /\ s.done # <<>> => Prepared(s).done # <<>>
<1>1. CASE Due(s) = {}
  BY <1>1 DEF Prepared
<1>2. CASE Due(s) # {} /\ \E p \in Due(s) : p.name = UpgradeName
  <2>1. s.done = <<>>
    BY <1>2 DEF WorkFits, Due
  <2>. QED
    BY <1>2, <2>1, AppliedFits DEF Prepared
<1>3. CASE Due(s) # {} /\ ~\E p \in Due(s) : p.name = UpgradeName
  <2>1. Prepared(s) = Planned(s, {})
    BY <1>3 DEF Prepared, Planned
  <2>. QED
    BY <2>1, PlannedFits
<1>. QED
  BY <1>1, <1>2, <1>3

LEMMA HandleMsgFits ==
  ASSUME NEW s, WorkFits(s), NEW msg \in Messages
  PROVE  /\ WorkFits(HandleMsg(s, msg)) /\ HandleMsg(s, msg).height = s.height
         /\ HandleMsg(s, msg).done = s.done
<1>1. CASE msg = NoMsg
  BY <1>1 DEF HandleMsg, NoMsg
<1>2. CASE msg = CancelMsg
  <2>1. HandleMsg(s, msg) = Planned(s, {})
    BY <1>2 DEF HandleMsg, CancelMsg, Planned
  <2>. QED
    BY <2>1, PlannedFits
<1>3. ASSUME NEW plan \in Plans, msg = Schedule(plan)
      PROVE  /\ WorkFits(HandleMsg(s, msg)) /\ HandleMsg(s, msg).height = s.height
             /\ HandleMsg(s, msg).done = s.done
  <2>1. msg.kind = "schedule" /\ msg.plan = plan
    BY <1>3 DEF Schedule
  <2>2. CASE plan.height < s.height + 1 \/ plan.name \in Range(s.done)
    BY <2>1, <2>2 DEF HandleMsg
  <2>3. CASE ~(plan.height < s.height + 1 \/ plan.name \in Range(s.done))
    <3>1. HandleMsg(s, msg) = Planned(s, {plan})
      BY <2>1, <2>3 DEF HandleMsg, Planned
    <3>2. s.done = <<UpgradeName>> => UpgradeName \in Range(s.done)
      BY DEF Range
    <3>3. plan.name = UpgradeName => s.done = <<>>
      BY <2>3, <3>2 DEF WorkFits
    <3>. QED
      BY <3>1, <3>3, PlannedFits
  <2>. QED
    BY <2>2, <2>3
<1>. QED
  BY <1>1, <1>2, <1>3 DEF Messages

\* The next state of the history is as it should be, and an upgrade stays done.
LEMMA DecidedFits ==
  ASSUME NEW s, WorkFits(s), NEW msg \in Messages
  PROVE  /\ StateFits(Decided(s, msg)) /\ Decided(s, msg).height = s.height + 1
         /\ s.done # <<>> => Decided(s, msg).done # <<>>
<1>. DEFINE u == HandleMsg(Prepared(s), msg)
            t == [u EXCEPT !.height = s.height + 1, !.ranOn = CodeOf(u)]
<1>1. WorkFits(u) /\ (s.done # <<>> => u.done # <<>>)
  <2>1. WorkFits(Prepared(s)) /\ (s.done # <<>> => Prepared(s).done # <<>>)
    BY PreparedFits
  <2>. HIDE DEF u
  <2>2. WorkFits(u) /\ u.done = Prepared(s).done
    BY <2>1, HandleMsgFits DEF u
  <2>. QED
    BY <2>1, <2>2
<1>2. Decided(s, msg) = t
  BY DEF Decided, Finished
<1>3. s.height \in Nat
  BY DEF WorkFits, States
<1>. HIDE DEF u
<1>4. CodeOf(u) \in {Old, New_}
  BY DEF CodeOf
<1>5. t \in States /\ t.height = s.height + 1 /\ t.ranOn = CodeOf(u) /\ t.plan = u.plan
      /\ t.done = u.done /\ t.vm = u.vm /\ t.inits = u.inits /\ t.moved = u.moved
  <2>. DEFINE c == CodeOf(u)
  <2>1. u \in States
    BY <1>1 DEF WorkFits
  <2>. HIDE DEF c
  <2>2. t = [u EXCEPT !.height = s.height + 1, !.ranOn = c]
    BY DEF c
  <2>3. c \in {Old, New_}
    BY <1>4 DEF c
  <2>. HIDE DEF t
  <2>4. u = [height |-> u.height, vm |-> u.vm, plan |-> u.plan, done |-> u.done,
             inits |-> u.inits, moved |-> u.moved, ranOn |-> u.ranOn]
    BY <2>1 DEF States
  <2>5. t = [height |-> s.height + 1, vm |-> u.vm, plan |-> u.plan, done |-> u.done,
             inits |-> u.inits, moved |-> u.moved, ranOn |-> c]
    BY <2>2, <2>4
  <2>6. t \in States /\ t.height = s.height + 1 /\ t.ranOn = c /\ t.plan = u.plan
        /\ t.done = u.done /\ t.vm = u.vm /\ t.inits = u.inits /\ t.moved = u.moved
    BY <2>1, <2>3, <2>5, <1>3 DEF States
  <2>. QED
    BY <2>6 DEF c
<1>6. CodeOf(t) = CodeOf(u)
  BY <1>5 DEF CodeOf
<1>. HIDE DEF t
<1>7. WorkFits(t)
  BY <1>1, <1>5, <1>6 DEF WorkFits
<1>. QED
  BY <1>1, <1>2, <1>5, <1>6, <1>7 DEF StateFits

\* What a process that may run a state has to be like: the old code was found
\* to be right before the upgrade only, the new one is not too early, and only
\* plans that no binary has a handler of are skipped.
MayRun(s, p) ==
  /\ p.bin \in {Old, New_}
  /\ p.verified /\ p.bin = Old => s.done = <<>>
  /\ p.bin = New_ => s.done # <<>> \/ \E q \in s.plan : q.name = UpgradeName
  /\ Skipped(s, p) => \A q \in Due(s) : q.name # UpgradeName

\* A preblocker that does not stop it makes the block the history's.
LEMMA PreBlockerPrepares ==
  ASSUME NEW s, WorkFits(s), NEW p, MayRun(s, p), ~PreBlockerStops(s, p)
  PROVE  PreBlocker(s, p) = Prepared(s) /\ p.bin = CodeOf(Prepared(s))
<1>1. ~WrongBinary(s, p) /\ ~UpgradeNeeded(s, p) /\ ~TooEarly(s, p)
  BY DEF PreBlockerStops, preBlockers
<1>2. s.done \in {<<>>, <<UpgradeName>>}
      /\ (s.plan = {} \/ \E q \in Plans : s.plan = {q})
      /\ (\A q \in s.plan : q.name = UpgradeName => s.done = <<>>)
  BY DEF WorkFits
<1>3. Due(s) \subseteq s.plan
  BY DEF Due
<1>4. CASE p.bin = Old
  <2>1. RegisterUpgradeHandlers(p.bin) = {}
    BY <1>4, Binaries DEF RegisterUpgradeHandlers
  <2>2. Due(s) = {} \/ Skipped(s, p)
    BY <1>1, <2>1 DEF UpgradeNeeded
  <2>3. s.done = <<>>
    <3>1. s.done # <<>> => LastDone(s) # {}
      BY DEF LastDone
    <3>. QED
      BY <1>1, <1>4, <2>1, <2>2, <3>1 DEF WrongBinary, MayRun
  <2>4. CASE Due(s) = {}
    BY <1>4, <2>3, <2>4 DEF PreBlocker, Prepared, CodeOf
  <2>5. CASE Due(s) # {}
    <3>1. Skipped(s, p) /\ ~\E q \in Due(s) : q.name = UpgradeName
      BY <2>2, <2>5 DEF MayRun
    <3>2. PreBlocker(s, p) = Planned(s, {})
      BY <2>5, <3>1 DEF PreBlocker, preBlockers, Planned
    <3>3. Prepared(s) = Planned(s, {})
      BY <2>5, <3>1 DEF Prepared, Planned
    <3>4. Planned(s, {}).done = <<>>
      BY <2>3, PlannedFits
    <3>. QED
      BY <1>4, <3>2, <3>3, <3>4 DEF CodeOf
  <2>. QED
    BY <2>4, <2>5
<1>5. CASE p.bin = New_
  <2>1. RegisterUpgradeHandlers(p.bin) = {UpgradeName}
    BY <1>5, Binaries DEF RegisterUpgradeHandlers
  <2>2. CASE s.done # <<>>
    <3>1. ~\E q \in Due(s) : q.name = UpgradeName
      BY <1>2, <1>3, <2>2
    <3>2. CASE Due(s) = {}
      BY <1>5, <2>2, <3>2 DEF PreBlocker, Prepared, CodeOf
    <3>3. CASE Due(s) # {}
      <4>1. Skipped(s, p)
        BY <1>1, <2>1, <3>1, <3>3 DEF UpgradeNeeded
      <4>2. PreBlocker(s, p) = Planned(s, {})
        BY <3>3, <4>1 DEF PreBlocker, preBlockers, Planned
      <4>3. Prepared(s) = Planned(s, {})
        BY <3>1, <3>3 DEF Prepared, Planned
      <4>4. Planned(s, {}).done # <<>>
        BY <2>2, PlannedFits
      <4>. QED
        BY <1>5, <4>2, <4>3, <4>4 DEF CodeOf
    <3>. QED
      BY <3>2, <3>3
  <2>3. CASE s.done = <<>>
    <3>1. PICK q \in s.plan : q.name = UpgradeName
      BY <1>5, <2>3, Binaries DEF MayRun
    <3>2. q \in Due(s)
      BY <1>1, <2>1, <3>1 DEF TooEarly
    <3>3. Due(s) = {q}
      BY <1>2, <1>3, <3>2
    <3>4. ~Skipped(s, p)
      BY <3>1, <3>2 DEF MayRun
    <3>5. PreBlocker(s, p) = ApplyUpgrade(s, q, New_)
      <4>1. (CHOOSE plan \in Due(s) : TRUE) = q
        BY <3>3
      <4>2. PreBlocker(s, p) = ApplyUpgrade(s, CHOOSE plan \in Due(s) : TRUE, p.bin)
        BY <3>2, <3>4 DEF PreBlocker, preBlockers
      <4>. QED
        BY <1>5, <4>1, <4>2
    <3>6. Prepared(s) = Applied(s)
      BY <3>1, <3>2 DEF Prepared
    <3>7. ApplyUpgrade(s, q, New_) = Applied(s)
      BY <3>1 DEF ApplyUpgrade, Applied
    <3>8. Applied(s).done = <<UpgradeName>>
      BY <2>3, AppliedFits
    <3>. QED
      BY <1>5, <3>5, <3>6, <3>7, <3>8 DEF CodeOf
  <2>. QED
    BY <2>2, <2>3
<1>. QED
  BY <1>4, <1>5 DEF MayRun

LEMMA ExecuteIsDecided ==
  ASSUME NEW s, WorkFits(s), NEW p, MayRun(s, p), ~PreBlockerStops(s, p), NEW msg \in Messages
  PROVE  ExecuteBlock(s, p, msg) = Decided(s, msg) /\ p.bin = CodeOf(Decided(s, msg))
<1>. DEFINE u == HandleMsg(Prepared(s), msg)
<1>1. PreBlocker(s, p) = Prepared(s) /\ p.bin = CodeOf(Prepared(s))
  BY PreBlockerPrepares
<1>2. WorkFits(Prepared(s))
  BY PreparedFits
<1>3. u.done = Prepared(s).done
  BY <1>2, HandleMsgFits
<1>4. p.bin = CodeOf(u)
  BY <1>1, <1>3 DEF CodeOf
<1>5. ExecuteBlock(s, p, msg) = [u EXCEPT !.height = s.height + 1, !.ranOn = p.bin]
  BY <1>1 DEF ExecuteBlock
<1>6. Decided(s, msg) = [u EXCEPT !.height = s.height + 1, !.ranOn = CodeOf(u)]
  BY DEF Decided, Finished
<1>7. StateFits(Decided(s, msg)) /\ WorkFits(u)
  BY <1>2, DecidedFits, HandleMsgFits
<1>8. Decided(s, msg).ranOn = CodeOf(u)
  <2>. DEFINE c == CodeOf(u)
  <2>1. u \in States
    BY <1>7 DEF WorkFits
  <2>. HIDE DEF c, u
  <2>2. Decided(s, msg) = [u EXCEPT !.height = s.height + 1, !.ranOn = c]
    BY <1>6 DEF c
  <2>3. Decided(s, msg).ranOn = c
    BY <2>1, <2>2 DEF States
  <2>. QED
    BY <2>3 DEF c
<1>. QED
  BY <1>4, <1>5, <1>6, <1>7, <1>8 DEF StateFits

-----------------------------------------------------------------------------
\* The history.

\* The state a block is executed on is as it should be.
LEMMA FromFits ==
  ASSUME NEW f, NEW c \in Seq(Messages), IsHistory(f, c), NEW k \in 0 .. Len(c)
  PROVE  /\ StateFits(From(f[k])) /\ From(f[k]).height = k
         /\ From(f[k]).done = f[k].done /\ From(f[k]).plan = f[k].plan
         /\ f[k] \in States /\ f[k].height = k
<1>1. CASE k = 0
  <2>1. f[k] = Empty
    BY <1>1 DEF IsHistory
  <2>2. From(f[k]) = InitChainer(Old)
    BY <2>1, EmptyType DEF From
  <2>. QED
    BY <1>1, <2>1, <2>2, EmptyType, GenesisFits
<1>2. CASE k # 0
  <2>1. k \in 1 .. Len(c)
    BY <1>2
  <2>2. StateFits(f[k]) /\ f[k].height = k
    BY <2>1 DEF IsHistory
  <2>3. From(f[k]) = f[k]
    BY <1>2, <2>2 DEF From
  <2>. QED
    BY <2>2, <2>3 DEF StateFits, WorkFits
<1>. QED
  BY <1>1, <1>2

\* A decided block adds a state to it and changes none.
Extended(f, c, msg) ==
  [k \in 0 .. Len(c) + 1 |-> IF k \in 0 .. Len(c) THEN f[k] ELSE Decided(From(f[Len(c)]), msg)]

LEMMA HistoryExtends ==
  ASSUME NEW f, NEW c \in Seq(Messages), IsHistory(f, c), NEW msg \in Messages
  PROVE  /\ IsHistory(Extended(f, c, msg), Append(c, msg))
         /\ \A k \in 0 .. Len(c) : Extended(f, c, msg)[k] = f[k]
<1>. DEFINE g == Extended(f, c, msg)
            d == Append(c, msg)
            s == Decided(From(f[Len(c)]), msg)
<1>1. Len(c) \in Nat /\ Len(d) = Len(c) + 1 /\ d[Len(c) + 1] = msg
      /\ \A k \in 1 .. Len(c) : d[k] = c[k]
  OBVIOUS
<1>2. StateFits(s) /\ s.height = Len(c) + 1
  <2>1. Len(c) \in 0 .. Len(c)
    BY <1>1
  <2>2. WorkFits(From(f[Len(c)])) /\ From(f[Len(c)]).height = Len(c)
    BY <2>1, FromFits DEF StateFits
  <2>. QED
    BY <2>2, DecidedFits
<1>. HIDE DEF d
<1>3. DOMAIN g = 0 .. Len(d) /\ (\A k \in 0 .. Len(c) : g[k] = f[k]) /\ g[Len(c) + 1] = s
  BY <1>1 DEF Extended
<1>4. g = [k \in 0 .. Len(d) |-> g[k]]
  BY <1>1 DEF Extended
<1>. HIDE DEF g, s
<1>5. s \in States
  BY <1>2 DEF StateFits, WorkFits
<1>6. g \in [0 .. Len(d) -> States]
  <2>1. \A k \in 0 .. Len(c) : g[k] \in States
    BY <1>3 DEF IsHistory
  <2>2. \A k \in 0 .. Len(d) : k \in 0 .. Len(c) \/ k = Len(c) + 1
    BY <1>1
  <2>3. \A k \in 0 .. Len(d) : g[k] \in States
    BY <2>1, <2>2, <1>3, <1>5
  <2>. QED
    BY <1>4, <2>3
<1>7. g[0] = Empty
  BY <1>1, <1>3 DEF IsHistory
<1>8. ASSUME NEW k \in 1 .. Len(d)
      PROVE  g[k] = Decided(From(g[k - 1]), d[k]) /\ StateFits(g[k]) /\ g[k].height = k
  <2>1. CASE k \in 1 .. Len(c)
    <3>1. g[k] = f[k] /\ g[k - 1] = f[k - 1] /\ d[k] = c[k]
      BY <1>1, <1>3, <2>1
    <3>. QED
      BY <2>1, <3>1 DEF IsHistory
  <2>2. CASE k = Len(c) + 1
    <3>1. g[k] = s /\ g[k - 1] = f[Len(c)] /\ d[k] = msg
      BY <1>1, <1>3, <2>2
    <3>2. g[k] = Decided(From(g[k - 1]), d[k])
      BY <3>1 DEF s
    <3>. QED
      BY <1>2, <2>2, <3>1, <3>2
  <2>. QED
    BY <1>1, <2>1, <2>2
<1>. QED
  BY <1>3, <1>6, <1>7, <1>8 DEF IsHistory, g, d

-----------------------------------------------------------------------------
\* The nodes.

LEMMA NodeExtends ==
  ASSUME NEW f, NEW c \in Seq(Messages), IsHistory(f, c), NEW msg \in Messages,
         NEW r, NEW s, NodeFits(r, f, c, s)
  PROVE  NodeFits(r, Extended(f, c, msg), Append(c, msg), s)
<1>. DEFINE g == Extended(f, c, msg)
            d == Append(c, msg)
<1>1. Len(d) = Len(c) + 1 /\ Len(c) \in Nat
  OBVIOUS
<1>2. \A k \in 0 .. Len(c) : g[k] = f[k]
  BY HistoryExtends
<1>3. r.disk.height \in 0 .. Len(d) /\ r.disk = g[r.disk.height]
  BY <1>1, <1>2 DEF NodeFits
<1>. QED
  BY <1>3 DEF NodeFits

LEMMA SkipsExtend ==
  ASSUME NEW f, NEW c \in Seq(Messages), IsHistory(f, c), NEW msg \in Messages,
         NEW s, SkipsFit(f, c, s)
  PROVE  SkipsFit(Extended(f, c, msg), Append(c, msg), s)
<1>. DEFINE g == Extended(f, c, msg)
            d == Append(c, msg)
<1>1. Len(d) = Len(c) + 1 /\ Len(c) \in Nat
  OBVIOUS
<1>2. \A k \in 0 .. Len(c) : g[k] = f[k]
  BY HistoryExtends
<1>3. ASSUME NEW k \in s
      PROVE  k - 1 \in 1 .. Len(d) /\ \A p \in Due(g[k - 1]) : p.name # UpgradeName
  <2>1. k - 1 \in 1 .. Len(c) /\ \A p \in Due(f[k - 1]) : p.name # UpgradeName
    BY DEF SkipsFit
  <2>2. g[k - 1] = f[k - 1] /\ k - 1 \in 1 .. Len(d)
    BY <1>1, <1>2, <2>1
  <2>. QED
    BY <2>1, <2>2
<1>. QED
  BY <1>3 DEF SkipsFit

\* What a node that fits is like, and what of it may change freely.
LEMMA NodeParts ==
  ASSUME NEW r, NEW f, NEW c, NEW s, NodeFits(r, f, c, s)
  PROVE  r = [bin |-> r.bin, disk |-> r.disk, up |-> r.up, verified |-> r.verified,
              halted |-> r.halted, skip |-> r.skip]
  BY DEF NodeFits

LEMMA NodeRestarts ==
  ASSUME NEW r, NEW f, NEW c, NEW s, NodeFits(r, f, c, s),
         NEW u, NEW h \in BOOLEAN, NEW k \in SUBSET s
  PROVE  NodeFits([bin |-> r.bin, disk |-> r.disk, up |-> u, verified |-> FALSE,
                   halted |-> h, skip |-> k], f, c, s)
  BY DEF NodeFits

\* One node changes and still fits.
LEMMA OneNode ==
  ASSUME NEW f, Follows(f), NEW n \in Procs, NEW r, NodeFits(r, f, chain, skips),
         node' = [node EXCEPT ![n] = r], UNCHANGED <<chain, skips>>
  PROVE  Follows(f)'
<1>1. node' = [q \in Procs |-> IF q = n THEN r ELSE node[q]]
  BY DEF Follows
<1>2. \A q \in Procs : node'[q] = IF q = n THEN r ELSE node[q]
  BY <1>1
<1>3. node' = [q \in Procs |-> node'[q]]
  BY <1>1, <1>2
<1>4. \A q \in Procs : NodeFits(node[q], f, chain, skips)
  BY DEF Follows
<1>5. \A q \in Procs : NodeFits(node'[q], f, chain, skips)
  BY <1>2, <1>4
<1>6. chain' = chain /\ skips' = skips
  OBVIOUS
<1>. QED
  BY <1>3, <1>5, <1>6 DEF Follows

-----------------------------------------------------------------------------
\* The steps.

LEMMA InitFits == Init => UpgradeInv
<1>. SUFFICES ASSUME Init PROVE UpgradeInv
  OBVIOUS
<1>. DEFINE f == [k \in 0 .. 0 |-> Empty]
            r == [bin |-> GenesisBinary, disk |-> Empty, up |-> "down",
                  verified |-> FALSE, halted |-> FALSE, skip |-> {}]
<1>1. chain = <<>> /\ skips = {} /\ node = [n \in Procs |-> r]
  BY DEF Init
<1>2. IsHistory(f, <<>>)
  <2>1. Len(<<>>) = 0
    OBVIOUS
  <2>2. f \in [0 .. 0 -> States] /\ f[0] = Empty
    BY EmptyType
  <2>3. 1 .. 0 = {}
    OBVIOUS
  <2>. QED
    BY <2>1, <2>2, <2>3 DEF IsHistory
<1>3. f[0] = Empty
  OBVIOUS
<1>. HIDE DEF f
<1>4. NodeFits(r, f, <<>>, {})
  <2>1. r.disk.height = 0 /\ r.disk = f[0] /\ r.bin = Old /\ ~r.verified
    BY <1>3, EmptyType DEF GenesisBinary
  <2>2. r \in [bin : {Old, New_}, disk : States, up : {r.up}, verified : BOOLEAN,
               halted : BOOLEAN, skip : SUBSET {}]
    BY EmptyType DEF GenesisBinary
  <2>3. Old # New_ /\ 0 \in 0 .. Len(<<>>)
    BY Binaries
  <2>. HIDE DEF r
  <2>. QED
    BY <2>1, <2>2, <2>3 DEF NodeFits
<1>. HIDE DEF r
<1>5. \A n \in Procs : node[n] = r
  BY <1>1
<1>6. node = [n \in Procs |-> node[n]]
  BY <1>1, <1>5
<1>7. SkipsFit(f, <<>>, {})
  BY DEF SkipsFit
<1>8. Follows(f)
  BY <1>1, <1>2, <1>4, <1>5, <1>6, <1>7 DEF Follows
<1>. QED
  BY <1>1, <1>8 DEF UpgradeInv

LEMMA DecideKeeps == UpgradeInv /\ Decide => UpgradeInv'
<1>. SUFFICES ASSUME UpgradeInv, Decide PROVE UpgradeInv'
  OBVIOUS
<1>1. chain \in Seq(Messages) /\ node' = node /\ skips' = skips
  BY DEF UpgradeInv, Decide
<1>2. PICK f : Follows(f)
  BY DEF UpgradeInv
<1>3. PICK msg \in Messages : chain' = Append(chain, msg)
  BY DEF Decide, Messages
<1>. PICK g : g = Extended(f, chain, msg)
  OBVIOUS
<1>4. IsHistory(f, chain) /\ SkipsFit(f, chain, skips) /\ node = [n \in Procs |-> node[n]]
      /\ \A n \in Procs : NodeFits(node[n], f, chain, skips)
  BY <1>2 DEF Follows
<1>5. IsHistory(g, chain')
  BY <1>1, <1>3, <1>4, HistoryExtends
<1>6. \A n \in Procs : NodeFits(node[n], g, chain', skips)
  BY <1>1, <1>3, <1>4, NodeExtends
<1>7. SkipsFit(g, chain', skips)
  BY <1>1, <1>3, <1>4, SkipsExtend
<1>8. Follows(g)'
  BY <1>1, <1>4, <1>5, <1>6, <1>7 DEF Follows
<1>. QED
  BY <1>1, <1>3, <1>8 DEF UpgradeInv

\* A start, and an export that is no more than one.
LEMMA StartKeeps == \A n \in Procs, fault \in Faults : UpgradeInv /\ Start(n, fault) => UpgradeInv'
<1>. SUFFICES ASSUME UpgradeInv, NEW n \in Procs, NEW fault \in Faults, Start(n, fault)
              PROVE  UpgradeInv'
  OBVIOUS
<1>. DEFINE u == Left(Builds("start", fault))
            r == [bin |-> node[n].bin, disk |-> node[n].disk, up |-> u, verified |-> FALSE,
                  halted |-> node[n].halted, skip |-> skips]
<1>1. chain \in Seq(Messages) /\ chain' = chain /\ skips' = skips
  BY DEF UpgradeInv, Start
<1>2. PICK f : Follows(f)
  BY DEF UpgradeInv
<1>3. node' = [node EXCEPT ![n].up = u, ![n].verified = FALSE, ![n].skip = skips]
  BY DEF Start
<1>. HIDE DEF u
<1>4. NodeFits(node[n], f, chain, skips) /\ node = [q \in Procs |-> node[q]]
  BY <1>2 DEF Follows
<1>5. node[n].halted \in BOOLEAN
  BY <1>4 DEF NodeFits
<1>6. NodeFits(r, f, chain, skips)
  BY <1>4, <1>5, NodeRestarts
<1>7. node' = [node EXCEPT ![n] = r]
  <2>. DEFINE n1 == [node EXCEPT ![n].up = u]
              n2 == [n1 EXCEPT ![n].verified = FALSE]
              n3 == [n2 EXCEPT ![n].skip = skips]
  <2>1. node' = n3
    BY <1>3
  <2>2. node[n] = [bin |-> node[n].bin, disk |-> node[n].disk, up |-> node[n].up,
                   verified |-> node[n].verified, halted |-> node[n].halted, skip |-> node[n].skip]
    BY <1>4, NodeParts
  <2>3. n1 = [q \in Procs |-> IF q = n THEN [node[n] EXCEPT !.up = u] ELSE node[q]]
    BY <1>4
  <2>. HIDE DEF n1
  <2>4. n2 = [q \in Procs |-> IF q = n THEN [n1[n] EXCEPT !.verified = FALSE] ELSE n1[q]]
    BY <2>3
  <2>. HIDE DEF n2
  <2>5. n3 = [q \in Procs |-> IF q = n THEN [n2[n] EXCEPT !.skip = skips] ELSE n2[q]]
    BY <2>4
  <2>. HIDE DEF n3
  <2>6. n3[n] = r
    BY <2>2, <2>3, <2>4, <2>5
  <2>7. \A q \in Procs : q # n => n3[q] = node[q]
    BY <2>3, <2>4, <2>5
  <2>8. n3 = [q \in Procs |-> n3[q]]
    BY <2>5
  <2>. HIDE DEF r
  <2>. QED
    BY <1>4, <2>1, <2>6, <2>7, <2>8
<1>. HIDE DEF r
<1>8. Follows(f)'
  BY <1>1, <1>2, <1>6, <1>7, OneNode
<1>. QED
  BY <1>1, <1>8 DEF UpgradeInv

LEMMA ExportKeeps ==
  \A n \in Procs, cmd \in {"export", "exportAt"}, fault \in Faults :
    UpgradeInv /\ appExport(n, cmd, fault) => UpgradeInv'
<1>. SUFFICES ASSUME UpgradeInv, NEW n \in Procs, NEW cmd \in {"export", "exportAt"},
                     NEW fault \in Faults, appExport(n, cmd, fault)
              PROVE  UpgradeInv'
  OBVIOUS
<1>. DEFINE left == Left(Builds(cmd, fault))
            u == IF left = "ready" THEN "down" ELSE left
            r == [bin |-> node[n].bin, disk |-> node[n].disk, up |-> u,
                  verified |-> node[n].verified, halted |-> node[n].halted,
                  skip |-> node[n].skip]
<1>1. chain \in Seq(Messages) /\ chain' = chain /\ skips' = skips
  BY DEF UpgradeInv, appExport
<1>2. PICK f : Follows(f)
  BY DEF UpgradeInv
<1>3. node' = [node EXCEPT ![n].up = u]
  BY DEF appExport
<1>. HIDE DEF u
<1>4. NodeFits(node[n], f, chain, skips) /\ node = [q \in Procs |-> node[q]]
  BY <1>2 DEF Follows
<1>5. NodeFits(r, f, chain, skips)
  <2>1. ~node[n].verified
    BY <1>4 DEF NodeFits, appExport, Up
  <2>. QED
    BY <1>4, <2>1 DEF NodeFits
<1>6. node' = [node EXCEPT ![n] = r]
  <2>. DEFINE n1 == [node EXCEPT ![n].up = u]
  <2>1. node' = n1
    BY <1>3
  <2>2. node[n] = [bin |-> node[n].bin, disk |-> node[n].disk, up |-> node[n].up,
                     verified |-> node[n].verified, halted |-> node[n].halted, skip |-> node[n].skip]
    BY <1>4, NodeParts
  <2>3. n1 = [q \in Procs |-> IF q = n THEN [node[n] EXCEPT !.up = u] ELSE node[q]]
    BY <1>4
  <2>. HIDE DEF n1
  <2>4. n1[n] = r
    BY <2>2, <2>3
  <2>5. \A q \in Procs : q # n => n1[q] = node[q]
    BY <2>3
  <2>6. n1 = [q \in Procs |-> n1[q]]
    BY <2>3
  <2>. HIDE DEF r
  <2>. QED
    BY <1>4, <2>1, <2>4, <2>5, <2>6
<1>. HIDE DEF r
<1>7. Follows(f)'
  BY <1>1, <1>2, <1>5, <1>6, OneNode
<1>. QED
  BY <1>1, <1>7 DEF UpgradeInv

\* A process that ends, in time or at the preblocker's.
LEMMA ExitKeeps == \A n \in Procs : UpgradeInv /\ Exit(n) => UpgradeInv'
<1>. SUFFICES ASSUME UpgradeInv, NEW n \in Procs, Exit(n)
              PROVE  UpgradeInv'
  OBVIOUS
<1>. DEFINE r == [bin |-> node[n].bin, disk |-> node[n].disk, up |-> "down", verified |-> FALSE,
                  halted |-> node[n].halted, skip |-> node[n].skip]
<1>1. chain \in Seq(Messages) /\ chain' = chain /\ skips' = skips
  BY DEF UpgradeInv, Exit
<1>2. PICK f : Follows(f)
  BY DEF UpgradeInv
<1>3. node' = [node EXCEPT ![n].up = "down", ![n].verified = FALSE]
  BY DEF Exit
<1>4. NodeFits(node[n], f, chain, skips) /\ node = [q \in Procs |-> node[q]]
  BY <1>2 DEF Follows
<1>5. node[n].halted \in BOOLEAN /\ node[n].skip \in SUBSET skips
  BY <1>4 DEF NodeFits
<1>6. NodeFits(r, f, chain, skips)
  BY <1>4, <1>5, NodeRestarts
<1>7. node' = [node EXCEPT ![n] = r]
  <2>. DEFINE n1 == [node EXCEPT ![n].up = "down"]
                n2 == [n1 EXCEPT ![n].verified = FALSE]
  <2>1. node' = n2
    BY <1>3
  <2>2. node[n] = [bin |-> node[n].bin, disk |-> node[n].disk, up |-> node[n].up,
                     verified |-> node[n].verified, halted |-> node[n].halted, skip |-> node[n].skip]
    BY <1>4, NodeParts
  <2>3. n1 = [q \in Procs |-> IF q = n THEN [node[n] EXCEPT !.up = "down"] ELSE node[q]]
    BY <1>4
  <2>. HIDE DEF n1
  <2>4. n2 = [q \in Procs |-> IF q = n THEN [n1[n] EXCEPT !.verified = FALSE] ELSE n1[q]]
    BY <2>3
  <2>. HIDE DEF n2
  <2>5. n2[n] = r
    BY <2>2, <2>3, <2>4
  <2>6. \A q \in Procs : q # n => n2[q] = node[q]
    BY <2>3, <2>4
  <2>7. n2 = [q \in Procs |-> n2[q]]
    BY <2>4
  <2>. HIDE DEF r
  <2>. QED
    BY <1>4, <2>1, <2>5, <2>6, <2>7
<1>. HIDE DEF r
<1>8. Follows(f)'
  BY <1>1, <1>2, <1>6, <1>7, OneNode
<1>. QED
  BY <1>1, <1>8 DEF UpgradeInv

LEMMA HaltKeeps == \A n \in Procs : UpgradeInv /\ Halt(n) => UpgradeInv'
<1>. SUFFICES ASSUME UpgradeInv, NEW n \in Procs, Halt(n)
              PROVE  UpgradeInv'
  OBVIOUS
<1>. DEFINE r == [bin |-> node[n].bin, disk |-> node[n].disk, up |-> "down", verified |-> FALSE,
                  halted |-> TRUE, skip |-> node[n].skip]
<1>1. chain \in Seq(Messages) /\ chain' = chain /\ skips' = skips
  BY DEF UpgradeInv, Halt
<1>2. PICK f : Follows(f)
  BY DEF UpgradeInv
<1>3. node' = [node EXCEPT ![n].up = "down", ![n].halted = TRUE, ![n].verified = FALSE]
  BY DEF Halt
<1>4. NodeFits(node[n], f, chain, skips) /\ node = [q \in Procs |-> node[q]]
  BY <1>2 DEF Follows
<1>5. node[n].skip \in SUBSET skips
  BY <1>4 DEF NodeFits
<1>6. NodeFits(r, f, chain, skips)
  BY <1>4, <1>5, NodeRestarts
<1>7. node' = [node EXCEPT ![n] = r]
  <2>. DEFINE n1 == [node EXCEPT ![n].up = "down"]
                n2 == [n1 EXCEPT ![n].halted = TRUE]
                n3 == [n2 EXCEPT ![n].verified = FALSE]
  <2>1. node' = n3
    BY <1>3
  <2>2. node[n] = [bin |-> node[n].bin, disk |-> node[n].disk, up |-> node[n].up,
                     verified |-> node[n].verified, halted |-> node[n].halted, skip |-> node[n].skip]
    BY <1>4, NodeParts
  <2>3. n1 = [q \in Procs |-> IF q = n THEN [node[n] EXCEPT !.up = "down"] ELSE node[q]]
    BY <1>4
  <2>. HIDE DEF n1
  <2>4. n2 = [q \in Procs |-> IF q = n THEN [n1[n] EXCEPT !.halted = TRUE] ELSE n1[q]]
    BY <2>3
  <2>. HIDE DEF n2
  <2>5. n3 = [q \in Procs |-> IF q = n THEN [n2[n] EXCEPT !.verified = FALSE] ELSE n2[q]]
    BY <2>4
  <2>. HIDE DEF n3
  <2>6. n3[n] = r
    BY <2>2, <2>3, <2>4, <2>5
  <2>7. \A q \in Procs : q # n => n3[q] = node[q]
    BY <2>3, <2>4, <2>5
  <2>8. n3 = [q \in Procs |-> n3[q]]
    BY <2>5
  <2>. HIDE DEF r
  <2>. QED
    BY <1>4, <2>1, <2>6, <2>7, <2>8
<1>. HIDE DEF r
<1>8. Follows(f)'
  BY <1>1, <1>2, <1>6, <1>7, OneNode
<1>. QED
  BY <1>1, <1>8 DEF UpgradeInv

\* The old code may be put back at any time; it is found to be wrong at the
\* next block.
LEMMA ChangeBinaryKeeps ==
  \A n \in Procs, b \in {Old, New_} : UpgradeInv /\ ChangeBinary(n, b) => UpgradeInv'
<1>. SUFFICES ASSUME UpgradeInv, NEW n \in Procs, NEW b \in {Old, New_}, ChangeBinary(n, b)
              PROVE  UpgradeInv'
  OBVIOUS
<1>. DEFINE r == [bin |-> b, disk |-> node[n].disk, up |-> node[n].up,
                  verified |-> node[n].verified, halted |-> node[n].halted,
                  skip |-> node[n].skip]
<1>1. chain \in Seq(Messages) /\ chain' = chain /\ skips' = skips
  BY DEF UpgradeInv, ChangeBinary
<1>2. PICK f : Follows(f)
  BY DEF UpgradeInv
<1>3. node' = [node EXCEPT ![n].bin = b]
  BY DEF ChangeBinary
<1>4. NodeFits(node[n], f, chain, skips) /\ node = [q \in Procs |-> node[q]]
  BY <1>2 DEF Follows
<1>5. b = New_ => node[n].disk.done # <<>> \/ \E p \in node[n].disk.plan : p.name = UpgradeName
  <2>1. b = New_ => \/ UpgradeName \in Range(node[n].disk.done)
                    \/ \E p \in node[n].disk.plan : p.name = UpgradeName
    BY Binaries DEF ChangeBinary
  <2>2. Range(<<>>) = {}
    BY DEF Range
  <2>. QED
    BY <2>1, <2>2
<1>6. NodeFits(r, f, chain, skips)
  <2>1. ~node[n].verified
    BY <1>4 DEF NodeFits, ChangeBinary, Up
  <2>. QED
    BY <1>4, <1>5, <2>1 DEF NodeFits
<1>7. node' = [node EXCEPT ![n] = r]
  <2>. DEFINE n1 == [node EXCEPT ![n].bin = b]
  <2>1. node' = n1
    BY <1>3
  <2>2. node[n] = [bin |-> node[n].bin, disk |-> node[n].disk, up |-> node[n].up,
                     verified |-> node[n].verified, halted |-> node[n].halted, skip |-> node[n].skip]
    BY <1>4, NodeParts
  <2>3. n1 = [q \in Procs |-> IF q = n THEN [node[n] EXCEPT !.bin = b] ELSE node[q]]
    BY <1>4
  <2>. HIDE DEF n1
  <2>4. n1[n] = r
    BY <2>2, <2>3
  <2>5. \A q \in Procs : q # n => n1[q] = node[q]
    BY <2>3
  <2>6. n1 = [q \in Procs |-> n1[q]]
    BY <2>3
  <2>. HIDE DEF r
  <2>. QED
    BY <1>4, <2>1, <2>4, <2>5, <2>6
<1>. HIDE DEF r
<1>8. Follows(f)'
  BY <1>1, <1>2, <1>6, <1>7, OneNode
<1>. QED
  BY <1>1, <1>8 DEF UpgradeInv

\* What a node may run its next block on is the history's, and its process is
\* one that may run it.
LEMMA NodeMayRun ==
  ASSUME UpgradeInv, NEW f, Follows(f), NEW n \in Procs, Up(n)
  PROVE  LET h == node[n].disk.height IN
         /\ h \in 0 .. Len(chain) /\ StateOf(n) = From(f[h])
         /\ WorkFits(StateOf(n)) /\ StateOf(n).height = h
         /\ MayRun(StateOf(n), Process(n))
<1>. DEFINE h == node[n].disk.height
            p == Process(n)
            s == StateOf(n)
<1>1. chain \in Seq(Messages) /\ IsHistory(f, chain) /\ SkipsFit(f, chain, skips)
      /\ NodeFits(node[n], f, chain, skips)
  BY DEF UpgradeInv, Follows
<1>2. h \in 0 .. Len(chain) /\ node[n].disk = f[h]
  BY <1>1 DEF NodeFits
<1>3. StateFits(From(f[h])) /\ From(f[h]).height = h /\ From(f[h]).done = f[h].done
      /\ From(f[h]).plan = f[h].plan
  BY <1>1, <1>2, FromFits
<1>4. p.bin = node[n].bin /\ p.verified = node[n].verified /\ p.skip = node[n].skip
  BY DEF Process
<1>. HIDE DEF p
<1>5. node[n].bin = New_ => s.done # <<>> \/ \E q \in s.plan : q.name = UpgradeName
  <2>1. node[n].bin = New_ => f[h].done # <<>> \/ \E q \in f[h].plan : q.name = UpgradeName
    BY <1>1, <1>2 DEF NodeFits
  <2>2. f[0].done = <<>> /\ f[0].plan = {}
    BY <1>1, EmptyType DEF IsHistory
  <2>3. CASE h = 0
    BY <2>1, <2>2, <2>3
  <2>4. CASE h # 0
    <3>1. s = f[h]
      BY <1>2, <2>4 DEF StateOf
    <3>. QED
      BY <2>1, <3>1
  <2>. QED
    BY <2>3, <2>4
<1>6. s = From(f[h])
  <2>1. h = 0 => node[n].bin = Old
    <3>1. f[0].done = <<>> /\ f[0].plan = {}
      BY <1>1, EmptyType DEF IsHistory
    <3>. QED
      BY <1>1, <1>2, <3>1 DEF NodeFits
  <2>2. CASE h = 0
    BY <1>2, <2>1, <2>2 DEF StateOf, From
  <2>3. CASE h # 0
    BY <1>2, <2>3 DEF StateOf, From
  <2>. QED
    BY <2>2, <2>3
<1>. HIDE DEF s
<1>7. p.bin \in {Old, New_} /\ (p.verified /\ p.bin = Old => s.done = <<>>)
  BY <1>1, <1>2, <1>3, <1>4, <1>6 DEF NodeFits
<1>8. Skipped(s, p) => \A q \in Due(s) : q.name # UpgradeName
  <2>. SUFFICES ASSUME Skipped(s, p) PROVE \A q \in Due(s) : q.name # UpgradeName
    OBVIOUS
  <2>1. h + 1 \in skips
    BY <1>1, <1>3, <1>4, <1>6 DEF Skipped, NodeFits
  <2>2. (h + 1) - 1 \in 1 .. Len(chain) /\ \A q \in Due(f[(h + 1) - 1]) : q.name # UpgradeName
    BY <1>1, <2>1 DEF SkipsFit
  <2>3. (h + 1) - 1 = h
    BY <1>2
  <2>4. h # 0 /\ \A q \in Due(f[h]) : q.name # UpgradeName
    BY <2>2, <2>3
  <2>5. f[h].height = h
    BY <1>1, <1>2, FromFits
  <2>6. From(f[h]) = f[h]
    BY <2>4, <2>5 DEF From
  <2>. QED
    BY <1>6, <2>4, <2>6
<1>9. MayRun(s, p)
  BY <1>4, <1>5, <1>7, <1>8 DEF MayRun
<1>10. WorkFits(s) /\ s.height = h
  BY <1>3, <1>6 DEF StateFits
<1>. QED
  BY <1>2, <1>6, <1>9, <1>10 DEF s, p

LEMMA RunBlockKeeps == \A n \in Procs : UpgradeInv /\ RunBlock(n) => UpgradeInv'
<1>. SUFFICES ASSUME UpgradeInv, NEW n \in Procs, RunBlock(n)
              PROVE  UpgradeInv'
  OBVIOUS
<1>. DEFINE h == node[n].disk.height
            d == ExecuteBlock(StateOf(n), Process(n), chain[h + 1])
            r == [bin |-> node[n].bin, disk |-> d, up |-> node[n].up, verified |-> TRUE,
                  halted |-> FALSE, skip |-> node[n].skip]
<1>1. chain \in Seq(Messages) /\ chain' = chain /\ skips' = skips
  BY DEF UpgradeInv, RunBlock
<1>2. PICK f : Follows(f)
  BY DEF UpgradeInv
<1>3. node' = [node EXCEPT ![n].disk = d, ![n].verified = TRUE, ![n].halted = FALSE]
  BY DEF RunBlock
<1>4. NodeFits(node[n], f, chain, skips) /\ node = [q \in Procs |-> node[q]] /\ IsHistory(f, chain)
  BY <1>2 DEF Follows
<1>5. h \in 0 .. Len(chain) /\ StateOf(n) = From(f[h]) /\ WorkFits(StateOf(n))
      /\ MayRun(StateOf(n), Process(n))
  BY <1>2, NodeMayRun DEF RunBlock, Ready
<1>6. h < Len(chain) /\ ~PreBlockerStops(StateOf(n), Process(n)) /\ Up(n)
  BY DEF RunBlock, Ready
<1>7. h + 1 \in 1 .. Len(chain) /\ chain[h + 1] \in Messages /\ (h + 1) - 1 = h
  BY <1>1, <1>5, <1>6
<1>8. d = Decided(From(f[h]), chain[h + 1]) /\ Process(n).bin = CodeOf(d)
  <2>1. ExecuteBlock(StateOf(n), Process(n), chain[h + 1]) = Decided(StateOf(n), chain[h + 1])
        /\ Process(n).bin = CodeOf(Decided(StateOf(n), chain[h + 1]))
    BY <1>5, <1>6, <1>7, ExecuteIsDecided
  <2>. QED
    BY <1>5, <2>1
<1>9. d = f[h + 1] /\ d.height = h + 1 /\ StateFits(d)
  <2>1. f[h + 1] = Decided(From(f[(h + 1) - 1]), chain[h + 1]) /\ StateFits(f[h + 1])
        /\ f[h + 1].height = h + 1
    BY <1>4, <1>7 DEF IsHistory
  <2>. QED
    BY <1>7, <1>8, <2>1
<1>10. node[n].bin = CodeOf(d) /\ node[n].up = "ready"
  BY <1>6, <1>8 DEF Process, Up
<1>. HIDE DEF d
<1>11. NodeFits(r, f, chain, skips)
  <2>1. d \in States
    BY <1>9 DEF StateFits, WorkFits
  <2>2. d.height \in 0 .. Len(chain) /\ d = f[d.height]
    BY <1>7, <1>9
  <2>3. node[n].bin = Old => d.done = <<>>
    BY <1>10, Binaries DEF CodeOf
  <2>4. node[n].bin = New_ => d.done # <<>>
    BY <1>10, Binaries DEF CodeOf
  <2>5. /\ r.bin = node[n].bin /\ r.disk = d /\ r.up = "ready"
        /\ node[n].bin \in {Old, New_} /\ node[n].skip \in SUBSET skips
    BY <1>4, <1>10 DEF NodeFits
  <2>6. r \in [bin : {Old, New_}, disk : States, up : {r.up}, verified : BOOLEAN,
              halted : BOOLEAN, skip : SUBSET skips]
    BY <1>10, <2>1, <2>5
  <2>. HIDE DEF r
  <2>7. /\ r.disk.height \in 0 .. Len(chain) /\ r.disk = f[r.disk.height]
        /\ r.bin = Old => r.disk.done = <<>>
        /\ r.bin = New_ => r.disk.done # <<>>
    BY <2>2, <2>3, <2>4, <2>5
  <2>8. r.up = "ready"
    BY <2>5
  <2>. QED
    BY <2>6, <2>7, <2>8, Zenon DEF NodeFits
<1>12. node' = [node EXCEPT ![n] = r]
  <2>. DEFINE n1 == [node EXCEPT ![n].disk = d]
                n2 == [n1 EXCEPT ![n].verified = TRUE]
                n3 == [n2 EXCEPT ![n].halted = FALSE]
  <2>1. node' = n3
    BY <1>3
  <2>2. node[n] = [bin |-> node[n].bin, disk |-> node[n].disk, up |-> node[n].up,
                     verified |-> node[n].verified, halted |-> node[n].halted, skip |-> node[n].skip]
    BY <1>4, NodeParts
  <2>3. n1 = [q \in Procs |-> IF q = n THEN [node[n] EXCEPT !.disk = d] ELSE node[q]]
    BY <1>4
  <2>. HIDE DEF n1
  <2>4. n2 = [q \in Procs |-> IF q = n THEN [n1[n] EXCEPT !.verified = TRUE] ELSE n1[q]]
    BY <2>3
  <2>. HIDE DEF n2
  <2>5. n3 = [q \in Procs |-> IF q = n THEN [n2[n] EXCEPT !.halted = FALSE] ELSE n2[q]]
    BY <2>4
  <2>. HIDE DEF n3
  <2>6. n3[n] = r
    BY <2>2, <2>3, <2>4, <2>5
  <2>7. \A q \in Procs : q # n => n3[q] = node[q]
    BY <2>3, <2>4, <2>5
  <2>8. n3 = [q \in Procs |-> n3[q]]
    BY <2>5
  <2>. HIDE DEF r
  <2>. QED
    BY <1>4, <2>1, <2>6, <2>7, <2>8
<1>. HIDE DEF r
<1>13. Follows(f)'
  BY <1>1, <1>2, <1>11, <1>12, OneNode
<1>. QED
  BY <1>1, <1>13 DEF UpgradeInv

\* A plan is alone in the state, so a height that is skipped has no other.
LEMMA AgreeToSkipKeeps == UpgradeInv /\ AgreeToSkip => UpgradeInv'
<1>. SUFFICES ASSUME UpgradeInv, AgreeToSkip PROVE UpgradeInv'
  OBVIOUS
<1>1. chain \in Seq(Messages) /\ chain' = chain /\ node' = node
  BY DEF UpgradeInv, AgreeToSkip
<1>2. PICK f : Follows(f)
  BY DEF UpgradeInv
<1>3. PICK n \in Procs : /\ \E p \in Due(StateOf(n)) : p.name \notin Handlers[Old] \cup Handlers[New_]
                         /\ skips' = skips \cup {node[n].disk.height + 1}
  BY DEF AgreeToSkip
<1>4. PICK h : h = node[n].disk.height
  OBVIOUS
<1>5. IsHistory(f, chain) /\ SkipsFit(f, chain, skips) /\ node = [q \in Procs |-> node[q]]
      /\ \A q \in Procs : NodeFits(node[q], f, chain, skips)
  BY <1>2 DEF Follows
<1>6. h \in 0 .. Len(chain) /\ node[n].disk = f[h]
  BY <1>4, <1>5 DEF NodeFits
<1>7. StateFits(From(f[h])) /\ f[h].height = h
  BY <1>1, <1>5, <1>6, FromFits
<1>8. PICK p \in Due(StateOf(n)) : p.name # UpgradeName
  BY <1>3, Binaries
<1>9. h # 0
  <2>. SUFFICES ASSUME h = 0 PROVE FALSE
    OBVIOUS
  <2>1. f[0].done = <<>> /\ f[0].plan = {}
    BY <1>5, EmptyType DEF IsHistory
  <2>2. node[n].bin = Old
    <3>1. NodeFits(node[n], f, chain, skips)
      BY <1>5
    <3>. QED
      BY <1>6, <2>1, <3>1 DEF NodeFits
  <2>3. StateOf(n).plan = {}
    BY <1>4, <2>2, GenesisFits DEF StateOf
  <2>. QED
    BY <1>8, <2>3 DEF Due
<1>10. StateOf(n) = f[h] /\ From(f[h]) = f[h]
  BY <1>4, <1>6, <1>7, <1>9 DEF StateOf, From
<1>11. \A q \in Due(f[h]) : q.name # UpgradeName
  <2>1. Due(f[h]) \subseteq f[h].plan
    BY DEF Due
  <2>2. f[h].plan = {} \/ \E q \in Plans : f[h].plan = {q}
    BY <1>7, <1>10 DEF StateFits, WorkFits
  <2>. QED
    BY <1>8, <1>10, <2>1, <2>2
<1>12. SkipsFit(f, chain, skips')
  <2>1. (h + 1) - 1 = h /\ h \in 1 .. Len(chain)
    BY <1>6, <1>9
  <2>. QED
    BY <1>3, <1>4, <1>5, <1>11, <2>1 DEF SkipsFit
<1>13. \A q \in Procs : NodeFits(node[q], f, chain, skips')
  <2>1. skips \subseteq skips'
    BY <1>3
  <2>. QED
    BY <1>5, <2>1 DEF NodeFits
<1>14. Follows(f)'
  BY <1>1, <1>5, <1>12, <1>13 DEF Follows
<1>. QED
  BY <1>1, <1>14 DEF UpgradeInv

LEMMA NextKeeps == UpgradeInv /\ [Next]_vars => UpgradeInv'
<1>. SUFFICES ASSUME UpgradeInv, [Next]_vars PROVE UpgradeInv'
  OBVIOUS
<1>1. CASE \E n \in Procs, fault \in Faults : Start(n, fault)
  BY <1>1, StartKeeps
<1>2. CASE \E n \in Procs, cmd \in {"export", "exportAt"}, fault \in Faults : appExport(n, cmd, fault)
  BY <1>2, ExportKeeps
<1>3. CASE \E n \in Procs : Exit(n)
  BY <1>3, ExitKeeps
<1>4. CASE Decide
  BY <1>4, DecideKeeps
<1>5. CASE \E n \in Procs : RunBlock(n) \/ Halt(n)
  BY <1>5, RunBlockKeeps, HaltKeeps
<1>6. CASE \E n \in Procs, b \in {Old, New_} : ChangeBinary(n, b)
  BY <1>6, ChangeBinaryKeeps
<1>7. CASE AgreeToSkip
  BY <1>7, AgreeToSkipKeeps
<1>8. CASE UNCHANGED vars
  BY <1>8 DEF vars, UpgradeInv, Follows
<1>. QED
  BY <1>1, <1>2, <1>3, <1>4, <1>5, <1>6, <1>7, <1>8 DEF Next

-----------------------------------------------------------------------------
\* The theorems.

\* Every node's disk is a state of the one history that the decided blocks
\* determine (preblocker, init chainer and upgrade handler together).
THEOREM OneHistory == Spec => []UpgradeInv
<1>1. Init => UpgradeInv
  BY InitFits
<1>2. UpgradeInv /\ [Next]_vars => UpgradeInv'
  BY NextKeeps
<1>. QED
  BY <1>1, <1>2, PTL DEF Spec

\* The state of a node after a block is as it should be.
LEMMA DiskFits ==
  ASSUME UpgradeInv, NEW n \in Procs, node[n].disk.height > 0
  PROVE  StateFits(node[n].disk)
<1>1. PICK f : Follows(f)
  BY DEF UpgradeInv
<1>2. NodeFits(node[n], f, chain, skips) /\ IsHistory(f, chain)
  BY <1>1 DEF Follows
<1>3. node[n].disk.height \in 1 .. Len(chain) /\ node[n].disk = f[node[n].disk.height]
  BY <1>2 DEF NodeFits
<1>. QED
  BY <1>2, <1>3 DEF IsHistory

LEMMA InvMigrated == UpgradeInv => MigratedOnce
<1>. SUFFICES ASSUME UpgradeInv, NEW n \in Procs, NEW m \in Modules, NEW s,
                     s = node[n].disk, s.height > 0
              PROVE  /\ s.moved[m] = [i \in 1 .. Len(s.moved[m]) |-> Versions[Old][m] + i]
                     /\ s.vm[m] = Versions[Old][m] + Len(s.moved[m])
                     /\ s.inits[m] = 1
  BY DEF MigratedOnce, GenesisBinary
<1>1. WorkFits(s)
  BY DiskFits DEF StateFits
<1>2. s.inits[m] = 1 /\ s.vm = Versions[CodeOf(s)]
      /\ s.moved[m] = IF s.done = <<>> THEN <<>> ELSE Migrated(m)
  BY <1>1 DEF WorkFits
<1>. DEFINE d == Versions[New_][m] - Versions[Old][m]
<1>3. d \in Nat /\ Versions[Old][m] \in Nat /\ Versions[New_][m] = Versions[Old][m] + d
  BY Binaries
<1>4. CASE s.done = <<>>
  <2>1. s.moved[m] = <<>> /\ s.vm[m] = Versions[Old][m]
    BY <1>2, <1>4 DEF CodeOf
  <2>2. Len(<<>>) = 0 /\ <<>> = [i \in 1 .. 0 |-> Versions[Old][m] + i]
    OBVIOUS
  <2>. QED
    BY <1>2, <1>3, <2>1, <2>2
<1>5. CASE s.done # <<>>
  <2>1. s.moved[m] = Migrated(m) /\ s.vm[m] = Versions[New_][m]
    BY <1>2, <1>5 DEF CodeOf
  <2>2. Migrated(m) = [i \in 1 .. d |-> Versions[Old][m] + i]
    BY DEF Migrated
  <2>. HIDE DEF d
  <2>3. Len(Migrated(m)) = d
    <3>1. DOMAIN Migrated(m) = 1 .. d
      BY <2>2
    <3>. QED
      BY <1>3, <3>1, MigratedType, LenProperties
  <2>. QED
    BY <1>2, <1>3, <2>1, <2>2, <2>3
<1>. QED
  BY <1>4, <1>5

LEMMA InvRightCode == UpgradeInv => BlocksOnRightCode
<1>. SUFFICES ASSUME UpgradeInv PROVE BlocksOnRightCode
  OBVIOUS
<1>1. PICK f : Follows(f)
  BY DEF UpgradeInv
<1>2. \A n \in Procs : node[n].disk = f[node[n].disk.height]
  BY <1>1 DEF Follows, NodeFits
<1>3. NodesAgree
  BY <1>2 DEF NodesAgree
<1>4. CodeMatchesState
  BY DiskFits DEF CodeMatchesState, StateFits, WorkFits
<1>. QED
  BY <1>3, <1>4 DEF BlocksOnRightCode

LEMMA InvNoDeadEnd == UpgradeInv => NoDeadEnd
<1>. SUFFICES ASSUME UpgradeInv, NEW n \in Procs, NEW s, s = node[n].disk, s.height > 0
              PROVE  \E b \in {Old, New_}, skip \in {{}, {s.height + 1}} :
                       ~PreBlockerStops(s, [bin |-> b, verified |-> FALSE, skip |-> skip])
  BY DEF NoDeadEnd
<1>. DEFINE p(b, k) == [bin |-> b, verified |-> FALSE, skip |-> k]
<1>1. s.done \in {<<>>, <<UpgradeName>>}
      /\ (s.plan = {} \/ \E q \in Plans : s.plan = {q})
      /\ (\A q \in s.plan : q.name = UpgradeName => s.done = <<>>)
      /\ Due(s) \subseteq s.plan
  BY DiskFits DEF StateFits, WorkFits, Due
<1>2. s.done = <<>> => LastDone(s) = {}
  BY DEF LastDone
<1>3. s.done # <<>> => LastDone(s) = {UpgradeName}
  <2>1. s.done = <<UpgradeName>> => Last(s.done) = UpgradeName
    BY DEF Last
  <2>. QED
    BY <1>1, <2>1 DEF LastDone
<1>4. Handlers[Old] = {} /\ Handlers[New_] = {UpgradeName}
  BY Binaries
\* Nothing is due: the code of the state goes on.
<1>5. CASE s.done = <<>> /\ Due(s) = {}
  <2>1. ~PreBlockerStops(s, p(Old, {}))
    BY <1>2, <1>4, <1>5
    DEF PreBlockerStops, WrongBinary, UpgradeNeeded, TooEarly, RegisterUpgradeHandlers
  <2>. QED
    BY <2>1
\* The upgrade is due: the new code applies it.
<1>6. CASE s.done = <<>> /\ \E q \in Due(s) : q.name = UpgradeName
  <2>1. s.plan = Due(s) /\ \A q \in Due(s) : q.name = UpgradeName
    BY <1>1, <1>6
  <2>2. ~PreBlockerStops(s, p(New_, {}))
    BY <1>2, <1>4, <1>6, <2>1
    DEF PreBlockerStops, WrongBinary, UpgradeNeeded, TooEarly, RegisterUpgradeHandlers
  <2>. QED
    BY <2>2
\* Another plan is due: the code of the state skips it.
<1>7. CASE s.done = <<>> /\ Due(s) # {} /\ ~\E q \in Due(s) : q.name = UpgradeName
  <2>1. Skipped(s, p(Old, {s.height + 1}))
    BY DEF Skipped
  <2>2. ~PreBlockerStops(s, p(Old, {s.height + 1}))
    BY <1>2, <1>4, <1>7, <2>1
    DEF PreBlockerStops, WrongBinary, UpgradeNeeded, TooEarly, RegisterUpgradeHandlers
  <2>. QED
    BY <2>2
<1>8. CASE s.done # <<>> /\ Due(s) = {}
  <2>1. ~PreBlockerStops(s, p(New_, {}))
    BY <1>1, <1>3, <1>4, <1>8
    DEF PreBlockerStops, WrongBinary, UpgradeNeeded, TooEarly, RegisterUpgradeHandlers
  <2>. QED
    BY <2>1
<1>9. CASE s.done # <<>> /\ Due(s) # {}
  <2>1. Skipped(s, p(New_, {s.height + 1}))
    BY DEF Skipped
  <2>2. ~PreBlockerStops(s, p(New_, {s.height + 1}))
    BY <1>1, <1>3, <1>4, <1>9, <2>1
    DEF PreBlockerStops, WrongBinary, UpgradeNeeded, TooEarly, RegisterUpgradeHandlers
  <2>. QED
    BY <2>2
<1>. QED
  BY <1>5, <1>6, <1>7, <1>8, <1>9

\* Every migration runs once and in order, for any versions of the modules that
\* do not decrease, and no module is initialised twice (the init chainer's
\* SetModuleVersionMap and the handler's RunMigrations).
THEOREM MigrationsOnce == Spec => []MigratedOnce
<1>1. UpgradeInv => MigratedOnce
  BY InvMigrated
<1>. QED
  BY <1>1, OneHistory, PTL

\* Nodes at the same height have the same state and ran its block on the code
\* the state was migrated to, whenever their operators change binaries (the
\* upgrade module's preblocker of app_config.go).
THEOREM RightCode == Spec => []BlocksOnRightCode
<1>1. UpgradeInv => BlocksOnRightCode
  BY InvRightCode
<1>. QED
  BY <1>1, OneHistory, PTL

\* Some binary can run the next block of every state, if need be with its plan
\* skipped (RegisterUpgradeHandlers sets one handler).
THEOREM NeverStuck == Spec => []NoDeadEnd
<1>1. UpgradeInv => NoDeadEnd
  BY InvNoDeadEnd
<1>. QED
  BY <1>1, OneHistory, PTL

=============================================================================
