--------------------------- MODULE ZeroHeightExport ---------------------------
(***************************************************************************)
(* ExportAppStateAndValidators and prepForZeroHeightGenesis (app/export.go) *)
(* over the records of x/distribution and x/staking they rewrite.          *)
(*                                                                         *)
(* One process, one call: phase is its program counter and todo the rest   *)
(* of the loop it is in.  Nothing is undone when a later step fails, and   *)
(* the result is what is read back at the end.  The keepers are external   *)
(* and modelled from what export.go calls.                                 *)
(*                                                                         *)
(* Rewards are amounts of one coin in fractions, Unit of them to a coin:   *)
(* what is paid out is whole coins, the rest stays in the records.         *)
(***************************************************************************)
EXTENDS Integers, FiniteSetsExt

CONSTANTS
  Validators,     \* operator addresses, as numbers in the order of their bytes
  Delegations,
  To,             \* the validator of each delegation
  Entries,        \* entries of unbonding delegations and of redelegations
  MaxValidators,  \* staking parameter
  Height,         \* the last committed height
  Unit,           \* fractions of a coin
  Tokens,         \* values of a validator's tokens
  Commissions, Currents, Rewards, Dusts,  \* amounts the export may meet
  AllowLists,     \* values of --jail-allowed-addrs; the empty one is no list
  Malformed,      \* an address that does not parse
  Periods         \* bound: last reward period of a validator before the export

ASSUME ExportAssumption ==
  /\ Validators \subseteq Nat /\ IsFiniteSet(Validators)
  /\ IsFiniteSet(Delegations) /\ Delegations \cap Validators = {}
  /\ To \in [Delegations -> Validators]
  /\ Validators # {} /\ Delegations # {}
  /\ AllowLists \subseteq SUBSET (Validators \cup {Malformed})
  /\ MaxValidators \in Nat \ {0} /\ Height \in Nat \ {0} /\ Unit \in Nat \ {0}
  /\ Tokens \subseteq Nat /\ Commissions \subseteq Nat /\ Currents \subseteq Nat
  /\ Rewards \subseteq Nat /\ Dusts \subseteq Nat /\ Periods \in Nat \ {0}

VARIABLES
  phase,     \* where the call is; "failed" is a panic or a log.Fatal
  todo,      \* what the loop of this phase has not visited
  allowed,   \* jailAllowedAddrs; empty is no list
  zero,      \* forZeroHeight
  residue,   \* does the fixedmint module account hold coins
  dist,      \* distribution: rewards of each validator and their periods
  info,      \* distribution: starting info of each delegation
  pool,      \* distribution: the community pool
  escrow,    \* bank: what the distribution module account holds
  owed,      \* what the rewards calculation yields for each delegation, and
             \*   the commission of each validator
  paid,      \* history: what each delegation and validator was paid
  val,       \* staking: the validators
  index,     \* staking: the validators in the power index
  last,      \* staking: the validators of the last validator set
  created,   \* staking: creation height of each entry
  signing    \* slashing: start height of each signing info

distVars    == <<dist, info, pool, escrow, owed, paid>>
stakingVars == <<val, index, last, created>>
inputVars   == <<allowed, zero, residue>>
vars == <<phase, todo, inputVars, distVars, stakingVars, signing>>

-----------------------------------------------------------------------------
(* x/distribution, as the export calls it.                                 *)

AllPeriods == 0 .. Periods + Cardinality(Delegations)
Of(v)      == {d \in Delegations : To[d] = v}
Whole(x)   == (x \div Unit) * Unit

Remainder(x) == x - Whole(x)

\* What refers to the historical rewards of a period: starting infos, slash
\* events, and the current period to the one before it.
References(slashes, period, v, p) ==
  Cardinality({d \in Of(v) : info[d].period = p})
    + (IF p \in slashes THEN 1 ELSE 0) + (IF p = period - 1 THEN 1 ELSE 0)

\* IncrementValidatorPeriod.  The keeper panics on a reference that is not
\* there: a negative count stands for it.  Rewards nobody can share, as the
\* validator has no tokens, go to the community pool.
Unshared(r, v) == IF val[v].tokens = 0 THEN r.current ELSE 0

IncrementPeriod(r, v) ==
  [r EXCEPT !.outstanding = @ - Unshared(r, v), !.current = 0,
            !.hist[r.period - 1] = @ - 1, !.hist[r.period] = 1,
            !.period = @ + 1]

Refer(r, p, n) == [r EXCEPT !.hist[p] = @ + n]

\* initializeDelegation at the height of the context.
StartingInfo(r, height) == [period |-> r.period - 1, height |-> height]

\* AfterValidatorCreated.
Created(r) ==
  [r EXCEPT !.outstanding = 0, !.commission = 0, !.current = 0,
            !.hist[0] = 1, !.period = 1]

-----------------------------------------------------------------------------
(* x/staking, as the export calls it.                                      *)

Before(vals, v, w) ==
  \/ vals[v].tokens > vals[w].tokens
  \/ vals[v].tokens = vals[w].tokens /\ v < w

\* What the iteration of the power index i reaches in MaxValidators steps; it
\* stops at a validator without power.
Reached(vals, i) ==
  {v \in i :
     /\ Cardinality({w \in i : Before(vals, w, v)}) < MaxValidators
     /\ \A w \in i : Before(vals, w, v) => vals[w].tokens > 0}
WithPower(vals, i) == {v \in Reached(vals, i) : vals[v].tokens > 0}

-----------------------------------------------------------------------------
\* The state of a chain at the end of a block.  A validator that has begun to
\* unbond keeps the height of it, bonded again or not.
InitStaking ==
  \E past \in [Validators -> [tokens : Tokens, jailed : BOOLEAN, unbonding : BOOLEAN]] :
    /\ index = {v \in Validators : ~past[v].jailed}
    /\ last = WithPower(past, index)
    /\ val = [v \in Validators |->
         [tokens |-> past[v].tokens, jailed |-> past[v].jailed,
          status |-> CASE v \in last -> "bonded"
                       [] v \notin last /\ past[v].unbonding -> "unbonding"
                       [] OTHER -> "unbonded",
          unbondingHeight |-> IF v \in last /\ ~past[v].unbonding
                                THEN 0 ELSE Height]]
    /\ created = [e \in Entries |-> Height]
    /\ signing = [v \in Validators |-> Height]

Outstanding == SumFunction([v \in Validators |-> dist[v].outstanding])

\* Periods that no starting info of v names.
Unused(v) == (1 .. Periods) \ {info[d].period : d \in Of(v)}

InitDistribution ==
  /\ owed \in {o \in [Delegations \cup Validators -> Rewards \cup Commissions] :
                /\ \A d \in Delegations : o[d] \in Rewards
                /\ \A v \in Validators : o[v] \in Commissions}
  /\ info \in [Delegations -> [period : 1 .. Periods, height : {Height}]]
  /\ \A d, e \in Delegations : d # e /\ To[d] = To[e] => info[d].period # info[e].period
  /\ \E current \in [Validators -> Currents], dust \in [Validators -> Dusts],
        slashed \in SUBSET {v \in Validators : Unused(v) # {}} :
       dist = [v \in Validators |->
         LET slashes == IF v \in slashed THEN Unused(v) ELSE {}
         IN  [outstanding |-> current[v] + dust[v]
                                + SumFunctionOnSet(owed, Of(v) \cup {v}),
              commission |-> owed[v], current |-> current[v],
              slashes |-> slashes, period |-> Periods + 1,
              hist |-> [p \in AllPeriods |->
                         References(slashes, Periods + 1, v, p)]]]
  /\ pool = (-Outstanding) % Unit
  /\ escrow = Outstanding + pool
  /\ paid = [x \in Delegations \cup Validators |-> 0]

Init ==
  /\ phase = "start" /\ todo = {}
  /\ allowed \in AllowLists /\ zero \in BOOLEAN /\ residue \in BOOLEAN
  /\ InitStaking /\ InitDistribution

-----------------------------------------------------------------------------
Fail ==
  /\ phase' = "failed"
  /\ UNCHANGED <<todo, inputVars, distVars, stakingVars, signing>>

\* The loop of this phase visits x, validators in the order of their addresses;
\* after the last one comes the next phase.
Visit(x, after, next) ==
  IF todo = {x} THEN phase' = after /\ todo' = next
                ELSE phase' = phase /\ todo' = todo \ {x}

\* Mutant: the commissions are not withdrawn.
Start_SkipsCommissions ==
  /\ phase = "start"
  /\ phase' = IF zero THEN "rewards" ELSE "done"
  /\ todo' = IF zero THEN Delegations ELSE {}
  /\ UNCHANGED <<inputVars, distVars, stakingVars, signing>>

\* The addresses are parsed and the invariants asserted, the one of fixedmint
\* among them.  An export at a height goes on to read the records.
Start ==
  /\ phase = "start"
  /\ IF zero /\ (Malformed \in allowed \/ residue) THEN Fail
     ELSE /\ IF zero THEN phase' = "commissions" /\ todo' = Validators
                     ELSE phase' = "done" /\ todo' = {}
          /\ UNCHANGED <<inputVars, distVars, stakingVars, signing>>

\* WithdrawValidatorCommission: pays whole coins, leaves the rest.  Its error
\* when there is no commission is ignored.
WithdrawCommission(v) ==
  /\ phase = "commissions" /\ v = Min(todo)
  /\ LET coins == Whole(dist[v].commission)
     IN  /\ dist' = [dist EXCEPT ![v].outstanding = @ - coins,
                                 ![v].commission = @ - coins]
         /\ escrow' = escrow - coins
         /\ paid' = [paid EXCEPT ![v] = @ + coins]
  /\ Visit(v, "rewards", Delegations)
  /\ UNCHANGED <<inputVars, info, pool, owed, stakingVars, signing>>

\* WithdrawDelegationRewards: closes the period, pays whole coins, gives the
\* rest to the community pool and starts the delegation anew.
WithdrawRewards(d) ==
  /\ phase = "rewards" /\ d \in todo
  /\ LET v == To[d]
         r == Refer(IncrementPeriod(dist[v], v), info[d].period, -1)
     IN  /\ dist' = [dist EXCEPT ![v] =
                      Refer([r EXCEPT !.outstanding = @ - owed[d]], r.period - 1, 1)]
         /\ pool' = pool + Unshared(dist[v], v) + Remainder(owed[d])
         /\ info' = [info EXCEPT ![d] = StartingInfo(r, Height)]
  /\ escrow' = escrow - Whole(owed[d])
  /\ paid' = [paid EXCEPT ![d] = @ + Whole(owed[d])]
  /\ Visit(d, "clear", {})
  /\ UNCHANGED <<inputVars, owed, stakingVars, signing>>

\* Mutant: the historical rewards stay.
ClearRecords_SlashesOnly ==
  /\ phase = "clear"
  /\ dist' = [v \in Validators |-> [dist[v] EXCEPT !.slashes = {}]]
  /\ phase' = "validators" /\ todo' = Validators
  /\ UNCHANGED <<inputVars, info, pool, escrow, owed, paid, stakingVars, signing>>

\* DeleteAllValidatorSlashEvents, DeleteAllValidatorHistoricalRewards.
ClearRecords ==
  /\ phase = "clear"
  /\ dist' = [v \in Validators |-> [dist[v] EXCEPT !.slashes = {},
                !.hist = [p \in AllPeriods |-> 0]]]
  /\ phase' = "validators" /\ todo' = Validators
  /\ UNCHANGED <<inputVars, info, pool, escrow, owed, paid, stakingVars, signing>>

\* Mutant: what is left of the rewards is not donated.
ReinitValidator_NoDonation(v) ==
  /\ phase = "validators" /\ v = Min(todo)
  /\ dist' = [dist EXCEPT ![v] = Created(@)]
  /\ Visit(v, "delegations", Delegations)
  /\ UNCHANGED <<inputVars, info, pool, escrow, owed, paid, stakingVars, signing>>

\* Mutant: the validator's hook is not called.
ReinitValidator_NoHook(v) ==
  /\ phase = "validators" /\ v = Min(todo)
  /\ pool' = pool + dist[v].outstanding
  /\ dist' = [dist EXCEPT ![v].outstanding = 0]
  /\ Visit(v, "delegations", Delegations)
  /\ UNCHANGED <<inputVars, info, escrow, owed, paid, stakingVars, signing>>

\* What is left of a validator's rewards is donated to the community pool,
\* then its records are created anew.
ReinitValidator(v) ==
  /\ phase = "validators" /\ v = Min(todo)
  /\ pool' = pool + dist[v].outstanding
  /\ dist' = [dist EXCEPT ![v] = Created(@)]
  /\ Visit(v, "delegations", Delegations)
  /\ UNCHANGED <<inputVars, info, escrow, owed, paid, stakingVars, signing>>

\* BeforeDelegationCreated closes a period, AfterDelegationModified starts the
\* delegation at the height of the context, which is 0 here.
ReinitDelegation(d) ==
  /\ phase = "delegations" /\ d \in todo
  /\ LET v == To[d]
         r == IncrementPeriod(dist[v], v)
     IN  /\ dist' = [dist EXCEPT ![v] = Refer(r, r.period - 1, 1)]
         /\ pool' = pool + Unshared(dist[v], v)
         /\ info' = [info EXCEPT ![d] = StartingInfo(r, 0)]
  /\ Visit(d, "entries", {})
  /\ UNCHANGED <<inputVars, escrow, owed, paid, stakingVars, signing>>

\* The creation heights of redelegations and of unbonding delegations.
ResetEntries ==
  /\ phase = "entries"
  /\ created' = [e \in Entries |-> 0]
  /\ phase' = "powers"
  /\ UNCHANGED <<todo, inputVars, distVars, val, index, last, signing>>

\* All validators, in the order of their addresses.  A jailed one stays in the
\* power index: SetValidator writes the record only.
ResetValidators ==
  /\ phase = "powers"
  /\ val' = [v \in Validators |->
               [val[v] EXCEPT !.unbondingHeight = 0,
                  !.jailed = @ \/ (allowed # {} /\ v \notin allowed)]]
  /\ phase' = "apply"
  /\ UNCHANGED <<todo, inputVars, distVars, index, last, created, signing>>

\* Mutant: a jailed validator in the power index is bonded like any other.
ApplyValidatorSet_IgnoresJailed ==
  /\ phase = "apply"
  /\ last' = WithPower(val, index) /\ phase' = "slashing"
  /\ UNCHANGED <<todo, inputVars, distVars, val, index, created, signing>>

\* ApplyAndReturnValidatorSetUpdates.  It panics on a jailed validator in the
\* power index; who leaves the set begins to unbond at the context's height.
ApplyValidatorSet ==
  /\ phase = "apply"
  /\ IF \E v \in Reached(val, index) : val[v].jailed THEN Fail
     ELSE /\ last' = WithPower(val, index)
          /\ val' = [v \in Validators |->
               IF v \in last' THEN [val[v] EXCEPT !.status = "bonded"]
               ELSE IF v \in last THEN [val[v] EXCEPT !.status = "unbonding",
                                                     !.unbondingHeight = Height]
               ELSE val[v]]
          /\ phase' = "slashing"
          /\ UNCHANGED <<todo, inputVars, distVars, index, created, signing>>

\* The start heights of the signing infos; then the records are read and
\* WriteValidators reads the last validator set.
ResetSigningInfos ==
  /\ phase = "slashing"
  /\ signing' = [v \in Validators |-> 0]
  /\ phase' = "done"
  /\ UNCHANGED <<todo, inputVars, distVars, stakingVars>>

Next ==
  \/ Start
  \/ \E v \in Validators : WithdrawCommission(v) \/ ReinitValidator(v)
  \/ \E d \in Delegations : WithdrawRewards(d) \/ ReinitDelegation(d)
  \/ ClearRecords \/ ResetEntries
  \/ ResetValidators \/ ApplyValidatorSet \/ ResetSigningInfos

Spec == Init /\ [][Next]_vars

-----------------------------------------------------------------------------
(* Properties.                                                             *)

\* No amount goes below zero, and no reference is released that was not
\* taken: the keeper panics where the count would be negative.
TypeOK ==
  /\ phase \in {"start", "commissions", "rewards", "clear", "validators",
                "delegations", "entries", "powers", "apply", "slashing",
                "done", "failed"}
  /\ todo \subseteq Validators \cup Delegations
  /\ allowed \in AllowLists /\ zero \in BOOLEAN /\ residue \in BOOLEAN
  /\ dist \in [Validators ->
       [outstanding : Nat, commission : Nat, current : Nat,
        slashes : SUBSET (1 .. Periods), period : 1 .. Cardinality(AllPeriods),
        hist : [AllPeriods -> Nat]]]
  /\ info \in [Delegations -> [period : AllPeriods, height : {0, Height}]]
  /\ pool \in Nat /\ escrow \in Nat
  /\ owed \in [Delegations \cup Validators -> Nat]
  /\ paid \in [Delegations \cup Validators -> Nat]
  /\ val \in [Validators -> [tokens : Tokens, jailed : BOOLEAN,
                 status : {"bonded", "unbonding", "unbonded"},
                 unbondingHeight : {0, Height}]]
  /\ index \subseteq Validators /\ last \subseteq Validators
  /\ created \in [Entries -> {0, Height}] /\ signing \in [Validators -> {0, Height}]

\* The records of distribution account for every coin its module account
\* holds, at every step: InitGenesis of the exported file panics otherwise.
EscrowCovered == escrow = Outstanding + pool

\* The rewards of nobody end in the community pool: when the records of the
\* old chain are gone, each delegation and each validator has been paid the
\* whole coins it was owed.
PaidInFull ==
  (zero /\ phase = "done") =>
     \A x \in Delegations \cup Validators : paid[x] = Whole(owed[x])

\* Outside the two loops that rebuild them, the reference count of a
\* historical reward is the number of records that refer to it: what is
\* exported can be withdrawn from on the new chain.
ReferencesCounted ==
  phase \notin {"validators", "delegations"} =>
    \A v \in Validators : \A p \in AllPeriods :
       dist[v].hist[p] = References(dist[v].slashes, dist[v].period, v, p)

\* The new chain starts at height 0: no record it gets is from a later height.
NoOldHeights ==
  (zero /\ phase = "done") =>
    /\ \A d \in Delegations : info[d].height = 0
    /\ \A v \in Validators : val[v].unbondingHeight = 0 /\ signing[v] = 0
    /\ \A e \in Entries : created[e] = 0

\* The validators returned beside the exported records are the bonded ones of
\* these records, and none of them is jailed.
SetMatchesRecords ==
  phase = "done" =>
    /\ last = {v \in Validators : val[v].status = "bonded"}
    /\ \A v \in last : ~val[v].jailed

\* What the loops, written for three modules one after the other, leave is one
\* consistent genesis state: references, heights and validator set.
RecordsFitTogether == ReferencesCounted /\ NoOldHeights /\ SetMatchesRecords

\* A zero-height export fails for exactly these reasons: the invariants are
\* broken, an allowed address does not parse, or a validator that is not
\* allowed is within reach of the set.  ResetValidators jails it and leaves it
\* in the power index, on which ApplyAndReturnValidatorSetUpdates panics.
Excluded == allowed # {} /\ Reached(val, index) \ allowed # {}
FailsForAReason ==
  LET reason == residue \/ Malformed \in allowed \/ Excluded
  IN  (phase = "failed" => reason) /\ (zero /\ phase = "done" => ~reason)
=============================================================================
