---------------------------- MODULE InPlaceTestnet ----------------------------
(***************************************************************************)
(* The in-place testnet (cmd/testnet.go): one node of a running chain is   *)
(* turned into a chain of its own, with one validator.                     *)
(*                                                                         *)
(* The command writes to the root multistore of the application, without   *)
(* committing, and only then the SDK rewrites CometBFT's validator sets on *)
(* disk.  The writes reach the disk with the first block that commits.     *)
(* What staking, distribution and slashing then do with the records the    *)
(* command wrote, and with those it left, is what this module is about.    *)
(*                                                                         *)
(* Of the coins of the chain, powers and the balances the command funds    *)
(* are kept.  The validators' own stake stays, so none is ever removed.    *)
(***************************************************************************)
EXTENDS Integers, Sequences, FiniteSets, SequencesExt

CONSTANTS
  Operators,   \* operator addresses
  Keys,        \* consensus keys
  NewKeys,     \* those the command is given
  Delegators,
  Accounts,    \* addresses the command may be asked to fund
  Blocked,     \* those of them the bank does not let modules pay
  Chain,       \* the validators of the chain: operator -> [key, status, power]
  FundLists,   \* values of --accounts-to-fund, as sequences
  Unparsable,  \* an entry that is no bech32 address
  valVotingPower,  \* what the command gives CometBFT ...
  BondedPower,     \* ... and what staking makes of the same number of tokens
  None,
  MaxCalls,    \* bound: calls of the command
  MaxPeriod,   \* bound: distribution periods of a validator
  MaxHeight    \* bound: blocks committed

ASSUME InPlaceAssumption ==
  /\ valVotingPower \in Nat \ {0} /\ BondedPower \in Nat \ {0}
  /\ MaxPeriod \in Nat
  /\ None \notin Operators \cup Keys
  /\ NewKeys \subseteq Keys
  /\ DOMAIN Chain \subseteq Operators
  /\ \A o \in DOMAIN Chain : Chain[o] \in
       [key : Keys, status : {"bonded", "unbonding", "unbonded"}, power : Nat \ {0}]
  /\ \A o, p \in DOMAIN Chain : Chain[o].key = Chain[p].key => o = p
  /\ Blocked \subseteq Accounts
  /\ FundLists \subseteq Seq(Accounts \cup {Unparsable})

Periods == 0 .. MaxPeriod

VARIABLES
  stage,    \* of the process: "stopped", "rewriting", "idle", "delivering"
  disk,     \* application state of the last commit
  work,     \* the root multistore in memory: disk and uncommitted writes
  block,    \* the cache of the block that is executed
  comet,    \* CometBFT's last, current and next validator sets: key -> power
  height,
  calls,    \* history: calls of the command that were not refused
  pending,  \* history: {} or what the call that no block has committed funds
  lost,     \* history: CometBFT was rewritten, the application's writes were lost
  failed,   \* history: a block could not be executed though nothing was lost
  owed      \* history: what committed calls were asked to fund

vars == <<stage, disk, work, block, comet, height, calls, pending, lost, failed, owed>>

Absent == [key |-> None, status |-> "absent", power |-> 0]

-----------------------------------------------------------------------------
\* The records the command touches, of every module.

Exists(s, o) == s.val[o].status # "absent"
Delegated(s, o) == {d \in Delegators : s.start[o][d] # -1}

\* A validator's records as distribution's AfterValidatorCreated leaves them.
FreshPeriods(refs) == [refs EXCEPT ![0] = 1]

\* val and byCons are the validators and their index by consensus address;
\* index, last, queue and signing are ValidatorsByPowerIndex, LastValidatorPower
\* (-1 when absent), ValidatorQueue and ValidatorSigningInfo; period and refs are
\* ValidatorCurrentRewards.Period and the reference counts of historical rewards;
\* start is the PreviousPeriod of a delegation's starting info, -1 when absent.
\* mixed is history: who had delegations when the command took it over.
ChainState ==
  [val     |-> [o \in Operators |-> IF o \in DOMAIN Chain THEN Chain[o] ELSE Absent],
   byCons  |-> [k \in Keys |-> IF \E o \in DOMAIN Chain : Chain[o].key = k
                               THEN CHOOSE o \in DOMAIN Chain : Chain[o].key = k
                               ELSE None],
   index   |-> {o \in DOMAIN Chain : Chain[o].status = "bonded"},
   last    |-> [o \in Operators |-> IF o \in DOMAIN Chain /\ Chain[o].status = "bonded"
                                    THEN Chain[o].power ELSE -1],
   queue   |-> {o \in DOMAIN Chain : Chain[o].status = "unbonding"},
   signing |-> {Chain[o].key : o \in DOMAIN Chain},
   period  |-> [o \in Operators |-> IF o \in DOMAIN Chain THEN 1 ELSE 0],
   refs    |-> [o \in Operators |-> [p \in Periods |->
                  IF o \in DOMAIN Chain /\ p = 0 THEN 1 ELSE 0]],
   start   |-> [o \in Operators |-> [d \in Delegators |-> -1]],
   mixed   |-> {},
   funds   |-> [a \in Accounts |-> 0]]

PowersOf(s) == [k \in Keys |->
  LET o == s.byCons[k]
  IN IF o # None /\ s.val[o].key = k /\ s.last[o] > 0 THEN s.last[o] ELSE 0]

Init ==
  /\ stage = "stopped" /\ disk = ChainState /\ work = disk /\ block = disk
  /\ comet = [last |-> PowersOf(disk), now |-> PowersOf(disk), next |-> PowersOf(disk)]
  /\ height = 0 /\ calls = 0 /\ pending = {} /\ lost = FALSE /\ failed = FALSE
  /\ owed = [a \in Accounts |-> 0]

-----------------------------------------------------------------------------
\* initAppForTestnet, section by section.

\* Mutant: the records deleted, but not the unbonding queue.
ClearValidators_KeepsQueue(s) ==
  [s EXCEPT !.index = {},
            !.last = [o \in Operators |-> -1],
            !.val  = [o \in Operators |-> Absent]]

ClearValidators(s) ==
  [s EXCEPT !.index = {}, !.queue = {},
            !.last = [o \in Operators |-> -1],
            !.val  = [o \in Operators |-> Absent]]

\* Mutant: the new validator enters the last validators with its real power.
SetNewValidator_WithPower(s, a) ==
  [s EXCEPT !.val[a.operator] = [key |-> a.key, status |-> "bonded", power |-> BondedPower],
            !.byCons[a.key]   = a.operator,
            !.index           = @ \cup {a.operator},
            !.last[a.operator] = BondedPower]

SetNewValidator(s, a) ==
  [s EXCEPT !.val[a.operator] = [key |-> a.key, status |-> "bonded", power |-> BondedPower],
            !.byCons[a.key]   = a.operator,
            !.index           = @ \cup {a.operator},
            !.last[a.operator] = 0]

\* Mutant: the current period set to 1 as the code does, the reference not counted.
SetDistributionRecords_NoReference(s, a) ==
  [s EXCEPT !.period[a.operator] = 1,
            !.refs[a.operator][0] = 0,
            !.mixed = @ \cup {o \in {a.operator} : Delegated(s, o) # {}}]

SetDistributionRecords(s, a) ==
  [s EXCEPT !.period[a.operator] = 1,
            !.refs[a.operator]   = FreshPeriods(@),
            !.mixed = @ \cup {o \in {a.operator} : Delegated(s, o) # {}}]

SetSigningInfo(s, a) == [s EXCEPT !.signing = @ \cup {a.key}]

Times(list, x) == Cardinality({i \in DOMAIN list : list[i] = x})

FundAccounts(s, a) ==
  [s EXCEPT !.funds = [x \in Accounts |-> @[x] + Times(a.fund, x)]]

initAppForTestnet(s, a) ==
  FundAccounts(SetSigningInfo(SetDistributionRecords(
    SetNewValidator(ClearValidators(s), a), a), a), a)

\* getCommandArgs returns an error, and its caller panics.
RefusesArgs(a) == Contains(a.fund, Unparsable)

\* The bank refuses to pay a blocked account, and the process exits.
ExitsFunding(a) == \E x \in Blocked : Contains(a.fund, x)

CommandArgs == [operator : Operators, key : NewKeys, fund : FundLists]

\* Mutant: the command commits what it wrote.
newTestnetApp_Commits(a) ==
  /\ stage = "stopped" /\ calls < MaxCalls
  /\ ~RefusesArgs(a) /\ ~ExitsFunding(a)
  /\ calls' = calls + 1
  /\ work' = initAppForTestnet(disk, a) /\ disk' = work'
  /\ stage' = "rewriting"
  /\ pending' = {[x \in Accounts |-> Times(a.fund, x)]}
  /\ UNCHANGED <<block, comet, height, lost, failed, owed>>

\* newTestnetApp: the application as any other command starts it, then the
\* changes above.  A refusal ends the process with nothing written.
newTestnetApp(a) ==
  /\ stage = "stopped" /\ calls < MaxCalls
  /\ IF RefusesArgs(a) \/ ExitsFunding(a)
     THEN UNCHANGED <<stage, work, pending, calls>>
     ELSE /\ calls' = calls + 1
          /\ work' = initAppForTestnet(disk, a)
          /\ stage' = "rewriting"
          /\ pending' = {[x \in Accounts |-> Times(a.fund, x)]}
  /\ UNCHANGED <<disk, block, comet, height, lost, failed, owed>>

\* testnetify: CometBFT's three validator sets become the new validator.
RewriteConsensus(k) ==
  /\ stage = "rewriting"
  /\ \E o \in Operators : Exists(work, o) /\ work.val[o].key = k
  /\ LET only == [x \in Keys |-> IF x = k THEN valVotingPower ELSE 0]
     IN comet' = [last |-> only, now |-> only, next |-> only]
  /\ stage' = "idle" /\ lost' = FALSE /\ failed' = FALSE
  /\ UNCHANGED <<disk, work, block, height, calls, pending, owed>>

\* The ordinary start command.
Start ==
  /\ stage = "stopped"
  /\ stage' = "idle" /\ work' = disk
  /\ UNCHANGED <<disk, block, comet, height, calls, pending, lost, failed, owed>>

\* The process dies, or is stopped, at any moment.
Crash ==
  /\ stage # "stopped"
  /\ stage' = "stopped" /\ work' = disk /\ block' = disk
  /\ lost' = (lost \/ (pending # {} /\ stage # "rewriting"))
  /\ pending' = {}
  /\ UNCHANGED <<disk, comet, height, calls, failed, owed>>

-----------------------------------------------------------------------------
\* What the SDK's modules do with the records, block by block.

\* distribution and slashing look up every validator of the last commit.
VoteResolves(s, k) ==
  /\ s.byCons[k] # None /\ Exists(s, s.byCons[k])
  /\ k \in s.signing

Fail ==
  /\ failed' = ~lost /\ stage' = "stopped"
  /\ work' = disk /\ block' = disk
  /\ lost' = (lost \/ pending # {}) /\ pending' = {}
  /\ UNCHANGED <<disk, comet, height, calls, owed>>

BeginBlock ==
  /\ stage = "idle" /\ height < MaxHeight
  /\ IF \A k \in Keys : comet.last[k] > 0 => VoteResolves(work, k)
     THEN /\ stage' = "delivering" /\ block' = work
          /\ UNCHANGED <<disk, work, comet, height, calls, pending, lost, failed, owed>>
     ELSE Fail

\* IncrementValidatorPeriod ends the current period and opens the next.
PeriodPanics(s, o) == s.refs[o][s.period[o] - 1] = 0
NextPeriod(s, o) ==
  LET p == s.period[o] IN
  [s EXCEPT !.refs[o][p - 1] = @ - 1, !.refs[o][p] = 1, !.period[o] = p + 1]

\* withdrawDelegationRewards, and the panics of CalculateDelegationRewards
\* and decrementReferenceCount.
WithdrawPanics(s, d, o) ==
  \/ PeriodPanics(s, o)
  \/ s.start[o][d] > s.period[o]
  \/ LET n == NextPeriod(s, o) IN n.refs[o][s.start[o][d]] = 0
Withdraw(s, d, o) ==
  LET n == NextPeriod(s, o) IN
  [n EXCEPT !.refs[o][s.start[o][d]] = @ - 1, !.start[o][d] = -1]

\* initializeDelegation refers to the period that has just ended.
InitDelegationPanics(s, o) == s.refs[o][s.period[o] - 1] = 2
InitDelegation(s, d, o) ==
  LET p == s.period[o] - 1 IN
  [s EXCEPT !.refs[o][p] = @ + 1, !.start[o][d] = p]

CanDeliver(o) == stage = "delivering" /\ Exists(block, o) /\ block.period[o] < MaxPeriod
Delivered == UNCHANGED <<stage, disk, work, comet, height, calls, pending, lost, failed, owed>>

\* MsgDelegate for a delegator without a delegation to o.  A panic fails the
\* transaction, which then writes nothing.
Delegate(d, o) ==
  /\ CanDeliver(o) /\ block.start[o][d] = -1
  /\ ~PeriodPanics(block, o)
  /\ ~InitDelegationPanics(NextPeriod(block, o), o)
  /\ block' = [InitDelegation(NextPeriod(block, o), d, o) EXCEPT !.val[o].power = @ + 1]
  /\ Delivered

\* MsgWithdrawDelegatorReward: the delegation starts again from a new period.
WithdrawReward(d, o) ==
  /\ CanDeliver(o) /\ block.start[o][d] # -1
  /\ ~WithdrawPanics(block, d, o)
  /\ ~InitDelegationPanics(Withdraw(block, d, o), o)
  /\ block' = InitDelegation(Withdraw(block, d, o), d, o)
  /\ Delivered

\* MsgUndelegate of a whole delegation.  Whether the shares of a delegation
\* older than the command exceed those of the new validator is left open: one
\* that would take the last of its power is left out.
Undelegate(d, o) ==
  /\ CanDeliver(o) /\ block.start[o][d] # -1 /\ block.val[o].power > 1
  /\ ~WithdrawPanics(block, d, o)
  /\ block' = [Withdraw(block, d, o) EXCEPT !.val[o].power = @ - 1]
  /\ Delivered

\* ApplyAndReturnValidatorSetUpdates looks up every validator of the power
\* index and of the last validators.
UpdatePanics(s) ==
  \/ \E o \in s.index : ~Exists(s, o)
  \/ \E o \in Operators \ s.index : s.last[o] # -1 /\ s.val[o].status # "bonded"

\* The powers that changed, and those of the validators that left.
NewPower(s, o) == IF o \in s.index THEN s.val[o].power ELSE -1
ValidatorUpdates(s) == {o \in Operators : NewPower(s, o) # s.last[o]}

UpdateValidatorSet(s) ==
  [s EXCEPT !.last = [o \in Operators |-> NewPower(s, o)],
            !.val  = [o \in Operators |->
                        IF o \in s.index THEN [@[o] EXCEPT !.status = "bonded"]
                        ELSE IF s.last[o] # -1 THEN [@[o] EXCEPT !.status = "unbonding"]
                        ELSE @[o]],
            !.queue = (@ \ s.index)
                        \cup {o \in Operators \ s.index : s.last[o] # -1},
            !.signing = @ \cup {s.val[o].key : o \in s.index}]

\* UnbondAllMatureValidators, for the entries whose time has come.
UnbondPanics(s, mature) == \E o \in mature : s.val[o].status # "unbonding"
UnbondMature(s, mature) ==
  [s EXCEPT !.val = [o \in Operators |->
                       IF o \in mature THEN [@[o] EXCEPT !.status = "unbonded"] ELSE @[o]],
            !.queue = @ \ mature]

\* CometBFT applies the updates two heights later.
Follow(s) ==
  [last |-> comet.now, now |-> comet.next,
   next |-> [k \in Keys |->
     IF \E o \in ValidatorUpdates(s) : s.val[o].key = k
     THEN LET o == CHOOSE x \in ValidatorUpdates(s) : s.val[x].key = k
          IN IF NewPower(s, o) > 0 THEN NewPower(s, o) ELSE 0
     ELSE comet.next[k]]]

\* The end blocker of staking, and the commit.
EndBlockAndCommit(mature) ==
  /\ stage = "delivering" /\ mature \subseteq block.queue
  /\ IF UpdatePanics(block) \/ UnbondPanics(UpdateValidatorSet(block), mature)
     THEN Fail
     ELSE /\ stage' = "idle" /\ height' = height + 1
          /\ work' = UnbondMature(UpdateValidatorSet(block), mature)
          /\ disk' = work' /\ block' = work'
          /\ comet' = Follow(block)
          /\ owed' = [a \in Accounts |->
                       owed[a] + (IF pending = {} THEN 0 ELSE (CHOOSE p \in pending : TRUE)[a])]
          /\ pending' = {}
          /\ UNCHANGED <<calls, lost, failed>>

Next ==
  \/ \E a \in CommandArgs : newTestnetApp(a)
  \/ \E k \in Keys : RewriteConsensus(k)
  \/ Start
  \/ Crash
  \/ BeginBlock
  \/ \E d \in Delegators, o \in Operators :
       Delegate(d, o) \/ WithdrawReward(d, o) \/ Undelegate(d, o)
  \/ \E mature \in SUBSET Operators : EndBlockAndCommit(mature)

Spec == Init /\ [][Next]_vars

-----------------------------------------------------------------------------
\* The chain goes on: every index, queue and vote that the begin and end
\* blockers follow leads to a record, before and after any number of calls,
\* unless the process died before a block committed a call's writes and was
\* started as an ordinary node (the deletions of initAppForTestnet must be
\* complete, and the records of the new validator too).
BlocksExecute == ~failed

\* CometBFT and staking count the same powers, although the command gives
\* CometBFT tokens where staking counts powers and leaves the correction to
\* the first block (SetLastValidatorPower with 0).
PowersAgree ==
  stage = "idle" /\ pending = {} /\ ~lost => comet.next = PowersOf(disk)

\* A validator that had no delegations when the command took its operator
\* address can be delegated to, and every delegation to it can be taken back:
\* the distribution records the command writes twice are those its delegations
\* refer to.
DelegationsWithdraw ==
  stage = "delivering" =>
    \A o \in Operators \ block.mixed : Exists(block, o) =>
      /\ ~PeriodPanics(block, o)
      /\ \A d \in Delegated(block, o) :
           block.period[o] < MaxPeriod => ~WithdrawPanics(block, d, o)

\* A call funds its accounts once, however often the process dies before its
\* writes are committed and the command is given again (FundAccounts).
FundedOnce == disk.funds = owed

=============================================================================
