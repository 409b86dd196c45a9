-------------------------------- MODULE Node --------------------------------
(***************************************************************************)
(* One node of the chain: x/fixedmint run by the application's block life  *)
(* cycle (app.New, app_config.go), with optimistic execution, crashes and  *)
(* replay, one transaction per block and governance.                       *)
(*                                                                         *)
(* The variables of FixedMint and prop are the working state (the          *)
(* finalizeBlockState of baseapp); committed is the last state written to  *)
(* disk.  The consensus engine, baseapp, gov, crisis and the bank are      *)
(* external and modelled as app/ uses them.                                *)
(***************************************************************************)
EXTENDS FixedMint, Sequences

CONSTANTS
  GenesisParams,   \* candidate fixedmint sections of genesis.json
  GenesisSupply,   \* what the genesis accounts hold
  Fee,             \* the fee of a transaction, as coins
  SendAmounts,     \* amounts a bank message may carry
  UpdateChoices,   \* parameters a MsgUpdateParams may carry
  VotingPeriod,    \* blocks from submission to tally
  InvCheckPeriod,  \* --inv-check-period; 0 never asserts invariants
  MaxHeight,       \* bound: blocks decided
  MaxCrashes       \* bound: crashes of the process

ASSUME NodeAssumption ==
  /\ GenesisParams \subseteq Params
  /\ GenesisSupply \in [Denoms -> 0 .. MaxInt]
  /\ Fee \in [Denoms -> Nat]
  /\ SendAmounts \subseteq Nat
  /\ UpdateChoices \subseteq Params
  /\ VotingPeriod \in Nat /\ InvCheckPeriod \in Nat
  /\ MaxHeight \in Nat /\ MaxCrashes \in Nat

VARIABLES
  prop,       \* gov: the one proposal that may be open
  committed,  \* the last committed state
  genesis,    \* the genesis file
  stage,      \* where the node is in the life cycle of a block
  next,       \* the next module of beginBlockers or endBlockers
  exec,       \* the block being executed
  decided,    \* the block consensus decided for the next height
  opt,        \* is it executed optimistically, ahead of the decision
  paid,       \* did the transaction of this block pay its fee
  crashes     \* crashes so far

workVars  == <<params, bal, supply, macc, donated, prop>>
cycleVars == <<stage, next, exec, opt, paid>>
nodeVars  == <<fixedmintVars, prop, committed, genesis, cycleVars, decided, crashes>>

-----------------------------------------------------------------------------
\* Mutant: the mint comes before the payout.
BeginBlockers_MintFirst == <<"fixedmint", "distribution">>

\* The modules of beginBlockers and endBlockers that touch the modelled state,
\* in the order of app_config.go.
BeginBlockers == <<"distribution", "fixedmint">>
EndBlockers   == <<"crisis", "gov">>

NoProposal == [open |-> FALSE]
Proposals  ==
  [open : {TRUE}, new : UpdateChoices, \* the MsgUpdateParams
   rest : BOOLEAN,                     \* do the other messages succeed
   yes : BOOLEAN, ends : Nat]

NoBlock    == [tx |-> "none"]
EmptyBlock == [tx |-> "empty"]
Blocks ==
       {EmptyBlock, [tx |-> "vote"]}
  \cup [tx : {"send"}, to : Accounts,
        coins : {Coins(d, a) : d \in Denoms, a \in SendAmounts}]
  \cup [tx : {"update"}, new : UpdateChoices]
  \cup [tx : {"submit"}, new : UpdateChoices, rest : BOOLEAN]

Height == committed.height + 1

\* Bound: one proposal is open at a time, and MaxHeight blocks are decided.
Proposable(b) ==
  /\ committed.height < MaxHeight
  /\ b.tx = "submit" => ~committed.prop.open

-----------------------------------------------------------------------------
NodeInit ==
  /\ genesis \in [params : GenesisParams, macc : {"none", "module"}]
  /\ params = NoParams /\ supply = ZeroCoins
  /\ bal = [a \in Accounts |-> ZeroCoins]
  /\ macc = "none" /\ donated = ZeroCoins /\ prop = NoProposal
  /\ halted = FALSE
  /\ committed = [height |-> 0, params |-> params, bal |-> bal,
                  supply |-> supply, macc |-> macc, donated |-> donated,
                  prop |-> prop]
  /\ stage = "down" /\ next = 1 /\ exec = NoBlock /\ opt = FALSE
  /\ paid = FALSE
  /\ decided = NoBlock /\ crashes = 0

\* What InitChain makes of the genesis file, and what a block is begun on:
\* the committed state, or genesis as long as nothing is committed.
GenesisState ==
  [height |-> 0, params |-> Stored(genesis.params), supply |-> GenesisSupply,
   bal |-> [a \in Accounts |-> IF a = "users" THEN GenesisSupply ELSE ZeroCoins],
   macc |-> genesis.macc, donated |-> ZeroCoins, prop |-> NoProposal]

Base == IF committed.height = 0 THEN GenesisState ELSE committed

\* The working state goes back to the committed one.
Reset ==
  /\ params' = committed.params /\ bal' = committed.bal
  /\ supply' = committed.supply /\ macc' = committed.macc
  /\ donated' = committed.donated /\ prop' = committed.prop

StartExecuting(b, optimistic) ==
  /\ exec' = b /\ opt' = optimistic
  /\ stage' = "begin" /\ next' = 1 /\ paid' = FALSE

-----------------------------------------------------------------------------
\* app.New loads the latest committed state.
Start ==
  /\ stage = "down"
  /\ Reset /\ halted' = FALSE
  /\ stage' = IF committed.height = 0 THEN "init" ELSE "idle"
  /\ next' = 1 /\ exec' = NoBlock /\ opt' = FALSE /\ paid' = FALSE
  /\ UNCHANGED <<committed, genesis, decided, crashes>>

\* InitChain: auth, bank and fixedmint read their sections of the genesis
\* file.  Nothing is committed: block 1 carries these writes.
InitChain ==
  /\ stage = "init"
  /\ params' = GenesisState.params
  /\ supply' = GenesisState.supply /\ bal' = GenesisState.bal
  /\ macc' = GenesisState.macc
  /\ stage' = "idle"
  /\ UNCHANGED <<halted, donated, prop, committed, genesis, next, exec, opt,
                 paid, decided, crashes>>

Up == stage \notin {"down", "init"}

\* Mutant: the abandoned execution leaves its writes.
ProcessProposal_KeepsWrites(b) ==
  /\ Up /\ decided = NoBlock /\ Proposable(b)
  /\ committed.height > 0
  /\ StartExecuting(b, TRUE)
  /\ UNCHANGED <<fixedmintVars, prop, committed, genesis, decided, crashes>>

\* ProcessProposal, from the second block on: what ran optimistically is
\* abandoned, its writes are dropped and the proposal is executed instead.
\* A first block is accepted without being executed, which changes nothing.
ProcessProposal(b) ==
  /\ Up /\ decided = NoBlock /\ Proposable(b)
  /\ committed.height > 0
  /\ Reset /\ StartExecuting(b, TRUE)
  /\ UNCHANGED <<halted, committed, genesis, decided, crashes>>

\* Consensus decides a block: not always the last one processed, and also
\* while this node is down.
Decide(b) ==
  /\ decided = NoBlock /\ Proposable(b)
  /\ decided' = b
  /\ UNCHANGED <<fixedmintVars, prop, committed, genesis, cycleVars, crashes>>

\* Mutant: the result at hand is taken whatever block it is of.
KeepOptimistic_AnyBlock ==
  /\ Up /\ opt /\ decided # NoBlock
  /\ opt' = FALSE
  /\ UNCHANGED <<fixedmintVars, prop, committed, genesis, stage, next, exec,
                 paid, decided, crashes>>

\* FinalizeBlock of the block that runs optimistically: wait for its result.
KeepOptimistic ==
  /\ Up /\ opt /\ decided # NoBlock /\ exec = decided
  /\ opt' = FALSE
  /\ UNCHANGED <<fixedmintVars, prop, committed, genesis, stage, next, exec,
                 paid, decided, crashes>>

\* Mutant: the decided block runs on top of the abandoned one.
AbortOptimistic_KeepsWrites ==
  /\ Up /\ opt /\ decided # NoBlock /\ exec # decided
  /\ StartExecuting(decided, FALSE)
  /\ UNCHANGED <<fixedmintVars, prop, committed, genesis, decided, crashes>>

\* Mutant: the result of the other block is awaited forever.
AbortOptimistic_Never == FALSE /\ UNCHANGED nodeVars

\* FinalizeBlock of another block than the one that runs: start again from
\* the committed state.
AbortOptimistic ==
  /\ Up /\ opt /\ decided # NoBlock /\ exec # decided
  /\ Reset /\ StartExecuting(decided, FALSE)
  /\ UNCHANGED <<halted, committed, genesis, decided, crashes>>

\* FinalizeBlock with nothing running: a first block or a replay.
FinalizeBlock ==
  /\ stage = "idle" /\ decided # NoBlock
  /\ StartExecuting(decided, FALSE)
  /\ UNCHANGED <<fixedmintVars, prop, committed, genesis, decided, crashes>>

-----------------------------------------------------------------------------
AtBegin(module) == stage = "begin" /\ BeginBlockers[next] = module
AtEnd(module)   == stage = "end" /\ EndBlockers[next] = module

Advance(blockers, after) ==
  /\ IF next < Len(blockers) THEN next' = next + 1 /\ stage' = stage
                             ELSE next' = 1 /\ stage' = after
  /\ UNCHANGED <<prop, committed, genesis, exec, opt, paid, decided, crashes>>

\* A panic nothing recovers ends the process; what it was computing is lost.
Die ==
  /\ stage' = "down"
  /\ UNCHANGED <<prop, committed, genesis, next, exec, opt, paid, decided, crashes>>

\* x/distribution pays out the fees of earlier blocks, from block 2 on.
BeginBlockDistribution ==
  /\ AtBegin("distribution")
  /\ IF Height > 1 THEN AllocateTokens ELSE UNCHANGED fixedmintVars
  /\ Advance(BeginBlockers, "ante")

\* Mutant: the block goes on after a panic of the begin blocker.
BeginBlockFixedmint_Recovers ==
  /\ AtBegin("fixedmint")
  /\ \/ SkipMint \/ MintReward
     \/ MintPanics(GetParams) /\ UNCHANGED fixedmintVars
  /\ Advance(BeginBlockers, "ante")

BeginBlockFixedmint ==
  /\ AtBegin("fixedmint")
  /\ \/ (SkipMint \/ MintReward) /\ Advance(BeginBlockers, "ante")
     \/ PanickingMint /\ Die

-----------------------------------------------------------------------------
\* The ante handler: ValidateBasic, then the fee.  A transaction it refuses
\* leaves no trace.
AnteAccepts(b) ==
  /\ b.tx # "empty"
  /\ b.tx = "update" => ValidateBasic(b.new) = "ok"
  /\ Covers(bal, "users", Fee)

AnteHandler ==
  /\ stage = "ante"
  /\ \/ /\ AnteAccepts(exec)
        /\ DeductFee(Fee) /\ paid' = TRUE /\ stage' = "msgs"
     \/ /\ ~AnteAccepts(exec)
        /\ stage' = "end" /\ UNCHANGED <<fixedmintVars, paid>>
  /\ UNCHANGED <<prop, committed, genesis, next, exec, opt, decided, crashes>>

\* The message of the transaction, on a state of its own: the writes of a
\* failing message are dropped, the fee is kept.
SendSucceeds(b) ==
  /\ b.tx = "send" /\ b.to \notin BlockedAddrs /\ Covers(bal, "users", b.coins)
SubmitSucceeds(b) == b.tx = "submit" /\ ValidateBasic(b.new) = "ok"
MsgFails(b) ==
  \/ b.tx = "send" /\ ~SendSucceeds(b)
  \/ b.tx = "submit" /\ ~SubmitSucceeds(b)
  \/ b.tx = "vote" /\ ~prop.open

RunMsgs ==
  /\ stage = "msgs"
  /\ \/ SendSucceeds(exec) /\ Send(exec.to, exec.coins) /\ UNCHANGED prop
     \/ /\ exec.tx = "update"
        /\ UpdateParams("users", exec.new) \/ RejectUpdateParams("users")
        /\ UNCHANGED prop
     \/ /\ SubmitSucceeds(exec)
        /\ prop' = [open |-> TRUE, new |-> exec.new, rest |-> exec.rest,
                    yes |-> FALSE, ends |-> Height + VotingPeriod]
        /\ UNCHANGED fixedmintVars
     \/ /\ exec.tx = "vote" /\ prop.open
        /\ prop' = [prop EXCEPT !.yes = TRUE]
        /\ UNCHANGED fixedmintVars
     \/ MsgFails(exec) /\ UNCHANGED <<fixedmintVars, prop>>
  /\ stage' = "end"
  /\ UNCHANGED <<committed, genesis, next, exec, opt, paid, decided, crashes>>

-----------------------------------------------------------------------------
\* crisis runs before gov: it sees what the transactions left.
EndBlockCrisis ==
  /\ AtEnd("crisis")
  /\ IF InvCheckPeriod # 0 /\ Height % InvCheckPeriod = 0
       THEN AssertInvariants ELSE UNCHANGED fixedmintVars
  /\ IF halted' THEN Die ELSE Advance(EndBlockers, "executed")

\* gov tallies a proposal whose voting period is over and executes the
\* messages of one that passed, all of them or none.  The message server of
\* fixedmint may refuse its message like any other.
ProposalExecutes == prop.yes /\ prop.rest

EndBlockGov ==
  /\ AtEnd("gov")
  /\ LET due == prop.open /\ prop.ends <= Height
     IN  /\ prop' = IF due THEN NoProposal ELSE prop
         /\ IF due /\ ProposalExecutes
           THEN UpdateParams("gov", prop.new) \/ RejectUpdateParams("gov")
           ELSE UNCHANGED fixedmintVars
  /\ IF next < Len(EndBlockers) THEN next' = next + 1 /\ stage' = stage
                                ELSE next' = 1 /\ stage' = "executed"
  /\ UNCHANGED <<committed, genesis, exec, opt, paid, decided, crashes>>

-----------------------------------------------------------------------------
\* Commit writes the working state to disk.
Commit ==
  /\ stage = "executed" /\ ~opt
  /\ committed' = [height |-> Height, params |-> params, bal |-> bal,
                   supply |-> supply, macc |-> macc, donated |-> donated,
                   prop |-> prop]
  /\ decided' = NoBlock
  /\ stage' = "idle" /\ exec' = NoBlock /\ paid' = FALSE
  /\ UNCHANGED <<fixedmintVars, prop, genesis, next, opt, crashes>>

\* The process dies; only committed and what consensus decided survive.
Crash ==
  /\ stage # "down" /\ crashes < MaxCrashes
  /\ stage' = "down" /\ crashes' = crashes + 1
  /\ UNCHANGED <<fixedmintVars, prop, committed, genesis, next, exec, opt,
                 paid, decided>>

-----------------------------------------------------------------------------
\* The chain has run its MaxHeight blocks and the node is waiting.
Terminated == stage = "idle" /\ committed.height = MaxHeight

BeginBlock == BeginBlockDistribution \/ BeginBlockFixedmint
DeliverTx  == AnteHandler \/ RunMsgs
EndBlock   == EndBlockCrisis \/ EndBlockGov
Executing  == KeepOptimistic \/ AbortOptimistic \/ FinalizeBlock
                \/ BeginBlock \/ DeliverTx \/ EndBlock \/ Commit

NodeNext ==
  \/ Start \/ InitChain
  \/ \E b \in Blocks : ProcessProposal(b) \/ Decide(b)
  \/ Executing
  \/ Crash
  \/ Terminated /\ UNCHANGED nodeVars

\* The operator restarts a node that is down, and a running node works off
\* what consensus gives it.  Nothing obliges consensus to propose or decide.
Fairness == WF_nodeVars(Start) /\ WF_nodeVars(InitChain) /\ WF_nodeVars(Executing)

NodeSpec == NodeInit /\ [][NodeNext]_nodeVars /\ Fairness

-----------------------------------------------------------------------------
(* Properties.                                                             *)

AppStates ==
  [height : Nat, params : StorableParams \cup {NoParams},
   bal : Balances, supply : [Denoms -> 0 .. MaxInt],
   macc : {"none", "base", "module"}, donated : CoinSets,
   prop : Proposals \cup {NoProposal}]

NodeTypeOK ==
  /\ TypeOK
  /\ prop \in Proposals \cup {NoProposal}
  /\ committed \in AppStates
  /\ genesis \in [params : GenesisParams, macc : {"none", "module"}]
  /\ stage \in {"down", "init", "idle", "begin", "ante", "msgs", "end", "executed"}
  /\ next \in {1, 2}
  /\ exec \in Blocks \cup {NoBlock} /\ decided \in Blocks \cup {NoBlock}
  /\ opt \in BOOLEAN /\ paid \in BOOLEAN
  /\ crashes \in Nat

Issued(d) == Base.supply[d] - GenesisSupply[d]

\* The chain keeps the promise of the mint: with optimistic execution,
\* abandoned proposals, crashes and replays, every committed block has issued
\* its reward exactly once.
Ledger == INSTANCE MintLedger WITH
            height <- committed.height, inForce <- Base.params,
            issued <- [d \in Denoms |-> Issued(d)]
LedgerSpec == Ledger!Spec

\* Between begin block and commit the fee collector holds one block's income:
\* the reward just minted and the fee of this block.  What earlier blocks
\* left was paid out before, as beginBlockers puts distribution first.
PoolHoldsOneBlock ==
  (stage \in {"ante", "msgs", "end", "executed"}) =>
     \A d \in Denoms : bal["fee_collector"][d] =
        Reward(Base.params, d) + (IF paid THEN Fee[d] ELSE 0)

\* The execution of a block never sees writes of an execution that was
\* abandoned, by another proposal, by another decision or by a crash.
StartsFromBase ==
  (stage = "idle" \/ (stage = "begin" /\ next = 1)) =>
     /\ params = Base.params /\ bal = Base.bal /\ supply = Base.supply
     /\ macc = Base.macc /\ donated = Base.donated /\ prop = Base.prop

\* What FinalizeBlock returns, and Commit writes, is the execution of the
\* block that was decided.
ExecutesDecided == (exec # NoBlock /\ ~opt /\ stage # "down") => exec = decided

\* After genesis the parameters change only by an executed proposal of the
\* governance account (with another authority, by a message that authority
\* signed), whose votes passed it, at or after the end of its voting period
\* and with all its other messages.
ParamsChangeOnlyByAuthority ==
  [][(committed.height > 0 /\ committed'.params # committed.params) =>
       \/ /\ Authority = "gov"
          /\ committed.prop.open /\ committed.prop.rest
          /\ committed.prop.yes \/ decided.tx = "vote"
          /\ committed.prop.ends <= committed'.height
          /\ committed'.params = Stored(committed.prop.new)
          /\ ~committed'.prop.open
       \/ /\ Authority = "users"
          /\ decided.tx = "update"
          /\ committed'.params = Stored(decided.new)]_nodeVars

\* What stops the begin blocker of the next block, read from the disk.
Doomed ==
  /\ ~SkipsMint(Base.params)
  /\ \/ NewCoinPanics(Base.params)
     \/ Base.macc = "base"
     \/ \E d \in Denoms : Base.supply[d] + Reward(Base.params, d) > MaxInt

\* A chain whose parameters cannot be minted never commits again: the
\* proposal that could correct them needs a block to execute in.
DoomIsPermanent == [][Doomed => committed' = committed]_nodeVars

\* A decided block that can be begun is committed, whatever crashes the
\* process goes through, unless an asserted invariant stops the node.
DecidedIsCommitted ==
  (decided # NoBlock /\ ~Doomed /\ InvCheckPeriod = 0)
     ~> (decided = NoBlock)

-----------------------------------------------------------------------------
(* What a comment of the repository says of the program and the code does   *)
(* not keep: the run of it is expected to find a violation.                 *)

\* params.go:48, "Validate validates the set of params": parameters that
\* governance installed and Validate accepted can be minted.
ValidatedParamsCanBeMinted ==
  (committed.height > 0 /\ Validate(committed.params) = "ok")
     => Mintable(committed.params)
=============================================================================
