--------------------------- MODULE Replicas_proofs ---------------------------
(***************************************************************************)
(* Agreement of the two nodes for every genesis file, set of blocks and    *)
(* schedule, with any number of heights, crashes and abandoned executions. *)
(*                                                                         *)
(* Each node keeps the invariant Node_proofs proves of one node alone:     *)
(* what it commits is NextState of its base and of the block it decided    *)
(* (CommitIsNextState).  What is added here is that the base and the block *)
(* are those of the shared history: Fits for each node, and HistoryFollows *)
(* for the history itself.                                                 *)
(***************************************************************************)
EXTENDS Replicas, TLAPS

PA == INSTANCE Node_proofs WITH
        params <- paramsA, bal <- balA, supply <- supplyA,
        macc <- maccA, halted <- haltedA, donated <- donatedA,
        prop <- propA, committed <- committedA, stage <- stageA,
        next <- nextA, exec <- execA, decided <- decidedA,
        opt <- optA, paid <- paidA, crashes <- crashesA,
        InvCheckPeriod <- InvCheckPeriodA, MaxCrashes <- MaxCrashesA

PB == INSTANCE Node_proofs WITH
        params <- paramsB, bal <- balB, supply <- supplyB,
        macc <- maccB, halted <- haltedB, donated <- donatedB,
        prop <- propB, committed <- committedB, stage <- stageB,
        next <- nextB, exec <- execB, decided <- decidedB,
        opt <- optB, paid <- paidB, crashes <- crashesB,
        InvCheckPeriod <- InvCheckPeriodB, MaxCrashes <- MaxCrashesB

\* One function for both nodes (SameFunction).
NextState(s, b) == PA!NextState(s, b)
GenesisState    == PA!GenesisState
NoBlock         == PA!NoBlock
Blocks          == PA!Blocks
States          == PA!AppStates

\* What height h of the history r left and height h + 1 is executed on; start is
\* the state genesis gives.
StateAt(start, r, h) == IF h = 0 THEN start ELSE r[h]

\* The history r holds one state for every height that some node has committed:
\* the blocks of the log l, executed one after the other.
Follows(start, l, r) ==
  /\ l \in Seq(Blocks) /\ r \in Seq(States)
  /\ Len(r) <= Len(l)
  /\ \A h \in 1 .. Len(r) :
       r[h].height = h /\ r[h] = NextState(StateAt(start, r, h - 1), l[h])

\* A node that has committed c and knows the decision d stands in the history.
Fits(l, r, c, d) ==
  /\ c.height \in 0 .. Len(r)
  /\ c.height > 0 => r[c.height] = c
  /\ d # NoBlock => c.height < Len(l) /\ d = l[c.height + 1]

ReplicasInv ==
  /\ PA!FollowsInv /\ PB!FollowsInv
  /\ Follows(GenesisState, log, results)
  /\ Fits(log, results, committedA, decidedA)
  /\ Fits(log, results, committedB, decidedB)

\* The steps of node A are the steps Node_proofs speaks of.
LEMMA SameNodeA ==
  /\ A!Blocks = PA!Blocks /\ A!Height = PA!Height
  /\ A!NodeInit <=> PA!NodeInit
  /\ \A b : /\ A!ProcessProposal(b) <=> PA!ProcessProposal(b)
            /\ A!Decide(b) <=> PA!Decide(b)
  /\ A!Start <=> PA!Start
  /\ A!InitChain <=> PA!InitChain
  /\ A!KeepOptimistic <=> PA!KeepOptimistic
  /\ A!AbortOptimistic <=> PA!AbortOptimistic
  /\ A!FinalizeBlock <=> PA!FinalizeBlock
  /\ A!BeginBlock <=> PA!BeginBlock
  /\ A!DeliverTx <=> PA!DeliverTx
  /\ A!EndBlock <=> PA!EndBlock
  /\ A!Commit <=> PA!Commit
  /\ A!Crash <=> PA!Crash
BY DEF A!NodeInit, PA!NodeInit, A!Start, PA!Start, A!InitChain, PA!InitChain,
       A!ProcessProposal, PA!ProcessProposal, A!Decide, PA!Decide,
       A!KeepOptimistic, PA!KeepOptimistic, A!AbortOptimistic,
       PA!AbortOptimistic, A!FinalizeBlock, PA!FinalizeBlock, A!BeginBlock,
       PA!BeginBlock, A!DeliverTx, PA!DeliverTx, A!EndBlock, PA!EndBlock,
       A!Commit, PA!Commit, A!Crash, PA!Crash, A!Blocks, PA!Blocks, A!Height,
       PA!Height, A!ZeroCoins, PA!ZeroCoins, A!Accounts, PA!Accounts,
       A!NoProposal, PA!NoProposal, A!NoBlock, PA!NoBlock, A!Reset, PA!Reset,
       A!GenesisState, PA!GenesisState, A!Up, PA!Up, A!Proposable,
       PA!Proposable, A!StartExecuting, PA!StartExecuting, A!fixedmintVars,
       PA!fixedmintVars, A!cycleVars, PA!cycleVars, A!BeginBlockDistribution,
       PA!BeginBlockDistribution, A!BeginBlockFixedmint,
       PA!BeginBlockFixedmint, A!AnteHandler, PA!AnteHandler, A!RunMsgs,
       PA!RunMsgs, A!EndBlockCrisis, PA!EndBlockCrisis, A!EndBlockGov,
       PA!EndBlockGov, A!EmptyBlock, PA!EmptyBlock, A!Coins, PA!Coins,
       A!Stored, PA!Stored, A!AtBegin, PA!AtBegin, A!AllocateTokens,
       PA!AllocateTokens, A!Advance, PA!Advance, A!BeginBlockers,
       PA!BeginBlockers, A!SkipMint, PA!SkipMint, A!MintReward, PA!MintReward,
       A!PanickingMint, PA!PanickingMint, A!Die, PA!Die, A!AnteAccepts,
       PA!AnteAccepts, A!DeductFee, PA!DeductFee, A!SendSucceeds,
       PA!SendSucceeds, A!Send, PA!Send, A!UpdateParams, PA!UpdateParams,
       A!RejectUpdateParams, PA!RejectUpdateParams, A!SubmitSucceeds,
       PA!SubmitSucceeds, A!MsgFails, PA!MsgFails, A!AtEnd, PA!AtEnd,
       A!AssertInvariants, PA!AssertInvariants, A!EndBlockers, PA!EndBlockers,
       A!ProposalExecutes, PA!ProposalExecutes, A!Move, PA!Move, A!SkipsMint,
       PA!SkipsMint, A!GetParams, PA!GetParams, A!Reward, PA!Reward,
       A!Credited, PA!Credited, A!MintPanics, PA!MintPanics, A!MintCoins,
       PA!MintCoins, A!ValidateBasic, PA!ValidateBasic, A!Covers, PA!Covers,
       A!BlockedAddrs, PA!BlockedAddrs, A!Authority, PA!Authority,
       A!SetParams, PA!SetParams, A!ModuleAccountBroken,
       PA!ModuleAccountBroken, A!ZeroParams, PA!ZeroParams, A!NewCoinPanics,
       PA!NewCoinPanics, A!Validate, PA!Validate, A!Params, PA!Params,
       A!NewParams, PA!NewParams, A!validateMintDenom, PA!validateMintDenom,
       A!validateMintAmount, PA!validateMintAmount, A!AllDenoms, PA!AllDenoms,
       A!Ints, PA!Ints

\* The steps of node B are the steps Node_proofs speaks of.
LEMMA SameNodeB ==
  /\ B!Blocks = PB!Blocks /\ B!Height = PB!Height
  /\ B!NodeInit <=> PB!NodeInit
  /\ \A b : /\ B!ProcessProposal(b) <=> PB!ProcessProposal(b)
            /\ B!Decide(b) <=> PB!Decide(b)
  /\ B!Start <=> PB!Start
  /\ B!InitChain <=> PB!InitChain
  /\ B!KeepOptimistic <=> PB!KeepOptimistic
  /\ B!AbortOptimistic <=> PB!AbortOptimistic
  /\ B!FinalizeBlock <=> PB!FinalizeBlock
  /\ B!BeginBlock <=> PB!BeginBlock
  /\ B!DeliverTx <=> PB!DeliverTx
  /\ B!EndBlock <=> PB!EndBlock
  /\ B!Commit <=> PB!Commit
  /\ B!Crash <=> PB!Crash
BY DEF B!NodeInit, PB!NodeInit, B!Start, PB!Start, B!InitChain, PB!InitChain,
       B!ProcessProposal, PB!ProcessProposal, B!Decide, PB!Decide,
       B!KeepOptimistic, PB!KeepOptimistic, B!AbortOptimistic,
       PB!AbortOptimistic, B!FinalizeBlock, PB!FinalizeBlock, B!BeginBlock,
       PB!BeginBlock, B!DeliverTx, PB!DeliverTx, B!EndBlock, PB!EndBlock,
       B!Commit, PB!Commit, B!Crash, PB!Crash, B!Blocks, PB!Blocks, B!Height,
       PB!Height, B!ZeroCoins, PB!ZeroCoins, B!Accounts, PB!Accounts,
       B!NoProposal, PB!NoProposal, B!NoBlock, PB!NoBlock, B!Reset, PB!Reset,
       B!GenesisState, PB!GenesisState, B!Up, PB!Up, B!Proposable,
       PB!Proposable, B!StartExecuting, PB!StartExecuting, B!fixedmintVars,
       PB!fixedmintVars, B!cycleVars, PB!cycleVars, B!BeginBlockDistribution,
       PB!BeginBlockDistribution, B!BeginBlockFixedmint,
       PB!BeginBlockFixedmint, B!AnteHandler, PB!AnteHandler, B!RunMsgs,
       PB!RunMsgs, B!EndBlockCrisis, PB!EndBlockCrisis, B!EndBlockGov,
       PB!EndBlockGov, B!EmptyBlock, PB!EmptyBlock, B!Coins, PB!Coins,
       B!Stored, PB!Stored, B!AtBegin, PB!AtBegin, B!AllocateTokens,
       PB!AllocateTokens, B!Advance, PB!Advance, B!BeginBlockers,
       PB!BeginBlockers, B!SkipMint, PB!SkipMint, B!MintReward, PB!MintReward,
       B!PanickingMint, PB!PanickingMint, B!Die, PB!Die, B!AnteAccepts,
       PB!AnteAccepts, B!DeductFee, PB!DeductFee, B!SendSucceeds,
       PB!SendSucceeds, B!Send, PB!Send, B!UpdateParams, PB!UpdateParams,
       B!RejectUpdateParams, PB!RejectUpdateParams, B!SubmitSucceeds,
       PB!SubmitSucceeds, B!MsgFails, PB!MsgFails, B!AtEnd, PB!AtEnd,
       B!AssertInvariants, PB!AssertInvariants, B!EndBlockers, PB!EndBlockers,
       B!ProposalExecutes, PB!ProposalExecutes, B!Move, PB!Move, B!SkipsMint,
       PB!SkipsMint, B!GetParams, PB!GetParams, B!Reward, PB!Reward,
       B!Credited, PB!Credited, B!MintPanics, PB!MintPanics, B!MintCoins,
       PB!MintCoins, B!ValidateBasic, PB!ValidateBasic, B!Covers, PB!Covers,
       B!BlockedAddrs, PB!BlockedAddrs, B!Authority, PB!Authority,
       B!SetParams, PB!SetParams, B!ModuleAccountBroken,
       PB!ModuleAccountBroken, B!ZeroParams, PB!ZeroParams, B!NewCoinPanics,
       PB!NewCoinPanics, B!Validate, PB!Validate, B!Params, PB!Params,
       B!NewParams, PB!NewParams, B!validateMintDenom, PB!validateMintDenom,
       B!validateMintAmount, PB!validateMintAmount, B!AllDenoms, PB!AllDenoms,
       B!Ints, PB!Ints

\* The two nodes execute one function: the period of the invariant checks, the
\* bound on crashes and the state of the node are no argument of it.
LEMMA SameFunction ==
  /\ \A s, b : PB!NextState(s, b) = NextState(s, b)
  /\ PB!GenesisState = GenesisState /\ PB!NoBlock = NoBlock
  /\ PB!Blocks = PA!Blocks /\ PB!AppStates = States
<1>1. /\ PB!NoProposal = PA!NoProposal /\ PB!Authority = PA!Authority
      /\ PB!BlockedAddrs = PA!BlockedAddrs
  BY DEF PA!NoProposal, PB!NoProposal, PA!Authority, PB!Authority,
         PA!BlockedAddrs, PB!BlockedAddrs
<1>2. /\ \A p : PB!Stored(p) = PA!Stored(p)
      /\ \A p : PB!SkipsMint(p) <=> PA!SkipsMint(p)
      /\ \A p : PB!ValidateBasic(p) = PA!ValidateBasic(p)
      /\ \A p, d : PB!Reward(p, d) = PA!Reward(p, d)
  BY DEF PA!Stored, PB!Stored, PA!SkipsMint, PB!SkipsMint, PA!Reward, PB!Reward,
         PA!ValidateBasic, PB!ValidateBasic, PA!Validate, PB!Validate,
         PA!validateMintDenom, PB!validateMintDenom,
         PA!validateMintAmount, PB!validateMintAmount
<1>3. /\ \A b, from, to, c : PB!Move(b, from, to, c) = PA!Move(b, from, to, c)
      /\ \A b, to, c : PB!Credited(b, to, c) = PA!Credited(b, to, c)
      /\ \A b, from, c : PB!Covers(b, from, c) <=> PA!Covers(b, from, c)
  BY DEF PA!Move, PB!Move, PA!Credited, PB!Credited, PA!Covers, PB!Covers
<1>4. \A s : PB!PaidOut(s) = PA!PaidOut(s)
  BY DEF PA!PaidOut, PB!PaidOut, PA!Move, PB!Move
<1>5. \A s : PB!Rewarded(s) = PA!Rewarded(s)
  BY DEF PA!Rewarded, PB!Rewarded, PA!Move, PB!Move, PA!Credited, PB!Credited,
         PA!SkipsMint, PB!SkipsMint, PA!Reward, PB!Reward
<1>6. \A s : PB!Begun(s) = PA!Begun(s)
  BY <1>4, <1>5 DEF PA!Begun, PB!Begun
<1>7. \A s, b : PB!Accepted(s, b) <=> PA!Accepted(s, b)
  BY <1>2, <1>3 DEF PA!Accepted, PB!Accepted
<1>8. \A s : PB!Charged(s) = PA!Charged(s)
  BY <1>3 DEF PA!Charged, PB!Charged
<1>9. \A s, b : PB!Sent(s, b) = PA!Sent(s, b)
  BY DEF PA!Sent, PB!Sent, PA!Move, PB!Move, PA!Covers, PB!Covers,
         PA!BlockedAddrs, PB!BlockedAddrs
<1>10. \A s, x, p : PB!Updated(s, x, p) = PA!Updated(s, x, p)
  BY <1>1, <1>2 DEF PA!Updated, PB!Updated
<1>11. \A s, b : PB!Messaged(s, b) = PA!Messaged(s, b)
  <2>1. \A b : PB!SubmitSucceeds(b) <=> PA!SubmitSucceeds(b)
    BY <1>2 DEF PA!SubmitSucceeds, PB!SubmitSucceeds
  <2> QED
    BY <1>9, <1>10, <2>1 DEF PA!Messaged, PB!Messaged
<1>12. \A s, b : PB!Delivered(s, b) = PA!Delivered(s, b)
  BY <1>7, <1>8, <1>11 DEF PA!Delivered, PB!Delivered
<1>13. \A s : PB!Tallied(s) = PA!Tallied(s)
  BY <1>1, <1>10 DEF PA!Tallied, PB!Tallied, PA!Due, PB!Due
<1>14. \A s, b : PB!NextState(s, b) = NextState(s, b)
  <2>1. \A s, b : PB!Executed(s, b) = PA!Executed(s, b)
    BY <1>6, <1>12, <1>13 DEF PA!Executed, PB!Executed
  <2> QED
    BY <2>1 DEF NextState, PA!NextState, PB!NextState
<1>15. /\ PB!GenesisState = GenesisState /\ PB!NoBlock = NoBlock
       /\ PB!Blocks = PA!Blocks
  BY DEF GenesisState, PA!GenesisState, PB!GenesisState, PA!Stored, PB!Stored,
         PA!Accounts, PB!Accounts, PA!ZeroCoins, PB!ZeroCoins,
         PA!NoProposal, PB!NoProposal, NoBlock, PA!NoBlock, PB!NoBlock,
         PA!Blocks, PB!Blocks, PA!EmptyBlock, PB!EmptyBlock, PA!Coins, PB!Coins
<1>16. PB!AppStates = States
  BY DEF States, PA!AppStates, PB!AppStates, PA!StorableParams, PB!StorableParams,
         PA!AllDenoms, PB!AllDenoms, PA!Ints, PB!Ints, PA!Balances, PB!Balances,
         PA!Accounts, PB!Accounts, PA!CoinSets, PB!CoinSets,
         PA!Proposals, PB!Proposals, PA!NoProposal, PB!NoProposal
<1> QED
  BY <1>14, <1>15, <1>16

\* The assumptions Node_proofs makes hold for each of the nodes.
LEMMA Assumptions ==
  /\ PA!NodeAssumption /\ PA!NoParamsAssumption
  /\ PA!DenomsAssumption /\ PA!AmountsAssumption
  /\ PB!NodeAssumption /\ PB!NoParamsAssumption
  /\ PB!DenomsAssumption /\ PB!AmountsAssumption
<1>1. PA!Params = Params /\ PB!Params = Params
  BY DEF PA!Params, PA!AllDenoms, PA!Ints, PB!Params, PB!AllDenoms, PB!Ints,
         Params, AllDenoms, Ints
<1>2. PA!NodeAssumption /\ PB!NodeAssumption
  BY ReplicasAssumption, <1>1
<1>3. PA!NoParamsAssumption /\ PB!NoParamsAssumption
  BY ReplicasAssumption, <1>1
<1>4. PA!DenomsAssumption /\ PB!DenomsAssumption
  BY DenomsAssumption
<1>5. PA!AmountsAssumption /\ PB!AmountsAssumption
  BY AmountsAssumption
<1> QED
  BY <1>2, <1>3, <1>4, <1>5

-----------------------------------------------------------------------------
(* What a step of a node does to the history.                              *)

\* A node with committed state c and decision d learns of a decision, which is
\* the one in the log or extends it.
Decides(l, r, c, d, l2, r2, c2, d2) ==
  /\ d = NoBlock /\ d2 \in Blocks /\ c2 = c /\ r2 = r
  /\ IF c.height + 1 <= Len(l) THEN d2 = l[c.height + 1] /\ l2 = l
                               ELSE l2 = Append(l, d2)

\* It commits NextState of its base and that decision.
Commits(start, l, r, c, d, l2, r2, c2, d2) ==
  /\ d # NoBlock /\ d2 = NoBlock /\ l2 = l /\ c2 \in States
  /\ c2 = NextState(IF c.height = 0 THEN start ELSE c, d)
  /\ c2.height = c.height + 1
  /\ r2 = IF c2.height > Len(r) THEN Append(r, c2) ELSE r

\* Or it does something else.
HistoryStep(start, l, r, c, d, l2, r2, c2, d2) ==
  \/ Decides(l, r, c, d, l2, r2, c2, d2)
  \/ Commits(start, l, r, c, d, l2, r2, c2, d2)
  \/ c2 = c /\ d2 = d /\ l2 = l /\ r2 = r

\* A step of node A keeps the invariant of the node and is a step of the history.
LEMMA StepAInHistory ==
  ASSUME PA!FollowsInv, StepA
  PROVE  /\ PA!FollowsInv'
         /\ HistoryStep(GenesisState, log, results, committedA, decidedA,
                        log', results', committedA', decidedA')
         /\ genesis' = genesis /\ UNCHANGED varsB
<1>1. [PA!NodeNext]_(PA!nodeVars)
  BY SameNodeA DEF StepA, PA!NodeNext, PA!Executing
<1>2. PA!FollowsInv'
  BY <1>1, Assumptions, PA!FollowsNextInv
<1>3. genesis' = genesis /\ UNCHANGED varsB
  BY SameNodeA DEF StepA,
       PA!Start, PA!InitChain, PA!ProcessProposal, PA!Decide, PA!KeepOptimistic,
       PA!AbortOptimistic, PA!FinalizeBlock, PA!BeginBlock,
       PA!BeginBlockDistribution, PA!BeginBlockFixedmint, PA!Advance, PA!Die,
       PA!DeliverTx, PA!AnteHandler, PA!RunMsgs, PA!EndBlock,
       PA!EndBlockCrisis, PA!EndBlockGov, PA!Commit, PA!Crash
<1>4. CASE \E b \in A!Blocks : A!Decide(b) /\ Agrees(A!Height, b) /\ UNCHANGED results
  BY <1>2, <1>3, <1>4, SameNodeA
     DEF PA!Decide, PA!Height, HistoryStep, Decides, Agrees, NoBlock, Blocks
<1>5. CASE A!Commit /\ Record(committedA') /\ UNCHANGED log
  <2>1. PA!Commit
    BY <1>5, SameNodeA
  <2>2. /\ committedA' = NextState(PA!Base, decidedA) /\ decidedA # NoBlock
        /\ committedA'.height = committedA.height + 1
    BY <2>1, Assumptions, PA!CommitIsNextState DEF NextState, NoBlock
  <2>3. committedA' \in States /\ decidedA' = NoBlock
    BY <1>2, <2>1 DEF PA!FollowsInv, PA!NodeInv, PA!NodeTypeOK, States, PA!Commit, NoBlock
  <2> QED
    BY <1>2, <1>3, <1>5, <2>2, <2>3
       DEF HistoryStep, Commits, Record, PA!Base, GenesisState
<1>6. CASE UNCHANGED <<log, results>> /\ UNCHANGED <<committedA, decidedA>>
  BY <1>2, <1>3, <1>6 DEF HistoryStep
<1>7. CASE /\ \/ A!Start \/ A!InitChain \/ A!Crash
              \/ A!KeepOptimistic \/ A!AbortOptimistic \/ A!FinalizeBlock
              \/ A!BeginBlock \/ A!DeliverTx \/ A!EndBlock
              \/ \E b \in A!Blocks : A!ProcessProposal(b)
           /\ UNCHANGED <<log, results>>
  <2>1. UNCHANGED <<committedA, decidedA>>
    BY <1>7, SameNodeA DEF
       PA!Start, PA!InitChain, PA!ProcessProposal, PA!KeepOptimistic,
       PA!AbortOptimistic, PA!FinalizeBlock, PA!BeginBlock,
       PA!BeginBlockDistribution, PA!BeginBlockFixedmint, PA!Advance, PA!Die,
       PA!DeliverTx, PA!AnteHandler, PA!RunMsgs, PA!EndBlock,
       PA!EndBlockCrisis, PA!EndBlockGov, PA!Crash
  <2> QED
    BY <1>7, <2>1, <1>6
<1> QED
  BY <1>2, <1>3, <1>4, <1>5, <1>7 DEF StepA

\* A step of node B keeps the invariant of the node and is a step of the history.
LEMMA StepBInHistory ==
  ASSUME PB!FollowsInv, StepB
  PROVE  /\ PB!FollowsInv'
         /\ HistoryStep(GenesisState, log, results, committedB, decidedB,
                        log', results', committedB', decidedB')
         /\ genesis' = genesis /\ UNCHANGED varsA
<1>1. [PB!NodeNext]_(PB!nodeVars)
  BY SameNodeB DEF StepB, PB!NodeNext, PB!Executing
<1>2. PB!FollowsInv'
  BY <1>1, Assumptions, PB!FollowsNextInv
<1>3. genesis' = genesis /\ UNCHANGED varsA
  BY SameNodeB DEF StepB,
       PB!Start, PB!InitChain, PB!Decide, PB!FinalizeBlock, PB!BeginBlock,
       PB!BeginBlockDistribution, PB!BeginBlockFixedmint, PB!Advance, PB!Die,
       PB!DeliverTx, PB!AnteHandler, PB!RunMsgs, PB!EndBlock,
       PB!EndBlockCrisis, PB!EndBlockGov, PB!Commit, PB!Crash
<1>4. CASE \E b \in B!Blocks : B!Decide(b) /\ Agrees(B!Height, b) /\ UNCHANGED results
  BY <1>2, <1>3, <1>4, SameNodeB, SameFunction
     DEF PB!Decide, PB!Height, HistoryStep, Decides, Agrees, NoBlock, Blocks
<1>5. CASE B!Commit /\ Record(committedB') /\ UNCHANGED log
  <2>1. PB!Commit
    BY <1>5, SameNodeB
  <2>2. /\ committedB' = NextState(PB!Base, decidedB) /\ decidedB # NoBlock
        /\ committedB'.height = committedB.height + 1
    BY <2>1, Assumptions, PB!CommitIsNextState, SameFunction DEF NextState, NoBlock
  <2>3. committedB' \in States /\ decidedB' = NoBlock
    BY <1>2, <2>1, SameFunction
       DEF PB!FollowsInv, PB!NodeInv, PB!NodeTypeOK, States, PB!Commit, NoBlock
  <2> QED
    BY <1>2, <1>3, <1>5, <2>2, <2>3, SameFunction
       DEF HistoryStep, Commits, Record, PB!Base, GenesisState
<1>6. CASE UNCHANGED <<log, results>> /\ UNCHANGED <<committedB, decidedB>>
  BY <1>2, <1>3, <1>6 DEF HistoryStep
<1>7. CASE /\ \/ B!Start \/ B!InitChain \/ B!Crash
              \/ B!FinalizeBlock \/ B!BeginBlock \/ B!DeliverTx \/ B!EndBlock
           /\ UNCHANGED <<log, results>>
  <2>1. UNCHANGED <<committedB, decidedB>>
    BY <1>7, SameNodeB DEF
       PB!Start, PB!InitChain, PB!FinalizeBlock, PB!BeginBlock,
       PB!BeginBlockDistribution, PB!BeginBlockFixedmint, PB!Advance, PB!Die,
       PB!DeliverTx, PB!AnteHandler, PB!RunMsgs, PB!EndBlock,
       PB!EndBlockCrisis, PB!EndBlockGov, PB!Crash
  <2> QED
    BY <1>7, <2>1, <1>6
<1> QED
  BY <1>2, <1>3, <1>4, <1>5, <1>7 DEF StepB

-----------------------------------------------------------------------------
(* The history.                                                            *)

\* A step of one node keeps the history one, and both nodes in it.
LEMMA HistoryKeeps ==
  ASSUME NEW start, NEW l, NEW r, NEW c, NEW d, NEW l2, NEW r2, NEW c2, NEW d2,
         Follows(start, l, r), Fits(l, r, c, d),
         HistoryStep(start, l, r, c, d, l2, r2, c2, d2)
  PROVE  /\ Follows(start, l2, r2) /\ Fits(l2, r2, c2, d2)
         /\ \A e, f : Fits(l, r, e, f) => Fits(l2, r2, e, f)
<1>1. /\ l \in Seq(Blocks) /\ r \in Seq(States) /\ Len(r) <= Len(l)
      /\ c.height \in 0 .. Len(r)
  BY DEF Follows, Fits
<1>2. CASE Decides(l, r, c, d, l2, r2, c2, d2)
  <2>1. /\ r2 = r /\ c2 = c /\ d2 \in Blocks
        /\ l2 \in Seq(Blocks) /\ Len(l2) >= Len(l)
        /\ \A h \in 1 .. Len(l) : l2[h] = l[h]
        /\ c.height < Len(l2) /\ d2 = l2[c.height + 1]
    <3>1. r2 = r /\ c2 = c /\ d2 \in Blocks
      BY <1>2 DEF Decides
    <3>2. CASE c.height + 1 <= Len(l)
      BY <1>1, <1>2, <3>1, <3>2 DEF Decides
    <3>3. CASE ~(c.height + 1 <= Len(l))
      <4>1. l2 = Append(l, d2) /\ c.height = Len(l) /\ Len(l) \in Nat
        BY <1>1, <1>2, <3>3 DEF Decides
      <4>2. /\ l2 \in Seq(Blocks) /\ Len(l2) = Len(l) + 1
            /\ l2[Len(l) + 1] = d2
            /\ \A h \in 1 .. Len(l) : l2[h] = l[h]
        BY <1>1, <3>1, <4>1
      <4> QED
        BY <3>1, <4>1, <4>2
    <3> QED
      BY <3>2, <3>3
  <2>2. Follows(start, l2, r2)
    <3>1. \A h \in 1 .. Len(r) : h \in 1 .. Len(l)
      BY <1>1
    <3>2. Len(r) <= Len(l2)
      BY <1>1, <2>1
    <3> QED
      BY <1>1, <2>1, <3>1, <3>2 DEF Follows
  <2>3. ASSUME NEW e, NEW f, Fits(l, r, e, f) PROVE Fits(l2, r2, e, f)
    <3>1. e.height \in 0 .. Len(r) /\ (f # NoBlock => e.height + 1 \in 1 .. Len(l))
      BY <1>1, <2>3 DEF Fits
    <3>2. f # NoBlock => e.height < Len(l2) /\ f = l2[e.height + 1]
      BY <1>1, <2>1, <2>3, <3>1 DEF Fits
    <3> QED
      BY <2>1, <2>3, <3>1, <3>2 DEF Fits
  <2>4. Fits(l2, r2, c2, d2)
    BY <2>1 DEF Fits
  <2> QED
    BY <2>2, <2>3, <2>4
<1>3. CASE Commits(start, l, r, c, d, l2, r2, c2, d2)
  <2> DEFINE h == c.height + 1
  <2>1. /\ l2 = l /\ d2 = NoBlock /\ c2.height = h /\ c2 \in States
        /\ r2 = IF h > Len(r) THEN Append(r, c2) ELSE r
        /\ h \in 1 .. Len(l) /\ h - 1 = c.height
    BY <1>1, <1>3 DEF Commits, Fits
  <2>2. c2 = NextState(StateAt(start, r, h - 1), l[h])
    <3>1. StateAt(start, r, h - 1) = IF c.height = 0 THEN start ELSE c
      BY <1>1, <2>1 DEF StateAt, Fits
    <3>2. d = l[h]
      BY <1>3 DEF Commits, Fits
    <3> QED
      BY <1>3, <3>1, <3>2 DEF Commits
  <2>3. CASE h > Len(r)
    <3>1. /\ r2 = Append(r, c2) /\ h = Len(r) + 1
          /\ r2 \in Seq(States) /\ Len(r2) = h /\ r2[h] = c2
          /\ \A i \in 1 .. Len(r) : r2[i] = r[i]
      BY <1>1, <2>1, <2>3
    <3>2. \A i \in 1 .. h : StateAt(start, r2, i - 1) = StateAt(start, r, i - 1)
      BY <1>1, <3>1 DEF StateAt
    <3>3. Follows(start, l, r2)
      <4>1. ASSUME NEW i \in 1 .. Len(r2)
            PROVE  /\ r2[i].height = i
                   /\ r2[i] = NextState(StateAt(start, r2, i - 1), l[i])
        <5>1. CASE i = h
          BY <2>1, <2>2, <3>1, <3>2, <5>1
        <5>2. CASE i # h
          <6>1. i \in 1 .. Len(r)
            BY <1>1, <3>1, <5>2
          <6> QED
            BY <3>1, <3>2, <6>1 DEF Follows
        <5> QED
          BY <5>1, <5>2
      <4> QED
        BY <1>1, <2>1, <3>1, <4>1 DEF Follows
    <3> QED
      BY <1>1, <2>1, <3>1, <3>3 DEF Fits
  <2>4. CASE ~(h > Len(r))
    <3>1. r2 = r /\ h \in 1 .. Len(r)
      BY <1>1, <2>1, <2>4
    <3>2. r[h] = c2
      BY <2>2, <3>1 DEF Follows
    <3> QED
      BY <1>1, <2>1, <3>1, <3>2 DEF Fits
  <2> QED
    BY <2>3, <2>4
<1>4. CASE c2 = c /\ d2 = d /\ l2 = l /\ r2 = r
  BY <1>4
<1> QED
  BY <1>2, <1>3, <1>4 DEF HistoryStep

\* Nothing is decided and nothing committed.
LEMMA ReplicasInit == Init => ReplicasInv
<1> SUFFICES ASSUME Init PROVE ReplicasInv
  OBVIOUS
<1>1. PA!FollowsInv /\ PB!FollowsInv
  BY Assumptions, SameNodeA, SameNodeB, PA!FollowsInit, PB!FollowsInit DEF Init
<1>2. /\ committedA.height = 0 /\ decidedA = NoBlock
      /\ committedB.height = 0 /\ decidedB = NoBlock
  BY SameNodeA, SameNodeB, SameFunction
     DEF Init, PA!NodeInit, PB!NodeInit, NoBlock
<1>3. log = << >> /\ results = << >>
  BY DEF Init
<1> QED
  BY <1>1, <1>2, <1>3 DEF ReplicasInv, Follows, Fits

\* A step of either node keeps the invariant of both.
LEMMA ReplicasNext == ReplicasInv /\ [Next]_vars => ReplicasInv'
<1> SUFFICES ASSUME ReplicasInv, [Next]_vars PROVE ReplicasInv'
  OBVIOUS
<1> USE DEF ReplicasInv
<1>1. CASE StepA
  <2>1. /\ PA!FollowsInv'
        /\ HistoryStep(GenesisState, log, results, committedA, decidedA,
                       log', results', committedA', decidedA')
        /\ genesis' = genesis /\ UNCHANGED varsB
    BY <1>1, StepAInHistory
  <2>2. PB!FollowsInv' /\ UNCHANGED <<committedB, decidedB>>
    <3>1. UNCHANGED PB!nodeVars
      BY <2>1 DEF varsB, PB!nodeVars, PB!fixedmintVars, PB!cycleVars
    <3> QED
      BY <2>1, <3>1, Assumptions, PB!FollowsNextInv DEF varsB
  <2>3. GenesisState' = GenesisState
    BY <2>1 DEF GenesisState, PA!GenesisState
  <2> QED
    BY <2>1, <2>2, <2>3, HistoryKeeps
<1>2. CASE StepB
  <2>1. /\ PB!FollowsInv'
        /\ HistoryStep(GenesisState, log, results, committedB, decidedB,
                       log', results', committedB', decidedB')
        /\ genesis' = genesis /\ UNCHANGED varsA
    BY <1>2, StepBInHistory
  <2>2. PA!FollowsInv' /\ UNCHANGED <<committedA, decidedA>>
    <3>1. UNCHANGED PA!nodeVars
      BY <2>1 DEF varsA, PA!nodeVars, PA!fixedmintVars, PA!cycleVars
    <3> QED
      BY <2>1, <3>1, Assumptions, PA!FollowsNextInv DEF varsA
  <2>3. GenesisState' = GenesisState
    BY <2>1 DEF GenesisState, PA!GenesisState
  <2> QED
    BY <2>1, <2>2, <2>3, HistoryKeeps
<1>3. CASE UNCHANGED vars
  <2>1. UNCHANGED PA!nodeVars /\ UNCHANGED PB!nodeVars /\ UNCHANGED <<log, results, genesis>>
    BY <1>3 DEF vars, varsA, varsB, PA!nodeVars, PA!fixedmintVars, PA!cycleVars,
                PB!nodeVars, PB!fixedmintVars, PB!cycleVars
  <2>2. PA!FollowsInv' /\ PB!FollowsInv'
    BY <2>1, Assumptions, PA!FollowsNextInv, PB!FollowsNextInv
  <2>3. UNCHANGED <<committedA, decidedA, committedB, decidedB>> /\ GenesisState' = GenesisState
    BY <1>3, <2>1 DEF vars, varsA, varsB, GenesisState, PA!GenesisState
  <2> QED
    BY <2>1, <2>2, <2>3
<1> QED
  BY <1>1, <1>2, <1>3 DEF Next

\* The history of two nodes is the execution of the decided blocks from genesis.
THEOREM HistoryIsExecution == Spec => []ReplicasInv
BY ReplicasInit, ReplicasNext, PTL DEF Spec

\* Two nodes never commit different states for one height, whatever each of
\* them executed, abandoned or lost, and whether it asserts the invariants.
THEOREM NodesAgree == Spec => []Agreement
<1>1. ReplicasInv => Agreement
  BY DEF ReplicasInv, Fits, Agreement
<1> QED
  BY <1>1, HistoryIsExecution, PTL
=============================================================================
