------------------------------ MODULE Replicas ------------------------------
(***************************************************************************)
(* Two nodes of one chain: the same genesis file and the same decided      *)
(* blocks, but each with its own schedule, its own crashes and its own     *)
(* --inv-check-period, which is a flag of the process and not of the       *)
(* chain.  Node A takes part in consensus and executes proposals           *)
(* optimistically; node B follows, as a node that syncs does, and runs     *)
(* only decided blocks, any number of blocks behind or ahead of A.         *)
(***************************************************************************)
EXTENDS MintParams, Sequences

CONSTANTS
  NoParams, ConfigAuthority, GenesisParams, GenesisSupply, Fee, SendAmounts,
  UpdateChoices, VotingPeriod, MaxHeight,
  InvCheckPeriodA, InvCheckPeriodB, MaxCrashesA, MaxCrashesB

ASSUME ReplicasAssumption ==
  /\ NoParams \notin Params
  /\ GenesisParams \subseteq Params
  /\ GenesisSupply \in [Denoms -> 0 .. MaxInt]
  /\ Fee \in [Denoms -> Nat]
  /\ SendAmounts \subseteq Nat
  /\ UpdateChoices \subseteq Params
  /\ VotingPeriod \in Nat /\ MaxHeight \in Nat
  /\ InvCheckPeriodA \in Nat /\ InvCheckPeriodB \in Nat
  /\ MaxCrashesA \in Nat /\ MaxCrashesB \in Nat

VARIABLES
  genesis,  \* the genesis file both nodes started from
  log,      \* the blocks consensus has decided, in order
  results,  \* history: what the first node to commit a height committed
  paramsA, balA, supplyA, maccA, haltedA, donatedA, propA, committedA, stageA,
  nextA, execA, decidedA, optA, paidA, crashesA,
  paramsB, balB, supplyB, maccB, haltedB, donatedB, propB, committedB, stageB,
  nextB, execB, decidedB, optB, paidB, crashesB

varsA == <<paramsA, balA, supplyA, maccA, haltedA, donatedA, propA,
           committedA, stageA, nextA, execA, decidedA, optA, paidA, crashesA>>
varsB == <<paramsB, balB, supplyB, maccB, haltedB, donatedB, propB,
           committedB, stageB, nextB, execB, decidedB, optB, paidB, crashesB>>
vars  == <<genesis, log, results, varsA, varsB>>

A == INSTANCE Node WITH
       params <- paramsA, bal <- balA, supply <- supplyA,
       macc <- maccA, halted <- haltedA, donated <- donatedA,
       prop <- propA, committed <- committedA, stage <- stageA,
       next <- nextA, exec <- execA, decided <- decidedA,
       opt <- optA, paid <- paidA, crashes <- crashesA,
       InvCheckPeriod <- InvCheckPeriodA, MaxCrashes <- MaxCrashesA

B == INSTANCE Node WITH
       params <- paramsB, bal <- balB, supply <- supplyB,
       macc <- maccB, halted <- haltedB, donated <- donatedB,
       prop <- propB, committed <- committedB, stage <- stageB,
       next <- nextB, exec <- execB, decided <- decidedB,
       opt <- optB, paid <- paidB, crashes <- crashesB,
       InvCheckPeriod <- InvCheckPeriodB, MaxCrashes <- MaxCrashesB

Init ==
  /\ A!NodeInit /\ B!NodeInit
  /\ log = << >> /\ results = << >>

\* Consensus decides a height once: the first node to learn of it extends the
\* log, the other one reads it there.
Agrees(height, b) ==
  IF height <= Len(log) THEN b = log[height] /\ UNCHANGED log
                        ELSE log' = Append(log, b)

Record(committed) ==
  IF committed.height > Len(results) THEN results' = Append(results, committed)
                                     ELSE UNCHANGED results

\* A proposal may be processed as long as the height is not decided.
StepA ==
  /\ \/ /\ \E b \in A!Blocks : A!Decide(b) /\ Agrees(A!Height, b)
        /\ UNCHANGED results
     \/ /\ A!Height > Len(log)
        /\ \E b \in A!Blocks : A!ProcessProposal(b)
        /\ UNCHANGED <<log, results>>
     \/ A!Commit /\ Record(committedA') /\ UNCHANGED log
     \/ /\ \/ A!Start \/ A!InitChain \/ A!Crash
           \/ A!KeepOptimistic \/ A!AbortOptimistic \/ A!FinalizeBlock
           \/ A!BeginBlock \/ A!DeliverTx \/ A!EndBlock
        /\ UNCHANGED <<log, results>>
  /\ UNCHANGED varsB

StepB ==
  /\ \/ /\ \E b \in B!Blocks : B!Decide(b) /\ Agrees(B!Height, b)
        /\ UNCHANGED results
     \/ B!Commit /\ Record(committedB') /\ UNCHANGED log
     \/ /\ \/ B!Start \/ B!InitChain \/ B!Crash
           \/ B!FinalizeBlock \/ B!BeginBlock \/ B!DeliverTx \/ B!EndBlock
        /\ UNCHANGED <<log, results>>
  /\ UNCHANGED varsA

Next ==
  \/ StepA
  \/ StepB
  \/ A!Terminated /\ B!Terminated /\ UNCHANGED vars

Spec == Init /\ [][Next]_vars

-----------------------------------------------------------------------------
\* Two nodes never commit different states for one height (their application
\* hashes agree), whatever one of them executed, abandoned or lost on the
\* way, and also where only one of them asserts the invariants: that node
\* stops, it does not diverge.
Agreement ==
  /\ committedA.height > 0 => results[committedA.height] = committedA
  /\ committedB.height > 0 => results[committedB.height] = committedB
=============================================================================
