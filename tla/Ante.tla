--------------------------------- MODULE Ante ---------------------------------
(***************************************************************************)
(* The ante handler (app/ante.go, app/wasm.go) in the places baseapp calls *)
(* it from: CheckTx, RecheckTx, simulation and the execution of a block,   *)
(* on several nodes of one chain with different local configurations.      *)
(*                                                                         *)
(* What is modelled from src/ is which decorators the chain has, in which  *)
(* order, and what they are given; what each one does is the SDK's, wasmd's*)
(* and ibc-go's, as the code relies on it.  A transaction has one signer   *)
(* and a list of messages; gas is counted in units; amounts of money are   *)
(* small numbers of one denomination.                                      *)
(***************************************************************************)
EXTENDS Integers, Sequences, FiniteSets, SequencesExt

CONSTANTS
  Nodes, Accounts,
  Txs,             \* the transactions of the run
  Balances,        \* account -> its balance
  Allowances,      \* <<granter, grantee>> -> what a fee grant still allows
  MinFee,          \* node -> the least fee it admits to its mempool (app.toml)
  SimulationGas,   \* node -> wasm's simulation gas limit, or None
  None,
  PoolSize,        \* bound: transactions of a mempool
  MaxHeight        \* bound: blocks

MsgKinds == {"send", "fail", "trip", "heavy", "recv"}

TxRecords ==
  [signer : Accounts, granter : Accounts \cup {None}, seq : Nat, fee : Nat,
   gas : Nat, signed : BOOLEAN, basic : BOOLEAN, timeout : Nat, msgs : Seq(MsgKinds)]

ASSUME AnteAssumption ==
  /\ Txs \subseteq TxRecords /\ \A tx \in Txs : tx.msgs # <<>>
  /\ None \notin Accounts
  /\ Balances \in [Accounts -> Nat] /\ MinFee \in [Nodes -> Nat]
  /\ SimulationGas \in [Nodes -> Nat \cup {None}]
  /\ Allowances \in [Accounts \X Accounts -> Nat]
  /\ PoolSize \in Nat /\ MaxHeight \in Nat

VARIABLES
  node,    \* what a node has: committed and checked state, mempool, height
  chain,   \* the decided blocks
  ran      \* history: per node, the transactions its blocks charged, in order

vars == <<node, chain, ran>>

-----------------------------------------------------------------------------
\* The state the decorators and the messages read and write.

\* keyed: the accounts whose public key is known; collected: what the fee collector
\* holds; counted: wasm's TX counter; disabled: the circuit breaker; received:
\* the IBC packet of "recv" is in.
Genesis ==
  [seq |-> [a \in Accounts |-> 0], keyed |-> {}, balance |-> Balances,
   allowance |-> Allowances, collected |-> 0,
   counted |-> [height |-> 0, txs |-> 0], disabled |-> {}, received |-> FALSE]

SizeGas == 1
SigGas == 1
GasOf(msg) == IF msg = "heavy" THEN 3 ELSE 1
Unlimited == 1000

\* A call of the handler: the node, the mode and the height it happens at.
Call(n, mode, height) == [n |-> n, mode |-> mode, height |-> height]

\* What passes from one decorator to the next.
Context(s) == [st |-> s, ok |-> TRUE, gas |-> 0, limit |-> Unlimited, tx |-> -1]

Refuse(c) == [c EXCEPT !.ok = FALSE]
Require(c, condition) == IF condition THEN c ELSE Refuse(c)
Consume(c, units) == Require([c EXCEPT !.gas = @ + units], c.gas + units <= c.limit)

-----------------------------------------------------------------------------
\* The decorators.

SetUpContext(c, tx, call) ==
  [c EXCEPT !.limit = IF call.mode = "simulate" THEN Unlimited ELSE tx.gas]

LimitSimulationGas(c, tx, call) ==
  IF call.mode = "simulate" /\ SimulationGas[call.n] # None
  THEN [c EXCEPT !.limit = SimulationGas[call.n]] ELSE c

CountTX(c, tx, call) ==
  IF call.mode = "simulate" THEN c
  ELSE LET n == IF c.st.counted.height = call.height THEN c.st.counted.txs ELSE 0
       IN [c EXCEPT !.tx = n,
                    !.st.counted = [height |-> call.height, txs |-> n + 1]]

CircuitBreaker(c, tx, call) == Require(c, Range(tx.msgs) \cap c.st.disabled = {})

\* ExtensionOptions, ValidateBasic and ValidateMemo depend on nothing but tx.
ValidateBasic(c, tx, call) == Require(c, call.mode = "recheck" \/ tx.basic)

TxTimeoutHeight(c, tx, call) ==
  Require(c, tx.timeout = 0 \/ call.height <= tx.timeout)

ConsumeGasForTxSize(c, tx, call) == Consume(c, SizeGas)

\* No TxFeeChecker is given, so the SDK's: the local minimum in CheckTx only.
Payer(tx) == IF tx.granter = None THEN tx.signer ELSE tx.granter
Granted(s, tx) ==
  tx.granter \in {None, tx.signer} \/ s.allowance[<<tx.granter, tx.signer>>] >= tx.fee
\* What is left of the allowances.
Spent(s, tx) ==
  IF tx.granter \in {None, tx.signer} THEN s.allowance
  ELSE [s.allowance EXCEPT ![<<tx.granter, tx.signer>>] = @ - tx.fee]
DeductFee(c, tx, call) ==
  LET payer == Payer(tx) IN
  IF /\ call.mode = "simulate" \/ tx.gas > 0
     /\ call.mode \in {"check", "recheck"} => tx.fee >= MinFee[call.n]
     /\ Granted(c.st, tx)
     /\ c.st.balance[payer] >= tx.fee
  THEN [c EXCEPT !.st.balance[payer] = @ - tx.fee,
                 !.st.collected = @ + tx.fee,
                 !.st.allowance = Spent(c.st, tx)]
  ELSE Refuse(c)

SetPubKey(c, tx, call) == [c EXCEPT !.st.keyed = @ \cup {tx.signer}]

\* ValidateSigCount: one signature.  SigGasConsume reads the account's key.
SigGasConsume(c, tx, call) ==
  Require(Consume(c, SigGas), tx.signer \in c.st.keyed \/ call.mode = "simulate")

SigVerification(c, tx, call) ==
  Require(c, /\ tx.seq = c.st.seq[tx.signer]
             /\ \/ call.mode \in {"simulate", "recheck"}
                \/ tx.signed /\ tx.signer \in c.st.keyed)

IncrementSequence(c, tx, call) == [c EXCEPT !.st.seq[tx.signer] = @ + 1]

\* Refuses a transaction of relays only, all of them done, in CheckTx alone.
OnlyRelays(tx) == Range(tx.msgs) = {"recv"}
RedundantRelay(c, tx, call) ==
  IF call.mode \notin {"check", "recheck"} \/ Head(tx.msgs) # "recv" THEN c
  ELSE Require([c EXCEPT !.st.received = TRUE], ~(OnlyRelays(tx) /\ c.st.received))

-----------------------------------------------------------------------------
\* Mutant: the simulation limit is set before the context that resets it.
AnteDecorators_LimitFirst ==
  <<"LimitSimulationGas", "SetUpContext", "CountTX", "CircuitBreaker",
    "ValidateBasic", "TxTimeoutHeight", "ConsumeGasForTxSize",
    "DeductFee", "SetPubKey", "SigGasConsume", "SigVerification",
    "IncrementSequence", "RedundantRelay">>

\* Mutant: the circuit breaker is not asked.
AnteDecorators_NoBreaker ==
  <<"SetUpContext", "LimitSimulationGas", "CountTX", "ValidateBasic",
    "TxTimeoutHeight", "ConsumeGasForTxSize", "DeductFee", "SetPubKey",
    "SigGasConsume", "SigVerification", "IncrementSequence",
    "RedundantRelay">>

\* Mutant: redundant relays are not looked for.
AnteDecorators_NoRelayCheck ==
  <<"SetUpContext", "LimitSimulationGas", "CountTX", "CircuitBreaker",
    "ValidateBasic", "TxTimeoutHeight", "ConsumeGasForTxSize",
    "DeductFee", "SetPubKey", "SigGasConsume", "SigVerification",
    "IncrementSequence">>

\* Mutant: the public key is set after the signature is checked.
AnteDecorators_PubKeyLast ==
  <<"SetUpContext", "LimitSimulationGas", "CountTX", "CircuitBreaker",
    "ValidateBasic", "TxTimeoutHeight", "ConsumeGasForTxSize",
    "DeductFee", "SigGasConsume", "SigVerification", "SetPubKey",
    "IncrementSequence", "RedundantRelay">>

\* NewAnteHandler: the chain.  A decorator that refuses ends it.
AnteDecorators ==
  <<"SetUpContext", "LimitSimulationGas", "CountTX", "CircuitBreaker",
    "ValidateBasic", "TxTimeoutHeight", "ConsumeGasForTxSize", "DeductFee",
    "SetPubKey", "SigGasConsume", "SigVerification", "IncrementSequence",
    "RedundantRelay">>

AnteHandle(name, c, tx, call) ==
  CASE name = "SetUpContext"        -> SetUpContext(c, tx, call)
    [] name = "LimitSimulationGas"  -> LimitSimulationGas(c, tx, call)
    [] name = "CountTX"             -> CountTX(c, tx, call)
    [] name = "CircuitBreaker"      -> CircuitBreaker(c, tx, call)
    [] name = "ValidateBasic"       -> ValidateBasic(c, tx, call)
    [] name = "TxTimeoutHeight"     -> TxTimeoutHeight(c, tx, call)
    [] name = "ConsumeGasForTxSize" -> ConsumeGasForTxSize(c, tx, call)
    [] name = "DeductFee"           -> DeductFee(c, tx, call)
    [] name = "SetPubKey"           -> SetPubKey(c, tx, call)
    [] name = "SigGasConsume"       -> SigGasConsume(c, tx, call)
    [] name = "SigVerification"     -> SigVerification(c, tx, call)
    [] name = "IncrementSequence"   -> IncrementSequence(c, tx, call)
    [] name = "RedundantRelay"      -> RedundantRelay(c, tx, call)

AnteHandler(s, tx, call) ==
  LET after[i \in 0 .. Len(AnteDecorators)] ==
        IF i = 0 THEN Context(s)
        ELSE LET c == after[i - 1]
             IN IF c.ok THEN AnteHandle(AnteDecorators[i], c, tx, call) ELSE c
  IN after[Len(AnteDecorators)]

\* Messages run on what the handler left; the router asks the breaker again.
HandleMsg(c, msg, tx) ==
  LET d == Consume(c, GasOf(msg)) IN
  IF ~c.ok \/ ~d.ok \/ msg \in c.st.disabled \/ msg = "fail" THEN Refuse(d)
  ELSE CASE msg = "send"  -> IF c.st.balance[tx.signer] = 0 THEN Refuse(d)
                             ELSE [d EXCEPT !.st.balance[tx.signer] = @ - 1]
         [] msg = "trip"  -> [d EXCEPT !.st.disabled = @ \cup {"send"}]
         [] msg = "recv"  -> [d EXCEPT !.st.received = TRUE]
         [] msg = "heavy" -> d

RunMsgs(c, tx) == FoldLeft(LAMBDA d, msg : HandleMsg(d, msg, tx), c, tx.msgs)

\* baseapp.runTx: what the handler wrote stays when a message fails, nothing
\* stays when the handler refuses.
RunTx(s, tx, call) ==
  LET a == AnteHandler(s, tx, call)
      r == RunMsgs(a, tx)
  IN [st      |-> IF ~a.ok THEN s
                  ELSE IF r.ok /\ call.mode = "deliver" THEN r.st ELSE a.st,
      charged |-> a.ok,
      ok      |-> a.ok /\ (call.mode \in {"deliver", "simulate"} => r.ok),
      gas     |-> IF call.mode \in {"deliver", "simulate"} THEN r.gas ELSE a.gas,
      counter |-> a.tx]

-----------------------------------------------------------------------------
Init ==
  /\ node = [n \in Nodes |-> [st |-> Genesis, check |-> Genesis, pool |-> <<>>, height |-> 1]]
  /\ chain = <<>>
  /\ ran = [n \in Nodes |-> <<>>]

\* A user, or a peer, hands a transaction to a node.
CheckTx(n, tx) ==
  LET r == RunTx(node[n].check, tx, Call(n, "check", node[n].height)) IN
  /\ Len(node[n].pool) < PoolSize /\ ~Contains(node[n].pool, tx)
  /\ r.ok
  /\ node' = [node EXCEPT ![n].check = r.st, ![n].pool = Append(@, tx)]
  /\ UNCHANGED <<chain, ran>>

\* A simulation works on a copy of the checked state and leaves nothing.
Simulate(n, tx) == RunTx(node[n].check, tx, Call(n, "simulate", node[n].height))

\* The next block is decided: the mempool of its proposer in order, and any
\* transaction a proposer that does not check may add.
Decide(n) ==
  /\ node[n].height = Len(chain) + 1 /\ Len(chain) < MaxHeight
  /\ \E k \in 0 .. Len(node[n].pool), extra \in {<<>>} \cup {<<tx>> : tx \in Txs} :
       chain' = Append(chain, SubSeq(node[n].pool, 1, k) \o extra)
  /\ UNCHANGED <<node, ran>>

\* FinalizeBlock, transaction by transaction; log is what it charges.
DeliverTx(acc, tx, call) ==
  LET r == RunTx(acc.st, tx, call) IN
  [st  |-> r.st,
   log |-> IF ~r.charged THEN acc.log
           ELSE Append(acc.log, [tx |-> tx, height |-> call.height,
                                 counter |-> r.counter, disabled |-> acc.st.disabled])]
Execute(n, block) ==
  FoldLeft(LAMBDA acc, tx : DeliverTx(acc, tx, Call(n, "deliver", node[n].height)),
           [st |-> node[n].st, log |-> <<>>], block)

\* Commit resets the checked state; the mempool drops what the block had and
\* rechecks the rest, in order.
RecheckTx(acc, tx, call, block) ==
  LET r == RunTx(acc.check, tx, call) IN
  IF Contains(block, tx) THEN acc
  ELSE [check |-> r.st, pool |-> IF r.ok THEN Append(acc.pool, tx) ELSE acc.pool]
Recheck(n, s, block) ==
  FoldLeft(LAMBDA acc, tx : RecheckTx(acc, tx, Call(n, "recheck", node[n].height + 1), block),
           [check |-> s, pool |-> <<>>], node[n].pool)

FinalizeAndCommit(n) ==
  /\ node[n].height <= Len(chain)
  /\ LET block == chain[node[n].height]
         done  == Execute(n, block)
         again == Recheck(n, done.st, block)
     IN /\ node' = [node EXCEPT ![n] = [st |-> done.st, check |-> again.check,
                                        pool |-> again.pool, height |-> @.height + 1]]
        /\ ran' = [ran EXCEPT ![n] = @ \o done.log]
  /\ UNCHANGED chain

Next ==
  \E n \in Nodes :
    \/ \E tx \in Txs : CheckTx(n, tx)
    \/ Decide(n)
    \/ FinalizeAndCommit(n)

Spec == Init /\ [][Next]_vars

-----------------------------------------------------------------------------
\* Properties.

\* Nodes with different local settings execute the same blocks to the same
\* state: the minimum fee, the simulation limit and the relay check must not
\* reach the execution of a block (NewAnteHandler gives all three to decorators
\* that run there).
NodesAgree ==
  \A m, n \in Nodes : node[m].height = node[n].height => node[m].st = node[n].st

\* No transaction is charged twice and none out of its turn: an account's
\* charged transactions carry its sequence numbers from the first.
SequencesInOrder ==
  \A n \in Nodes : \A i \in DOMAIN ran[n] :
    LET signer == ran[n][i].tx.signer
    IN ran[n][i].tx.seq = Cardinality({j \in 1 .. i - 1 : ran[n][j].tx.signer = signer})

\* The fees of exactly the charged transactions are collected, whether their
\* messages succeeded, failed or ran out of gas.
FeesCollected ==
  \A n \in Nodes :
    node[n].st.collected = FoldLeft(LAMBDA x, e : x + e.tx.fee, 0, ran[n])

\* Contracts see a different counter for each transaction of a block, without
\* gaps, although refused transactions and other modes count too (CountTX).
CountersConsecutive ==
  \A n \in Nodes : \A i \in DOMAIN ran[n] :
    LET height == ran[n][i].height
    IN ran[n][i].counter = Cardinality({j \in 1 .. i - 1 : ran[n][j].height = height})

\* A transaction with a message the breaker has disabled is not even charged.
DisabledNotCharged ==
  \A n \in Nodes : \A i \in DOMAIN ran[n] :
    Range(ran[n][i].tx.msgs) \cap ran[n][i].disabled = {}

\* A simulation that answers has kept to the node's limit.
SimulationLimited ==
  \A n \in Nodes, tx \in Txs :
    SimulationGas[n] # None /\ Simulate(n, tx).ok =>
      Simulate(n, tx).gas <= SimulationGas[n]

\* A mempool holds, for each account, a run of sequence numbers that starts
\* where the committed state stands, across blocks of other proposers, failed
\* messages and rechecks that verify no signature.
MempoolRuns ==
  \A n \in Nodes : \A i \in DOMAIN node[n].pool :
    LET tx     == node[n].pool[i]
        before == {j \in 1 .. i - 1 : node[n].pool[j].signer = tx.signer}
    IN tx.signed /\ tx.seq = node[n].st.seq[tx.signer] + Cardinality(before)

\* A mempool does not carry a packet twice, nor one that is already in.
PacketRelayedOnce ==
  \A n \in Nodes :
    Cardinality({i \in DOMAIN node[n].pool : OnlyRelays(node[n].pool[i])})
      <= (IF node[n].st.received THEN 0 ELSE 1)

\* What a node's own configuration sets stays in that node: it decides about
\* its mempool and its simulations and never about the execution of a block.
SettingsStayLocal == NodesAgree /\ SimulationLimited

\* What the handler leaves of a transaction is what the order of its decorators
\* promises: fee, sequence and counter together or none of them, also when the
\* handler refuses late or the messages fail after it.
ChargesInOrder ==
  SequencesInOrder /\ FeesCollected /\ CountersConsecutive /\ DisabledNotCharged

\* A mempool is a block that could be executed as far as its owner knows.
MempoolCanRun == MempoolRuns /\ PacketRelayedOnce

\* A well-formed transaction with a good signature, its turn's sequence and its
\* fee is charged: also the first one of an account without a public key.
Deserves(s, tx, height) ==
  /\ tx.basic /\ tx.signed /\ tx.seq = s.seq[tx.signer]
  /\ tx.gas >= SizeGas + SigGas
  /\ tx.timeout = 0 \/ height <= tx.timeout
  /\ s.balance[Payer(tx)] >= tx.fee /\ Granted(s, tx)
  /\ Range(tx.msgs) \cap s.disabled = {}
GoodTxsCharged ==
  \A n \in Nodes, tx \in Txs :
    Deserves(node[n].st, tx, node[n].height) =>
      RunTx(node[n].st, tx, Call(n, "deliver", node[n].height)).charged

=============================================================================
