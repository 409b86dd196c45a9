# bluechip-chain in TLA+

This directory is a TLA+ development of the bluechip chain: a Cosmos SDK
application (Go) with one module of its own, `x/fixedmint`, that mints a fixed
reward in every block. The modules model the program under `src/`; TLC checks
them on small instances (the `MC*` files) and TLAPS proves theorems about them
for every value of their constants (the `*_proofs` modules). `PROJECT.json` maps
every definition to the lines it models, lists the runs, and for each property a
mutation of the model that breaks it.

## 1. The system

| Component | State | Operations | Works with |
|---|---|---|---|
| `x/fixedmint` (`x/fixedmint/keeper`, `types`, `module`) | the parameters (denomination, amount, enabled) under one store key | `InitGenesis`, `BeginBlock` → `MintFixedBlockReward`, `MsgUpdateParams`, the registered invariant, the query of the parameters, `ExportGenesis` | mints and transfers through `x/bank`; the module account lives in `x/auth`; its invariant is run by `x/crisis`; its authority is `x/gov` |
| generated code (`types/*.pb.go`, `api/**/*.pulsar.go`) | none | `Size`, `Marshal`, `Unmarshal`, `Equal` and protobuf reflection of the module's messages, twice | the node stores and receives with the first; clients, the signer lookup and the module's own configuration use the second |
| application block life cycle (`app/app.go`) | the committed store, the state of the running block, the optimistic execution | load, `InitChain`, `ProcessProposal`, `FinalizeBlock`, `Commit` | consensus (CometBFT) calls it; it calls the modules in the order of `app/app_config.go` |
| construction (`app/app.go`, `app_config.go`, `ibc.go`, `wasm.go`, `cmd/.../commands.go`) | store keys, subspaces, capability scopes, keepers, routes, handlers; the lock of the wasm VM | `New`, `registerIBCModules`, `registerWasmModules`, `newApp`, `appExport` | the container, `x/capability`, ibc-go, wasmd |
| ante handler (`app/ante.go`) | none of its own; changes accounts, fees, wasm's counter | thirteen decorators before a transaction's messages | called in `CheckTx`, recheck, simulation and blocks |
| upgrades (`app/upgrades.go`) | the module version map, the plan | the `v1.1.0` handler, the custom init chainer | `x/upgrade` as preblocker; operators who change binaries |
| state export (`app/export.go`) | distribution and staking records | `ExportAppStateAndValidators`, `prepForZeroHeightGenesis` | reads and rewrites staking, distribution and slashing; runs the invariants |
| multi-node testnet (`cmd/.../testnet_multi_node.go`) | files on disk | generate the configuration of n nodes | genutil's collection of genesis files |
| in-place testnet (`cmd/.../testnet.go`) | a chain's stores, CometBFT's validator sets | take over the state of a running chain | staking, distribution, slashing, bank records |
| command line (`cmd/.../root.go`, `commands.go`, `config.go`) | configuration | flags and defaults (`--inv-check-period`, minimum gas prices and wasm's simulation limit are inputs of the models) | constructs the application |

The behaviours that are hard here: a proposal is executed before it is decided
and may have to be abandoned in the middle (`app.go:265`); the process can die at
any step and replays the decided block; the reward of a block is paid out by the
begin blocker of the next one, so the order of two modules in a list decides who
is paid; parameters change in the end blocker, between two uses; a begin blocker
that panics cannot be corrected by a later block, because there is none; an
operation of several steps (a proposal's messages) must be undone as a whole; a
transaction is checked, rechecked, simulated and executed against four states by
one chain of decorators, some of which look at settings of the node; operators
change binaries each in his own time; half of the modules are registered by hand
around a container that builds the others; the in-place testnet deletes records of
four modules and leaves others that refer to them, on a disk that is written only
with the next block; the zero-height export ignores errors of some of its steps and
not of others; and two sets of generated code must agree on every byte.

What makes each component correct:

* `x/fixedmint`: the supply grows by exactly one reward per block and only then;
  all of a reward reaches the fee collector; parameters change only by the
  authority; whatever a check accepts can be minted.
* generated code: a value survives every path between a client, a message, a
  proposal, the store, a query and a genesis file.
* life cycle: the state a block is executed on is the committed one, whatever was
  abandoned; what is committed is the decided block; a decided block is
  eventually committed; nodes that commit the same height commit the same state.
* construction: nothing is used before it is made, made twice, or missing at the end.
* ante handler: a refused transaction leaves no trace; fees are kept when a message
  fails; settings of one node do not decide about a block.
* upgrades: each migration runs once; code and state fit; no state is a dead end.
* export: conservation of coins through withdrawal and reinitialisation, a
  validator set that matches the records exported with it.
* testnet tools: nodes that can run side by side and agree on a genesis; a
  taken-over chain that executes blocks, with the powers consensus knows.

## 2. The modules

| Module | Models | Kind |
|---|---|---|
| `MintParams` | `types/params.go`, `msg_update_params.go`, the store round trip in `params.pb.go` | pure operators |
| `FixedMint` | the keeper, message server, genesis and invariant of `x/fixedmint`, and of bank/auth what they call | state machine, operations in any order |
| `MintLedger` | what the module promises of a chain: one reward per committed block | abstract specification |
| `Node` | one node: `FixedMint` inside the block life cycle, optimistic execution, crash and replay, one transaction per block, governance, crisis | state machine, EXTENDS `FixedMint` |
| `BlockExecution` | what one block makes of the committed state, stage by stage, as a function of that state and the block | operators, EXTENDS `Node` |
| `Replicas` | two nodes on one sequence of decided blocks, crashing and executing independently | composes two `Node`s |
| `ZeroHeightExport` | `app/export.go`, and of distribution, staking and slashing what it calls | state machine, one call |
| `MultiNodeTestnet` | `cmd/.../testnet_multi_node.go` | state machine, calls on one directory |
| `InPlaceTestnet` | `cmd/.../testnet.go`, and of staking, distribution and slashing what the following blocks do with its records | state machine, one node over calls, crashes and blocks |
| `Ante` | `app/ante.go`, `setAnteHandler` of `wasm.go`, and of baseapp what calls the handler | state machine, several nodes, mempools and blocks |
| `AppStartup` | `app.New`, `app_config.go`, `ibc.go`, `wasm.go`, `newApp`, `appExport` | operators: a fold over the steps of the construction |
| `Upgrade` | `app/upgrades.go`, the init chainer, `x/upgrade` as they rely on it | state machine, several nodes, two binaries; EXTENDS `AppStartup` |
| `Wire` | the protobuf wire format as the generated code reads and writes it | pure operators |
| `GogoCodec`, `PulsarCodec` | `types/*.pb.go`; `api/bluechipchain/fixedmint/**/*.pulsar.go` | pure operators, EXTEND `Wire` |
| `ParamsWire` | the parameters as bytes, between clients, proposals, store, queries and genesis files | composes `GogoCodec` and `PulsarCodec` (INSTANCE) |
| `ParamsRegister` | what the parameters promise, whatever bytes they travel in | abstract specification, implemented by `ParamsWire` |
| `Node_proofs` | theorems and proofs about `FixedMint` by itself, and about `Node` and `BlockExecution` | TLAPS |
| `Replicas_proofs`, `ZeroHeightExport_proofs`, `MultiNodeTestnet_proofs`, `InPlaceTestnet_proofs`, `Ante_proofs`, `Upgrade_proofs`, `ParamsWire_proofs` | theorems and proofs about the module of that name | TLAPS |
| `MCFixedMint`, `MCNode`, `MCReplicas`, `MCZeroHeightExport`, `MCMultiNodeTestnet`, `MCInPlaceTestnet`, `MCAnte`, `MCUpgrade`, `MCParamsWire` | constants for TLC | model checking |

### MintParams

A denomination is well formed (`Denoms`), malformed but not empty (`BadDenoms`)
or empty. Amounts are the integers `math.Int` can hold, and `NilInt`, the zero
value of `math.Int`: a field absent from a message or a JSON genesis. `Validate`
has three outcomes, because `IsNegative` of a nil amount dereferences a nil
pointer. `Stored` is what a value becomes through `Marshal` and `Unmarshal`: a
nil amount becomes zero. `SkipsMint` short-circuits as the `||` of
`keeper.go:23` does.

### FixedMint

`params` is the stored value, `bal`/`supply` the bank, `macc` what lives at the
module address in `x/auth` (nothing, an ordinary account, the module account):
`MintCoins` creates the account when there is none and panics on an ordinary one.
`halted` records that a panic has left the application. `donated` is a history
variable: what bank messages have paid to the module address. All accounts that
are not module accounts are the one account `users`; nothing in the module tells
them apart. The address of `fixedmint` is not in `blockAccAddrs`
(`app_config.go:169`), so `Send` may pay it.

`MintReward` is the whole of `MintFixedBlockReward` after its early return, both
bank calls; `PanickingMint` are the outcomes in which it panics. `x/bank`'s
errors (not enough coins, unknown module) cannot occur between the two calls: the
coins were minted by the first.

`x/mint` runs before `x/fixedmint` in the begin blockers. The repository's
`genesis.json` sets its inflation to zero, and so do the models: it issues nothing.

### Node

The variables of `FixedMint` are the working state (`finalizeBlockState`),
`committed` the state on disk. `stage` and `next` are the program counter of a
block: `begin` (the begin blockers in the order of `app_config.go`, as
`BeginBlockers`), `ante`, `msgs`, `end` (the end blockers), `executed`. `exec` is
the block being executed, `opt` says whether it is executed ahead of its decision,
`decided` is what consensus decided for the next height; it survives a crash (the
write-ahead log of the consensus engine).

`ProcessProposal` starts an optimistic execution and abandons one that runs;
`KeepOptimistic` and `AbortOptimistic` are the two branches of `FinalizeBlock` when
something runs; `FinalizeBlock` is the branch when nothing does (first block and
replay; `ProcessProposal` of a first block accepts without executing). A proposal
may arrive and a decision may fall between any two steps of an execution: in the
program the execution runs in a goroutine of its own (`app.go:265`). A panic of
the execution ends the process (`Die`).

Simplifications, all of the data and none of the control: a block carries at most
one transaction, with one message; at most one proposal is open (`Proposable`);
`VotingPeriod` counts blocks where gov counts time; a vote is the one that decides;
deposits stay with the proposer. `Fee` is the same for all transactions.

### BlockExecution

`NextState(s, b)` is the state a commit writes when block `b` is executed on `s`: one
operator for each stage of `Node`, without optimistic execution, crashes or the
`--inv-check-period` of the process. `WorkFollows` says of each stage of a node that
its working state is what these operators make of `Base`. It is no module of a run:
it states what the proofs of `Node` and `Replicas` have in common.

### Replicas

Two instances of the node's block execution share the sequence of decided blocks;
each has its own `--inv-check-period`, its own schedule and its own crashes. Node A
takes part in consensus and executes proposals optimistically; node B runs decided
blocks only, as a node that syncs does. `Agreement`: what both have committed at a
height is the same state.

### ZeroHeightExport

One call of `ExportAppStateAndValidators`. `phase` is its program counter and `todo`
what the loop of the phase has not visited yet: validators in the order of their
addresses (a keeper iterates them), delegations in any order. Nothing undoes the
steps before a failure (`phase = "failed"`: `log.Fatal` or a panic of a keeper).

The keepers are external and modelled from what `export.go` calls on them. Rewards
are amounts of one coin in fractions, `Unit` of them to a coin: a withdrawal pays
whole coins and leaves the rest in the records, which is what the donation at
`export.go:123` is about. `owed` stands for what the reward calculation yields for
each delegation; `Init` lets the records be any that add up to it. The historical
rewards are kept as their reference counts only. A count below zero stands for the
panic of the keeper on a reference that is not there, so `TypeOK` says that this
panic does not happen. `paid` is a history variable. `residue` says whether the
fixedmint invariant, asserted first, is broken. The only error of a withdrawal that
can occur and is ignored is "no commission"; the delegations are read from the same
store as the validators they name.

`allowed` is `--jail-allowed-addrs`. An address in it that does not parse ends the
call. A validator that is not in a list is jailed through `SetValidator`, which
does not touch the power index; `ApplyValidatorSet` reads the index.

### MultiNodeTestnet

The command as a process (`stage`, `at`, `args`, `appState`) that works on a disk
(`coin`, `gentx`, `genesis`, `config`): the disk outlives the call, and `MaxCalls`
calls, complete, failed or interrupted, follow each other on one output directory.
Node k's account is made anew in each call, so the pair of k and the call stands for
the account and for the genesis transaction signed by it. `RemoveAll` are the three
errors that remove the directory (`testnet_multi_node.go:205`, 211, 238), `Fail` is
any other error, and an interrupt.

The copies of the genesis transactions go file by file, in the order of the two
loops; the error of a copy is dropped, and the file to be replaced stays as it was,
or is cut off (`Broken`). `CollectGenFiles` is one node of the loop of
`collectGenFiles`: it reads all transactions in the node's directory, keeps the
state of the first node for all, and writes the ports of `config.toml`. A call for
fewer nodes than an earlier one finds transactions of nodes it does not have: they
are not funded in its genesis file, and the call fails rather than include them.
`MakeKeys` and `WriteGentx` split a round of the first loop where the interesting
failures fall. A call for no node (`--v 0`) is outside the bounds.

### InPlaceTestnet

The process (`stage`) has the root multistore in memory (`work`), which it wrote to
without committing, the cache of a block (`block`), and the two disks: the
application's (`disk`) and CometBFT's validator sets (`comet`). `newTestnetApp` is
the command up to the return of `newTestnetApp`, with `initAppForTestnet` as one
operator per section of it; `RewriteConsensus` is what the SDK's command does next;
`Start` is the ordinary start command, and `Crash` may come between any two of them.
The rest are the SDK's modules as far as they follow the records: the votes of the
last commit, the periods and reference counts of distribution, the validator set
update and the queue of unbonding validators.

The command gives CometBFT `valVotingPower`, the number of tokens, where staking
divides by the power reduction (`BondedPower`), and records the last power as zero;
the first block reports the difference, and CometBFT follows two heights later.

What the model leaves out or assumes: `--inv-check-period` is 0 (the invariants of
staking do not hold of a state whose validators were deleted and whose delegations
were kept); coins other than the funded ones; the upgrade the command may schedule
(the plan is that of `Upgrade`). `DelegationsWithdraw` speaks of operators that had
no delegations when the command took them: delegations to a reused operator refer to
periods the command has overwritten, and taking those back may panic in the
transaction. An undelegation that would take the last of a validator's power is left
out. A process that dies after CometBFT was rewritten and before the first
commit, and is started with the plain `start` command, has a validator set its
application does not know (`lost`): no block executes until the command is given
again.

### Ante

A node has the committed state, the checked state and a mempool. `CheckTx`, `Decide`
(the proposer's mempool, and any transaction a careless proposer adds),
`FinalizeAndCommit` with the recheck of what stays in the mempool. `Execute` folds
`DeliverTx` over the block and `Recheck` folds `RecheckTx` over the mempool, dropping
what the block had. `Simulate` is an
operator: a simulation leaves nothing. `AnteDecorators` is the chain of
`NewAnteHandler` in order, `AnteHandler` its evaluation up to the first refusal, and
each decorator an operator; those are the SDK's, wasmd's and ibc-go's. Four are left
out or folded: the gas register of wasmd and the extension options write nothing
here, and memo and signature count refuse a transaction by itself, as
`ValidateBasic` does. `ran` is history: what a node's blocks have charged.

### AppStartup and Upgrade

A step of the construction uses things and makes things: store keys, parameter
subspaces, capability scopes, keepers, routes, modules, handlers. What is missing is
a nil pointer or the panic of a constructor, what is made twice a panic. `New` folds
the steps in the order of `app.New`, through `registerIBCModules` and, in its middle,
`registerWasmModules`; `Builds` tells how `newApp` and `appExport` end for each fault
from outside. The order of genesis and the blockers are those of `app_config.go`.
The same construction is used for the old binary, whose source is not in the
repository.

In `Upgrade` a node is a disk and a process, down or up as `Builds` says, on one of
two binaries. Blocks are decided once; each node runs them at its own pace, on the
binary it has: governance schedules, replaces and cancels plans, operators change
binaries too early, late or back, or agree to skip a plan nobody has a handler of.
`InitChainer` is the custom one of `New`, which stores the versions of all modules;
`RunMigrations` and the conditions under which the preblocker stops a node are the
SDK's. The history variables `inits`, `moved` and `ranOn` are part of the state of
the disk. There is no liveness: nothing in the code makes an operator act.

Worth knowing, though no property is about it: the wasm VM's directory is under
`DefaultNodeHome` whatever `--home` says (`wasm.go:59`), so that nodes of one host
take the lock from each other, also those of the multi-node testnet ("running
locally via separate processes", `testnet_multi_node.go:70`); the handler of
`v1.1.0` is in this binary, so a chain that runs it stops with "binary updated
before trigger" when the plan is scheduled for a later height; no store loader is
set, so an upgrade cannot add a store; and the names that
`registerIBCModules` scopes are not in `ScopedKeepers`, so that
`GetCapabilityScopedKeeper` would scope them a second time, which panics
(`app.go:389`).

### Wire, GogoCodec, PulsarCodec, ParamsWire

A byte string is a sequence of fields, each with number, wire type, length and
value; the texts in them are opaque and have a length. `Buffered` is the hazard of
both generators: a marshaller fills a buffer from its end, and a size that was
computed differently from what is written leaves bytes nobody can read. `Sov` is the
size of a varint as it is computed and `EncodeVarint` as it is written.

`GogoCodec` reads amounts as numbers (an absent one leaves what was there, `nil` is
written as zero), `PulsarCodec` as texts, keeps unknown fields, and has the
reflection methods through which generic code sees a message. `ParamsWire` lets
values travel: genesis, export and import, messages from clients on either set of
code and from foreign encoders, proposals that are stored, shown to voters by
clients on the api module, exported with the chain and decoded when they pass,
queries answered by this or a later server, and the module's configuration, from
which `ProvideModule` takes the authority. The transaction decoder (unknown fields
refused unless bit 10 of their number is set), `x/gov` and jsonpb are external; that
the decoder of the cosmos-proto runtime merges a repeated nested message is assumed.

Consequences of the code that the foreign encodings in `MCForeign` meet: an amount
that is left out is zero from a client on the module's types and `nil`, which
`Validate` dereferences, from one on the api module; an amount that is given twice,
empty the second time, keeps its first value in the node and is shown empty by the
api module; and `UnmarshalText` reads base prefixes, so "010" is eight and "0x10"
sixteen. None of these breaks a property below, which speak of what a stored proposal
shows and of what clients of this repository send.

## 3. The runs

Every passing run explores its state space completely.

| Run | Question | Bounds |
|---|---|---|
| `fixedmint` | the module under every order of calls, by everybody | two denominations, amounts up to 2, supply up to 2 (the width is reached, so overflow happens) |
| `node` | the life of a chain: optimistic execution, one crash, governance, and that a decided block is committed | three blocks, one crash, valid parameters |
| `node_faults` | genesis files and updates that cannot be minted, a configured authority, payments to the module address before the first mint, asserted invariants | six kinds of genesis parameters, three blocks, one crash, supply up to 7 |
| `replicas` | two nodes commit the same states | two blocks; node A crashes once and asserts the invariants in every block, node B does neither |
| `export` | a zero-height export loses nothing, leaves records a chain can start from, and fails for known reasons only | two validators for one place in the set, three delegations, each amount zero or with a fraction, tied and different tokens, jailed or unbonding validators, every list of allowed addresses |
| `testnet` | a successful call leaves a testnet, whatever was there before | two calls for up to three nodes, an error, interrupt or lost copy at any step |
| `inplace` | a taken-over chain executes blocks, agrees with consensus on powers, pays delegations back, funds once | a chain of two validators, one of them unbonding; either or a new operator, its old or a new key; two calls, three blocks, two delegators, four periods, crashes anywhere |
| `ante` | what the order of the decorators promises, in all four modes | two nodes with different minimum fees and simulation limits, two accounts, eight transactions, mempools of two, two blocks |
| `upgrade` | construction, migrations, code and state on every node | two nodes, two binaries, an injected module and one registered by hand, two plans (one without a handler anywhere), three blocks, three faults of a start |
| `params_wire` | two sets of generated code and foreign encoders agree on the parameters | denominations of 4, 121 and 128 bytes, every stored amount, seventeen foreign encodings, one client, one proposal |
| `validate`, `export_at_height` | what a comment or a name says and the code does not keep | expected violations, section 6 |

What the properties mean, for the runs with several questions in one:
`RecordsFitTogether` joins reference counts, heights and validator set of an export;
`SettingsStayLocal` the agreement of nodes and the simulation limit; `ChargesInOrder`
the sequences, fees, counters and disabled messages of charged transactions;
`MempoolCanRun` sequence numbers and relays in a mempool; `BlocksOnRightCode` the
agreement of nodes and the fit of code and state. Their parts are definitions of
their own in the modules.

Why the bounds are enough. Three blocks are the shortest chain in which a proposal
is submitted, voted on and executed, and its parameters are in force in a block
after it. With a configured authority an update takes one transaction, so three
blocks also hold a payment to the module address, an update that enables minting,
and the mint that meets the ordinary account. One crash may fall between any two
steps, and the state after a restart does not depend on how often it happened
(theorem `AbandonedLeavesNoTrace`). Two denominations suffice to see a change of the
minted one; the properties are pointwise in the denomination.

In `export` one validator has two delegations, so that a period is closed and
referred to while another delegation still refers to an older one; one place in the
set is what it takes for a jailed validator to be replaced by another one. In
`testnet` three nodes are needed for a copy that is neither from nor to the first
node, and the second call sees all that a first one can leave; what is proved of it
holds for any number of both.

In `inplace` a second call meets the state of the first, committed or lost, and
three blocks are the two that CometBFT needs to follow an update and one more; four
periods let two delegators come, withdraw and go. In `ante` the transactions differ
in what the decorators look at: a second payment the account cannot afford, a message
that fails, one that trips the breaker, one that runs out of gas, a fee grant for one
fee, a packet two accounts relay, a bad signature, a malformed body, a timeout; a
mempool of two holds a run of sequence numbers or two relays, and a second block is
executed on what the first changed, with a recheck in between. In `upgrade` three
blocks schedule a plan, run or skip it, and schedule one again; two versions apart
make the order of migrations visible. In `params_wire` the lengths are chosen so that
texts and nested messages lie on both sides of 127, where a length takes a second
byte.

Fairness (`node`): weak fairness of starting the process, of `InitChain`, and of
executing what was decided, for `DecidedIsCommitted`. The operator or a supervisor
restarts the process; the execution of a block waits for nothing outside the
process. Nothing is assumed of consensus: proposals and decisions may stop. Crashes
are bounded by `MaxCrashes`, so the liveness says "if crashes stop for long enough",
as it must.

Deadlock: `FixedMint` is checked without deadlock detection, since a halted
process does nothing; so are `ZeroHeightExport` and `MultiNodeTestnet`, whose calls
end, and `InPlaceTestnet`, `Ante` and `Upgrade`, whose blocks are bounded by
`MaxHeight`. In `Node`, `Replicas` and `ParamsWire` a state without a successor would
be a mistake: a chain that has run its `MaxHeight` blocks stutters explicitly
(`Terminated`), and a client can always close its draft.

## 4. What is proved

TLAPS checks the `*_proofs` modules. Their assumptions are the `ASSUME`s of the
modules they extend, and TLC evaluates those in the runs:

| Assumption | Says |
|---|---|
| `DenomsAssumption`, `AmountsAssumption`, `NoParamsAssumption` | denominations are disjoint from malformed ones, amounts are in the width, the marker is no parameter |
| `NodeAssumption`, `ReplicasAssumption` | the genesis supply fits the width, fees and sent amounts are natural numbers, the sets of parameters are parameters |
| `ExportAssumption` | finitely many validators and delegations, at least one of each, amounts are natural numbers, a coin has at least one unit |
| `TestnetAssumption`, `NothingAssumption` | at least one node and one call, stakes are integers or do not parse, the marker is no file |
| `InPlaceAssumption` | powers are positive, validators of the chain have different keys, the marker is neither an operator nor a key |
| `AnteAssumption` | transactions have at least one message, balances, fees and limits are natural numbers |
| `LengthAssumption` | a text has between 0 and `MaxTextBytes` bytes, the largest block CometBFT accepts, and only the empty one has none |
| `TextAssumption` | denominations are texts, every text parses to something, and the decimal form of an amount is a text that is not empty and parses back to it |
| `WireAssumption` | addresses and what users type are texts; where a foreign message can be read as one, its denominations are denominations of the model; what a later server adds can be skipped and has none of this version's field numbers |
| `UpgradeAssumption` | this binary has the handler of one plan and the old one none; no module's version goes down |

*`x/fixedmint` alone* (the first section of `Node_proofs`). `Inv` is the conjunction of `TypeOK`, `SupplyIsHeld` and
`ResidualIsDonated`. It is inductive as it stands, but none of its parts is: that
balances stay natural numbers needs the guards of the transfers, that the supply
stays within its width needs that an overflow panics before anything is written,
and the residue needs both balances of the forward. The lemmas `MoveAt`,
`MoveType` and `MoveHeld` say what a transfer does to one balance, to the type and
to the total. `BaseAccountIsFinal` is an action property: nothing turns an ordinary
account at the module address into a module account.

*The node.* `NodeInv` says what the working state is at each stage relative to
`Base`, the state the block was begun on (the committed state, or the genesis state
before the first commit):

* idle, and before the first begin blocker: equal to `Base` (`StartsFromBase`);
* between the two begin blockers: parameters, supply and account equal to `Base`, an
  empty fee collector (`AfterPayout`);
* from the mint to the commit: the supply of `Base` plus one reward, parameters equal
  to `Base` or to a validated update (`AfterMint`), and a fee collector with one
  block's income (`PoolHoldsOneBlock`);
* an open proposal carries parameters `ValidateBasic` accepted, and so does an update
  behind the ante handler (`UpdatesChecked`); an optimistic execution exists only
  after the first commit (`OptimisticLater`), which is what lets an abandoned one go
  back to the committed state.

The property of a commit, that it adds exactly one reward, is about the distance of
two states many steps apart; the stages carry it from one to the other. From
`NodeInv` follow `NodeTypes`, `NodeSupplyConserved`, `PoolOfOneBlock`,
`AbandonedLeavesNoTrace`, the action property `DoomedForever`, and the refinement
`CommitsTheLedger`: under the mapping `height` ← committed height, `inForce` ←
`Base.params`, `issued` ← supply above genesis, a commit is a `CommitBlock` of
`MintLedger` and every other step stutters. `DecidedIsExecuted` is inductive by
itself. The theorems hold for any number of blocks, crashes, denominations and any
width of integers.

`ExecutionFollows` strengthens this from relations to equations: `FollowsInv` says that
the working state at each stage is that of `BlockExecution` (`WorkFollows`), that a
stage of a block is a stage of some block, and that a block which submits a proposal
was begun where none is open. `BlockIsAFunction` is its consequence for a commit:
what is written is `NextState` of the committed state and the decided block.
`OnlyTheAuthority` follows from the function alone: the parameters of `NextState`
differ from those before only if a passed proposal was due, or the authority signed.

*Replicas.* Both instances satisfy `FollowsInv`, which is instantiated from
`Node_proofs`; `ReplicasInv` adds that the history of results is the execution of the
log from genesis (`Follows`), and that each node's base and decided block are the
history's at its height (`Fits`). `NodesAgree` is then that two nodes at one height
read the same entry. The nodes' crashes, schedules and `--inv-check-period` do not
occur in the argument after `FollowsInv`.

*The zero-height export.* `ExportInv` says, phase by phase, who has been paid
(`Payments`), what the records of a validator must still hold for those that wait
(`Amounts`), that historical rewards are referred to exactly as often as their
counts say (`Referred`, with `PeriodsFit` bounding the periods by the number of
visits), which heights are reset (`Heights`) and who is jailed or in the index
(`Jailing`). Sums over the validators and cardinalities over delegations need lemmas
of their own (removal and change of one summand, monotonicity), proved by a least
counterexample over the size of the set, since the library's induction rules cannot
be instantiated here. From it follow the type invariant with the panics it excludes
(`NoNegativeAmount`), the conservation of the escrow through every rounding
(`EscrowAccounted`), `NobodyUnpaid`, `OneGenesis` and `KnownFailures`, for any number
of validators, delegations and unbonding entries.

*The multi-node testnet.* `Inv` follows a call through its loops: the keyrings of the
nodes visited hold accounts of this call (`KeysInv`); the genesis files written carry
exactly the accounts this call has made (`WrittenInv`); the canonical state, once it
is set, names validators among those only, since collecting refuses a transaction
that is not funded, and the nodes collected so far have it (`CanonicalInv`). None of
it speaks of what is in the directories of transactions, where anything of an earlier
call may lie: that is the point. `OneGenesisFile` and `ValidatorsOfThisTestnet` follow
for any number of nodes and calls. `EveryNodeValidates` needs the directories after
all: `FilesInv` says which transactions of this call are where, for a copying loop that
visits the pairs of nodes in the order of one counter (pair `j` is `j \div n` and
`j % n`), and that a call without a lost copy reads all of its own. `PortsOnOneHost`
rests on a third invariant, `PortsInv`, and on the arithmetic of the port formulas
(`FormulasDiffer`); its bound of 3887 nodes is where the gRPC ports, going down by two,
meet the API port of node 0.

*The in-place testnet.* `InPlaceInv` says of each version of the application state,
the disk, the uncommitted root multistore and the cache of a block, that its records
fit together (`Fits`: every index, queue and last power leads to a validator, every
starting info to a period that is still counted), and that CometBFT's validator sets
follow the disk until they are rewritten and the uncommitted state from then on
(`CometFollows`), unless that state is `lost`. What an uncommitted call has added to the
accounts is what separates the uncommitted state from the disk (`PendingInv`). The five
theorems are the run's four properties and the invariant itself.

*The ante handler.* A decorator chain is a recursive function and a block or a recheck
a fold; `FoldTrace` gives each fold its trace, the values after each element, and
`AnteChain` the handler its contexts after each decorator. What the chain as a whole does to a
transaction is said once, by `Charge` (`Accepted`: sequence, fee, counter and breaker
of an accepted transaction) and `DeservingAccepted` (nothing refuses one that deserves
it), decorator by decorator. `DeliverIgnoresNode` says that a block's execution reads
nothing of the node, so that there is a state for each height and every node has that
of its own (`OneStatePerHeight`); `History` relates a node's log of charges to its
committed state, and `Queue` its mempool to the committed and the checked state. Their
conjunction `AnteInv` is inductive; the mempool's part holds through a recheck because
the checked state is rebuilt from the committed one by the same steps.

*The upgrade.* The decided blocks determine one history of states, which does not
mention binaries: a plan that is due is applied if this code has its handler, and
dropped otherwise (the preblocker stops every node that does not skip it). `UpgradeInv`
says that such a history exists, that every node's disk is one of its states, that a
height is skipped only for a plan without a handler (`SkipsFit`), and which binary a
node can have at its state (`NodeFits`), so that a node the preblocker does not stop
can only take the history's next step. `MigrationsOnce`, `RightCode` and `NeverStuck`
follow for any number of nodes, plans, modules and heights. How the construction of a
binary ends plays no part in the argument: a node that is not up takes no step.

*The parameters as bytes.* The hard part is not the invariant but what the decoders read
of what the marshallers wrote, for texts of every length and with unknown fields in
between. It goes in three layers. The decoders read token by token, and the proofs give
each of them its trace, the values after each token; a trace that starts with what one
piece leaves and goes on over the next one shows that two pieces put one behind the
other are read as they are read alone. What is written has each field of a message once
or not at all, at the top level and outside of groups (`Written`, `Only`), so that a
reader that merges repeated fields has nothing to merge. The sizes the marshallers count
are the bytes of the pieces they write: `Sov`, computed from the number of bits, and
`EncodeVarint`, written seven bits at a time, are equal up to the largest message a block
can hold. Every induction is a least counterexample in a set of numbers (`LeastNat`). Of the
second set of generated code the operators that do not depend on it are shown equal to
the node's; the rest, and its reflection methods, are read in the same way. `WireInv`
then says whose bytes the store, a proposal and a client hold: those of a storable value,
of an enactable value together with the one it meant and the one it showed, of a draft
reachable by edits, of an answer. `CodecsAlwaysAgree`, `MeantAlwaysApplied` and
`RepliesAlwaysAgree` follow state by state, and under the mapping of `ParamsRegister`
each action is a step of the register or a stutter (`WireImplementsRegister`). About
foreign messages the proof needs no more than `WireAssumption`: what the node rejects is
gone, and what it accepts it writes again itself.

The type invariants of `MultiNodeTestnet` (`TestnetTypes`), `InPlaceTestnet` and `Ante`
(parts of `VersionsFit` and `AnteRuns`) and the conservation of the node
(`NodeSupplyConserved`) are proved and not checked again in runs of their own.

*Only model-checked.*

* `DecidedIsCommitted`: liveness under fairness is out of the prover's reach.
* `ConstructionOrdered`: the construction is a fold over fixed sequences and has no
  constants to generalise over; TLC's evaluation is the whole of it.

## 5. What is not modelled

* `x/mint`, staking, slashing, IBC, CosmWasm, NFT, group and the other SDK modules:
  third party; what they do to the modelled state is nothing, or is described above.
* simulation (`module/simulation.go`, `simulation/helpers.go`, `sim_test.go`), command
  descriptions (`autocli.go`), flag parsing (`root.go`, `config.go`), test helpers: no
  state of a chain.
* descriptors, type registrations, gRPC stubs and gateways in the generated code: no
  behaviour of their own. The binary codec of `GenesisState` is modelled, although the
  genesis path uses its JSON form.
* the JSON and amino forms of the messages: done by libraries from the descriptors.
* gas prices of the chain's store accesses: gas in `Ante` is counted in units.

## 6. Where the code and its documentation differ

Two violation runs show, each by a short behaviour:

* `validate`: `Params.Validate` accepts a malformed denomination, and `sdk.NewCoin`
  panics on it in every following begin blocker. `DoomedForever` is the theorem that
  the chain does not come back.
* `export_at_height`: `commands.go:147` says that an export is made "optionally at a
  given height". With a height, `New` is called without loading the stores, and its
  last step (`app.go:310`) reads the pinned codes of wasm from a store that is not
  there: the process panics before `LoadHeight` is reached.

Observed while modelling, and part of the models as the code has it:

* the comment at `invariants.go:17-18` says the module account keeps no residual
  balance; anybody can pay it (it is not in `blockAccAddrs`), and nothing takes the
  coins out again. `ResidualIsDonated` says what does hold: the residue is exactly
  what was paid in. With a non-zero `--inv-check-period` the node stops at the next
  check, whereas a node of the same chain with the flag at 0 goes on.
* `genesis_test.go` expects the empty genesis state to be valid; `Validate` refuses
  its empty denomination.
* the error of copying a genesis transaction is dropped (`testnet_multi_node.go:329`):
  the genesis file written is still one and the same (`OneGenesisFile`), but a node
  may be missing among its validators.
* `export.go` jails a validator that is not on the list without taking it out of the
  power index. If the index leads to it, the validator set cannot be computed and the
  export panics; `FailsForAReason` has this as one of its three reasons.

## 7. The plan

Done: all components of the table in section 1 as models, with their runs, and the
proofs of every safety property and both refinements that the passing runs check, but
for the one evaluated above. Left:

1. Shorter proofs where several modules prove the same facts: the least number of a
   set, induction up to a number and traces of folds could be one module of lemmas.
2. An abstract specification of a chain of nodes, each at a height of one history,
   which `Replicas`, `Ante` and `Upgrade` implement: their invariants already have its
   form.
