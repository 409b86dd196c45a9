------------------------------ MODULE AppStartup ------------------------------
(***************************************************************************)
(* How a process builds the application: app.New (app/app.go) with         *)
(* registerIBCModules (app/ibc.go) and registerWasmModules (app/wasm.go),  *)
(* called by newApp and appExport (cmd/commands.go).                       *)
(*                                                                         *)
(* The construction is a sequence of steps.  A step uses things earlier    *)
(* steps made (store keys, parameter subspaces, scoped capability keepers, *)
(* keepers, modules) and makes new ones; a thing that is missing is a nil  *)
(* pointer or a panic of a constructor, one that is made twice a panic.    *)
(* A thing is a pair of its kind and its name.  Nothing of this is on disk *)
(* but the lock of the wasm VM, so a process that dies on the way leaves   *)
(* nothing, and the construction is an operator.                           *)
(***************************************************************************)
EXTENDS Integers, Sequences, FiniteSets, SequencesExt

\* What a step is: its name, what it uses, what it makes.
Step(name, uses, makes) == [name |-> name, uses |-> uses, makes |-> makes]
Each(kind, names) == {kind} \X names

-----------------------------------------------------------------------------
\* app_config.go: what the container builds and in what order modules run.

InjectedModules ==
  {"auth", "bank", "distribution", "staking", "slashing", "gov", "mint", "crisis",
   "genutil", "evidence", "authz", "feegrant", "params", "upgrade", "vesting",
   "nft", "group", "consensus", "circuit", "fixedmint"}
IBCModules == {"ibc", "transfer", "feeibc", "interchainaccounts", "capability"}
LightClients == {"07-tendermint", "06-solomachine"}  \* no genesis, no blockers

genesisModuleOrder ==
  <<"capability", "auth", "bank", "distribution", "staking", "slashing", "gov",
    "mint", "crisis", "ibc", "genutil", "evidence", "authz", "transfer",
    "interchainaccounts", "feeibc", "feegrant", "params", "upgrade", "vesting",
    "nft", "group", "consensus", "circuit", "wasm", "fixedmint">>
beginBlockers ==
  {"mint", "distribution", "slashing", "evidence", "staking", "authz", "genutil",
   "capability", "ibc", "transfer", "interchainaccounts", "feeibc", "wasm", "fixedmint"}
endBlockers ==
  {"crisis", "gov", "staking", "feegrant", "group", "genutil", "ibc", "transfer",
   "capability", "interchainaccounts", "feeibc", "wasm", "fixedmint"}

\* Modules whose own code has the hook: leaving one out is a panic of Load.
HasBeginBlock ==
  {"mint", "distribution", "slashing", "evidence", "staking", "authz",
   "capability", "ibc", "fixedmint"}
HasEndBlock == {"crisis", "gov", "staking", "feegrant", "group", "fixedmint"}

\* The module accounts some keepers insist on (moduleAccPerms).
moduleAccPerms ==
  {"fee_collector", "distribution", "mint", "bonded_tokens_pool",
   "not_bonded_tokens_pool", "gov", "nft", "transfer", "feeibc",
   "interchainaccounts", "wasm", "fixedmint"}

-----------------------------------------------------------------------------
\* app.New up to the legacy modules.
Build ==
  <<Step("Inject", {}, Each("keeper", InjectedModules) \cup Each("module", InjectedModules)
                         \cup Each("account", moduleAccPerms)),
    Step("Build", {<<"keeper", "auth">>}, {<<"app", "baseapp">>})>>

\* registerIBCModules up to the keepers.
LegacyStores == {"ibc", "transfer", "feeibc", "icahost", "icacontroller",
                 "capability", "memory:capability", "transient_params"}
Scoped == {"ibc", "transfer", "icacontroller", "icahost"}

RegisterStores ==
  <<Step("RegisterStores", {<<"app", "baseapp">>}, Each("key", LegacyStores)),
    Step("Subspaces", {<<"keeper", "params">>},
         Each("subspace", {"ibc", "transfer", "icacontroller", "icahost"}))>>

Capabilities ==
  <<Step("capability", Each("key", {"capability", "memory:capability"}),
         {<<"keeper", "capability">>}),
    Step("ScopeToModule", {<<"keeper", "capability">>}, Each("scope", Scoped))>>

\* A keeper of an IBC application stands on the same things.
OnIBC(name, more) ==
  Step(name, {<<"key", name>>, <<"keeper", "ibc">>, <<"keeper", "auth">>} \cup more,
       {<<"keeper", name>>})
Named(name) == {<<"subspace", name>>, <<"scope", name>>, <<"keeper", "feeibc">>}

IBCKeepers ==
  <<Step("ibc", {<<"key", "ibc">>, <<"subspace", "ibc">>, <<"scope", "ibc">>}
                  \cup Each("keeper", {"staking", "upgrade"}),
         {<<"keeper", "ibc">>}),
    OnIBC("feeibc", {<<"keeper", "bank">>}),
    OnIBC("transfer", Named("transfer") \cup {<<"account", "transfer">>}),
    OnIBC("icahost", Named("icahost") \cup {<<"account", "interchainaccounts">>,
                                            <<"app", "baseapp">>}),
    OnIBC("icacontroller", Named("icacontroller") \cup {<<"app", "baseapp">>}),
    Step("SetLegacyRouter", {<<"keeper", "gov">>}, {<<"app", "gov router">>})>>

\* registerWasmModules, and setAnteHandler in the middle of it.
WasmModules ==
  <<Step("RegisterStores wasm", {<<"app", "baseapp">>}, {<<"key", "wasm">>}),
    Step("ScopeToModule wasm", {<<"keeper", "capability">>}, {<<"scope", "wasm">>}),
    Step("ReadNodeConfig", {}, {<<"app", "wasm config">>}),
    OnIBC("wasm", {<<"scope", "wasm">>, <<"app", "wasm config">>}
                    \cup Each("keeper", {"bank", "staking", "distribution", "feeibc", "transfer"})),
    Step("RegisterModules wasm", {<<"keeper", "wasm">>}, {<<"module", "wasm">>}),
    Step("setAnteHandler", {<<"app", "wasm config">>, <<"key", "wasm">>}
                             \cup Each("keeper", {"wasm", "ibc", "auth", "bank", "feegrant", "circuit"}),
         {<<"app", "ante handler">>}),
    Step("RegisterExtensions", {<<"keeper", "wasm">>}, {}),
    Step("setPostHandler", {<<"app", "baseapp">>}, {<<"app", "post handler">>})>>

\* The stacks of middleware and their router, which SetRouter seals.
IBCRouter ==
  <<Step("AddRoute", Each("keeper", {"transfer", "icacontroller", "icahost", "feeibc"}),
         Each("route", {"transfer", "icacontroller", "icahost"})),
    Step("AddRoute wasm", Each("keeper", {"wasm", "feeibc"}), {<<"route", "wasm">>}),
    Step("SetRouter", {<<"keeper", "ibc">>}, {<<"app", "ibc router">>}),
    Step("RegisterModules",
         Each("keeper", {"ibc", "transfer", "feeibc", "icacontroller", "icahost", "capability"}),
         Each("module", IBCModules \cup LightClients))>>

\* app.New from the streaming services to its end.
Finish ==
  <<Step("RegisterStreamingServices", {<<"app", "baseapp">>}, {}),
    Step("RegisterInvariants", {<<"keeper", "crisis">>}, {}),
    Step("SetInitChainer", {<<"keeper", "upgrade">>}, {<<"app", "init chainer">>}),
    Step("RegisterUpgradeHandlers", {<<"keeper", "upgrade">>}, {<<"app", "upgrade handlers">>}),
    Step("Load", {<<"app", "baseapp">>}, {<<"app", "loaded">>}),
    Step("InitializePinnedCodes", {<<"keeper", "wasm">>, <<"key", "wasm">>}, {})>>

\* Mutant: the wasm modules after Load.
Steps_WasmLast ==
  Build \o RegisterStores \o Capabilities \o IBCKeepers \o IBCRouter \o Finish
    \o WasmModules

Steps == Build \o RegisterStores \o Capabilities \o IBCKeepers \o WasmModules
           \o IBCRouter \o Finish

-----------------------------------------------------------------------------
\* A construction under way: what the process is asked for, how far it got.
Begun(cmd, fault) ==
  [cmd |-> cmd, fault |-> fault, state |-> "starting", has |-> {}, stores |-> {}]

\* An order list that forgets a registered module is a panic.
NamesOf(kind, q) == {x[2] : x \in {y \in q.has : y[1] = kind}}
OrdersComplete(q) ==
  /\ NamesOf("module", q) \ LightClients \subseteq Range(genesisModuleOrder)
  /\ NamesOf("module", q) \cap HasBeginBlock \subseteq beginBlockers
  /\ NamesOf("module", q) \cap HasEndBlock \subseteq endBlockers

\* newApp and an export of the last state load the latest version in New.
LoadsLatest(q) == q.cmd # "exportAt"

\* What may go wrong without the code being wrong: a configuration that cannot
\* be read, streaming services that do not start, and a lock another process
\* of the host holds.  The wasm VM locks its directory, which is under
\* DefaultNodeHome whatever home the process was given.
StartFaults == {"none", "wasm config", "streaming", "vm locked"}

StepPanics(q, step) ==
  \/ ~(step.uses \subseteq q.has)
  \/ step.makes \cap q.has # {}
  \/ step.name = "wasm" /\ q.fault = "vm locked"
  \/ step.name = "Load" /\ ~OrdersComplete(q)
  \/ step.name = "InitializePinnedCodes" /\ "wasm" \notin q.stores

StepErrs(q, step) ==
  \/ step.name = "ReadNodeConfig" /\ q.fault = "wasm config"
  \/ step.name = "RegisterStreamingServices" /\ q.fault = "streaming"

TakeStep(q, step) ==
  IF q.state # "starting" THEN q
  ELSE IF StepErrs(q, step) THEN [q EXCEPT !.state = "failed"]
  ELSE IF StepPanics(q, step) THEN [q EXCEPT !.state = "panicked"]
  ELSE [q EXCEPT !.has = @ \cup step.makes,
                 !.stores = IF step.name = "Load" /\ LoadsLatest(q)
                            THEN NamesOf("key", q) ELSE @]

\* newApp, or appExport, calls app.New: it returns, or ends the process.
New(cmd, fault) ==
  LET q == FoldLeft(TakeStep, Begun(cmd, fault), Steps)
  IN IF q.state = "starting" THEN [q EXCEPT !.state = "ready"] ELSE q

\* What a node needs to serve: every store of its keepers loaded, a route for
\* each name that can bind a port, every module that has an order, the handlers.
Complete(q) ==
  /\ NamesOf("key", q) = q.stores
  /\ NamesOf("scope", q) \ {"ibc"} \subseteq NamesOf("route", q)
  /\ Range(genesisModuleOrder) \subseteq NamesOf("module", q)
  /\ {"ante handler", "post handler", "ibc router", "init chainer", "upgrade handlers"}
       \subseteq NamesOf("app", q)

\* The outcomes of all commands and faults: the state the process is left in,
\* and whether a node that is ready is complete.
Built == {LET q == New(cmd, fault)
          IN [cmd |-> cmd, fault |-> fault, state |-> q.state,
              complete |-> q.state = "ready" => Complete(q)] :
            cmd \in {"start", "export", "exportAt"}, fault \in StartFaults}
Builds(cmd, fault) == CHOOSE b \in Built : b.cmd = cmd /\ b.fault = fault

=============================================================================
