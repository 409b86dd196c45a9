-------------------------------- MODULE Upgrade --------------------------------
(***************************************************************************)
(* The upgrade of the chain (app/upgrades.go, the init chainer and the     *)
(* preblocker of app/app.go and app/app_config.go): nodes that are built   *)
(* as AppStartup says run blocks on an old or a new binary; governance     *)
(* schedules a plan, the new binary has the handler of "v1.1.0".           *)
(*                                                                         *)
(* A node is a disk and a process, down or up with what AppStartup built.  *)
(* Blocks are decided once for all nodes and executed and committed by     *)
(* each at its own pace.  The upgrade module is the SDK's, as the code     *)
(* relies on it: its preblocker, the plan in the store and                 *)
(* ModuleManager.RunMigrations.                                            *)
(***************************************************************************)
EXTENDS AppStartup

CONSTANTS
  Procs,           \* the nodes
  Faults,          \* of a start, among StartFaults
  Old, New_,       \* the binaries; New_ is the one of this code
  Handlers,        \* binary -> the upgrades it has a handler of
  Versions,        \* binary -> module -> consensus version
  Modules,         \* the modules whose versions are followed
  Manual,          \* those of them that are registered by hand
  PlanNames,       \* plans governance may schedule
  MaxHeight        \* bound: blocks

ASSUME UpgradeAssumption ==
  /\ "none" \in Faults /\ Faults \subseteq StartFaults
  /\ Old # New_
  /\ Handlers[Old] = {} /\ \E name \in PlanNames : Handlers[New_] = {name}
  /\ Versions \in [{Old, New_} -> [Modules -> Nat \ {0}]]
  /\ \A m \in Modules : Versions[Old][m] <= Versions[New_][m]
  /\ Manual \subseteq Modules /\ MaxHeight \in Nat

\* An upgrade is of a chain that was started before this code.
GenesisBinary == Old

VARIABLES
  node,     \* its process, its binary, its disk, what is in its memory
  chain,    \* the decided blocks: the upgrade messages they carry
  skips     \* heights of plans the operators have agreed to skip

vars == <<node, chain, skips>>

\* Bound: a plan may be for the height after the last block.
Plans == [name : PlanNames, height : 1 .. MaxHeight + 1]

\* What a block may do to the plan.
NoMsg == [kind |-> "none"]
Schedule(plan) == [kind |-> "schedule", plan |-> plan]
CancelMsg == [kind |-> "cancel"]

\* The state of the chain, as far as upgrades go.
Empty ==
  [height |-> 0,
   vm     |-> [m \in Modules |-> 0],      \* the version map; 0 when absent
   plan   |-> {},                         \* the scheduled plan
   done   |-> <<>>,                       \* completed upgrades, in order
   inits  |-> [m \in Modules |-> 0],      \* history: calls of InitGenesis
   moved  |-> [m \in Modules |-> <<>>],   \* history: the versions migrated to
   ranOn  |-> Old]                        \* history: the code of the last block

-----------------------------------------------------------------------------
\* Genesis.

InitUses(m) ==
  CASE m = "genutil" -> {"auth", "bank", "staking"}
    [] m \in {"ibc", "transfer", "interchainaccounts", "wasm"} -> {"capability"}
    [] OTHER -> {}
GenesisPanics ==
  \E i \in DOMAIN genesisModuleOrder :
    ~(InitUses(genesisModuleOrder[i]) \subseteq
        {genesisModuleOrder[j] : j \in 1 .. i - 1})

\* The upgrade module's own genesis sets the versions of the injected modules
\* and keeps those that are there.
InitVersionMap(vm, b) ==
  [m \in Modules |-> IF m \in Manual THEN vm[m] ELSE Versions[b][m]]

\* Mutant: the injected modules' versions only: no custom init chainer.
InitChainer_Default(b) ==
  [Empty EXCEPT !.vm = InitVersionMap([m \in Modules |-> 0], b),
                !.inits = [m \in Modules |-> 1],
                !.ranOn = b]

\* The custom init chainer stores the versions of all registered modules first.
InitChainer(b) ==
  [Empty EXCEPT !.vm = InitVersionMap([m \in Modules |-> Versions[b][m]], b),
                !.inits = [m \in Modules |-> 1],
                !.ranOn = b]

-----------------------------------------------------------------------------
\* A block.

\* ModuleManager.RunMigrations: from the stored version to the binary's, one
\* after the other; a module without a stored version is initialised.
RunMigrations(s, b) ==
  [s EXCEPT
     !.vm = Versions[b],
     !.inits = [m \in Modules |-> IF s.vm[m] = 0 THEN @[m] + 1 ELSE @[m]],
     !.moved = [m \in Modules |->
       IF s.vm[m] = 0 THEN @[m]
       ELSE @[m] \o [i \in 1 .. Versions[b][m] - s.vm[m] |-> s.vm[m] + i]]]

\* Mutant: the handler of a later upgrade is registered beside it.
RegisterUpgradeHandlers_Ahead(b) == IF Handlers[b] = {} THEN {} ELSE PlanNames

\* The upgrades a process has a handler of, set while it is built.
RegisterUpgradeHandlers(b) == Handlers[b]

\* The handler it sets runs the migrations.
ApplyUpgrade(s, plan, b) ==
  [RunMigrations(s, b) EXCEPT !.plan = {}, !.done = Append(@, plan.name)]

Due(s) == {p \in s.plan : p.height <= s.height + 1}
LastDone(s) == IF s.done = <<>> THEN {} ELSE {Last(s.done)}

\* A process as the preblocker sees it: its binary, whether it has checked that
\* it is the right one, and the heights it was told to skip upgrades at.
Process(n) == [bin |-> node[n].bin, verified |-> node[n].verified, skip |-> node[n].skip]
Skipped(s, p) == s.height + 1 \in p.skip

\* The preblocker stops the node rather than run a block on the wrong binary.
WrongBinary(s, p) ==
  /\ ~p.verified
  /\ Due(s) = {} \/ Skipped(s, p)
  /\ ~(LastDone(s) \subseteq RegisterUpgradeHandlers(p.bin))
UpgradeNeeded(s, p) ==
  ~Skipped(s, p) /\ \E plan \in Due(s) : plan.name \notin RegisterUpgradeHandlers(p.bin)
TooEarly(s, p) ==
  \E plan \in s.plan \ Due(s) : plan.name \in RegisterUpgradeHandlers(p.bin)

\* Mutant: the list stays empty.
preBlockers_None == {}

preBlockers == {"upgrade"}

PreBlockerStops(s, p) ==
  /\ "upgrade" \in preBlockers
  /\ WrongBinary(s, p) \/ UpgradeNeeded(s, p) \/ TooEarly(s, p)

PreBlocker(s, p) ==
  IF Due(s) = {} \/ "upgrade" \notin preBlockers THEN s
  ELSE IF Skipped(s, p) THEN [s EXCEPT !.plan = {}]
  ELSE ApplyUpgrade(s, CHOOSE plan \in Due(s) : TRUE, p.bin)

\* MsgSoftwareUpgrade and MsgCancelUpgrade, in a proposal that has passed.
\* A plan for the past, or one that was completed, is refused.
HandleMsg(s, msg) ==
  CASE msg.kind = "schedule" ->
         IF msg.plan.height < s.height + 1 \/ msg.plan.name \in Range(s.done) THEN s
         ELSE [s EXCEPT !.plan = {msg.plan}]
    [] msg.kind = "cancel" -> [s EXCEPT !.plan = {}]
    [] OTHER -> s

ExecuteBlock(s, p, msg) ==
  LET t == HandleMsg(PreBlocker(s, p), msg)
  IN [t EXCEPT !.height = s.height + 1, !.ranOn = p.bin]

-----------------------------------------------------------------------------
Init ==
  /\ node = [n \in Procs |-> [bin |-> GenesisBinary, disk |-> Empty, up |-> "down",
                              verified |-> FALSE, halted |-> FALSE, skip |-> {}]]
  /\ chain = <<>> /\ skips = {}

Up(n) == node[n].up = "ready"

\* What is left of a process that built the application: a panic nobody caused
\* from outside is remembered.
Left(q) == CASE q.state = "ready"    -> IF q.complete THEN "ready" ELSE "incomplete"
             [] q.state = "failed"   -> "down"
             [] q.state = "panicked" ->
                  IF q.fault = "vm locked" THEN "down"
                  ELSE IF q.cmd = "exportAt" THEN "panicked at height" ELSE "panicked"

\* The start command: newApp, and then CometBFT's handshake.
Start(n, fault) ==
  /\ ~Up(n)
  /\ node' = [node EXCEPT ![n].up = Left(Builds("start", fault)),
                          ![n].verified = FALSE, ![n].skip = skips]
  /\ UNCHANGED <<chain, skips>>

\* The export command, of the last state or at a height: it ends with its
\* process, and cannot have the state of a node that is up.
appExport(n, cmd, fault) ==
  /\ ~Up(n) /\ node[n].disk.height > 0
  /\ LET left == Left(Builds(cmd, fault)) IN
     node' = [node EXCEPT ![n].up = IF left = "ready" THEN "down" ELSE left]
  /\ UNCHANGED <<chain, skips>>

\* A node is stopped or dies.
Exit(n) ==
  /\ Up(n)
  /\ node' = [node EXCEPT ![n].up = "down", ![n].verified = FALSE]
  /\ UNCHANGED <<chain, skips>>

\* InitChain, on a node that has no state.  It commits with the first block;
\* as nothing comes in between, it is one step with it here.
StateOf(n) == IF node[n].disk.height = 0 THEN InitChainer(node[n].bin) ELSE node[n].disk

Decide ==
  /\ Len(chain) < MaxHeight
  /\ \E n \in Procs : node[n].disk.height = Len(chain)
  /\ \E msg \in {NoMsg, CancelMsg} \cup {Schedule(p) : p \in Plans} :
       chain' = Append(chain, msg)
  /\ UNCHANGED <<node, skips>>

Ready(n) == Up(n) /\ node[n].disk.height < Len(chain)

\* FinalizeBlock and Commit of the next decided block.
RunBlock(n) ==
  /\ Ready(n) /\ ~PreBlockerStops(StateOf(n), Process(n))
  /\ node[n].disk.height = 0 => ~GenesisPanics
  /\ node' = [node EXCEPT ![n].disk = ExecuteBlock(StateOf(n), Process(n), chain[@.height + 1]),
                          ![n].verified = TRUE, ![n].halted = FALSE]
  /\ UNCHANGED <<chain, skips>>

\* The preblocker returns an error and the process ends.
Halt(n) ==
  /\ Ready(n) /\ PreBlockerStops(StateOf(n), Process(n))
  /\ node' = [node EXCEPT ![n].up = "down", ![n].halted = TRUE, ![n].verified = FALSE]
  /\ UNCHANGED <<chain, skips>>

\* An operator changes the binary of a stopped node, rightly or too early, but
\* not before the plan is in the state: that no module could notice.
ChangeBinary(n, b) ==
  /\ ~Up(n) /\ node[n].bin # b
  /\ b = New_ => \E p \in PlanNames \cap Handlers[New_] :
       \/ p \in Range(node[n].disk.done)
       \/ p \in {q.name : q \in node[n].disk.plan}
  /\ node' = [node EXCEPT ![n].bin = b]
  /\ UNCHANGED <<chain, skips>>

\* All nodes that reach a plan no binary has a handler of stop there, and the
\* operators agree to skip it (--unsafe-skip-upgrades).
AgreeToSkip ==
  /\ \E n \in Procs : /\ node[n].halted
                      /\ \E p \in Due(StateOf(n)) :
                           p.name \notin Handlers[Old] \cup Handlers[New_]
                      /\ skips' = skips \cup {node[n].disk.height + 1}
  /\ UNCHANGED <<node, chain>>

Next ==
  \/ \E n \in Procs, fault \in Faults : Start(n, fault)
  \/ \E n \in Procs, cmd \in {"export", "exportAt"}, fault \in Faults : appExport(n, cmd, fault)
  \/ \E n \in Procs : Exit(n)
  \/ Decide
  \/ \E n \in Procs : RunBlock(n) \/ Halt(n)
  \/ \E n \in Procs, b \in {Old, New_} : ChangeBinary(n, b)
  \/ AgreeToSkip

Spec == Init /\ [][Next]_vars

-----------------------------------------------------------------------------
\* Properties.

\* No step of the construction finds a thing missing or made twice, in the
\* order New and the registrations of IBC and, in the middle of them, of wasm
\* call them; and a node that is up has all it needs to serve.
ConstructionOrdered == \A n \in Procs : node[n].up \notin {"panicked", "incomplete"}

\* appExport "creates a new app (optionally at a given height) and exports
\* state": it does not panic at a height either.
ExportsAtHeight == \A n \in Procs : node[n].up # "panicked at height"

\* Every migration between the versions of the binaries runs once and in order,
\* the stored version says which ones ran, and no module is initialised again:
\* the map that InitChain stores has the modules registered by hand too (the
\* init chainer of New).
MigratedOnce ==
  \A n \in Procs, m \in Modules :
    LET s == node[n].disk IN
    s.height > 0 =>
      /\ s.moved[m] = [i \in 1 .. Len(s.moved[m]) |-> Versions[GenesisBinary][m] + i]
      /\ s.vm[m] = Versions[GenesisBinary][m] + Len(s.moved[m])
      /\ s.inits[m] = 1

\* Nodes that have committed the same height have the same state and ran its
\* last block on the same code, although operators change binaries at different
\* times, too early, or back (the preblocker configured in app_config.go).
NodesAgree ==
  \A m, n \in Procs :
    node[m].disk.height = node[n].disk.height => node[m].disk = node[n].disk

\* A block runs on the code its state was migrated to.
CodeMatchesState ==
  \A n \in Procs : node[n].disk.height > 0 =>
    node[n].disk.vm = Versions[node[n].disk.ranOn]

\* The preblocker keeps code and state together, on each node and between them.
BlocksOnRightCode == NodesAgree /\ CodeMatchesState

\* The chain never gets to a state whose next block no binary can run, when a
\* plan without a binary is skipped: a handler that is registered ahead of its
\* upgrade, beside that of a completed one, would make both binaries stop.
NoDeadEnd ==
  \A n \in Procs : node[n].disk.height > 0 =>
    \E b \in {Old, New_}, skip \in {{}, {node[n].disk.height + 1}} :
      ~PreBlockerStops(node[n].disk, [bin |-> b, verified |-> FALSE, skip |-> skip])

=============================================================================
