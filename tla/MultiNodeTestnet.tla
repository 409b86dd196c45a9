--------------------------- MODULE MultiNodeTestnet ---------------------------
(***************************************************************************)
(* The multi-node command (cmd/testnet_multi_node.go): it writes the       *)
(* directories of n nodes that are to run one chain side by side.          *)
(*                                                                         *)
(* One process at a time; stage and at are its program counter.  What is   *)
(* on disk outlives a call, and a later call works on what an earlier one, *)
(* complete or failed, has left.  The k-th node directory, its account and *)
(* its genesis transaction are all named k.  An account is made anew by    *)
(* every call, so <<k, call>> stands for the account and for the           *)
(* transaction that spends from it.                                        *)
(***************************************************************************)
EXTENDS Integers, Sequences

CONSTANTS
  MaxNodes,    \* bound: nodes of a call
  MaxCalls,    \* bound: calls on one output directory
  StakeLists,  \* values of --validators-stake-amount, as sequences
  PortLists,   \* values of --list-ports; the empty sequence is the default
  Unparsable,  \* an entry that is no number
  Broken,      \* the content of a file that was not written to its end
  Nothing      \* no such file, or no value yet

ASSUME TestnetAssumption ==
  /\ MaxNodes \in Nat \ {0} /\ MaxCalls \in Nat \ {0}
  /\ StakeLists \subseteq Seq(Int \cup {Unparsable}) /\ Unparsable \notin Int
  /\ PortLists \subseteq Seq(Nat)
  /\ Broken \notin Int

Nodes    == 0 .. MaxNodes - 1
Calls    == 1 .. MaxCalls
Accounts == Nodes \X Calls

\* What of a genesis file tells the testnets of two calls, and two nodes, apart.
GenesisFiles ==
  [chain : Calls, accounts : SUBSET Accounts, gentxs : SUBSET Accounts,
   time : {0} \cup Calls]

ASSUME NothingAssumption == Nothing \notin GenesisFiles

CallArgs == [n : 1 .. MaxNodes, stakes : StakeLists, ports : PortLists]

VARIABLES
  stage,     \* where the call is; "idle" when none runs
  at,        \* the index of the loop it is in
  call,      \* calls so far
  args,      \* the arguments of the last call
  appState,  \* the canonical application state of collectGenFiles
  lost,      \* history: a copy of this call has failed
  result,    \* of the last call: "none", "running", "failed" or "ok"
  coin,      \* disk: the account in the keyring of each directory
  gentx,     \* disk: config/gentx of each directory
  genesis,   \* disk: genesis.json of each directory
  config     \* disk: the ports in config.toml and app.toml of each directory

callVars == <<call, args, appState, lost>>
diskVars == <<coin, gentx, genesis, config>>
vars     == <<stage, at, callVars, result, diskVars>>

-----------------------------------------------------------------------------
DefaultStake == 100000000
Balance      == 500000000

\* The stakes by node: an entry that does not parse is skipped, and the next
\* one takes its place.
Parsed(stakes) == SelectSeq(stakes, LAMBDA a : a # Unparsable)

StakeOf(stakes, i) ==
  IF i < Len(Parsed(stakes)) THEN Parsed(stakes)[i + 1] ELSE DefaultStake

\* sdk.NewCoin panics on a negative amount.
StakesPanic(stakes) ==
  \E k \in DOMAIN Parsed(stakes) : Parsed(stakes)[k] < 0

\* Mutant: one port further down for each node.
RPCPort_Step1(ports, i) == 26657 - i

\* Where the list is too short the address has no port, which is 0.
RPCPort(ports, i) ==
  IF ports = <<>> THEN 26657 - 3 * i
  ELSE IF i < Len(ports) THEN ports[i + 1] ELSE 0

P2PPort(i)        == 26656 - 3 * i
ProxyPort(i)      == 26658 - 3 * i
PrometheusPort(i) == 26660 + i
GRPCPort(i)       == 9090 - 2 * i
APIPort(i)        == 1317 - i

Services == {"rpc", "p2p", "proxy", "prometheus", "grpc", "api"}
NoPorts  == [s \in Services |-> 0]

\* config.toml and app.toml of node i, written over the ports it has had.
ConfigToml(old, ports, i) ==
  [old EXCEPT !.rpc = RPCPort(ports, i), !.p2p = P2PPort(i),
              !.proxy = ProxyPort(i), !.prometheus = PrometheusPort(i)]
AppToml(old, i) == [old EXCEPT !.grpc = GRPCPort(i), !.api = APIPort(i)]

-----------------------------------------------------------------------------
NoArgs    == [n |-> 1, stakes |-> <<>>, ports |-> <<>>]
EmptyDisk == [coin    |-> [i \in Nodes |-> 0],
              gentx   |-> [i \in Nodes |-> {}],
              genesis |-> [i \in Nodes |-> Nothing],
              config  |-> [i \in Nodes |-> NoPorts]]

Init ==
  /\ stage = "idle" /\ at = 0 /\ call = 0 /\ result = "none"
  /\ args = NoArgs /\ appState = Nothing /\ lost = FALSE
  /\ coin = EmptyDisk.coin /\ gentx = EmptyDisk.gentx
  /\ genesis = EmptyDisk.genesis /\ config = EmptyDisk.config

Running == 0 .. args.n - 1
Made    == Running \X {call}   \* the accounts this call has made

\* The loop goes on at another index or is over, and another stage follows.
Loop(again, over) == IF at < args.n - 1 THEN at' = at + 1 /\ stage' = again
                                        ELSE at' = 0 /\ stage' = over

Return(r) == stage' = "idle" /\ at' = 0 /\ result' = r

\* RunE reads the flags.  Nothing is written before the stakes are parsed.
NewTestnetMultiNodeCmd(a) ==
  /\ stage = "idle" /\ call < MaxCalls
  /\ call' = call + 1 /\ args' = a
  /\ appState' = Nothing /\ lost' = FALSE /\ at' = 0
  /\ IF StakesPanic(a.stakes) THEN stage' = "idle" /\ result' = "failed"
                              ELSE stage' = "keys" /\ result' = "running"
  /\ UNCHANGED diskVars

\* The directory, the node's keys and its account.  A key that is there is
\* deleted and made anew; the node's own keys are kept.
MakeKeys ==
  /\ stage = "keys"
  /\ coin' = [coin EXCEPT ![at] = call]
  /\ stage' = "gentx"
  /\ UNCHANGED <<at, callVars, result, gentx, genesis, config>>

\* Three errors of this part remove the output directory, whoever wrote it.
RemoveAll ==
  /\ stage = "keys"
  /\ coin' = EmptyDisk.coin /\ gentx' = EmptyDisk.gentx
  /\ genesis' = EmptyDisk.genesis /\ config' = EmptyDisk.config
  /\ Return("failed") /\ UNCHANGED callVars

\* writeFile of file k in the gentx directory of a node.
Put(files, k, content) == {f \in files : f[1] # k} \cup {<<k, content>>}

\* The node's genesis transaction and its app.toml.
WriteGentx ==
  /\ stage = "gentx"
  /\ gentx' = [gentx EXCEPT ![at] = Put(@, at, call)]
  /\ config' = [config EXCEPT ![at] = AppToml(@, at)]
  /\ Loop("keys", "genesis")
  /\ UNCHANGED <<callVars, result, coin, genesis>>

\* A file that could not be written to its end.  The directories stay.
BreakGentx ==
  /\ stage = "gentx"
  /\ gentx' = [gentx EXCEPT ![at] = Put(@, at, Broken)]
  /\ Return("failed") /\ UNCHANGED <<callVars, coin, genesis, config>>

\* Mutant: accounts are added to those of a genesis file that is there.
InitGenFiles_AddsAccounts ==
  /\ stage = "genesis"
  /\ genesis' = [genesis EXCEPT ![at] =
       [chain |-> call, gentxs |-> {}, time |-> 0,
        accounts |-> Made \cup IF @ = Nothing THEN {} ELSE @.accounts]]
  /\ Loop("genesis", "copy")
  /\ UNCHANGED <<callVars, result, coin, gentx, config>>

\* initGenFiles: a genesis file with the accounts of this call, for each node.
InitGenFiles ==
  /\ stage = "genesis"
  /\ genesis' = [genesis EXCEPT ![at] =
       [chain |-> call, gentxs |-> {}, time |-> 0, accounts |-> Made]]
  /\ Loop("genesis", "copy")
  /\ UNCHANGED <<callVars, result, coin, gentx, config>>

-----------------------------------------------------------------------------
\* The copies of the transactions: file k into the directory of node i, file
\* by file; a file is not copied to where it comes from.  An error is ignored:
\* the file to be replaced stays, or what was written of the copy.
Target == at \div args.n
File   == at % args.n

\* Mutant: a node gets the transactions made before its own.
CopyFile_EarlierOnly ==
  /\ stage = "copy"
  /\ \/ /\ gentx' = IF File >= Target THEN gentx
                     ELSE [gentx EXCEPT ![Target] = Put(@, File, call)]
        /\ UNCHANGED lost
     \/ File < Target /\ lost' = TRUE /\ UNCHANGED gentx
  /\ IF at < args.n * args.n - 1 THEN at' = at + 1 /\ stage' = "copy"
                                 ELSE at' = 0 /\ stage' = "collect"
  /\ UNCHANGED <<call, args, appState, result, coin, genesis, config>>

CopyFile ==
  /\ stage = "copy"
  /\ \/ /\ gentx' = IF File = Target THEN gentx
                     ELSE [gentx EXCEPT ![Target] = Put(@, File, call)]
        /\ UNCHANGED lost
     \/ /\ File # Target /\ lost' = TRUE
        /\ gentx' \in {gentx, [gentx EXCEPT ![Target] = Put(@, File, Broken)]}
  /\ IF at < args.n * args.n - 1 THEN at' = at + 1 /\ stage' = "copy"
                                 ELSE at' = 0 /\ stage' = "collect"
  /\ UNCHANGED <<call, args, appState, result, coin, genesis, config>>

-----------------------------------------------------------------------------
\* CollectTxs accepts the files of the directory: all of them can be read,
\* and each is of an account that its genesis file funds with the stake.
Collectable(i) ==
  /\ gentx[i] # {}
  /\ \A f \in gentx[i] : /\ f \in genesis[i].accounts
                         /\ StakeOf(args.stakes, f[1]) <= Balance

\* GenAppStateFromConfig: the state of the genesis file with these files.
NodeAppState(i) == [genesis[i] EXCEPT !.gentxs = gentx[i]]

\* Mutant: every node gets the state of its own directory.
CollectGenFiles_OwnState ==
  /\ stage = "collect" /\ Collectable(at)
  /\ appState' = IF appState = Nothing THEN NodeAppState(at) ELSE appState
  /\ genesis' = [genesis EXCEPT ![at] = [NodeAppState(at) EXCEPT !.time = call]]
  /\ config' = [config EXCEPT ![at] = ConfigToml(@, args.ports, at)]
  /\ IF at < args.n - 1 THEN at' = at + 1 /\ UNCHANGED <<stage, result>>
                        ELSE Return("ok")
  /\ UNCHANGED <<call, args, lost, coin, gentx>>

\* collectGenFiles: the state of the first node becomes that of all.  One
\* directory that cannot be collected ends the call.
CollectGenFiles ==
  /\ stage = "collect" /\ Collectable(at)
  /\ appState' = IF appState = Nothing THEN NodeAppState(at) ELSE appState
  /\ genesis' = [genesis EXCEPT ![at] = [appState' EXCEPT !.time = call]]
  /\ config' = [config EXCEPT ![at] = ConfigToml(@, args.ports, at)]
  /\ IF at < args.n - 1 THEN at' = at + 1 /\ UNCHANGED <<stage, result>>
                        ELSE Return("ok")
  /\ UNCHANGED <<call, args, lost, coin, gentx>>

CollectFails ==
  /\ stage = "collect" /\ ~Collectable(at)
  /\ Return("failed") /\ UNCHANGED <<callVars, diskVars>>

\* Any other error, and an interrupt: what is on disk stays.
Fail ==
  /\ stage # "idle"
  /\ Return("failed") /\ UNCHANGED <<callVars, diskVars>>

Next ==
  \/ \E a \in CallArgs : NewTestnetMultiNodeCmd(a)
  \/ MakeKeys \/ RemoveAll \/ WriteGentx \/ BreakGentx
  \/ InitGenFiles \/ CopyFile \/ CollectGenFiles \/ CollectFails
  \/ Fail

Spec == Init /\ [][Next]_vars

-----------------------------------------------------------------------------
(* Properties.                                                             *)

Steps == IF stage = "copy" THEN args.n * args.n ELSE args.n

\* The loops stay within the nodes of the call.
TypeOK ==
  /\ stage \in {"idle", "keys", "gentx", "genesis", "copy", "collect"}
  /\ args \in CallArgs \cup {NoArgs} /\ call \in 0 .. MaxCalls
  /\ at \in 0 .. Steps - 1
  /\ appState \in GenesisFiles \cup {Nothing} /\ lost \in BOOLEAN
  /\ result \in {"none", "running", "failed", "ok"}
  /\ coin \in [Nodes -> {0} \cup Calls]
  /\ gentx \in [Nodes -> SUBSET (Nodes \X (Calls \cup {Broken}))]
  /\ genesis \in [Nodes -> GenesisFiles \cup {Nothing}]
  /\ config \in [Nodes -> [Services -> Int]]

Done == result = "ok"

\* A call that reports success leaves one genesis file, the same for every
\* node of the testnet, whatever copies failed and whatever earlier calls left.
GenesisFilesAgree == Done => \A i, j \in Running : genesis[i] = genesis[j]

\* Its validators are nodes of this testnet, with the accounts in their
\* keyrings, which can pay the stake: nothing of an earlier call is in it.
ValidatorsAreNodes ==
  Done => \A i \in Running : \A g \in genesis[i].gentxs :
            /\ g[1] \in Running /\ g[2] = coin[g[1]]
            /\ genesis[i].chain = call
            /\ StakeOf(args.stakes, g[1]) <= Balance

\* Unless a copy failed in this call, all nodes are validators: a retry on what
\* failed or interrupted calls have left is as good as a first call.
NodesAreValidators ==
  (Done /\ ~lost) => \A i \in Running : genesis[i].gentxs = Made

\* With the default ports all services of all nodes can run on one host.
PortsDistinct ==
  (Done /\ args.ports = <<>>) =>
    \A i, j \in Running : \A s, t \in Services :
       (i # j \/ s # t) => config[i][s] # config[j][t]
=============================================================================
