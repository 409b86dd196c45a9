----------------------- MODULE MultiNodeTestnet_proofs -----------------------
(***************************************************************************)
(* What the multi-node command guarantees for any number of nodes and of   *)
(* calls, any stakes and any ports.                                        *)
(*                                                                         *)
(* The inductive invariant says how far each loop has come: which accounts *)
(* are made, which genesis files carry them and no others, and which       *)
(* genesis files already are the canonical one.                            *)
(***************************************************************************)
EXTENDS MultiNodeTestnet, TLAPS

\* A call runs or has returned, and has a canonical state once it needs one.
CallInv ==
  /\ stage # "idle" <=> result = "running"
  /\ (stage # "idle" \/ Done) => call \in Calls
  /\ stage \in {"keys", "gentx", "genesis", "copy"} => appState = Nothing
  /\ (stage = "collect" /\ at > 0) \/ Done => appState # Nothing

\* Genesis files that initGenFiles, and later collectGenFiles, has written.
Written(k) ==
  \A i \in 0 .. k - 1 : /\ genesis[i] \in GenesisFiles
                        /\ genesis[i].accounts = Made /\ genesis[i].chain = call

\* How far initGenFiles has come; what collectGenFiles reads is of this call.
WrittenInv ==
  /\ stage = "genesis" => Written(at)
  /\ stage \in {"copy", "collect"} => Written(args.n)

\* The canonical state is of this call and its validators can pay.
Sound(state) ==
  /\ state \in GenesisFiles
  /\ state.accounts = Made /\ state.chain = call /\ state.gentxs \subseteq Made
  /\ \A g \in state.gentxs : StakeOf(args.stakes, g[1]) <= Balance

\* The nodes done by collectGenFiles have the canonical state.
CanonicalInv ==
  /\ appState # Nothing => Sound(appState)
  /\ stage = "collect" =>
       \A i \in 0 .. at - 1 : genesis[i] = [appState EXCEPT !.time = call]
  /\ Done => \A i \in Running : genesis[i] = [appState EXCEPT !.time = call]

\* The accounts of this call are in the keyrings of the nodes visited.
KeysInv ==
  /\ stage \in {"keys", "gentx"} => \A i \in 0 .. at - 1 : coin[i] = call
  /\ stage = "gentx" => coin[at] = call
  /\ (stage \in {"genesis", "copy", "collect"} \/ Done) =>
       \A i \in Running : coin[i] = call

Inv == TypeOK /\ CallInv /\ WrittenInv /\ CanonicalInv /\ KeysInv

-----------------------------------------------------------------------------
\* The loop over the copies has at least one round.
LEMMA CopyRounds == \A n \in Nat \ {0} : n * n \in Nat \ {0}
OBVIOUS

\* File names a node of the call.
LEMMA FileIsNode ==
  ASSUME NEW n \in Nat \ {0}, NEW k \in Nat
  PROVE  k % n \in 0 .. n - 1
OBVIOUS

\* Writing a file keeps the others.
LEMMA PutType ==
  ASSUME NEW S, NEW files \in SUBSET (Nodes \X S), NEW k \in Nodes, NEW c \in S
  PROVE  Put(files, k, c) \in SUBSET (Nodes \X S)
BY DEF Put

\* The ports of a file are written over those it has had.
LEMMA AppTomlType ==
  ASSUME NEW old \in [Services -> Int], NEW i \in Nat
  PROVE  AppToml(old, i) \in [Services -> Int]
<1>1. GRPCPort(i) \in Int /\ APIPort(i) \in Int
  BY DEF GRPCPort, APIPort
<1>2. [old EXCEPT !["grpc"] = GRPCPort(i)] \in [Services -> Int]
  BY <1>1
<1>3. [[old EXCEPT !["grpc"] = GRPCPort(i)] EXCEPT !["api"] = APIPort(i)]
        \in [Services -> Int]
  BY <1>1, <1>2
<1> QED
  BY <1>3 DEF AppToml

\* Rewriting config.toml keeps the record of ports.
LEMMA ConfigTomlType ==
  ASSUME NEW old \in [Services -> Int], NEW i \in Nat, NEW ports \in Seq(Nat)
  PROVE  ConfigToml(old, ports, i) \in [Services -> Int]
<1> DEFINE one   == [old EXCEPT !["rpc"] = RPCPort(ports, i)]
           two   == [one EXCEPT !["p2p"] = P2PPort(i)]
           three == [two EXCEPT !["proxy"] = ProxyPort(i)]
           four  == [three EXCEPT !["prometheus"] = PrometheusPort(i)]
<1>1. /\ RPCPort(ports, i) \in Int /\ P2PPort(i) \in Int
      /\ ProxyPort(i) \in Int /\ PrometheusPort(i) \in Int
  BY DEF RPCPort, P2PPort, ProxyPort, PrometheusPort
<1>2. ConfigToml(old, ports, i) = four
  BY DEF ConfigToml
<1>3. one \in [Services -> Int]
  BY <1>1
<1> HIDE DEF one
<1>4. two \in [Services -> Int]
  BY <1>1, <1>3
<1> HIDE DEF two
<1>5. three \in [Services -> Int]
  BY <1>1, <1>4
<1> HIDE DEF three
<1>6. four \in [Services -> Int]
  BY <1>1, <1>5
<1> QED
  BY <1>2, <1>6

\* The empty directory is a possible one.
LEMMA EmptyDiskType ==
  /\ EmptyDisk.coin \in [Nodes -> {0} \cup Calls]
  /\ EmptyDisk.gentx \in [Nodes -> SUBSET (Nodes \X (Calls \cup {Broken}))]
  /\ EmptyDisk.genesis \in [Nodes -> GenesisFiles \cup {Nothing}]
  /\ EmptyDisk.config \in [Nodes -> [Services -> Int]]
BY DEF EmptyDisk, NoPorts

\* The call is for at least one node and the loops index nodes.
LEMMA Sizes ==
  ASSUME TypeOK
  PROVE  /\ args.n \in 1 .. MaxNodes /\ args.n \in Nat \ {0}
         /\ Running \subseteq Nodes
         /\ stage # "copy" => at \in Running
         /\ at \in Nat
<1>1. args.n \in 1 .. MaxNodes
  BY TestnetAssumption DEF TypeOK, CallArgs, NoArgs
<1>2. MaxNodes \in Nat
  BY TestnetAssumption
<1>3. Steps \in Nat
  BY <1>1, <1>2, CopyRounds DEF Steps
<1>4. at \in Nat
  BY <1>3 DEF TypeOK
<1>5. stage # "copy" => at \in Running
  BY DEF TypeOK, Steps, Running
<1> QED
  BY <1>1, <1>2, <1>4, <1>5 DEF Running, Nodes

\* Nothing on disk and no call: the invariant holds initially.
LEMMA InitInv == Init => Inv
<1> SUFFICES ASSUME Init PROVE Inv
  OBVIOUS
<1>1. args.n = 1 /\ args = NoArgs
  BY DEF Init, NoArgs
<1>2. at \in 0 .. Steps - 1
  BY <1>1 DEF Init, Steps
<1>3. call \in 0 .. MaxCalls
  BY TestnetAssumption DEF Init
<1>4. TypeOK
  BY <1>1, <1>2, <1>3, EmptyDiskType DEF Init, TypeOK
<1> QED
  BY <1>4 DEF Init, Inv, CallInv, WrittenInv, CanonicalInv, KeysInv, Done

\* A new call starts with nothing written of it.
LEMMA CmdKeepsInv ==
  ASSUME Inv, NEW a \in CallArgs, NewTestnetMultiNodeCmd(a)
  PROVE  Inv'
<1> USE DEF NewTestnetMultiNodeCmd, diskVars
<1>1. TypeOK'
  <2>1. a.n \in 1 .. MaxNodes /\ args' = a
    BY DEF CallArgs
  <2>2. call' \in 0 .. MaxCalls
    BY TestnetAssumption DEF Inv, TypeOK
  <2>3. (at \in 0 .. Steps - 1)'
    BY <2>1, TestnetAssumption DEF Steps
  <2> QED
    BY <2>1, <2>2, <2>3 DEF Inv, TypeOK
<1>2. CallInv'
  BY TestnetAssumption DEF Inv, TypeOK, CallInv, Done, Calls
<1>3. WrittenInv' /\ CanonicalInv' /\ KeysInv'
  BY DEF WrittenInv, CanonicalInv, KeysInv, Done
<1> QED
  BY <1>1, <1>2, <1>3 DEF Inv

\* The keys of one more node are of this call.
LEMMA MakeKeysKeepsInv ==
  ASSUME Inv, MakeKeys
  PROVE  Inv'
<1> USE DEF MakeKeys, callVars
<1>1. TypeOK'
  BY DEF Inv, TypeOK, CallInv, Steps
<1>2. CallInv' /\ WrittenInv' /\ CanonicalInv'
  BY DEF Inv, CallInv, WrittenInv, CanonicalInv, Done, Sound, Made, Running
<1>3. KeysInv'
  BY Sizes DEF Inv, TypeOK, CallInv, KeysInv, Done, Running
<1> QED
  BY <1>1, <1>2, <1>3 DEF Inv

\* One more transaction of this call replaces the one an earlier call left.
LEMMA WriteGentxKeepsInv ==
  ASSUME Inv, WriteGentx
  PROVE  Inv'
<1> USE DEF WriteGentx, callVars, Loop
<1>1. at \in Nodes /\ call \in Calls
  BY Sizes DEF Inv, CallInv
<1>2. gentx' \in [Nodes -> SUBSET (Nodes \X (Calls \cup {Broken}))]
  <2>1. Put(gentx[at], at, call) \in SUBSET (Nodes \X (Calls \cup {Broken}))
    BY <1>1, PutType DEF Inv, TypeOK
  <2> QED
    BY <2>1 DEF Inv, TypeOK
<1>3. config' \in [Nodes -> [Services -> Int]]
  <2>1. AppToml(config[at], at) \in [Services -> Int]
    BY <1>1, AppTomlType DEF Inv, TypeOK, Nodes
  <2> QED
    BY <2>1 DEF Inv, TypeOK
<1>4. (at \in 0 .. Steps - 1)'
  BY Sizes DEF Inv, TypeOK, Steps
<1>5. TypeOK'
  BY <1>2, <1>3, <1>4 DEF Inv, TypeOK
<1>6. CallInv' /\ WrittenInv' /\ CanonicalInv'
  BY DEF Inv, CallInv, WrittenInv, Written, CanonicalInv, Done, Sound, Made, Running
<1>7. KeysInv'
  BY Sizes DEF Inv, KeysInv, CallInv, Done, Running
<1> QED
  BY <1>5, <1>6, <1>7 DEF Inv

\* One more genesis file is the one of this call, with its accounts only.
LEMMA InitGenFilesKeepsInv ==
  ASSUME Inv, InitGenFiles
  PROVE  Inv'
<1> USE DEF InitGenFiles, callVars, Loop
<1> DEFINE file == [chain |-> call, gentxs |-> {}, time |-> 0, accounts |-> Made]
<1>1. at \in Nodes /\ call \in Calls
  BY Sizes DEF Inv, CallInv
<1>2. file \in GenesisFiles
  BY <1>1, Sizes DEF Inv, GenesisFiles, Made, Accounts
<1>3. (at \in 0 .. Steps - 1)'
  <2>1. CASE at < args.n - 1
    BY <2>1, Sizes DEF Inv, TypeOK, Steps
  <2>2. CASE ~(at < args.n - 1)
    <3>1. args.n * args.n \in Nat \ {0}
      BY Sizes, CopyRounds DEF Inv
    <3>2. Steps' = args.n * args.n /\ at' = 0
      BY <2>2 DEF Steps
    <3> QED
      BY <3>1, <3>2
  <2> QED
    BY <2>1, <2>2
<1>4. TypeOK'
  BY <1>1, <1>2, <1>3 DEF Inv, TypeOK
<1>5. CallInv' /\ CanonicalInv' /\ KeysInv'
  BY DEF Inv, CallInv, CanonicalInv, KeysInv, Done, Sound, Made, Running
<1>6. \A i \in 0 .. at : /\ genesis'[i] \in GenesisFiles
                         /\ genesis'[i].accounts = Made /\ genesis'[i].chain = call
  <2>1. genesis'[at] = file
    BY <1>1 DEF Inv, TypeOK
  <2>2. file.accounts = Made /\ file.chain = call
    OBVIOUS
  <2> HIDE DEF file
  <2>3. ASSUME NEW i \in 0 .. at - 1
        PROVE  /\ genesis'[i] \in GenesisFiles
               /\ genesis'[i].accounts = Made /\ genesis'[i].chain = call
    <3>1. genesis'[i] = genesis[i]
      BY Sizes DEF Inv, TypeOK
    <3> QED
      BY <3>1 DEF Inv, WrittenInv, Written
  <2> QED
    BY <1>1, <1>2, <2>1, <2>2, <2>3 DEF Nodes
<1>7. WrittenInv'
  <2>1. call' = call /\ args' = args /\ Made' = Made
    BY DEF Made, Running
  <2>2. CASE at < args.n - 1
    BY <1>1, <1>6, <2>1, <2>2 DEF WrittenInv, Written, Nodes
  <2>3. CASE ~(at < args.n - 1)
    <3>1. args.n - 1 = at
      BY <2>3, Sizes DEF Inv, Running
    <3> QED
      BY <1>6, <2>1, <2>3, <3>1 DEF WrittenInv, Written
  <2> QED
    BY <2>2, <2>3
<1> QED
  BY <1>4, <1>5, <1>7 DEF Inv

\* A copy puts a transaction of this call, or a broken file, in place.
LEMMA CopyFileKeepsInv ==
  ASSUME Inv, CopyFile
  PROVE  Inv'
<1>1. File \in Nodes /\ call \in Calls
  BY Sizes, FileIsNode DEF Inv, CallInv, File, CopyFile, Running
<1>2. gentx' \in [Nodes -> SUBSET (Nodes \X (Calls \cup {Broken}))]
  <2> DEFINE S == Calls \cup {Broken}
  <2>1. ASSUME NEW c \in S
        PROVE  [gentx EXCEPT ![Target] = Put(@, File, c)]
                 \in [Nodes -> SUBSET (Nodes \X S)]
    <3>1. CASE Target \in Nodes
      <4>1. Put(gentx[Target], File, c) \in SUBSET (Nodes \X S)
        BY <1>1, <3>1, PutType DEF Inv, TypeOK
      <4> QED
        BY <4>1 DEF Inv, TypeOK
    <3>2. CASE Target \notin Nodes
      BY <3>2 DEF Inv, TypeOK
    <3> QED
      BY <3>1, <3>2
  <2>2. call \in S /\ Broken \in S
    BY <1>1
  <2>3. \/ gentx' = gentx
        \/ gentx' = [gentx EXCEPT ![Target] = Put(@, File, call)]
        \/ gentx' = [gentx EXCEPT ![Target] = Put(@, File, Broken)]
    BY DEF CopyFile
  <2>4. gentx \in [Nodes -> SUBSET (Nodes \X S)]
    BY DEF Inv, TypeOK
  <2> QED
    BY <2>1, <2>2, <2>3, <2>4
<1>3. (at \in 0 .. Steps - 1)'
  <2>1. args.n * args.n \in Nat /\ args' = args
    BY Sizes, CopyRounds DEF Inv, CopyFile
  <2>2. at \in 0 .. args.n * args.n - 1
    BY DEF Inv, TypeOK, Steps, CopyFile
  <2> QED
    BY <2>1, <2>2, Sizes DEF Inv, CopyFile, Steps
<1>4. TypeOK'
  BY <1>2, <1>3 DEF Inv, TypeOK, CopyFile
<1>5. CallInv' /\ WrittenInv'
  BY DEF Inv, CallInv, WrittenInv, Written, Done, Made, Running, CopyFile
<1>6. CanonicalInv'
  BY DEF Inv, CallInv, CanonicalInv, Done, Sound, CopyFile
<1>7. KeysInv'
  BY DEF Inv, CallInv, KeysInv, Done, Running, CopyFile
<1> QED
  BY <1>4, <1>5, <1>6, <1>7 DEF Inv

\* What CollectTxs accepts is sound: the accounts of its genesis file are those
\* of this call.
LEMMA CollectedIsSound ==
  ASSUME Inv, stage = "collect", Collectable(at)
  PROVE  Sound(NodeAppState(at))
<1>1. /\ genesis[at] \in GenesisFiles
      /\ genesis[at].accounts = Made /\ genesis[at].chain = call
  BY Sizes DEF Inv, WrittenInv, Written, Running
<1>2. gentx[at] \subseteq Made
  BY <1>1 DEF Collectable
<1>3. Made \subseteq Accounts
  BY <1>1 DEF GenesisFiles
<1>4. /\ NodeAppState(at) \in GenesisFiles
      /\ NodeAppState(at).accounts = Made /\ NodeAppState(at).chain = call
      /\ NodeAppState(at).gentxs = gentx[at]
  BY <1>1, <1>2, <1>3 DEF NodeAppState, GenesisFiles
<1>5. \A g \in gentx[at] : StakeOf(args.stakes, g[1]) <= Balance
  BY DEF Collectable
<1> QED
  BY <1>2, <1>4, <1>5 DEF Sound

\* Each node gets the state of the first one, with the time of the call.
LEMMA CollectKeepsInv ==
  ASSUME Inv, CollectGenFiles
  PROVE  Inv'
<1>1. /\ stage = "collect" /\ at \in Nodes /\ at \in Running
      /\ args' = args /\ call' = call /\ call \in Calls
  BY Sizes DEF Inv, CallInv, CollectGenFiles
<1>2. Made' = Made /\ Running' = Running
  BY <1>1 DEF Made, Running
<1>3. Sound(appState')
  BY <1>1, CollectedIsSound DEF CollectGenFiles, Inv, CanonicalInv
<1>4. appState' # Nothing
  BY <1>3, NothingAssumption DEF Sound
<1> DEFINE file == [appState' EXCEPT !.time = call]
<1>5. /\ file \in GenesisFiles
      /\ file.accounts = Made /\ file.chain = call
  BY <1>1, <1>3 DEF Sound, GenesisFiles
<1>6. /\ genesis' \in [Nodes -> GenesisFiles \cup {Nothing}]
      /\ genesis'[at] = file
      /\ \A i \in Nodes : i # at => genesis'[i] = genesis[i]
  <2>1. genesis' = [genesis EXCEPT ![at] = file]
    BY DEF CollectGenFiles
  <2> HIDE DEF file
  <2> QED
    BY <1>1, <1>5, <2>1 DEF Inv, TypeOK
<1>7. config' \in [Nodes -> [Services -> Int]]
  <2>1. args.ports \in Seq(Nat)
    <3>1. CASE args \in CallArgs
      BY <3>1, TestnetAssumption DEF CallArgs
    <3>2. CASE args = NoArgs
      BY <3>2 DEF NoArgs
    <3> QED
      BY <3>1, <3>2 DEF Inv, TypeOK
  <2>2. config \in [Nodes -> [Services -> Int]]
    BY DEF Inv, TypeOK
  <2>3. at \in Nat /\ config[at] \in [Services -> Int]
    BY <1>1, <2>2 DEF Nodes
  <2>4. ConfigToml(config[at], args.ports, at) \in [Services -> Int]
    BY <2>1, <2>3, ConfigTomlType
  <2>5. config' = [config EXCEPT ![at] = ConfigToml(config[at], args.ports, at)]
    BY DEF CollectGenFiles
  <2> QED
    BY <2>2, <2>4, <2>5
<1>8. (at \in 0 .. Steps - 1)'
  BY <1>1, Sizes DEF Inv, CollectGenFiles, Return, Steps
<1>9. TypeOK'
  BY <1>3, <1>6, <1>7, <1>8 DEF Inv, TypeOK, CollectGenFiles, Return, Sound
<1>10. CallInv'
  BY <1>1, <1>4 DEF Inv, CallInv, CollectGenFiles, Return, Done
<1>11. WrittenInv'
  <2>1. Written(args.n)'
    <3> HIDE DEF file
    <3> SUFFICES ASSUME NEW i \in Running
                 PROVE  /\ genesis'[i] \in GenesisFiles
                        /\ genesis'[i].accounts = Made /\ genesis'[i].chain = call
      BY <1>1, <1>2 DEF Written, Running
    <3>1. i \in Nodes
      BY Sizes DEF Inv
    <3> QED
      BY <1>1, <1>5, <1>6, <3>1 DEF Inv, WrittenInv, Written, Running
  <2> QED
    BY <1>1, <2>1 DEF WrittenInv, CollectGenFiles, Return
<1>12. CanonicalInv'
  <2>1. \A i \in 0 .. at : genesis'[i] = file
    <3> HIDE DEF file
    <3>1. CASE at = 0
      BY <1>6, <3>1
    <3>2. CASE at > 0
      <4>1. appState' = appState
        BY <1>1, <3>2 DEF Inv, CallInv, CollectGenFiles
      <4>2. \A i \in 0 .. at - 1 : genesis[i] = file
        BY <1>1, <4>1 DEF Inv, CanonicalInv, file
      <4>3. ASSUME NEW i \in 0 .. at - 1
            PROVE  genesis'[i] = file
        <5>1. i \in Nodes /\ i # at
          BY <1>1, TestnetAssumption DEF Nodes
        <5> QED
          BY <1>6, <4>2, <5>1
      <4> QED
        BY <1>1, <1>6, <4>3 DEF Nodes
    <3> QED
      BY <1>1, <3>1, <3>2 DEF Nodes
  <2>2. Sound(appState)'
    BY <1>1, <1>2, <1>3 DEF Sound
  <2>3. (stage = "collect")' => \A i \in 0 .. at' - 1 : genesis'[i] = file
    BY <1>1, <2>1, Sizes DEF Inv, CollectGenFiles, Return
  <2>4. Done' => \A i \in Running : genesis'[i] = file
    BY <1>1, <2>1, Sizes DEF Inv, CallInv, CollectGenFiles, Return, Done, Running
  <2> QED
    BY <1>1, <1>2, <2>2, <2>3, <2>4 DEF CanonicalInv
<1>13. KeysInv'
  BY <1>1, <1>2 DEF Inv, KeysInv, CollectGenFiles, Return, Done
<1> QED
  BY <1>9, <1>10, <1>11, <1>12, <1>13 DEF Inv

\* A call that ends with an error promises nothing.
LEMMA FailureKeepsInv ==
  ASSUME Inv, RemoveAll \/ BreakGentx \/ CollectFails \/ Fail
  PROVE  Inv'
<1>1. /\ stage' = "idle" /\ at' = 0 /\ result' = "failed"
      /\ UNCHANGED callVars
  BY DEF RemoveAll, BreakGentx, CollectFails, Fail, Return
<1>2. (at \in 0 .. Steps - 1)'
  BY <1>1, Sizes DEF Inv, Steps, callVars
<1>3. TypeOK'
  <2>1. CASE RemoveAll
    BY <1>1, <1>2, <2>1, EmptyDiskType DEF RemoveAll, Inv, TypeOK, callVars
  <2>2. CASE BreakGentx
    <3>1. at \in Nodes
      BY <2>2, Sizes DEF Inv, BreakGentx
    <3>2. Put(gentx[at], at, Broken) \in SUBSET (Nodes \X (Calls \cup {Broken}))
      BY <3>1, PutType DEF Inv, TypeOK
    <3> QED
      BY <1>1, <1>2, <2>2, <3>2 DEF BreakGentx, Inv, TypeOK, callVars
  <2>3. CASE CollectFails \/ Fail
    BY <1>1, <1>2, <2>3 DEF CollectFails, Fail, diskVars, Inv, TypeOK, callVars
  <2> QED
    BY <2>1, <2>2, <2>3
<1>4. CallInv' /\ WrittenInv' /\ KeysInv'
  BY <1>1 DEF CallInv, WrittenInv, KeysInv, Done
<1>5. CanonicalInv'
  BY <1>1 DEF Inv, CanonicalInv, Done, Sound, Made, Running, callVars
<1> QED
  BY <1>3, <1>4, <1>5 DEF Inv

\* A step that changes nothing.
LEMMA StutterKeepsInv ==
  ASSUME Inv, UNCHANGED vars
  PROVE  Inv'
BY DEF vars, callVars, diskVars, Inv, TypeOK, Steps, CallInv, WrittenInv, Written,
       CanonicalInv, Sound, KeysInv, Done, Made, Running

\* Every step of the command keeps the invariant.
LEMMA NextKeepsInv == Inv /\ [Next]_vars => Inv'
BY CmdKeepsInv, MakeKeysKeepsInv, WriteGentxKeepsInv, InitGenFilesKeepsInv,
   CopyFileKeepsInv, CollectKeepsInv, FailureKeepsInv, StutterKeepsInv DEF Next

\* The invariant holds in every reachable state.
LEMMA AlwaysInv == Spec => []Inv
BY InitInv, NextKeepsInv, PTL DEF Spec

-----------------------------------------------------------------------------
\* The loops of the command stay within the nodes of the call, and the files on
\* disk are of the forms the command writes.
THEOREM TestnetTypes == Spec => []TypeOK
BY AlwaysInv, PTL DEF Inv

\* A successful call leaves the same genesis file with every node.
THEOREM OneGenesisFile == Spec => []GenesisFilesAgree
<1>1. Inv => GenesisFilesAgree
  BY DEF Inv, CanonicalInv, GenesisFilesAgree, Done
<1> QED
  BY <1>1, AlwaysInv, PTL

\* Its validators are nodes of this testnet, hold the accounts of its keyrings
\* and can pay their stakes, whatever earlier calls left on disk.
THEOREM ValidatorsOfThisTestnet == Spec => []ValidatorsAreNodes
<1>1. Inv => ValidatorsAreNodes
  <2> SUFFICES ASSUME Inv, Done, NEW i \in Running, NEW g \in genesis[i].gentxs
               PROVE  /\ g[1] \in Running /\ g[2] = coin[g[1]]
                      /\ genesis[i].chain = call
                      /\ StakeOf(args.stakes, g[1]) <= Balance
    BY DEF ValidatorsAreNodes
  <2>1. Sound(appState) /\ genesis[i] = [appState EXCEPT !.time = call]
    BY DEF Inv, CallInv, CanonicalInv
  <2>2. genesis[i].gentxs = appState.gentxs /\ genesis[i].chain = call
    BY <2>1 DEF Sound, GenesisFiles
  <2>3. g \in Running \X {call}
    BY <2>1, <2>2 DEF Sound, Made
  <2> QED
    BY <2>1, <2>2, <2>3 DEF Inv, KeysInv, Sound
<1> QED
  BY <1>1, AlwaysInv, PTL

-----------------------------------------------------------------------------
(* The genesis transactions.                                               *)

\* How far the transactions of this call have come to the directories; once a
\* copy is lost nothing is known of them.
FilesInv ==
  /\ stage \in {"keys", "gentx"} => \A i \in 0 .. at - 1 : <<i, call>> \in gentx[i]
  /\ stage \in {"genesis", "copy"} /\ ~lost =>
       \A i \in Running : <<i, call>> \in gentx[i]
  /\ stage = "copy" /\ ~lost =>
       \A j \in 0 .. at - 1 : <<j % args.n, call>> \in gentx[j \div args.n]
  /\ stage = "collect" /\ ~lost => \A i \in Running : Made \subseteq gentx[i]
  /\ appState # Nothing /\ ~lost => Made \subseteq appState.gentxs

\* A file that is written is there, and no file of this call goes.
LEMMA PutKeeps ==
  ASSUME NEW files, NEW k, NEW c
  PROVE  /\ <<k, c>> \in Put(files, k, c)
         /\ \A j : <<j, c>> \in files => <<j, c>> \in Put(files, k, c)
BY DEF Put

LEMMA LessMultiple ==
  ASSUME NEW n \in Nat \ {0}, NEW q \in Nat, NEW r \in Nat, q * n + r < n * n
  PROVE  q < n
<1> SUFFICES ASSUME q >= n PROVE FALSE
  OBVIOUS
<1>1. PICK e \in Nat : q = n + e
  <2>1. q - n \in Nat /\ q = n + (q - n)
    OBVIOUS
  <2> QED
    BY <2>1
<1>2. q * n = n * n + e * n
  BY <1>1
<1>3. e * n \in Nat /\ n * n \in Nat
  BY <1>1
<1> QED
  BY <1>2, <1>3

LEMMA Division ==
  ASSUME NEW n \in Nat \ {0}, NEW k \in Nat
  PROVE  /\ k \div n \in Nat /\ k % n \in 0 .. n - 1 /\ k = (k \div n) * n + (k % n)
OBVIOUS

\* The loop over the copies visits every pair of nodes.
LEMMA TargetIsNode ==
  ASSUME NEW n \in Nat \ {0}, NEW k \in 0 .. n * n - 1
  PROVE  k \div n \in 0 .. n - 1
<1>1. n * n \in Nat
  OBVIOUS
<1>2. k \in Nat /\ k < n * n
  BY <1>1
<1>3. k \div n \in Nat /\ k % n \in Nat /\ k = (k \div n) * n + (k % n)
  BY <1>2, Division
<1> DEFINE q == k \div n
           r == k % n
<1>4. q \in Nat /\ r \in Nat /\ q * n + r < n * n
  BY <1>2, <1>3
<1> HIDE DEF q, r
<1>5. q < n
  BY <1>4, LessMultiple
<1> QED
  BY <1>4, <1>5 DEF q

LEMMA PairIsVisited ==
  ASSUME NEW n \in Nat \ {0}, NEW i \in 0 .. n - 1, NEW k \in 0 .. n - 1
  PROVE  \E j \in 0 .. n * n - 1 : j % n = k /\ j \div n = i
<1> DEFINE m == i * n
           j == m + k
<1>1. m \in Nat /\ m + n <= n * n
  <2>1. PICK e \in Nat : n = i + 1 + e
    <3>1. n - (i + 1) \in Nat /\ n = i + 1 + (n - (i + 1))
      OBVIOUS
    <3> QED
      BY <3>1
  <2>2. n * n = i * n + n + e * n
    BY <2>1
  <2>3. e * n \in Nat /\ i * n \in Nat
    BY <2>1
  <2> QED
    BY <2>2, <2>3
<1>2. j \in 0 .. n * n - 1
  BY <1>1
<1>3. j % n = k /\ j \div n = i
  BY <1>1
<1> QED
  BY <1>2, <1>3

\* One more node has its own transaction.
LEMMA GentxFiles ==
  ASSUME Inv, FilesInv, WriteGentx
  PROVE  FilesInv'
<1>1. /\ at \in Nodes /\ at \in Running /\ at \in Nat /\ args.n \in Nat
      /\ args' = args /\ Running' = Running /\ call' = call /\ lost' = lost
      /\ appState' = appState /\ stage = "gentx" /\ appState = Nothing
  BY Sizes DEF Inv, CallInv, WriteGentx, callVars, Running
<1>2. gentx \in [Nodes -> SUBSET (Nodes \X (Calls \cup {Broken}))]
      /\ gentx' = [gentx EXCEPT ![at] = Put(@, at, call)]
  BY DEF Inv, TypeOK, WriteGentx
<1>3. \A i \in 0 .. at : <<i, call>> \in gentx'[i]
  <2>1. gentx'[at] = Put(gentx[at], at, call)
    BY <1>1, <1>2
  <2>2. <<at, call>> \in gentx'[at]
    BY <2>1, PutKeeps
  <2>3. ASSUME NEW i \in 0 .. at - 1 PROVE <<i, call>> \in gentx'[i]
    <3>1. gentx'[i] = gentx[i]
      BY <1>1, <1>2
    <3> QED
      BY <1>1, <3>1 DEF FilesInv
  <2> QED
    BY <1>1, <2>2, <2>3
<1>4. CASE at < args.n - 1
  BY <1>1, <1>3, <1>4 DEF WriteGentx, Loop, FilesInv
<1>5. CASE ~(at < args.n - 1)
  <2>1. stage' = "genesis" /\ \A i \in Running : <<i, call>> \in gentx'[i]
    BY <1>1, <1>3, <1>5 DEF WriteGentx, Loop, Running
  <2> QED
    BY <1>1, <2>1 DEF FilesInv
<1> QED
  BY <1>4, <1>5

\* One more copy is there, unless one is lost.
LEMMA CopyFiles ==
  ASSUME Inv, FilesInv, CopyFile
  PROVE  FilesInv'
<1>1. /\ stage = "copy" /\ args' = args /\ call' = call /\ appState' = appState
      /\ appState = Nothing /\ Running' = Running /\ Made' = Made
      /\ args.n \in Nat \ {0} /\ at \in 0 .. args.n * args.n - 1 /\ Running \subseteq Nodes
  BY Sizes DEF CopyFile, Inv, CallInv, TypeOK, Steps, Running, Made
<1>2. CASE lost'
  BY <1>1, <1>2 DEF CopyFile, FilesInv
<1>3. CASE ~lost'
  <2>1. ~lost /\ gentx' = IF File = Target THEN gentx
                          ELSE [gentx EXCEPT ![Target] = Put(@, File, call)]
    BY <1>3 DEF CopyFile, Inv, TypeOK
  <2>2. PICK t : t = at \div args.n
    OBVIOUS
  <2>3. PICK f : f = at % args.n
    OBVIOUS
  <2>4. at \in Nat /\ t \in Running /\ f \in Running /\ t \in Nodes
    <3>1. args.n * args.n \in Nat
      BY <1>1, CopyRounds
    <3>2. at \in Nat
      BY <1>1, <3>1
    <3> QED
      BY <1>1, <2>2, <2>3, <3>2, Division, TargetIsNode DEF Running
  <2>5. /\ gentx \in [Nodes -> SUBSET (Nodes \X (Calls \cup {Broken}))]
        /\ gentx' = IF f = t THEN gentx ELSE [gentx EXCEPT ![t] = Put(@, f, call)]
    BY <2>1, <2>2, <2>3 DEF Inv, TypeOK, File, Target
  <2>6. \A i \in Running : \A k : <<k, call>> \in gentx[i] => <<k, call>> \in gentx'[i]
    <3> SUFFICES ASSUME NEW i \in Running, NEW k, <<k, call>> \in gentx[i]
                 PROVE  <<k, call>> \in gentx'[i]
      OBVIOUS
    <3>1. i \in Nodes
      BY <1>1
    <3>2. gentx'[i] = gentx[i] \/ gentx'[i] = Put(gentx[i], f, call)
      BY <2>4, <2>5, <3>1
    <3> QED
      BY <3>2, PutKeeps
  <2>7. <<f, call>> \in gentx'[t]
    <3>1. CASE f = t
      BY <1>1, <2>1, <2>4, <2>5, <3>1 DEF FilesInv
    <3>2. CASE f # t
      <4>1. gentx'[t] = Put(gentx[t], f, call)
        BY <2>4, <2>5, <3>2
      <4> QED
        BY <4>1, PutKeeps
    <3> QED
      BY <3>1, <3>2
  <2>8. \A j \in 0 .. at : <<j % args.n, call>> \in gentx'[j \div args.n]
    <3>1. ASSUME NEW j \in 0 .. at - 1
          PROVE  <<j % args.n, call>> \in gentx'[j \div args.n]
      <4>1. <<j % args.n, call>> \in gentx[j \div args.n]
        BY <1>1, <2>1 DEF FilesInv
      <4>2. j \div args.n \in Running
        <5>1. args.n * args.n \in Nat
          BY <1>1, CopyRounds
        <5>2. j \in 0 .. args.n * args.n - 1
          BY <1>1, <2>4, <5>1
        <5> QED
          BY <1>1, <5>2, TargetIsNode DEF Running
      <4> QED
        BY <2>6, <4>1, <4>2
    <3>2. <<at % args.n, call>> \in gentx'[at \div args.n]
      BY <2>2, <2>3, <2>7
    <3>3. \A j \in 0 .. at : j \in 0 .. at - 1 \/ j = at
      BY <2>4
    <3> QED
      BY <3>1, <3>2, <3>3
  <2>9. \A i \in Running : <<i, call>> \in gentx'[i]
    BY <1>1, <2>1, <2>6 DEF FilesInv
  <2>10. CASE at < args.n * args.n - 1
    <3>1. stage' = "copy" /\ at' = at + 1 /\ at' - 1 = at
      BY <2>4, <2>10 DEF CopyFile
    <3> QED
      BY <1>1, <2>8, <2>9, <3>1 DEF FilesInv
  <2>11. CASE ~(at < args.n * args.n - 1)
    <3>1. stage' = "collect"
      BY <2>11 DEF CopyFile
    <3>2. args.n * args.n - 1 = at
      <4>1. args.n * args.n \in Nat
        BY <1>1, CopyRounds
      <4> QED
        BY <1>1, <2>4, <2>11, <4>1
    <3>3. ASSUME NEW i \in Running, NEW k \in Running PROVE <<k, call>> \in gentx'[i]
      <4>1. PICK j \in 0 .. at : j % args.n = k /\ j \div args.n = i
        BY <1>1, <3>2, PairIsVisited DEF Running
      <4> QED
        BY <2>8, <4>1
    <3>4. \A i \in Running : Made \subseteq gentx'[i]
      BY <3>3 DEF Made
    <3> QED
      BY <1>1, <3>1, <3>4 DEF FilesInv
  <2> QED
    BY <2>10, <2>11
<1> QED
  BY <1>2, <1>3

\* The canonical state has the transactions of the first directory.
LEMMA CollectFiles ==
  ASSUME Inv, FilesInv, CollectGenFiles
  PROVE  FilesInv'
<1>1. /\ stage = "collect" /\ args' = args /\ call' = call /\ lost' = lost
      /\ gentx' = gentx /\ at \in Running /\ Running' = Running /\ Made' = Made
      /\ stage' \in {"collect", "idle"}
  BY Sizes DEF CollectGenFiles, Return, Inv, Running, Made
<1>2. appState' # Nothing /\ ~lost' => Made \subseteq appState'.gentxs
  <2>1. CASE appState # Nothing
    BY <1>1, <2>1 DEF CollectGenFiles, FilesInv
  <2>2. CASE appState = Nothing
    <3>1. appState' = NodeAppState(at) /\ Collectable(at)
      BY <2>2 DEF CollectGenFiles
    <3>2. genesis[at] \in GenesisFiles
      BY <1>1 DEF Inv, WrittenInv, Written, Running
    <3>3. NodeAppState(at).gentxs = gentx[at]
      BY <3>2 DEF NodeAppState, GenesisFiles
    <3> QED
      BY <1>1, <3>1, <3>3 DEF FilesInv
  <2> QED
    BY <2>1, <2>2
<1> QED
  BY <1>1, <1>2 DEF FilesInv

\* Every step keeps what is known of the transactions.
LEMMA FilesStep == Inv /\ FilesInv /\ [Next]_vars => FilesInv'
<1> SUFFICES ASSUME Inv, FilesInv, [Next]_vars PROVE FilesInv'
  OBVIOUS
<1>1. ASSUME NEW a \in CallArgs, NewTestnetMultiNodeCmd(a) PROVE FilesInv'
  BY <1>1 DEF NewTestnetMultiNodeCmd, FilesInv
<1>2. CASE MakeKeys
  BY <1>2 DEF MakeKeys, callVars, FilesInv, Made, Running
<1>3. CASE InitGenFiles
  BY <1>3 DEF InitGenFiles, Loop, callVars, Inv, CallInv, FilesInv, Running
<1>4. CASE RemoveAll \/ BreakGentx \/ CollectFails \/ Fail
  <2>1. stage' = "idle" /\ UNCHANGED <<call, args, appState, lost>>
    BY <1>4 DEF RemoveAll, BreakGentx, CollectFails, Fail, Return, callVars
  <2> QED
    BY <2>1 DEF FilesInv, Made, Running
<1>5. CASE UNCHANGED vars
  BY <1>5 DEF vars, callVars, diskVars, FilesInv, Made, Running
<1> QED
  BY <1>1, <1>2, <1>3, <1>4, <1>5, GentxFiles, CopyFiles, CollectFiles DEF Next

\* A call that succeeds without losing a copy makes every node a validator, also
\* in a directory where calls have failed before: nothing they left stands in the
\* way of a transaction of this call.
THEOREM EveryNodeValidates == Spec => []NodesAreValidators
<1>1. Init => FilesInv
  BY DEF Init, FilesInv
<1>2. Inv /\ FilesInv => NodesAreValidators
  <2> SUFFICES ASSUME Inv, FilesInv, Done, ~lost, NEW i \in Running
               PROVE  genesis[i].gentxs = Made
    BY DEF NodesAreValidators
  <2>1. Sound(appState) /\ genesis[i] = [appState EXCEPT !.time = call]
    BY DEF Inv, CallInv, CanonicalInv
  <2>2. genesis[i].gentxs = appState.gentxs
    BY <2>1 DEF Sound, GenesisFiles
  <2>3. Made \subseteq appState.gentxs /\ appState.gentxs \subseteq Made
    BY <2>1 DEF FilesInv, Inv, CallInv, Sound
  <2> QED
    BY <2>2, <2>3
<1> QED
  BY <1>1, <1>2, FilesStep, InitInv, NextKeepsInv, PTL DEF Spec

-----------------------------------------------------------------------------
(* The ports.                                                              *)

\* What AppToml writes, and that the ports of config.toml stay.
LEMMA AppTomlPorts ==
  ASSUME NEW old \in [Services -> Int], NEW i \in Nat
  PROVE  /\ AppToml(old, i)["grpc"] = GRPCPort(i)
         /\ AppToml(old, i)["api"] = APIPort(i)
BY DEF AppToml, Services

\* What ConfigToml writes, and that the ports of app.toml stay.
LEMMA ConfigTomlPorts ==
  ASSUME NEW old \in [Services -> Int], NEW i \in Nat, NEW ports \in Seq(Nat)
  PROVE  /\ ConfigToml(old, ports, i)["rpc"] = RPCPort(ports, i)
         /\ ConfigToml(old, ports, i)["p2p"] = P2PPort(i)
         /\ ConfigToml(old, ports, i)["proxy"] = ProxyPort(i)
         /\ ConfigToml(old, ports, i)["prometheus"] = PrometheusPort(i)
         /\ ConfigToml(old, ports, i)["grpc"] = old["grpc"]
         /\ ConfigToml(old, ports, i)["api"] = old["api"]
BY DEF ConfigToml, Services

AppPorts(file, i) == file["grpc"] = GRPCPort(i) /\ file["api"] = APIPort(i)

NodePorts(file, ports, i) ==
  /\ file["rpc"] = RPCPort(ports, i) /\ file["p2p"] = P2PPort(i)
  /\ file["proxy"] = ProxyPort(i) /\ file["prometheus"] = PrometheusPort(i)

\* How far the configuration files of this call are written.
PortsInv ==
  /\ stage \in {"keys", "gentx"} => \A i \in 0 .. at - 1 : AppPorts(config[i], i)
  /\ (stage \in {"genesis", "copy", "collect"} \/ Done) =>
       \A i \in Running : AppPorts(config[i], i)
  /\ stage = "collect" => \A i \in 0 .. at - 1 : NodePorts(config[i], args.ports, i)
  /\ Done => \A i \in Running : NodePorts(config[i], args.ports, i)

\* Every step keeps what is known of the ports written so far.
LEMMA PortsStep == Inv /\ PortsInv /\ [Next]_vars => PortsInv'
<1> SUFFICES ASSUME Inv, PortsInv, [Next]_vars PROVE PortsInv'
  OBVIOUS
<1>1. ASSUME NEW a \in CallArgs, NewTestnetMultiNodeCmd(a) PROVE PortsInv'
  BY <1>1 DEF NewTestnetMultiNodeCmd, PortsInv, Done
<1>2. CASE MakeKeys
  BY <1>2 DEF MakeKeys, callVars, Inv, CallInv, PortsInv, Done
<1>3. CASE WriteGentx
  <2>1. /\ at \in Nodes /\ at \in Running /\ at \in Nat /\ args.n \in Nat
        /\ args' = args /\ Running' = Running /\ result' = "running"
    BY <1>3, Sizes DEF Inv, CallInv, WriteGentx, callVars, Running
  <2>2. AppPorts(config'[at], at)
    <3>1. config'[at] = AppToml(config[at], at) /\ config[at] \in [Services -> Int]
      BY <1>3, <2>1 DEF WriteGentx, Inv, TypeOK
    <3> QED
      BY <2>1, <3>1, AppTomlPorts DEF AppPorts
  <2>3. \A i \in 0 .. at - 1 : AppPorts(config'[i], i)
    <3> SUFFICES ASSUME NEW i \in 0 .. at - 1 PROVE AppPorts(config'[i], i)
      OBVIOUS
    <3>1. config'[i] = config[i]
      BY <1>3, <2>1 DEF WriteGentx, Inv, TypeOK
    <3> QED
      BY <1>3, <3>1 DEF PortsInv, WriteGentx
  <2>4. \A i \in 0 .. at : AppPorts(config'[i], i)
    BY <2>1, <2>2, <2>3
  <2>5. CASE at < args.n - 1
    BY <1>3, <2>1, <2>4, <2>5 DEF WriteGentx, Loop, PortsInv, Done
  <2>6. CASE ~(at < args.n - 1)
    BY <1>3, <2>1, <2>4, <2>6 DEF WriteGentx, Loop, PortsInv, Done, Running
  <2> QED
    BY <2>5, <2>6
<1>4. CASE InitGenFiles \/ CopyFile
  BY <1>4 DEF InitGenFiles, CopyFile, Loop, callVars, Inv, CallInv, PortsInv, Done,
              Running
<1>5. CASE CollectGenFiles
  <2>1. /\ at \in Nodes /\ at \in Running /\ at \in Nat /\ args.n \in Nat
        /\ stage = "collect" /\ result = "running"
        /\ args' = args /\ Running' = Running
    BY <1>5, Sizes DEF Inv, CallInv, CollectGenFiles, Running
  <2>2. args.ports \in Seq(Nat)
    <3>1. CASE args \in CallArgs
      BY <3>1, TestnetAssumption DEF CallArgs
    <3>2. CASE args = NoArgs
      BY <3>2 DEF NoArgs
    <3> QED
      BY <3>1, <3>2 DEF Inv, TypeOK
  <2>3. /\ config'[at] = ConfigToml(config[at], args.ports, at)
        /\ config[at] \in [Services -> Int]
        /\ \A i \in Nodes : i # at => config'[i] = config[i]
    BY <1>5, <2>1 DEF CollectGenFiles, Inv, TypeOK
  <2>4. NodePorts(config'[at], args.ports, at)
    BY <2>1, <2>2, <2>3, ConfigTomlPorts DEF NodePorts
  <2>5. \A i \in Running : AppPorts(config'[i], i)
    <3> SUFFICES ASSUME NEW i \in Running PROVE AppPorts(config'[i], i)
      OBVIOUS
    <3>1. AppPorts(config[i], i) /\ i \in Nodes
      BY <2>1, Sizes DEF Inv, PortsInv
    <3>2. config'[i]["grpc"] = config[i]["grpc"] /\ config'[i]["api"] = config[i]["api"]
      BY <2>1, <2>2, <2>3, <3>1, ConfigTomlPorts
    <3> QED
      BY <3>1, <3>2 DEF AppPorts
  <2>6. \A i \in 0 .. at : NodePorts(config'[i], args.ports, i)
    <3>1. ASSUME NEW i \in 0 .. at - 1 PROVE NodePorts(config'[i], args.ports, i)
      <4>1. i \in Nodes /\ i # at
        BY <2>1, TestnetAssumption DEF Nodes
      <4> QED
        BY <2>1, <2>3, <4>1 DEF PortsInv
    <3> QED
      BY <2>1, <2>4, <3>1
  <2>7. CASE at < args.n - 1
    BY <1>5, <2>1, <2>5, <2>6, <2>7 DEF CollectGenFiles, PortsInv, Done
  <2>8. CASE ~(at < args.n - 1)
    BY <1>5, <2>1, <2>5, <2>6, <2>8 DEF CollectGenFiles, Return, PortsInv, Done, Running
  <2> QED
    BY <2>7, <2>8
<1>6. CASE RemoveAll \/ BreakGentx \/ CollectFails \/ Fail
  BY <1>6 DEF RemoveAll, BreakGentx, CollectFails, Fail, Return, PortsInv, Done
<1>7. CASE UNCHANGED vars
  BY <1>7 DEF vars, callVars, diskVars, PortsInv, Done, Running
<1> QED
  BY <1>1, <1>2, <1>3, <1>4, <1>5, <1>6, <1>7 DEF Next

\* The default port of each service of node i.
Formula(s, i) ==
  CASE s = "rpc" -> 26657 - 3 * i
    [] s = "p2p" -> 26656 - 3 * i
    [] s = "proxy" -> 26658 - 3 * i
    [] s = "prometheus" -> 26660 + i
    [] s = "grpc" -> 9090 - 2 * i
    [] s = "api" -> 1317 - i

\* The value of the formula for each service.
LEMMA FormulaValues ==
  \A i : /\ Formula("rpc", i) = 26657 - 3 * i
         /\ Formula("p2p", i) = 26656 - 3 * i
         /\ Formula("proxy", i) = 26658 - 3 * i
         /\ Formula("prometheus", i) = 26660 + i
         /\ Formula("grpc", i) = 9090 - 2 * i
         /\ Formula("api", i) = 1317 - i
  BY DEF Formula

\* The ports of three services step down by three from neighbouring numbers; the
\* others keep away from them, and from each other as long as the gRPC ports have
\* not come down to the API ports.
LEMMA FormulasDiffer ==
  ASSUME NEW i \in Nat, i <= 3886, NEW j \in Nat, j <= 3886,
         NEW s \in Services, NEW t \in Services, Formula(s, i) = Formula(t, j)
  PROVE  i = j /\ s = t
<1>1. /\ 26657 - 3 * i # 26656 - 3 * j /\ 26657 - 3 * i # 26658 - 3 * j
      /\ 26656 - 3 * i # 26658 - 3 * j /\ 26656 - 3 * i # 26657 - 3 * j
      /\ 26658 - 3 * i # 26656 - 3 * j /\ 26658 - 3 * i # 26657 - 3 * j
  OBVIOUS
<1>2. /\ 26660 + i > 26658 - 3 * j /\ 26660 + i > 26657 - 3 * j
      /\ 26660 + i > 26656 - 3 * j /\ 26660 + i > 9090 - 2 * j
      /\ 26660 + i > 1317 - j
      /\ 26660 + j > 26658 - 3 * i /\ 26660 + j > 26657 - 3 * i
      /\ 26660 + j > 26656 - 3 * i /\ 26660 + j > 9090 - 2 * i
      /\ 26660 + j > 1317 - i
  OBVIOUS
<1>3. /\ 26656 - 3 * i > 9090 - 2 * j /\ 26657 - 3 * i > 9090 - 2 * j
      /\ 26658 - 3 * i > 9090 - 2 * j /\ 26656 - 3 * j > 9090 - 2 * i
      /\ 26657 - 3 * j > 9090 - 2 * i /\ 26658 - 3 * j > 9090 - 2 * i
  OBVIOUS
<1>4. /\ 9090 - 2 * i > 1317 - j /\ 9090 - 2 * j > 1317 - i
      /\ 26656 - 3 * i > 1317 - j /\ 26657 - 3 * i > 1317 - j
      /\ 26658 - 3 * i > 1317 - j /\ 26656 - 3 * j > 1317 - i
      /\ 26657 - 3 * j > 1317 - i /\ 26658 - 3 * j > 1317 - i
  OBVIOUS
<1>5. CASE s = t
  <2>1. SUFFICES ASSUME i # j PROVE FALSE
    BY <1>5
  <2>2. /\ 26657 - 3 * i # 26657 - 3 * j /\ 26656 - 3 * i # 26656 - 3 * j
        /\ 26658 - 3 * i # 26658 - 3 * j /\ 26660 + i # 26660 + j
        /\ 9090 - 2 * i # 9090 - 2 * j /\ 1317 - i # 1317 - j
    BY <2>1
  <2> QED
    BY <1>5, <2>2, FormulaValues DEF Services
<1>6. CASE s # t
  <2>1. CASE s \in {"rpc", "p2p", "proxy"} /\ t \in {"rpc", "p2p", "proxy"}
    <3>1. /\ Formula("rpc", i) # Formula("p2p", j)
          /\ Formula("p2p", i) # Formula("rpc", j)
      BY <1>1, FormulaValues
    <3>2. /\ Formula("rpc", i) # Formula("proxy", j)
          /\ Formula("proxy", i) # Formula("rpc", j)
      BY <1>1, FormulaValues
    <3>3. /\ Formula("p2p", i) # Formula("proxy", j)
          /\ Formula("proxy", i) # Formula("p2p", j)
      BY <1>1, FormulaValues
    <3> QED
      BY <1>6, <2>1, <3>1, <3>2, <3>3
  <2>2. CASE s = "prometheus" \/ t = "prometheus"
    <3>1. /\ 26660 + i \in Int /\ 26660 + j \in Int
          /\ \A k \in {i, j} : /\ 26657 - 3 * k \in Int /\ 26656 - 3 * k \in Int
                               /\ 26658 - 3 * k \in Int
                               /\ 9090 - 2 * k \in Int /\ 1317 - k \in Int
      OBVIOUS
    <3> QED
      BY <1>6, <2>2, <1>2, <3>1, FormulaValues DEF Services
  <2>3. CASE s = "grpc" /\ t \in {"rpc", "p2p", "proxy", "api"}
    BY <2>3, <1>3, <1>4, FormulaValues
  <2>4. CASE t = "grpc" /\ s \in {"rpc", "p2p", "proxy", "api"}
    BY <2>4, <1>3, <1>4, FormulaValues
  <2>5. CASE s = "api" /\ t \in {"rpc", "p2p", "proxy"}
    BY <2>5, <1>4, FormulaValues
  <2>6. CASE t = "api" /\ s \in {"rpc", "p2p", "proxy"}
    BY <2>6, <1>4, FormulaValues
  <2> QED
    BY <1>6, <2>1, <2>2, <2>3, <2>4, <2>5, <2>6 DEF Services
<1> QED
  BY <1>5, <1>6

\* The last index of a testnet of at most 3887 nodes.
LEMMA IndexBound ==
  ASSUME NEW n \in Nat, n <= 3887, NEW k \in 0 .. n - 1
  PROVE  k \in Nat /\ k <= 3886
OBVIOUS

\* With the default ports, no two services of a testnet of up to 3887 nodes share
\* a port: the formulas step down by three, two and one.
THEOREM PortsOnOneHost ==
  MaxNodes <= 3887 => (Spec => []PortsDistinct)
<1> SUFFICES ASSUME MaxNodes <= 3887 PROVE Spec => []PortsDistinct
  OBVIOUS
<1>1. Init => PortsInv
  BY DEF Init, PortsInv, Done
<1>2. Inv /\ PortsInv => PortsDistinct
  <2> SUFFICES ASSUME Inv, PortsInv, Done, args.ports = <<>>,
                      NEW i \in Running, NEW j \in Running,
                      NEW s \in Services, NEW t \in Services, i # j \/ s # t
               PROVE  config[i][s] # config[j][t]
    BY DEF PortsDistinct
  <2>1. /\ i \in Nat /\ i <= 3886
        /\ j \in Nat /\ j <= 3886
    <3>1. i \in 0 .. MaxNodes - 1 /\ j \in 0 .. MaxNodes - 1
      BY Sizes DEF Inv, Nodes
    <3>2. MaxNodes \in Nat
      BY TestnetAssumption
    <3> QED
      BY <3>1, <3>2, IndexBound
  <2>2. ASSUME NEW k \in Running, NEW u \in Services
        PROVE  config[k][u] = Formula(u, k)
    <3>1. AppPorts(config[k], k) /\ NodePorts(config[k], <<>>, k)
      BY DEF PortsInv
    <3>2. /\ config[k]["rpc"] = 26657 - 3 * k
          /\ config[k]["p2p"] = 26656 - 3 * k
          /\ config[k]["proxy"] = 26658 - 3 * k
          /\ config[k]["prometheus"] = 26660 + k
          /\ config[k]["grpc"] = 9090 - 2 * k
          /\ config[k]["api"] = 1317 - k
      BY <3>1 DEF AppPorts, NodePorts, RPCPort, P2PPort, ProxyPort,
                  PrometheusPort, GRPCPort, APIPort
    <3> QED
      BY <3>2, FormulaValues DEF Services
  <2> QED
    <3>1. Formula(s, i) # Formula(t, j)
      BY <2>1, FormulasDiffer
    <3>2. config[i][s] = Formula(s, i) /\ config[j][t] = Formula(t, j)
      BY <2>2
    <3> QED
      BY <3>1, <3>2
<1> QED
  BY <1>1, <1>2, PortsStep, InitInv, NextKeepsInv, PTL DEF Spec
=============================================================================
