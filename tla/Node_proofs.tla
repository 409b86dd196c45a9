----------------------------- MODULE Node_proofs -----------------------------
(***************************************************************************)
(* Proofs about x/fixedmint and about a node for every set of              *)
(* denominations, amounts and widths, genesis file, block and schedule,    *)
(* with any number of blocks and crashes.                                  *)
(*                                                                         *)
(* The inductive invariant NodeInv of the node says what the working state *)
(* is at each stage of a block relative to Base, the state the block was   *)
(* begun on: equal to it before the begin blockers (StartsFromBase), with  *)
(* an empty fee collector before the mint (AfterPayout), and after the     *)
(* mint one reward above it (AfterMint).  Nothing weaker is inductive: a   *)
(* commit step says only that the working state is written, so what it     *)
(* adds to the supply has to be known from the stages before.              *)
(***************************************************************************)
EXTENDS BlockExecution, TLAPS

-----------------------------------------------------------------------------
(* The module x/fixedmint by itself.                                       *)
(*                                                                         *)
(* The inductive invariant is the conjunction of the type invariant, the   *)
(* conservation of the supply and the account of the residue: the type of  *)
(* the balances needs Covers, the bound of the supply needs that           *)
(* MintPanics is evaluated before anything is minted, and conservation     *)
(* needs both.                                                             *)

Inv == TypeOK /\ SupplyIsHeld /\ ResidualIsDonated

-----------------------------------------------------------------------------
(* The bank's transfer.                                                    *)

\* A transfer changes the balances of the payer and of the payee by the same
\* coins, and no other balance.
LEMMA MoveAt ==
  ASSUME NEW b \in Balances, NEW c \in CoinSets,
         NEW from \in Accounts, NEW to \in Accounts,
         NEW a \in Accounts, NEW d \in Denoms
  PROVE  Move(b, from, to, c)[a][d] =
           (IF a = from THEN b[a][d] - c[d] ELSE b[a][d])
             + (IF a = to THEN c[d] ELSE 0)
BY DEF Move, Balances, CoinSets

\* A transfer the payer can cover yields balances again.
LEMMA MoveType ==
  ASSUME NEW b \in Balances, NEW c \in CoinSets,
         NEW from \in Accounts, NEW to \in Accounts, Covers(b, from, c)
  PROVE  Move(b, from, to, c) \in Balances
<1>1. /\ Move(b, from, to, c) = [a \in Accounts |-> Move(b, from, to, c)[a]]
      /\ \A a \in Accounts : Move(b, from, to, c)[a]
                               = [d \in Denoms |-> Move(b, from, to, c)[a][d]]
  BY DEF Move, Balances, CoinSets
<1>2. ASSUME NEW a \in Accounts, NEW d \in Denoms
      PROVE  Move(b, from, to, c)[a][d] \in Nat
  <2>1. Move(b, from, to, c)[a][d] =
           (IF a = from THEN b[a][d] - c[d] ELSE b[a][d])
             + (IF a = to THEN c[d] ELSE 0)
    BY MoveAt
  <2>2. b[a][d] \in Nat /\ c[d] \in Nat
    BY DEF Balances, CoinSets
  <2>3. c[d] <= b[from][d]
    BY DEF Covers
  <2> QED
    BY <2>1, <2>2, <2>3
<1> QED
  BY <1>1, <1>2 DEF Balances, CoinSets

\* A transfer changes what nobody, and so what everybody, holds in total.
LEMMA MoveHeld ==
  ASSUME NEW b \in Balances, NEW c \in CoinSets,
         NEW from \in Accounts, NEW to \in Accounts, NEW d \in Denoms
  PROVE  Held(Move(b, from, to, c), d) = Held(b, d)
<1> DEFINE m(a) == Move(b, from, to, c)[a][d]
<1>1. \A a \in Accounts : m(a) = (IF a = from THEN b[a][d] - c[d] ELSE b[a][d])
                                   + (IF a = to THEN c[d] ELSE 0)
  BY MoveAt
<1>2. \A a \in Accounts : b[a][d] \in Nat
  BY DEF Balances, CoinSets
<1>3. c[d] \in Nat
  BY DEF CoinSets
<1>4. Held(Move(b, from, to, c), d)
        = m("users") + m("fixedmint") + m("fee_collector") + m("distribution")
  BY DEF Held
<1> HIDE DEF m
<1> QED
  BY <1>1, <1>2, <1>3, <1>4 DEF Held, Accounts

-----------------------------------------------------------------------------
(* Every operation keeps the invariant.                                    *)

\* Transfers between accounts other than the module account.
LEMMA TransferInv ==
  ASSUME Inv, NEW c \in CoinSets,
         NEW from \in Accounts \ {"fixedmint"}, NEW to \in Accounts \ {"fixedmint"},
         Covers(bal, from, c), bal' = Move(bal, from, to, c),
         params' = params, supply' = supply, macc' = macc,
         halted' = halted, donated' = donated
  PROVE  Inv'
<1>1. TypeOK'
  BY MoveType DEF Inv, TypeOK
<1>2. SupplyIsHeld'
  BY MoveHeld DEF Inv, TypeOK, SupplyIsHeld
<1>3. ResidualIsDonated'
  <2> SUFFICES ASSUME NEW d \in Denoms
               PROVE  bal'["fixedmint"][d] = donated'[d]
    BY DEF ResidualIsDonated
  <2>1. /\ bal["fixedmint"][d] = donated[d]
        /\ bal["fixedmint"][d] \in Nat /\ c[d] \in Nat
    BY DEF Inv, TypeOK, ResidualIsDonated, Balances, CoinSets, Accounts
  <2>2. Move(bal, from, to, c)["fixedmint"][d] = bal["fixedmint"][d] + 0
    BY <2>1, MoveAt DEF Inv, TypeOK, Accounts
  <2> QED
    BY <2>1, <2>2
<1> QED
  BY <1>1, <1>2, <1>3 DEF Inv

\* What the store holds after a write is storable.
LEMMA StoredType ==
  ASSUME NEW p \in Params
  PROVE  Stored(p) \in StorableParams
BY AmountsAssumption DEF Stored, Params, StorableParams, Ints

\* A user's bank message.
LEMMA SendInv ==
  ASSUME Inv, NEW to \in Accounts, NEW c \in CoinSets, Send(to, c)
  PROVE  Inv'
<1>1. CASE to # "fixedmint"
  BY <1>1, TransferInv DEF Send, Accounts
<1>2. CASE to = "fixedmint"
  <2> USE <1>2
  <2>0. /\ bal \in Balances /\ Covers(bal, "users", c)
        /\ bal' = Move(bal, "users", "fixedmint", c)
        /\ donated' = [d \in Denoms |-> donated[d] + c[d]]
        /\ supply' = supply
    BY DEF Send, Inv, TypeOK
  <2>1. TypeOK'
    <3>1. bal' \in Balances
      BY <2>0, MoveType DEF Accounts
    <3>2. donated' \in CoinSets
      BY <2>0 DEF Inv, TypeOK, CoinSets
    <3> QED
      BY <3>1, <3>2 DEF Send, Inv, TypeOK
  <2>2. SupplyIsHeld'
    BY <2>0, MoveHeld DEF Inv, SupplyIsHeld, Accounts
  <2>3. ResidualIsDonated'
    <3> SUFFICES ASSUME NEW d \in Denoms
                 PROVE  bal'["fixedmint"][d] = donated'[d]
      BY DEF ResidualIsDonated
    <3>1. /\ bal["fixedmint"][d] = donated[d]
          /\ bal["fixedmint"][d] \in Nat /\ c[d] \in Nat
      BY DEF Inv, TypeOK, ResidualIsDonated, Balances, CoinSets, Accounts
    <3>2. bal'["fixedmint"][d] = bal["fixedmint"][d] + c[d]
      BY <2>0, <3>1, MoveAt DEF Accounts
    <3> QED
      BY <2>0, <3>1, <3>2
  <2> QED
    BY <2>1, <2>2, <2>3 DEF Inv
<1> QED
  BY <1>1, <1>2

\* The ante handler's fee.
LEMMA DeductFeeInv ==
  ASSUME Inv, NEW c \in CoinSets, DeductFee(c)
  PROVE  Inv'
BY TransferInv DEF DeductFee, Accounts

\* The payout of the fee collector.
LEMMA AllocateTokensInv ==
  ASSUME Inv, AllocateTokens
  PROVE  Inv'
<1>1. bal["fee_collector"] \in CoinSets
  BY DEF Inv, TypeOK, Balances, Accounts
<1>2. Covers(bal, "fee_collector", bal["fee_collector"])
  BY <1>1 DEF Covers, CoinSets
<1> QED
  BY <1>1, <1>2, TransferInv DEF AllocateTokens, Accounts

-----------------------------------------------------------------------------
(* The begin blocker.                                                      *)

\* A reward that is minted is a natural number, in every denomination, and
\* the supply stays within its width.
LEMMA RewardType ==
  ASSUME Inv, NEW p \in StorableParams, ~SkipsMint(p), ~MintPanics(p)
  PROVE  /\ [d \in Denoms |-> Reward(p, d)] \in CoinSets
         /\ \A d \in Denoms : supply[d] + Reward(p, d) \in 0 .. MaxInt
<1>1. \A d \in Denoms : Reward(p, d) \in Nat
  <2>1. p.amount \in Int
    BY AmountsAssumption DEF StorableParams, Ints
  <2>2. ~(p.amount < 0)
    BY DEF MintPanics, NewCoinPanics
  <2> QED
    BY <2>1, <2>2 DEF Reward
<1>2. \A d \in Denoms : supply[d] \in Nat
  BY DEF Inv, TypeOK
<1>3. \A d \in Denoms : ~(supply[d] + Reward(p, d) > MaxInt)
  BY DEF MintPanics
<1> QED
  BY <1>1, <1>2, <1>3, AmountsAssumption DEF CoinSets

\* The parameters a mint reads come from the store: the zero value, read when
\* nothing is stored, is disabled.
LEMMA MintReadsStored ==
  ASSUME Inv, ~SkipsMint(GetParams)
  PROVE  GetParams = params /\ params \in StorableParams
BY DEF Inv, TypeOK, GetParams, ZeroParams, NewParams, SkipsMint

\* Minting and forwarding a reward.
LEMMA MintRewardInv ==
  ASSUME Inv, MintReward
  PROVE  Inv'
<1> DEFINE reward == [d \in Denoms |-> Reward(params, d)]
           minted == Credited(bal, "fixedmint", reward)
<1>1. /\ ~SkipsMint(params) /\ ~MintPanics(params) /\ params \in StorableParams
      /\ supply' = [d \in Denoms |-> supply[d] + reward[d]]
      /\ bal' = Move(minted, "fixedmint", "fee_collector", reward)
      /\ macc' = "module" /\ params' = params /\ halted' = halted
      /\ donated' = donated
  BY MintReadsStored DEF MintReward, MintCoins
<1>2. reward \in CoinSets /\ supply' \in [Denoms -> 0 .. MaxInt]
  BY <1>1, RewardType
<1>3. bal \in Balances /\ "fixedmint" \in Accounts /\ "fee_collector" \in Accounts
  BY DEF Inv, TypeOK, Accounts
<1>4. \A d \in Denoms : reward[d] \in Nat /\ supply'[d] = supply[d] + reward[d]
  BY <1>1, <1>2 DEF CoinSets
<1>5. \A a \in Accounts, d \in Denoms :
        minted[a][d] = bal[a][d] + (IF a = "fixedmint" THEN reward[d] ELSE 0)
  <2> SUFFICES ASSUME NEW a \in Accounts, NEW d \in Denoms
               PROVE  minted[a][d] = bal[a][d]
                        + (IF a = "fixedmint" THEN reward[d] ELSE 0)
    OBVIOUS
  <2>1. bal[a][d] \in Nat
    BY <1>3 DEF Balances, CoinSets
  <2> HIDE DEF reward
  <2> QED
    BY <1>3, <2>1 DEF Credited, Balances, CoinSets
<1> HIDE DEF reward
<1>6. minted \in Balances
  <2>1. minted = [a \in Accounts |-> IF a = "fixedmint"
                    THEN [d \in Denoms |-> bal[a][d] + reward[d]] ELSE bal[a]]
    BY <1>3 DEF Credited, Balances
  <2>2. [d \in Denoms |-> bal["fixedmint"][d] + reward[d]] \in CoinSets
    BY <1>2, <1>3 DEF Balances, CoinSets
  <2> QED
    BY <1>3, <2>1, <2>2 DEF Balances
<1>7. Covers(minted, "fixedmint", reward)
  <2> SUFFICES ASSUME NEW d \in Denoms
               PROVE  reward[d] <= minted["fixedmint"][d]
    BY DEF Covers
  <2>1. bal["fixedmint"][d] \in Nat /\ reward[d] \in Nat
    BY <1>2, <1>3 DEF Balances, CoinSets
  <2> QED
    BY <1>3, <1>5, <2>1
<1> HIDE DEF minted
<1>8. TypeOK'
  BY <1>1, <1>2, <1>3, <1>6, <1>7, MoveType DEF Inv, TypeOK
<1>9. SupplyIsHeld'
  <2> SUFFICES ASSUME NEW d \in Denoms PROVE supply'[d] = Held(bal', d)
    BY DEF SupplyIsHeld
  <2>1. Held(bal', d) = Held(minted, d)
    BY <1>1, <1>2, <1>3, <1>6, MoveHeld
  <2>2. \A a \in Accounts : bal[a][d] \in Nat
    BY <1>3 DEF Balances, CoinSets
  <2>3. Held(minted, d) = Held(bal, d) + reward[d]
    BY <1>4, <1>5, <2>2 DEF Held, Accounts
  <2> QED
    BY <1>4, <2>1, <2>3 DEF Inv, SupplyIsHeld
<1>10. ResidualIsDonated'
  <2> SUFFICES ASSUME NEW d \in Denoms
               PROVE  bal'["fixedmint"][d] = donated'[d]
    BY DEF ResidualIsDonated
  <2>1. bal["fixedmint"][d] \in Nat /\ reward[d] \in Nat
    BY <1>2, <1>3 DEF Balances, CoinSets
  <2>2. bal'["fixedmint"][d] = minted["fixedmint"][d] - reward[d] + 0
    BY <1>1, <1>2, <1>3, <1>6, MoveAt
  <2> QED
    BY <1>1, <1>3, <1>5, <2>1, <2>2 DEF Inv, ResidualIsDonated
<1> QED
  BY <1>8, <1>9, <1>10 DEF Inv

-----------------------------------------------------------------------------
(* The module under any order of calls.                                    *)

\* Balances, supply and account at the start of a chain.
LEMMA InitInv == Init => Inv
<1> SUFFICES ASSUME Init PROVE Inv
  OBVIOUS
<1>1. /\ bal = [a \in Accounts |-> IF a = "users" THEN supply ELSE ZeroCoins]
      /\ supply \in [Denoms -> 0 .. MaxInt] /\ donated = ZeroCoins
      /\ params = NoParams /\ macc \in {"none", "module"} /\ halted = FALSE
  BY DEF Init
<1>2. supply \in CoinSets /\ ZeroCoins \in CoinSets
  BY <1>1, AmountsAssumption DEF CoinSets, ZeroCoins
<1>3. bal \in Balances
  BY <1>1, <1>2 DEF Balances
<1>4. SupplyIsHeld
  <2> SUFFICES ASSUME NEW d \in Denoms PROVE supply[d] = Held(bal, d)
    BY DEF SupplyIsHeld
  <2>1. /\ bal["users"] = supply /\ bal["fixedmint"] = ZeroCoins
        /\ bal["fee_collector"] = ZeroCoins /\ bal["distribution"] = ZeroCoins
    BY <1>1 DEF Accounts
  <2>2. supply[d] \in Nat /\ ZeroCoins[d] = 0
    BY <1>2 DEF CoinSets, ZeroCoins
  <2> QED
    BY <2>1, <2>2 DEF Held
<1>5. ResidualIsDonated
  BY <1>1 DEF ResidualIsDonated, Accounts
<1> QED
  BY <1>1, <1>2, <1>3, <1>4, <1>5 DEF Inv, TypeOK

\* A write of the parameters leaves the coins alone.
LEMMA WriteInv ==
  ASSUME Inv, NEW p \in Params, SetParams(p),
         UNCHANGED <<bal, supply, macc, halted, donated>>
  PROVE  Inv'
BY StoredType DEF Inv, TypeOK, SupplyIsHeld, ResidualIsDonated, SetParams, Held

\* A step that changes nothing.
LEMMA StutterInv ==
  ASSUME Inv, UNCHANGED fixedmintVars
  PROVE  Inv'
BY DEF Inv, TypeOK, SupplyIsHeld, ResidualIsDonated, Held, fixedmintVars

\* Only the flag of a panic changes.
LEMMA HaltInv ==
  ASSUME Inv, halted' \in BOOLEAN, UNCHANGED <<params, bal, supply, macc, donated>>
  PROVE  Inv'
BY DEF Inv, TypeOK, SupplyIsHeld, ResidualIsDonated, Held

\* The begin blocker: no mint, a mint that is forwarded, or a panic.
LEMMA MintFixedBlockRewardInv ==
  ASSUME Inv, MintFixedBlockReward
  PROVE  Inv'
<1>1. CASE SkipMint
  BY <1>1, StutterInv DEF SkipMint
<1>2. CASE MintReward
  BY <1>2, MintRewardInv
<1>3. CASE PanickingMint
  BY <1>3, HaltInv DEF PanickingMint
<1> QED
  BY <1>1, <1>2, <1>3 DEF MintFixedBlockReward

\* Coins are natural numbers of each denomination.
LEMMA CoinsType ==
  ASSUME NEW d \in Denoms, NEW a \in Amounts
  PROVE  Coins(d, a) \in CoinSets
BY AmountsAssumption DEF Coins, Amounts, CoinSets

\* Every call of the module keeps the invariant.
LEMMA NextInv ==
  ASSUME Inv, [Next]_fixedmintVars
  PROVE  Inv'
<1>1. CASE UNCHANGED fixedmintVars
  BY <1>1, StutterInv
<1>2. ASSUME NEW p \in Params, InitGenesis(p) PROVE Inv'
  BY <1>2, WriteInv DEF InitGenesis
<1>3. CASE MintFixedBlockReward
  BY <1>3, MintFixedBlockRewardInv
<1>4. ASSUME NEW s \in {"users", "gov"}, NEW p \in Params, UpdateParams(s, p)
      PROVE  Inv'
  BY <1>4, WriteInv DEF UpdateParams
<1>5. ASSUME NEW s \in {"users", "gov"}, RejectUpdateParams(s) PROVE Inv'
  BY <1>5, StutterInv DEF RejectUpdateParams
<1>6. ASSUME NEW to \in Accounts, NEW d \in Denoms, NEW a \in Amounts,
             Send(to, Coins(d, a))
      PROVE  Inv'
  BY <1>6, CoinsType, SendInv
<1>7. ASSUME NEW d \in Denoms, NEW a \in Amounts, DeductFee(Coins(d, a))
      PROVE  Inv'
  BY <1>7, CoinsType, DeductFeeInv
<1>8. CASE AllocateTokens
  BY <1>8, AllocateTokensInv
<1>9. CASE AssertInvariants
  BY <1>9, HaltInv DEF AssertInvariants, Inv, TypeOK
<1> QED
  BY <1>1, <1>2, <1>3, <1>4, <1>5, <1>6, <1>7, <1>8, <1>9 DEF Next

\* For every set of denominations and every width: the values keep their
\* types, the supply is what the accounts hold, and the module account holds
\* what bank messages paid it and nothing of what the module minted.
THEOREM FixedMintInvariant == Spec => []Inv
<1>1. Init => Inv
  BY InitInv
<1>2. Inv /\ [Next]_fixedmintVars => Inv'
  BY NextInv
<1> QED
  BY <1>1, <1>2, PTL DEF Spec

\* Type correctness of x/fixedmint and of the bank it works on.
THEOREM FixedMintTypeOK == Spec => []TypeOK
BY FixedMintInvariant, PTL DEF Inv

\* The supply of every denomination is what the accounts hold.
THEOREM SupplyConserved == Spec => []SupplyIsHeld
BY FixedMintInvariant, PTL DEF Inv

\* The module account holds what was paid to it and no minted coin.
THEOREM RewardsForwarded == Spec => []ResidualIsDonated
BY FixedMintInvariant, PTL DEF Inv

-----------------------------------------------------------------------------
\* Once an ordinary account lives at the module address, no operation mints
\* again and none turns it into a module account.
THEOREM BaseAccountIsFinal == Spec => BaseAccountEndsMinting
<1>1. [Next]_fixedmintVars
        => [macc = "base" => macc' = "base" /\ supply' = supply]_fixedmintVars
  <2> SUFFICES ASSUME Next, macc = "base"
               PROVE  macc' = "base" /\ supply' = supply
    OBVIOUS
  <2>1. ~MintReward
    BY DEF MintReward, MintPanics
  <2> QED
    BY <2>1 DEF Next, MintFixedBlockReward, SkipMint, PanickingMint, InitGenesis,
                UpdateParams, RejectUpdateParams, Send, DeductFee,
                AllocateTokens, AssertInvariants, fixedmintVars
<1> QED
  BY <1>1, PTL DEF Spec, BaseAccountEndsMinting

-----------------------------------------------------------------------------
(* A node.                                                                 *)

Updates == {Stored(p) : p \in ValidParams}

\* The committed state is balanced, and empty before the first block.
CommittedOK ==
  /\ \A d \in Denoms : committed.supply[d] = Held(committed.bal, d)
  /\ \A d \in Denoms : committed.bal["fixedmint"][d] = committed.donated[d]
  /\ committed.height > 0 => committed.params # NoParams
  /\ committed.height = 0 =>
       committed.donated = ZeroCoins /\ committed.prop = NoProposal
  /\ committed.prop.open => committed.prop.new \in ValidParams

\* A proposal that is open carries parameters ValidateBasic accepted, and so
\* does an update that passed the ante handler.
UpdatesChecked ==
  /\ prop.open => prop.new \in ValidParams
  /\ (stage = "msgs" /\ exec.tx = "update") => exec.new \in ValidParams

BeforeGenesis ==
  stage = "init" => donated = ZeroCoins /\ prop = NoProposal /\ committed.height = 0

NotPaidYet == stage \in {"init", "idle", "begin", "ante"} => ~paid

\* Only a proposal is executed ahead of the decision, and a first block is not.
OptimisticLater == opt => committed.height > 0

AfterPayout ==
  (stage = "begin" /\ next = 2) =>
     /\ params = Base.params /\ supply = Base.supply /\ macc = Base.macc
     /\ bal["fee_collector"] = ZeroCoins

InBlock == stage \in {"ante", "msgs", "end", "executed"}

AfterMint ==
  InBlock =>
     /\ ~Doomed
     /\ supply = [d \in Denoms |-> Base.supply[d] + Reward(Base.params, d)]
     /\ params = Base.params \/ params \in Updates

NodeInv ==
  /\ NodeTypeOK /\ SupplyIsHeld /\ ResidualIsDonated
  /\ CommittedOK /\ UpdatesChecked /\ BeforeGenesis /\ NotPaidYet
  /\ OptimisticLater
  /\ StartsFromBase /\ AfterPayout /\ AfterMint /\ PoolHoldsOneBlock

-----------------------------------------------------------------------------
(* Base, and steps that keep it.                                           *)

\* The state a block is begun on is well typed and balanced.
LEMMA BaseOK ==
  ASSUME NodeInv
  PROVE  /\ Base.params \in StorableParams
         /\ Base.supply \in [Denoms -> 0 .. MaxInt]
         /\ Base.bal \in Balances
         /\ Base.macc \in {"none", "base", "module"}
         /\ Base.donated \in CoinSets
         /\ Base.prop \in Proposals \cup {NoProposal}
         /\ \A d \in Denoms : Base.supply[d] = Held(Base.bal, d)
         /\ \A d \in Denoms : Base.bal["fixedmint"][d] = Base.donated[d]
         /\ Base.prop.open => Base.prop.new \in ValidParams
<1>1. CASE committed.height # 0
  <2>1. committed \in AppStates /\ committed.height > 0 /\ Base = committed
    BY <1>1 DEF NodeInv, NodeTypeOK, AppStates, Base
  <2> QED
    BY <2>1 DEF NodeInv, CommittedOK, AppStates
<1>2. CASE committed.height = 0
  <2> DEFINE b == [a \in Accounts |-> IF a = "users" THEN GenesisSupply ELSE ZeroCoins]
  <2>1. /\ Base.params = Stored(genesis.params) /\ Base.supply = GenesisSupply
        /\ Base.bal = b /\ Base.macc = genesis.macc
        /\ Base.donated = ZeroCoins /\ Base.prop = NoProposal
    BY <1>2 DEF Base, GenesisState
  <2>2. genesis.params \in Params /\ genesis.macc \in {"none", "module"}
    BY NodeAssumption DEF NodeInv, NodeTypeOK
  <2>3. GenesisSupply \in [Denoms -> 0 .. MaxInt]
    BY NodeAssumption
  <2>4. GenesisSupply \in CoinSets /\ ZeroCoins \in CoinSets
    BY <2>3, AmountsAssumption DEF CoinSets, ZeroCoins
  <2>5. b \in Balances
    BY <2>4 DEF Balances
  <2>6. /\ b["users"] = GenesisSupply /\ b["fixedmint"] = ZeroCoins
        /\ b["fee_collector"] = ZeroCoins /\ b["distribution"] = ZeroCoins
    BY DEF Accounts
  <2>7. \A d \in Denoms : GenesisSupply[d] \in Nat /\ ZeroCoins[d] = 0
    BY <2>4 DEF CoinSets, ZeroCoins
  <2> HIDE DEF b
  <2>8. /\ \A d \in Denoms : GenesisSupply[d] = Held(b, d)
        /\ \A d \in Denoms : b["fixedmint"][d] = ZeroCoins[d]
    BY <2>6, <2>7 DEF Held
  <2>9. ~NoProposal.open
    BY DEF NoProposal
  <2> QED
    BY <2>1, <2>2, <2>3, <2>4, <2>5, <2>6, <2>8, <2>9, StoredType
<1> QED
  BY <1>1, <1>2

\* Before the first block the fee collector is empty.
LEMMA GenesisPoolEmpty ==
  ASSUME committed.height = 0
  PROVE  Base.bal["fee_collector"] = ZeroCoins
BY DEF Base, GenesisState, Accounts

\* Until the next commit a block is begun on the same state.
LEMMA KeepBase ==
  ASSUME NodeInv, UNCHANGED <<committed, genesis>>
  PROVE  /\ Base' = Base /\ (Doomed' <=> Doomed) /\ CommittedOK'
         /\ Height' = Height
BY DEF NodeInv, Base, GenesisState, Doomed, CommittedOK, Held, Height

\* Going back to Base restores a balanced working state.
LEMMA BackToBase ==
  ASSUME NodeInv, UNCHANGED <<committed, genesis>>, halted' \in BOOLEAN,
         params' = Base.params, bal' = Base.bal, supply' = Base.supply,
         macc' = Base.macc, donated' = Base.donated, prop' = Base.prop
  PROVE  /\ TypeOK' /\ SupplyIsHeld' /\ ResidualIsDonated'
         /\ prop' \in Proposals \cup {NoProposal}
         /\ prop'.open => prop'.new \in ValidParams
BY BaseOK DEF TypeOK, SupplyIsHeld, ResidualIsDonated, Held

\* The working state of a node that has just started, before genesis, is the
\* empty committed state.
LEMMA BackToCommitted ==
  ASSUME NodeInv, Reset, halted' \in BOOLEAN
  PROVE  /\ TypeOK' /\ SupplyIsHeld' /\ ResidualIsDonated'
         /\ prop' \in Proposals \cup {NoProposal}
         /\ prop'.open => prop'.new \in ValidParams
<1>1. committed \in AppStates
  BY DEF NodeInv, NodeTypeOK
<1>2. /\ params' = committed.params /\ bal' = committed.bal
      /\ supply' = committed.supply /\ macc' = committed.macc
      /\ donated' = committed.donated /\ prop' = committed.prop
  BY DEF Reset
<1>3. TypeOK' /\ prop' \in Proposals \cup {NoProposal}
  BY <1>1, <1>2 DEF TypeOK, AppStates
<1> QED
  BY <1>2, <1>3 DEF NodeInv, CommittedOK, SupplyIsHeld, ResidualIsDonated, Held

-----------------------------------------------------------------------------
(* Starting, and taking up a block.                                        *)

\* A node that was never started.
LEMMA NodeInitInv == NodeInit => NodeInv
<1> SUFFICES ASSUME NodeInit PROVE NodeInv
  OBVIOUS
<1>1. ZeroCoins \in CoinSets /\ ZeroCoins \in [Denoms -> 0 .. MaxInt]
  BY AmountsAssumption DEF ZeroCoins, CoinSets
<1>2. bal = [a \in Accounts |-> ZeroCoins] /\ bal \in Balances
  BY <1>1 DEF NodeInit, Balances
<1>3. \A d \in Denoms : supply[d] = Held(bal, d) /\ bal["fixedmint"][d] = donated[d]
  <2> SUFFICES ASSUME NEW d \in Denoms
               PROVE  supply[d] = Held(bal, d) /\ bal["fixedmint"][d] = donated[d]
    OBVIOUS
  <2>1. /\ bal["users"] = ZeroCoins /\ bal["fixedmint"] = ZeroCoins
        /\ bal["fee_collector"] = ZeroCoins /\ bal["distribution"] = ZeroCoins
    BY <1>2 DEF Accounts
  <2>2. supply = ZeroCoins /\ donated = ZeroCoins /\ ZeroCoins[d] = 0
    BY DEF NodeInit, ZeroCoins
  <2> QED
    BY <2>1, <2>2 DEF Held
<1>4. TypeOK
  BY <1>1, <1>2 DEF NodeInit, TypeOK
<1>5. committed \in AppStates
  BY <1>1, <1>2 DEF NodeInit, AppStates
<1>6. NodeTypeOK
  BY <1>4, <1>5 DEF NodeInit, NodeTypeOK
<1>7. CommittedOK
  BY <1>3 DEF NodeInit, CommittedOK, NoProposal
<1>8. SupplyIsHeld /\ ResidualIsDonated
  BY <1>3 DEF SupplyIsHeld, ResidualIsDonated
<1> QED
  BY <1>6, <1>7, <1>8
     DEF NodeInit, NodeInv, UpdatesChecked, BeforeGenesis, NotPaidYet,
         OptimisticLater, StartsFromBase, AfterPayout, AfterMint, InBlock, PoolHoldsOneBlock,
         NoProposal

\* Loading: the working state becomes the committed one.
LEMMA StartInv == ASSUME NodeInv, Start PROVE NodeInv'
<1>1. UNCHANGED <<committed, genesis, decided, crashes>> /\ Reset /\ halted' = FALSE
  BY DEF Start
<1>2. /\ stage' = IF committed.height = 0 THEN "init" ELSE "idle"
      /\ next' = 1 /\ exec' = NoBlock /\ opt' = FALSE /\ paid' = FALSE
  BY DEF Start
<1>3. committed.height # 0 => Base = committed
  BY DEF Base
<1>4. NodeTypeOK'
  BY <1>1, <1>2, BackToCommitted DEF NodeInv, NodeTypeOK
<1>5. StartsFromBase'
  BY <1>1, <1>2, <1>3, KeepBase DEF StartsFromBase, Reset
<1>6. BeforeGenesis'
  BY <1>1, <1>2 DEF BeforeGenesis, NodeInv, CommittedOK, Reset
<1>7. UpdatesChecked'
  BY <1>1, <1>2, BackToCommitted DEF UpdatesChecked
<1> QED
  BY <1>1, <1>2, <1>4, <1>5, <1>6, <1>7, KeepBase, BackToCommitted
     DEF NodeInv, NotPaidYet, OptimisticLater, AfterPayout, AfterMint, InBlock,
         PoolHoldsOneBlock

\* The genesis state is the base of the first block.
LEMMA InitChainInv == ASSUME NodeInv, InitChain PROVE NodeInv'
<1>1. /\ UNCHANGED <<halted, donated, prop, committed, genesis, next, exec,
                     opt, paid, decided, crashes>>
      /\ stage = "init" /\ stage' = "idle"
  BY DEF InitChain
<1>2. committed.height = 0 /\ donated = ZeroCoins /\ prop = NoProposal
  BY <1>1 DEF NodeInv, BeforeGenesis
<1>3. /\ params' = Base.params /\ bal' = Base.bal /\ supply' = Base.supply
      /\ macc' = Base.macc /\ donated' = Base.donated /\ prop' = Base.prop
  BY <1>1, <1>2 DEF InitChain, Base, GenesisState
<1>4. NodeTypeOK'
  BY <1>1, <1>3, BackToBase DEF NodeInv, NodeTypeOK, TypeOK
<1>5. StartsFromBase'
  BY <1>1, <1>3, KeepBase DEF StartsFromBase
<1>6. halted' \in BOOLEAN
  BY <1>1 DEF NodeInv, NodeTypeOK, TypeOK
<1>7. UpdatesChecked' /\ SupplyIsHeld' /\ ResidualIsDonated'
  BY <1>1, <1>3, <1>6, BackToBase DEF UpdatesChecked
<1>8. NotPaidYet'
  BY <1>1 DEF NotPaidYet, NodeInv
<1> QED
  BY <1>1, <1>4, <1>5, <1>7, <1>8, KeepBase
     DEF NodeInv, BeforeGenesis, OptimisticLater, AfterPayout, AfterMint, InBlock,
         PoolHoldsOneBlock

\* A block is taken up on the committed state: a new proposal, or the decided
\* block instead of the one that was running.
LEMMA TakeUpInv ==
  ASSUME NodeInv, committed.height > 0, Reset,
         NEW b \in Blocks, NEW optimistic \in BOOLEAN,
         StartExecuting(b, optimistic),
         UNCHANGED <<halted, committed, genesis, decided, crashes>>
  PROVE  NodeInv'
<1>1. /\ exec' = b /\ opt' = optimistic /\ stage' = "begin" /\ next' = 1
      /\ paid' = FALSE
  BY DEF StartExecuting
<1>2. Base = committed /\ halted' \in BOOLEAN
  BY DEF Base, NodeInv, NodeTypeOK, TypeOK
<1>3. NodeTypeOK'
  BY <1>1, <1>2, BackToCommitted DEF NodeInv, NodeTypeOK
<1>4. StartsFromBase'
  BY <1>1, <1>2, KeepBase DEF StartsFromBase, Reset
<1>5. UpdatesChecked' /\ SupplyIsHeld' /\ ResidualIsDonated'
  BY <1>1, <1>2, BackToCommitted DEF UpdatesChecked
<1> QED
  BY <1>1, <1>3, <1>4, <1>5, KeepBase
     DEF NodeInv, BeforeGenesis, NotPaidYet, OptimisticLater, AfterPayout,
         AfterMint, InBlock, PoolHoldsOneBlock

\* A proposal starts an execution on the base.
LEMMA ProcessProposalInv ==
  ASSUME NodeInv, NEW b \in Blocks, ProcessProposal(b) PROVE NodeInv'
BY TakeUpInv DEF ProcessProposal

\* An abandoned execution leaves the base.
LEMMA AbortOptimisticInv == ASSUME NodeInv, AbortOptimistic PROVE NodeInv'
<1>1. decided \in Blocks /\ committed.height > 0
  BY DEF AbortOptimistic, NodeInv, NodeTypeOK, OptimisticLater
<1> QED
  BY <1>1, TakeUpInv DEF AbortOptimistic

\* Without an optimistic execution the decided block is begun.
LEMMA FinalizeBlockInv == ASSUME NodeInv, FinalizeBlock PROVE NodeInv'
<1>1. /\ UNCHANGED <<fixedmintVars, prop, committed, genesis, decided, crashes>>
      /\ exec' = decided /\ opt' = FALSE /\ stage' = "begin" /\ next' = 1
      /\ paid' = FALSE /\ stage = "idle" /\ decided \in Blocks
  BY DEF FinalizeBlock, StartExecuting, NodeInv, NodeTypeOK
<1>2. Inv'
  BY <1>1, StutterInv DEF NodeInv, NodeTypeOK, Inv
<1>3. NodeTypeOK'
  BY <1>1, <1>2 DEF NodeInv, NodeTypeOK, Inv
<1>4. StartsFromBase'
  BY <1>1, KeepBase DEF NodeInv, StartsFromBase, fixedmintVars
<1> QED
  BY <1>1, <1>2, <1>3, <1>4, KeepBase
     DEF Inv, NodeInv, UpdatesChecked, BeforeGenesis, NotPaidYet, OptimisticLater,
         AfterPayout, AfterMint, InBlock, PoolHoldsOneBlock

\* What consensus decides, and whether a result is awaited, is nothing the
\* working state depends on.
LEMMA ControlInv ==
  ASSUME NodeInv, decided' \in Blocks \cup {NoBlock}, opt' \in BOOLEAN, opt' => opt,
         UNCHANGED <<fixedmintVars, prop, committed, genesis, stage, next, exec,
                     paid, crashes>>
  PROVE  NodeInv'
<1>1. Inv'
  BY StutterInv DEF NodeInv, NodeTypeOK, Inv
<1>2. NodeTypeOK'
  BY <1>1 DEF NodeInv, NodeTypeOK, Inv
<1>3. StartsFromBase' /\ AfterPayout' /\ AfterMint' /\ PoolHoldsOneBlock'
  BY KeepBase DEF NodeInv, StartsFromBase, AfterPayout, AfterMint, InBlock,
                  PoolHoldsOneBlock, fixedmintVars
<1>4. UpdatesChecked' /\ BeforeGenesis' /\ NotPaidYet' /\ OptimisticLater'
  BY DEF NodeInv, UpdatesChecked, BeforeGenesis, NotPaidYet, OptimisticLater,
         fixedmintVars
<1> QED
  BY <1>1, <1>2, <1>3, <1>4, KeepBase DEF NodeInv, Inv

\* A process that dies leaves only what is on the disk.
LEMMA DownInv ==
  ASSUME NodeInv, Inv', stage' = "down", crashes' \in Nat,
         UNCHANGED <<prop, committed, genesis, next, exec, opt, paid, decided>>
  PROVE  NodeInv'
<1>1. NodeTypeOK'
  BY DEF NodeInv, NodeTypeOK, Inv
<1> QED
  BY <1>1, KeepBase
     DEF Inv, NodeInv, UpdatesChecked, BeforeGenesis, NotPaidYet, OptimisticLater,
         StartsFromBase, AfterPayout, AfterMint, InBlock, PoolHoldsOneBlock

-----------------------------------------------------------------------------
(* The begin blockers.                                                     *)

\* The begin blocker of x/distribution empties the fee collector.
LEMMA BeginBlockDistributionInv ==
  ASSUME NodeInv, BeginBlockDistribution PROVE NodeInv'
<1>1. /\ stage = "begin" /\ next = 1 /\ stage' = "begin" /\ next' = 2
      /\ UNCHANGED <<prop, committed, genesis, exec, opt, paid, decided, crashes>>
  BY DEF BeginBlockDistribution, AtBegin, Advance, BeginBlockers, NodeInv, NodeTypeOK
<1>2. /\ params = Base.params /\ bal = Base.bal /\ supply = Base.supply
      /\ macc = Base.macc /\ Inv
  BY <1>1 DEF NodeInv, NodeTypeOK, Inv, StartsFromBase
<1>3. Inv' /\ params' = params /\ supply' = supply /\ macc' = macc
  BY <1>2, AllocateTokensInv, StutterInv
     DEF BeginBlockDistribution, AllocateTokens, fixedmintVars
<1>4. bal'["fee_collector"] = ZeroCoins
  <2>1. CASE Height > 1
    <3>1. bal' = Move(bal, "fee_collector", "distribution", bal["fee_collector"])
      BY <2>1 DEF BeginBlockDistribution, AllocateTokens
    <3>2. /\ bal \in Balances /\ bal["fee_collector"] \in CoinSets
          /\ bal'["fee_collector"] \in CoinSets
      BY <1>2, <1>3 DEF Inv, TypeOK, Balances, Accounts
    <3>3. ASSUME NEW d \in Denoms PROVE bal'["fee_collector"][d] = 0
      <4>1. bal'["fee_collector"][d] = bal["fee_collector"][d] - bal["fee_collector"][d] + 0
        BY <3>1, <3>2, MoveAt DEF Accounts
      <4>2. bal["fee_collector"][d] \in Nat
        BY <3>2 DEF CoinSets
      <4> QED
        BY <4>1, <4>2
    <3> QED
      BY <3>2, <3>3 DEF CoinSets, ZeroCoins
  <2>2. CASE ~(Height > 1)
    <3>1. committed.height = 0 /\ bal' = bal
      BY <2>2 DEF BeginBlockDistribution, fixedmintVars, Height, NodeInv, NodeTypeOK,
                  AppStates
    <3> QED
      BY <3>1, <1>2, GenesisPoolEmpty
  <2> QED
    BY <2>1, <2>2
<1>5. AfterPayout'
  BY <1>2, <1>3, <1>4, <1>1, KeepBase DEF AfterPayout
<1>6. NodeTypeOK'
  BY <1>1, <1>3 DEF NodeInv, NodeTypeOK, Inv
<1> QED
  BY <1>1, <1>3, <1>5, <1>6, KeepBase
     DEF Inv, NodeInv, UpdatesChecked, BeforeGenesis, NotPaidYet, OptimisticLater,
         StartsFromBase, AfterMint, InBlock, PoolHoldsOneBlock

\* A reward goes from the supply to the fee collector in full.
LEMMA MintRewardAt ==
  ASSUME Inv, MintReward, NEW d \in Denoms
  PROVE  /\ bal'["fee_collector"][d] = bal["fee_collector"][d] + Reward(params, d)
         /\ supply' = [e \in Denoms |-> supply[e] + Reward(params, e)]
         /\ Reward(params, d) \in Nat
<1> DEFINE reward == [e \in Denoms |-> Reward(params, e)]
           minted == Credited(bal, "fixedmint", reward)
<1>1. /\ ~SkipsMint(params) /\ ~MintPanics(params) /\ params \in StorableParams
      /\ supply' = [e \in Denoms |-> supply[e] + reward[e]]
      /\ bal' = Move(minted, "fixedmint", "fee_collector", reward)
  BY MintReadsStored DEF MintReward, MintCoins
<1>2. reward \in CoinSets /\ \A e \in Denoms : reward[e] = Reward(params, e)
  BY <1>1, RewardType
<1>3. bal \in Balances
  BY DEF Inv, TypeOK
<1> HIDE DEF reward
<1>4. minted = [a \in Accounts |-> IF a = "fixedmint"
                  THEN [e \in Denoms |-> bal[a][e] + reward[e]] ELSE bal[a]]
  BY <1>3 DEF Credited, Balances
<1>5. minted \in Balances /\ minted["fee_collector"] = bal["fee_collector"]
  <2>1. [e \in Denoms |-> bal["fixedmint"][e] + reward[e]] \in CoinSets
    BY <1>2, <1>3 DEF Balances, CoinSets, Accounts
  <2> QED
    BY <1>3, <1>4, <2>1 DEF Balances, Accounts
<1> HIDE DEF minted
<1>6. bal'["fee_collector"][d] = bal["fee_collector"][d] + reward[d]
  BY <1>1, <1>2, <1>5, MoveAt DEF Accounts
<1> QED
  BY <1>1, <1>2, <1>6 DEF CoinSets

\* The mint: the supply goes one reward above Base, and the fee collector,
\* emptied before, holds that reward.
LEMMA BeginBlockFixedmintInv ==
  ASSUME NodeInv, BeginBlockFixedmint PROVE NodeInv'
<1>1. stage = "begin" /\ next = 2
  BY DEF BeginBlockFixedmint, AtBegin, BeginBlockers, NodeInv, NodeTypeOK
<1>2. /\ params = Base.params /\ supply = Base.supply /\ macc = Base.macc
      /\ bal["fee_collector"] = ZeroCoins /\ ~paid
      /\ Inv
  BY <1>1 DEF NodeInv, NodeTypeOK, Inv, AfterPayout, NotPaidYet
<1>3. params \in StorableParams /\ GetParams = params
  BY <1>2, BaseOK, NoParamsAssumption DEF GetParams, StorableParams, Params
<1>4. CASE PanickingMint /\ Die
  <2>1. Inv'
    BY <1>2, <1>4, HaltInv DEF PanickingMint
  <2>2. crashes' \in Nat
    BY <1>4 DEF Die, NodeInv, NodeTypeOK
  <2> QED
    BY <1>4, <2>1, <2>2, DownInv DEF Die
<1>5. CASE (SkipMint \/ MintReward) /\ Advance(BeginBlockers, "ante")
  <2>1. /\ stage' = "ante" /\ next' = 1
        /\ UNCHANGED <<prop, committed, genesis, exec, opt, paid, decided, crashes>>
    BY <1>1, <1>5 DEF Advance, BeginBlockers
  <2>2. Inv' /\ params' = params
    BY <1>2, <1>5, StutterInv, MintRewardInv
       DEF SkipMint, MintReward, fixedmintVars
  <2>3. /\ supply' = [d \in Denoms |-> supply[d] + Reward(params, d)]
        /\ \A d \in Denoms : bal'["fee_collector"][d] = Reward(params, d) + 0
        /\ ~Doomed
    <3>1. CASE SkipMint
      <4>1. /\ \A d \in Denoms : Reward(params, d) = 0
            /\ supply' = supply /\ bal' = bal
            /\ \A d \in Denoms : supply[d] \in Nat /\ ZeroCoins[d] = 0
            /\ supply \in [Denoms -> 0 .. MaxInt]
        BY <1>2, <1>3, <3>1 DEF SkipMint, Reward, fixedmintVars, Inv, TypeOK, ZeroCoins
      <4>2. ~Doomed
        BY <1>2, <1>3, <3>1 DEF SkipMint, Doomed
      <4> QED
        BY <1>2, <4>1, <4>2
    <3>2. CASE MintReward
      <4>1. ASSUME NEW d \in Denoms
            PROVE  bal'["fee_collector"][d] = Reward(params, d) + 0
        <5>1. /\ bal'["fee_collector"][d] = bal["fee_collector"][d] + Reward(params, d)
              /\ Reward(params, d) \in Nat /\ ZeroCoins[d] = 0
          BY <1>2, <3>2, MintRewardAt DEF ZeroCoins
        <5> QED
          BY <1>2, <5>1
      <4>2. supply' = [d \in Denoms |-> supply[d] + Reward(params, d)]
        BY <1>2, <3>2, MintRewardAt, DenomsAssumption
      <4>3. ~Doomed
        BY <1>2, <1>3, <3>2 DEF MintReward, MintPanics, Doomed
      <4> QED
        BY <4>1, <4>2, <4>3
    <3> QED
      BY <1>5, <3>1, <3>2
  <2>4. AfterMint'
    BY <1>2, <2>1, <2>2, <2>3, KeepBase DEF AfterMint
  <2>5. PoolHoldsOneBlock'
    BY <1>2, <2>1, <2>3, KeepBase DEF PoolHoldsOneBlock
  <2>6. NodeTypeOK'
    BY <2>1, <2>2 DEF NodeInv, NodeTypeOK, Inv
  <2>7. NotPaidYet'
    BY <1>2, <2>1 DEF NotPaidYet
  <2> QED
    BY <2>1, <2>2, <2>4, <2>5, <2>6, <2>7, KeepBase
       DEF Inv, NodeInv, UpdatesChecked, BeforeGenesis, OptimisticLater,
           StartsFromBase, AfterPayout
<1> QED
  BY <1>4, <1>5 DEF BeginBlockFixedmint

-----------------------------------------------------------------------------
(* The transaction.                                                        *)

\* The control state of a step inside a block.
LEMMA InBlockInv ==
  ASSUME NodeInv, Inv', InBlock, stage' \in {"msgs", "end", "executed"},
         next' \in {1, 2}, paid' \in BOOLEAN,
         prop' \in Proposals \cup {NoProposal}, UpdatesChecked',
         supply' = supply, params' = params \/ params' \in Updates,
         PoolHoldsOneBlock',
         UNCHANGED <<committed, genesis, exec, opt, decided, crashes>>
  PROVE  NodeInv'
<1>1. NodeTypeOK'
  BY DEF NodeInv, NodeTypeOK, Inv
<1>2. AfterMint'
  BY KeepBase DEF NodeInv, AfterMint, InBlock
<1> QED
  BY <1>1, <1>2, KeepBase
     DEF Inv, NodeInv, BeforeGenesis, NotPaidYet, OptimisticLater,
         StartsFromBase, AfterPayout

\* The ante handler moves one fee into the fee collector, or refuses.
LEMMA AnteHandlerInv == ASSUME NodeInv, AnteHandler PROVE NodeInv'
<1>1. /\ stage = "ante" /\ Inv /\ InBlock /\ ~paid /\ Fee \in CoinSets
      /\ UNCHANGED <<prop, committed, genesis, next, exec, opt, decided, crashes>>
  BY NodeAssumption
     DEF AnteHandler, NodeInv, NodeTypeOK, Inv, InBlock, NotPaidYet, CoinSets
<1>2. \A d \in Denoms : bal["fee_collector"][d] = Reward(Base.params, d) + 0
  BY <1>1 DEF NodeInv, PoolHoldsOneBlock
<1>3. CASE /\ AnteAccepts(exec) /\ DeductFee(Fee)
           /\ paid' = TRUE /\ stage' = "msgs"
  <2>1. Inv' /\ params' = params /\ supply' = supply
    BY <1>1, <1>3, DeductFeeInv DEF DeductFee
  <2>2. PoolHoldsOneBlock'
    <3>1. ASSUME NEW d \in Denoms
          PROVE  bal'["fee_collector"][d] = Reward(Base.params, d) + Fee[d]
      <4>1. bal'["fee_collector"][d] = bal["fee_collector"][d] + Fee[d]
        BY <1>1, <1>3, MoveAt DEF DeductFee, Inv, TypeOK, Accounts
      <4>2. bal["fee_collector"][d] \in Nat /\ Reward(Base.params, d) \in Int
        BY <1>1, BaseOK, AmountsAssumption
           DEF Inv, TypeOK, Balances, CoinSets, Accounts, Reward, StorableParams, Ints
      <4> QED
        BY <1>2, <4>1, <4>2
    <3> QED
      BY <1>1, <1>3, <3>1, KeepBase DEF PoolHoldsOneBlock
  <2>3. exec.tx = "update" => exec.new \in ValidParams
    <3> SUFFICES ASSUME exec.tx = "update" PROVE exec.new \in ValidParams
      OBVIOUS
    <3>1. exec.new \in UpdateChoices
      BY <1>3 DEF AnteAccepts, NodeInv, NodeTypeOK, Blocks, EmptyBlock, NoBlock
    <3> QED
      BY <1>3, <3>1, NodeAssumption DEF AnteAccepts, ValidateBasic, ValidParams
  <2> QED
    BY <1>1, <1>3, <2>1, <2>2, <2>3, InBlockInv
       DEF UpdatesChecked, NodeInv, NodeTypeOK
<1>4. CASE /\ stage' = "end" /\ UNCHANGED <<fixedmintVars, paid>>
  <2>1. Inv' /\ params' = params /\ supply' = supply /\ bal' = bal
    BY <1>1, <1>4, StutterInv DEF fixedmintVars
  <2>2. PoolHoldsOneBlock'
    BY <1>1, <1>4, <2>1, KeepBase DEF NodeInv, PoolHoldsOneBlock
  <2> QED
    BY <1>1, <1>4, <2>1, <2>2, InBlockInv DEF UpdatesChecked, NodeInv, NodeTypeOK
<1> QED
  BY <1>3, <1>4 DEF AnteHandler

\* A message leaves the fee collector and the supply alone: a bank message
\* cannot pay the fee collector, which is a blocked address.
LEMMA RunMsgsInv == ASSUME NodeInv, RunMsgs PROVE NodeInv'
<1>1. /\ stage = "msgs" /\ stage' = "end" /\ Inv /\ InBlock
      /\ UNCHANGED <<committed, genesis, next, exec, opt, paid, decided, crashes>>
      /\ next \in {1, 2} /\ paid \in BOOLEAN
      /\ prop \in Proposals \cup {NoProposal}
      /\ exec \in Blocks \cup {NoBlock}
      /\ prop.open => prop.new \in ValidParams
  BY DEF RunMsgs, NodeInv, NodeTypeOK, Inv, InBlock, UpdatesChecked
<1>2. ASSUME Inv', supply' = supply, params' = params \/ params' \in Updates,
             prop' \in Proposals \cup {NoProposal},
             prop'.open => prop'.new \in ValidParams,
             \A d \in Denoms : bal'["fee_collector"][d] = bal["fee_collector"][d]
      PROVE  NodeInv'
  <2>1. PoolHoldsOneBlock'
    BY <1>1, <1>2, KeepBase DEF NodeInv, PoolHoldsOneBlock
  <2> QED
    BY <1>1, <1>2, <2>1, InBlockInv DEF UpdatesChecked
<1>3. CASE UNCHANGED fixedmintVars /\ UNCHANGED prop
  BY <1>1, <1>2, <1>3, StutterInv DEF fixedmintVars
<1>4. CASE SendSucceeds(exec) /\ Send(exec.to, exec.coins) /\ UNCHANGED prop
  <2>1. exec.to \in Accounts \ BlockedAddrs /\ exec.coins \in CoinSets
    <3>1. /\ exec.to \in Accounts
          /\ exec.coins \in {Coins(d, a) : d \in Denoms, a \in SendAmounts}
      BY <1>1, <1>4 DEF SendSucceeds, Blocks, EmptyBlock, NoBlock
    <3>2. \A d \in Denoms, a \in SendAmounts : Coins(d, a) \in CoinSets
      BY NodeAssumption DEF Coins, CoinSets
    <3> QED
      BY <1>4, <3>1, <3>2 DEF SendSucceeds
  <2>2. Inv'
    BY <1>1, <1>4, <2>1, SendInv
  <2>3. ASSUME NEW d \in Denoms
        PROVE  bal'["fee_collector"][d] = bal["fee_collector"][d]
    <3>1. bal'["fee_collector"][d] = bal["fee_collector"][d] + 0
      BY <1>1, <1>4, <2>1, MoveAt DEF Send, Inv, TypeOK, Accounts, BlockedAddrs
    <3>2. bal["fee_collector"][d] \in Nat
      BY <1>1 DEF Inv, TypeOK, Balances, CoinSets, Accounts
    <3> QED
      BY <3>1, <3>2
  <2> QED
    BY <1>1, <1>2, <1>4, <2>2, <2>3 DEF Send
<1>5. CASE exec.tx = "update" /\ UpdateParams("users", exec.new) /\ UNCHANGED prop
  <2>1. exec.new \in ValidParams /\ exec.new \in Params
    BY <1>1, <1>5 DEF NodeInv, UpdatesChecked, ValidParams
  <2>2. Inv' /\ params' \in Updates
    BY <1>1, <1>5, <2>1, WriteInv DEF UpdateParams, SetParams, Updates
  <2> QED
    BY <1>1, <1>2, <1>5, <2>2 DEF UpdateParams
<1>6. CASE /\ SubmitSucceeds(exec)
           /\ prop' = [open |-> TRUE, new |-> exec.new, rest |-> exec.rest,
                       yes |-> FALSE, ends |-> Height + VotingPeriod]
           /\ UNCHANGED fixedmintVars
  <2>1. exec.new \in UpdateChoices /\ exec.rest \in BOOLEAN
    BY <1>1, <1>6 DEF SubmitSucceeds, Blocks, EmptyBlock, NoBlock
  <2>2. exec.new \in ValidParams
    BY <1>6, <2>1, NodeAssumption DEF SubmitSucceeds, ValidateBasic, ValidParams
  <2>3. Height + VotingPeriod \in Nat
    BY NodeAssumption DEF Height, NodeInv, NodeTypeOK, AppStates
  <2>4. prop' \in Proposals
    BY <1>6, <2>1, <2>3 DEF Proposals
  <2> QED
    BY <1>1, <1>2, <1>6, <2>2, <2>4, StutterInv DEF fixedmintVars
<1>7. CASE /\ exec.tx = "vote" /\ prop.open
           /\ prop' = [prop EXCEPT !.yes = TRUE]
           /\ UNCHANGED fixedmintVars
  <2>1. prop \in Proposals
    BY <1>1, <1>7 DEF NoProposal
  <2>2. prop' \in Proposals /\ prop'.new = prop.new
    BY <1>7, <2>1 DEF Proposals
  <2> QED
    BY <1>1, <1>2, <1>7, <2>2, StutterInv DEF fixedmintVars
<1> QED
  BY <1>3, <1>4, <1>5, <1>6, <1>7 DEF RunMsgs, RejectUpdateParams

-----------------------------------------------------------------------------
(* The end blockers and the commit.                                        *)

\* The invariants are asserted or not; only the process may end.
LEMMA EndBlockCrisisInv == ASSUME NodeInv, EndBlockCrisis PROVE NodeInv'
<1>1. /\ stage = "end" /\ next = 1 /\ Inv /\ InBlock /\ halted \in BOOLEAN
      /\ crashes \in Nat
  BY DEF EndBlockCrisis, AtEnd, EndBlockers, NodeInv, NodeTypeOK, TypeOK, Inv, InBlock
<1>2. /\ halted' \in BOOLEAN
      /\ UNCHANGED <<params, bal, supply, macc, donated>>
  BY <1>1 DEF EndBlockCrisis, AssertInvariants, fixedmintVars
<1>3. Inv'
  BY <1>1, <1>2, HaltInv
<1>4. CASE Die
  BY <1>1, <1>3, <1>4, DownInv DEF Die
<1>5. CASE Advance(EndBlockers, "executed")
  <2>1. /\ stage' = "end" /\ next' = 2
        /\ UNCHANGED <<prop, committed, genesis, exec, opt, paid, decided, crashes>>
    BY <1>1, <1>5 DEF Advance, EndBlockers
  <2>2. PoolHoldsOneBlock'
    BY <1>1, <1>2, <2>1, KeepBase DEF NodeInv, PoolHoldsOneBlock
  <2> QED
    BY <1>1, <1>2, <1>3, <2>1, <2>2, InBlockInv DEF UpdatesChecked, NodeInv, NodeTypeOK
<1> QED
  BY <1>4, <1>5 DEF EndBlockCrisis

\* The end blocker of x/gov applies an update that was checked.
LEMMA EndBlockGovInv == ASSUME NodeInv, EndBlockGov PROVE NodeInv'
<1>1. /\ stage = "end" /\ next = 2 /\ Inv /\ InBlock
      /\ stage' = "executed" /\ next' = 1 /\ prop' \in {prop, NoProposal}
      /\ UNCHANGED <<committed, genesis, exec, opt, paid, decided, crashes>>
  BY DEF EndBlockGov, AtEnd, EndBlockers, NodeInv, NodeTypeOK, Inv, InBlock
<1>2. /\ prop' \in Proposals \cup {NoProposal}
      /\ prop'.open => prop'.new \in ValidParams
  BY <1>1 DEF NodeInv, NodeTypeOK, UpdatesChecked, NoProposal
<1>3. /\ Inv' /\ supply' = supply /\ bal' = bal
      /\ params' = params \/ params' \in Updates
  <2>1. CASE UNCHANGED fixedmintVars
    BY <1>1, <2>1, StutterInv DEF fixedmintVars
  <2>2. CASE prop.open /\ UpdateParams("gov", prop.new)
    <3>1. prop.new \in ValidParams /\ prop.new \in Params
      BY <2>2 DEF NodeInv, UpdatesChecked, ValidParams
    <3> QED
      BY <1>1, <2>2, <3>1, WriteInv DEF UpdateParams, SetParams, Updates
  <2> QED
    BY <2>1, <2>2 DEF EndBlockGov, RejectUpdateParams
<1>4. PoolHoldsOneBlock'
  BY <1>1, <1>3, KeepBase DEF NodeInv, PoolHoldsOneBlock, InBlock
<1> QED
  BY <1>1, <1>2, <1>3, <1>4, InBlockInv DEF UpdatesChecked, NodeInv, NodeTypeOK

\* What is in force after a block is storable.
LEMMA ParamsInBlock ==
  ASSUME NodeInv, InBlock
  PROVE  params \in StorableParams /\ params # NoParams
<1>1. params \in StorableParams
  BY BaseOK, StoredType DEF NodeInv, AfterMint, Updates, ValidParams
<1> QED
  BY <1>1, NoParamsAssumption DEF StorableParams, Params

\* The working state becomes the committed one and the base.
LEMMA CommitInv == ASSUME NodeInv, Commit PROVE NodeInv'
<1>1. /\ InBlock /\ Inv /\ stage' = "idle" /\ paid' = FALSE /\ ~opt
      /\ exec' = NoBlock /\ decided' = NoBlock
      /\ committed' = [height |-> Height, params |-> params, bal |-> bal,
                       supply |-> supply, macc |-> macc, donated |-> donated,
                       prop |-> prop]
      /\ UNCHANGED <<fixedmintVars, prop, genesis, next, opt, crashes>>
  BY DEF Commit, InBlock, NodeInv, NodeTypeOK, Inv
<1>2. Height \in Nat /\ Height > 0
  BY DEF Height, NodeInv, NodeTypeOK, AppStates
<1>3. params \in StorableParams /\ params # NoParams
  BY <1>1, ParamsInBlock
<1>4. committed' \in AppStates /\ Inv'
  BY <1>1, <1>2, <1>3, StutterInv DEF AppStates, Inv, TypeOK, NodeInv, NodeTypeOK
<1>5. NodeTypeOK'
  BY <1>1, <1>4 DEF NodeInv, NodeTypeOK, Inv
<1>6. Base' = committed'
  BY <1>1, <1>2 DEF Base
<1>7. StartsFromBase'
  BY <1>1, <1>6 DEF StartsFromBase, fixedmintVars
<1>8. CommittedOK'
  BY <1>1, <1>2, <1>3
     DEF CommittedOK, Inv, SupplyIsHeld, ResidualIsDonated, Held, NodeInv, UpdatesChecked
<1>9. UpdatesChecked' /\ BeforeGenesis' /\ NotPaidYet' /\ OptimisticLater'
  BY <1>1 DEF NodeInv, UpdatesChecked, BeforeGenesis, NotPaidYet, OptimisticLater
<1> QED
  BY <1>1, <1>4, <1>5, <1>7, <1>8, <1>9
     DEF Inv, NodeInv, AfterPayout, AfterMint, InBlock, PoolHoldsOneBlock

-----------------------------------------------------------------------------
(* The node.                                                               *)

\* Every step of the node keeps the invariant.
LEMMA NodeNextInv == NodeInv /\ [NodeNext]_nodeVars => NodeInv'
<1> SUFFICES ASSUME NodeInv, [NodeNext]_nodeVars PROVE NodeInv'
  OBVIOUS
<1>1. CASE Start
  BY <1>1, StartInv
<1>2. CASE InitChain
  BY <1>2, InitChainInv
<1>3. ASSUME NEW b \in Blocks, ProcessProposal(b) PROVE NodeInv'
  BY <1>3, ProcessProposalInv
<1>4. ASSUME NEW b \in Blocks, Decide(b) PROVE NodeInv'
  BY <1>4, ControlInv DEF Decide, cycleVars, NodeInv, NodeTypeOK
<1>5. CASE KeepOptimistic
  BY <1>5, ControlInv DEF KeepOptimistic, NodeInv, NodeTypeOK
<1>6. CASE AbortOptimistic
  BY <1>6, AbortOptimisticInv
<1>7. CASE FinalizeBlock
  BY <1>7, FinalizeBlockInv
<1>8. CASE BeginBlock
  BY <1>8, BeginBlockDistributionInv, BeginBlockFixedmintInv DEF BeginBlock
<1>9. CASE DeliverTx
  BY <1>9, AnteHandlerInv, RunMsgsInv DEF DeliverTx
<1>10. CASE EndBlock
  BY <1>10, EndBlockCrisisInv, EndBlockGovInv DEF EndBlock
<1>11. CASE Commit
  BY <1>11, CommitInv
<1>12. CASE Crash
  BY <1>12, StutterInv, DownInv DEF Crash, NodeInv, NodeTypeOK, Inv
<1>13. CASE UNCHANGED nodeVars
  BY <1>13, ControlInv DEF nodeVars, cycleVars, NodeInv, NodeTypeOK
<1> QED
  BY <1>1, <1>2, <1>3, <1>4, <1>5, <1>6, <1>7, <1>8, <1>9, <1>10, <1>11, <1>12,
     <1>13 DEF NodeNext, Executing

\* The invariant of a node, across blocks, abandoned executions and crashes.
THEOREM NodeInvariant == NodeSpec => []NodeInv
BY NodeInitInv, NodeNextInv, PTL DEF NodeSpec

\* The variables of a node stay in their types: in particular no balance goes
\* below zero, whatever is sent, and the supply never leaves the width of
\* math.Int.
THEOREM NodeTypes == NodeSpec => []NodeTypeOK
<1>1. NodeInv => NodeTypeOK
  BY DEF NodeInv
<1> QED
  BY <1>1, NodeInvariant, PTL

\* In the chain as a whole every coin of the supply is in one account, and the
\* module account holds only what bank messages paid to it.
THEOREM NodeSupplyConserved == NodeSpec => [](SupplyIsHeld /\ ResidualIsDonated)
<1>1. NodeInv => SupplyIsHeld /\ ResidualIsDonated
  BY DEF NodeInv
<1> QED
  BY <1>1, NodeInvariant, PTL

\* When distribution pays out at the next block, the fee collector holds the
\* reward and the fee of one block: nothing is paid late, or twice.
THEOREM PoolOfOneBlock == NodeSpec => []PoolHoldsOneBlock
<1>1. NodeInv => PoolHoldsOneBlock
  BY DEF NodeInv
<1> QED
  BY <1>1, NodeInvariant, PTL

\* An execution that was abandoned, for another proposal, for another decision
\* or by a crash, leaves nothing that a later one could see.
THEOREM AbandonedLeavesNoTrace == NodeSpec => []StartsFromBase
<1>1. NodeInv => StartsFromBase
  BY DEF NodeInv
<1> QED
  BY <1>1, NodeInvariant, PTL

-----------------------------------------------------------------------------
(* What is committed.                                                      *)

\* Only a commit changes what is on the disk.
LEMMA OnlyCommit ==
  [NodeNext]_nodeVars => Commit \/ UNCHANGED <<committed, genesis>>
BY DEF NodeNext, nodeVars, cycleVars, Start, InitChain, ProcessProposal, Decide,
       Executing, KeepOptimistic, AbortOptimistic, FinalizeBlock, BeginBlock,
       BeginBlockDistribution, BeginBlockFixedmint, Advance, Die, DeliverTx,
       AnteHandler, RunMsgs, EndBlock, EndBlockCrisis, EndBlockGov, Crash

\* A block is kept only if it is the decided one.
LEMMA DecidedInv == ExecutesDecided /\ [NodeNext]_nodeVars => ExecutesDecided'
BY DEF ExecutesDecided,
     NodeNext, nodeVars, cycleVars, Start, InitChain, ProcessProposal, Decide,
     Executing, KeepOptimistic, AbortOptimistic, FinalizeBlock, BeginBlock,
     BeginBlockDistribution, BeginBlockFixedmint, Advance, Die, DeliverTx,
     AnteHandler, RunMsgs, EndBlock, EndBlockCrisis, EndBlockGov, Commit, Crash,
     StartExecuting, AtBegin, AtEnd, Up

\* What FinalizeBlock runs to its end, and Commit writes, is the block that
\* was decided, and never the optimistic execution of another proposal.
THEOREM DecidedIsExecuted == NodeSpec => []ExecutesDecided
<1>1. NodeInit => ExecutesDecided
  BY DEF NodeInit, ExecutesDecided
<1> QED
  BY <1>1, DecidedInv, PTL DEF NodeSpec

\* A chain whose parameters, supply or module account stop the begin blocker
\* commits no further block: no schedule, and no vote, gets it out.
THEOREM DoomedForever == NodeSpec => DoomIsPermanent
<1>1. NodeInv /\ [NodeNext]_nodeVars => [Doomed => committed' = committed]_nodeVars
  <2> SUFFICES ASSUME NodeInv, [NodeNext]_nodeVars, Doomed
               PROVE  committed' = committed
    OBVIOUS
  <2>1. ~Commit
    BY DEF Commit, NodeInv, AfterMint, InBlock
  <2> QED
    BY <2>1, OnlyCommit
<1> QED
  BY <1>1, NodeInvariant, PTL DEF NodeSpec, DoomIsPermanent

\* The ledger speaks of the parameters as the module does.
LEMMA LedgerOperators ==
  /\ Ledger!StorableParams = StorableParams
  /\ \A p \in StorableParams : Ledger!Mintable(p) <=> Mintable(p)
  /\ \A p, d : Ledger!Reward(p, d) = Reward(p, d)
  /\ {Ledger!Stored(p) : p \in Ledger!ValidParams} = {Stored(p) : p \in ValidParams}
<1>1. Ledger!StorableParams = StorableParams /\ Ledger!Params = Params
  BY DEF Ledger!StorableParams, StorableParams, Ledger!Params, Params,
         Ledger!AllDenoms, AllDenoms, Ledger!Ints, Ints
<1>2. \A p : /\ Ledger!SkipsMint(p) <=> SkipsMint(p)
             /\ Ledger!NewCoinPanics(p) <=> NewCoinPanics(p)
  BY DEF Ledger!SkipsMint, SkipsMint, Ledger!NewCoinPanics, NewCoinPanics
<1>3. \A p : Ledger!Stored(p) = Stored(p)
  BY DEF Ledger!Stored, Stored
<1>4. \A p : Ledger!Validate(p) = Validate(p)
  BY DEF Ledger!Validate, Validate, Ledger!validateMintDenom, validateMintDenom,
         Ledger!validateMintAmount, validateMintAmount
<1>5. Ledger!ValidParams = ValidParams
  BY <1>1, <1>4 DEF Ledger!ValidParams, ValidParams
<1>6. \A p : Ledger!Mintable(p) <=> Mintable(p)
  BY <1>2 DEF Ledger!Mintable, Mintable
<1>7. \A p, d : Ledger!Reward(p, d) = Reward(p, d)
  BY <1>2 DEF Ledger!Reward, Reward
<1> QED
  BY <1>1, <1>3, <1>5, <1>6, <1>7

\* Every chain of committed blocks is one MintLedger allows: a block adds the
\* reward of the parameters its predecessor left, once, is begun only on
\* parameters that can be minted, and leaves the parameters as they were or
\* replaced by valid ones.
THEOREM CommitsTheLedger == NodeSpec => LedgerSpec
<1>1. NodeInit => Ledger!Init
  <2> SUFFICES ASSUME NodeInit PROVE Ledger!Init
    OBVIOUS
  <2>1. NodeInv /\ committed.height = 0
    BY NodeInitInv DEF NodeInit
  <2>2. Base.supply = GenesisSupply /\ Base.params \in StorableParams
    BY <2>1, BaseOK DEF Base, GenesisState
  <2>3. \A d \in Denoms : Issued(d) = 0
    BY <2>2, NodeAssumption, AmountsAssumption DEF Issued
  <2> QED
    BY <2>1, <2>2, <2>3, LedgerOperators DEF Ledger!Init
<1>2. NodeInv /\ [NodeNext]_nodeVars => [Ledger!Next]_(Ledger!vars)
  <2> SUFFICES ASSUME NodeInv, [NodeNext]_nodeVars
               PROVE  [Ledger!Next]_(Ledger!vars)
    OBVIOUS
  <2>1. CASE UNCHANGED <<committed, genesis>>
    <3>1. Base' = Base
      BY <2>1, KeepBase
    <3> QED
      BY <2>1, <3>1 DEF Ledger!vars, Issued
  <2>2. CASE Commit
    <3>1. /\ InBlock /\ committed'.height = committed.height + 1
          /\ committed'.height # 0
          /\ committed'.params = params /\ committed'.supply = supply
      BY <2>2 DEF Commit, InBlock, Height, NodeInv, NodeTypeOK, AppStates
    <3>2. Base'.params = params /\ Base'.supply = supply
      BY <3>1 DEF Base
    <3>3. /\ ~Doomed
          /\ params = Base.params \/ params \in Updates
          /\ supply = [d \in Denoms |-> Base.supply[d] + Reward(Base.params, d)]
      BY <3>1 DEF NodeInv, AfterMint
    <3>4. Mintable(Base.params)
      <4>1. SkipsMint(Base.params) \/ ~NewCoinPanics(Base.params)
        BY <3>3, Zenon DEF Doomed
      <4> QED
        BY <4>1, Zenon DEF Mintable
    <3>5. ASSUME NEW d \in Denoms
          PROVE  Issued(d)' = Issued(d) + Reward(Base.params, d)
      <4>1. /\ Base.supply[d] \in Nat /\ GenesisSupply[d] \in Nat
            /\ Reward(Base.params, d) \in Int
        BY BaseOK, NodeAssumption, AmountsAssumption
           DEF Reward, StorableParams, Ints
      <4>2. Base'.supply[d] = Base.supply[d] + Reward(Base.params, d)
        BY <3>2, <3>3
      <4> QED
        BY <4>1, <4>2 DEF Issued
    <3>6. Ledger!CommitBlock
      <4>1. Ledger!Mintable(Base.params)
        BY <3>4, BaseOK, LedgerOperators
      <4>2. [d \in Denoms |-> Issued(d)]'
              = [d \in Denoms |-> [e \in Denoms |-> Issued(e)][d]
                                    + Ledger!Reward(Base.params, d)]
        BY <3>5, LedgerOperators
      <4>3. \/ Base'.params = Base.params
            \/ Base'.params \in {Ledger!Stored(p) : p \in Ledger!ValidParams}
        BY <3>2, <3>3, LedgerOperators DEF Updates
      <4> QED
        BY <3>1, <4>1, <4>2, <4>3 DEF Ledger!CommitBlock
    <3> QED
      BY <3>6 DEF Ledger!Next
  <2> QED
    BY <2>1, <2>2, OnlyCommit
<1> QED
  BY <1>1, <1>2, NodeInvariant, PTL DEF NodeSpec, LedgerSpec, Ledger!Spec

-----------------------------------------------------------------------------
(* A block is a function of the committed state: WorkFollows follows the    *)
(* steps of a node stage by stage with the operators of BlockExecution.     *)

\* The working state at the two ends of a block.
LEMMA WorkIsBase ==
  ASSUME NodeInv, stage = "idle" \/ (stage = "begin" /\ next = 1)
  PROVE  Work = Base
<1>1. /\ params = Base.params /\ bal = Base.bal /\ supply = Base.supply
      /\ macc = Base.macc /\ donated = Base.donated /\ prop = Base.prop
  BY DEF NodeInv, StartsFromBase
<1>2. Base = [height |-> committed.height, params |-> Base.params, bal |-> Base.bal,
              supply |-> Base.supply, macc |-> Base.macc,
              donated |-> Base.donated, prop |-> Base.prop]
  <2>1. CASE committed.height = 0
    BY <2>1 DEF Base, GenesisState
  <2>2. CASE committed.height # 0
    BY <2>2 DEF Base, NodeInv, NodeTypeOK, AppStates
  <2> QED
    BY <2>1, <2>2
<1> QED
  BY <1>1, <1>2 DEF Work

\* The payout is the first stage.
LEMMA FollowsDistribution ==
  ASSUME NodeInv, BeginBlockDistribution
  PROVE  WorkFollows'
<1>1. /\ stage = "begin" /\ next = 1 /\ stage' = "begin" /\ next' = 2
      /\ UNCHANGED <<prop, committed, genesis>>
  BY DEF BeginBlockDistribution, AtBegin, Advance, BeginBlockers, NodeInv, NodeTypeOK
<1>2. Work = Base /\ Base' = Base
  BY <1>1, WorkIsBase, KeepBase
<1>3. Work' = PaidOut(Work)
  BY <1>1 DEF BeginBlockDistribution, AllocateTokens, fixedmintVars, Height, PaidOut, Work
<1>4. PaidOut(Base)' = PaidOut(Base)
  BY <1>2 DEF PaidOut, Move
<1> QED
  BY <1>1, <1>2, <1>3, <1>4 DEF WorkFollows

\* The mint is the second one; where it panics the node is down.
LEMMA FollowsFixedmint ==
  ASSUME NodeInv, WorkFollows, BeginBlockFixedmint
  PROVE  WorkFollows'
<1>1. stage = "begin" /\ next = 2
  BY DEF BeginBlockFixedmint, AtBegin, BeginBlockers, NodeInv, NodeTypeOK
<1>2. CASE PanickingMint /\ Die
  BY <1>2 DEF Die, WorkFollows
<1>3. CASE (SkipMint \/ MintReward) /\ Advance(BeginBlockers, "ante")
  <2>1. stage' = "ante" /\ UNCHANGED <<prop, committed, genesis>>
    BY <1>1, <1>3 DEF Advance, BeginBlockers
  <2>2. Work = PaidOut(Base) /\ Base' = Base
    BY <1>1, <2>1, KeepBase DEF WorkFollows
  <2>3. GetParams = params
    <3>1. params \in StorableParams
      BY <1>1, BaseOK DEF NodeInv, AfterPayout
    <3> QED
      BY <3>1, NoParamsAssumption DEF GetParams, StorableParams, Params
  <2>4. Work' = Rewarded(Work)
    <3>1. CASE SkipMint
      BY <2>1, <2>3, <3>1 DEF SkipMint, fixedmintVars, Rewarded, Work
    <3>2. CASE MintReward
      <4> DEFINE reward == [d \in Denoms |-> Reward(params, d)]
                 minted == Credited(bal, "fixedmint", reward)
      <4>1. /\ ~SkipsMint(params)
            /\ supply' = [d \in Denoms |-> supply[d] + reward[d]]
            /\ bal' = Move(minted, "fixedmint", "fee_collector", reward)
            /\ macc' = "module" /\ UNCHANGED <<params, donated>>
        BY <2>3, <3>2 DEF MintReward, MintCoins
      <4>2. Rewarded(Work) =
              [Work EXCEPT !.supply = [d \in Denoms |-> supply[d] + reward[d]],
                           !.bal = Move(minted, "fixedmint", "fee_collector", reward),
                           !.macc = "module"]
        BY <4>1 DEF Rewarded, Work
      <4> HIDE DEF reward, minted
      <4> QED
        BY <2>1, <4>1, <4>2 DEF Work
    <3> QED
      BY <1>3, <3>1, <3>2
  <2>5. Begun(Base)' = Begun(Base)
    BY <2>2 DEF Begun, PaidOut, Rewarded
  <2> QED
    BY <2>1, <2>2, <2>4, <2>5 DEF WorkFollows, Begun
<1> QED
  BY <1>2, <1>3 DEF BeginBlockFixedmint

\* What the functions make of Base they make of it as long as it stays.
LEMMA KeepFunctions ==
  ASSUME NodeInv, UNCHANGED <<committed, genesis>>
  PROVE  /\ Begun(Base)' = Begun(Base) /\ PaidOut(Base)' = PaidOut(Base)
         /\ Base' = Base
         /\ \A s, b : /\ Accepted(s, b)' <=> Accepted(s, b)
                      /\ Charged(s)' = Charged(s)
                      /\ Delivered(s, b)' = Delivered(s, b)
                      /\ Executed(s, b)' = Executed(s, b)
BY KeepBase
   DEF Begun, PaidOut, Rewarded, Accepted, Charged, Delivered, Executed, Tallied

\* The fee is taken from a transaction the ante handler accepts.
LEMMA FollowsAnteHandler ==
  ASSUME NodeInv, WorkFollows, AnteHandler
  PROVE  WorkFollows'
<1>1. /\ stage = "ante" /\ Work = Begun(Base)
      /\ UNCHANGED <<prop, committed, genesis, next, exec>>
  BY DEF AnteHandler, WorkFollows
<1>2. AnteAccepts(exec) <=> Accepted(Work, exec)
  BY DEF AnteAccepts, Accepted, Work
<1>3. CASE AnteAccepts(exec) /\ DeductFee(Fee) /\ stage' = "msgs"
  <2>1. Work' = Charged(Work)
    BY <1>1, <1>3 DEF DeductFee, Charged, Work
  <2> QED
    BY <1>1, <1>2, <1>3, <2>1, KeepFunctions DEF WorkFollows
<1>4. CASE ~AnteAccepts(exec) /\ stage' = "end" /\ UNCHANGED fixedmintVars
  <2>1. Work' = Work
    BY <1>1, <1>4 DEF fixedmintVars, Work
  <2> QED
    BY <1>1, <1>2, <1>4, <2>1, KeepFunctions DEF WorkFollows, Delivered
<1> QED
  BY <1>3, <1>4 DEF AnteHandler

\* The message is executed or fails as a whole.
LEMMA FollowsRunMsgs ==
  ASSUME NodeInv, WorkFollows, RunMsgs
  PROVE  WorkFollows'
<1>1. /\ stage = "msgs" /\ stage' = "end" /\ Work = Charged(Begun(Base))
      /\ Accepted(Begun(Base), exec)
      /\ UNCHANGED <<committed, genesis, next, exec>>
  BY DEF RunMsgs, WorkFollows
<1>2. exec.tx \in {"send", "update", "submit", "vote"}
  BY DEF RunMsgs, SendSucceeds, SubmitSucceeds, MsgFails
<1>3. Work' = Messaged(Work, exec)
  <2>1. CASE exec.tx = "send"
    <3>1. Messaged(Work, exec) = Sent(Work, exec)
      BY <2>1 DEF Messaged
    <3>2. CASE SendSucceeds(exec)
      <4>1. /\ bal' = Move(bal, "users", exec.to, exec.coins)
            /\ donated' = IF exec.to = "fixedmint"
                            THEN [d \in Denoms |-> donated[d] + exec.coins[d]]
                            ELSE donated
            /\ macc' = IF exec.to = "fixedmint" /\ macc = "none" THEN "base" ELSE macc
            /\ UNCHANGED <<params, supply, prop>>
        BY <2>1, <3>2 DEF RunMsgs, Send, MsgFails, SubmitSucceeds
      <4>2. Sent(Work, exec) =
              [Work EXCEPT !.bal = Move(bal, "users", exec.to, exec.coins),
                           !.donated = IF exec.to = "fixedmint"
                               THEN [d \in Denoms |-> donated[d] + exec.coins[d]]
                               ELSE donated,
                           !.macc = IF exec.to = "fixedmint" /\ macc = "none"
                                      THEN "base" ELSE macc]
        BY <3>2 DEF SendSucceeds, Sent, Work
      <4> QED
        BY <1>1, <3>1, <4>1, <4>2 DEF Work
    <3>3. CASE ~SendSucceeds(exec)
      <4>1. UNCHANGED <<params, bal, supply, macc, donated, prop>>
        BY <2>1, <3>3 DEF RunMsgs, SubmitSucceeds, fixedmintVars
      <4>2. Sent(Work, exec) = Work
        BY <2>1, <3>3 DEF SendSucceeds, Sent, Work
      <4> QED
        BY <1>1, <3>1, <4>1, <4>2 DEF Work
    <3> QED
      BY <3>2, <3>3
  <2>2. CASE exec.tx = "update"
    <3>1. Messaged(Work, exec) = Updated(Work, "users", exec.new)
      BY <2>2 DEF Messaged
    <3>2. /\ params' = IF "users" = Authority THEN Stored(exec.new) ELSE params
          /\ UNCHANGED <<bal, supply, macc, donated, prop>>
      BY <2>2 DEF RunMsgs, SendSucceeds, SubmitSucceeds, MsgFails, UpdateParams,
                  SetParams, RejectUpdateParams, fixedmintVars
    <3> QED
      BY <1>1, <3>1, <3>2 DEF Updated, Work
  <2>3. CASE exec.tx = "submit"
    <3>1. /\ prop' = IF SubmitSucceeds(exec)
                      THEN [open |-> TRUE, new |-> exec.new, rest |-> exec.rest,
                            yes |-> FALSE, ends |-> Height + VotingPeriod]
                      ELSE prop
          /\ UNCHANGED <<params, bal, supply, macc, donated>>
      BY <2>3 DEF RunMsgs, SendSucceeds, MsgFails, fixedmintVars
    <3> QED
      BY <1>1, <2>3, <3>1 DEF Messaged, Work, Height
  <2>4. CASE exec.tx = "vote"
    <3>1. /\ prop' = IF prop.open THEN [prop EXCEPT !.yes = TRUE] ELSE prop
          /\ UNCHANGED <<params, bal, supply, macc, donated>>
      BY <2>4 DEF RunMsgs, SendSucceeds, SubmitSucceeds, MsgFails, fixedmintVars
    <3> QED
      BY <1>1, <2>4, <3>1 DEF Messaged, Work
  <2> QED
    BY <1>2, <2>1, <2>2, <2>3, <2>4
<1>4. Work' = Delivered(Begun(Base), exec)
  BY <1>1, <1>3 DEF Delivered
<1> QED
  BY <1>1, <1>4, KeepFunctions DEF WorkFollows

\* gov is the last stage.
LEMMA FollowsGov ==
  ASSUME NodeInv, WorkFollows, EndBlockGov
  PROVE  WorkFollows'
<1>1. /\ stage = "end" /\ next = 2 /\ stage' = "executed"
      /\ Work = Delivered(Begun(Base), exec)
      /\ UNCHANGED <<committed, genesis, exec>>
  BY DEF EndBlockGov, AtEnd, EndBlockers, NodeInv, NodeTypeOK, WorkFollows
<1>2. Due(Work) <=> prop.open /\ prop.ends <= Height
  BY DEF Due, Work, Height
<1>3. Work' = Tallied(Work)
  <2>1. CASE ~Due(Work)
    <3>1. UNCHANGED <<params, bal, supply, macc, donated, prop>>
      BY <1>2, <2>1 DEF EndBlockGov, fixedmintVars
    <3> QED
      BY <1>1, <2>1, <3>1 DEF Tallied, Work
  <2>2. CASE Due(Work)
    <3>1. /\ prop' = NoProposal
          /\ params' = IF (prop.yes /\ prop.rest) /\ "gov" = Authority
                          THEN Stored(prop.new) ELSE params
          /\ UNCHANGED <<bal, supply, macc, donated>>
      BY <1>2, <2>2 DEF EndBlockGov, ProposalExecutes, UpdateParams, SetParams,
                        RejectUpdateParams, fixedmintVars
    <3> QED
      BY <1>1, <2>2, <3>1 DEF Tallied, Updated, Work
  <2> QED
    BY <2>1, <2>2
<1>4. Work' = Executed(Base, exec)
  BY <1>1, <1>3 DEF Executed
<1> QED
  BY <1>1, <1>4, KeepFunctions DEF WorkFollows

\* crisis changes nothing a later stage reads.
LEMMA FollowsCrisis ==
  ASSUME NodeInv, WorkFollows, EndBlockCrisis
  PROVE  WorkFollows'
<1>1. /\ stage = "end" /\ stage' \in {"down", "end"}
      /\ UNCHANGED <<params, bal, supply, macc, donated, prop, committed, genesis, exec>>
  BY DEF EndBlockCrisis, AtEnd, EndBlockers, NodeInv, NodeTypeOK, AssertInvariants,
         Advance, Die, fixedmintVars
<1>2. Work' = Work
  BY <1>1 DEF Work
<1> QED
  BY <1>1, <1>2, KeepFunctions DEF WorkFollows

\* A block in which a proposal is submitted waits for the open one to be
\* tallied: this is what makes exec and decided fit Base.
LEMMA TurnInv ==
  ASSUME NodeInv, SubmitsInTurn, [NodeNext]_nodeVars
  PROVE  SubmitsInTurn'
<1>1. committed.height = 0 => committed.prop = NoProposal
  BY DEF NodeInv, CommittedOK
<1>2. committed.prop.open <=> Base.prop.open
  BY <1>1 DEF Base, GenesisState
<1>3. CASE Commit
  BY <1>3 DEF Commit, SubmitsInTurn, NoBlock
<1>4. CASE UNCHANGED <<committed, genesis>>
  <2>1. ASSUME NEW b \in Blocks, ProcessProposal(b) \/ Decide(b)
        PROVE  SubmitsInTurn'
    <3>1. /\ exec' \in {exec, b} /\ decided' \in {decided, b}
          /\ b.tx = "submit" => ~Base.prop.open
      BY <1>2, <2>1 DEF ProcessProposal, Decide, StartExecuting, Proposable, cycleVars
    <3> QED
      BY <1>4, <3>1, KeepBase DEF SubmitsInTurn
  <2>2. ASSUME exec' \in {exec, decided, NoBlock}, decided' = decided
        PROVE  SubmitsInTurn'
    BY <1>4, <2>2, KeepBase DEF SubmitsInTurn, NoBlock
  <2>3. CASE Start \/ InitChain \/ Executing \/ Crash \/ UNCHANGED nodeVars
    <3>1. exec' \in {exec, decided, NoBlock} /\ (decided' = decided \/ Commit)
      BY <2>3 DEF Start, InitChain, Executing, KeepOptimistic, AbortOptimistic,
             FinalizeBlock, BeginBlock, BeginBlockDistribution, BeginBlockFixedmint,
             Advance, Die, DeliverTx, AnteHandler, RunMsgs, EndBlock,
             EndBlockCrisis, EndBlockGov, Commit, Crash, StartExecuting,
             nodeVars, cycleVars
    <3> QED
      BY <1>3, <2>2, <3>1
  <2> QED
    BY <2>1, <2>3 DEF NodeNext
<1> QED
  BY <1>3, <1>4, OnlyCommit

\* Every step of a node keeps to the functions.
LEMMA FollowsNext ==
  ASSUME NodeInv, NodeInv', WorkFollows, [NodeNext]_nodeVars
  PROVE  WorkFollows'
<1>1. ASSUME stage' \in {"down", "init", "idle"} PROVE WorkFollows'
  BY <1>1 DEF WorkFollows
<1>2. ASSUME stage' = "begin", next' = 1 PROVE WorkFollows'
  <2>1. Work' = Base'
    <3>1. /\ params' = Base'.params /\ bal' = Base'.bal /\ supply' = Base'.supply
          /\ macc' = Base'.macc /\ donated' = Base'.donated /\ prop' = Base'.prop
      BY <1>2 DEF NodeInv, StartsFromBase
    <3>2. Base' = [height |-> committed'.height, params |-> Base'.params,
                   bal |-> Base'.bal, supply |-> Base'.supply,
                   macc |-> Base'.macc, donated |-> Base'.donated,
                   prop |-> Base'.prop]
      <4>1. CASE committed'.height = 0
        BY <4>1 DEF Base, GenesisState
      <4>2. CASE committed'.height # 0
        BY <4>2 DEF Base, NodeInv, NodeTypeOK, AppStates
      <4> QED
        BY <4>1, <4>2
    <3> QED
      BY <3>1, <3>2 DEF Work
  <2> QED
    BY <1>2, <2>1 DEF WorkFollows
<1>3. ASSUME UNCHANGED <<workVars, committed, genesis, stage, next, exec>>
      PROVE  WorkFollows'
  <2>1. Work' = Work
    BY <1>3 DEF Work, workVars
  <2> QED
    BY <1>3, <2>1, KeepFunctions DEF WorkFollows
<1>4. CASE Start \/ InitChain \/ FinalizeBlock \/ AbortOptimistic \/ Commit \/ Crash
  BY <1>1, <1>2, <1>4 DEF Start, InitChain, FinalizeBlock, AbortOptimistic, Commit,
                          Crash, StartExecuting
<1>5. CASE \E b \in Blocks : ProcessProposal(b)
  BY <1>2, <1>5 DEF ProcessProposal, StartExecuting
<1>6. CASE (\E b \in Blocks : Decide(b)) \/ KeepOptimistic \/ UNCHANGED nodeVars
  BY <1>3, <1>6 DEF Decide, KeepOptimistic, nodeVars, fixedmintVars, cycleVars, workVars
<1>7. CASE BeginBlock
  BY <1>7, FollowsDistribution, FollowsFixedmint DEF BeginBlock
<1>8. CASE DeliverTx
  BY <1>8, FollowsAnteHandler, FollowsRunMsgs DEF DeliverTx
<1>9. CASE EndBlock
  BY <1>9, FollowsCrisis, FollowsGov DEF EndBlock
<1> QED
  BY <1>4, <1>5, <1>6, <1>7, <1>8, <1>9 DEF NodeNext, Executing

\* The shape of a state, whatever its fields hold.
IsState(s) ==
  s \in [height : {s.height}, params : {s.params}, bal : {s.bal}, supply : {s.supply},
         macc : {s.macc}, donated : {s.donated}, prop : {s.prop}]

\* What a block is begun on has that shape.
LEMMA BaseIsState == ASSUME NodeInv PROVE IsState(Base)
<1>1. CASE committed.height = 0
  BY <1>1 DEF Base, GenesisState, IsState
<1>2. CASE committed.height # 0
  BY <1>2 DEF Base, NodeInv, NodeTypeOK, AppStates, IsState
<1> QED
  BY <1>1, <1>2

\* Neither payout, mint nor fee touch the parameters or the proposal.
LEMMA BegunKeeps ==
  ASSUME NEW s, IsState(s)
  PROVE  /\ IsState(Charged(Begun(s))) /\ IsState(Begun(s))
         /\ Begun(s).params = s.params /\ Begun(s).prop = s.prop
         /\ Begun(s).height = s.height
         /\ Charged(Begun(s)).params = s.params /\ Charged(Begun(s)).prop = s.prop
         /\ Charged(Begun(s)).height = s.height
<1>1. ASSUME NEW t, IsState(t), NEW x, NEW y, NEW z
      PROVE  LET u == [t EXCEPT !.supply = y, !.bal = x, !.macc = z]
                 v == [t EXCEPT !.bal = x]
             IN  /\ IsState(u) /\ u.params = t.params /\ u.prop = t.prop
                 /\ u.height = t.height
                 /\ IsState(v) /\ v.params = t.params /\ v.prop = t.prop
                 /\ v.height = t.height
  BY <1>1 DEF IsState
<1> DEFINE p == PaidOut(s)
           b == Begun(s)
<1>2. /\ IsState(p) /\ p.params = s.params /\ p.prop = s.prop
      /\ p.height = s.height
  BY <1>1 DEF PaidOut
<1>3. b = Rewarded(p)
  BY DEF Begun
<1> HIDE DEF p
<1>4. IsState(b) /\ b.params = p.params /\ b.prop = p.prop /\ b.height = p.height
  <2> DEFINE reward == [d \in Denoms |-> Reward(p.params, d)]
             y == [d \in Denoms |-> p.supply[d] + reward[d]]
             x == Move(Credited(p.bal, "fixedmint", reward), "fixedmint",
                       "fee_collector", reward)
  <2>1. b = IF SkipsMint(p.params) THEN p
            ELSE [p EXCEPT !.supply = y, !.bal = x, !.macc = "module"]
    BY <1>3 DEF Rewarded
  <2> HIDE DEF x, y, b
  <2>2. CASE SkipsMint(p.params)
    BY <1>2, <2>1, <2>2
  <2>3. CASE ~SkipsMint(p.params)
    <3>1. b = [p EXCEPT !.supply = y, !.bal = x, !.macc = "module"]
      BY <2>1, <2>3
    <3> QED
      BY <1>2, <3>1 DEF IsState
  <2> QED
    BY <2>2, <2>3
<1> HIDE DEF b
<1>5. /\ IsState(Charged(b)) /\ Charged(b).params = b.params
      /\ Charged(b).prop = b.prop /\ Charged(b).height = b.height
  BY <1>1, <1>4 DEF Charged
<1> QED
  BY <1>2, <1>4, <1>5 DEF b

\* A transaction changes the parameters by an update of the authority, and the
\* proposal by a vote, or by submitting one.
LEMMA DeliveredChanges ==
  ASSUME NEW s, IsState(s), NEW b
  PROVE  LET t == Delivered(Begun(s), b)
         IN  /\ IsState(t) /\ t.height = s.height
             /\ \/ t.params = s.params
                \/ /\ Authority = "users" /\ b.tx = "update"
                   /\ t.params = Stored(b.new) /\ t.prop = s.prop
             /\ \/ t.prop = s.prop
                \/ /\ b.tx = "vote" /\ s.prop.open
                   /\ t.prop = [s.prop EXCEPT !.yes = TRUE]
                \/ b.tx = "submit" /\ ~t.prop.yes
<1> DEFINE c == Charged(Begun(s))
<1>1. /\ IsState(c) /\ c.params = s.params /\ c.prop = s.prop
      /\ c.height = s.height
  BY BegunKeeps
<1>2. CASE ~Accepted(Begun(s), b)
  BY <1>2, BegunKeeps DEF Delivered
<1>3. CASE Accepted(Begun(s), b)
  <2>1. Delivered(Begun(s), b) = Messaged(c, b)
    BY <1>3 DEF Delivered
  <2> HIDE DEF c
  <2>2. CASE b.tx = "send"
    <3>1. Messaged(c, b) = Sent(c, b)
      BY <2>2 DEF Messaged
    <3>2. /\ IsState(Sent(c, b)) /\ Sent(c, b).params = c.params
          /\ Sent(c, b).prop = c.prop /\ Sent(c, b).height = c.height
      BY <1>1 DEF Sent, IsState
    <3> QED
      BY <1>1, <2>1, <3>1, <3>2
  <2>3. CASE b.tx = "update"
    BY <1>1, <2>1, <2>3 DEF Messaged, Updated, IsState
  <2>4. CASE b.tx = "submit"
    <3> DEFINE q == [open |-> TRUE, new |-> b.new, rest |-> b.rest, yes |-> FALSE,
                     ends |-> c.height + 1 + VotingPeriod]
    <3>1. Messaged(c, b) = IF SubmitSucceeds(b) THEN [c EXCEPT !.prop = q] ELSE c
      BY <2>4 DEF Messaged
    <3>2. ~q.yes
      OBVIOUS
    <3> HIDE DEF q
    <3> QED
      BY <1>1, <2>1, <2>4, <3>1, <3>2 DEF IsState
  <2>5. CASE b.tx = "vote"
    <3> DEFINE q == [c.prop EXCEPT !.yes = TRUE]
    <3>1. Messaged(c, b) = IF c.prop.open THEN [c EXCEPT !.prop = q] ELSE c
      BY <2>5 DEF Messaged
    <3>2. q = [s.prop EXCEPT !.yes = TRUE]
      BY <1>1
    <3> HIDE DEF q
    <3> DEFINE t == [c EXCEPT !.prop = q]
    <3>3. IsState(t) /\ t.params = c.params /\ t.height = c.height /\ t.prop = q
      BY <1>1 DEF IsState
    <3>4. Messaged(c, b) = IF s.prop.open THEN t ELSE c
      BY <1>1, <3>1
    <3> HIDE DEF t
    <3>5. CASE s.prop.open
      BY <1>1, <2>1, <2>5, <3>2, <3>3, <3>4, <3>5
    <3>6. CASE ~s.prop.open
      BY <1>1, <2>1, <3>4, <3>6
    <3> QED
      BY <3>5, <3>6
  <2>6. CASE b.tx \notin {"send", "update", "submit", "vote"}
    BY <1>1, <2>1, <2>6 DEF Messaged
  <2> QED
    BY <2>2, <2>3, <2>4, <2>5, <2>6
<1> QED
  BY <1>2, <1>3

\* The tally changes the parameters by the proposal that is due and passed, if
\* the authority is the one of governance, and closes it.
LEMMA TalliedChanges ==
  ASSUME NEW t, IsState(t)
  PROVE  LET u == Tallied(t)
         IN  /\ IsState(u) /\ u.height = t.height
             /\ \/ u.params = t.params
                \/ /\ Authority = "gov" /\ Due(t) /\ t.prop.yes /\ t.prop.rest
                   /\ u.params = Stored(t.prop.new) /\ u.prop = NoProposal
<1> DEFINE c == [t EXCEPT !.prop = NoProposal]
<1>1. /\ IsState(c) /\ c.params = t.params /\ c.height = t.height
      /\ c.prop = NoProposal
  BY DEF IsState
<1>2. Tallied(t) = IF ~Due(t) THEN t
                   ELSE IF t.prop.yes /\ t.prop.rest
                          THEN Updated(c, "gov", t.prop.new) ELSE c
  BY DEF Tallied
<1> HIDE DEF c
<1>3. LET v == Updated(c, "gov", t.prop.new)
      IN  /\ IsState(v) /\ v.height = t.height
          /\ \/ v.params = t.params
             \/ /\ Authority = "gov" /\ v.params = Stored(t.prop.new)
                /\ v.prop = NoProposal
  BY <1>1 DEF Updated, IsState
<1> QED
  BY <1>1, <1>2, <1>3

\* How a block may change the parameters.
LEMMA ExecutedChanges ==
  ASSUME NEW s, IsState(s), s.prop \in Proposals \cup {NoProposal},
         NEW b, b.tx = "submit" => ~s.prop.open,
         Executed(s, b).params # s.params
  PROVE  LET u == Executed(s, b)
         IN  \/ /\ Authority = "gov" /\ s.prop.open /\ s.prop.rest
                /\ s.prop.yes \/ b.tx = "vote"
                /\ s.prop.ends <= s.height + 1
                /\ u.params = Stored(s.prop.new) /\ ~u.prop.open
             \/ /\ Authority = "users" /\ b.tx = "update"
                /\ u.params = Stored(b.new)
<1> DEFINE t == Delivered(Begun(s), b)
           u == Tallied(t)
<1>1. /\ IsState(t) /\ t.height = s.height
      /\ \/ t.params = s.params
         \/ /\ Authority = "users" /\ b.tx = "update"
            /\ t.params = Stored(b.new) /\ t.prop = s.prop
      /\ \/ t.prop = s.prop
         \/ /\ b.tx = "vote" /\ s.prop.open
            /\ t.prop = [s.prop EXCEPT !.yes = TRUE]
         \/ b.tx = "submit" /\ ~t.prop.yes
  BY DeliveredChanges
<1>2. u = Executed(s, b)
  BY DEF Executed
<1> HIDE DEF t
<1>3. \/ u.params = t.params
      \/ /\ Authority = "gov" /\ t.prop.open /\ t.prop.ends <= s.height + 1
         /\ t.prop.yes /\ t.prop.rest
         /\ u.params = Stored(t.prop.new) /\ ~u.prop.open
  BY <1>1, TalliedChanges DEF Due, NoProposal
<1> HIDE DEF u
<1>4. CASE u.params = t.params
  BY <1>1, <1>2, <1>4
<1>5. CASE u.params # t.params
  <2>1. t.prop = s.prop \/ (b.tx = "vote" /\ s.prop.open
                               /\ t.prop = [s.prop EXCEPT !.yes = TRUE])
    BY <1>1, <1>3, <1>5
  <2>2. s.prop \in Proposals
    BY <1>3, <1>5, <2>1 DEF NoProposal
  <2>3. /\ t.prop.rest = s.prop.rest /\ t.prop.ends = s.prop.ends
        /\ t.prop.new = s.prop.new /\ t.prop.open = s.prop.open
        /\ t.prop.yes => s.prop.yes \/ b.tx = "vote"
    BY <2>1, <2>2 DEF Proposals
  <2> QED
    BY <1>2, <1>3, <1>5, <2>3
<1> QED
  BY <1>4, <1>5

\* A node begins a block it was given.
LEMMA ExecutesInv ==
  ASSUME NodeInv, ExecutesABlock, [NodeNext]_nodeVars
  PROVE  ExecutesABlock'
<1>1. ASSUME NEW b \in Blocks, ProcessProposal(b) \/ Decide(b)
      PROVE  ExecutesABlock'
  <2>1. b # NoBlock
    BY DEF Blocks, EmptyBlock, NoBlock
  <2> QED
    BY <1>1, <2>1 DEF ExecutesABlock, ProcessProposal, Decide, StartExecuting, cycleVars
<1>2. CASE Start \/ InitChain \/ Executing \/ Crash \/ UNCHANGED nodeVars
  BY <1>2 DEF ExecutesABlock, Start, InitChain, Executing, KeepOptimistic,
         AbortOptimistic, FinalizeBlock, BeginBlock, BeginBlockDistribution,
         BeginBlockFixedmint, AtBegin, AtEnd, Advance, Die, DeliverTx, AnteHandler,
         RunMsgs, EndBlock, EndBlockCrisis, EndBlockGov, Commit, Crash,
         StartExecuting, nodeVars, cycleVars
<1> QED
  BY <1>1, <1>2 DEF NodeNext

\* The invariant of an execution.
FollowsInv ==
  /\ NodeInv /\ ExecutesDecided
  /\ WorkFollows /\ SubmitsInTurn /\ ExecutesABlock

\* A node that was never started has executed nothing.
LEMMA FollowsInit == NodeInit => FollowsInv
BY NodeInitInv
   DEF NodeInit, FollowsInv, ExecutesDecided, WorkFollows, SubmitsInTurn,
       ExecutesABlock, NoBlock

\* Every step of a node keeps the invariant of an execution.
LEMMA FollowsNextInv == FollowsInv /\ [NodeNext]_nodeVars => FollowsInv'
BY NodeNextInv, DecidedInv, FollowsNext, TurnInv, ExecutesInv DEF FollowsInv

\* At every stage the working state is a function of the committed state and
\* of the block, and a running node that is not ahead of the decision executes
\* the decided block.
THEOREM ExecutionFollows == NodeSpec => []FollowsInv
BY FollowsInit, FollowsNextInv, PTL DEF NodeSpec

\* What Commit writes.
LEMMA CommitIsNextState ==
  ASSUME FollowsInv, Commit
  PROVE  /\ committed' = NextState(Base, decided) /\ decided # NoBlock
         /\ committed'.height = committed.height + 1
         /\ committed'.params = Executed(Base, decided).params
         /\ committed'.prop = Executed(Base, decided).prop
<1>1. /\ exec = decided /\ exec # NoBlock
      /\ Work = Executed(Base, exec)
      /\ committed' = [Work EXCEPT !.height = Height]
  BY DEF FollowsInv, WorkFollows, ExecutesDecided, ExecutesABlock, Commit, Work
<1>2. Height = Base.height + 1 /\ Height = committed.height + 1
  BY DEF Height, Base, GenesisState
<1>3. committed'.params = Work.params /\ committed'.prop = Work.prop
      /\ committed'.height = Height
  BY <1>1 DEF Work
<1> QED
  BY <1>1, <1>2, <1>3 DEF NextState

\* Every block the chain commits is the decided one executed on the state that
\* was committed before: optimistic execution, other proposals, crashes and
\* replays leave no trace in it.
CommitsTheFunction ==
  [][committed' # committed => committed' = NextState(Base, decided)]_nodeVars

THEOREM BlockIsAFunction == NodeSpec => CommitsTheFunction
<1>1. FollowsInv /\ [NodeNext]_nodeVars
      => [committed' # committed => committed' = NextState(Base, decided)]_nodeVars
  BY OnlyCommit, CommitIsNextState
<1> QED
  BY <1>1, ExecutionFollows, PTL DEF NodeSpec, CommitsTheFunction

\* After genesis the parameters change only by a proposal that governance
\* passed, whose voting period is over and whose messages all succeed, or with
\* another authority by a message it signed; no other transaction, and nothing
\* an abandoned execution left, can do it.
THEOREM OnlyTheAuthority == NodeSpec => ParamsChangeOnlyByAuthority
<1> DEFINE A ==
      (committed.height > 0 /\ committed'.params # committed.params) =>
       \/ /\ Authority = "gov"
          /\ committed.prop.open /\ committed.prop.rest
          /\ committed.prop.yes \/ decided.tx = "vote"
          /\ committed.prop.ends <= committed'.height
          /\ committed'.params = Stored(committed.prop.new)
          /\ ~committed'.prop.open
       \/ /\ Authority = "users"
          /\ decided.tx = "update"
          /\ committed'.params = Stored(decided.new)
<1>1. FollowsInv /\ [NodeNext]_nodeVars => [A]_nodeVars
  <2> SUFFICES ASSUME FollowsInv, [NodeNext]_nodeVars,
                      committed.height > 0, committed'.params # committed.params
               PROVE  A
    OBVIOUS
  <2>1. Commit
    BY OnlyCommit
  <2>2. Base = committed /\ IsState(Base) /\ Base.prop \in Proposals \cup {NoProposal}
    BY BaseOK, BaseIsState DEF Base, FollowsInv
  <2>3. decided.tx = "submit" => ~Base.prop.open
    BY DEF FollowsInv, SubmitsInTurn
  <2>4. /\ committed'.params = Executed(Base, decided).params
        /\ committed'.prop = Executed(Base, decided).prop
        /\ committed'.height = Base.height + 1
    BY <2>1, <2>2, CommitIsNextState
  <2> QED
    BY <2>2, <2>3, <2>4, ExecutedChanges
<1> QED
  BY <1>1, ExecutionFollows, PTL DEF NodeSpec, ParamsChangeOnlyByAuthority
=============================================================================
