------------------------------ MODULE FixedMint ------------------------------
(***************************************************************************)
(* x/fixedmint and the part of x/bank and x/auth it works on.              *)
(*                                                                         *)
(* The module keeps one value, its parameters.  Its begin blocker mints    *)
(* the configured reward into the module account "fixedmint" and forwards  *)
(* it to "fee_collector".  The bank is external: it is modelled from what  *)
(* keeper/keeper.go and keeper/invariants.go call, with one aggregate      *)
(* account "users" for every account that is not a module account.         *)
(*                                                                         *)
(* Here the operations may come in any order; module Node runs them in the *)
(* order of the application's block life cycle.                            *)
(***************************************************************************)
EXTENDS MintParams

CONSTANTS
  NoParams,        \* nothing stored under ParamsKey
  ConfigAuthority  \* modulev1.Module.Authority; "" takes the default

Accounts == {"users", "fixedmint", "fee_collector", "distribution"}

\* blockAccAddrs of the application: accounts a bank message may not pay.
\* The module account of fixedmint is not among them.
BlockedAddrs == {"fee_collector", "distribution"}

ASSUME NoParamsAssumption == NoParams \notin Params

VARIABLES
  params,  \* the value under ParamsKey
  bal,     \* bank: balance of each account in each denomination
  supply,  \* bank: total supply of each denomination
  macc,    \* auth: what lives at the fixedmint module address:
           \*   "none", "base" (an ordinary account) or "module"
  halted,  \* a panic has left the application: the process is gone
  donated  \* history: what bank messages have paid to the module address

fixedmintVars == <<params, bal, supply, macc, halted, donated>>

ZeroCoins  == [d \in Denoms |-> 0]
Coins(d, a) == [e \in Denoms |-> IF e = d THEN a ELSE 0]
Amounts    == 1 .. MaxInt

-----------------------------------------------------------------------------
\* ProvideModule: the governance account unless the configuration names one.
Authority == IF ConfigAuthority = "" THEN "gov" ELSE ConfigAuthority

\* GetParams: the zero Params when nothing is stored.
GetParams == IF params = NoParams THEN ZeroParams ELSE params

SetParams(p) == params' = Stored(p)

-----------------------------------------------------------------------------
\* Bank operations.  All of them act on well-formed denominations.
Move(b, from, to, c) ==
  LET out == [b EXCEPT ![from] = [d \in Denoms |-> @[d] - c[d]]]
  IN  [out EXCEPT ![to] = [d \in Denoms |-> @[d] + c[d]]]

Covers(b, from, c) == \A d \in Denoms : c[d] <= b[from][d]

\* MintCoins: credits the module account and raises the supply.
MintCoins(c) ==
  supply' = [d \in Denoms |-> supply[d] + c[d]]
Credited(b, to, c) == [b EXCEPT ![to] = [d \in Denoms |-> @[d] + c[d]]]

-----------------------------------------------------------------------------
\* InitGenesis stores the genesis parameters.  It does not call Validate.
InitGenesis(p) ==
  /\ params = NoParams
  /\ SetParams(p)
  /\ UNCHANGED <<bal, supply, macc, halted, donated>>

\* BeginBlock with minting disabled or a zero amount.
SkipMint ==
  /\ SkipsMint(GetParams)
  /\ UNCHANGED fixedmintVars

\* Mutant: whatever lives at the module address is taken for its account.
MintPanics_AnyAccount(p) ==
  /\ ~SkipsMint(p)
  /\ NewCoinPanics(p) \/ \E d \in Denoms : supply[d] + Reward(p, d) > MaxInt

\* Mutant: addition wraps or saturates instead of panicking.
MintPanics_NoOverflow(p) ==
  /\ ~SkipsMint(p)
  /\ NewCoinPanics(p) \/ macc = "base"

\* What stops the begin blocker by a panic, in the order it meets them:
\* sdk.NewCoin on the parameters; MintCoins when an ordinary account lives
\* at the module address; math.Int addition past its width.
MintPanics(p) ==
  /\ ~SkipsMint(p)
  /\ \/ NewCoinPanics(p)
     \/ macc = "base"
     \/ \E d \in Denoms : supply[d] + Reward(p, d) > MaxInt

PanickingMint ==
  /\ MintPanics(GetParams)
  /\ halted' = TRUE
  /\ UNCHANGED <<params, bal, supply, macc, donated>>

\* Mutant: the reward stays in the module account.
MintReward_NotForwarded ==
  LET reward == [d \in Denoms |-> Reward(GetParams, d)]
  IN  /\ ~SkipsMint(GetParams) /\ ~MintPanics(GetParams)
      /\ MintCoins(reward)
      /\ bal' = Credited(bal, "fixedmint", reward)
      /\ macc' = "module"
      /\ UNCHANGED <<params, halted, donated>>

\* Mutant: the reward is forwarded by minting it to the fee collector.
MintReward_MintedTwice ==
  LET reward == [d \in Denoms |-> Reward(GetParams, d)]
  IN  /\ ~SkipsMint(GetParams) /\ ~MintPanics(GetParams)
      /\ MintCoins(reward)
      /\ bal' = Credited(Credited(bal, "fixedmint", reward), "fee_collector", reward)
      /\ macc' = "module"
      /\ UNCHANGED <<params, halted, donated>>

\* Mutant: the reward is forwarded twice.
MintReward_ForwardedTwice ==
  LET reward == [d \in Denoms |-> Reward(GetParams, d)]
      sent   == Move(bal, "fixedmint", "fee_collector", reward)
  IN  /\ ~SkipsMint(GetParams) /\ ~MintPanics(GetParams)
      /\ MintCoins(reward)
      /\ bal' = Move(Credited(sent, "fixedmint", reward), "fixedmint",
                     "fee_collector", reward)
      /\ macc' = "module"
      /\ UNCHANGED <<params, halted, donated>>

\* MintCoins to the module account, then SendCoinsFromModuleToModule of the
\* same coins to the fee collector.  The first mint creates the account.
MintReward ==
  LET p      == GetParams
      reward == [d \in Denoms |-> Reward(p, d)]
      minted == Credited(bal, "fixedmint", reward)
  IN  /\ ~SkipsMint(p) /\ ~MintPanics(p)
      /\ MintCoins(reward)
      /\ bal' = Move(minted, "fixedmint", "fee_collector", reward)
      /\ macc' = "module"
      /\ UNCHANGED <<params, halted, donated>>

MintFixedBlockReward == SkipMint \/ MintReward \/ PanickingMint

-----------------------------------------------------------------------------
\* Mutant: the message server does not look at the authority.
UpdateParams_Unchecked(authority, p) ==
  /\ SetParams(p)
  /\ UNCHANGED <<bal, supply, macc, halted, donated>>

\* The message server.  It compares the authority and stores the parameters;
\* Validate is left to ValidateBasic, which the transport may have run.
UpdateParams(authority, p) ==
  /\ authority = Authority
  /\ SetParams(p)
  /\ UNCHANGED <<bal, supply, macc, halted, donated>>

RejectUpdateParams(authority) ==
  /\ authority # Authority
  /\ UNCHANGED fixedmintVars

\* x/bank MsgSend from a user.  Paying an address without an account creates
\* an ordinary one there.
Send(to, c) ==
  /\ to \notin BlockedAddrs
  /\ Covers(bal, "users", c)
  /\ bal' = Move(bal, "users", to, c)
  /\ IF to = "fixedmint"
       THEN /\ donated' = [d \in Denoms |-> donated[d] + c[d]]
            /\ macc' = IF macc = "none" THEN "base" ELSE macc
       ELSE UNCHANGED <<donated, macc>>
  /\ UNCHANGED <<params, supply, halted>>

\* The ante handler's fee deduction.
DeductFee(c) ==
  /\ Covers(bal, "users", c)
  /\ bal' = Move(bal, "users", "fee_collector", c)
  /\ UNCHANGED <<params, supply, macc, halted, donated>>

\* x/distribution's begin blocker empties the fee collector.
AllocateTokens ==
  /\ bal' = Move(bal, "fee_collector", "distribution", bal["fee_collector"])
  /\ UNCHANGED <<params, supply, macc, halted, donated>>

\* ModuleAccountInvariant, as the crisis module evaluates it: broken when the
\* module account holds anything.
ModuleAccountBroken(b) == \E d \in Denoms : b["fixedmint"][d] # 0

\* The crisis end blocker's assertion of the registered invariants.
AssertInvariants ==
  /\ halted' = (halted \/ ModuleAccountBroken(bal))
  /\ UNCHANGED <<params, bal, supply, macc, donated>>

-----------------------------------------------------------------------------
\* A chain before genesis: the users hold everything.  An imported genesis
\* may already carry the module account.
Init ==
  /\ params = NoParams
  /\ supply \in [Denoms -> 0 .. MaxInt]
  /\ bal = [a \in Accounts |-> IF a = "users" THEN supply ELSE ZeroCoins]
  /\ macc \in {"none", "module"}
  /\ halted = FALSE
  /\ donated = ZeroCoins

Next ==
  /\ ~halted
  /\ \/ \E p \in Params : InitGenesis(p)
     \/ MintFixedBlockReward
     \/ \E s \in {"users", "gov"}, p \in Params : UpdateParams(s, p)
     \/ \E s \in {"users", "gov"} : RejectUpdateParams(s)
     \/ \E to \in Accounts, d \in Denoms, a \in Amounts : Send(to, Coins(d, a))
     \/ \E d \in Denoms, a \in Amounts : DeductFee(Coins(d, a))
     \/ AllocateTokens
     \/ AssertInvariants

Spec == Init /\ [][Next]_fixedmintVars

-----------------------------------------------------------------------------
(* Properties of the module whatever the order of its calls.               *)

CoinSets == [Denoms -> Nat]
Balances == [Accounts -> CoinSets]

TypeOK ==
  /\ params \in StorableParams \cup {NoParams}
  /\ bal \in Balances
  /\ supply \in [Denoms -> 0 .. MaxInt]
  /\ macc \in {"none", "base", "module"}
  /\ halted \in BOOLEAN
  /\ donated \in CoinSets

Held(b, d) == b["users"][d] + b["fixedmint"][d]
                + b["fee_collector"][d] + b["distribution"][d]

\* Every coin of the supply is held by exactly one account: neither minting
\* and forwarding a reward, nor fees, nor the distribution sweep, creates or
\* loses a coin that the supply does not show.
SupplyIsHeld == \A d \in Denoms : supply[d] = Held(bal, d)

\* MintFixedBlockReward leaves nothing of what it mints in the module
\* account: what is there came from bank messages, coin for coin.
ResidualIsDonated == \A d \in Denoms : bal["fixedmint"][d] = donated[d]

\* A bank message that reaches the module address before the first mint puts
\* an ordinary account there, and from then on no reward can be minted: no
\* operation of the chain, an update of the parameters included, turns it
\* into the module account MintCoins needs.
BaseAccountEndsMinting ==
  [][macc = "base" => macc' = "base" /\ supply' = supply]_fixedmintVars
=============================================================================
