------------------------------ MODULE MintParams ------------------------------
(***************************************************************************)
(* The parameters of x/fixedmint (types/params.go), the checks the code    *)
(* makes on them, and what the begin blocker makes of them.  Pure          *)
(* operators, no state.                                                    *)
(*                                                                         *)
(* A denomination is well formed (the bank can hold it), malformed but not *)
(* empty, or empty.  An amount is an integer of at most MaxInt in absolute *)
(* value (math.Int holds 256 bits) or NilInt, the zero value of math.Int,  *)
(* which is what an absent field decodes to.                               *)
(***************************************************************************)
EXTENDS Integers

CONSTANTS
  Denoms,        \* well-formed denominations
  BadDenoms,     \* non-empty strings sdk.NewCoin refuses
  EmptyDenom,    \* ""
  DefaultDenom,  \* "ubluechip"
  DefaultAmount, \* 1000000 (any positive amount in a small model)
  NilInt,        \* math.Int{} : no big.Int behind it
  MaxInt         \* the largest math.Int

ASSUME DenomsAssumption ==
  /\ DefaultDenom \in Denoms
  /\ Denoms \cap BadDenoms = {}
  /\ EmptyDenom \notin Denoms \cup BadDenoms

ASSUME AmountsAssumption ==
  /\ MaxInt \in Nat
  /\ DefaultAmount \in 1 .. MaxInt
  /\ NilInt \notin Int

-----------------------------------------------------------------------------
AllDenoms == Denoms \cup BadDenoms \cup {EmptyDenom}
Ints      == (-MaxInt) .. MaxInt

\* What a message or a genesis file can carry, and what the store can hold.
Params       == [denom : AllDenoms, amount : Ints \cup {NilInt}, enabled : BOOLEAN]
StorableParams == [denom : AllDenoms, amount : Ints, enabled : BOOLEAN]

NewParams(denom, amount, enabled) ==
  [denom |-> denom, amount |-> amount, enabled |-> enabled]

DefaultParams == NewParams(DefaultDenom, DefaultAmount, TRUE)

\* The Go zero value types.Params{}.
ZeroParams == NewParams(EmptyDenom, NilInt, FALSE)

-----------------------------------------------------------------------------
\* Outcomes of the checks.  A method of a nil math.Int dereferences a nil
\* pointer, so Validate of a nil amount does not return an error: it panics.
validateMintDenom(denom) == IF denom = EmptyDenom THEN "error" ELSE "ok"

validateMintAmount(amount) ==
  CASE amount = NilInt -> "panic"
    [] amount # NilInt /\ amount < 0 -> "error"
    [] OTHER -> "ok"

Validate(p) ==
  IF validateMintDenom(p.denom) = "ok" THEN validateMintAmount(p.amount)
                                       ELSE validateMintDenom(p.denom)

\* ValidateBasic: the authority must be an address, then Params.Validate.
\* Every signer of the models is an address.
ValidateBasic(p) == Validate(p)

ValidParams == {p \in Params : Validate(p) = "ok"}

-----------------------------------------------------------------------------
\* Params.Marshal writes a nil amount as "0": the round trip through the
\* store is not the identity.
Stored(p) == [p EXCEPT !.amount = IF p.amount = NilInt THEN 0 ELSE p.amount]

\* The early return of MintFixedBlockReward.  The || short-circuits, so a nil
\* amount is never looked at while minting is disabled.
SkipsMint(p) == ~p.enabled \/ p.amount = 0

\* sdk.NewCoin: panics on a malformed denomination or a negative amount.
NewCoinPanics(p) == p.denom \notin Denoms \/ p.amount < 0

\* Parameters a block can be begun on.
Mintable(p) == SkipsMint(p) \/ ~NewCoinPanics(p)

\* What a block begun on p adds to the supply of denomination d.
Reward(p, d) == IF ~SkipsMint(p) /\ p.denom = d THEN p.amount ELSE 0
=============================================================================
