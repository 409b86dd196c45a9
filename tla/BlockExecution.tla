--------------------------- MODULE BlockExecution ---------------------------
(***************************************************************************)
(* What one block makes of the committed state, as a function of that      *)
(* state and of the block: what the steps of module Node compute from the  *)
(* begin blockers to the commit, one operator per stage.  A node refines   *)
(* it: neither optimistic execution, abandoned proposals, crashes, nor the *)
(* --inv-check-period of the process is an argument of NextState.          *)
(*                                                                         *)
(* A state s is a record as Commit writes it; its height is that of the    *)
(* block before the one executed.                                          *)
(***************************************************************************)
EXTENDS Node

\* The fee collector is paid out, from block 2 on.
PaidOut(s) ==
  IF s.height + 1 > 1
    THEN [s EXCEPT !.bal = Move(s.bal, "fee_collector", "distribution",
                                s.bal["fee_collector"])]
    ELSE s

\* The begin blocker of x/fixedmint, where it does not panic.
Rewarded(s) ==
  LET reward == [d \in Denoms |-> Reward(s.params, d)]
      minted == Credited(s.bal, "fixedmint", reward)
  IN  IF SkipsMint(s.params) THEN s
      ELSE [s EXCEPT !.supply = [d \in Denoms |-> s.supply[d] + reward[d]],
                     !.bal = Move(minted, "fixedmint", "fee_collector", reward),
                     !.macc = "module"]

Begun(s) == Rewarded(PaidOut(s))

\* The ante handler takes the fee of a transaction it accepts.
Accepted(s, b) ==
  /\ b.tx # "empty"
  /\ b.tx = "update" => ValidateBasic(b.new) = "ok"
  /\ Covers(s.bal, "users", Fee)

Charged(s) == [s EXCEPT !.bal = Move(s.bal, "users", "fee_collector", Fee)]

Sent(s, b) ==
  IF b.to \in BlockedAddrs \/ ~Covers(s.bal, "users", b.coins) THEN s
  ELSE [s EXCEPT !.bal = Move(s.bal, "users", b.to, b.coins),
                 !.donated = IF b.to = "fixedmint"
                               THEN [d \in Denoms |-> s.donated[d] + b.coins[d]]
                               ELSE s.donated,
                 !.macc = IF b.to = "fixedmint" /\ s.macc = "none"
                            THEN "base" ELSE s.macc]

Updated(s, signer, p) ==
  IF signer = Authority THEN [s EXCEPT !.params = Stored(p)] ELSE s

\* The message of the transaction; one that fails leaves the state.
Messaged(s, b) ==
  CASE b.tx = "send"   -> Sent(s, b)
    [] b.tx = "update" -> Updated(s, "users", b.new)
    [] b.tx = "submit" ->
         IF SubmitSucceeds(b)
           THEN [s EXCEPT !.prop = [open |-> TRUE, new |-> b.new, rest |-> b.rest,
                                    yes |-> FALSE,
                                    ends |-> s.height + 1 + VotingPeriod]]
           ELSE s
    [] b.tx = "vote" ->
         IF s.prop.open THEN [s EXCEPT !.prop = [s.prop EXCEPT !.yes = TRUE]] ELSE s
    [] OTHER -> s

Delivered(s, b) == IF Accepted(s, b) THEN Messaged(Charged(s), b) ELSE s

\* gov closes the proposal that is due and executes it if it passed.
Due(s) == s.prop.open /\ s.prop.ends <= s.height + 1

Tallied(s) ==
  IF ~Due(s) THEN s
  ELSE LET closed == [s EXCEPT !.prop = NoProposal]
       IN  IF s.prop.yes /\ s.prop.rest THEN Updated(closed, "gov", s.prop.new)
                                        ELSE closed

Executed(s, b) == Tallied(Delivered(Begun(s), b))

\* The state after block b.
NextState(s, b) == [Executed(s, b) EXCEPT !.height = s.height + 1]

-----------------------------------------------------------------------------
\* The working state of a node, as a state.
Work == [height |-> committed.height, params |-> params, bal |-> bal,
         supply |-> supply, macc |-> macc, donated |-> donated, prop |-> prop]

\* At every stage of a block the working state is what the function gives for
\* the stages done so far: however the block came to be executed.
WorkFollows ==
  /\ stage = "begin" =>
       Work = IF next = 1 THEN Base ELSE PaidOut(Base)
  /\ stage = "ante" => Work = Begun(Base)
  /\ stage = "msgs" =>
       Accepted(Begun(Base), exec) /\ Work = Charged(Begun(Base))
  /\ stage = "end" => Work = Delivered(Begun(Base), exec)
  /\ stage = "executed" => Work = Executed(Base, exec)

\* A stage of a block is a stage of some block.
ExecutesABlock == stage \in {"begin", "ante", "msgs", "end", "executed"} => exec # NoBlock

\* A block that submits a proposal is begun where none is open.
SubmitsInTurn ==
  /\ exec.tx = "submit" => ~Base.prop.open
  /\ decided.tx = "submit" => ~Base.prop.open
=============================================================================
