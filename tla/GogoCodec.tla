------------------------------- MODULE GogoCodec -------------------------------
(***************************************************************************)
(* The messages of x/fixedmint as the node writes and reads them: Marshal, *)
(* Size, Unmarshal and Equal of x/fixedmint/types/*.pb.go.                 *)
(*                                                                         *)
(* The values are those of MintParams: an amount is a number or NilInt.    *)
(* Unmarshal reads into a message that need not be empty; its result is    *)
(* the set of that message, or the empty set where it returns an error.    *)
(***************************************************************************)
EXTENDS MintParams, Wire

CONSTANTS
  FormatInt,  \* number -> its decimal text
  ParseInt    \* text -> the number big.Int.UnmarshalText reads, or Unparsable

ASSUME TextAssumption ==
  /\ EmptyDenom = EmptyText
  /\ AllDenoms \subseteq Texts
  /\ DOMAIN ParseInt = Texts
  /\ \A i \in Ints : FormatInt[i] \in Texts \ {EmptyText} /\ ParseInt[FormatInt[i]] = i

\* math.Int: a nil one is written as zero; empty data leaves the old value; a
\* text that is no number, or one of more than 256 bits, is an error.
IntText(a)  == FormatInt[IF a = NilInt THEN 0 ELSE a]
IntReads(t) == t = EmptyText \/ ParseInt[t] \in Ints

-----------------------------------------------------------------------------
\* Params.

ParamsSchema == <<2, 2, 0>>

\* Mutant: a zero amount is not counted.
ParamsSize_OmitsZero(p) ==
  SizeOfText(p.denom)
    + (IF p.amount = 0 THEN 0 ELSE Prefixed(LengthOf[IntText(p.amount)]))
    + SizeOfBool(p.enabled)

ParamsSize(p) ==
  SizeOfText(p.denom) + Prefixed(LengthOf[IntText(p.amount)]) + SizeOfBool(p.enabled)

\* The amount is not nullable and always written.
ParamsMarshal(p) ==
  Buffered(ParamsSize(p),
    OptText(1, p.denom) \o <<Text(2, IntText(p.amount))>> \o OptBool(3, p.enabled))

ParamsUnmarshal(p, b) ==
  LET amounts == {i \in At(b, 2) : b[i].val.text # EmptyText}
  IN IF ~Legal(b, ParamsSchema) \/ \E i \in At(b, 2) : ~IntReads(b[i].val.text) THEN {}
     ELSE {NewParams(LastText(b, 1, p.denom),
             IF amounts = {} THEN p.amount ELSE ParseInt[b[Max(amounts)].val.text],
             LastBool(b, 3, p.enabled))}

\* Int.Equal of one nil amount dereferences it, of two it does not.
ParamsEqual(p, q) ==
  CASE p.denom # q.denom -> "different"
    [] p.denom = q.denom /\ (p.amount = NilInt) # (q.amount = NilInt) -> "panic"
    [] OTHER -> IF p = q THEN "equal" ELSE "different"

-----------------------------------------------------------------------------
\* The messages that embed Params.

ReadParams(p, b, num) ==
  IF \E i \in At(b, num) : ParamsUnmarshal(ZeroParams, b[i].val.sub) = {} THEN {}
  ELSE ParamsUnmarshal(p, Nested(b, num))

MsgUpdateParams(authority, p) == [authority |-> authority, params |-> p]
MsgUpdateParamsSize(m) ==
  SizeOfText(m.authority) + Prefixed(ParamsSize(m.params))
MsgUpdateParamsMarshal(m) ==
  Buffered(MsgUpdateParamsSize(m),
    OptText(1, m.authority) \o <<Sub(2, ParamsMarshal(m.params))>>)

\* Mutant: fields that are absent keep the default parameters.
MsgUpdateParamsUnmarshal_IntoDefault(b) ==
  IF ~Legal(b, <<2, 2>>) THEN {}
  ELSE {MsgUpdateParams(LastText(b, 1, EmptyText), p) : p \in ReadParams(DefaultParams, b, 2)}

MsgUpdateParamsUnmarshal(b) ==
  IF ~Legal(b, <<2, 2>>) THEN {}
  ELSE {MsgUpdateParams(LastText(b, 1, EmptyText), p) : p \in ReadParams(ZeroParams, b, 2)}

GenesisStateSize(g) == Prefixed(ParamsSize(g.params))
GenesisStateMarshal(g) == Buffered(GenesisStateSize(g), <<Sub(1, ParamsMarshal(g.params))>>)
GenesisStateUnmarshal(b) ==
  IF ~Legal(b, <<2>>) THEN {} ELSE {[params |-> p] : p \in ReadParams(ZeroParams, b, 1)}

QueryParamsResponseSize(r) == Prefixed(ParamsSize(r.params))
QueryParamsResponseMarshal(r) ==
  Buffered(QueryParamsResponseSize(r), <<Sub(1, ParamsMarshal(r.params))>>)
QueryParamsResponseUnmarshal(b) ==
  IF ~Legal(b, <<2>>) THEN {} ELSE {[params |-> p] : p \in ReadParams(ZeroParams, b, 1)}

\* The messages without fields.
QueryParamsRequestMarshal == Buffered(0, <<>>)
QueryParamsRequestUnmarshal(b) == IF Legal(b, <<>>) THEN {[params |-> {}]} ELSE {}
MsgUpdateParamsResponseMarshal == Buffered(0, <<>>)
MsgUpdateParamsResponseUnmarshal(b) == IF Legal(b, <<>>) THEN {[params |-> {}]} ELSE {}
=============================================================================
