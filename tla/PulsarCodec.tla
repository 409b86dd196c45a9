------------------------------ MODULE PulsarCodec ------------------------------
(***************************************************************************)
(* The messages of x/fixedmint as clients and the dependency injection     *)
(* write and read them: size, marshal, unmarshal and the reflection        *)
(* methods of api/bluechipchain/fixedmint/*.pulsar.go.                     *)
(*                                                                         *)
(* A message is a record of its fields and of the unknown fields it was    *)
(* read with.  An amount is a text, nobody parses it.  A pointer to a      *)
(* message is a set of at most one.  Unmarshal reads into a message that   *)
(* need not be empty; an error is the empty set.                           *)
(***************************************************************************)
EXTENDS Wire

Default == [denom |-> EmptyText, amount |-> EmptyText, enabled |-> FALSE,
            authority |-> EmptyText, params |-> {}]

NewParams  == [denom |-> EmptyText, amount |-> EmptyText, enabled |-> FALSE, unknown |-> <<>>]
NewMsg     == [authority |-> EmptyText, params |-> {}, unknown |-> <<>>]
NewWrapper == [params |-> {}, unknown |-> <<>>]      \* GenesisState, QueryParamsResponse
NewEmpty   == [unknown |-> <<>>]                     \* QueryParamsRequest, the Msg response
NewModule  == [authority |-> EmptyText, unknown |-> <<>>]

-----------------------------------------------------------------------------
\* Reflection: generic code (cloning, JSON, signers, flags) sees messages
\* through these methods only.

Has(m, f) == m[f] # Default[f]
Clear(m, f) == [m EXCEPT ![f] = Default[f]]
Get(m, f) == m[f]
Set(m, f, v) == [m EXCEPT ![f] = v]

\* A default for a scalar, an empty message for a message.
NewField(f) == IF f = "params" THEN {NewParams} ELSE Default[f]

\* A mutable reference to a nested message allocates it; scalars panic.
Mutable(m, f) == IF m[f] = {} THEN [m EXCEPT ![f] = NewField(f)] ELSE m

\* Mutant: the switch is not visited.
RangeOf_NotEnabled(m) ==
  {f \in DOMAIN m \cap DOMAIN Default : Has(m, f) /\ f # "enabled"}

\* Range visits the populated fields.
RangeOf(m) == {f \in DOMAIN m \cap DOMAIN Default : Has(m, f)}

\* proto.Merge into an empty message: each populated field, and what is
\* unknown.
Copied(m, empty) ==
  [f \in DOMAIN m |-> IF f = "unknown" \/ f \in RangeOf(m) THEN m[f] ELSE empty[f]]
Clone(m, empty) ==
  IF "params" \in DOMAIN m
    THEN [Copied(m, empty) EXCEPT !.params = {Copied(p, NewParams) : p \in @}]
    ELSE Copied(m, empty)

-----------------------------------------------------------------------------
\* Common to all messages: unknown fields are kept in the order in which they
\* are read, and written behind the known ones.
Kept(m, b, schema) == m.unknown \o UnknownOf(b, schema)

-----------------------------------------------------------------------------
ParamsSchema == <<2, 2, 0>>

ParamsSize(m) ==
  SizeOfText(m.denom) + SizeOfText(m.amount) + SizeOfBool(m.enabled) + BytesOf(m.unknown)

ParamsMarshal(m) ==
  Buffered(ParamsSize(m),
    OptText(1, m.denom) \o OptText(2, m.amount) \o OptBool(3, m.enabled) \o m.unknown)

ParamsUnmarshal(m, b) ==
  IF ~Legal(b, ParamsSchema) THEN {}
  ELSE {[denom   |-> LastText(b, 1, m.denom),
         amount  |-> LastText(b, 2, m.amount),
         enabled |-> LastBool(b, 3, m.enabled),
         unknown |-> Kept(m, b, ParamsSchema)]}

\* A nested Params is allocated by the first of its fields; each further one
\* is read into the same message.
Pointee(ps) == IF ps = {} THEN NewParams ELSE CHOOSE p \in ps : TRUE
SizeOfNested(ps) == IF ps = {} THEN 0 ELSE Prefixed(ParamsSize(Pointee(ps)))
OptNested(num, ps) == IF ps = {} THEN <<>> ELSE <<Sub(num, ParamsMarshal(Pointee(ps)))>>
ReadNested(ps, b, num) ==
  IF \E i \in At(b, num) : ParamsUnmarshal(NewParams, b[i].val.sub) = {} THEN {}
  ELSE {IF At(b, num) = {} THEN ps ELSE ParamsUnmarshal(Pointee(ps), Nested(b, num))}

-----------------------------------------------------------------------------
MsgUpdateParamsSchema == <<2, 2>>
MsgUpdateParamsSize(m) ==
  SizeOfText(m.authority) + SizeOfNested(m.params) + BytesOf(m.unknown)
MsgUpdateParamsMarshal(m) ==
  Buffered(MsgUpdateParamsSize(m),
    OptText(1, m.authority) \o OptNested(2, m.params) \o m.unknown)
MsgUpdateParamsUnmarshal(m, b) ==
  IF ~Legal(b, MsgUpdateParamsSchema) THEN {}
  ELSE {[authority |-> LastText(b, 1, m.authority), params |-> ps,
         unknown |-> Kept(m, b, MsgUpdateParamsSchema)] : ps \in ReadNested(m.params, b, 2)}

MsgUpdateParamsResponseSize(m) == BytesOf(m.unknown)
MsgUpdateParamsResponseMarshal(m) == Buffered(MsgUpdateParamsResponseSize(m), m.unknown)
MsgUpdateParamsResponseUnmarshal(m, b) ==
  IF Legal(b, <<>>) THEN {[unknown |-> Kept(m, b, <<>>)]} ELSE {}

-----------------------------------------------------------------------------
GenesisStateSize(m) == SizeOfNested(m.params) + BytesOf(m.unknown)
GenesisStateMarshal(m) ==
  Buffered(GenesisStateSize(m), OptNested(1, m.params) \o m.unknown)
GenesisStateUnmarshal(m, b) ==
  IF ~Legal(b, <<2>>) THEN {}
  ELSE {[params |-> ps, unknown |-> Kept(m, b, <<2>>)] : ps \in ReadNested(m.params, b, 1)}

-----------------------------------------------------------------------------
QueryParamsRequestSize(m) == BytesOf(m.unknown)
QueryParamsRequestMarshal(m) == Buffered(QueryParamsRequestSize(m), m.unknown)
QueryParamsRequestUnmarshal(m, b) ==
  IF Legal(b, <<>>) THEN {[unknown |-> Kept(m, b, <<>>)]} ELSE {}

QueryParamsResponseSize(m) == SizeOfNested(m.params) + BytesOf(m.unknown)
QueryParamsResponseMarshal(m) ==
  Buffered(QueryParamsResponseSize(m), OptNested(1, m.params) \o m.unknown)
QueryParamsResponseUnmarshal(m, b) ==
  IF ~Legal(b, <<2>>) THEN {}
  ELSE {[params |-> ps, unknown |-> Kept(m, b, <<2>>)] : ps \in ReadNested(m.params, b, 1)}

-----------------------------------------------------------------------------
\* The module's entry in the application configuration.
ModuleSize(m) == SizeOfText(m.authority) + BytesOf(m.unknown)
ModuleMarshal(m) == Buffered(ModuleSize(m), OptText(1, m.authority) \o m.unknown)
ModuleUnmarshal(m, b) ==
  IF ~Legal(b, <<2>>) THEN {}
  ELSE {[authority |-> LastText(b, 1, m.authority), unknown |-> Kept(m, b, <<2>>)]}
=============================================================================
