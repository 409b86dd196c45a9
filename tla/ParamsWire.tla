------------------------------ MODULE ParamsWire ------------------------------
(***************************************************************************)
(* The parameters of x/fixedmint as bytes: in the store, in messages and   *)
(* proposals, in queries and their answers, in a genesis file.             *)
(*                                                                         *)
(* Two sets of generated code write and read them, GogoCodec in the node   *)
(* and in clients built on the module's types, PulsarCodec in clients      *)
(* built on the api module and where the node reads signers and its own    *)
(* configuration.  Other encoders send what is legal and unusual.  The     *)
(* transaction decoder, x/gov and jsonpb are external.                     *)
(***************************************************************************)
EXTENDS GogoCodec

CONSTANTS
  Gov,            \* the address of the governance module
  User,           \* the address of an account with a key
  Configurations, \* values of modulev1.Module.Authority: "" or an address
  Foreign,        \* MsgUpdateParams as other encoders write it
  Typed,          \* what a user of a client types for an amount
  Requests,       \* QueryParamsRequest as clients write it
  Additions,      \* unknown fields a server of a later version appends
  NoProposal

\* Addresses and what is typed are texts.  A piece of number 2 with a length
\* is a nested message as far as it is read as one, and a piece of number 1
\* in it a denomination.  What a later server adds can be skipped and has
\* none of this version's field numbers.
IsBytes(b) == b \in Seq({b[i] : i \in DOMAIN b})

ASSUME WireAssumption ==
  /\ {Gov, User} \cup Typed \subseteq Texts
  /\ NoProposal \notin Params
  /\ \A b \in Foreign : IsBytes(b) /\ \A i \in DOMAIN b :
       b[i].num = 2 /\ b[i].wt = 2 =>
         LET sub == b[i].val.sub
         IN /\ IsBytes(sub)
            /\ \A k \in DOMAIN sub :
                 sub[k].num = 1 /\ sub[k].wt = 2 => sub[k].val.text \in AllDenoms
  /\ \A b \in Additions :
       /\ IsBytes(b) /\ Legal(b, <<>>)
       /\ \A i \in DOMAIN b : b[i].num \in Nat /\ b[i].len \in Nat
       /\ \A i \in TopLevel(b) : b[i].num # 1

P == INSTANCE PulsarCodec

VARIABLES
  authority, \* what the keeper compares messages with
  kv,        \* the bytes under ParamsKey, in a set of at most one
  prop,      \* a proposal: the value its author meant, the bytes stored, the
             \* value clients on the api module show of them
  client     \* what one client holds: nothing, a draft, an answer

vars == <<authority, kv, prop, client>>

Idle            == [kind |-> "idle"]
Draft(m)        == [kind |-> "draft", msg |-> m]
Reply(b, was)   == [kind |-> "reply", bytes |-> b, was |-> was]
Done(meant, p, b)  == [kind |-> "done", meant |-> meant, applied |-> p, bytes |-> b]

-----------------------------------------------------------------------------
\* The only element of a decoder's result.
The(S) == CHOOSE x \in S : TRUE

\* The configuration reaches ProvideModule through an Any: the api module
\* writes it, and reads it back.  Without an authority it is governance.
Provided(configured) ==
  LET any == P!ModuleMarshal([P!NewModule EXCEPT !.authority = configured])
      config == The(P!ModuleUnmarshal(P!NewModule, any))
  IN IF config.authority # EmptyText THEN config.authority ELSE Gov

\* GetParams unmarshals into the zero Params; SetParams marshals.
GetParams == IF kv = {} THEN ZeroParams ELSE The(ParamsUnmarshal(ZeroParams, The(kv)))
SetParams(p) == kv' = {ParamsMarshal(p)}

\* A pulsar message's Params as the node would read its text.
Shown(m) ==
  LET q == P!Pointee(P!Get(m, "params")) IN NewParams(q.denom, ParseInt[q.amount], q.enabled)
Pulsar(b) == P!MsgUpdateParamsUnmarshal(P!NewMsg, b)

Proposal(meant, raw) == [meant |-> meant, raw |-> raw, shown |-> Shown(The(Pulsar(raw)))]

-----------------------------------------------------------------------------
Init ==
  /\ authority \in {Provided(c) : c \in Configurations}
  /\ kv = {} /\ prop = NoProposal /\ client = Idle

\* InitGenesis of what jsonpb reads from a file: an absent amount is nil.
InitGenesis(p) ==
  /\ kv = {}
  /\ SetParams(p)
  /\ UNCHANGED <<authority, prop, client>>

\* ExportGenesis and InitGenesis of the new chain; x/gov does the same with
\* the message of a proposal.
ExportGenesis ==
  /\ kv # {}
  /\ SetParams(GetParams)
  /\ prop' = IF prop = NoProposal THEN NoProposal
             ELSE Proposal(prop.meant,
                    MsgUpdateParamsMarshal(The(MsgUpdateParamsUnmarshal(prop.raw))))
  /\ UNCHANGED <<authority, client>>

\* The transaction decoder refuses unknown fields, except those with bit 10
\* of the number set, in the message and in what is nested in it.
Critical(b, schema) ==
  \E i \in TopLevel(b) : b[i].num \notin DOMAIN schema /\ (b[i].num \div 1024) % 2 = 0
Refused(b) ==
  \/ ~Legal(b, <<2, 2>>) \/ Critical(b, <<2, 2>>)
  \/ \E i \in At(b, 2) : Critical(b[i].val.sub, ParamsSchema)

\* Mutant: the message is not validated before it is stored.
Received_Unchecked(b, signer) ==
  {m \in MsgUpdateParamsUnmarshal(b) :
     /\ ~Refused(b) /\ m.authority \in {Gov, User}
     /\ \E s \in Pulsar(MsgUpdateParamsMarshal(m)) : P!Get(s, "authority") = signer}

\* The messages the node makes of bytes it does not refuse: ValidateBasic
\* passes, and the one signer, which is read from the message as the node
\* encodes it again, is the account that must sign.
Received(b, signer) ==
  {m \in MsgUpdateParamsUnmarshal(b) :
     /\ ~Refused(b)
     /\ m.authority \in {Gov, User} /\ Validate(m.params) = "ok"
     /\ \E s \in Pulsar(MsgUpdateParamsMarshal(m)) : P!Get(s, "authority") = signer}

\* The messages that arrive, as what a proposal stores and as what a
\* transaction of its own carries, by the account that signs.
Arrivals(meant, b) ==
  [s \in {Gov, User} |->
     {[msg |-> m, prop |-> Proposal(meant, MsgUpdateParamsMarshal(m))] : m \in Received(b, s)}]

\* MsgSubmitProposal with the message inside: governance must be its signer.
SubmitProposal(arrivals) ==
  /\ kv # {} /\ prop = NoProposal
  /\ \E r \in arrivals[Gov] : prop' = r.prop
  /\ client' = Idle
  /\ UNCHANGED <<authority, kv>>

\* The message in a transaction of its own, signed by the user: UpdateParams
\* compares the authority and answers with an empty response.
UpdateParams(arrivals) ==
  /\ kv # {}
  /\ \E r \in arrivals[User] :
       /\ r.msg.authority = authority
       /\ SetParams(r.msg.params)
       /\ client' = Done(r.prop.meant, r.msg.params, MsgUpdateParamsResponseMarshal)
  /\ UNCHANGED <<authority, prop>>

Send(arrivals) == SubmitProposal(arrivals) \/ UpdateParams(arrivals)

\* A client on the module's types fills in a struct.
FilledIn(a, p) == Arrivals({Stored(p)}, MsgUpdateParamsMarshal(MsgUpdateParams(a, p)))
GogoArrivals == {FilledIn(a, p) : a \in {Gov, User}, p \in Params}
SendGogo == client = Idle /\ \E r \in GogoArrivals : Send(r)

\* What the author of foreign bytes means is not known.
ForeignArrivals == {Arrivals({}, b) : b \in Foreign}
SendForeign == client = Idle /\ \E r \in ForeignArrivals : Send(r)

\* A client on the api module edits a message by reflection, field by field.
Begin == client = Idle /\ client' = Draft(P!NewMsg) /\ UNCHANGED <<authority, kv, prop>>

With(m, f, v) == [m EXCEPT !.params = {P!Set(q, f, v) : q \in @}]

Edited(m) ==
     {P!Set(m, "authority", a) : a \in {Gov, User}}
  \cup {P!Clear(m, f) : f \in P!RangeOf(m)}
  \cup LET n == P!Mutable(m, "params")
       IN {With(n, "denom", d) : d \in Denoms} \cup {With(n, "amount", t) : t \in Typed}
            \cup {With(n, "enabled", v) : v \in BOOLEAN}

Edit ==
  /\ client.kind = "draft"
  /\ \E m \in Edited(client.msg) : client' = Draft(m)
  /\ UNCHANGED <<authority, kv, prop>>

SendPulsar ==
  /\ client.kind = "draft"
  /\ Send(Arrivals({Shown(client.msg)}, P!MsgUpdateParamsMarshal(client.msg)))

Close == client # Idle /\ client' = Idle /\ UNCHANGED <<authority, kv, prop>>

\* The proposal passes: the stored message is read and handled.  A wrong
\* authority fails it.
Pass ==
  /\ prop # NoProposal
  /\ \E m \in MsgUpdateParamsUnmarshal(prop.raw) :
       IF m.authority = authority THEN SetParams(m.params) ELSE UNCHANGED kv
  /\ prop' = NoProposal
  /\ UNCHANGED <<authority, client>>

Fail == prop # NoProposal /\ prop' = NoProposal /\ UNCHANGED <<authority, kv, client>>

\* The query server; a server of a later version adds fields to its answer.
QueryParams(req, added) ==
  /\ client = Idle /\ kv # {}
  /\ QueryParamsRequestUnmarshal(req) # {}
  /\ client' = Reply(QueryParamsResponseMarshal([params |-> GetParams]) \o added, GetParams)
  /\ UNCHANGED <<authority, kv, prop>>

Next ==
  \/ \E p \in Params : InitGenesis(p)
  \/ ExportGenesis
  \/ SendGogo \/ SendForeign \/ SendPulsar
  \/ Begin \/ Edit \/ Close
  \/ Pass \/ Fail
  \/ \E req \in Requests, added \in Additions : QueryParams(req, added)

Spec == Init /\ [][Next]_vars

-----------------------------------------------------------------------------
(* Properties.                                                             *)

\* Marshal fills a buffer of a size it computed before, with lengths in front
\* of texts and of messages: one wrong count and the bytes are unreadable, or
\* the next reader sees another value.  What the node has stored is read by
\* both sets of generated code and written again by both byte for byte, alone
\* and inside the genesis state and a message, a copy made by reflection too.
\* Two values are Equal exactly if their bytes are.
CodecsAgree ==
  /\ \A b \in kv :
       LET g == [params |-> GetParams]
           bz == GenesisStateMarshal(g)
       IN /\ {ParamsMarshal(p) : p \in ParamsUnmarshal(ZeroParams, b)} = kv
          /\ {P!ParamsMarshal(q) : q \in P!ParamsUnmarshal(P!NewParams, b)} = kv
          /\ GenesisStateUnmarshal(bz) = {g}
          /\ {P!GenesisStateMarshal(m) : m \in P!GenesisStateUnmarshal(P!NewWrapper, bz)} = {bz}
  /\ prop # NoProposal =>
       /\ {P!MsgUpdateParamsMarshal(P!Clone(m, P!NewMsg)) : m \in Pulsar(prop.raw)} = {prop.raw}
       /\ \A m \in MsgUpdateParamsUnmarshal(prop.raw) :
            ParamsEqual(GetParams, m.params) =
              IF kv = {ParamsMarshal(m.params)} THEN "equal" ELSE "different"

\* A client asks for a value and the node applies one; between them lie two
\* encoders, two decoders, the unknown fields dropped and the message encoded
\* again.  The clients of this repository get the value they meant, whatever
\* they set, cleared and left out.
MeantIsApplied ==
  /\ prop # NoProposal =>
       \A m \in MsgUpdateParamsUnmarshal(prop.raw) : prop.meant \subseteq {m.params}
  /\ client.kind = "done" => client.meant \subseteq {Stored(client.applied)}

\* Every client reads the value that was in force from the answer to a query,
\* also if a later server added fields, and one on the api module can pass
\* the answer on unchanged, by reflection too.
RepliesAgree ==
  /\ client.kind = "reply" =>
       /\ QueryParamsResponseUnmarshal(client.bytes) = {[params |-> client.was]}
       /\ LET ms == P!QueryParamsResponseUnmarshal(P!NewWrapper, client.bytes)
          IN /\ {Shown(m) : m \in ms} = {client.was}
             /\ {P!QueryParamsResponseMarshal(P!Clone(m, P!NewWrapper)) : m \in ms}
                  = {client.bytes}
  /\ client.kind = "done" =>
       /\ MsgUpdateParamsResponseUnmarshal(client.bytes) # {}
       /\ {P!MsgUpdateParamsResponseMarshal(m) :
            m \in P!MsgUpdateParamsResponseUnmarshal(P!NewEmpty, client.bytes)} = {client.bytes}

\* The bytes implement a register of values: what is enacted is what clients
\* on the api module showed of the stored proposal, every value in force but
\* the first passed Validate, and an export and import changes nothing.
EnactableParams == ValidParams \cap StorableParams
Register == INSTANCE ParamsRegister WITH
  Values <- StorableParams, Enactable <- EnactableParams,
  Nothing <- NoProposal,
  inForce <- IF kv = {} THEN NoProposal ELSE GetParams,
  announced <- IF prop = NoProposal THEN NoProposal ELSE prop.shown
RegisterSpec == Register!Spec
=============================================================================
