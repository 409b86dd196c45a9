----------------------------- MODULE MCParamsWire -----------------------------
(* Denominations of 4, 121 and 128 bytes, so that a nested message has       *)
(* lengths on both sides of 127, where a length takes a second byte.         *)
EXTENDS ParamsWire, TLC

CONSTANTS blue, bad, long, empty, minus, zero, one, spelled, large, word, gov, user, noone,
          Unparsable, OutOfRange

MCLengthOf ==
  blue :> 4 @@ bad :> 121 @@ long :> 128 @@ empty :> 0 @@ minus :> 2 @@ zero :> 1 @@ one :> 1
    @@ spelled :> 2 @@ large :> 78 @@ word :> 5 @@ gov :> 46 @@ user :> 46 @@ noone :> 7

\* "01" is one, a number of 78 digits has more than 256 bits.
MCParseInt ==
  [t \in DOMAIN MCLengthOf |->
     CASE t = minus -> -1 [] t = zero -> 0 [] t \in {one, spelled} -> 1
       [] t = large -> OutOfRange [] OTHER -> Unparsable]
MCFormatInt == -1 :> minus @@ 0 :> zero @@ 1 :> one

MCTyped    == {one, spelled}
MCRequests == {<<>>, <<Text(7, word)>>}

\* Fields whose number has bit 10 set are not critical.
MCAdditions == {<<>>, <<Text(1031, word), Varint(1032, 1)>>}

\* Legal and illegal encodings of a message no generated code writes: fields
\* out of order, several times, in pieces, empty, unknown, in groups; a
\* boolean other than one; amounts spelled, unparsable, out of range, absent;
\* a wrong wire type, an unfinished group, a piece cut short.
Body(fields) == <<Text(1, gov), Sub(2, fields)>>
Plain == <<Text(1, blue), Text(2, one)>>
MCForeign ==
  { <<Sub(2, Plain), Text(1, gov)>>,
    <<Text(1, user), Text(1, gov), Sub(2, Plain)>>,
    <<Text(1, noone), Sub(2, Plain)>>,
    Body(<<Text(1, long), Text(2, zero)>> \o Plain \o <<Varint(3, 2)>>),
    Body(Plain \o <<Text(2, empty)>>),
    Body(<<Varint(3, 1), Varint(3, 0)>> \o Plain),
    <<Text(1, gov), Sub(2, <<Text(1, blue), Varint(3, 1)>>), Sub(2, <<Text(2, spelled)>>)>>,
    Body(<<Text(1, blue)>>), <<Text(1, gov)>>,
    Body(<<Text(1, blue), Text(2, large)>>), Body(<<Text(1, blue), Text(2, word)>>),
    Body(Plain \o <<Fixed64(1031)>>), Body(Plain \o <<Fixed64(9)>>),
    <<GroupStart(1033), Text(1, user), GroupEnd(1033)>> \o Body(Plain),
    Body(Plain) \o <<GroupStart(1033), Varint(1, 1)>>,
    Body(<<Varint(1, 1)>> \o Plain), Body(Plain) \o <<Unreadable>> }
=============================================================================
