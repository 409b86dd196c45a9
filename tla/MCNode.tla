------------------------------- MODULE MCNode -------------------------------
(* A node over three blocks.  The sets below are the interesting inputs:    *)
(* parameters that mint, mint another denomination, are disabled, carry no  *)
(* amount, or pass Validate and cannot be minted.                           *)
EXTENDS Node

CONSTANTS blue, stake, bad

MCDenoms == {blue, stake}
MCBadDenoms == {bad}

Good     == NewParams(blue, 2, TRUE)
Other    == NewParams(stake, 1, TRUE)
Disabled == NewParams(blue, 1, FALSE)
NoAmount == NewParams(blue, NilInt, TRUE)
BadDenom == NewParams(bad, 1, TRUE)
Negative == NewParams(blue, -1, TRUE)

GenesisGood  == {Good, Disabled}
GenesisAny   == {Good, Disabled, NoAmount, ZeroParams, Negative, BadDenom}
UpdatesGood  == {Other, Disabled}
UpdatesAny   == {Other, BadDenom, Negative}

Supply == [d \in MCDenoms |-> IF d = blue THEN 4 ELSE 0]
FeeBlue == [d \in MCDenoms |-> IF d = blue THEN 1 ELSE 0]
=============================================================================
