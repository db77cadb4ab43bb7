----------------------------- MODULE MCDiscovery -----------------------------
(* Three nodes, two of them with the same two pins.                           *)
EXTENDS Discovery, TLC

CONSTANTS a, b, c, manual, geo

MCPinsOf == a :> <<manual, geo>> @@ b :> <<manual, geo>> @@ c :> <<manual>>
MCSettings == {<<1, 2, {}>>, <<2, 3, {a}>>}
MCEast == {<<2, 3, {a}>>}
MCWest == {<<2, 2, {}>>}
=============================================================================
