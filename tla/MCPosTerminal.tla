--------------------------- MODULE MCPosTerminal ---------------------------
(* PosTerminal with two items of the catalog: beer is age-restricted, and soy *)
(* milk recommends beer, where the shop recommends bananas.                   *)
EXTENDS PosTerminal

CONSTANTS beer, soy

MCPrice == [i \in Item |-> IF i = beer THEN 999 ELSE 229]
MCAgeRestricted == Item \cap {beer}
MCRecommends == [i \in Item |-> IF i = soy THEN MCAgeRestricted ELSE {}]
=============================================================================
