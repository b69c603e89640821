-------------------------- MODULE MCSessionClient --------------------------
(* SessionClient with two tabs, one of them with two requests in flight,      *)
(* which are interchangeable.                                                *)
EXTENDS SessionClient, TLC

CONSTANTS left, right, c1, c2, c3

MCTabOf == [c \in Call |-> IF c = c3 THEN right ELSE left]
Interchangeable == Permutations({c1, c2})
=============================================================================
