---------------------------- MODULE MCKeyRotation ----------------------------
(***************************************************************************)
(* KeyRotation for TLC: three keys, two of which share a hash identifier,  *)
(* three version numbers, and three parties that are at most one or two    *)
(* commands behind.                                                        *)
(***************************************************************************)
EXTENDS KeyRotation, TLC

CONSTANTS k1, k2, k3, h1, h2

MCKey == {k1, k2, k3}
MCHashId == {h1, h2}
MCHash == k1 :> h1 @@ k2 :> h1 @@ k3 :> h2
MCPaces == {1, 2}
Symmetry == Permutations(Party)
===============================================================================
