--------------------------- MODULE MCGenericKeyczar ---------------------------
(***************************************************************************)
(* GenericKeyczar for TLC: three keys, two of which share a hash           *)
(* identifier, three version numbers, a valid and an invalid size for      *)
(* every type.                                                             *)
(***************************************************************************)
EXTENDS GenericKeyczar, TLC

CONSTANTS k1, k2, k3, h1, h2

MCKey == {k1, k2, k3}
MCHashId == {h1, h2}
MCHash == k1 :> h1 @@ k2 :> h1 @@ k3 :> h2
MCSizes == {256, 1024}
===============================================================================
