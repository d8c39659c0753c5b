------------------------------ MODULE MCKeyczart ------------------------------
(***************************************************************************)
(* Keyczart for TLC: three keys without collisions, two version numbers,   *)
(* and one or two processes.                                               *)
(***************************************************************************)
EXTENDS Keyczart, TLC

CONSTANTS k1, k2, k3, admin, other

MCKey == {k1, k2, k3}
MCHash == [k \in Key |-> k]
===============================================================================
