----------------------------- MODULE MCCppKeyset -----------------------------
(***************************************************************************)
(* CppKeyset for TLC: the tool and one application.                        *)
(***************************************************************************)
EXTENDS CppKeyset, TLC

CONSTANTS k1, k2, h1, h2

MCKey == {k1, k2}
MCHashId == {h1, h2}
MCHash == k1 :> h1 @@ k2 :> h2
===============================================================================
