---------------------------- MODULE MCStreamCache ----------------------------
(***************************************************************************)
(* StreamCache for TLC: two threads, two keys with one identifier, and one *)
(* stream more than can be in use.                                         *)
(***************************************************************************)
EXTENDS StreamCache, TLC

CONSTANTS k1, k2

MCBucket == <<k1, k2>>
MCStream == 1 .. 7
Symmetry == Permutations(Thread)
===============================================================================
