---------------------------- MODULE MCCryptStream ----------------------------
(***************************************************************************)
(* Blocks of 4 bytes, signatures of 5 and headers of 2: as in the code, a  *)
(* header is at most half a block, and a signature is longer than a block  *)
(* and not a multiple of it.                                               *)
(***************************************************************************)
EXTENDS CryptStream

\* read() as much as there is, or one byte at a time.
MCRequests == {-1, 1}
==============================================================================
