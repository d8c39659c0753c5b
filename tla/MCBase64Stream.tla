--------------------------- MODULE MCBase64Stream ---------------------------
(***************************************************************************)
(* Requests as the callers make them: everything, a size as the decrypting *)
(* stream asks for, or one character at a time.                            *)
(***************************************************************************)
EXTENDS Base64Stream

AsksFor(size, chars) == [size |-> size, chars |-> chars]

MCRequests ==
  {AsksFor(-1, -1), AsksFor(2, -1), AsksFor(3, -1), AsksFor(5, -1), AsksFor(2, 1)}
=============================================================================
