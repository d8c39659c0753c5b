------------------------------- MODULE Base64WS -------------------------------
(***************************************************************************)
(* Base64WSEncode and Base64WSDecode of util.py.  A group of three bytes   *)
(* becomes four characters, a last group of one or two bytes two or three; *)
(* there are no padding characters.  A character is abstract: the group it *)
(* comes from and its place in the encoding of that group.  Characters     *)
(* that do not make up one group decode to garbage.                        *)
(***************************************************************************)
EXTENDS Integers, Sequences

\* The i-th of the pieces of n that s is cut into.
Piece(s, n, i) ==
  SubSeq(s, n * (i - 1) + 1, IF n * i < Len(s) THEN n * i ELSE Len(s))

EncodedLen(n) == 4 * (n \div 3) + (IF n % 3 = 0 THEN 0 ELSE (n % 3) + 1)

Base64WSEncode(s) ==
  [i \in 1 .. EncodedLen(Len(s)) |->
     <<Piece(s, 3, ((i - 1) \div 4) + 1), ((i - 1) % 4) + 1>>]

\* Otherwise Base64DecodingError is raised.
CanDecode(c) == Len(c) % 4 # 1

DecodedLen(n) == 3 * (n \div 4) + (IF n % 4 = 0 THEN 0 ELSE (n % 4) - 1)

IsGroup(c) ==
  \A i \in DOMAIN c : c[i] = <<c[1][1], i>> /\ Len(c) = Len(c[1][1]) + 1

Base64WSDecode(c) ==
  [i \in 1 .. DecodedLen(Len(c)) |->
     LET group == Piece(c, 4, ((i - 1) \div 3) + 1)
     IN  IF IsGroup(group) THEN group[1][1][((i - 1) % 3) + 1] ELSE 0]
===============================================================================
