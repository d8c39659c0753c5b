-------------------------- MODULE Base64StreamProofs --------------------------
(***************************************************************************)
(* Proofs about the incremental Base64 streams: the writer's text is the   *)
(* encoding of what was written, and the reader gives a beginning of it    *)
(* back and never much more than it was asked for, for every number of     *)
(* bytes, every cut of the stream into pieces and every set of requests    *)
(* that obeys the conditions stated.                                       *)
(*                                                                         *)
(* The application writes the bytes 1, 2, 3, ..., so that every buffer     *)
(* holds a run of consecutive numbers.  What Base64WSEncode and            *)
(* Base64WSDecode make of such runs is shown first.                        *)
(***************************************************************************)
EXTENDS Base64Stream, SequenceTheorems, TLAPS

(***************************************************************************)
(* The bytes from a + 1 to b, the ones the application wrote in a row.     *)
(***************************************************************************)
Span(a, b) == [i \in 1 .. b - a |-> a + i]

LEMMA SpanFacts ==
  ASSUME NEW a \in Nat, NEW b \in Nat, a <= b
  PROVE  /\ Span(a, b) \in Seq(Nat) /\ Len(Span(a, b)) = b - a
         /\ \A i \in 1 .. b - a : Span(a, b)[i] = a + i
BY DEF Span

LEMMA SpanCat ==
  ASSUME NEW a \in Nat, NEW b \in Nat, NEW c \in Nat, a <= b, b <= c
  PROVE  Span(a, b) \o Span(b, c) = Span(a, c)
BY DEF Span

LEMMA SpanStart ==
  ASSUME NEW b \in Nat, NEW c \in Nat, b <= c
  PROVE  Span(0, b) \o Span(b, c) = Span(0, c)
BY DEF Span

LEMMA SpanRest ==
  ASSUME NEW a \in Nat, NEW b \in Nat, NEW c \in Nat, a <= b, b <= c
  PROVE  SubSeq(Span(a, c), b - a + 1, c - a) = Span(b, c)
<1> PICK p \in Nat, q \in Nat : p = b - a /\ q = c - a /\ p <= q /\ b = a + p /\ c = a + q
  OBVIOUS
<1>1. SubSeq(Span(a, c), p + 1, q) = Span(b, c)
  BY DEF Span
<1> QED BY <1>1

\* A piece of a sequence.
LEMMA CutFacts ==
  ASSUME NEW S, NEW s \in Seq(S), NEW a \in Nat, NEW b \in Nat, a <= b, b <= Len(s)
  PROVE  /\ SubSeq(s, a + 1, b) \in Seq(S) /\ Len(SubSeq(s, a + 1, b)) = b - a
         /\ \A i \in 1 .. b - a : SubSeq(s, a + 1, b)[i] = s[a + i]
OBVIOUS

\* Two pieces in a row, the second from b to d, cut again at c.
IsCut(S, s, a, b, c, d) ==
  /\ s \in Seq(S)
  /\ a \in Nat /\ b \in Nat /\ c \in Nat /\ d \in Nat
  /\ a <= b /\ b <= d /\ a <= c /\ c <= d /\ d <= Len(s)

CutsWell(s, a, b, c, d) ==
  /\ SubSeq(s, a + 1, b) \o SubSeq(s, b + 1, d) = SubSeq(s, a + 1, d)
  /\ Len(SubSeq(s, a + 1, d)) = d - a
  /\ SubSeq(SubSeq(s, a + 1, d), 1, c - a) = SubSeq(s, a + 1, c)
  /\ SubSeq(SubSeq(s, a + 1, d), c - a + 1, d - a) = SubSeq(s, c + 1, d)

LEMMA CutAgain ==
  ASSUME NEW S, NEW s, NEW a, NEW b, NEW c, NEW d, IsCut(S, s, a, b, c, d)
  PROVE  CutsWell(s, a, b, c, d)
<1> USE DEF IsCut
<1>1. SubSeq(s, a + 1, b) \o SubSeq(s, b + 1, d) = SubSeq(s, a + 1, d)
  OBVIOUS
<1>2. Len(SubSeq(s, a + 1, d)) = d - a
  OBVIOUS
<1>3. SubSeq(SubSeq(s, a + 1, d), 1, c - a) = SubSeq(s, a + 1, c)
  OBVIOUS
<1>4. SubSeq(SubSeq(s, a + 1, d), c - a + 1, d - a) = SubSeq(s, c + 1, d)
  OBVIOUS
<1> QED BY <1>1, <1>2, <1>3, <1>4 DEF CutsWell

(***************************************************************************)
(* The characters of an encoding.  The group of a character starts at a    *)
(* multiple of three bytes; the last one may be shorter.                   *)
(***************************************************************************)
GroupEnd(b, a) == IF a + 3 < b THEN a + 3 ELSE b

CharAt(a, b, i) ==
  <<Span(a + 3 * ((i - 1) \div 4), GroupEnd(b, a + 3 * ((i - 1) \div 4))), ((i - 1) % 4) + 1>>

Chars == Seq(Nat) \X (1 .. 4)

\* The number of characters, for whole groups and what is left.
LEMMA EncodedLenFacts ==
  ASSUME NEW k \in Nat, NEW m \in Nat, NEW b, b = 3 * k + m, NEW a, a = 3 * k
  PROVE  /\ EncodedLen(a) = 4 * k
         /\ EncodedLen(b) \in Nat /\ EncodedLen(m) \in Nat
         /\ EncodedLen(b) = 4 * k + EncodedLen(m)
BY DEF EncodedLen

IsCode(e, a, b) ==
  /\ e \in Seq(Chars)
  /\ Len(e) = EncodedLen(b - a)
  /\ \A i \in 1 .. EncodedLen(b - a) : e[i] = CharAt(a, b, i)

\* Base64WSEncode of consecutive bytes, character by character.
LEMMA EncodeFacts ==
  ASSUME NEW a \in Nat, NEW b \in Nat, a <= b
  PROVE  IsCode(Base64WSEncode(Span(a, b)), a, b)
<1>n. PICK n \in Nat : n = b - a
  OBVIOUS
<1>0. PICK s : s = Span(a, b)
  OBVIOUS
<1>1. Len(s) = n
  BY <1>0, <1>n, SpanFacts
<1>a. PICK k \in Nat : k = EncodedLen(n)
  BY DEF EncodedLen
<1>2. PICK e : e = Base64WSEncode(s)
  OBVIOUS
<1>3. e = [i \in 1 .. k |-> <<Piece(s, 3, ((i - 1) \div 4) + 1), ((i - 1) % 4) + 1>>]
  BY <1>1, <1>2, <1>a DEF Base64WSEncode
<1>4. ASSUME NEW i \in 1 .. k PROVE e[i] = CharAt(a, b, i) /\ CharAt(a, b, i) \in Chars
  <2>1. PICK g \in Nat : g = (i - 1) \div 4
    OBVIOUS
  <2>2. 3 * g < b - a /\ (i - 1) % 4 \in 0 .. 3
    BY <1>n, <1>a, <2>1 DEF EncodedLen
  <2>3. PICK d \in Nat : d = GroupEnd(b, a + 3 * g) /\ a + 3 * g <= d /\ d <= b
    BY <2>2 DEF GroupEnd
  <2>4. PICK p \in Nat : p = 3 * g
    OBVIOUS
  <2>5. PICK q \in Nat : q = d - a
    BY <2>3
  <2>6. Piece(s, 3, g + 1) = SubSeq(s, p + 1, q)
    BY <1>n, <1>1, <2>2, <2>3, <2>4, <2>5 DEF Piece, GroupEnd
  <2>7. PICK c \in Nat : c = a + p
    OBVIOUS
  <2>8. SubSeq(Span(a, b), p + 1, q) = Span(c, d)
    <3>1. p <= q /\ a + q <= b /\ d = a + q
      BY <2>3, <2>4, <2>5
    <3> QED BY <2>7, <3>1 DEF Span
  <2>9. Span(c, d) \in Seq(Nat)
    BY <2>3, <2>4, <2>7, SpanFacts
  <2>10. CharAt(a, b, i) = <<Span(c, d), ((i - 1) % 4) + 1>>
    BY <2>1, <2>3, <2>4, <2>7 DEF CharAt
  <2>11. e[i] = <<Span(c, d), ((i - 1) % 4) + 1>>
    BY <1>0, <1>3, <2>1, <2>6, <2>8
  <2> QED BY <2>2, <2>9, <2>10, <2>11 DEF Chars
<1>5. e \in Seq(Chars) /\ Len(e) = k
  <2>1. e \in [1 .. k -> Chars]
    BY <1>3, <1>4
  <2> QED BY <2>1
<1> QED BY <1>n, <1>0, <1>2, <1>a, <1>4, <1>5 DEF IsCode

\* What is encoded after whole groups is appended to their encoding.
LEMMA EncodeCat ==
  ASSUME NEW k \in Nat, NEW a \in Nat, a = 3 * k, NEW b \in Nat, a <= b
  PROVE  Base64WSEncode(Span(0, a)) \o Base64WSEncode(Span(a, b)) = Base64WSEncode(Span(0, b))
<1>1. PICK s : s = Base64WSEncode(Span(0, a))
  OBVIOUS
<1>2. PICK t : t = Base64WSEncode(Span(a, b))
  OBVIOUS
<1>3. PICK u : u = Base64WSEncode(Span(0, b))
  OBVIOUS
<1>m. PICK m \in Nat : m = b - a
  OBVIOUS
<1>7. PICK x \in Nat, y \in Nat :
        x = EncodedLen(m) /\ y = EncodedLen(b) /\ y = 4 * k + x /\ EncodedLen(a) = 4 * k
  BY <1>m, EncodedLenFacts
<1>4. s \in Seq(Chars) /\ Len(s) = 4 * k /\ \A i \in 1 .. 4 * k : s[i] = CharAt(0, a, i)
  <2>1. IsCode(s, 0, a)
    BY <1>1, EncodeFacts
  <2>2. EncodedLen(a - 0) = 4 * k
    BY <1>7, a - 0 = a
  <2> QED BY <2>1, <2>2 DEF IsCode
<1>5. t \in Seq(Chars) /\ Len(t) = x /\ \A i \in 1 .. x : t[i] = CharAt(a, b, i)
  <2>1. IsCode(t, a, b)
    BY <1>2, EncodeFacts
  <2> QED BY <1>m, <1>7, <2>1 DEF IsCode
<1>6. u \in Seq(Chars) /\ Len(u) = y /\ \A i \in 1 .. y : u[i] = CharAt(0, b, i)
  <2>1. IsCode(u, 0, b)
    BY <1>3, EncodeFacts
  <2>2. EncodedLen(b - 0) = y
    BY <1>7, b - 0 = b
  <2> QED BY <2>1, <2>2 DEF IsCode
<1>8. ASSUME NEW i \in 1 .. 4 * k PROVE CharAt(0, a, i) = CharAt(0, b, i)
  <2>1. GroupEnd(a, 0 + 3 * ((i - 1) \div 4)) = GroupEnd(b, 0 + 3 * ((i - 1) \div 4))
    BY DEF GroupEnd
  <2> QED BY <2>1 DEF CharAt
<1>9. ASSUME NEW i \in 1 .. x, NEW j \in Nat, j = 4 * k + i PROVE CharAt(a, b, i) = CharAt(0, b, j)
  <2>1. a + 3 * ((i - 1) \div 4) = 0 + 3 * ((j - 1) \div 4)
    BY <1>9
  <2>2. (i - 1) % 4 = (j - 1) % 4
    BY <1>9
  <2> QED BY <2>1, <2>2 DEF CharAt
<1>10. s \o t = u
  <2>1. s \o t \in Seq(Chars) /\ Len(s \o t) = Len(u)
    BY <1>4, <1>5, <1>6, <1>7
  <2>2. ASSUME NEW j \in 1 .. y PROVE (s \o t)[j] = u[j]
    <3>1. CASE j <= 4 * k
      BY <1>4, <1>5, <1>6, <1>7, <1>8, <3>1
    <3>2. CASE j > 4 * k
      <4>1. PICK i \in 1 .. x : j = 4 * k + i
        BY <1>7, <3>2
      <4>2. (s \o t)[j] = t[i]
        BY <1>4, <1>5, <4>1
      <4> QED BY <1>5, <1>6, <1>9, <4>1, <4>2
    <3>3. j <= 4 * k \/ j > 4 * k
      OBVIOUS
    <3> QED BY <3>1, <3>2, <3>3
  <2> QED BY <1>6, <2>1, <2>2, SeqEqual
<1> QED BY <1>1, <1>2, <1>3, <1>10

(***************************************************************************)
(* Base64WSDecode of the code from a group's first character, up to the    *)
(* end of a whole group or to the end of the code: the bytes of those      *)
(* groups, none of them garbage.                                           *)
(***************************************************************************)
LEMMA DecodeFacts ==
  ASSUME NEW n \in Nat, NEW code, code = Base64WSEncode(Span(0, n)),
         NEW p \in Nat, NEW x \in Nat, x = 4 * p, NEW e \in Nat, x <= e, e <= EncodedLen(n),
         e % 4 = 0 \/ e = EncodedLen(n),
         NEW a, a = 3 * p, NEW b, b = DecodedLen(e)
  PROVE  Base64WSDecode(SubSeq(code, x + 1, e)) = Span(a, b) /\ b \in Nat /\ a <= b /\ b <= n
<1>1. PICK c : c = SubSeq(code, x + 1, e)
  OBVIOUS
<1>2. PICK y \in Nat : y = EncodedLen(n)
  BY DEF EncodedLen
<1>3. code \in Seq(Chars) /\ Len(code) = y /\ \A i \in 1 .. y : code[i] = CharAt(0, n, i)
  <2>1. IsCode(code, 0, n)
    BY EncodeFacts
  <2>2. EncodedLen(n - 0) = y
    BY <1>2, n - 0 = n
  <2> QED BY <2>1, <2>2 DEF IsCode
<1>4. c \in Seq(Chars) /\ Len(c) = e - x /\ \A i \in 1 .. e - x : c[i] = code[x + i]
  BY <1>1, <1>2, <1>3
<1>5. b \in Nat /\ a <= b /\ b <= n /\ DecodedLen(e - x) = b - a
  BY DEF DecodedLen, EncodedLen
<1>6. PICK d : d = Base64WSDecode(c)
  OBVIOUS
<1>7. PICK m \in Nat : m = b - a
  BY <1>5
<1>8. d = [i \in 1 .. m |-> LET group == Piece(c, 4, ((i - 1) \div 3) + 1)
                            IN  IF IsGroup(group) THEN group[1][1][((i - 1) % 3) + 1] ELSE 0]
  BY <1>4, <1>5, <1>6, <1>7 DEF Base64WSDecode
<1>9. ASSUME NEW i \in 1 .. m PROVE d[i] = a + i
  <2>1. PICK h \in Nat, o \in 0 .. 2 : h = (i - 1) \div 3 /\ o = (i - 1) % 3 /\ i - 1 = 3 * h + o
    OBVIOUS
  <2>2. PICK f \in Nat : f = IF 4 * h + 4 < e - x THEN 4 * h + 4 ELSE e - x
    OBVIOUS
  <2>3. PICK w \in Nat : w = 4 * h
    OBVIOUS
  <2>4. PICK z \in Nat : z = 3 * (p + h)
    OBVIOUS
  <2>5. PICK g : g = Piece(c, 4, h + 1)
    OBVIOUS
  <2>6. g = SubSeq(c, w + 1, f)
    BY <1>4, <2>2, <2>3, <2>5 DEF Piece
  <2>7. /\ w < f /\ f <= w + 4 /\ f <= e - x
        /\ o + 1 <= f - w - 1 /\ f - w - 1 = GroupEnd(n, z) - z /\ z <= n
    BY <1>5, <1>7, <2>1, <2>2, <2>3, <2>4 DEF DecodedLen, EncodedLen, GroupEnd
  <2>8. PICK r \in Nat : r = GroupEnd(n, z)
    BY DEF GroupEnd
  <2>9. g \in Seq(Chars) /\ Len(g) = f - w /\ \A j \in 1 .. f - w : g[j] = code[x + w + j]
    <3>1. g \in Seq(Chars) /\ Len(g) = f - w /\ \A j \in 1 .. f - w : g[j] = c[w + j]
      BY <1>4, <2>6, <2>7
    <3>2. \A j \in 1 .. f - w : w + j \in 1 .. e - x /\ x + (w + j) = x + w + j
      BY <2>7
    <3>3. \A j \in 1 .. f - w : c[w + j] = code[x + w + j]
      BY <1>4, <3>2
    <3> QED BY <3>1, <3>3
  <2>10. ASSUME NEW j \in 1 .. f - w PROVE code[x + w + j] = <<Span(z, r), j>>
    <3>1. PICK l \in 1 .. y : l = x + w + j
      BY <1>2, <2>7
    <3>2. 0 + 3 * ((l - 1) \div 4) = z /\ ((l - 1) % 4) + 1 = j
      BY <2>3, <2>4, <2>7, <3>1
    <3> QED BY <1>3, <2>8, <3>1, <3>2 DEF CharAt
  <2>11. Span(z, r) \in Seq(Nat) /\ Len(Span(z, r)) = r - z /\ Span(z, r)[o + 1] = z + o + 1
    <3>1. z <= r /\ o + 1 \in 1 .. r - z
      BY <2>7, <2>8
    <3>2. Span(z, r) \in Seq(Nat) /\ Len(Span(z, r)) = r - z
      BY <3>1, SpanFacts
    <3>3. Span(z, r)[o + 1] = z + o + 1
      BY <3>1 DEF Span
    <3> QED BY <3>2, <3>3
  <2>12. \A j \in 1 .. f - w : g[j] = <<Span(z, r), j>>
    BY <2>9, <2>10
  <2>13. g[1] = <<Span(z, r), 1>>
    BY <2>7, <2>12
  <2>14. IsGroup(g)
    <3>1. DOMAIN g = 1 .. f - w
      BY <2>9
    <3>2. Len(g) = Len(Span(z, r)) + 1
      BY <2>7, <2>8, <2>9, <2>11
    <3> QED BY <2>12, <2>13, <3>1, <3>2 DEF IsGroup
  <2>15. d[i] = Span(z, r)[o + 1]
    BY <1>8, <2>1, <2>5, <2>13, <2>14
  <2> QED BY <2>1, <2>4, <2>11, <2>15
<1>10. d = Span(a, b)
  BY <1>7, <1>8, <1>9 DEF Span
<1> QED BY <1>1, <1>5, <1>6, <1>10

-------------------------------------------------------------------------------
(***************************************************************************)
(* The writer.  Whole groups are encoded as soon as they are there, the    *)
(* rest is in the buffer until the flush.                                  *)
(***************************************************************************)
Encoded == IF eof THEN given ELSE WholeGroups(given)

WriterInv ==
  /\ given \in 0 .. MaxBytes /\ eof \in BOOLEAN
  /\ text = Base64WSEncode(Span(0, Encoded))
  /\ buffer = Span(Encoded, given)

LEMMA GivenIsSpan == ASSUME NEW n \in Nat PROVE Given(n) = Span(0, n)
BY DEF Given, Span

LEMMA WriterFacts ==
  ASSUME WriterInv
  PROVE  /\ given \in Nat /\ Encoded \in Nat /\ Encoded <= given /\ given - Encoded < 3
         /\ \E k \in Nat : WholeGroups(given) = 3 * k
         /\ text \in Seq(Chars) /\ Len(text) = EncodedLen(Encoded) /\ Len(buffer) = given - Encoded
<1>1. given \in Nat /\ eof \in BOOLEAN
  BY Base64StreamAssumption DEF WriterInv
<1>2. Encoded \in Nat /\ Encoded <= given /\ given - Encoded < 3 /\ \E k \in Nat : WholeGroups(given) = 3 * k
  BY <1>1 DEF Encoded, WholeGroups
<1>3. IsCode(text, 0, Encoded)
  BY <1>1, <1>2, EncodeFacts DEF WriterInv
<1>4. EncodedLen(Encoded - 0) = EncodedLen(Encoded)
  BY <1>2, Encoded - 0 = Encoded
<1>5. Len(buffer) = given - Encoded
  BY <1>1, <1>2, SpanFacts DEF WriterInv
<1> QED BY <1>1, <1>2, <1>3, <1>4, <1>5 DEF IsCode

LEMMA WriterInit == ASSUME Init PROVE WriterInv
<1>1. Encoded = 0 /\ given = 0 /\ eof = FALSE
  BY DEF Init, Encoded, WholeGroups
<1>2. Span(0, 0) = <<>>
  BY DEF Span
<1>3. Base64WSEncode(<<>>) = <<>>
  BY DEF Base64WSEncode, EncodedLen
<1>4. text = <<>> /\ buffer = <<>>
  BY DEF Init
<1>5. 0 \in 0 .. MaxBytes
  BY Base64StreamAssumption
<1> QED BY <1>1, <1>2, <1>3, <1>4, <1>5 DEF WriterInv

\* Writing appends to the text; it never changes what is there.
Grows == \E t \in Seq(Chars) : text' = text \o t

LEMMA WriterNext ==
  ASSUME WriterInv, [Next]_vars
  PROVE  WriterInv' /\ Grows /\ (eof => UNCHANGED writerVars)
<1> USE Base64StreamAssumption
<1>t. given \in Nat /\ text \in Seq(Chars) /\ eof \in BOOLEAN
  BY WriterFacts DEF WriterInv
<1>0. CASE UNCHANGED writerVars
  <2>1. text' = text \o <<>> /\ <<>> \in Seq(Chars)
    BY <1>0, <1>t DEF writerVars
  <2> QED BY <1>0, <2>1 DEF writerVars, WriterInv, Encoded, Grows
<1>1. ASSUME NEW n \in 1 .. MaxBytes, Write(n) PROVE WriterInv' /\ Grows /\ ~eof
  <2>1. ~eof /\ eof' = eof /\ given' = given + n /\ given' \in 0 .. MaxBytes /\ given' \in Nat
    BY <1>1, <1>t DEF Write
  <2>2. PICK k \in Nat : WholeGroups(given) = 3 * k
    BY WriterFacts
  <2>3. PICK a \in Nat : a = Encoded /\ a = 3 * k /\ a <= given
    BY <2>1, <2>2, WriterFacts DEF Encoded
  <2>4. PICK b \in Nat : b = WholeGroups(given') /\ b = Encoded' /\ a <= b /\ b <= given'
    BY <1>t, <2>1, <2>2, <2>3 DEF Encoded, WholeGroups
  <2>5. PICK c \in Nat : c = given
    BY <1>t
  <2>6. PICK d \in Nat : d = given' /\ d = c + n
    BY <2>1, <2>5
  <2>7. SubSeq(Given(given + n), given + 1, given + n) = Span(c, d)
    BY <2>5, <2>6 DEF Given, Span
  <2>8. buffer \o SubSeq(Given(given + n), given + 1, given + n) = Span(a, d)
    <3>1. buffer = Span(a, c)
      BY <2>3, <2>5 DEF WriterInv
    <3>2. a <= c /\ c <= d
      BY <2>3, <2>5, <2>6
    <3>3. Span(a, c) \o Span(c, d) = Span(a, d)
      BY <3>2, SpanCat
    <3> QED BY <2>7, <3>1, <3>3
  <2>9. Len(Span(a, d)) = d - a /\ a <= d
    BY <2>3, <2>5, <2>6, SpanFacts
  <2>10. PICK w \in Nat : w = WholeGroups(d - a) /\ w = b - a /\ w <= d - a
    BY <2>2, <2>3, <2>4, <2>6, <2>9 DEF WholeGroups
  <2>11. SubSeq(Span(a, d), 1, w) = Span(a, b)
    BY <2>3, <2>9, <2>10 DEF Span
  <2>12. SubSeq(Span(a, d), w + 1, d - a) = Span(b, d)
    <3>1. PICK v \in Nat : v = d - a /\ w <= v /\ a + v <= d /\ b = a + w /\ d = a + v
      BY <2>9, <2>10
    <3>2. SubSeq(Span(a, d), w + 1, v) = Span(b, d)
      BY <3>1 DEF Span
    <3> QED BY <3>1, <3>2
  <2>13. text' = text \o Base64WSEncode(Span(a, b)) /\ buffer' = Span(b, d)
    BY <1>1, <2>8, <2>9, <2>10, <2>11, <2>12 DEF Write
  <2>14. text = Base64WSEncode(Span(0, a))
    BY <2>3 DEF WriterInv
  <2>15. text' = Base64WSEncode(Span(0, b))
    BY <2>3, <2>4, <2>13, <2>14, EncodeCat
  <2>16. Base64WSEncode(Span(a, b)) \in Seq(Chars)
    BY <2>3, <2>4, EncodeFacts DEF IsCode
  <2>17. WriterInv'
    BY <2>1, <2>4, <2>6, <2>13, <2>15, <1>t DEF WriterInv
  <2> QED BY <2>1, <2>13, <2>16, <2>17 DEF Grows
<1>2. CASE Flush
  <2>1. ~eof /\ eof' = TRUE /\ given' = given
    BY <1>2 DEF Flush
  <2>2. PICK k \in Nat : WholeGroups(given) = 3 * k
    BY WriterFacts
  <2>3. PICK a \in Nat : a = Encoded /\ a = 3 * k /\ a <= given
    BY <2>1, <2>2, WriterFacts DEF Encoded
  <2>4. PICK b \in Nat : b = given /\ a <= b
    BY <1>t, <2>3
  <2>5. text = Base64WSEncode(Span(0, a)) /\ buffer = Span(a, b)
    BY <2>3, <2>4 DEF WriterInv
  <2>6. text' = text \o Base64WSEncode(Span(a, b)) /\ buffer' = <<>>
    BY <1>2, <2>5 DEF Flush
  <2>7. text' = Base64WSEncode(Span(0, b))
    BY <2>3, <2>4, <2>5, <2>6, EncodeCat
  <2>8. Span(b, b) = <<>>
    BY DEF Span
  <2>9. Encoded' = b
    BY <2>1, <2>4 DEF Encoded
  <2>10. Base64WSEncode(Span(a, b)) \in Seq(Chars)
    BY <2>4, EncodeFacts DEF IsCode
  <2>11. WriterInv'
    BY <2>1, <2>4, <2>6, <2>7, <2>8, <2>9 DEF WriterInv
  <2> QED BY <2>1, <2>6, <2>10, <2>11 DEF Grows
<1>3. ASSUME NEW req \in Requests, Read(req) PROVE UNCHANGED writerVars
  BY <1>3 DEF Read
<1>4. ASSUME Step PROVE UNCHANGED writerVars
  BY <1>4 DEF Step, SourceGives, SourceIsEmpty, SourceEnds, vars, writerVars
<1>5. ASSUME UNCHANGED vars PROVE UNCHANGED writerVars
  BY <1>5 DEF vars, writerVars
<1> QED BY <1>0, <1>1, <1>2, <1>3, <1>4, <1>5 DEF Next

(***************************************************************************)
(* However the bytes are cut into calls of write(), a stream that was      *)
(* flushed has the text that Base64WSEncode makes of them at once          *)
(* (IncrementalBase64WSEncoder keeps what is not a whole group).           *)
(***************************************************************************)
THEOREM TextIsEncodingHolds == Spec => []TextIsEncoding
<1>1. Init => WriterInv
  BY WriterInit
<1>2. WriterInv /\ [Next]_vars => WriterInv'
  BY WriterNext
<1>3. WriterInv => TextIsEncoding
  <2> SUFFICES ASSUME WriterInv, eof PROVE text = Base64WSEncode(Given(given))
    BY DEF TextIsEncoding
  <2>1. given \in Nat /\ text = Base64WSEncode(Span(0, given))
    BY WriterFacts DEF WriterInv, Encoded
  <2> QED BY <2>1, GivenIsSpan
<1> QED BY <1>1, <1>2, <1>3, PTL DEF Spec

-------------------------------------------------------------------------------
(***************************************************************************)
(* The types.  Whatever the reader asks for, its decoder keeps less than a *)
(* group of characters.                                                    *)
(***************************************************************************)
KeepsLittle ==
  /\ undecoded \in Seq(Chars) /\ Len(undecoded) < 4
  /\ calling \in BOOLEAN /\ ended \in BOOLEAN /\ raised \in BOOLEAN

TypeInv == WriterInv /\ pos \in 0 .. Len(text) /\ KeepsLittle

LEMMA FinishTypes ==
  ASSUME KeepsLittle, NEW req, NEW bytes, NEW rest \in Seq(Chars), Len(rest) < 4, NEW empty \in BOOLEAN,
         Finish(req, bytes, rest, empty)
  PROVE  KeepsLittle'
<1>1. ASSUME NEW r, NEW done \in BOOLEAN, ReturnsResult(r, done)
      PROVE  calling' \in BOOLEAN /\ ended' \in BOOLEAN /\ raised' \in BOOLEAN
  BY <1>1 DEF KeepsLittle, ReturnsResult
<1>2. CASE Share(req, bytes) = <<>> /\ empty /\ req.chars # 0
  <2>1. CASE CanDecode(rest)
    <3>1. undecoded' = <<>> /\ ReturnsResult(Base64WSDecode(rest), TRUE)
      BY <1>2, <2>1 DEF Finish
    <3>2. undecoded' \in Seq(Chars) /\ Len(undecoded') < 4
      BY <3>1
    <3>3. calling' \in BOOLEAN /\ ended' \in BOOLEAN /\ raised' \in BOOLEAN
      BY <1>1, <3>1
    <3> QED BY <3>2, <3>3 DEF KeepsLittle
  <2>2. CASE ~CanDecode(rest)
    BY <1>2, <2>2 DEF Finish, KeepsLittle
  <2> QED BY <2>1, <2>2
<1>3. CASE ~(Share(req, bytes) = <<>> /\ empty /\ req.chars # 0)
  <2>1. undecoded' = rest /\ ReturnsResult(Share(req, bytes), empty)
    BY <1>3 DEF Finish
  <2> QED BY <1>1, <2>1 DEF KeepsLittle
<1> QED BY <1>2, <1>3

\* The characters a read of the underlying stream adds, and what is kept of them.
LEMMA InputFacts ==
  ASSUME TypeInv, NEW n \in Nat, pos + n <= Len(text), NEW input,
         input = undecoded \o SubSeq(text, pos + 1, pos + n)
  PROVE  /\ input \in Seq(Chars) /\ Len(input) = Len(undecoded) + n
         /\ SubSeq(input, WholeChars(Len(input)) + 1, Len(input)) \in Seq(Chars)
         /\ Len(SubSeq(input, WholeChars(Len(input)) + 1, Len(input))) < 4
<1>1. PICK a \in Nat, b \in Nat : a = pos /\ b = pos + n /\ b <= Len(text)
  BY WriterFacts DEF TypeInv
<1>2. text \in Seq(Chars) /\ undecoded \in Seq(Chars)
  BY WriterFacts DEF TypeInv, KeepsLittle
<1>3. PICK piece : piece = SubSeq(text, a + 1, b)
  OBVIOUS
<1>4. piece \in Seq(Chars) /\ Len(piece) = n
  BY <1>1, <1>2, <1>3
<1>5. input = undecoded \o piece
  BY <1>1, <1>3
<1>6. input \in Seq(Chars) /\ Len(input) = Len(undecoded) + n
  BY <1>2, <1>4, <1>5, ConcatProperties
<1>7. PICK l \in Nat : l = Len(input) /\ l <= Len(input)
  BY <1>6
<1>8. PICK w \in Nat : w = WholeChars(l) /\ w <= l /\ l - w < 4
  BY DEF WholeChars
<1>9. SubSeq(input, w + 1, l) \in Seq(Chars) /\ Len(SubSeq(input, w + 1, l)) < 4
  <2>1. w <= l /\ l <= Len(input)
    BY <1>7, <1>8
  <2>2. SubSeq(input, w + 1, l) \in Seq(Chars) /\ Len(SubSeq(input, w + 1, l)) = l - w
    BY <1>6, <2>1, CutFacts
  <2> QED BY <1>8, <2>2
<1> QED BY <1>6, <1>7, <1>8, <1>9

LEMMA TypeInit == ASSUME Init PROVE TypeInv
<1>1. WriterInv /\ text = <<>> /\ pos = 0 /\ undecoded = <<>>
  BY WriterInit DEF Init
<1>2. KeepsLittle
  <2>1. undecoded \in Seq(Chars) /\ Len(undecoded) < 4
    BY <1>1
  <2>2. calling \in BOOLEAN /\ ended \in BOOLEAN /\ raised \in BOOLEAN
    BY DEF Init
  <2> QED BY <2>1, <2>2 DEF KeepsLittle
<1> QED BY <1>1, <1>2 DEF TypeInv

LEMMA TypeNext == ASSUME TypeInv, [Next]_vars PROVE TypeInv'
<1>1. WriterInv' /\ Grows
  BY WriterNext DEF TypeInv
<1>2. text \in Seq(Chars) /\ pos \in Nat /\ pos <= Len(text) /\ KeepsLittle
  BY WriterFacts DEF TypeInv
<1>3. text' \in Seq(Chars) /\ Len(text) <= Len(text')
  BY <1>1, <1>2 DEF Grows
<1>4. ASSUME KeepsLittle', pos' = pos PROVE TypeInv'
  BY <1>1, <1>2, <1>3, <1>4 DEF TypeInv
<1>5. ASSUME NEW n \in 1 .. MaxBytes, Write(n) PROVE TypeInv'
  BY <1>2, <1>4, <1>5 DEF Write, KeepsLittle
<1>6. CASE Flush
  BY <1>2, <1>4, <1>6 DEF Flush, KeepsLittle
<1>7. ASSUME NEW req \in Requests, Read(req) PROVE TypeInv'
  <2>1. pos' = pos
    BY <1>7 DEF Read
  <2>2. CASE Satisfied(req, charbuffer)
    <3>1. Finish(req, charbuffer, undecoded, TRUE)
      BY <1>7, <2>2 DEF Read
    <3>2. KeepsLittle'
      BY <1>2, <3>1, FinishTypes DEF KeepsLittle
    <3> QED BY <1>4, <2>1, <3>2
  <2>3. CASE ~Satisfied(req, charbuffer)
    <3>1. KeepsLittle'
      BY <1>2, <1>7, <2>3 DEF Read, KeepsLittle
    <3> QED BY <1>4, <2>1, <3>1
  <2> QED BY <2>2, <2>3
<1>8. ASSUME NEW n \in 1 .. 2 * MaxBytes, SourceGives(n) PROVE TypeInv'
  <2>1. PICK input : input = undecoded \o SubSeq(text, pos + 1, pos + n)
    OBVIOUS
  <2>2. PICK rest : rest = SubSeq(input, WholeChars(Len(input)) + 1, Len(input))
    OBVIOUS
  <2>3. n \in Nat /\ pos + n <= Len(text) /\ pos' = pos + n /\ UNCHANGED text
    BY <1>8, Base64StreamAssumption DEF SourceGives, writerVars
  <2>4. rest \in Seq(Chars) /\ Len(rest) < 4
    BY <2>1, <2>2, <2>3, InputFacts
  <2>5. PICK bytes : bytes = charbuffer \o Base64WSDecode(SubSeq(input, 1, WholeChars(Len(input))))
    OBVIOUS
  <2>6. ASSUME Satisfied(request, bytes) PROVE KeepsLittle'
    <3>1. Finish(request, bytes, rest, FALSE)
      BY <1>8, <2>1, <2>2, <2>5, <2>6 DEF SourceGives
    <3> QED BY <1>2, <2>4, <3>1, FinishTypes
  <2>7. ASSUME ~Satisfied(request, bytes) PROVE KeepsLittle'
    <3>1. undecoded' = rest /\ UNCHANGED <<calling, ended, raised>>
      BY <1>8, <2>1, <2>2, <2>5, <2>7 DEF SourceGives
    <3> QED BY <1>2, <2>4, <3>1 DEF KeepsLittle
  <2>8. KeepsLittle'
    BY <2>6, <2>7
  <2>9. pos' \in 0 .. Len(text')
    BY <1>2, <1>3, <2>3
  <2> QED BY <1>1, <2>8, <2>9 DEF TypeInv
<1>9. CASE SourceIsEmpty
  BY <1>2, <1>4, <1>9 DEF SourceIsEmpty, vars, KeepsLittle
<1>10. CASE SourceEnds
  <2>1. Finish(request, charbuffer, undecoded, TRUE) /\ pos' = pos
    BY <1>10 DEF SourceEnds
  <2>2. KeepsLittle'
    BY <1>2, <2>1, FinishTypes DEF KeepsLittle
  <2> QED BY <1>4, <2>1, <2>2
<1>11. CASE UNCHANGED vars
  BY <1>2, <1>4, <1>11 DEF vars, KeepsLittle
<1> QED BY <1>5, <1>6, <1>7, <1>8, <1>9, <1>10, <1>11 DEF Next, Step

(***************************************************************************)
(* Type correctness: encoder and decoder never keep back a whole group,    *)
(* whatever is asked for.                                                  *)
(***************************************************************************)
THEOREM TypesHold == Spec => []TypeOK
<1>1. TypeInv => TypeOK
  <2> SUFFICES ASSUME TypeInv PROVE TypeOK
    OBVIOUS
  <2>1. Len(buffer) < 3
    BY WriterFacts DEF TypeInv
  <2> QED BY <2>1 DEF TypeInv, WriterInv, KeepsLittle, TypeOK
<1> QED BY <1>1, TypeInit, TypeNext, PTL DEF Spec

-------------------------------------------------------------------------------
(***************************************************************************)
(* The reader.  After P characters of a code it has decoded the groups     *)
(* that are complete and keeps the characters of the one that is not.      *)
(***************************************************************************)
WholeBytes(P) == 3 * (P \div 4)
OpenGroup(code, P) == SubSeq(code, 4 * (P \div 4) + 1, P)

\* A read of the underlying stream goes on in the code of n bytes from P to E.
GoesOn(n, code, P, E, input) ==
  /\ n \in Nat /\ code = Base64WSEncode(Span(0, n))
  /\ P \in Nat /\ E \in Nat /\ P <= E /\ E <= EncodedLen(n)
  /\ input = OpenGroup(code, P) \o SubSeq(code, P + 1, E)

\* It decodes the groups that it completes.
LEMMA GroupsInPieces ==
  ASSUME NEW n, NEW code, NEW P, NEW E, NEW input, GoesOn(n, code, P, E, input)
  PROVE  /\ Base64WSDecode(SubSeq(input, 1, WholeChars(Len(input)))) = Span(WholeBytes(P), WholeBytes(E))
         /\ SubSeq(input, WholeChars(Len(input)) + 1, Len(input)) = OpenGroup(code, E)
         /\ WholeBytes(P) \in Nat /\ WholeBytes(E) \in Nat
         /\ WholeBytes(P) <= WholeBytes(E) /\ WholeBytes(E) <= n
<1> USE DEF GoesOn
<1>1. PICK y \in Nat : y = EncodedLen(n)
  BY DEF EncodedLen
<1>2. code \in Seq(Chars) /\ Len(code) = y
  <2>1. IsCode(code, 0, n)
    BY EncodeFacts
  <2>2. EncodedLen(n - 0) = y
    BY <1>1, n - 0 = n
  <2> QED BY <2>1, <2>2 DEF IsCode
<1>3. PICK p \in Nat, x \in Nat : p = P \div 4 /\ x = 4 * p /\ x <= P
  OBVIOUS
<1>4. PICK q \in Nat, z \in Nat : q = E \div 4 /\ z = 4 * q /\ z <= E /\ x <= z
  BY <1>3
<1>5. OpenGroup(code, P) = SubSeq(code, x + 1, P) /\ OpenGroup(code, E) = SubSeq(code, z + 1, E)
  BY <1>3, <1>4 DEF OpenGroup
<1>6. PICK cut : cut = SubSeq(code, x + 1, E)
  OBVIOUS
<1>7. IsCut(Chars, code, x, P, z, E)
  BY <1>1, <1>2, <1>3, <1>4 DEF IsCut
<1>8. /\ input = cut /\ Len(cut) = E - x
      /\ SubSeq(cut, 1, z - x) = SubSeq(code, x + 1, z)
      /\ SubSeq(cut, z - x + 1, E - x) = SubSeq(code, z + 1, E)
  <2>1. CutsWell(code, x, P, z, E)
    BY <1>7, CutAgain
  <2>2. input = SubSeq(code, x + 1, P) \o SubSeq(code, P + 1, E)
    BY <1>5
  <2> QED BY <1>6, <2>1, <2>2 DEF CutsWell
<1>9. WholeChars(E - x) = z - x
  BY <1>3, <1>4 DEF WholeChars
<1>10. /\ Base64WSDecode(SubSeq(input, 1, WholeChars(Len(input)))) = Base64WSDecode(SubSeq(code, x + 1, z))
       /\ SubSeq(input, WholeChars(Len(input)) + 1, Len(input)) = OpenGroup(code, E)
  BY <1>5, <1>8, <1>9
<1>11. PICK a \in Nat, b \in Nat : a = WholeBytes(P) /\ b = WholeBytes(E) /\ a = 3 * p /\ b = DecodedLen(z)
  BY <1>3, <1>4 DEF WholeBytes, DecodedLen
<1>12. z % 4 = 0 /\ z <= EncodedLen(n)
  BY <1>1, <1>4
<1>13. Base64WSDecode(SubSeq(code, x + 1, z)) = Span(a, b) /\ a <= b /\ b <= n
  BY <1>3, <1>4, <1>11, <1>12, DecodeFacts
<1> QED BY <1>10, <1>11, <1>13

\* At the end of the code the flush decodes the group that is open.
LEMMA LastGroup ==
  ASSUME NEW n \in Nat, NEW code, code = Base64WSEncode(Span(0, n)),
         NEW E \in Nat, E = EncodedLen(n)
  PROVE  /\ CanDecode(OpenGroup(code, E))
         /\ Base64WSDecode(OpenGroup(code, E)) = Span(WholeBytes(E), n)
         /\ WholeBytes(E) \in Nat /\ WholeBytes(E) <= n /\ n - WholeBytes(E) < 3
<1>2. code \in Seq(Chars) /\ Len(code) = E
  <2>1. IsCode(code, 0, n)
    BY EncodeFacts
  <2>2. EncodedLen(n - 0) = E
    BY n - 0 = n
  <2> QED BY <2>1, <2>2 DEF IsCode
<1>3. PICK p \in Nat, x \in Nat : p = E \div 4 /\ x = 4 * p /\ x <= E
  OBVIOUS
<1>4. OpenGroup(code, E) = SubSeq(code, x + 1, E)
  BY <1>3 DEF OpenGroup
<1>5. PICK a \in Nat : a = WholeBytes(E) /\ a = 3 * p /\ a <= n /\ n - a < 3
  BY <1>3 DEF WholeBytes, EncodedLen
<1>6. n = DecodedLen(E)
  BY DEF DecodedLen, EncodedLen
<1>7. Base64WSDecode(SubSeq(code, x + 1, E)) = Span(a, n)
  BY <1>3, <1>5, <1>6, DecodeFacts
<1>8. Len(SubSeq(code, x + 1, E)) = E - x /\ (E - x) % 4 # 1
  <2>1. (E - x) % 4 # 1
    BY <1>3 DEF EncodedLen
  <2>2. Len(SubSeq(code, x + 1, E)) = E - x
    <3>1. IsCut(Chars, code, x, x, x, E)
      BY <1>2, <1>3 DEF IsCut
    <3> QED BY <3>1, CutAgain DEF CutsWell
  <2> QED BY <2>1, <2>2
<1> QED BY <1>4, <1>5, <1>7, <1>8 DEF CanDecode

-------------------------------------------------------------------------------
(***************************************************************************)
(* What the reader has returned, what is decoded and what is kept are, in  *)
(* this order, the bytes written and the characters read: k bytes are      *)
(* returned and m are decoded.  After the flush of the decoder nothing is  *)
(* left.                                                                   *)
(***************************************************************************)
Asks == [size : Int, chars : Int]

Kept(m) ==
  \/ m = WholeBytes(pos) /\ undecoded = OpenGroup(text, pos)
  \/ eof /\ pos = Len(text) /\ undecoded = <<>> /\ m = given

Progress(k, m) ==
  /\ k \in Nat /\ m \in Nat /\ k <= m /\ m <= given
  /\ returned = Span(0, k) /\ charbuffer = Span(k, m)
  /\ Kept(m)

DecodeInv ==
  /\ TypeInv
  /\ ~raised
  /\ request \in Asks
  /\ \E k, m \in Nat : Progress(k, m)

\* How far a call that is satisfied returns, and what it leaves.
UpTo(req, k, m) == IF req.chars >= 0 /\ req.chars < m - k THEN k + req.chars ELSE m

Served(req, k, m, rest) ==
  /\ returned' = Span(0, UpTo(req, k, m)) /\ result' = Span(k, UpTo(req, k, m))
  /\ charbuffer' = Span(UpTo(req, k, m), m)
  /\ undecoded' = rest /\ raised' = FALSE /\ calling' = FALSE

Flushed(rest) ==
  /\ charbuffer' = <<>>
  /\ CanDecode(rest) =>
       /\ undecoded' = <<>> /\ result' = Base64WSDecode(rest) /\ returned' = returned \o Base64WSDecode(rest)
       /\ raised' = FALSE /\ calling' = FALSE

LEMMA UpToFacts ==
  ASSUME NEW req \in Asks, NEW k \in Nat, NEW m \in Nat, k <= m
  PROVE  /\ UpTo(req, k, m) \in Nat /\ k <= UpTo(req, k, m) /\ UpTo(req, k, m) <= m
         /\ UpTo(req, k, m) = k => k = m \/ req.chars = 0
BY DEF UpTo, Asks

\* The end of read() after its loop.
LEMMA FinishFacts ==
  ASSUME NEW req \in Asks, NEW k \in Nat, NEW m \in Nat, k <= m, NEW rest, NEW empty \in BOOLEAN,
         returned = Span(0, k), raised = FALSE, NEW bytes, bytes = Span(k, m),
         Finish(req, bytes, rest, empty)
  PROVE  IF k = m /\ empty /\ req.chars # 0 THEN Flushed(rest) ELSE Served(req, k, m, rest)
<1>1. PICK j \in Nat : j = UpTo(req, k, m) /\ k <= j /\ j <= m /\ (j = k => k = m \/ req.chars = 0)
  BY UpToFacts
<1>2. PICK share : share = Share(req, bytes)
  OBVIOUS
<1>3. bytes \in Seq(Nat) /\ Len(bytes) = m - k
  BY SpanFacts
<1>4. share = Span(k, j)
  <2>1. CASE req.chars >= 0 /\ req.chars < m - k
    <3>1. PICK c \in Nat : c = req.chars /\ j = k + c /\ c <= m - k
      BY <1>1, <2>1 DEF UpTo, Asks
    <3>2. share = SubSeq(bytes, 1, c)
      BY <1>2, <1>3, <2>1, <3>1 DEF Share
    <3>3. SubSeq(Span(k, m), 1, c) = Span(k, j)
      BY <3>1 DEF Span
    <3> QED BY <3>2, <3>3
  <2>2. CASE ~(req.chars >= 0 /\ req.chars < m - k)
    BY <1>1, <1>2, <1>3, <2>2 DEF Share, UpTo
  <2> QED BY <2>1, <2>2
<1>5. share \in Seq(Nat) /\ Len(share) = j - k
  BY <1>1, <1>4, SpanFacts
<1>6. charbuffer' = Span(j, m)
  <2>1. charbuffer' = SubSeq(bytes, Len(share) + 1, Len(bytes))
    BY <1>2 DEF Finish
  <2>2. SubSeq(Span(k, m), j - k + 1, m - k) = Span(j, m)
    BY <1>1, SpanRest
  <2> QED BY <1>3, <1>5, <2>1, <2>2
<1>7. CASE share = <<>> /\ empty /\ req.chars # 0
  <2>1. j = k /\ k = m
    BY <1>1, <1>5, <1>7
  <2>2. Span(m, m) = <<>>
    BY DEF Span
  <2>3. charbuffer' = <<>>
    BY <1>6, <2>1, <2>2
  <2>4. ASSUME CanDecode(rest)
        PROVE  undecoded' = <<>> /\ ReturnsResult(Base64WSDecode(rest), TRUE)
    BY <1>2, <1>7, <2>4 DEF Finish
  <2> QED BY <1>7, <2>1, <2>3, <2>4 DEF Flushed, ReturnsResult
<1>8. CASE ~(share = <<>> /\ empty /\ req.chars # 0)
  <2>1. undecoded' = rest /\ ReturnsResult(share, empty)
    BY <1>2, <1>8 DEF Finish
  <2>2. Span(0, k) \o Span(k, j) = Span(0, j)
    BY <1>1, SpanStart
  <2>3. Served(req, k, m, rest)
    BY <1>1, <1>4, <1>6, <2>1, <2>2 DEF Served, ReturnsResult
  <2>4. ~(k = m /\ empty /\ req.chars # 0)
    <3> SUFFICES ASSUME k = m, empty, req.chars # 0 PROVE FALSE
      OBVIOUS
    <3>1. Span(m, m) = <<>>
      BY DEF Span
    <3>2. j = k
      BY <1>1
    <3> QED BY <1>4, <1>8, <3>1, <3>2
  <2> QED BY <2>3, <2>4
<1> QED BY <1>7, <1>8

(***************************************************************************)
(* The steps of the reader.  No request is for nothing: with a size of 0   *)
(* and no chars, read() would flush a decoder in the middle of a group.    *)
(***************************************************************************)
NoEmptyRead == \A r \in Requests : r.chars < 0 => r.size # 0

LEMMA ReadFacts ==
  ASSUME DecodeInv, NoEmptyRead, NEW k, NEW m, Progress(k, m), NEW req \in Requests, Read(req)
  PROVE  /\ UNCHANGED <<writerVars, pos>> /\ request' = req /\ req \in Asks
         /\ IF Satisfied(req, charbuffer)
              THEN Served(req, k, m, undecoded)
              ELSE calling' = TRUE /\ UNCHANGED <<undecoded, charbuffer, result, returned, raised>>
<1>1. /\ k \in Nat /\ m \in Nat /\ k <= m /\ returned = Span(0, k) /\ charbuffer = Span(k, m)
      /\ raised = FALSE
  BY DEF Progress, DecodeInv, TypeInv, KeepsLittle
<1>2. req \in Asks
  BY Base64StreamAssumption DEF Asks
<1>3. ASSUME Satisfied(req, charbuffer) PROVE Served(req, k, m, undecoded)
  <2>1. Finish(req, charbuffer, undecoded, TRUE)
    BY <1>3 DEF Read
  <2>2. IF k = m /\ TRUE /\ req.chars # 0 THEN Flushed(undecoded) ELSE Served(req, k, m, undecoded)
    BY <1>1, <1>2, <2>1, FinishFacts
  <2>3. ~(k = m /\ req.chars # 0)
    <3> SUFFICES ASSUME k = m, req.chars # 0 PROVE FALSE
      OBVIOUS
    <3>1. charbuffer = <<>>
      BY <1>1 DEF Span
    <3> QED BY <1>2, <1>3, <3>1 DEF NoEmptyRead, Satisfied, Asks
  <2> QED BY <2>2, <2>3
<1> QED BY <1>2, <1>3 DEF Read

LEMMA GivesFacts ==
  ASSUME DecodeInv, NEW k, NEW m, Progress(k, m), NEW n \in 1 .. 2 * MaxBytes, SourceGives(n),
         NEW M, M = WholeBytes(pos + n)
  PROVE  /\ UNCHANGED <<writerVars, request>> /\ pos' = pos + n /\ pos \in Nat
         /\ calling /\ (request.size >= 0 => n <= request.size)
         /\ M \in Nat /\ m = WholeBytes(pos) /\ m <= M /\ M <= given
         /\ IF Satisfied(request, Span(k, M))
              THEN Served(request, k, M, OpenGroup(text, pos + n))
              ELSE /\ charbuffer' = Span(k, M) /\ undecoded' = OpenGroup(text, pos + n)
                   /\ UNCHANGED <<calling, result, returned, raised>>
<1>1. /\ k \in Nat /\ m \in Nat /\ k <= m /\ m <= given /\ returned = Span(0, k) /\ charbuffer = Span(k, m)
      /\ raised = FALSE /\ request \in Asks /\ Kept(m) /\ TypeInv /\ WriterInv
  BY DEF Progress, DecodeInv, TypeInv, KeepsLittle
<1>2. /\ UNCHANGED <<writerVars, request>> /\ calling /\ (request.size >= 0 => n <= request.size)
      /\ pos + n <= Len(text) /\ pos' = pos + n
  BY DEF SourceGives
<1>3. /\ text \in Seq(Chars) /\ Len(text) = EncodedLen(Encoded) /\ Encoded \in Nat /\ Encoded <= given
      /\ given \in Nat /\ text = Base64WSEncode(Span(0, Encoded))
  BY <1>1, WriterFacts DEF WriterInv
<1>4. PICK P \in Nat, E \in Nat : P = pos /\ E = pos + n /\ P < E /\ E <= Len(text)
  BY <1>1, <1>2, <1>3, Base64StreamAssumption DEF TypeInv
<1>5. m = WholeBytes(P) /\ undecoded = OpenGroup(text, P)
  BY <1>1, <1>4 DEF Kept
<1>6. PICK input : input = undecoded \o SubSeq(text, pos + 1, pos + n)
  OBVIOUS
<1>7. PICK rest, new : /\ rest = SubSeq(input, WholeChars(Len(input)) + 1, Len(input))
                       /\ new = Base64WSDecode(SubSeq(input, 1, WholeChars(Len(input))))
  OBVIOUS
<1>c. PICK code : code = text
  OBVIOUS
<1>8. PICK c \in Nat : c = Encoded
  BY <1>3
<1>9. GoesOn(c, code, P, E, input)
  BY <1>c, <1>3, <1>4, <1>5, <1>6, <1>8 DEF GoesOn
<1>10. new = Span(m, M) /\ rest = OpenGroup(text, pos + n) /\ M \in Nat /\ m <= M /\ M <= c
  <2>1. /\ new = Span(WholeBytes(P), WholeBytes(E)) /\ rest = OpenGroup(code, E)
        /\ WholeBytes(E) \in Nat /\ WholeBytes(P) <= WholeBytes(E) /\ WholeBytes(E) <= c
    BY <1>7, <1>9, GroupsInPieces
  <2> QED BY <1>c, <1>4, <1>5, <2>1
<1>11. PICK bytes : bytes = charbuffer \o new
  OBVIOUS
<1>12. bytes = Span(k, M) /\ k <= M
  <2>1. Span(k, m) \o Span(m, M) = Span(k, M)
    BY <1>1, <1>10, SpanCat
  <2>2. k <= M
    BY <1>1, <1>10
  <2> QED BY <1>1, <1>10, <1>11, <2>1, <2>2
<1>13. IF Satisfied(request, bytes)
         THEN Finish(request, bytes, rest, FALSE)
         ELSE charbuffer' = bytes /\ undecoded' = rest /\ UNCHANGED <<calling, result, returned, raised>>
  BY <1>6, <1>7, <1>11 DEF SourceGives
<1>14. ASSUME Satisfied(request, bytes) PROVE Served(request, k, M, rest)
  <2>1. Finish(request, bytes, rest, FALSE)
    BY <1>13, <1>14
  <2> QED BY <1>1, <1>10, <1>12, <2>1, FinishFacts
<1>15. M <= given /\ m = WholeBytes(pos) /\ pos \in Nat
  BY <1>3, <1>4, <1>5, <1>8, <1>10
<1> QED BY <1>2, <1>10, <1>12, <1>13, <1>14, <1>15

LEMMA EndsFacts ==
  ASSUME DecodeInv, NEW k, NEW m, Progress(k, m), SourceEnds
  PROVE  /\ UNCHANGED <<writerVars, pos, request>> /\ eof /\ pos = Len(text) /\ calling
         /\ IF k = m /\ request.chars # 0
              THEN /\ charbuffer' = <<>> /\ undecoded' = <<>> /\ raised' = FALSE /\ calling' = FALSE
                   /\ returned' = Span(0, given) /\ result' = Span(m, given) /\ given - m < 3
              ELSE Served(request, k, m, undecoded)
<1>1. /\ k \in Nat /\ m \in Nat /\ k <= m /\ m <= given /\ returned = Span(0, k) /\ charbuffer = Span(k, m)
      /\ raised = FALSE /\ request \in Asks /\ Kept(m) /\ TypeInv /\ WriterInv
  BY DEF Progress, DecodeInv, TypeInv, KeepsLittle
<1>2. /\ UNCHANGED <<writerVars, pos, request>> /\ eof /\ pos = Len(text) /\ calling
      /\ Finish(request, charbuffer, undecoded, TRUE)
  BY DEF SourceEnds
<1>c. PICK code : code = text
  OBVIOUS
<1>e. PICK E : E = Len(text)
  OBVIOUS
<1>3. PICK n \in Nat : /\ n = given /\ E = EncodedLen(n)
                       /\ code = Base64WSEncode(Span(0, n))
  BY <1>c, <1>e, <1>1, <1>2, WriterFacts DEF WriterInv, Encoded
<1>4. E \in Nat
  BY <1>3 DEF EncodedLen
<1>5. IF k = m /\ TRUE /\ request.chars # 0 THEN Flushed(undecoded) ELSE Served(request, k, m, undecoded)
  BY <1>1, <1>2, FinishFacts
<1>6. CanDecode(undecoded) /\ Base64WSDecode(undecoded) = Span(m, n) /\ n - m < 3
  <2>1. CASE m = WholeBytes(pos) /\ undecoded = OpenGroup(text, pos)
    <3>1. m = WholeBytes(E) /\ undecoded = OpenGroup(code, E)
      BY <1>c, <1>e, <1>2, <1>3, <2>1
    <3> QED BY <1>3, <1>4, <3>1, LastGroup
  <2>2. CASE undecoded = <<>> /\ m = given
    <3>1. Base64WSDecode(<<>>) = <<>> /\ CanDecode(<<>>)
      BY DEF Base64WSDecode, DecodedLen, CanDecode
    <3>2. Span(n, n) = <<>>
      BY DEF Span
    <3> QED BY <1>3, <2>2, <3>1, <3>2
  <2> QED BY <1>1, <2>1, <2>2 DEF Kept
<1>7. k = m => returned \o Span(m, n) = Span(0, n)
  BY <1>1, <1>3, SpanStart
<1> QED BY <1>2, <1>3, <1>5, <1>6, <1>7 DEF Flushed

\* A call that is satisfied returns the next bytes.
LEMMA ServedProgress ==
  ASSUME NEW req \in Asks, NEW k \in Nat, NEW M \in Nat, k <= M, NEW rest,
         Served(req, k, M, rest), M <= given', Kept(M)'
  PROVE  ~raised' /\ \E i, m \in Nat : Progress(i, m)'
<1>1. PICK j \in Nat : j = UpTo(req, k, M) /\ j <= M
  BY UpToFacts
<1>2. Progress(j, M)'
  BY <1>1 DEF Served, Progress
<1> QED BY <1>2 DEF Served

\* Writing leaves what the reader has seen as it was.
LEMMA WritingKeeps ==
  ASSUME DecodeInv, [Next]_vars, NEW k, NEW m, Progress(k, m),
         UNCHANGED <<pos, undecoded, charbuffer, returned, raised, request>>, given <= given'
  PROVE  DecodeInv'
<1>1. TypeInv /\ TypeInv' /\ WriterInv
  BY TypeNext DEF DecodeInv, TypeInv
<1>2. Grows /\ (eof => UNCHANGED writerVars)
  BY <1>1, WriterNext
<1>3. text \in Seq(Chars) /\ pos \in Nat /\ pos <= Len(text) /\ given \in Nat /\ given' \in Nat
  BY <1>1, WriterFacts, Base64StreamAssumption DEF TypeInv, WriterInv
<1>4. OpenGroup(text', pos) = OpenGroup(text, pos)
  <2>1. PICK t \in Seq(Chars) : text' = text \o t
    BY <1>2 DEF Grows
  <2>2. PICK x \in Nat : x = 4 * (pos \div 4) /\ x <= pos
    BY <1>3
  <2>3. SubSeq(text \o t, x + 1, pos) = SubSeq(text, x + 1, pos)
    BY <1>3, <2>2
  <2> QED BY <2>1, <2>2, <2>3 DEF OpenGroup
<1>5. Kept(m)'
  BY <1>2, <1>4 DEF Progress, Kept, writerVars
<1>6. k \in Nat /\ m \in Nat /\ Progress(k, m)'
  BY <1>3, <1>5 DEF Progress
<1> QED BY <1>1, <1>6 DEF DecodeInv

LEMMA DecodeInit == ASSUME Init PROVE DecodeInv
<1>1. Span(0, 0) = <<>> /\ WholeBytes(0) = 0 /\ OpenGroup(<<>>, 0) = <<>>
  BY DEF Span, WholeBytes, OpenGroup
<1>2. Progress(0, 0)
  BY <1>1 DEF Init, Progress, Kept
<1>3. request \in Asks /\ ~raised
  BY DEF Init, Asks
<1> QED BY <1>2, <1>3, TypeInit DEF DecodeInv

LEMMA DecodeNext == ASSUME DecodeInv, NoEmptyRead, [Next]_vars PROVE DecodeInv'
<1>1. TypeInv /\ TypeInv' /\ WriterInv
  BY TypeNext DEF DecodeInv, TypeInv
<1>2. PICK k \in Nat, m \in Nat : Progress(k, m)
  BY DEF DecodeInv
<1>3. k <= m /\ m <= given /\ returned = Span(0, k) /\ charbuffer = Span(k, m) /\ Kept(m)
  BY <1>2 DEF Progress
<1>4. request \in Asks /\ given \in Nat
  BY <1>1, WriterFacts DEF DecodeInv
<1>5. ASSUME NEW n \in 1 .. MaxBytes, Write(n) PROVE DecodeInv'
  <2>1. UNCHANGED <<pos, undecoded, charbuffer, returned, raised, request>> /\ given <= given'
    BY <1>4, <1>5, Base64StreamAssumption DEF Write
  <2> QED BY <1>2, <2>1, WritingKeeps
<1>6. CASE Flush
  <2>1. UNCHANGED <<pos, undecoded, charbuffer, returned, raised, request>> /\ given <= given'
    BY <1>4, <1>6 DEF Flush
  <2> QED BY <1>2, <2>1, WritingKeeps
<1>7. ASSUME NEW req \in Requests, Read(req) PROVE DecodeInv'
  <2>1. /\ UNCHANGED <<writerVars, pos>> /\ request' = req /\ req \in Asks
        /\ IF Satisfied(req, charbuffer)
             THEN Served(req, k, m, undecoded)
             ELSE UNCHANGED <<undecoded, charbuffer, returned, raised>>
    BY <1>2, <1>7, ReadFacts
  <2>2. CASE Satisfied(req, charbuffer)
    <3>1. Served(req, k, m, undecoded)
      BY <2>1, <2>2
    <3>2. Kept(m)' /\ m <= given'
      BY <1>3, <2>1, <3>1 DEF Kept, Served, writerVars
    <3>3. ~raised' /\ \E i, j \in Nat : Progress(i, j)'
      BY <1>3, <2>1, <3>1, <3>2, ServedProgress
    <3> QED BY <1>1, <2>1, <3>3 DEF DecodeInv
  <2>3. CASE ~Satisfied(req, charbuffer)
    <3>1. UNCHANGED <<undecoded, charbuffer, returned, raised>>
      BY <2>1, <2>3
    <3>2. Progress(k, m)'
      BY <1>2, <2>1, <3>1 DEF Progress, Kept, writerVars
    <3> QED BY <1>1, <2>1, <3>1, <3>2 DEF DecodeInv
  <2> QED BY <2>2, <2>3
<1>8. ASSUME NEW n \in 1 .. 2 * MaxBytes, SourceGives(n) PROVE DecodeInv'
  <2>1. PICK M : M = WholeBytes(pos + n)
    OBVIOUS
  <2>2. /\ UNCHANGED <<writerVars, request>> /\ pos' = pos + n /\ M \in Nat /\ m <= M /\ M <= given
        /\ IF Satisfied(request, Span(k, M))
             THEN Served(request, k, M, OpenGroup(text, pos + n))
             ELSE /\ charbuffer' = Span(k, M) /\ undecoded' = OpenGroup(text, pos + n)
                  /\ UNCHANGED <<returned, raised>>
    BY <1>2, <1>8, <2>1, GivesFacts
  <2>3. k <= M /\ M <= given'
    BY <1>3, <2>2 DEF writerVars
  <2>4. undecoded' = OpenGroup(text, pos + n)
    BY <2>2 DEF Served
  <2>5. Kept(M)'
    BY <2>1, <2>2, <2>4 DEF Kept, writerVars
  <2>6. CASE Satisfied(request, Span(k, M))
    <3>1. Served(request, k, M, OpenGroup(text, pos + n))
      BY <2>2, <2>6
    <3>2. ~raised' /\ \E i, j \in Nat : Progress(i, j)'
      BY <1>4, <2>2, <2>3, <2>5, <3>1, ServedProgress
    <3> QED BY <1>1, <1>4, <2>2, <3>2 DEF DecodeInv
  <2>7. CASE ~Satisfied(request, Span(k, M))
    <3>1. charbuffer' = Span(k, M) /\ UNCHANGED <<returned, raised>>
      BY <2>2, <2>7
    <3>2. Progress(k, M)'
      BY <1>3, <2>2, <2>3, <2>5, <3>1 DEF Progress
    <3> QED BY <1>1, <1>4, <2>2, <3>1, <3>2 DEF DecodeInv
  <2> QED BY <2>6, <2>7
<1>9. CASE SourceEnds
  <2>1. /\ UNCHANGED <<writerVars, pos, request>> /\ eof /\ pos = Len(text)
        /\ IF k = m /\ request.chars # 0
             THEN /\ charbuffer' = <<>> /\ undecoded' = <<>> /\ raised' = FALSE
                  /\ returned' = Span(0, given)
             ELSE Served(request, k, m, undecoded)
    BY <1>2, <1>9, EndsFacts
  <2>2. CASE k = m /\ request.chars # 0
    <3>1. Span(given, given) = <<>>
      BY <1>4 DEF Span
    <3>2. Progress(given, given)'
      BY <1>4, <2>1, <2>2, <3>1 DEF Progress, Kept, writerVars
    <3>3. given \in Nat /\ given' = given
      BY <1>4, <2>1 DEF writerVars
    <3>4. \E i, j \in Nat : Progress(i, j)'
      <4>1. PICK g \in Nat : g = given /\ Progress(g, g)'
        BY <3>2, <3>3
      <4> QED BY <4>1
    <3> QED BY <1>1, <1>4, <2>1, <2>2, <3>4 DEF DecodeInv
  <2>3. CASE ~(k = m /\ request.chars # 0)
    <3>1. Served(request, k, m, undecoded)
      BY <2>1, <2>3
    <3>2. Kept(m)' /\ m <= given'
      BY <1>3, <2>1, <3>1 DEF Kept, Served, writerVars
    <3>3. ~raised' /\ \E i, j \in Nat : Progress(i, j)'
      BY <1>3, <1>4, <3>1, <3>2, ServedProgress
    <3> QED BY <1>1, <1>4, <2>1, <3>3 DEF DecodeInv
  <2> QED BY <2>2, <2>3
<1>10. CASE UNCHANGED vars
  <2>1. UNCHANGED <<pos, undecoded, charbuffer, returned, raised, request>> /\ given <= given'
    BY <1>4, <1>10 DEF vars
  <2> QED BY <1>2, <2>1, WritingKeeps
<1>11. CASE SourceIsEmpty
  BY <1>10, <1>11 DEF SourceIsEmpty
<1> QED BY <1>5, <1>6, <1>7, <1>8, <1>9, <1>10, <1>11 DEF Next, Step

(***************************************************************************)
(* What IncrementalBase64WSStreamReader returns is a beginning of what was *)
(* written, and no read() raises, in whatever pieces the text arrives and  *)
(* whatever sizes are asked for, a size of 0 excepted.                     *)
(***************************************************************************)
THEOREM DecodesPrefixHolds == ASSUME NoEmptyRead PROVE Spec => []DecodesPrefix
<1>1. Init => DecodeInv
  BY DecodeInit
<1>2. DecodeInv /\ [Next]_vars => DecodeInv'
  BY DecodeNext
<1>3. DecodeInv => DecodesPrefix
  <2> SUFFICES ASSUME DecodeInv PROVE DecodesPrefix
    OBVIOUS
  <2>1. PICK k \in Nat, m \in Nat : Progress(k, m)
    BY DEF DecodeInv
  <2>2. returned = Span(0, k) /\ k <= m /\ m <= given /\ given \in Nat
    BY <2>1, WriterFacts DEF Progress, DecodeInv, TypeInv
  <2>3. Len(returned) = k /\ returned = Given(k)
    BY <2>2, SpanFacts, GivenIsSpan
  <2>4. k <= given /\ ~raised
    BY <2>2 DEF DecodeInv
  <2> QED BY <2>3, <2>4 DEF DecodesPrefix
<1> QED BY <1>1, <1>2, <1>3, PTL DEF Spec

-------------------------------------------------------------------------------
(***************************************************************************)
(* How much a read(size) returns.  A call under way has not what it asked  *)
(* for; what a call leaves is less than the groups of one read of the      *)
(* underlying stream, and a later read(size) returns it at once: no        *)
(* request for characters reads twice as much as a read(size) asks for.    *)
(***************************************************************************)
SizesFit ==
  \A q, r \in Requests : q.chars >= 0 /\ r.chars < 0 /\ r.size > 1 => q.size \in 0 .. 2 * r.size

IsPlain(r) == r.chars < 0 /\ r.size > 1

LeavesLittle == \A r \in Requests : IsPlain(r) => Len(charbuffer) <= 2 * r.size

SurplusInv ==
  /\ DecodeInv
  /\ calling => request \in Requests /\ ~Satisfied(request, charbuffer)
  /\ ~calling => LeavesLittle
  /\ SurplusIsBounded

\* The bytes decoded of n characters after less than a group.
LEMMA WholeBytesFacts ==
  ASSUME NEW P \in Nat, NEW n \in Nat, NEW s \in Nat, n <= s, s > 1
  PROVE  /\ WholeBytes(P + n) - WholeBytes(P) <= s + 1
         /\ \A r \in Nat : s <= 2 * r /\ r > 1 => WholeBytes(P + n) - WholeBytes(P) <= 2 * r + 1
BY DEF WholeBytes

\* A call that is satisfied, when it has not much more than it asked for.
LEMMA ServedSurplus ==
  ASSUME NEW req \in Asks, request' = req, NEW k \in Nat, NEW M \in Nat, k <= M, NEW rest,
         Served(req, k, M, rest),
         IsPlain(req) => M - k <= 2 * req.size,
         \A r \in Requests : req.chars >= 0 /\ IsPlain(r) => M - UpTo(req, k, M) <= 2 * r.size
  PROVE  LeavesLittle' /\ SurplusIsBounded' /\ calling' = FALSE
<1>1. PICK j \in Nat : /\ j = UpTo(req, k, M) /\ k <= j /\ j <= M /\ (req.chars < 0 => j = M)
  BY UpToFacts DEF UpTo, Asks
<1>2. Len(charbuffer') = M - j /\ Len(result') = j - k
  BY <1>1, SpanFacts DEF Served
<1>3. LeavesLittle'
  <2> SUFFICES ASSUME NEW r \in Requests, IsPlain(r) PROVE M - j <= 2 * r.size
    BY <1>2 DEF LeavesLittle
  <2>1. r.size \in Int /\ req.chars \in Int
    BY Base64StreamAssumption DEF Asks
  <2> QED BY <1>1, <2>1 DEF IsPlain
<1>4. SurplusIsBounded'
  <2> SUFFICES ASSUME req.chars < 0, req.size > 1 PROVE j - k <= 2 * req.size
    BY <1>2 DEF SurplusIsBounded
  <2> QED BY <1>1 DEF IsPlain, Asks
<1> QED BY <1>3, <1>4 DEF Served

LEMMA SurplusInit == ASSUME Init PROVE SurplusInv
<1>1. DecodeInv /\ ~calling /\ charbuffer = <<>> /\ request = [size |-> -1, chars |-> -1]
  BY DecodeInit DEF Init
<1>2. Len(charbuffer) = 0
  BY <1>1
<1>3. LeavesLittle
  <2> SUFFICES ASSUME NEW r \in Requests, IsPlain(r) PROVE 0 <= 2 * r.size
    BY <1>2 DEF LeavesLittle
  <2> QED BY Base64StreamAssumption DEF IsPlain
<1>4. SurplusIsBounded
  BY <1>1 DEF SurplusIsBounded
<1> QED BY <1>1, <1>3, <1>4 DEF SurplusInv

LEMMA SurplusNext == ASSUME SurplusInv, NoEmptyRead, SizesFit, [Next]_vars PROVE SurplusInv'
<1>1. DecodeInv /\ DecodeInv' /\ TypeInv /\ WriterInv
  BY DecodeNext DEF SurplusInv, DecodeInv, TypeInv
<1>2. PICK k \in Nat, m \in Nat : Progress(k, m)
  BY <1>1 DEF DecodeInv
<1>3. k <= m /\ m <= given /\ charbuffer = Span(k, m) /\ Len(charbuffer) = m - k
  BY <1>2, SpanFacts DEF Progress
<1>4. request \in Asks /\ given \in Nat /\ calling \in BOOLEAN
  BY <1>1, WriterFacts DEF DecodeInv, TypeInv, KeepsLittle
<1>5. ASSUME UNCHANGED <<calling, request, charbuffer, result>> PROVE SurplusInv'
  BY <1>1, <1>5 DEF SurplusInv, LeavesLittle, SurplusIsBounded
<1>6. ASSUME NEW n \in 1 .. MaxBytes, Write(n) PROVE SurplusInv'
  BY <1>5, <1>6 DEF Write
<1>7. CASE Flush
  BY <1>5, <1>7 DEF Flush
<1>8. ASSUME NEW req \in Requests, Read(req) PROVE SurplusInv'
  <2>1. /\ request' = req /\ req \in Asks
        /\ IF Satisfied(req, charbuffer)
             THEN Served(req, k, m, undecoded)
             ELSE calling' = TRUE /\ UNCHANGED charbuffer
    BY <1>1, <1>2, <1>8, ReadFacts
  <2>2. LeavesLittle
    BY <1>8 DEF Read, SurplusInv
  <2>3. CASE Satisfied(req, charbuffer)
    <3>1. Served(req, k, m, undecoded)
      BY <2>1, <2>3
    <3>2. IsPlain(req) => m - k <= 2 * req.size
      BY <1>3, <2>2 DEF LeavesLittle
    <3>3. ASSUME NEW r \in Requests, IsPlain(r) PROVE m - UpTo(req, k, m) <= 2 * r.size
      <4>1. k <= UpTo(req, k, m) /\ UpTo(req, k, m) \in Nat
        BY <1>3, <2>1, UpToFacts
      <4>2. m - k <= 2 * r.size /\ r.size \in Int
        BY <1>3, <2>2, <3>3, Base64StreamAssumption DEF LeavesLittle
      <4> QED BY <4>1, <4>2
    <3>4. LeavesLittle' /\ SurplusIsBounded' /\ calling' = FALSE
      BY <1>3, <2>1, <3>1, <3>2, <3>3, ServedSurplus
    <3> QED BY <1>1, <3>4 DEF SurplusInv
  <2>4. CASE ~Satisfied(req, charbuffer)
    <3>1. calling' = TRUE /\ charbuffer' = charbuffer
      BY <2>1, <2>4
    <3> QED BY <1>1, <2>1, <2>4, <3>1 DEF SurplusInv, SurplusIsBounded
  <2> QED BY <2>3, <2>4
<1>9. ASSUME NEW n \in 1 .. 2 * MaxBytes, SourceGives(n) PROVE SurplusInv'
  <2>1. PICK M : M = WholeBytes(pos + n)
    OBVIOUS
  <2>2. /\ request' = request /\ pos \in Nat /\ calling /\ (request.size >= 0 => n <= request.size)
        /\ M \in Nat /\ m = WholeBytes(pos) /\ m <= M
        /\ IF Satisfied(request, Span(k, M))
             THEN Served(request, k, M, OpenGroup(text, pos + n))
             ELSE charbuffer' = Span(k, M) /\ UNCHANGED calling
    BY <1>1, <1>2, <1>9, <2>1, GivesFacts
  <2>3. request \in Requests /\ ~Satisfied(request, charbuffer)
    BY <2>2 DEF SurplusInv
  <2>4. n \in Nat /\ n > 0
    BY Base64StreamAssumption
  <2>5. CASE Satisfied(request, Span(k, M))
    <3>1. Served(request, k, M, OpenGroup(text, pos + n))
      BY <2>2, <2>5
    <3>2. IsPlain(request) => M - k <= 2 * request.size
      <4> SUFFICES ASSUME IsPlain(request) PROVE M - k <= 2 * request.size
        OBVIOUS
      <4>1. PICK s \in Nat : s = request.size /\ s > 1 /\ n <= s /\ m - k < s
        BY <1>3, <1>4, <2>2, <2>3 DEF IsPlain, Satisfied, Asks
      <4>2. M - m <= s + 1
        BY <2>1, <2>2, <2>4, <4>1, WholeBytesFacts
      <4> QED BY <2>2, <4>1, <4>2
    <3>3. ASSUME NEW r \in Requests, request.chars >= 0, IsPlain(r)
          PROVE  M - UpTo(request, k, M) <= 2 * r.size
      <4>1. PICK z \in Nat : z = r.size /\ z > 1
        BY <3>3, Base64StreamAssumption DEF IsPlain
      <4>2. request.size \in 0 .. 2 * z /\ n <= 2 * z
        BY <2>2, <2>3, <3>3, <4>1 DEF SizesFit, IsPlain
      <4>3. PICK c \in Nat : c = request.chars /\ m - k < c
        BY <1>3, <1>4, <2>3, <3>3 DEF Satisfied, Asks
      <4>4. PICK s \in Nat : s = 2 * z /\ n <= s /\ s > 1 /\ s <= 2 * z
        BY <4>1, <4>2
      <4>5. M - m <= 2 * z + 1
        BY <2>1, <2>2, <2>4, <4>1, <4>4, WholeBytesFacts
      <4>6. UpTo(request, k, M) = IF c < M - k THEN k + c ELSE M
        BY <4>3 DEF UpTo
      <4>7. M - (IF c < M - k THEN k + c ELSE M) <= 2 * z
        BY <2>2, <4>1, <4>3, <4>5
      <4> QED BY <4>1, <4>6, <4>7
    <3>4. LeavesLittle' /\ SurplusIsBounded' /\ calling' = FALSE
      <4>1. request \in Asks /\ request' = request /\ M \in Nat /\ k <= M
        BY <1>3, <1>4, <2>2
      <4> QED BY <3>1, <3>2, <3>3, <4>1, ServedSurplus
    <3> QED BY <1>1, <3>4 DEF SurplusInv
  <2>6. CASE ~Satisfied(request, Span(k, M))
    <3>1. charbuffer' = Span(k, M) /\ calling' = calling
      BY <2>2, <2>6
    <3> QED BY <1>1, <2>2, <2>3, <2>6, <3>1 DEF SurplusInv, SurplusIsBounded
  <2> QED BY <2>5, <2>6
<1>10. CASE SourceEnds
  <2>1. /\ request' = request /\ calling
        /\ IF k = m /\ request.chars # 0
             THEN charbuffer' = <<>> /\ calling' = FALSE /\ result' = Span(m, given) /\ given - m < 3
             ELSE Served(request, k, m, undecoded)
    BY <1>1, <1>2, <1>10, EndsFacts
  <2>2. request \in Requests /\ ~Satisfied(request, charbuffer)
    BY <2>1 DEF SurplusInv
  <2>3. CASE k = m /\ request.chars # 0
    <3>1. Len(charbuffer') = 0 /\ Len(result') = given - m /\ calling' = FALSE
      <4>1. PICK g \in Nat : g = given /\ m <= g
        BY <1>3, <1>4
      <4>2. charbuffer' = <<>> /\ result' = Span(m, g) /\ calling' = FALSE
        BY <2>1, <2>3, <4>1
      <4>3. Len(Span(m, g)) = g - m
        BY <4>1, SpanFacts
      <4> QED BY <4>1, <4>2, <4>3
    <3>2. LeavesLittle'
      <4> SUFFICES ASSUME NEW r \in Requests, IsPlain(r) PROVE 0 <= 2 * r.size
        BY <3>1 DEF LeavesLittle
      <4> QED BY Base64StreamAssumption DEF IsPlain
    <3>3. SurplusIsBounded'
      BY <1>3, <1>4, <2>1, <2>3, <3>1 DEF SurplusIsBounded, Asks
    <3> QED BY <1>1, <3>1, <3>2, <3>3 DEF SurplusInv
  <2>4. CASE ~(k = m /\ request.chars # 0)
    <3>1. Served(request, k, m, undecoded)
      BY <2>1, <2>4
    <3>2. IsPlain(request) => m - k <= 2 * request.size
      BY <1>3, <1>4, <2>2 DEF IsPlain, Satisfied, Asks
    <3>3. ASSUME NEW r \in Requests, request.chars >= 0, IsPlain(r)
          PROVE  m - UpTo(request, k, m) <= 2 * r.size
      <4>1. request.chars > m - k
        BY <1>3, <1>4, <2>2, <3>3 DEF Satisfied, Asks
      <4>2. UpTo(request, k, m) = m
        BY <1>4, <4>1 DEF UpTo, Asks
      <4> QED BY <3>3, <4>2, Base64StreamAssumption DEF IsPlain
    <3>4. LeavesLittle' /\ SurplusIsBounded' /\ calling' = FALSE
      BY <1>3, <1>4, <2>1, <3>1, <3>2, <3>3, ServedSurplus
    <3> QED BY <1>1, <3>4 DEF SurplusInv
  <2> QED BY <2>3, <2>4
<1>11. CASE UNCHANGED vars
  BY <1>5, <1>11 DEF vars
<1>12. CASE SourceIsEmpty
  BY <1>11, <1>12 DEF SourceIsEmpty
<1> QED BY <1>6, <1>7, <1>8, <1>9, <1>10, <1>11, <1>12 DEF Next, Step

(***************************************************************************)
(* A read(size) of IncrementalBase64WSStreamReader returns at most twice   *)
(* size bytes, for every size above 1: what DecryptingStreamReader, which  *)
(* asks it for the rest of a header or for a block, has to expect.         *)
(***************************************************************************)
THEOREM SurplusIsBoundedHolds == ASSUME NoEmptyRead, SizesFit PROVE Spec => []SurplusIsBounded
<1>1. Init => SurplusInv
  BY SurplusInit
<1>2. SurplusInv /\ [Next]_vars => SurplusInv'
  BY SurplusNext
<1>3. SurplusInv => SurplusIsBounded
  BY DEF SurplusInv
<1> QED BY <1>1, <1>2, <1>3, PTL DEF Spec
===============================================================================
