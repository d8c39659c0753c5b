-------------------------- MODULE CryptStreamProofs --------------------------
(***************************************************************************)
(* Proofs about the encrypting and the decrypting stream, for every size   *)
(* of a block, a header and a signature that AesKeyAssumption allows,      *)
(* every cut of the plaintext into calls of write() and of the ciphertext  *)
(* into reads of the source, and every place where the stream breaks off.  *)
(***************************************************************************)
EXTENDS CryptStream, SequenceTheorems, TLAPS

(***************************************************************************)
(* Counting in blocks.                                                     *)
(***************************************************************************)
LEMMA BlockFacts ==
  /\ BlockSize \in Nat /\ HLEN \in Nat /\ HeaderSize \in Nat
  /\ 0 < BlockSize /\ 0 < HLEN /\ 0 < HeaderSize
  /\ BlockSize < HLEN /\ HLEN < 2 * BlockSize /\ 2 * HeaderSize <= BlockSize
BY AesKeyAssumption

Whole(n) == n \in Nat /\ n % BlockSize = 0

LEMMA DivideByBlock ==
  ASSUME NEW n \in Nat
  PROVE  \E q \in Nat, r \in Nat :
           /\ n = BlockSize * q + r /\ r < BlockSize
           /\ n % BlockSize = r /\ n \div BlockSize = q
<1>1. n % BlockSize \in 0 .. BlockSize - 1
  BY BlockFacts
<1>2. n \div BlockSize \in Nat
  BY BlockFacts
<1>3. n = BlockSize * (n \div BlockSize) + (n % BlockSize)
  BY BlockFacts
<1> QED BY <1>1, <1>2, <1>3, BlockFacts

LEMMA RestOfBlocks ==
  ASSUME NEW q \in Nat, NEW r \in Nat, r < BlockSize
  PROVE  (BlockSize * q + r) % BlockSize = r
BY BlockFacts

LEMMA WholePlus ==
  ASSUME NEW m, Whole(m), NEW n \in Nat
  PROVE  (m + n) % BlockSize = n % BlockSize
<1>1. PICK q \in Nat, r \in Nat :
        m = BlockSize * q + r /\ r < BlockSize /\ m % BlockSize = r
  BY DivideByBlock DEF Whole
<1>2. PICK u \in Nat, v \in Nat :
        n = BlockSize * u + v /\ v < BlockSize /\ n % BlockSize = v
  BY DivideByBlock
<1>3. m + n = BlockSize * (q + u) + v
  BY <1>1, <1>2, BlockFacts DEF Whole
<1>4. (BlockSize * (q + u) + v) % BlockSize = v
  BY <1>2, RestOfBlocks
<1> QED BY <1>2, <1>3, <1>4

LEMMA WholeSum ==
  ASSUME NEW m, Whole(m), NEW n, Whole(n)
  PROVE  Whole(m + n)
BY WholePlus DEF Whole

LEMMA WholeBut ==
  ASSUME NEW m \in Nat
  PROVE  /\ Whole(m - (m % BlockSize)) /\ m % BlockSize \in Nat
         /\ m % BlockSize < BlockSize /\ m % BlockSize <= m
         /\ BlockSize * (m \div BlockSize) = m - (m % BlockSize)
<1>1. PICK q \in Nat, r \in Nat :
        /\ m = BlockSize * q + r /\ r < BlockSize /\ m % BlockSize = r
        /\ m \div BlockSize = q
  BY DivideByBlock
<1>2. BlockSize * q \in Nat
  BY BlockFacts
<1>3. (BlockSize * q + 0) % BlockSize = 0
  BY RestOfBlocks, BlockFacts
<1> QED BY <1>1, <1>2, <1>3, BlockFacts DEF Whole

LEMMA WholeZero == Whole(0) /\ Whole(BlockSize)
<1>1. (BlockSize * 0 + 0) % BlockSize = 0
  BY RestOfBlocks, BlockFacts
<1>2. (BlockSize * 1 + 0) % BlockSize = 0
  BY RestOfBlocks, BlockFacts
<1> QED BY <1>1, <1>2, BlockFacts DEF Whole

LEMMA SmallRest ==
  ASSUME NEW n \in Nat, n < BlockSize
  PROVE  n % BlockSize = n
<1>1. (BlockSize * 0 + n) % BlockSize = n
  BY RestOfBlocks, BlockFacts
<1> QED BY <1>1, BlockFacts

LEMMA WholeAtLeast ==
  ASSUME NEW n, Whole(n), n # 0
  PROVE  BlockSize <= n
BY SmallRest, BlockFacts DEF Whole

(***************************************************************************)
(* The bytes of s from place a + 1 to place b, Python's s[a:b].            *)
(***************************************************************************)
Cut(s, a, b) == SubSeq(s, a + 1, b)

IsCut(U, s, a, b) ==
  s \in Seq(U) /\ a \in Nat /\ b \in Nat /\ a <= b /\ b <= Len(s)

IsCut3(U, s, a, b, c) ==
  s \in Seq(U) /\ a \in Nat /\ b \in Nat /\ c \in Nat /\ a <= b /\ b <= c /\ c <= Len(s)

CutShape(U, s, a, b) ==
  /\ Cut(s, a, b) \in Seq(U) /\ Len(Cut(s, a, b)) = b - a
  /\ \A i \in 1 .. b - a : Cut(s, a, b)[i] = s[a + i]
  /\ Cut(s, a, b) = <<>> <=> a = b

LEMMA CutFacts ==
  ASSUME NEW U, NEW s, NEW a, NEW b, IsCut(U, s, a, b)
  PROVE  CutShape(U, s, a, b)
<1>1. s \in Seq(U) /\ a \in Nat /\ b \in Nat /\ a <= b /\ b <= Len(s)
  BY DEF IsCut
<1>2. PICK c : c = Cut(s, a, b)
  OBVIOUS
<1>3. c \in Seq(U) /\ Len(c) = b - a
  BY <1>1, <1>2 DEF Cut
<1>4. \A i \in 1 .. b - a : c[i] = s[a + i]
  BY <1>1, <1>2 DEF Cut
<1>5. c = <<>> <=> a = b
  BY <1>1, <1>3, EmptySeq
<1> QED BY <1>2, <1>3, <1>4, <1>5 DEF CutShape

LEMMA CutCat ==
  ASSUME NEW U, NEW s, NEW a, NEW b, NEW c, IsCut3(U, s, a, b, c)
  PROVE  Cut(s, a, b) \o Cut(s, b, c) = Cut(s, a, c)
BY DEF IsCut3, Cut

\* A cut taken apart again, with the slices that Python takes.
Slices(s, a, b, c) ==
  /\ Take(Cut(s, a, c), b - a) = Cut(s, a, b)
  /\ Drop(Cut(s, a, c), b - a) = Cut(s, b, c)
  /\ ButLast(Cut(s, a, c), c - b) = Cut(s, a, b)

LEMMA CutSlices ==
  ASSUME NEW U, NEW s, NEW a, NEW b, NEW c, IsCut3(U, s, a, b, c)
  PROVE  Slices(s, a, b, c)
<1> DEFINE t == Cut(s, a, c)
<1>1. t \in Seq(U) /\ Len(t) = c - a /\ \A i \in 1 .. c - a : t[i] = s[a + i]
  BY DEF IsCut3, Cut
<1> PICK k \in Nat : k = b - a
  BY DEF IsCut3
<1> PICK l \in Nat : l = c - a
  BY DEF IsCut3
<1>2. Take(t, k) = SubSeq(t, 1, k) /\ ButLast(t, l - k) = SubSeq(t, 1, k)
  BY <1>1 DEF IsCut3, Take, ButLast
<1>3. Drop(t, k) = SubSeq(t, k + 1, l)
  BY <1>1 DEF IsCut3, Drop
<1>4. Cut(s, a, b) \in Seq(U) /\ Len(Cut(s, a, b)) = k
      /\ \A i \in 1 .. k : Cut(s, a, b)[i] = s[a + i]
  BY DEF IsCut3, Cut
<1>5. Cut(s, b, c) \in Seq(U) /\ Len(Cut(s, b, c)) = l - k
      /\ \A i \in 1 .. l - k : Cut(s, b, c)[i] = s[b + i]
  BY DEF IsCut3, Cut
<1> HIDE DEF t
<1>6. SubSeq(t, 1, k) = Cut(s, a, b)
  <2>1. SubSeq(t, 1, k) \in Seq(U) /\ Len(SubSeq(t, 1, k)) = k
        /\ \A i \in 1 .. k : SubSeq(t, 1, k)[i] = t[i]
    BY <1>1 DEF IsCut3
  <2>2. \A i \in 1 .. k : SubSeq(t, 1, k)[i] = Cut(s, a, b)[i]
    BY <1>1, <1>4, <2>1 DEF IsCut3
  <2> QED BY <1>4, <2>1, <2>2, SeqEqual
<1>7. SubSeq(t, k + 1, l) = Cut(s, b, c)
  <2>1. SubSeq(t, k + 1, l) \in Seq(U) /\ Len(SubSeq(t, k + 1, l)) = l - k
        /\ \A i \in 1 .. l - k : SubSeq(t, k + 1, l)[i] = t[k + i]
    BY <1>1 DEF IsCut3
  <2>2. \A i \in 1 .. l - k : SubSeq(t, k + 1, l)[i] = Cut(s, b, c)[i]
    BY <1>1, <1>5, <2>1 DEF IsCut3
  <2> QED BY <1>5, <2>1, <2>2, SeqEqual
<1>8. l - k = c - b
  BY DEF IsCut3
<1> QED BY <1>2, <1>3, <1>6, <1>7, <1>8 DEF Slices, t

\* Two sequences with the same first n bytes.
SameUpTo(U, s, t, n) ==
  /\ s \in Seq(U) /\ t \in Seq(U) /\ n \in Nat /\ n <= Len(s) /\ n <= Len(t)
  /\ \A i \in 1 .. n : s[i] = t[i]

LEMMA SameCut ==
  ASSUME NEW U, NEW s, NEW t, NEW n, SameUpTo(U, s, t, n),
         NEW a \in Nat, NEW b \in Nat, a <= b, b <= n
  PROVE  Cut(s, a, b) = Cut(t, a, b)
<1>1. IsCut(U, s, a, b) /\ IsCut(U, t, a, b)
  BY DEF SameUpTo, IsCut
<1>2. CutShape(U, s, a, b) /\ CutShape(U, t, a, b)
  BY <1>1, CutFacts
<1>3. \A i \in 1 .. b - a : Cut(s, a, b)[i] = Cut(t, a, b)[i]
  BY <1>2 DEF CutShape, SameUpTo
<1> QED BY <1>2, <1>3, SeqEqual DEF CutShape

LEMMA CutSelf ==
  ASSUME NEW U, NEW s \in Seq(U)
  PROVE  Cut(s, 0, Len(s)) = s
BY DEF Cut

(***************************************************************************)
(* The kinds of bytes.  What is signed ends in a byte of padding, made at  *)
(* the place where Decrypt looks for it.                                   *)
(***************************************************************************)
PlainBytes == {"header", "iv", "cipher"} \X Int \X Nat

\* Where the ciphertext begins.
Begin == HeaderSize + BlockSize

EndsPadded(msg) ==
  \E pad \in 1 .. BlockSize : msg[Len(msg)] = <<"cipher", Len(msg) - Begin, pad>>

Padded == {msg \in Seq(PlainBytes) : Len(msg) > 0 /\ EndsPadded(msg)}

Byte == PlainBytes \cup ({"sig"} \X Int \X Padded)

LEMMA HeaderFacts ==
  /\ Header \in Seq(PlainBytes) /\ Len(Header) = HeaderSize
  /\ \A i \in 1 .. HeaderSize : Header[i] = <<"header", i, 0>>
BY BlockFacts DEF Header, PlainBytes

LEMMA IVFacts ==
  /\ IV \in Seq(PlainBytes) /\ Len(IV) = BlockSize
  /\ \A i \in 1 .. BlockSize : IV[i] = <<"iv", i, 0>>
BY BlockFacts DEF IV, PlainBytes

LEMMA CipherEncryptFacts ==
  ASSUME NEW done \in Int, NEW plain \in Seq(Nat)
  PROVE  /\ CipherEncrypt(done, plain) \in Seq(PlainBytes)
         /\ Len(CipherEncrypt(done, plain)) = Len(plain)
         /\ \A i \in 1 .. Len(plain) :
              CipherEncrypt(done, plain)[i] = <<"cipher", done + i, plain[i]>>
BY DEF CipherEncrypt, PlainBytes

LEMMA SignFacts ==
  ASSUME NEW msg \in Padded
  PROVE  /\ Sign(msg) \in Seq(Byte) /\ Len(Sign(msg)) = HLEN
         /\ \A i \in 1 .. HLEN : Sign(msg)[i] = <<"sig", i, msg>>
BY BlockFacts DEF Sign, Byte

LEMMA PlainIsByte ==
  ASSUME NEW s \in Seq(PlainBytes)
  PROVE  s \in Seq(Byte)
BY SeqMonotonic DEF Byte

\* What the cipher makes of one byte at place k of its stream.
Opened(b, k) == IF b[1] = "cipher" /\ b[2] = k THEN b[3] ELSE 0

LEMMA OpenedType ==
  ASSUME NEW b \in Byte, NEW k
  PROVE  Opened(b, k) \in Nat
<1>1. CASE b \in PlainBytes
  BY <1>1 DEF PlainBytes, Opened
<1>2. CASE b \in {"sig"} \X Int \X Padded
  BY <1>2 DEF Opened
<1> QED BY <1>1, <1>2 DEF Byte

LEMMA CipherDecryptFacts ==
  ASSUME NEW done, NEW bytes \in Seq(Byte)
  PROVE  /\ CipherDecrypt(done, bytes) \in Seq(Nat)
         /\ Len(CipherDecrypt(done, bytes)) = Len(bytes)
         /\ \A i \in 1 .. Len(bytes) :
              CipherDecrypt(done, bytes)[i] = Opened(bytes[i], done + i)
<1>1. CipherDecrypt(done, bytes) = [j \in 1 .. Len(bytes) |-> Opened(bytes[j], done + j)]
  BY DEF CipherDecrypt, Opened, Garbage
<1>2. \A j \in 1 .. Len(bytes) : Opened(bytes[j], done + j) \in Nat
  BY OpenedType
<1> QED BY <1>1, <1>2

\* A sequence of two parts.
CatShape(U, s, t, st) ==
  /\ s \in Seq(U) /\ t \in Seq(U) /\ st \in Seq(U)
  /\ Len(st) = Len(s) + Len(t)
  /\ \A i \in 1 .. Len(s) : st[i] = s[i]
  /\ \A i \in 1 .. Len(t) : st[Len(s) + i] = t[i]

LEMMA CatFacts ==
  ASSUME NEW U, NEW s \in Seq(U), NEW t \in Seq(U)
  PROVE  CatShape(U, s, t, s \o t)
BY DEF CatShape

LEMMA NatCatAssociative ==
  ASSUME NEW s \in Seq(Nat), NEW t \in Seq(Nat), NEW u \in Seq(Nat)
  PROVE  (s \o t) \o u = s \o (t \o u)
BY ConcatAssociative

LEMMA CatIs ==
  ASSUME NEW U, NEW s, NEW t, NEW st, CatShape(U, s, t, st)
  PROVE  st = s \o t
<1>1. CatShape(U, s, t, s \o t)
  BY CatFacts DEF CatShape
<1>2. ASSUME NEW i \in 1 .. Len(st)
      PROVE  st[i] = (s \o t)[i]
  <2> PICK n \in Nat : n = Len(s)
    BY DEF CatShape
  <2>1. CASE i <= n
    <3>1. i \in 1 .. Len(s)
      BY <2>1
    <3> QED BY <3>1, <1>1 DEF CatShape
  <2>2. CASE i > n
    <3>1. PICK k \in Nat : k = i - n
      BY <2>2
    <3>2. k \in 1 .. Len(t) /\ i = Len(s) + k
      BY <2>2, <3>1 DEF CatShape
    <3> QED BY <3>2, <1>1 DEF CatShape
  <2>3. i <= n \/ i > n
    BY DEF CatShape
  <2> QED BY <2>1, <2>2, <2>3
<1> QED BY <1>1, <1>2, SeqEqual DEF CatShape

LEMMA CutOfCat ==
  ASSUME NEW U, NEW s \in Seq(U), NEW t \in Seq(U)
  PROVE  Cut(s \o t, 0, Len(s)) = s /\ Cut(s \o t, Len(s), Len(s) + Len(t)) = t
<1>1. CatShape(U, s, t, s \o t)
  BY CatFacts
<1>2. PICK st \in Seq(U) : st = s \o t /\ CatShape(U, s, t, st)
  BY <1>1 DEF CatShape
<1>3. IsCut(U, st, 0, Len(s)) /\ IsCut(U, st, Len(s), Len(s) + Len(t))
  BY <1>2 DEF CatShape, IsCut
<1>4. CutShape(U, st, 0, Len(s)) /\ CutShape(U, st, Len(s), Len(s) + Len(t))
  BY <1>3, CutFacts
<1>5. Len(s) - 0 = Len(s) /\ (Len(s) + Len(t)) - Len(s) = Len(t)
  OBVIOUS
<1>6. Cut(st, 0, Len(s)) = s
  <2>1. \A i \in 1 .. Len(s) : st[0 + i] = s[i]
    BY <1>2 DEF CatShape
  <2> QED BY <1>4, <1>5, <2>1, SeqEqual DEF CutShape
<1>7. Cut(st, Len(s), Len(s) + Len(t)) = t
  <2>1. \A i \in 1 .. Len(t) : st[Len(s) + i] = t[i]
    BY <1>2 DEF CatShape
  <2> QED BY <1>4, <1>5, <2>1, SeqEqual DEF CutShape
<1> QED BY <1>2, <1>6, <1>7

LEMMA CipherDecryptCat ==
  ASSUME NEW s \in Seq(Byte), NEW t \in Seq(Byte)
  PROVE  CipherDecrypt(0, s) \o CipherDecrypt(Len(s), t) = CipherDecrypt(0, s \o t)
<1>0. CatShape(Byte, s, t, s \o t)
  BY CatFacts
<1>1. PICK st \in Seq(Byte) : st = s \o t /\ CatShape(Byte, s, t, st)
  <2> s \o t \in Seq(Byte)
    OBVIOUS
  <2> QED BY <1>0
<1>2. PICK u \in Seq(Nat) : /\ u = CipherDecrypt(0, s) /\ Len(u) = Len(s)
                            /\ \A i \in 1 .. Len(s) : u[i] = Opened(s[i], 0 + i)
  BY CipherDecryptFacts
<1>3. PICK v \in Seq(Nat) : /\ v = CipherDecrypt(Len(s), t) /\ Len(v) = Len(t)
                            /\ \A i \in 1 .. Len(t) : v[i] = Opened(t[i], Len(s) + i)
  BY CipherDecryptFacts
<1>4. PICK w \in Seq(Nat) : /\ w = CipherDecrypt(0, st) /\ Len(w) = Len(st)
                            /\ \A i \in 1 .. Len(st) : w[i] = Opened(st[i], 0 + i)
  BY CipherDecryptFacts
<1>5. \A i \in 1 .. Len(u) : w[i] = u[i]
  BY <1>1, <1>2, <1>4 DEF CatShape
<1>6. ASSUME NEW i \in 1 .. Len(v)
      PROVE  w[Len(u) + i] = v[i]
  <2>1. PICK k \in Nat : k = Len(u) + i
    OBVIOUS
  <2>2. k \in 1 .. Len(st) /\ st[k] = t[i]
    BY <1>1, <1>2, <1>3, <2>1 DEF CatShape
  <2>3. w[k] = Opened(st[k], k)
    BY <1>4, <2>2
  <2>4. v[i] = Opened(t[i], k)
    BY <1>2, <1>3, <2>1
  <2> QED BY <2>1, <2>2, <2>3, <2>4
<1>7. CatShape(Nat, u, v, w)
  BY <1>1, <1>2, <1>3, <1>4, <1>5, <1>6 DEF CatShape
<1> QED BY <1>1, <1>2, <1>3, <1>4, <1>7, CatIs

\* The plaintext with its padding: whole blocks, one byte of padding at least.
PadShape(text, padded, pad) ==
  /\ padded \in Seq(Nat) /\ pad \in 1 .. BlockSize
  /\ pad = BlockSize - (Len(text) % BlockSize)
  /\ Len(padded) = Len(text) + pad /\ Whole(Len(padded))
  /\ \A i \in 1 .. Len(text) : padded[i] = text[i]
  /\ \A i \in Len(text) + 1 .. Len(text) + pad : padded[i] = pad

LEMMA PadFacts ==
  ASSUME NEW text \in Seq(Nat)
  PROVE  \E pad : PadShape(text, Pad(text), pad)
<1> DEFINE pad == BlockSize - (Len(text) % BlockSize)
           fill == [j \in 1 .. pad |-> pad]
<1>1. /\ Whole(Len(text) - (Len(text) % BlockSize)) /\ Len(text) % BlockSize \in Nat
      /\ Len(text) % BlockSize < BlockSize /\ Len(text) % BlockSize <= Len(text)
  BY WholeBut
<1>2. pad \in 1 .. BlockSize
  BY <1>1, BlockFacts
<1>3. Len(text) + pad = (Len(text) - (Len(text) % BlockSize)) + BlockSize
  BY <1>1, BlockFacts
<1>4. Whole(Len(text) + pad)
  BY <1>1, <1>3, WholeSum, WholeZero
<1>5. Pad(text) = text \o fill
  BY DEF Pad
<1> HIDE DEF pad
<1>6. /\ fill \in Seq(Nat) /\ Len(fill) = pad
      /\ \A i \in 1 .. pad : fill[i] = pad
  BY <1>2, BlockFacts
<1> HIDE DEF fill
<1>7. /\ text \o fill \in Seq(Nat) /\ Len(text \o fill) = Len(text) + pad
      /\ \A i \in 1 .. Len(text) + pad :
           (text \o fill)[i] = IF i <= Len(text) THEN text[i] ELSE fill[i - Len(text)]
  BY <1>6, ConcatProperties
<1>8. \A i \in Len(text) + 1 .. Len(text) + pad : (text \o fill)[i] = pad
  BY <1>2, <1>6, <1>7, BlockFacts
<1>9. \A i \in 1 .. Len(text) : (text \o fill)[i] = text[i]
  BY <1>2, <1>7, BlockFacts
<1>10. PadShape(text, Pad(text), pad)
  BY <1>2, <1>4, <1>5, <1>7, <1>8, <1>9 DEF PadShape, pad
<1> QED BY <1>10

LEMMA UnPadPad ==
  ASSUME NEW text \in Seq(Nat)
  PROVE  UnPad(Pad(text)) = text
<1>1. PICK pad : PadShape(text, Pad(text), pad)
  BY PadFacts
<1>2. Pad(text)[Len(Pad(text))] = pad
  BY <1>1, BlockFacts DEF PadShape
<1>3. UnPad(Pad(text)) = SubSeq(Pad(text), 1, Len(text))
  <2>1. pad # 0
    BY <1>1, BlockFacts DEF PadShape
  <2> QED BY <1>1, <1>2, <2>1, BlockFacts DEF PadShape, UnPad, ButLast
<1>4. PICK padded \in Seq(Nat) : padded = Pad(text)
  BY <1>1 DEF PadShape
<1>5. Len(text) <= Len(padded) /\ \A i \in 1 .. Len(text) : padded[i] = text[i]
  BY <1>1, <1>4, BlockFacts DEF PadShape
<1>6. SubSeq(padded, 1, Len(text)) = text
  BY <1>5
<1> QED BY <1>3, <1>4, <1>6

\* Taking the padding off the last blocks only.
LEMMA UnPadTail ==
  ASSUME NEW s \in Seq(Nat), NEW t \in Seq(Nat), t # <<>>,
         t[Len(t)] <= Len(t), t[Len(t)] # 0
  PROVE  s \o UnPad(t) = UnPad(s \o t)
<1>1. PICK k \in Nat : k = t[Len(t)]
  OBVIOUS
<1>2. /\ s \o t \in Seq(Nat) /\ Len(s \o t) = Len(s) + Len(t)
      /\ (s \o t)[Len(s \o t)] = k
  BY <1>1
<1>3. UnPad(t) = SubSeq(t, 1, Len(t) - k)
  BY <1>1 DEF UnPad, ButLast
<1>4. UnPad(s \o t) = SubSeq(s \o t, 1, Len(s) + Len(t) - k)
  BY <1>2 DEF UnPad, ButLast
<1>5. PICK m \in Nat : m = Len(t) - k /\ m <= Len(t)
  BY <1>1
<1>6. s \o SubSeq(t, 1, m) = SubSeq(s \o t, 1, Len(s) + m)
  <2>0. CatShape(Nat, s, t, s \o t)
    BY CatFacts
  <2>1. PICK st \in Seq(Nat) : st = s \o t /\ CatShape(Nat, s, t, st)
    <3> s \o t \in Seq(Nat)
      OBVIOUS
    <3> QED BY <2>0
  <2>2. /\ SubSeq(t, 1, m) \in Seq(Nat) /\ Len(SubSeq(t, 1, m)) = m
        /\ \A i \in 1 .. m : SubSeq(t, 1, m)[i] = t[i]
    BY <1>5
  <2> PICK n \in Nat : n = Len(s) + m
    OBVIOUS
  <2>3. n = Len(s) + m /\ n <= Len(st) /\ n >= Len(s)
    BY <1>5, <2>1 DEF CatShape
  <2>4. /\ SubSeq(st, 1, n) \in Seq(Nat) /\ Len(SubSeq(st, 1, n)) = n
        /\ \A i \in 1 .. n : SubSeq(st, 1, n)[i] = st[i]
    BY <2>3
  <2>6. \A i \in 1 .. Len(s) : SubSeq(st, 1, n)[i] = s[i]
    BY <2>1, <2>3, <2>4 DEF CatShape
  <2>7. \A i \in 1 .. m : SubSeq(st, 1, n)[Len(s) + i] = t[i]
    <3> TAKE i \in 1 .. m
    <3>1. Len(s) + i \in 1 .. n /\ i \in 1 .. Len(t)
      BY <1>5, <2>3
    <3>2. st[Len(s) + i] = t[i]
      BY <2>1, <3>1 DEF CatShape
    <3> QED BY <2>4, <3>1, <3>2
  <2>5. CatShape(Nat, s, SubSeq(t, 1, m), SubSeq(st, 1, n))
    BY <2>2, <2>3, <2>4, <2>6, <2>7 DEF CatShape
  <2> QED BY <2>1, <2>3, <2>5, CatIs
<1>7. Len(s) + Len(t) - k = Len(s) + m
  BY <1>5
<1> QED BY <1>3, <1>4, <1>5, <1>6, <1>7

LEMMA UnPadType ==
  ASSUME NEW s \in Seq(Nat), s # <<>>
  PROVE  UnPad(s) \in Seq(Nat)
<1>1. PICK k \in Nat : k = s[Len(s)]
  OBVIOUS
<1>2. UnPad(s) = IF k = 0 THEN <<>> ELSE SubSeq(s, 1, Len(s) - k)
  BY <1>1 DEF UnPad, ButLast
<1>3. CASE k = 0
  BY <1>2, <1>3
<1>4. CASE k # 0 /\ k <= Len(s)
  <2>1. SubSeq(s, 1, Len(s) - k) \in Seq(Nat)
    BY <1>4
  <2> QED BY <1>2, <1>4, <2>1
<1>5. CASE k # 0 /\ k > Len(s)
  <2>1. SubSeq(s, 1, Len(s) - k) = <<>>
    BY <1>5, SubSeqEmpty
  <2> QED BY <1>2, <1>5, <2>1
<1> QED BY <1>3, <1>4, <1>5

(***************************************************************************)
(* The parts of a message.                                                 *)
(***************************************************************************)
LEMMA BeginFacts == Begin \in Nat /\ Begin = HeaderSize + BlockSize
BY BlockFacts DEF Begin

LEMMA IsShortIs ==
  ASSUME NEW w \in Seq(Byte)
  PROVE  IsShort(w) <=> Len(w) < Begin + HLEN
<1>1. CASE Len(w) <= HeaderSize
  <2>1. Drop(w, HeaderSize) = <<>>
    BY <1>1, BlockFacts DEF Drop
  <2> QED BY <1>1, <2>1, BlockFacts DEF IsShort, Begin
<1>2. CASE Len(w) > HeaderSize
  <2>1. Len(Drop(w, HeaderSize)) = Len(w) - HeaderSize
    BY <1>2, BlockFacts DEF Drop
  <2> QED BY <2>1, BlockFacts DEF IsShort, Begin
<1> QED BY <1>1, <1>2, BlockFacts

LEMMA CipherPartIs ==
  ASSUME NEW w \in Seq(Byte), NEW n \in Nat, n + HLEN = Len(w), Begin <= n
  PROVE  CipherPart(w) = Cut(w, Begin, n) /\ CutShape(Byte, w, Begin, n)
<1>1. Drop(w, HeaderSize + BlockSize) = Cut(w, Begin, Len(w))
  BY DEF Drop, Cut, Begin
<1>2. IsCut3(Byte, w, Begin, n, Len(w)) /\ IsCut(Byte, w, Begin, n)
  BY BlockFacts, BeginFacts DEF IsCut3, IsCut
<1>3. ButLast(Cut(w, Begin, Len(w)), Len(w) - n) = Cut(w, Begin, n)
  BY <1>2, CutSlices DEF Slices
<1>4. Len(w) - n = HLEN
  BY BlockFacts
<1>5. CutShape(Byte, w, Begin, n)
  BY <1>2, CutFacts
<1> QED BY <1>1, <1>3, <1>4, <1>5 DEF CipherPart

\* What Decrypt checks of a message that has a signature.
LEMMA CanDecryptIs ==
  ASSUME NEW w \in Seq(Byte), NEW n \in Nat, n + HLEN = Len(w), Begin <= n
  PROVE  CanDecrypt(w) <=>
           /\ Cut(w, n, Len(w)) = Sign(Cut(w, 0, n))
           /\ n # Begin /\ (n - Begin) % BlockSize = 0
<1>1. CipherPart(w) = Cut(w, Begin, n) /\ CutShape(Byte, w, Begin, n)
  BY CipherPartIs
<1>2. ~IsShort(w)
  BY IsShortIs, BlockFacts, BeginFacts
<1>3. Drop(w, Len(w) - HLEN) = Cut(w, n, Len(w))
  BY BlockFacts DEF Drop, Cut
<1>4. ButLast(w, HLEN) = Cut(w, 0, n)
  BY BlockFacts DEF ButLast, Cut
<1>5. CipherPart(w) # <<>> <=> n # Begin
  BY <1>1 DEF CutShape
<1>6. Len(CipherPart(w)) = n - Begin
  BY <1>1 DEF CutShape
<1> QED BY <1>2, <1>3, <1>4, <1>5, <1>6 DEF CanDecrypt

LEMMA DecryptIs ==
  ASSUME NEW w \in Seq(Byte), NEW n \in Nat, n + HLEN = Len(w), Begin <= n
  PROVE  Decrypt(w) = UnPad(CipherDecrypt(0, Cut(w, Begin, n)))
BY CipherPartIs DEF Decrypt

LEMMA CipherEncryptCat ==
  ASSUME NEW s \in Seq(Nat), NEW t \in Seq(Nat)
  PROVE  CipherEncrypt(0, s) \o CipherEncrypt(Len(s), t) = CipherEncrypt(0, s \o t)
<1>0. CatShape(Nat, s, t, s \o t)
  BY CatFacts
<1>1. PICK st \in Seq(Nat) : st = s \o t /\ CatShape(Nat, s, t, st)
  <2> s \o t \in Seq(Nat)
    OBVIOUS
  <2> QED BY <1>0
<1>2. PICK u \in Seq(PlainBytes) :
        /\ u = CipherEncrypt(0, s) /\ Len(u) = Len(s)
        /\ \A i \in 1 .. Len(s) : u[i] = <<"cipher", 0 + i, s[i]>>
  BY CipherEncryptFacts
<1>3. PICK v \in Seq(PlainBytes) :
        /\ v = CipherEncrypt(Len(s), t) /\ Len(v) = Len(t)
        /\ \A i \in 1 .. Len(t) : v[i] = <<"cipher", Len(s) + i, t[i]>>
  BY CipherEncryptFacts
<1>4. PICK w \in Seq(PlainBytes) :
        /\ w = CipherEncrypt(0, st) /\ Len(w) = Len(st)
        /\ \A i \in 1 .. Len(st) : w[i] = <<"cipher", 0 + i, st[i]>>
  BY CipherEncryptFacts
<1>5. ASSUME NEW i \in 1 .. Len(u)
      PROVE  w[i] = u[i]
  <2>1. i \in 1 .. Len(st) /\ i \in 1 .. Len(s) /\ st[i] = s[i]
    BY <1>1, <1>2 DEF CatShape
  <2>2. 0 + i = i
    OBVIOUS
  <2>3. w[i] = <<"cipher", i, st[i]>>
    BY <1>4, <2>1, <2>2
  <2>4. u[i] = <<"cipher", i, s[i]>>
    BY <1>2, <2>1, <2>2
  <2> QED BY <2>1, <2>3, <2>4
<1>6. ASSUME NEW i \in 1 .. Len(v)
      PROVE  w[Len(u) + i] = v[i]
  <2>1. PICK k \in Nat : k = Len(u) + i
    OBVIOUS
  <2>2. k \in 1 .. Len(st) /\ st[k] = t[i]
    BY <1>1, <1>2, <1>3, <2>1 DEF CatShape
  <2>3. w[k] = <<"cipher", k, st[k]>>
    BY <1>4, <2>2
  <2>4. v[i] = <<"cipher", k, t[i]>>
    BY <1>2, <1>3, <2>1
  <2> QED BY <2>1, <2>2, <2>3, <2>4
<1>7. CatShape(PlainBytes, u, v, w)
  BY <1>1, <1>2, <1>3, <1>4, <1>5, <1>6 DEF CatShape
<1> QED BY <1>1, <1>2, <1>3, <1>4, <1>7, CatIs

Message(text) == Header \o IV \o CipherEncrypt(0, text)

MessageShape(text, msg) ==
  /\ msg \in Seq(PlainBytes) /\ Len(msg) = Begin + Len(text)
  /\ \A i \in 1 .. HeaderSize : msg[i] = Header[i]
  /\ \A i \in 1 .. Len(text) : msg[Begin + i] = <<"cipher", i, text[i]>>

LEMMA MessageFacts ==
  ASSUME NEW text \in Seq(Nat)
  PROVE  MessageShape(text, Message(text))
<1>1. PICK c \in Seq(PlainBytes) :
        /\ c = CipherEncrypt(0, text) /\ Len(c) = Len(text)
        /\ \A i \in 1 .. Len(text) : c[i] = <<"cipher", 0 + i, text[i]>>
  BY CipherEncryptFacts
<1>2. PICK a \in Seq(PlainBytes) : a = Header \o IV /\ CatShape(PlainBytes, Header, IV, a)
  <2>1. Header \o IV \in Seq(PlainBytes)
    BY HeaderFacts, IVFacts, ConcatProperties
  <2>2. CatShape(PlainBytes, Header, IV, Header \o IV)
    BY HeaderFacts, IVFacts, CatFacts
  <2> QED BY <2>1, <2>2
<1>3. PICK m \in Seq(PlainBytes) : m = a \o c /\ CatShape(PlainBytes, a, c, m)
  <2>1. a \o c \in Seq(PlainBytes)
    OBVIOUS
  <2>2. CatShape(PlainBytes, a, c, a \o c)
    BY CatFacts
  <2> QED BY <2>1, <2>2
<1>4. Len(a) = Begin /\ \A i \in 1 .. HeaderSize : a[i] = Header[i] /\ i \in 1 .. Len(a)
  BY <1>2, HeaderFacts, IVFacts, BlockFacts DEF CatShape, Begin
<1>5. \A i \in 1 .. HeaderSize : m[i] = Header[i]
  BY <1>3, <1>4 DEF CatShape
<1>6. \A i \in 1 .. Len(text) : m[Begin + i] = <<"cipher", i, text[i]>>
  <2> TAKE i \in 1 .. Len(text)
  <2>1. m[Len(a) + i] = c[i]
    BY <1>1, <1>3 DEF CatShape
  <2>2. c[i] = <<"cipher", i, text[i]>>
    BY <1>1
  <2> QED BY <1>4, <2>1, <2>2
<1>7. Len(m) = Begin + Len(text)
  BY <1>1, <1>3, <1>4 DEF CatShape
<1>8. m = Message(text)
  BY <1>1, <1>2, <1>3 DEF Message
<1> QED BY <1>5, <1>6, <1>7, <1>8 DEF MessageShape

LEMMA MessageCat ==
  ASSUME NEW s \in Seq(Nat), NEW t \in Seq(Nat)
  PROVE  Message(s) \o CipherEncrypt(Len(s), t) = Message(s \o t)
<1>1. CipherEncrypt(0, s) \in Seq(PlainBytes) /\ CipherEncrypt(Len(s), t) \in Seq(PlainBytes)
  BY CipherEncryptFacts
<1>2. Header \o IV \in Seq(PlainBytes)
  BY HeaderFacts, IVFacts, ConcatProperties
<1>3. Message(s) \o CipherEncrypt(Len(s), t)
        = (Header \o IV) \o (CipherEncrypt(0, s) \o CipherEncrypt(Len(s), t))
  <2>1. PICK a \in Seq(PlainBytes) : a = Header \o IV
    BY <1>2
  <2>2. PICK b \in Seq(PlainBytes) : b = CipherEncrypt(0, s)
    BY <1>1
  <2>3. PICK c \in Seq(PlainBytes) : c = CipherEncrypt(Len(s), t)
    BY <1>1
  <2>4. (a \o b) \o c = a \o (b \o c)
    BY ConcatAssociative
  <2>5. Message(s) = a \o b
    BY <2>1, <2>2 DEF Message
  <2> QED BY <2>1, <2>2, <2>3, <2>4, <2>5
<1> QED BY <1>3, CipherEncryptCat DEF Message

LEMMA MessagePadded ==
  ASSUME NEW text \in Seq(Nat)
  PROVE  Message(Pad(text)) \in Padded
<1>1. PICK pad : PadShape(text, Pad(text), pad)
  BY PadFacts
<1>2. PICK p \in Seq(Nat) : p = Pad(text)
  BY <1>1 DEF PadShape
<1>3. Len(p) \in 1 .. Len(p) /\ p[Len(p)] \in 1 .. BlockSize
  BY <1>1, <1>2, BlockFacts DEF PadShape
<1>4. MessageShape(p, Message(p))
  BY MessageFacts
<1>5. PICK m \in Seq(PlainBytes) : m = Message(p) /\ MessageShape(p, m)
  BY <1>4 DEF MessageShape
<1>6. Len(m) = Begin + Len(p) /\ Len(m) > 0
  BY <1>3, <1>5, BeginFacts DEF MessageShape
<1>7. m[Len(m)] = <<"cipher", Len(p), p[Len(p)]>>
  BY <1>3, <1>5, <1>6 DEF MessageShape
<1>8. Len(m) - Begin = Len(p)
  BY <1>3, <1>6, BeginFacts
<1> QED BY <1>2, <1>3, <1>5, <1>6, <1>7, <1>8 DEF Padded, EndsPadded

LEMMA EncryptIs ==
  ASSUME NEW text
  PROVE  Encrypt(text) = Message(Pad(text)) \o Sign(Message(Pad(text)))
BY DEF Encrypt, Message

\* A signed message, and how far the signature reaches.
SignedShape(m, w) ==
  /\ m \in Padded /\ w \in Seq(Byte) /\ Len(w) = Len(m) + HLEN
  /\ Cut(w, 0, Len(m)) = m /\ Cut(w, Len(m), Len(w)) = Sign(m)
  /\ \A i \in 1 .. Len(m) : w[i] = m[i]
  /\ \A i \in 1 .. HLEN : w[Len(m) + i] = <<"sig", i, m>>

LEMMA SignedFacts ==
  ASSUME NEW m \in Padded
  PROVE  SignedShape(m, m \o Sign(m))
<1>1. m \in Seq(PlainBytes) /\ m \in Seq(Byte)
  BY PlainIsByte DEF Padded
<1>2. PICK g \in Seq(Byte) :
        /\ g = Sign(m) /\ Len(g) = HLEN /\ \A i \in 1 .. HLEN : g[i] = <<"sig", i, m>>
  BY SignFacts
<1>3. CatShape(Byte, m, g, m \o g)
  BY <1>1, CatFacts
<1>4. PICK w \in Seq(Byte) : w = m \o g /\ CatShape(Byte, m, g, w)
  BY <1>3 DEF CatShape
<1>5. Len(w) = Len(m) + HLEN /\ Len(m) \in Nat
  BY <1>1, <1>2, <1>4 DEF CatShape
<1>6. IsCut(Byte, w, 0, Len(m)) /\ IsCut(Byte, w, Len(m), Len(w))
  BY <1>5, BlockFacts DEF IsCut
<1>7. CutShape(Byte, w, 0, Len(m)) /\ CutShape(Byte, w, Len(m), Len(w))
  BY <1>6, CutFacts
<1>8. Cut(w, 0, Len(m)) = m
  <2>1. \A i \in 1 .. Len(m) : w[0 + i] = m[i]
    BY <1>4 DEF CatShape
  <2>2. Len(m) - 0 = Len(m)
    BY <1>5
  <2> QED BY <1>1, <1>7, <2>1, <2>2, SeqEqual DEF CutShape
<1>9. Cut(w, Len(m), Len(w)) = g
  <2>1. \A i \in 1 .. HLEN : w[Len(m) + i] = g[i]
    BY <1>2, <1>4 DEF CatShape
  <2>2. Len(w) - Len(m) = HLEN
    BY <1>5, BlockFacts
  <2> QED BY <1>2, <1>7, <2>1, <2>2, SeqEqual DEF CutShape
<1>10. \A i \in 1 .. HLEN : w[Len(m) + i] = <<"sig", i, m>>
  BY <1>2, <1>4 DEF CatShape
<1>11. \A i \in 1 .. Len(m) : w[i] = m[i]
  BY <1>4 DEF CatShape
<1> QED BY <1>2, <1>4, <1>5, <1>8, <1>9, <1>10, <1>11 DEF SignedShape

\* The ciphertext up to place h of w opens as the first k bytes of text.
OpensAs(text, k, w, h) ==
  /\ CipherDecrypt(0, Cut(w, Begin, h)) \in Seq(Nat)
  /\ Len(CipherDecrypt(0, Cut(w, Begin, h))) = k
  /\ \A i \in 1 .. k : CipherDecrypt(0, Cut(w, Begin, h))[i] = text[i]

Carries(text, k, w, h) ==
  /\ text \in Seq(Nat) /\ k \in Nat /\ k <= Len(text) /\ h \in Nat
  /\ h = Begin + k /\ SameUpTo(Byte, w, Message(text), h)

LEMMA DecryptMessage ==
  ASSUME NEW text, NEW k, NEW w, NEW h, Carries(text, k, w, h)
  PROVE  OpensAs(text, k, w, h)
<1> USE DEF Carries
<1>1. MessageShape(text, Message(text))
  BY MessageFacts
<1>2. IsCut(Byte, w, Begin, h)
  BY BeginFacts DEF IsCut, SameUpTo
<1>0. h - Begin = k
  BY BeginFacts
<1>3. CutShape(Byte, w, Begin, h)
  BY <1>2, CutFacts
<1>4. PICK c \in Seq(Byte) : c = Cut(w, Begin, h)
  BY <1>3 DEF CutShape
<1>5. Len(c) = k
  BY <1>3, <1>4, BeginFacts DEF CutShape
<1>6. \A i \in 1 .. k : c[i] = <<"cipher", i, text[i]>>
  <2> TAKE i \in 1 .. k
  <2>1. c[i] = w[Begin + i]
    BY <1>0, <1>3, <1>4 DEF CutShape
  <2>2. Begin + i \in 1 .. h /\ i \in 1 .. Len(text)
    BY BeginFacts
  <2>3. w[Begin + i] = Message(text)[Begin + i]
    BY <2>2 DEF SameUpTo
  <2>4. Message(text)[Begin + i] = <<"cipher", i, text[i]>>
    BY <1>1, <2>2 DEF MessageShape
  <2> QED BY <2>1, <2>3, <2>4
<1>7. \A i \in 1 .. k : Opened(c[i], 0 + i) = text[i]
  BY <1>6 DEF Opened
<1>8. /\ CipherDecrypt(0, c) \in Seq(Nat) /\ Len(CipherDecrypt(0, c)) = Len(c)
      /\ \A i \in 1 .. Len(c) : CipherDecrypt(0, c)[i] = Opened(c[i], 0 + i)
  BY CipherDecryptFacts
<1> QED BY <1>4, <1>5, <1>7, <1>8 DEF OpensAs

(***************************************************************************)
(* Decrypt accepts what Encrypt makes of a plaintext and gives it back,    *)
(* for every plaintext, the empty one and whole blocks included.           *)
(***************************************************************************)
THEOREM DecryptOfEncrypt ==
  ASSUME NEW text \in Seq(Nat)
  PROVE  CanDecrypt(Encrypt(text)) /\ Decrypt(Encrypt(text)) = text
<1>1. PICK pad : PadShape(text, Pad(text), pad)
  BY PadFacts
<1>2. PICK p \in Seq(Nat) : p = Pad(text)
  BY <1>1 DEF PadShape
<1>3. Whole(Len(p)) /\ Len(p) # 0
  <2>1. Whole(Len(p))
    BY <1>1, <1>2 DEF PadShape
  <2>2. Len(p) # 0
    BY <1>1, <1>2, BlockFacts DEF PadShape
  <2> QED BY <2>1, <2>2
<1>4. MessageShape(p, Message(p))
  BY MessageFacts
<1>5. PICK m \in Padded : m = Message(p)
  BY <1>2, MessagePadded
<1>6. SignedShape(m, m \o Sign(m))
  BY SignedFacts
<1>7. PICK w \in Seq(Byte) : w = m \o Sign(m) /\ SignedShape(m, w)
  BY <1>6 DEF SignedShape
<1>8. w = Encrypt(text)
  BY <1>2, <1>5, <1>7, EncryptIs
<1>9. PICK n \in Nat : n = Len(m) /\ n = Begin + Len(p)
  BY <1>4, <1>5, BeginFacts DEF MessageShape
<1>10. n + HLEN = Len(w) /\ Begin <= n /\ n # Begin /\ n - Begin = Len(p)
  BY <1>3, <1>7, <1>9, BeginFacts DEF SignedShape
<1>11. Cut(w, n, Len(w)) = Sign(Cut(w, 0, n))
  BY <1>7, <1>9 DEF SignedShape
<1>12. CanDecrypt(w)
  BY <1>3, <1>10, <1>11, CanDecryptIs DEF Whole
<1>13. SameUpTo(Byte, w, Message(p), n)
  <2>1. m \in Seq(Byte)
    BY PlainIsByte DEF Padded
  <2> QED BY <1>5, <1>7, <1>9, <1>10, <2>1, BlockFacts DEF SameUpTo, SignedShape
<1>14. CipherDecrypt(0, Cut(w, Begin, n)) = p
  <2>1. Carries(p, Len(p), w, n)
    BY <1>9, <1>13 DEF Carries
  <2>2. OpensAs(p, Len(p), w, n)
    BY <2>1, DecryptMessage
  <2> QED BY <2>2, SeqEqual DEF OpensAs
<1>15. Decrypt(w) = UnPad(p)
  BY <1>10, <1>14, DecryptIs
<1> QED BY <1>2, <1>8, <1>12, <1>15, UnPadPad

(***************************************************************************)
(* The writer's steps in terms of AesKey's operators.                      *)
(***************************************************************************)
LEMMA WriterOps ==
  /\ W!Header = Header /\ W!IV = IV
  /\ \A s, n : W!Take(s, n) = Take(s, n) /\ W!Drop(s, n) = Drop(s, n)
  /\ \A n : W!NoPadBufferSize(n) = NoPadBufferSize(n)
  /\ \A s : W!Pad(s) = Pad(s) /\ W!Sign(s) = Sign(s)
  /\ \A d, s : W!CipherEncrypt(d, s) = CipherEncrypt(d, s)
BY DEF W!Header, Header, W!IV, IV, W!Take, Take, W!Drop, Drop, W!NoPadBufferSize,
       NoPadBufferSize, W!Pad, Pad, W!Sign, Sign, W!CipherEncrypt, CipherEncrypt

IsSpan(a, b, c) == a \in Nat /\ b \in Nat /\ c \in Nat /\ a <= b /\ b <= c

BytesShape(a, b, n, t) ==
  /\ t \in Seq(Nat) /\ n \in Nat /\ n = b - a /\ Len(t) = n
  /\ \A i \in 1 .. n : t[i] = BlockSize + a + i

LEMMA BytesFacts ==
  ASSUME NEW a \in Nat, NEW b \in Nat, a <= b
  PROVE  BytesShape(a, b, b - a, W!Bytes(a, b))
BY BlockFacts DEF W!Bytes, BytesShape

LEMMA BytesStart ==
  ASSUME NEW n \in Nat
  PROVE  W!Bytes(0, n) \in Seq(Nat) /\ Len(W!Bytes(0, n)) = n
BY BlockFacts DEF W!Bytes

LEMMA BytesPlain ==
  ASSUME NEW a \in Nat, NEW b \in Nat, a <= b, b <= MaxData
  PROVE  IsBytes(W!Bytes(a, b), Plain)
BY BlockFacts, CryptStreamAssumption DEF W!Bytes, IsBytes, Plain

LEMMA SpanShapes ==
  ASSUME NEW a, NEW b, NEW c, IsSpan(a, b, c)
  PROVE  \E p \in Nat, q \in Nat :
           /\ p = b - a /\ q = c - b /\ c - a = p + q
           /\ BytesShape(a, b, p, W!Bytes(a, b)) /\ BytesShape(b, c, q, W!Bytes(b, c))
           /\ BytesShape(a, c, p + q, W!Bytes(a, c))
<1> PICK p \in Nat : p = b - a
  BY DEF IsSpan
<1> PICK q \in Nat : q = c - b
  BY DEF IsSpan
<1>1. a \in Nat /\ b \in Nat /\ c \in Nat /\ a <= b /\ b <= c /\ a <= c /\ c - a = p + q
  BY DEF IsSpan
<1>2. BytesShape(a, b, p, W!Bytes(a, b))
  BY <1>1, BytesFacts
<1>3. BytesShape(b, c, q, W!Bytes(b, c))
  BY <1>1, BytesFacts
<1>4. BytesShape(a, c, c - a, W!Bytes(a, c))
  BY <1>1, BytesFacts
<1> QED BY <1>1, <1>2, <1>3, <1>4

LEMMA BytesCat ==
  ASSUME NEW a, NEW b, NEW c, IsSpan(a, b, c)
  PROVE  W!Bytes(a, b) \o W!Bytes(b, c) = W!Bytes(a, c)
<1>1. PICK p \in Nat, q \in Nat :
        /\ p = b - a /\ q = c - b /\ c - a = p + q
        /\ BytesShape(a, b, p, W!Bytes(a, b)) /\ BytesShape(b, c, q, W!Bytes(b, c))
        /\ BytesShape(a, c, p + q, W!Bytes(a, c))
  BY SpanShapes
<1>2. ASSUME NEW s, NEW t, NEW u, BytesShape(a, b, p, s), BytesShape(b, c, q, t),
             BytesShape(a, c, p + q, u)
      PROVE  CatShape(Nat, s, t, u)
  <2>1. \A i \in 1 .. p : u[i] = s[i]
    BY <1>2 DEF BytesShape
  <2>2. \A i \in 1 .. q : u[p + i] = t[i]
    BY <1>1, <1>2, BlockFacts DEF BytesShape, IsSpan
  <2> QED BY <1>2, <2>1, <2>2 DEF BytesShape, CatShape
<1>3. CatShape(Nat, W!Bytes(a, b), W!Bytes(b, c), W!Bytes(a, c))
  BY <1>1, <1>2
<1> QED BY <1>3, CatIs

LEMMA BytesCut ==
  ASSUME NEW a, NEW b, NEW c, IsSpan(a, b, c)
  PROVE  /\ Cut(W!Bytes(a, c), 0, b - a) = W!Bytes(a, b)
         /\ Cut(W!Bytes(a, c), b - a, c - a) = W!Bytes(b, c)
<1>1. PICK p \in Nat, q \in Nat :
        /\ p = b - a /\ q = c - b /\ c - a = p + q
        /\ BytesShape(a, b, p, W!Bytes(a, b)) /\ BytesShape(b, c, q, W!Bytes(b, c))
        /\ BytesShape(a, c, p + q, W!Bytes(a, c))
  BY SpanShapes
<1>2. PICK s \in Seq(Nat) : s = W!Bytes(a, b) /\ Len(s) = p
  BY <1>1 DEF BytesShape
<1>3. PICK t \in Seq(Nat) : t = W!Bytes(b, c) /\ Len(t) = q
  BY <1>1 DEF BytesShape
<1>4. W!Bytes(a, c) = s \o t
  BY <1>2, <1>3, BytesCat
<1>5. Cut(s \o t, 0, Len(s)) = s /\ Cut(s \o t, Len(s), Len(s) + Len(t)) = t
  BY CutOfCat
<1> QED BY <1>1, <1>2, <1>3, <1>4, <1>5

\* What write() sends on: the whole blocks, and less than a block is kept.
LEMMA NoPadBufferSizeIs ==
  ASSUME NEW n \in Nat
  PROVE  LET size == NoPadBufferSize(n)
             now == IF n >= size THEN size ELSE 0
         IN  Whole(now) /\ now <= n /\ n - now < BlockSize
<1>1. CASE n < BlockSize
  BY <1>1, BlockFacts, WholeZero DEF NoPadBufferSize
<1>2. CASE n >= BlockSize
  <2>1. /\ Whole(n - (n % BlockSize)) /\ n % BlockSize \in Nat
        /\ n % BlockSize < BlockSize /\ n % BlockSize <= n
        /\ BlockSize * (n \div BlockSize) = n - (n % BlockSize)
    BY WholeBut
  <2>2. NoPadBufferSize(n) = n - (n % BlockSize)
    BY <1>2, <2>1, BlockFacts DEF NoPadBufferSize
  <2>3. n >= n - (n % BlockSize)
    BY <2>1
  <2>4. n - (n - (n % BlockSize)) < BlockSize
    BY <2>1, BlockFacts
  <2> QED BY <2>1, <2>2, <2>3, <2>4
<1> QED BY <1>1, <1>2, BlockFacts

(***************************************************************************)
(* The writer's invariant.  data is always the end of what the application *)
(* has written.  Until there is a second flush() the output is, as far as  *)
(* it goes, the message that Encrypt makes; eof may have cut it.           *)
(***************************************************************************)
First == given - Len(data)

Sent == IF flushes = 0 THEN W!Bytes(0, First) ELSE Pad(W!Given)

Output == IF flushes = 0 THEN mac ELSE mac \o Sign(mac)

FlushedOnce == flushes = 0 \/ MaxFlushes <= 1

TypeInv ==
  /\ TypeOK
  /\ data \in Seq(Nat) /\ mac \in Seq(PlainBytes) /\ wire \in Seq(Byte)
  /\ got \in Seq(Byte) /\ enc \in Seq(Byte) /\ hmac \in Seq(Byte)
  /\ dec \in Seq(Nat) /\ returned \in Seq(Nat)

DataInv ==
  /\ Len(data) <= given /\ Whole(First)
  /\ data = W!Bytes(First, given)

HeaderInv ==
  /\ Begin <= Len(mac)
  /\ ~eof => Begin <= Len(wire)
  /\ \A i \in 1 .. HeaderSize : i <= Len(wire) => wire[i] = Header[i]

OutputInv ==
  FlushedOnce => /\ mac = Message(Sent)
                 /\ SameUpTo(Byte, wire, Output, Len(wire))
                 /\ ~eof => wire = Output

WriterInv == DataInv /\ HeaderInv /\ OutputInv

LEMMA GivenFacts ==
  ASSUME TypeInv, DataInv
  PROVE  \E g, m : /\ g \in Nat /\ m \in Nat /\ g = First /\ m = given
                   /\ g <= m /\ m <= MaxData /\ Whole(g)
                   /\ Len(data) = m - g /\ Len(data) < BlockSize
                   /\ data = W!Bytes(g, m)
<1>1. given \in Nat /\ given <= MaxData /\ Len(data) \in Nat /\ Len(data) < BlockSize
  BY CryptStreamAssumption DEF TypeInv, TypeOK
<1>2. First \in Nat /\ First <= given /\ Len(data) = given - First
  BY <1>1 DEF First, DataInv
<1>3. data = W!Bytes(First, given) /\ Whole(First)
  BY DEF DataInv
<1> QED BY <1>1, <1>2, <1>3

\* write(n) sends now bytes, from First on.
WriteShape(n, now, g, m, x) ==
  /\ g \in Nat /\ m \in Nat /\ g <= m /\ g = First /\ m = given
  /\ m + n <= MaxData
  /\ n \in Nat /\ now \in Nat /\ Whole(now) /\ Whole(g)
  /\ g + now <= m + n /\ (m + n) - (g + now) < BlockSize
  /\ x = CipherEncrypt(Len(mac) - Begin, W!Bytes(g, g + now))
  /\ data' = W!Bytes(g + now, m + n) /\ given' = m + n
  /\ mac' = mac \o x /\ wire' = wire \o x
  /\ closed' = closed /\ flushes' = flushes /\ flushes < MaxFlushes

LEMMA WriteIs ==
  ASSUME TypeInv, DataInv, NEW n \in 1 .. MaxData, W!Write(n)
  PROVE  \E now, g, m, x : WriteShape(n, now, g, m, x)
<1>1. PICK g, m : /\ g \in Nat /\ m \in Nat /\ g = First /\ m = given
                  /\ g <= m /\ m <= MaxData /\ Whole(g)
                  /\ Len(data) = m - g /\ Len(data) < BlockSize
                  /\ data = W!Bytes(g, m)
  BY GivenFacts
<1>2. n \in Nat /\ m + n \in Nat
  BY <1>1, CryptStreamAssumption
<1>3. IsSpan(g, m, m + n)
  BY <1>1, <1>2 DEF IsSpan
<1>4. data \o W!Bytes(given, given + n) = W!Bytes(g, m + n)
  BY <1>1, <1>3, BytesCat
<1>5. BytesShape(g, m + n, (m + n) - g, W!Bytes(g, m + n))
  BY <1>1, <1>2, BytesFacts
<1>6. PICK k \in Nat : k = (m + n) - g
  BY <1>1, <1>2
<1>7. PICK b \in Seq(Nat) : b = W!Bytes(g, m + n) /\ Len(b) = k
  BY <1>5, <1>6 DEF BytesShape
<1>8. PICK now : now = IF k >= NoPadBufferSize(k) THEN NoPadBufferSize(k) ELSE 0
  OBVIOUS
<1>9. Whole(now) /\ now <= k /\ k - now < BlockSize /\ now \in Nat
  <2>1. Whole(now) /\ now <= k /\ k - now < BlockSize
    BY <1>8, NoPadBufferSizeIs
  <2> QED BY <2>1 DEF Whole
<1>10. /\ m + n <= MaxData /\ flushes < MaxFlushes
       /\ wire' = wire \o CipherEncrypt(Len(mac) - HeaderSize - BlockSize, Take(b, now))
       /\ mac' = mac \o CipherEncrypt(Len(mac) - HeaderSize - BlockSize, Take(b, now))
       /\ data' = Drop(b, now)
       /\ given' = m + n /\ closed' = closed /\ flushes' = flushes
  BY <1>1, <1>4, <1>7, <1>8, WriterOps DEF W!Write, W!Encrypted, W!Done
<1>11. PICK c \in Nat : c = g + now
  BY <1>1, <1>9
<1>12. IsSpan(g, c, m + n) /\ c - g = now /\ (m + n) - g = k
  BY <1>1, <1>2, <1>6, <1>9, <1>11 DEF IsSpan
<1>13. Cut(b, 0, now) = W!Bytes(g, c) /\ Cut(b, now, k) = W!Bytes(c, m + n)
  BY <1>7, <1>12, BytesCut
<1>14. Take(b, now) = Cut(b, 0, now)
  BY <1>7, <1>9 DEF Take, Cut
<1>15. Drop(b, now) = Cut(b, now, k)
  BY <1>7 DEF Drop, Cut
<1>16. Len(mac) - HeaderSize - BlockSize = Len(mac) - Begin
  BY BlockFacts DEF Begin, TypeInv
<1>17. g + now <= m + n /\ (m + n) - (g + now) < BlockSize
  BY <1>1, <1>2, <1>6, <1>9, BlockFacts
<1>18. WriteShape(n, now, g, m, CipherEncrypt(Len(mac) - Begin, W!Bytes(g, g + now)))
  BY <1>1, <1>2, <1>9, <1>10, <1>11, <1>13, <1>14, <1>15, <1>16, <1>17 DEF WriteShape
<1> QED BY <1>18

FlushShape(x) ==
  /\ x = CipherEncrypt(Len(mac) - Begin, Pad(data))
  /\ mac' = mac \o x /\ wire' = (wire \o x) \o Sign(mac \o x)
  /\ flushes < MaxFlushes /\ flushes' = flushes + 1
  /\ data' = data /\ closed' = closed /\ given' = given

LEMMA FlushIs ==
  ASSUME TypeInv, W!Flush
  PROVE  \E x : FlushShape(x)
<1>1. Len(mac) - HeaderSize - BlockSize = Len(mac) - Begin
  BY BlockFacts DEF Begin, TypeInv
<1>2. FlushShape(CipherEncrypt(Len(mac) - Begin, Pad(data)))
  BY <1>1, WriterOps DEF W!Flush, W!Encrypted, W!Done, FlushShape
<1> QED BY <1>2

LEMMA AppendPadded ==
  ASSUME NEW m \in Seq(PlainBytes), NEW text \in Seq(Nat), NEW d, d = Len(m) - Begin
  PROVE  m \o CipherEncrypt(d, Pad(text)) \in Padded
<1>1. PICK pad : PadShape(text, Pad(text), pad)
  BY PadFacts
<1>2. PICK p \in Seq(Nat) : p = Pad(text)
  BY <1>1 DEF PadShape
<1>3. Len(p) \in 1 .. Len(p) /\ p[Len(p)] \in 1 .. BlockSize /\ d \in Int
  BY <1>1, <1>2, BlockFacts, BeginFacts DEF PadShape
<1>4. PICK c \in Seq(PlainBytes) :
        /\ c = CipherEncrypt(d, p) /\ Len(c) = Len(p)
        /\ \A i \in 1 .. Len(p) : c[i] = <<"cipher", d + i, p[i]>>
  BY <1>3, CipherEncryptFacts
<1>5. CatShape(PlainBytes, m, c, m \o c)
  BY CatFacts
<1>6. PICK w \in Seq(PlainBytes) : w = m \o c /\ CatShape(PlainBytes, m, c, w)
  BY <1>5 DEF CatShape
<1>7. Len(w) > 0 /\ w[Len(w)] = c[Len(p)]
  BY <1>3, <1>4, <1>6 DEF CatShape
<1>8. c[Len(p)] = <<"cipher", d + Len(p), p[Len(p)]>>
  BY <1>3, <1>4
<1>9. d + Len(p) = Len(w) - Begin
  BY <1>4, <1>6, BeginFacts DEF CatShape
<1> QED BY <1>2, <1>3, <1>4, <1>6, <1>7, <1>8, <1>9 DEF Padded, EndsPadded

LEMMA GrowSame ==
  ASSUME NEW U, NEW s \in Seq(U), NEW t \in Seq(U)
  PROVE  /\ SameUpTo(U, s, s \o t, Len(s)) /\ s \o t \in Seq(U)
         /\ Len(s \o t) = Len(s) + Len(t)
<1>1. CatShape(U, s, t, s \o t)
  BY CatFacts
<1> QED BY <1>1 DEF CatShape, SameUpTo

\* A step of the writer appends to the output.
WriterEffect ==
  /\ data' \in Seq(Nat) /\ mac' \in Seq(PlainBytes) /\ wire' \in Seq(Byte)
  /\ IsBytes(data, Plain)' /\ Len(data') < BlockSize
  /\ given' \in 0 .. MaxData /\ flushes' \in 0 .. MaxFlushes /\ closed' \in BOOLEAN
  /\ Len(mac) <= Len(mac')
  /\ SameUpTo(Byte, wire, wire', Len(wire)) /\ Len(wire) <= Len(wire')

LEMMA WriteEffect ==
  ASSUME TypeInv, NEW n, NEW now, NEW g, NEW m, NEW x, WriteShape(n, now, g, m, x)
  PROVE  WriterEffect /\ DataInv' /\ x \in Seq(PlainBytes)
<1>1. g \in Nat /\ g + now \in Nat /\ m + n \in Nat /\ g <= g + now /\ g + now <= m + n
  BY DEF WriteShape
<1>2. BytesShape(g, g + now, (g + now) - g, W!Bytes(g, g + now))
  BY <1>1, BytesFacts
<1>3. BytesShape(g + now, m + n, (m + n) - (g + now), W!Bytes(g + now, m + n))
  BY <1>1, BytesFacts
<1>4. W!Bytes(g, g + now) \in Seq(Nat) /\ Len(mac) - Begin \in Int
  BY <1>2, BeginFacts DEF BytesShape, TypeInv
<1>5. x \in Seq(PlainBytes) /\ x \in Seq(Byte)
  BY <1>4, CipherEncryptFacts, PlainIsByte DEF WriteShape
<1>6. data' \in Seq(Nat) /\ Len(data') = (m + n) - (g + now)
  BY <1>3 DEF WriteShape, BytesShape
<1>7. IsBytes(data, Plain)'
  <2>1. IsBytes(W!Bytes(g + now, m + n), Plain)
    BY <1>1, BytesPlain DEF WriteShape
  <2> QED BY <2>1 DEF WriteShape, IsBytes, Plain
<1>8. mac' \in Seq(PlainBytes) /\ Len(mac) <= Len(mac')
  BY <1>5, GrowSame DEF WriteShape, TypeInv
<1>9. SameUpTo(Byte, wire, wire', Len(wire)) /\ wire' \in Seq(Byte) /\ Len(wire) <= Len(wire')
  <2>1. /\ SameUpTo(Byte, wire, wire \o x, Len(wire)) /\ wire \o x \in Seq(Byte)
        /\ Len(wire \o x) = Len(wire) + Len(x)
    BY <1>5, GrowSame DEF TypeInv
  <2>2. Len(wire) \in Nat /\ Len(x) \in Nat
    BY <1>5 DEF TypeInv
  <2>3. wire' = wire \o x
    BY DEF WriteShape
  <2> QED BY <2>1, <2>2, <2>3
<1>10. given' \in 0 .. MaxData /\ flushes' \in 0 .. MaxFlushes /\ closed' \in BOOLEAN
  BY <1>1, CryptStreamAssumption DEF WriteShape, TypeInv, TypeOK
<1>11. Len(data') < BlockSize
  BY <1>6 DEF WriteShape
<1>12. WriterEffect
  BY <1>6, <1>7, <1>8, <1>9, <1>10, <1>11 DEF WriterEffect
<1>13. First' = g + now /\ Len(data') <= given'
  BY <1>1, <1>6 DEF First, WriteShape
<1>14. Whole(g + now)
  BY WholeSum DEF WriteShape
<1>15. (Whole(First))'
  BY <1>13, <1>14 DEF Whole
<1>16. (data = W!Bytes(First, given))'
  <2>1. data' = W!Bytes(First', given')
    BY <1>13 DEF WriteShape
  <2> QED BY <2>1 DEF W!Bytes
<1> QED BY <1>5, <1>12, <1>13, <1>15, <1>16 DEF DataInv

LEMMA FlushEffect ==
  ASSUME TypeInv, DataInv, NEW x, FlushShape(x)
  PROVE  /\ WriterEffect /\ DataInv' /\ x \in Seq(PlainBytes)
         /\ mac' \in Padded
<1>1. Len(mac) - Begin \in Int /\ Pad(data) \in Seq(Nat)
  BY BeginFacts, PadFacts DEF TypeInv, PadShape
<1>2. x \in Seq(PlainBytes) /\ x \in Seq(Byte)
  BY <1>1, CipherEncryptFacts, PlainIsByte DEF FlushShape
<1>3. mac \o x \in Padded
  BY <1>1, AppendPadded DEF FlushShape, TypeInv
<1>4. mac' \in Seq(PlainBytes) /\ Len(mac) <= Len(mac')
  BY <1>2, GrowSame DEF FlushShape, TypeInv
<1>5. Sign(mac \o x) \in Seq(Byte)
  BY <1>3, SignFacts
<1>6. PICK y \in Seq(Byte) : y = x \o Sign(mac \o x)
  BY <1>2, <1>5, ConcatProperties
<1>7. wire' = wire \o y
  <2>1. PICK z \in Seq(Byte) : z = Sign(mac \o x)
    BY <1>5
  <2>0. wire \in Seq(Byte)
    BY DEF TypeInv
  <2>2. (wire \o x) \o z = wire \o (x \o z)
    BY <1>2, <2>0, ConcatAssociative
  <2> QED BY <1>6, <2>1, <2>2 DEF FlushShape
<1>8. SameUpTo(Byte, wire, wire', Len(wire)) /\ wire' \in Seq(Byte) /\ Len(wire) <= Len(wire')
  <2>1. /\ SameUpTo(Byte, wire, wire \o y, Len(wire)) /\ wire \o y \in Seq(Byte)
        /\ Len(wire \o y) = Len(wire) + Len(y)
    BY <1>6, GrowSame DEF TypeInv
  <2>2. Len(wire) \in Nat /\ Len(y) \in Nat
    BY DEF TypeInv
  <2> QED BY <1>7, <2>1, <2>2
<1>9. /\ data' \in Seq(Nat) /\ Len(data') < BlockSize /\ given' \in 0 .. MaxData
      /\ closed' \in BOOLEAN
  BY DEF FlushShape, TypeInv, TypeOK
<1>10. IsBytes(data, Plain)'
  BY DEF FlushShape, TypeInv, TypeOK, IsBytes, Plain
<1>11. flushes' \in 0 .. MaxFlushes
  BY CryptStreamAssumption DEF FlushShape, TypeInv, TypeOK
<1>12. WriterEffect
  BY <1>4, <1>8, <1>9, <1>10, <1>11 DEF WriterEffect
<1>13. DataInv'
  BY DEF DataInv, FlushShape, First, Whole, W!Bytes
<1> QED BY <1>2, <1>3, <1>12, <1>13 DEF FlushShape

(***************************************************************************)
(* The output is the message as far as it goes.                            *)
(***************************************************************************)
LEMMA WriteOutput ==
  ASSUME TypeInv, WriterInv, ~eof, eof' = eof,
         NEW n, NEW now, NEW g, NEW m, NEW x, WriteShape(n, now, g, m, x)
  PROVE  OutputInv'
<1> SUFFICES ASSUME FlushedOnce' PROVE /\ (mac = Message(Sent))'
                                       /\ SameUpTo(Byte, wire, Output, Len(wire))'
                                       /\ (~eof => wire = Output)'
  BY DEF OutputInv
<1>1. flushes = 0 /\ flushes' = 0
  BY CryptStreamAssumption DEF FlushedOnce, WriteShape, TypeInv, TypeOK
<1>2. mac = Message(W!Bytes(0, g)) /\ wire = mac
  BY <1>1 DEF WriterInv, OutputInv, FlushedOnce, Sent, Output, WriteShape
<1>3. IsSpan(0, g, g + now)
  BY DEF IsSpan, WriteShape
<1>4. PICK s \in Seq(Nat) : s = W!Bytes(0, g) /\ Len(s) = g
  <2> g \in Nat
    BY DEF WriteShape
  <2> QED BY BytesStart
<1>5. PICK t \in Seq(Nat) : t = W!Bytes(g, g + now)
  <2>1. BytesShape(g, g + now, (g + now) - g, W!Bytes(g, g + now))
    BY <1>3, BytesFacts DEF IsSpan
  <2> QED BY <2>1 DEF BytesShape
<1>6. s \o t = W!Bytes(0, g + now)
  BY <1>3, <1>4, <1>5, BytesCat
<1>7. MessageShape(s, Message(s))
  BY MessageFacts
<1>8. Len(mac) - Begin = g
  BY <1>2, <1>4, <1>7, BeginFacts DEF MessageShape, WriteShape
<1>9. mac' = Message(W!Bytes(0, g + now))
  <2>1. Message(s) \o CipherEncrypt(Len(s), t) = Message(s \o t)
    BY MessageCat
  <2>2. mac' = mac \o CipherEncrypt(Len(mac) - Begin, W!Bytes(g, g + now))
    BY DEF WriteShape
  <2> QED BY <1>2, <1>4, <1>5, <1>6, <1>8, <2>1, <2>2
<1>10. First' = g + now
  <2>1. BytesShape(g + now, m + n, (m + n) - (g + now), W!Bytes(g + now, m + n))
    <3> g + now \in Nat /\ m + n \in Nat /\ g + now <= m + n
      BY DEF WriteShape
    <3> QED BY BytesFacts
  <2>2. Len(data') = (m + n) - (g + now)
    BY <2>1 DEF BytesShape, WriteShape
  <2> QED BY <2>2 DEF First, WriteShape
<1>11. Sent' = W!Bytes(0, g + now)
  BY <1>1, <1>10 DEF Sent, W!Bytes
<1>12. (mac = Message(Sent))'
  <2>1. Message(Sent)' = Message(Sent')
    BY DEF Message, CipherEncrypt, Header, IV
  <2> QED BY <1>9, <1>11, <2>1
<1>13. wire' = mac' /\ Output' = mac'
  BY <1>1, <1>2 DEF Output, WriteShape
<1>14. wire' \in Seq(Byte)
  BY WriteEffect DEF WriterEffect
<1>15. SameUpTo(Byte, wire, Output, Len(wire))'
  BY <1>13, <1>14 DEF SameUpTo
<1> QED BY <1>12, <1>13, <1>15

LEMMA PadGiven ==
  ASSUME NEW g \in Nat, NEW m \in Nat, g <= m, Whole(g)
  PROVE  W!Bytes(0, g) \o Pad(W!Bytes(g, m)) = Pad(W!Bytes(0, m))
<1>1. IsSpan(0, g, m)
  BY DEF IsSpan
<1>2. PICK s \in Seq(Nat) : s = W!Bytes(0, g) /\ Len(s) = g
  BY BytesStart
<1>3. PICK t \in Seq(Nat) : t = W!Bytes(g, m) /\ Len(t) = m - g
  <2>1. BytesShape(g, m, m - g, W!Bytes(g, m))
    BY BytesFacts
  <2> QED BY <2>1 DEF BytesShape
<1>4. s \o t = W!Bytes(0, m) /\ Len(s \o t) = g + Len(t)
  <2>1. W!Bytes(0, g) \o W!Bytes(g, m) = W!Bytes(0, m)
    BY <1>1, BytesCat
  <2>2. Len(s \o t) = Len(s) + Len(t)
    OBVIOUS
  <2> QED BY <1>2, <1>3, <2>1, <2>2
<1>5. Len(s \o t) % BlockSize = Len(t) % BlockSize
  <2> Len(t) \in Nat
    OBVIOUS
  <2> QED BY <1>4, WholePlus
<1>6. PICK pad \in Nat : pad = BlockSize - (Len(t) % BlockSize)
  <2>1. Len(t) \in Nat
    OBVIOUS
  <2>2. Len(t) % BlockSize \in Nat /\ Len(t) % BlockSize < BlockSize
    BY <2>1, WholeBut
  <2> QED BY <2>2, BlockFacts
<1>7. PICK f \in Seq(Nat) : f = [j \in 1 .. pad |-> pad]
  <2> [j \in 1 .. pad |-> pad] \in Seq(Nat)
    OBVIOUS
  <2> QED OBVIOUS
<1>8. Pad(t) = t \o f /\ Pad(s \o t) = (s \o t) \o f
  BY <1>5, <1>6, <1>7 DEF Pad
<1>9. (s \o t) \o f = s \o (t \o f)
  BY NatCatAssociative
<1> QED BY <1>2, <1>3, <1>4, <1>8, <1>9

LEMMA FlushOutput ==
  ASSUME TypeInv, WriterInv, ~eof, NEW x, FlushShape(x), flushes = 0
  PROVE  /\ mac' = Message(Pad(W!Given))
         /\ wire' = mac' \o Sign(mac')
<1>1. PICK g, m : /\ g \in Nat /\ m \in Nat /\ g = First /\ m = given
                  /\ g <= m /\ m <= MaxData /\ Whole(g)
                  /\ Len(data) = m - g /\ Len(data) < BlockSize
                  /\ data = W!Bytes(g, m)
  BY GivenFacts DEF WriterInv
<1>2. mac = Message(W!Bytes(0, g)) /\ wire = mac
  BY <1>1 DEF WriterInv, OutputInv, FlushedOnce, Sent, Output
<1>3. PICK s \in Seq(Nat) : s = W!Bytes(0, g) /\ Len(s) = g
  BY <1>1, BytesStart
<1>4. PICK t \in Seq(Nat) : t = Pad(data)
  BY PadFacts DEF PadShape, TypeInv
<1>5. MessageShape(s, Message(s))
  BY MessageFacts
<1>6. Len(mac) - Begin = Len(s)
  BY <1>2, <1>3, <1>5, BeginFacts DEF MessageShape
<1>7. mac \o x = Message(s \o t)
  BY <1>2, <1>3, <1>4, <1>6, MessageCat DEF FlushShape
<1>8. s \o t = Pad(W!Given)
  BY <1>1, <1>3, <1>4, PadGiven DEF W!Given
<1> QED BY <1>2, <1>7, <1>8 DEF FlushShape

LEMMA HeaderKept ==
  ASSUME TypeInv, HeaderInv, ~eof, WriterEffect
  PROVE  HeaderInv'
<1>1. Begin <= Len(wire) /\ Begin <= Len(mac)
  BY DEF HeaderInv
<1>2. Begin' = Begin /\ Header' = Header
  BY DEF Begin, Header
<1>3. Begin <= Len(wire') /\ Begin <= Len(mac')
  BY <1>1, BeginFacts DEF WriterEffect, TypeInv
<1>4. \A i \in 1 .. HeaderSize : wire'[i] = Header[i]
  <2> TAKE i \in 1 .. HeaderSize
  <2>1. i \in 1 .. Len(wire) /\ i <= Len(wire)
    BY <1>1, BeginFacts, BlockFacts DEF TypeInv
  <2>2. wire[i] = Header[i]
    BY <2>1 DEF HeaderInv
  <2>3. wire[i] = wire'[i]
    BY <2>1 DEF WriterEffect, SameUpTo
  <2> QED BY <2>2, <2>3
<1> QED BY <1>2, <1>3, <1>4 DEF HeaderInv

LEMMA WriterStep ==
  ASSUME TypeInv, WriterInv, Writer
  PROVE  WriterInv' /\ WriterEffect
<1>1. ~eof /\ eof' = eof /\ W!WriterNext
  BY DEF Writer
<1>2. ASSUME NEW n \in 1 .. MaxData, W!Write(n)
      PROVE  WriterInv' /\ WriterEffect
  <2>1. PICK now, g, m, x : WriteShape(n, now, g, m, x)
    BY <1>2, WriteIs DEF WriterInv
  <2>2. WriterEffect /\ DataInv'
    BY <2>1, WriteEffect
  <2>3. OutputInv'
    BY <1>1, <2>1, WriteOutput
  <2>4. HeaderInv'
    BY <1>1, <2>2, HeaderKept DEF WriterInv
  <2> QED BY <2>2, <2>3, <2>4 DEF WriterInv
<1>3. CASE W!Flush
  <2>1. PICK x : FlushShape(x)
    BY <1>3, FlushIs
  <2>2. WriterEffect /\ DataInv' /\ mac' \in Padded
    BY <2>1, FlushEffect DEF WriterInv
  <2>3. OutputInv'
    <3> SUFFICES ASSUME FlushedOnce' PROVE /\ (mac = Message(Sent))'
                                           /\ SameUpTo(Byte, wire, Output, Len(wire))'
                                           /\ (~eof => wire = Output)'
      BY DEF OutputInv
    <3>1. flushes = 0 /\ flushes' = 1
      BY <2>1, CryptStreamAssumption DEF FlushedOnce, FlushShape, TypeInv, TypeOK
    <3>2. mac' = Message(Pad(W!Given)) /\ wire' = mac' \o Sign(mac')
      BY <1>1, <2>1, <3>1, FlushOutput
    <3>3. Sent' = Pad(W!Given)
      BY <2>1, <3>1 DEF Sent, FlushShape, Pad, W!Given, W!Bytes
    <3>4. (mac = Message(Sent))'
      <4>1. Message(Sent)' = Message(Sent')
        BY DEF Message, CipherEncrypt, Header, IV
      <4> QED BY <3>2, <3>3, <4>1
    <3>5. Output' = mac' \o Sign(mac')
      BY <3>1 DEF Output, Sign
    <3>6. wire' = Output' /\ wire' \in Seq(Byte)
      BY <2>2, <3>2, <3>5 DEF WriterEffect
    <3>7. SameUpTo(Byte, wire, Output, Len(wire))'
      BY <3>6 DEF SameUpTo
    <3> QED BY <3>4, <3>6, <3>7
  <2>4. HeaderInv'
    BY <1>1, <2>2, HeaderKept DEF WriterInv
  <2> QED BY <2>2, <2>3, <2>4 DEF WriterInv
<1>4. CASE W!Close
  <2>1. /\ data' = data /\ mac' = mac /\ wire' = wire /\ given' = given /\ flushes' = flushes
        /\ closed' = TRUE
    BY <1>4 DEF W!Close
  <2>2. WriterEffect
    <3>1. IsBytes(data, Plain)'
      BY <2>1 DEF TypeInv, TypeOK, IsBytes, Plain
    <3>2. SameUpTo(Byte, wire, wire', Len(wire))
      BY <2>1 DEF TypeInv, SameUpTo
    <3>3. Len(mac) <= Len(mac') /\ Len(wire) <= Len(wire')
      BY <2>1 DEF TypeInv
    <3> QED BY <2>1, <3>1, <3>2, <3>3 DEF WriterEffect, TypeInv, TypeOK
  <2>3. DataInv'
    BY <2>1 DEF WriterInv, DataInv, First, Whole, W!Bytes
  <2>4. HeaderInv'
    BY <1>1, <2>2, HeaderKept DEF WriterInv
  <2>5. Sent' = Sent /\ Output' = Output /\ FlushedOnce' = FlushedOnce
    BY <2>1 DEF Sent, Output, FlushedOnce, First, Pad, Sign, W!Given, W!Bytes
  <2>6. Message(Sent)' = Message(Sent')
    BY DEF Message, CipherEncrypt, Header, IV
  <2>7. SameUpTo(Byte, wire, Output, Len(wire))' <=> SameUpTo(Byte, wire', Output', Len(wire'))
    BY DEF SameUpTo, Byte, PlainBytes, Padded
  <2>8. OutputInv'
    BY <1>1, <2>1, <2>5, <2>6, <2>7 DEF WriterInv, OutputInv
  <2> QED BY <2>2, <2>3, <2>4, <2>8 DEF WriterInv
<1> QED BY <1>1, <1>2, <1>3, <1>4 DEF W!WriterNext

\* The end of the stream cuts it behind what has been read.
FinishShape(n) ==
  /\ n \in Nat /\ pos <= n /\ n <= Len(wire) /\ wire' = Cut(wire, 0, n)
  /\ wire' \in Seq(Byte) /\ Len(wire') = n /\ SameUpTo(Byte, wire, wire', n)
  /\ ~eof /\ eof' = TRUE

LEMMA FinishIs ==
  ASSUME TypeInv, Finish
  PROVE  \E n : FinishShape(n)
<1>1. PICK n \in Nat : pos <= n /\ n <= Len(wire) /\ wire' = Cut(wire, 0, n)
  <2>1. CASE MayLose
    <3>1. PICK n \in pos .. Len(wire) : wire' = Take(wire, n)
      BY <2>1 DEF Finish
    <3>2. n \in Nat /\ pos <= n /\ n <= Len(wire)
      BY <3>1 DEF TypeInv, TypeOK
    <3>3. Take(wire, n) = Cut(wire, 0, n)
      BY <3>2 DEF Take, Cut, TypeInv
    <3> QED BY <3>1, <3>2, <3>3
  <2>2. CASE ~MayLose
    <3>1. wire' = wire
      BY <2>2 DEF Finish
    <3>2. Cut(wire, 0, Len(wire)) = wire
      BY CutSelf DEF TypeInv
    <3> QED BY <3>1, <3>2 DEF TypeInv, TypeOK
  <2> QED BY <2>1, <2>2
<1>2. IsCut(Byte, wire, 0, n)
  BY <1>1 DEF IsCut, TypeInv
<1>3. CutShape(Byte, wire, 0, n)
  BY <1>2, CutFacts
<1>4. PICK w \in Seq(Byte) : w = wire' /\ Len(w) = n /\ \A i \in 1 .. n : w[i] = wire[i]
  BY <1>1, <1>3 DEF CutShape
<1>5. SameUpTo(Byte, wire, wire', n)
  BY <1>1, <1>4 DEF SameUpTo, TypeInv
<1> QED BY <1>1, <1>4, <1>5 DEF FinishShape, Finish

LEMMA FinishWriterInv ==
  ASSUME TypeInv, WriterInv, Finish
  PROVE  WriterInv'
<1>1. PICK n : FinishShape(n)
  BY FinishIs
<1>2. /\ data' = data /\ mac' = mac /\ given' = given /\ flushes' = flushes
      /\ closed' = closed
  BY DEF Finish, writerVars
<1>3. DataInv'
  BY <1>2 DEF WriterInv, DataInv, First, Whole, W!Bytes
<1>4. HeaderInv'
  <2>1. \A i \in 1 .. HeaderSize : i <= Len(wire') => wire'[i] = Header[i]
    BY <1>1, BlockFacts DEF WriterInv, HeaderInv, FinishShape, SameUpTo, TypeInv
  <2>2. Begin' = Begin /\ Header' = Header
    BY DEF Begin, Header
  <2>3. eof' /\ Begin <= Len(mac')
    BY <1>1, <1>2 DEF FinishShape, WriterInv, HeaderInv
  <2> QED BY <2>1, <2>2, <2>3 DEF HeaderInv
<1>5. Sent' = Sent /\ Output' = Output /\ FlushedOnce' = FlushedOnce
  BY <1>2 DEF Sent, Output, FlushedOnce, First, Pad, Sign, W!Given, W!Bytes
<1>6. Message(Sent)' = Message(Sent')
  BY DEF Message, CipherEncrypt, Header, IV
<1>7. SameUpTo(Byte, wire, Output, Len(wire))' <=> SameUpTo(Byte, wire', Output', Len(wire'))
  BY DEF SameUpTo, Byte, PlainBytes, Padded
<1>8. ASSUME SameUpTo(Byte, wire, Output, Len(wire))
      PROVE  SameUpTo(Byte, wire', Output, Len(wire'))
  BY <1>1, <1>8 DEF SameUpTo, FinishShape
<1>9. OutputInv'
  BY <1>1, <1>2, <1>5, <1>6, <1>7, <1>8 DEF WriterInv, OutputInv, FinishShape
<1> QED BY <1>3, <1>4, <1>9 DEF WriterInv

(***************************************************************************)
(* The reader's steps in terms of AesKey's operators.                      *)
(***************************************************************************)
LEMMA ReaderOps ==
  /\ R!Header = Header
  /\ \A s, n : /\ R!Take(s, n) = Take(s, n) /\ R!Drop(s, n) = Drop(s, n)
               /\ R!ButLast(s, n) = ButLast(s, n)
  /\ \A s : R!UnPad(s) = UnPad(s) /\ R!Sign(s) = Sign(s)
  /\ \A d, s : R!CipherDecrypt(d, s) = CipherDecrypt(d, s)
BY DEF R!Header, Header, R!Take, Take, R!Drop, Drop, R!ButLast, ButLast, R!UnPad, UnPad,
       R!Sign, Sign, R!CipherDecrypt, CipherDecrypt, R!Garbage, Garbage

Goes == /\ calling' = calling /\ dec' = dec /\ returned' = returned
        /\ ended' = ended /\ raised' = raised

Raises == /\ calling' = FALSE /\ raised' = TRUE
          /\ dec' = dec /\ returned' = returned /\ ended' = ended

\* The plaintext is cut in what is returned, r, and what is kept, d.
ReturnShape(plain, avail, r, d) ==
  /\ r \in Seq(Nat) /\ d \in Seq(Nat) /\ plain = r \o d
  /\ 0 \notin Requests /\ r = <<>> => plain = <<>>
  /\ calling' = FALSE /\ raised' = raised
  /\ returned' = returned \o r /\ dec' = d
  /\ ended' = (ended \/ (r = <<>> /\ ~avail))

Returns(plain, avail) == \E r, d : ReturnShape(plain, avail, r, d)

LEMMA ReturnIs ==
  ASSUME TypeInv, NEW plain \in Seq(Nat), NEW avail, R!Return(plain, avail)
  PROVE  Returns(plain, avail)
<1> DEFINE result == IF chars < 0 THEN plain ELSE Take(plain, chars)
<1>1. chars \in Int /\ (chars \in Requests \/ chars = -1)
  BY CryptStreamAssumption DEF TypeInv, TypeOK
<1>2. PICK k \in Nat : /\ k <= Len(plain) /\ result = Cut(plain, 0, k)
                       /\ 0 \notin Requests /\ k = 0 => Len(plain) = 0
  <2>1. CASE chars < 0
    <3>1. result = Cut(plain, 0, Len(plain))
      BY <2>1, CutSelf
    <3> QED BY <3>1
  <2>2. CASE chars >= 0 /\ chars < Len(plain)
    <3>1. result = Cut(plain, 0, chars)
      BY <1>1, <2>2 DEF Take, Cut
    <3>2. chars \in Nat /\ (0 \notin Requests => chars # 0)
      BY <1>1, <2>2
    <3> QED BY <2>2, <3>1, <3>2
  <2>3. CASE chars >= Len(plain)
    <3>1. result = Cut(plain, 0, Len(plain))
      BY <1>1, <2>3 DEF Take, Cut
    <3> QED BY <3>1
  <2> QED BY <1>1, <2>1, <2>2, <2>3
<1>3. IsCut(Nat, plain, 0, k) /\ IsCut3(Nat, plain, 0, k, Len(plain))
      /\ IsCut(Nat, plain, k, Len(plain))
  BY <1>2 DEF IsCut, IsCut3
<1>4. CutShape(Nat, plain, 0, k) /\ CutShape(Nat, plain, k, Len(plain))
  BY <1>3, CutFacts
<1>5. Cut(plain, 0, k) \o Cut(plain, k, Len(plain)) = plain
  BY <1>3, CutCat, CutSelf
<1>6. Len(result) = k /\ (result = <<>> <=> k = 0)
  BY <1>2, <1>4 DEF CutShape
<1>7. Drop(plain, Len(result)) = Cut(plain, k, Len(plain))
  BY <1>6 DEF Drop, Cut
<1>8. result = <<>> /\ 0 \notin Requests => plain = <<>>
  BY <1>2, <1>6
<1>9. /\ calling' = FALSE /\ raised' = raised /\ returned' = returned \o result
      /\ dec' = Drop(plain, Len(result)) /\ ended' = (ended \/ (result = <<>> /\ ~avail))
  BY ReaderOps DEF R!Return
<1>10. result \in Seq(Nat) /\ Cut(plain, k, Len(plain)) \in Seq(Nat)
  BY <1>2, <1>4 DEF CutShape
<1> HIDE DEF result
<1>11. ReturnShape(plain, avail, result, Cut(plain, k, Len(plain)))
  BY <1>2, <1>5, <1>7, <1>8, <1>9, <1>10 DEF ReturnShape
<1> QED BY <1>11 DEF Returns

LEMMA ReturnsFacts ==
  ASSUME TypeInv, NEW plain \in Seq(Nat), NEW avail, Returns(plain, avail)
  PROVE  /\ dec' \in Seq(Nat) /\ returned' \in Seq(Nat)
         /\ returned' \o dec' = returned \o plain
         /\ calling' = FALSE /\ raised' = raised /\ ended' \in BOOLEAN
         /\ 0 \notin Requests /\ ended' => ended \/ (plain = <<>> /\ ~avail)
         /\ plain = <<>> => dec' = <<>>
         /\ avail = TRUE => ended' = ended
<1>1. PICK r, d : ReturnShape(plain, avail, r, d)
  BY DEF Returns
<1>2. r \in Seq(Nat) /\ d \in Seq(Nat) /\ returned \in Seq(Nat) /\ ended \in BOOLEAN
  BY <1>1 DEF ReturnShape, TypeInv, TypeOK
<1>3. (returned \o r) \o d = returned \o (r \o d)
  BY <1>2, ConcatAssociative
<1>4. returned \o r \in Seq(Nat)
  BY <1>2, ConcatProperties
<1>5. plain = <<>> => d = <<>>
  <2>1. r \o d = <<>> => d = <<>>
    BY <1>2, ConcatEqualIffEmpty
  <2>2. plain = r \o d
    BY <1>1 DEF ReturnShape
  <2> QED BY <2>1, <2>2
<1>6. returned' \o dec' = returned \o plain
  BY <1>1, <1>3 DEF ReturnShape
<1>7. dec' \in Seq(Nat) /\ returned' \in Seq(Nat) /\ (plain = <<>> => dec' = <<>>)
  BY <1>1, <1>2, <1>4, <1>5 DEF ReturnShape
<1>8. /\ calling' = FALSE /\ raised' = raised /\ ended' \in BOOLEAN
      /\ 0 \notin Requests /\ ended' => ended \/ (plain = <<>> /\ ~avail)
      /\ avail = TRUE => ended' = ended
  BY <1>1, <1>2 DEF ReturnShape
<1> QED BY <1>6, <1>7, <1>8

(***************************************************************************)
(* What the loop of read() decrypts: the first k bytes of its buffer.      *)
(***************************************************************************)
DecryptsShape(buffer, avail, k, now) ==
  /\ buffer \in Seq(Byte) /\ k \in Nat /\ k <= Len(buffer)
  /\ now = Cut(buffer, 0, k)
  /\ avail = TRUE => Whole(k) /\ (k = 0 \/ k + HLEN + BlockSize <= Len(buffer))
  /\ avail = FALSE => k + HLEN = Len(buffer) \/ (k = 0 /\ Len(buffer) <= HLEN)

LEMMA ButLastIs ==
  ASSUME NEW s \in Seq(Byte), NEW n \in Nat
  PROVE  \E k \in Nat : /\ ButLast(s, n) = Cut(s, 0, k) /\ k <= Len(s)
                        /\ k + n = Len(s) \/ (k = 0 /\ Len(s) <= n)
<1>1. CASE n <= Len(s)
  <2>1. PICK k \in Nat : k = Len(s) - n
    BY <1>1
  <2>2. ButLast(s, n) = Cut(s, 0, k)
    BY <2>1 DEF ButLast, Cut
  <2>3. k + n = Len(s) /\ k <= Len(s)
    BY <2>1
  <2> QED BY <2>2, <2>3
<1>2. CASE n > Len(s)
  <2>1. SubSeq(s, 1, Len(s) - n) = <<>>
    BY <1>2, SubSeqEmpty
  <2>2. SubSeq(s, 1, 0) = <<>>
    BY SubSeqEmpty
  <2>3. ButLast(s, n) = Cut(s, 0, 0)
    BY <2>1, <2>2 DEF ButLast, Cut
  <2> QED BY <1>2, <2>3
<1> QED BY <1>1, <1>2

LEMMA CutOfStart ==
  ASSUME NEW U, NEW s \in Seq(U), NEW k \in Nat, NEW j \in Nat, j <= k, k <= Len(s)
  PROVE  ButLast(Cut(s, 0, k), k - j) = Cut(s, 0, j)
<1>1. IsCut3(U, s, 0, j, k)
  BY DEF IsCut3
<1> QED BY <1>1, CutSlices DEF Slices

LEMMA ToDecryptIs ==
  ASSUME NEW buffer \in Seq(Byte), NEW avail \in BOOLEAN
  PROVE  \E k : DecryptsShape(buffer, avail, k, R!ToDecrypt(buffer, avail))
<1>1. CASE avail = FALSE
  <2>1. R!ToDecrypt(buffer, avail) = ButLast(buffer, HLEN)
    BY <1>1, ReaderOps DEF R!ToDecrypt, R!Reserved
  <2>2. PICK k \in Nat : /\ ButLast(buffer, HLEN) = Cut(buffer, 0, k) /\ k <= Len(buffer)
                         /\ k + HLEN = Len(buffer) \/ (k = 0 /\ Len(buffer) <= HLEN)
    BY BlockFacts, ButLastIs
  <2>3. DecryptsShape(buffer, avail, k, R!ToDecrypt(buffer, avail))
    BY <1>1, <2>1, <2>2 DEF DecryptsShape
  <2> QED BY <2>3
<1>2. CASE avail = TRUE
  <2>1. HLEN + BlockSize \in Nat
    BY BlockFacts
  <2>2. PICK k \in Nat : /\ ButLast(buffer, HLEN + BlockSize) = Cut(buffer, 0, k)
                         /\ k <= Len(buffer)
                         /\ \/ k + (HLEN + BlockSize) = Len(buffer)
                            \/ k = 0 /\ Len(buffer) <= HLEN + BlockSize
    BY <2>1, ButLastIs
  <2>3. Len(Cut(buffer, 0, k)) = k
    <3>1. IsCut(Byte, buffer, 0, k)
      BY <2>2 DEF IsCut
    <3>2. CutShape(Byte, buffer, 0, k)
      BY <3>1, CutFacts
    <3> QED BY <3>2 DEF CutShape
  <2>4. R!ToDecrypt(buffer, avail) = ButLast(Cut(buffer, 0, k), k % BlockSize)
    BY <1>2, <2>2, <2>3, ReaderOps DEF R!ToDecrypt, R!Reserved
  <2>5. /\ Whole(k - (k % BlockSize)) /\ k % BlockSize \in Nat /\ k % BlockSize <= k
    BY WholeBut
  <2>6. PICK j \in Nat : j = k - (k % BlockSize) /\ j <= k /\ k - j = k % BlockSize
    BY <2>5
  <2>7. ButLast(Cut(buffer, 0, k), k % BlockSize) = Cut(buffer, 0, j)
    BY <2>2, <2>6, CutOfStart
  <2>8. j = 0 \/ j + HLEN + BlockSize <= Len(buffer)
    BY <2>2, <2>6, BlockFacts
  <2>9. j <= Len(buffer)
    BY <2>2, <2>6
  <2>10. DecryptsShape(buffer, avail, j, R!ToDecrypt(buffer, avail))
    BY <1>2, <2>4, <2>5, <2>6, <2>7, <2>8, <2>9 DEF DecryptsShape
  <2> QED BY <2>10
<1> QED BY <1>1, <1>2

\* The branches of the loop.  opened is what the cipher makes of now.
MoreShape(buffer, avail, k, now, rest, opened) ==
  /\ DecryptsShape(buffer, avail, k, now)
  /\ now \in Seq(Byte) /\ Len(now) = k
  /\ rest \in Seq(Byte) /\ Len(rest) = Len(buffer) - k /\ rest = Cut(buffer, k, Len(buffer))
  /\ opened = CipherDecrypt(Len(hmac) - Begin, now) /\ opened \in Seq(Nat) /\ Len(opened) = k
  /\ stage' = stage

MoreWaits(buffer, avail, k) ==
  /\ k = 0 /\ enc' = buffer /\ hmac' = hmac
  /\ \/ avail = TRUE /\ Goes
     \/ avail = FALSE /\ Returns(dec, avail)

MoreStreams(avail, k, now, rest, opened) ==
  /\ k # 0 /\ avail = TRUE
  /\ hmac' = hmac \o now /\ enc' = rest
  /\ Returns(dec \o opened, avail)

MoreHalfBlock(avail, k, now, rest) ==
  /\ k # 0 /\ avail = FALSE /\ k % BlockSize # 0
  /\ hmac' = hmac \o now /\ enc' = rest
  /\ Raises

MoreEnds(avail, k, now, rest, opened) ==
  /\ k # 0 /\ avail = FALSE /\ k % BlockSize = 0
  /\ hmac' = hmac \o now /\ enc' = <<>>
  /\ \/ Sign(hmac \o now) = rest /\ Returns(dec \o UnPad(opened), avail)
     \/ Sign(hmac \o now) # rest /\ Raises

DecryptMoreOutcome(buffer, avail, k, now, rest, opened) ==
  /\ MoreShape(buffer, avail, k, now, rest, opened)
  /\ \/ MoreWaits(buffer, avail, k)
     \/ MoreStreams(avail, k, now, rest, opened)
     \/ MoreHalfBlock(avail, k, now, rest)
     \/ MoreEnds(avail, k, now, rest, opened)

LEMMA DecryptMoreIs ==
  ASSUME TypeInv, NEW buffer \in Seq(Byte), NEW avail \in BOOLEAN,
         R!DecryptMore(buffer, avail)
  PROVE  \E k, now, rest, opened : DecryptMoreOutcome(buffer, avail, k, now, rest, opened)
<1> DEFINE now == R!ToDecrypt(buffer, avail)
           rest == Drop(buffer, Len(now))
           opened == CipherDecrypt(Len(hmac) - Begin, now)
<1>1. PICK k : DecryptsShape(buffer, avail, k, now)
  BY ToDecryptIs
<1>2. k \in Nat /\ now = Cut(buffer, 0, k)
  BY <1>1 DEF DecryptsShape
<1>3. CutShape(Byte, buffer, 0, k) /\ CutShape(Byte, buffer, k, Len(buffer))
  <2>1. IsCut(Byte, buffer, 0, k) /\ IsCut(Byte, buffer, k, Len(buffer))
    BY <1>1 DEF DecryptsShape, IsCut
  <2> QED BY <2>1, CutFacts
<1>4. now \in Seq(Byte) /\ Len(now) = k /\ (now = <<>> <=> k = 0)
  BY <1>2, <1>3 DEF CutShape
<1>5. rest = Cut(buffer, k, Len(buffer))
  BY <1>4 DEF Drop, Cut
<1>6. rest \in Seq(Byte) /\ Len(rest) = Len(buffer) - k
  BY <1>3, <1>5 DEF CutShape
<1>7. opened \in Seq(Nat) /\ Len(opened) = k
  BY <1>4, CipherDecryptFacts
<1>8. Len(hmac) - HeaderSize - BlockSize = Len(hmac) - Begin
  BY BlockFacts DEF Begin, TypeInv
<1>9. /\ stage' = stage
      /\ IF now = <<>>
           THEN /\ enc' = buffer /\ hmac' = hmac
                /\ IF avail THEN R!GoOn ELSE R!Return(dec, avail)
           ELSE /\ hmac' = hmac \o now
                /\ IF Len(now) % BlockSize # 0
                     THEN enc' = rest /\ R!Raise
                   ELSE IF avail
                     THEN enc' = rest /\ R!Return(dec \o opened, avail)
                   ELSE IF Len(rest) # HLEN
                     THEN enc' = rest /\ R!Raise
                   ELSE /\ enc' = <<>>
                        /\ IF Sign(hmac \o now) = rest
                             THEN R!Return(dec \o UnPad(opened), avail)
                             ELSE R!Raise
  BY <1>8, ReaderOps DEF R!DecryptMore, R!Done, R!Verifies
<1>10. stage' = stage
  BY <1>9
<1> HIDE DEF now, rest, opened
<1>11. MoreShape(buffer, avail, k, now, rest, opened)
  <2>1. opened = CipherDecrypt(Len(hmac) - Begin, now)
    BY DEF opened
  <2> QED BY <1>1, <1>4, <1>5, <1>6, <1>7, <1>10, <2>1 DEF MoreShape
<1>12. dec \in Seq(Nat)
  BY DEF TypeInv
<1>13. CASE k = 0
  <2>1. enc' = buffer /\ hmac' = hmac /\ IF avail THEN R!GoOn ELSE R!Return(dec, avail)
    BY <1>4, <1>9, <1>13
  <2>2. CASE avail = TRUE
    <3>1. Goes
      BY <2>1, <2>2 DEF R!GoOn, Goes
    <3> QED BY <1>11, <1>13, <2>1, <2>2, <3>1 DEF MoreWaits, DecryptMoreOutcome
  <2>3. CASE avail = FALSE
    <3>1. Returns(dec, avail)
      BY <1>12, <2>1, <2>3, ReturnIs
    <3> QED BY <1>11, <1>13, <2>1, <2>3, <3>1 DEF MoreWaits, DecryptMoreOutcome
  <2> QED BY <2>2, <2>3
<1>14. CASE k # 0 /\ avail = TRUE
  <2>1. k % BlockSize = 0
    BY <1>1, <1>14 DEF DecryptsShape, Whole
  <2>2. hmac' = hmac \o now /\ enc' = rest /\ R!Return(dec \o opened, avail)
    BY <1>4, <1>9, <1>14, <2>1
  <2>3. Returns(dec \o opened, avail)
    BY <1>7, <1>12, <2>2, ReturnIs, ConcatProperties
  <2> QED BY <1>11, <1>14, <2>2, <2>3 DEF MoreStreams, DecryptMoreOutcome
<1>15. CASE k # 0 /\ avail = FALSE /\ k % BlockSize # 0
  <2>1. hmac' = hmac \o now /\ enc' = rest /\ R!Raise
    BY <1>4, <1>9, <1>15
  <2>2. Raises
    BY <2>1 DEF R!Raise, Raises
  <2> QED BY <1>11, <1>15, <2>1, <2>2 DEF MoreHalfBlock, DecryptMoreOutcome
<1>16. CASE k # 0 /\ avail = FALSE /\ k % BlockSize = 0
  <2>1. Len(rest) = HLEN
    BY <1>1, <1>6, <1>16, BlockFacts DEF DecryptsShape
  <2>2. /\ hmac' = hmac \o now /\ enc' = <<>>
        /\ IF Sign(hmac \o now) = rest
             THEN R!Return(dec \o UnPad(opened), avail) ELSE R!Raise
    BY <1>4, <1>9, <1>16, <2>1
  <2>3. CASE Sign(hmac \o now) = rest
    <3>1. opened # <<>>
      BY <1>7, <1>16
    <3>2. UnPad(opened) \in Seq(Nat)
      BY <1>7, <3>1, UnPadType
    <3>3. Returns(dec \o UnPad(opened), avail)
      BY <1>12, <2>2, <2>3, <3>2, ReturnIs, ConcatProperties
    <3> QED BY <1>11, <1>16, <2>2, <2>3, <3>3 DEF MoreEnds, DecryptMoreOutcome
  <2>4. CASE Sign(hmac \o now) # rest
    <3>1. Raises
      BY <2>2, <2>4 DEF R!Raise, Raises
    <3> QED BY <1>11, <1>16, <2>2, <2>4, <3>1 DEF MoreEnds, DecryptMoreOutcome
  <2> QED BY <2>3, <2>4
<1> QED BY <1>13, <1>14, <1>15, <1>16

(***************************************************************************)
(* The header and the initialisation vector.                               *)
(***************************************************************************)
NeedsMore(buffer, avail, size) ==
  /\ Len(buffer) < size /\ enc' = buffer /\ stage' = stage /\ hmac' = hmac
  /\ Returns(dec, avail)

HasHeader(buffer, avail) ==
  /\ HeaderSize <= Len(buffer) /\ known /\ Take(buffer, HeaderSize) = Header
  /\ enc' = Drop(buffer, HeaderSize) /\ stage' = "iv" /\ hmac' = Header
  /\ \/ avail = TRUE /\ Goes
     \/ avail = FALSE /\ Returns(dec, avail)

Refuses(buffer) ==
  /\ HeaderSize <= Len(buffer) /\ ~(known /\ Take(buffer, HeaderSize) = Header)
  /\ enc' = Drop(buffer, HeaderSize) /\ stage' = stage /\ hmac' = hmac
  /\ Raises

HasIV(buffer, avail) ==
  /\ BlockSize <= Len(buffer)
  /\ enc' = Drop(buffer, BlockSize) /\ stage' = "body"
  /\ hmac' = hmac \o Take(buffer, BlockSize)
  /\ \/ avail = TRUE /\ Goes
     \/ avail = FALSE /\ Returns(dec, avail)

LEMMA CreateKeyIs ==
  ASSUME TypeInv, NEW buffer \in Seq(Byte), NEW avail \in BOOLEAN,
         R!CreateKey(buffer, avail)
  PROVE  NeedsMore(buffer, avail, HeaderSize) \/ HasHeader(buffer, avail) \/ Refuses(buffer)
<1>1. dec \in Seq(Nat)
  BY DEF TypeInv
<1>2. R!Return(dec, avail) => Returns(dec, avail)
  BY <1>1, ReturnIs
<1>3. R!GoOn => Goes
  BY DEF R!GoOn, Goes
<1>4. R!Raise => Raises
  BY DEF R!Raise, Raises
<1>5. CASE Len(buffer) < HeaderSize
  <2>1. enc' = buffer /\ stage' = stage /\ hmac' = hmac /\ R!Return(dec, avail)
    BY <1>5 DEF R!CreateKey
  <2> QED BY <1>2, <1>5, <2>1 DEF NeedsMore
<1>6. CASE HeaderSize <= Len(buffer) /\ known /\ Take(buffer, HeaderSize) = Header
  <2>0. ~(Len(buffer) < HeaderSize)
    BY <1>6, BlockFacts
  <2>1. /\ enc' = Drop(buffer, HeaderSize) /\ stage' = "iv" /\ hmac' = Header
        /\ IF avail THEN R!GoOn ELSE R!Return(dec, avail)
    BY <1>6, <2>0, ReaderOps DEF R!CreateKey
  <2> QED BY <1>2, <1>3, <1>6, <2>1 DEF HasHeader
<1>7. CASE HeaderSize <= Len(buffer) /\ ~(known /\ Take(buffer, HeaderSize) = Header)
  <2>0. ~(Len(buffer) < HeaderSize)
    BY <1>7, BlockFacts
  <2>1. /\ enc' = Drop(buffer, HeaderSize) /\ stage' = stage /\ hmac' = hmac
        /\ R!Raise
    BY <1>7, <2>0, ReaderOps DEF R!CreateKey
  <2> QED BY <1>4, <1>7, <2>1 DEF Refuses
<1>8. Len(buffer) < HeaderSize \/ HeaderSize <= Len(buffer)
  BY BlockFacts
<1> QED BY <1>5, <1>6, <1>7, <1>8

LEMMA CreateCipherIs ==
  ASSUME TypeInv, NEW buffer \in Seq(Byte), NEW avail \in BOOLEAN,
         R!CreateCipher(buffer, avail)
  PROVE  NeedsMore(buffer, avail, BlockSize) \/ HasIV(buffer, avail)
<1>1. dec \in Seq(Nat)
  BY DEF TypeInv
<1>2. R!Return(dec, avail) => Returns(dec, avail)
  BY <1>1, ReturnIs
<1>3. R!GoOn => Goes
  BY DEF R!GoOn, Goes
<1>5. CASE Len(buffer) < BlockSize
  <2>1. enc' = buffer /\ stage' = stage /\ hmac' = hmac /\ R!Return(dec, avail)
    BY <1>5 DEF R!CreateCipher
  <2> QED BY <1>2, <1>5, <2>1 DEF NeedsMore
<1>6. CASE BlockSize <= Len(buffer)
  <2>0. ~(Len(buffer) < BlockSize)
    BY <1>6, BlockFacts
  <2>1. /\ enc' = Drop(buffer, BlockSize) /\ stage' = "body"
        /\ hmac' = hmac \o Take(buffer, BlockSize)
        /\ IF avail THEN R!GoOn ELSE R!Return(dec, avail)
    BY <2>0, ReaderOps DEF R!CreateCipher
  <2> QED BY <1>2, <1>3, <1>6, <2>1 DEF HasIV
<1> QED BY <1>5, <1>6, BlockFacts

\* One read of the source that __ReadBytes hands on.
HandsOn(buffer, avail) ==
  \/ stage = "header" /\ NeedsMore(buffer, avail, HeaderSize)
  \/ stage = "header" /\ HasHeader(buffer, avail)
  \/ stage = "header" /\ Refuses(buffer)
  \/ stage = "iv" /\ NeedsMore(buffer, avail, BlockSize)
  \/ stage = "iv" /\ HasIV(buffer, avail)
  \/ /\ stage = "body"
     /\ \E k, now, rest, opened : DecryptMoreOutcome(buffer, avail, k, now, rest, opened)

LEMMA ReadBytesReturnsIs ==
  ASSUME TypeInv, NEW bytes \in Seq(Byte), NEW avail \in BOOLEAN,
         R!ReadBytesReturns(bytes, avail)
  PROVE  HandsOn(enc \o bytes, avail) /\ got' = <<>> /\ enc \o bytes \in Seq(Byte)
<1>1. enc \in Seq(Byte)
  BY DEF TypeInv
<1>2. PICK buffer \in Seq(Byte) : buffer = enc \o bytes
  BY <1>1, ConcatProperties
<1>3. got' = <<>>
  BY DEF R!ReadBytesReturns
<1>4. CASE stage = "header" /\ R!CreateKey(buffer, avail)
  <2>1. NeedsMore(buffer, avail, HeaderSize) \/ HasHeader(buffer, avail) \/ Refuses(buffer)
    BY <1>4, CreateKeyIs
  <2> QED BY <1>2, <1>3, <1>4, <2>1 DEF HandsOn
<1>5. CASE stage = "iv" /\ R!CreateCipher(buffer, avail)
  <2>1. NeedsMore(buffer, avail, BlockSize) \/ HasIV(buffer, avail)
    BY <1>5, CreateCipherIs
  <2> QED BY <1>2, <1>3, <1>5, <2>1 DEF HandsOn
<1>6. CASE stage = "body" /\ R!DecryptMore(buffer, avail)
  <2>1. \E k, now, rest, opened : DecryptMoreOutcome(buffer, avail, k, now, rest, opened)
    BY <1>6, DecryptMoreIs
  <2> QED BY <1>2, <1>3, <1>6, <2>1 DEF HandsOn
<1> QED BY <1>2, <1>4, <1>5, <1>6 DEF R!ReadBytesReturns

\* The types of what a read of the source changes.
ReadTypes ==
  /\ enc' \in Seq(Byte) /\ hmac' \in Seq(Byte)
  /\ dec' \in Seq(Nat) /\ returned' \in Seq(Nat)
  /\ stage' \in {"header", "iv", "body"}
  /\ calling' \in BOOLEAN /\ ended' \in BOOLEAN /\ raised' \in BOOLEAN

ResultTypes ==
  /\ dec' \in Seq(Nat) /\ returned' \in Seq(Nat)
  /\ calling' \in BOOLEAN /\ ended' \in BOOLEAN /\ raised' \in BOOLEAN

LEMMA ResultFacts ==
  ASSUME TypeInv
  PROVE  /\ Goes => ResultTypes
         /\ Raises => ResultTypes
         /\ \A plain \in Seq(Nat) : \A avail : Returns(plain, avail) => ResultTypes
<1>1. Goes => ResultTypes
  BY DEF Goes, ResultTypes, TypeInv, TypeOK
<1>2. Raises => ResultTypes
  BY DEF Raises, ResultTypes, TypeInv, TypeOK
<1>3. ASSUME NEW plain \in Seq(Nat), NEW avail, Returns(plain, avail)
      PROVE  ResultTypes
  <2>1. /\ dec' \in Seq(Nat) /\ returned' \in Seq(Nat)
        /\ calling' = FALSE /\ raised' = raised /\ ended' \in BOOLEAN
    BY <1>3, ReturnsFacts
  <2> QED BY <2>1 DEF ResultTypes, TypeInv, TypeOK
<1> QED BY <1>1, <1>2, <1>3

LEMMA SliceTypes ==
  ASSUME NEW s \in Seq(Byte), NEW n \in Nat, n <= Len(s)
  PROVE  Take(s, n) \in Seq(Byte) /\ Drop(s, n) \in Seq(Byte)
BY DEF Take, Drop

LEMMA HandsOnTypes ==
  ASSUME TypeInv, NEW buffer \in Seq(Byte), NEW avail \in BOOLEAN, HandsOn(buffer, avail)
  PROVE  ReadTypes
<1>1. /\ dec \in Seq(Nat) /\ hmac \in Seq(Byte) /\ stage \in {"header", "iv", "body"}
  BY DEF TypeInv, TypeOK
<1>2. Header \in Seq(Byte)
  BY HeaderFacts, PlainIsByte
<1>3. ASSUME NEW size, NeedsMore(buffer, avail, size)
      PROVE  ReadTypes
  <2>1. ResultTypes
    BY <1>1, <1>3, ResultFacts DEF NeedsMore
  <2> QED BY <1>1, <1>3, <2>1 DEF NeedsMore, ReadTypes, ResultTypes
<1>4. CASE HasHeader(buffer, avail)
  <2>1. ResultTypes
    BY <1>1, <1>4, ResultFacts DEF HasHeader
  <2>2. Drop(buffer, HeaderSize) \in Seq(Byte)
    BY <1>4, BlockFacts, SliceTypes DEF HasHeader
  <2> QED BY <1>2, <1>4, <2>1, <2>2 DEF HasHeader, ReadTypes, ResultTypes
<1>5. CASE Refuses(buffer)
  <2>1. ResultTypes
    BY <1>5, ResultFacts DEF Refuses
  <2>2. Drop(buffer, HeaderSize) \in Seq(Byte)
    BY <1>5, BlockFacts, SliceTypes DEF Refuses
  <2> QED BY <1>1, <1>5, <2>1, <2>2 DEF Refuses, ReadTypes, ResultTypes
<1>6. CASE HasIV(buffer, avail)
  <2>1. ResultTypes
    BY <1>1, <1>6, ResultFacts DEF HasIV
  <2>2. Drop(buffer, BlockSize) \in Seq(Byte) /\ Take(buffer, BlockSize) \in Seq(Byte)
    BY <1>6, BlockFacts, SliceTypes DEF HasIV
  <2>3. hmac \o Take(buffer, BlockSize) \in Seq(Byte)
    BY <1>1, <2>2, ConcatProperties
  <2> QED BY <1>6, <2>1, <2>2, <2>3 DEF HasIV, ReadTypes, ResultTypes
<1>7. ASSUME NEW k, NEW now, NEW rest, NEW opened,
             DecryptMoreOutcome(buffer, avail, k, now, rest, opened)
      PROVE  ReadTypes
  <2>1. /\ now \in Seq(Byte) /\ rest \in Seq(Byte) /\ opened \in Seq(Nat) /\ Len(opened) = k
        /\ stage' = stage
    BY <1>7 DEF DecryptMoreOutcome, MoreShape
  <2>2. hmac \o now \in Seq(Byte) /\ <<>> \in Seq(Byte) /\ dec \o opened \in Seq(Nat)
    BY <1>1, <2>1, ConcatProperties
  <2>3. CASE MoreWaits(buffer, avail, k)
    <3>1. ResultTypes
      BY <1>1, <2>3, ResultFacts DEF MoreWaits
    <3> QED BY <1>1, <2>1, <2>3, <3>1 DEF MoreWaits, ReadTypes, ResultTypes
  <2>4. CASE MoreStreams(avail, k, now, rest, opened)
    <3>1. ResultTypes
      BY <2>2, <2>4, ResultFacts DEF MoreStreams
    <3> QED BY <1>1, <2>1, <2>2, <2>4, <3>1 DEF MoreStreams, ReadTypes, ResultTypes
  <2>5. CASE MoreHalfBlock(avail, k, now, rest)
    <3>1. ResultTypes
      BY <2>5, ResultFacts DEF MoreHalfBlock
    <3> QED BY <1>1, <2>1, <2>2, <2>5, <3>1 DEF MoreHalfBlock, ReadTypes, ResultTypes
  <2>6. CASE MoreEnds(avail, k, now, rest, opened)
    <3>1. opened # <<>>
      BY <2>1, <2>6 DEF MoreEnds
    <3>2. UnPad(opened) \in Seq(Nat)
      BY <2>1, <3>1, UnPadType
    <3>3. dec \o UnPad(opened) \in Seq(Nat)
      BY <1>1, <3>2, ConcatProperties
    <3>4. ResultTypes
      BY <2>6, <3>3, ResultFacts DEF MoreEnds
    <3> QED BY <1>1, <2>1, <2>2, <2>6, <3>4 DEF MoreEnds, ReadTypes, ResultTypes
  <2> QED BY <1>7, <2>3, <2>4, <2>5, <2>6 DEF DecryptMoreOutcome
<1> QED BY <1>3, <1>4, <1>5, <1>6, <1>7 DEF HandsOn

(***************************************************************************)
(* One read of the source, from place pos to place p.                      *)
(***************************************************************************)
LEMMA SizeIs ==
  ASSUME TypeInv
  PROVE  /\ stage = "header" => R!Size = HeaderSize - Len(enc)
         /\ stage = "iv" => R!Size = BlockSize - Len(enc)
         /\ stage = "body" => R!Size = BlockSize
         /\ R!Size \in Int /\ R!Size <= BlockSize
<1>1. Len(enc) \in Nat /\ stage \in {"header", "iv", "body"}
  BY DEF TypeInv, TypeOK
<1> QED BY <1>1, BlockFacts DEF R!Size

SourceShape(bytes, avail, p) ==
  /\ calling = TRUE /\ known' = known /\ chars' = chars /\ shut' = shut
  /\ p \in Nat /\ pos \in Nat /\ pos <= p /\ p <= Len(wire) /\ pos' = p
  /\ bytes = got \o Cut(wire, pos, p) /\ bytes \in Seq(Byte)
  /\ Len(bytes) = Len(got) + (p - pos)
  /\ avail \in BOOLEAN
  /\ avail = FALSE => eof /\ p = pos /\ pos = Len(wire)
  /\ avail = TRUE /\ stage # "body" => p - pos <= 2 * R!Size

Waits(bytes) ==
  /\ Len(bytes) < R!Size /\ got' = bytes /\ Goes
  /\ stage' = stage /\ enc' = enc /\ hmac' = hmac

SourceStep(bytes, avail, p) ==
  /\ SourceShape(bytes, avail, p)
  /\ \/ Waits(bytes)
     \/ HandsOn(enc \o bytes, avail) /\ got' = <<>> /\ enc \o bytes \in Seq(Byte)

LEMMA StepIs ==
  ASSUME TypeInv, R!Step
  PROVE  \E bytes, avail, p : SourceStep(bytes, avail, p)
<1>1. /\ got \in Seq(Byte) /\ wire \in Seq(Byte) /\ pos \in Nat /\ pos <= Len(wire)
      /\ calling \in BOOLEAN /\ Len(wire) \in Nat /\ eof \in BOOLEAN
  BY DEF TypeInv, TypeOK
<1>2. ASSUME NEW p \in Nat, pos <= p, p <= Len(wire)
      PROVE  /\ got \o Cut(wire, pos, p) \in Seq(Byte)
             /\ Len(got \o Cut(wire, pos, p)) = Len(got) + (p - pos)
  <2>1. IsCut(Byte, wire, pos, p)
    BY <1>1, <1>2 DEF IsCut
  <2>2. CutShape(Byte, wire, pos, p)
    BY <2>1, CutFacts
  <2>3. PICK c \in Seq(Byte) : c = Cut(wire, pos, p) /\ Len(c) = p - pos
    BY <2>2 DEF CutShape
  <2>4. got \o c \in Seq(Byte) /\ Len(got \o c) = Len(got) + Len(c)
    BY <1>1, ConcatProperties
  <2> QED BY <2>3, <2>4
<1>3. ASSUME NEW n \in 1 .. 2 * BlockSize, R!SourceGives(n)
      PROVE  \E bytes, avail, p : SourceStep(bytes, avail, p)
  <2>1. PICK p \in Nat : p = pos + n
    BY <1>1, <1>3, BlockFacts
  <2>2. PICK bytes : bytes = got \o Cut(wire, pos, p)
    OBVIOUS
  <2>3. /\ calling /\ n <= 2 * R!Size /\ p <= Len(wire) /\ pos' = p
        /\ IF Len(bytes) < R!Size
             THEN got' = bytes /\ R!GoOn /\ UNCHANGED <<stage, enc, hmac>>
             ELSE R!ReadBytesReturns(bytes, TRUE)
        /\ UNCHANGED <<known, chars, shut>>
    BY <1>3, <2>1, <2>2 DEF R!SourceGives, Cut
  <2>4. pos <= p /\ p - pos = n
    BY <1>1, <2>1, BlockFacts
  <2>5. bytes \in Seq(Byte) /\ Len(bytes) = Len(got) + (p - pos)
    BY <1>2, <2>2, <2>3, <2>4
  <2>6. SourceShape(bytes, TRUE, p)
    BY <1>1, <2>2, <2>3, <2>4, <2>5 DEF SourceShape
  <2>7. CASE Len(bytes) < R!Size
    <3>1. Waits(bytes)
      BY <2>3, <2>7 DEF Waits, R!GoOn, Goes
    <3> QED BY <2>6, <3>1 DEF SourceStep
  <2>8. CASE ~(Len(bytes) < R!Size)
    <3>1. HandsOn(enc \o bytes, TRUE) /\ got' = <<>> /\ enc \o bytes \in Seq(Byte)
      BY <2>3, <2>5, <2>8, ReadBytesReturnsIs
    <3> QED BY <2>6, <3>1 DEF SourceStep
  <2> QED BY <2>7, <2>8
<1>4. got \o Cut(wire, pos, pos) = got
  <2>1. Cut(wire, pos, pos) = <<>>
    <3>1. IsCut(Byte, wire, pos, pos)
      BY <1>1 DEF IsCut
    <3>2. CutShape(Byte, wire, pos, pos)
      BY <3>1, CutFacts
    <3> QED BY <3>2 DEF CutShape
  <2> QED BY <1>1, <2>1, ConcatEmptySeq
<1>5. Len(got) = Len(got) + (pos - pos)
  BY <1>1
<1>6. CASE R!SourceIsEmpty
  <2>1. /\ calling /\ stage = "body" /\ R!ReadBytesReturns(got, TRUE)
        /\ UNCHANGED <<pos, known, chars, shut>>
    BY <1>6 DEF R!SourceIsEmpty
  <2>2. SourceShape(got, TRUE, pos)
    BY <1>1, <1>4, <1>5, <2>1 DEF SourceShape
  <2>3. HandsOn(enc \o got, TRUE) /\ got' = <<>> /\ enc \o got \in Seq(Byte)
    BY <1>1, <2>1, ReadBytesReturnsIs
  <2> QED BY <2>2, <2>3 DEF SourceStep
<1>7. CASE R!SourceEnds
  <2>1. /\ calling /\ pos = Len(wire) /\ eof /\ R!ReadBytesReturns(got, FALSE)
        /\ UNCHANGED <<pos, known, chars, shut>>
    BY <1>7 DEF R!SourceEnds
  <2>2. SourceShape(got, FALSE, pos)
    BY <1>1, <1>4, <1>5, <2>1 DEF SourceShape
  <2>3. HandsOn(enc \o got, FALSE) /\ got' = <<>> /\ enc \o got \in Seq(Byte)
    BY <1>1, <2>1, ReadBytesReturnsIs
  <2> QED BY <2>2, <2>3 DEF SourceStep
<1> QED BY <1>3, <1>6, <1>7 DEF R!Step

ReaderKeeps ==
  /\ data' = data /\ mac' = mac /\ closed' = closed /\ given' = given /\ flushes' = flushes
  /\ wire' = wire /\ eof' = eof

LEMMA StepTypes ==
  ASSUME TypeInv, NEW bytes, NEW avail, NEW p, SourceStep(bytes, avail, p)
  PROVE  /\ ReadTypes /\ got' \in Seq(Byte) /\ Len(got') < BlockSize
         /\ pos' \in 0 .. Len(wire) /\ known' \in BOOLEAN /\ shut' \in BOOLEAN
         /\ chars' \in Requests \cup {-1}
<1>1. /\ pos' \in 0 .. Len(wire) /\ known' \in BOOLEAN /\ shut' \in BOOLEAN
      /\ chars' \in Requests \cup {-1}
  BY DEF SourceStep, SourceShape, TypeInv, TypeOK
<1>2. bytes \in Seq(Byte) /\ avail \in BOOLEAN
  BY DEF SourceStep, SourceShape
<1>3. CASE Waits(bytes)
  <2>1. ResultTypes
    BY <1>3, ResultFacts DEF Waits
  <2>2. ReadTypes
    BY <1>3, <2>1 DEF ReadTypes, ResultTypes, Waits, TypeInv, TypeOK
  <2>3. Len(bytes) < BlockSize
    BY <1>2, <1>3, SizeIs, BlockFacts DEF Waits
  <2> QED BY <1>1, <1>2, <1>3, <2>2, <2>3 DEF Waits
<1>4. CASE HandsOn(enc \o bytes, avail) /\ got' = <<>> /\ enc \o bytes \in Seq(Byte)
  <2>1. ReadTypes
    BY <1>2, <1>4, HandsOnTypes
  <2>2. got' \in Seq(Byte) /\ Len(got') < BlockSize
    BY <1>4, BlockFacts
  <2> QED BY <1>1, <2>1, <2>2
<1> QED BY <1>3, <1>4 DEF SourceStep

LEMMA WriterTypesKept ==
  ASSUME TypeInv, ReaderKeeps
  PROVE  /\ data' \in Seq(Nat) /\ mac' \in Seq(PlainBytes) /\ wire' \in Seq(Byte)
         /\ IsBytes(data, Plain)' /\ Len(data') < BlockSize
         /\ given' \in 0 .. MaxData /\ flushes' \in 0 .. MaxFlushes
         /\ closed' \in BOOLEAN /\ eof' \in BOOLEAN
<1>1. IsBytes(data, Plain)'
  BY DEF ReaderKeeps, TypeInv, TypeOK, IsBytes, Plain
<1> QED BY <1>1 DEF ReaderKeeps, TypeInv, TypeOK

(***************************************************************************)
(* The types and the writer's invariant are kept by every step.            *)
(***************************************************************************)
LEMMA TypeInit == Init => TypeInv /\ WriterInv
<1> SUFFICES ASSUME Init PROVE TypeInv /\ WriterInv
  OBVIOUS
<1>1. /\ data = <<>> /\ mac = Header \o IV /\ wire = Header \o IV /\ closed = FALSE
      /\ given = 0 /\ flushes = 0
  BY WriterOps DEF Init, W!WriterInit
<1>2. /\ pos = 0 /\ known \in BOOLEAN /\ stage = "header" /\ calling = FALSE /\ chars = -1
      /\ got = <<>> /\ enc = <<>> /\ dec = <<>> /\ hmac = <<>> /\ shut = FALSE
      /\ returned = <<>> /\ ended = FALSE /\ raised = FALSE /\ eof = FALSE
  BY DEF Init, R!ReaderInit
<1>3. <<>> \in Seq(Nat) /\ <<>> \in Seq(Byte) /\ Len(<<>>) = 0
  OBVIOUS
<1>4. W!Bytes(0, 0) = <<>> /\ First = 0
  <2>1. W!Bytes(0, 0) \in Seq(Nat) /\ Len(W!Bytes(0, 0)) = 0
    BY BytesStart
  <2>2. First = 0
    <3>1. given = 0 /\ Len(data) = 0
      BY <1>1, <1>3
    <3> QED BY <3>1 DEF First
  <2> QED BY <2>1, <2>2, EmptySeq
<1>5. PICK m \in Seq(PlainBytes) : m = Message(<<>>) /\ MessageShape(<<>>, m)
  BY <1>3, MessageFacts DEF MessageShape
<1>6. CipherEncrypt(0, <<>>) = <<>>
  BY DEF CipherEncrypt
<1>7. m = Header \o IV
  <2>1. Header \o IV \in Seq(PlainBytes)
    BY HeaderFacts, IVFacts, ConcatProperties
  <2> QED BY <1>5, <1>6, <2>1, ConcatEmptySeq DEF Message
<1>8. m \in Seq(Byte) /\ Len(m) = Begin
  BY <1>5, PlainIsByte, BeginFacts DEF MessageShape
<1>9. TypeOK
  <2>1. IsBytes(data, Plain) /\ Len(data) < BlockSize /\ Len(got) < BlockSize
    BY <1>1, <1>2, <1>3, BlockFacts DEF IsBytes
  <2>2. 0 \in 0 .. Len(wire) /\ 0 \in 0 .. MaxData /\ 0 \in 0 .. MaxFlushes
    BY <1>1, <1>7, <1>8, BeginFacts, CryptStreamAssumption
  <2> QED BY <1>1, <1>2, <2>1, <2>2 DEF TypeOK
<1>10. TypeInv
  BY <1>1, <1>2, <1>3, <1>5, <1>7, <1>8, <1>9 DEF TypeInv
<1>11. DataInv
  BY <1>1, <1>3, <1>4, WholeZero DEF DataInv
<1>12. HeaderInv
  BY <1>1, <1>5, <1>7, <1>8, BeginFacts DEF HeaderInv, MessageShape
<1>13. Sent = <<>> /\ Output = m
  BY <1>1, <1>4, <1>7 DEF Sent, Output
<1>14. SameUpTo(Byte, wire, Output, Len(wire))
  BY <1>1, <1>7, <1>8, <1>13 DEF SameUpTo
<1>15. OutputInv
  BY <1>1, <1>5, <1>7, <1>13, <1>14 DEF OutputInv
<1> QED BY <1>10, <1>11, <1>12, <1>15 DEF WriterInv

LEMMA WriterKept ==
  ASSUME WriterInv, ReaderKeeps
  PROVE  WriterInv'
<1>1. /\ data' = data /\ mac' = mac /\ given' = given /\ flushes' = flushes
      /\ wire' = wire /\ eof' = eof
  BY DEF ReaderKeeps
<1>2. DataInv'
  BY <1>1 DEF WriterInv, DataInv, First, Whole, W!Bytes
<1>3. HeaderInv'
  BY <1>1 DEF WriterInv, HeaderInv, Begin, Header
<1>4. Sent' = Sent /\ Output' = Output /\ FlushedOnce' = FlushedOnce
  BY <1>1 DEF Sent, Output, FlushedOnce, First, Pad, Sign, W!Given, W!Bytes
<1>5. Message(Sent)' = Message(Sent')
  BY DEF Message, CipherEncrypt, Header, IV
<1>6. SameUpTo(Byte, wire, Output, Len(wire))' <=> SameUpTo(Byte, wire', Output', Len(wire'))
  BY DEF SameUpTo, Byte, PlainBytes, Padded
<1>7. OutputInv'
  BY <1>1, <1>4, <1>5, <1>6 DEF WriterInv, OutputInv
<1> QED BY <1>2, <1>3, <1>7 DEF WriterInv

\* Reader and stuttering steps.
LEMMA ReaderIs ==
  ASSUME Reader
  PROVE  /\ ReaderKeeps
         /\ \/ \E n \in Requests : R!Read(n)
            \/ R!Step
            \/ R!Shut
BY DEF Reader, ReaderKeeps, writerVars, R!ReaderNext

LEMMA TypeStep ==
  ASSUME TypeInv, WriterInv, [Next]_vars
  PROVE  TypeInv' /\ WriterInv'
<1>1. CASE Writer
  <2>1. WriterInv' /\ WriterEffect
    BY <1>1, WriterStep
  <2>2. /\ pos' = pos /\ known' = known /\ stage' = stage /\ calling' = calling
        /\ chars' = chars /\ got' = got /\ enc' = enc /\ dec' = dec /\ hmac' = hmac
        /\ shut' = shut /\ returned' = returned /\ ended' = ended /\ raised' = raised
        /\ eof' = eof
    BY <1>1 DEF Writer, readerVars
  <2>3. pos' \in 0 .. Len(wire')
    BY <2>1, <2>2 DEF TypeInv, TypeOK, WriterEffect
  <2>4. TypeOK'
    BY <2>1, <2>2, <2>3 DEF TypeInv, TypeOK, WriterEffect
  <2>5. Byte' = Byte /\ PlainBytes' = PlainBytes
    BY DEF Byte, PlainBytes, Padded
  <2> QED BY <2>1, <2>2, <2>4, <2>5 DEF TypeInv, WriterEffect
<1>2. CASE Reader
  <2>1. ReaderKeeps
    BY <1>2, ReaderIs
  <2>2. WriterInv'
    BY <2>1, WriterKept
  <2>3. /\ data' \in Seq(Nat) /\ mac' \in Seq(PlainBytes) /\ wire' \in Seq(Byte)
        /\ IsBytes(data, Plain)' /\ Len(data') < BlockSize
        /\ given' \in 0 .. MaxData /\ flushes' \in 0 .. MaxFlushes
        /\ closed' \in BOOLEAN /\ eof' \in BOOLEAN
    BY <2>1, WriterTypesKept
  <2>4. Byte' = Byte /\ PlainBytes' = PlainBytes
    BY DEF Byte, PlainBytes, Padded
  <2>5. wire' = wire
    BY <2>1 DEF ReaderKeeps
  <2>6. ASSUME /\ ReadTypes /\ got' \in Seq(Byte) /\ Len(got') < BlockSize
               /\ pos' \in 0 .. Len(wire) /\ known' \in BOOLEAN /\ shut' \in BOOLEAN
               /\ chars' \in Requests \cup {-1}
        PROVE  TypeInv'
    <3>1. TypeOK'
      BY <2>3, <2>5, <2>6 DEF TypeOK, ReadTypes
    <3> QED BY <2>3, <2>4, <2>6, <3>1 DEF TypeInv, ReadTypes
  <2>7. ASSUME NEW n \in Requests, R!Read(n)
        PROVE  TypeInv'
    <3>1. ReadTypes /\ got' = got /\ pos' = pos /\ known' = known /\ shut' = shut /\ chars' = n
      BY <2>7 DEF R!Read, ReadTypes, TypeInv, TypeOK
    <3> QED BY <2>6, <3>1 DEF TypeInv, TypeOK
  <2>8. CASE R!Step
    <3>1. PICK bytes, avail, p : SourceStep(bytes, avail, p)
      BY <2>8, StepIs
    <3>2. TypeInv'
      BY <2>6, <3>1, StepTypes
    <3> QED BY <2>2, <3>2
  <2>9. CASE R!Shut
    <3>1. /\ ReadTypes /\ got' = got /\ pos' = pos /\ known' = known /\ shut' = TRUE
          /\ chars' = chars
      BY <2>9 DEF R!Shut, ReadTypes, TypeInv, TypeOK
    <3>2. TypeInv'
      BY <2>6, <3>1 DEF TypeInv, TypeOK
    <3> QED BY <2>2, <3>2
  <2> QED BY <1>2, <2>2, <2>7, <2>8, <2>9, ReaderIs
<1>3. CASE Finish
  <2>1. PICK n : FinishShape(n)
    BY <1>3, FinishIs
  <2>2. WriterInv'
    BY <1>3, FinishWriterInv
  <2>3. /\ data' = data /\ mac' = mac /\ closed' = closed /\ given' = given
        /\ flushes' = flushes
        /\ pos' = pos /\ known' = known /\ stage' = stage /\ calling' = calling
        /\ chars' = chars /\ got' = got /\ enc' = enc /\ dec' = dec /\ hmac' = hmac
        /\ shut' = shut /\ returned' = returned /\ ended' = ended /\ raised' = raised
    BY <1>3 DEF Finish, writerVars, readerVars
  <2>4. pos' \in 0 .. Len(wire') /\ wire' \in Seq(Byte) /\ eof' \in BOOLEAN
    BY <2>1, <2>3 DEF FinishShape, TypeInv, TypeOK
  <2>5. IsBytes(data, Plain)'
    BY <2>3 DEF TypeInv, TypeOK, IsBytes, Plain
  <2>6. TypeOK'
    BY <2>3, <2>4, <2>5 DEF TypeInv, TypeOK
  <2>7. Byte' = Byte /\ PlainBytes' = PlainBytes
    BY DEF Byte, PlainBytes, Padded
  <2> QED BY <2>2, <2>3, <2>4, <2>6, <2>7 DEF TypeInv
<1>4. CASE UNCHANGED vars
  <2>1. ReaderKeeps
    BY <1>4 DEF vars, writerVars, ReaderKeeps
  <2>2. WriterInv'
    BY <2>1, WriterKept
  <2>3. IsBytes(data, Plain)'
    BY <2>1 DEF ReaderKeeps, TypeInv, TypeOK, IsBytes, Plain
  <2>4. TypeOK'
    BY <1>4, <2>3 DEF vars, writerVars, readerVars, TypeInv, TypeOK
  <2>5. Byte' = Byte /\ PlainBytes' = PlainBytes
    BY DEF Byte, PlainBytes, Padded
  <2> QED BY <1>4, <2>2, <2>4, <2>5 DEF vars, writerVars, readerVars, TypeInv
<1> QED BY <1>1, <1>2, <1>3, <1>4 DEF Next

(***************************************************************************)
(* Both ends keep their types: less than a block is ever held back by the  *)
(* writer or by __ReadBytes, and the reader never runs ahead of the bytes  *)
(* that have arrived.                                                      *)
(***************************************************************************)
THEOREM TypesHold == Spec => []TypeOK
<1>1. Init => TypeInv /\ WriterInv
  BY TypeInit
<1>2. TypeInv /\ WriterInv /\ [Next]_vars => TypeInv' /\ WriterInv'
  BY TypeStep
<1>3. TypeInv => TypeOK
  BY DEF TypeInv
<1> QED BY <1>1, <1>2, <1>3, PTL DEF Spec

(***************************************************************************)
(* The first flush() completes the message that Encrypt makes of all that  *)
(* was written, however it was cut into calls of write(), and for any      *)
(* number of calls of flush() after it.                                    *)
(***************************************************************************)
THEOREM StreamsLikeEncryptHolds == Spec => StreamsLikeEncrypt
<1>1. Init => TypeInv /\ WriterInv
  BY TypeInit
<1>2. TypeInv /\ WriterInv /\ [Next]_vars => TypeInv' /\ WriterInv'
  BY TypeStep
<1>3. ASSUME TypeInv, WriterInv, Next, flushes = 0, flushes' = 1
      PROVE  wire' = Encrypt(W!Given)
  <2>1. Writer
    BY <1>3 DEF Next, Reader, Finish, writerVars
  <2>2. ~eof /\ W!WriterNext
    BY <2>1 DEF Writer
  <2>3. W!Flush
    BY <1>3, <2>2 DEF W!WriterNext, W!Write, W!Close
  <2>4. PICK x : FlushShape(x)
    BY <1>3, <2>3, FlushIs
  <2>5. mac' = Message(Pad(W!Given)) /\ wire' = mac' \o Sign(mac')
    BY <1>3, <2>2, <2>4, FlushOutput
  <2> QED BY <2>5, EncryptIs
<1>4. TypeInv /\ WriterInv /\ [Next]_vars
        => [flushes = 0 /\ flushes' = 1 => wire' = Encrypt(W!Given)]_vars
  BY <1>3 DEF vars, writerVars
<1> QED BY <1>1, <1>2, <1>4, PTL DEF Spec, StreamsLikeEncrypt

(***************************************************************************)
(* The reader's invariant.  While it runs, the reader has authenticated    *)
(* and decrypted the bytes of the source up to place h, holds those up to  *)
(* e in __encrypted_buffer and those up to p in __ReadBytes.  What it has  *)
(* decrypted is a signature and a block away from where it has read to.    *)
(***************************************************************************)
StageShape(st, p, h, e) ==
  \/ st = "header" /\ h = 0 /\ p < HeaderSize
  \/ st = "iv" /\ h = HeaderSize /\ p < Begin
  \/ /\ st = "body" /\ Begin <= h /\ Whole(h - Begin) /\ p - e < BlockSize
     /\ h = Begin \/ h + HLEN + BlockSize <= e

Place(w, p, st, hm, en, go, h, e) ==
  /\ w \in Seq(Byte) /\ p \in Nat /\ h \in Nat /\ e \in Nat
  /\ h <= e /\ e <= p /\ p <= Len(w)
  /\ hm = Cut(w, 0, h) /\ en = Cut(w, h, e) /\ go = Cut(w, e, p)
  /\ StageShape(st, p, h, e)

StreamText(w, h) == IF h <= Begin THEN <<>> ELSE CipherDecrypt(0, Cut(w, Begin, h))

Running(h, e) ==
  /\ Place(wire, pos, stage, hmac, enc, got, h, e)
  /\ returned \o dec = StreamText(wire, h)
  /\ ~raised
  /\ 0 \notin Requests /\ ended => eof /\ Len(wire) <= Begin + HLEN

Refused == ~known /\ raised /\ stage = "header" /\ returned = <<>> /\ dec = <<>>

AtEnd == eof /\ pos = Len(wire) /\ stage = "body" /\ got = <<>> /\ Len(enc) <= HLEN

Accepted ==
  /\ AtEnd /\ CanDecrypt(wire) /\ returned \o dec = Decrypt(wire) /\ ~raised
  /\ 0 \notin Requests /\ ended => dec = <<>>

Rejected(h) ==
  /\ AtEnd /\ ~CanDecrypt(wire) /\ raised
  /\ h \in Nat /\ returned \o dec = StreamText(wire, h)
  /\ h <= Begin \/ h + HLEN + BlockSize <= Len(wire)

ReaderInv == \/ \E h, e : Running(h, e)
             \/ Refused
             \/ Accepted
             \/ \E h : Rejected(h)

\* What was read last belongs behind what is held.
LEMMA BufferIs ==
  ASSUME NEW w, NEW p, NEW st, NEW hm, NEW en, NEW go, NEW h, NEW e,
         Place(w, p, st, hm, en, go, h, e),
         NEW q \in Nat, p <= q, q <= Len(w)
  PROVE  /\ go \o Cut(w, p, q) = Cut(w, e, q) /\ en \o Cut(w, e, q) = Cut(w, h, q)
         /\ Len(en) = e - h /\ Len(go) = p - e /\ Len(hm) = h
<1>1. IsCut3(Byte, w, e, p, q) /\ IsCut3(Byte, w, h, e, q)
  BY DEF Place, IsCut3
<1>2. IsCut(Byte, w, h, e) /\ IsCut(Byte, w, e, p) /\ IsCut(Byte, w, 0, h)
  BY DEF Place, IsCut
<1>3. CutShape(Byte, w, h, e) /\ CutShape(Byte, w, e, p) /\ CutShape(Byte, w, 0, h)
  BY <1>2, CutFacts
<1>4. Len(en) = e - h /\ Len(go) = p - e /\ Len(hm) = h - 0
  BY <1>3 DEF Place, CutShape
<1>5. h - 0 = h
  BY DEF Place
<1>6. Cut(w, e, p) \o Cut(w, p, q) = Cut(w, e, q) /\ Cut(w, h, e) \o Cut(w, e, q) = Cut(w, h, q)
  BY <1>1, CutCat
<1> QED BY <1>4, <1>5, <1>6 DEF Place

\* A buffer cut at place m.
BufferShape(w, h, m, p) ==
  /\ Take(Cut(w, h, p), m - h) = Cut(w, h, m) /\ Drop(Cut(w, h, p), m - h) = Cut(w, m, p)
  /\ Cut(Cut(w, h, p), 0, m - h) = Cut(w, h, m)
  /\ Cut(Cut(w, h, p), m - h, p - h) = Cut(w, m, p)
  /\ Cut(w, 0, h) \o Cut(w, h, m) = Cut(w, 0, m)
  /\ Len(Cut(w, h, p)) = p - h /\ Cut(w, p, p) = <<>>

LEMMA BufferFacts ==
  ASSUME NEW w, NEW h, NEW m, NEW p, IsCut3(Byte, w, h, m, p)
  PROVE  BufferShape(w, h, m, p)
<1>1. Slices(w, h, m, p)
  BY CutSlices
<1>2. IsCut(Byte, w, h, p) /\ IsCut(Byte, w, p, p) /\ IsCut3(Byte, w, 0, h, m)
  BY DEF IsCut, IsCut3
<1>3. CutShape(Byte, w, h, p) /\ CutShape(Byte, w, p, p)
  BY <1>2, CutFacts
<1>4. PICK s \in Seq(Byte) : s = Cut(w, h, p) /\ Len(s) = p - h
  BY <1>3 DEF CutShape
<1>5. Cut(w, p, p) = <<>>
  BY <1>3 DEF CutShape
<1>6. Cut(w, 0, h) \o Cut(w, h, m) = Cut(w, 0, m)
  BY <1>2, CutCat
<1>7. PICK j \in Nat : j = m - h /\ j <= Len(s)
  BY <1>4 DEF IsCut3
<1>8. Take(s, j) = Cut(s, 0, j) /\ Drop(s, j) = Cut(s, j, Len(s))
  BY <1>7 DEF Take, Drop, Cut
<1>9. Take(s, j) = Cut(w, h, m) /\ Drop(s, j) = Cut(w, m, p)
  BY <1>1, <1>4, <1>7 DEF Slices
<1> QED BY <1>4, <1>5, <1>6, <1>7, <1>8, <1>9 DEF BufferShape

\* Decrypting on from h to m.
LEMMA StreamTextCat ==
  ASSUME NEW w, NEW h, NEW m, IsCut3(Byte, w, Begin, h, m)
  PROVE  /\ StreamText(w, h) \o CipherDecrypt(h - Begin, Cut(w, h, m))
              = CipherDecrypt(0, Cut(w, Begin, m))
         /\ StreamText(w, h) \in Seq(Nat)
<1>1. IsCut(Byte, w, Begin, h) /\ IsCut(Byte, w, h, m)
  BY DEF IsCut, IsCut3
<1>2. CutShape(Byte, w, Begin, h) /\ CutShape(Byte, w, h, m)
  BY <1>1, CutFacts
<1>3. PICK s \in Seq(Byte) : /\ s = Cut(w, Begin, h) /\ Len(s) = h - Begin
                             /\ s = <<>> <=> Begin = h
  BY <1>2 DEF CutShape
<1>4. PICK t \in Seq(Byte) : t = Cut(w, h, m)
  BY <1>2 DEF CutShape
<1>5. s \o t = Cut(w, Begin, m)
  <2>1. Cut(w, Begin, h) \o Cut(w, h, m) = Cut(w, Begin, m)
    BY CutCat
  <2> QED BY <1>3, <1>4, <2>1
<1>6. CipherDecrypt(0, s) \o CipherDecrypt(Len(s), t) = CipherDecrypt(0, s \o t)
  BY CipherDecryptCat
<1>7. CipherDecrypt(0, s) \in Seq(Nat) /\ Len(CipherDecrypt(0, s)) = Len(s)
  BY CipherDecryptFacts
<1>8. StreamText(w, h) = CipherDecrypt(0, s)
  <2>1. CASE h = Begin
    <3>1. Len(CipherDecrypt(0, s)) = 0
      BY <1>3, <1>7, <2>1
    <3>2. CipherDecrypt(0, s) = <<>>
      BY <1>7, <3>1, EmptySeq
    <3> QED BY <2>1, <3>2, BeginFacts DEF StreamText
  <2>2. CASE h # Begin
    BY <1>3, <2>2, BeginFacts DEF StreamText, IsCut3
  <2> QED BY <2>1, <2>2
<1> QED BY <1>3, <1>4, <1>5, <1>6, <1>7, <1>8

LEMMA StreamTextIs ==
  ASSUME NEW w, NEW m, IsCut(Byte, w, Begin, m)
  PROVE  StreamText(w, m) = CipherDecrypt(0, Cut(w, Begin, m))
<1>1. IsCut3(Byte, w, Begin, m, m) /\ IsCut(Byte, w, m, m)
  BY DEF IsCut, IsCut3
<1>2. StreamText(w, m) \o CipherDecrypt(m - Begin, Cut(w, m, m))
        = CipherDecrypt(0, Cut(w, Begin, m)) /\ StreamText(w, m) \in Seq(Nat)
  BY <1>1, StreamTextCat
<1>3. CutShape(Byte, w, m, m)
  BY <1>1, CutFacts
<1>4. Cut(w, m, m) = <<>>
  BY <1>3 DEF CutShape
<1>5. CipherDecrypt(m - Begin, <<>>) = <<>>
  BY DEF CipherDecrypt
<1> QED BY <1>2, <1>4, <1>5, ConcatEmptySeq

(***************************************************************************)
(* The invariant after a step, told without primes on what is not a        *)
(* variable.                                                               *)
(***************************************************************************)
LEMMA PrimedPlace ==
  ASSUME NEW h, NEW e
  PROVE  /\ Place(wire, pos, stage, hmac, enc, got, h, e)'
              <=> Place(wire', pos', stage', hmac', enc', got', h, e)
         /\ StreamText(wire, h)' = StreamText(wire', h)
<1>1. Place(wire, pos, stage, hmac, enc, got, h, e)'
        <=> Place(wire', pos', stage', hmac', enc', got', h, e)
  BY DEF Place, StageShape, Cut, Byte, PlainBytes, Padded, Begin, Whole
<1>2. StreamText(wire, h)' = StreamText(wire', h)
  BY DEF StreamText, CipherDecrypt, Cut, Begin, Garbage
<1> QED BY <1>1, <1>2

LEMMA RunsOn ==
  ASSUME ReaderKeeps, NEW h, NEW e,
         Place(wire, pos', stage', hmac', enc', got', h, e),
         returned' \o dec' = StreamText(wire, h), ~raised',
         0 \notin Requests /\ ended' => eof /\ Len(wire) <= Begin + HLEN
  PROVE  ReaderInv'
<1>1. wire' = wire /\ eof' = eof
  BY DEF ReaderKeeps
<1>2. Begin' = Begin
  BY DEF Begin
<1>3. Running(h, e)'
  BY <1>1, <1>2, PrimedPlace DEF Running
<1> QED BY <1>3 DEF ReaderInv

LEMMA PrimedDecrypt ==
  /\ CanDecrypt(wire)' <=> CanDecrypt(wire')
  /\ Decrypt(wire)' = Decrypt(wire')
BY DEF CanDecrypt, Decrypt, IsShort, Drop, ButLast, Sign, CipherPart, UnPad, CipherDecrypt, Garbage

AtEndNext == eof /\ pos' = Len(wire) /\ stage' = "body" /\ got' = <<>> /\ Len(enc') <= HLEN

LEMMA EndsAccepted ==
  ASSUME ReaderKeeps, AtEndNext, CanDecrypt(wire), returned' \o dec' = Decrypt(wire), ~raised',
         0 \notin Requests /\ ended' => dec' = <<>>
  PROVE  ReaderInv'
<1>1. wire' = wire /\ eof' = eof
  BY DEF ReaderKeeps
<1>2. AtEnd'
  BY <1>1 DEF AtEnd, AtEndNext
<1>3. CanDecrypt(wire)' /\ (returned \o dec = Decrypt(wire))'
  BY <1>1, PrimedDecrypt
<1>4. Accepted'
  BY <1>2, <1>3 DEF Accepted
<1> QED BY <1>4 DEF ReaderInv

LEMMA EndsRejected ==
  ASSUME ReaderKeeps, AtEndNext, ~CanDecrypt(wire), raised', NEW h \in Nat,
         returned' \o dec' = StreamText(wire, h),
         h <= Begin \/ h + HLEN + BlockSize <= Len(wire)
  PROVE  ReaderInv'
<1>1. wire' = wire /\ eof' = eof
  BY DEF ReaderKeeps
<1>2. AtEnd'
  BY <1>1 DEF AtEnd, AtEndNext
<1>3. ~CanDecrypt(wire)' /\ (returned \o dec = StreamText(wire, h))'
  BY <1>1, PrimedDecrypt, PrimedPlace
<1>4. Begin' = Begin
  BY DEF Begin
<1>5. Rejected(h)'
  BY <1>1, <1>2, <1>3, <1>4 DEF Rejected
<1> QED BY <1>5 DEF ReaderInv

(***************************************************************************)
(* A running reader, before the ciphertext.                                *)
(***************************************************************************)
\* A running reader and one read of the source.
RunningStep(h, e, bytes, avail, p) ==
  /\ TypeInv /\ WriterInv /\ ReaderKeeps /\ Running(h, e)
  /\ SourceShape(bytes, avail, p)

\* What the read has brought, by places.
Reading(h, e, bytes, p) ==
  /\ h \in Nat /\ e \in Nat /\ p \in Nat /\ pos \in Nat
  /\ h <= p /\ e <= p /\ h <= e /\ e <= pos /\ pos <= p /\ p <= Len(wire) /\ wire \in Seq(Byte)
  /\ hmac = Cut(wire, 0, h) /\ enc = Cut(wire, h, e)
  /\ bytes = Cut(wire, e, p) /\ enc \o bytes = Cut(wire, h, p)
  /\ Len(bytes) = p - e /\ Len(enc) = e - h /\ Len(hmac) = h
  /\ pos' = p /\ StageShape(stage, pos, h, e)
  /\ returned \o dec = StreamText(wire, h) /\ ~raised
  /\ Len(Cut(wire, h, p)) = p - h /\ Cut(wire, p, p) = <<>>

LEMMA RunningFacts ==
  ASSUME NEW h, NEW e, NEW bytes, NEW avail, NEW p, RunningStep(h, e, bytes, avail, p)
  PROVE  Reading(h, e, bytes, p)
<1>1. Place(wire, pos, stage, hmac, enc, got, h, e) /\ SourceShape(bytes, avail, p)
  BY DEF RunningStep, Running
<1>2. /\ h \in Nat /\ e \in Nat /\ p \in Nat /\ pos \in Nat
      /\ h <= e /\ e <= pos /\ pos <= p /\ p <= Len(wire) /\ wire \in Seq(Byte)
      /\ hmac = Cut(wire, 0, h) /\ enc = Cut(wire, h, e) /\ pos' = p
      /\ StageShape(stage, pos, h, e) /\ bytes = got \o Cut(wire, pos, p)
      /\ Len(bytes) = Len(got) + (p - pos)
  BY <1>1 DEF Place, SourceShape
<1>3. /\ got \o Cut(wire, pos, p) = Cut(wire, e, p) /\ enc \o Cut(wire, e, p) = Cut(wire, h, p)
      /\ Len(enc) = e - h /\ Len(got) = pos - e /\ Len(hmac) = h
  <2>1. p \in Nat /\ pos <= p /\ p <= Len(wire)
    BY <1>2
  <2> QED BY <1>1, <2>1, BufferIs
<1>4. Len(bytes) = p - e
  BY <1>2, <1>3
<1>5. IsCut3(Byte, wire, h, h, p)
  BY <1>2 DEF IsCut3
<1>6. BufferShape(wire, h, h, p)
  BY <1>5, BufferFacts
<1>7. h <= p /\ e <= p
  BY <1>2
<1>8. Len(Cut(wire, h, p)) = p - h /\ Cut(wire, p, p) = <<>>
  BY <1>6 DEF BufferShape
<1>9. returned \o dec = StreamText(wire, h) /\ ~raised
  BY DEF RunningStep, Running
<1> QED BY <1>2, <1>3, <1>4, <1>7, <1>8, <1>9 DEF Reading

LEMMA RunningWaits ==
  ASSUME NEW h, NEW e, NEW bytes, NEW avail, NEW p, RunningStep(h, e, bytes, avail, p),
         Waits(bytes)
  PROVE  ReaderInv'
<1>1. /\ h \in Nat /\ e \in Nat /\ p \in Nat /\ h <= e /\ e <= p /\ p <= Len(wire)
      /\ wire \in Seq(Byte) /\ Len(bytes) = p - e /\ Len(enc) = e - h
      /\ hmac = Cut(wire, 0, h) /\ enc = Cut(wire, h, e) /\ bytes = Cut(wire, e, p)
      /\ StageShape(stage, pos, h, e) /\ pos' = p
  <2>1. Reading(h, e, bytes, p)
    BY RunningFacts
  <2> QED BY <2>1 DEF Reading
<1>2. StageShape(stage, p, h, e)
  <2>1. p - e < R!Size
    BY <1>1 DEF Waits
  <2>2. TypeInv
    BY DEF RunningStep
  <2>3. CASE stage = "header" /\ h = 0
    BY <1>1, <2>1, <2>2, <2>3, SizeIs, BlockFacts DEF StageShape
  <2>4. CASE stage = "iv" /\ h = HeaderSize
    BY <1>1, <2>1, <2>2, <2>4, SizeIs, BlockFacts DEF StageShape, Begin
  <2>5. CASE stage = "body"
    BY <1>1, <2>1, <2>2, <2>5, SizeIs, BlockFacts DEF StageShape
  <2> QED BY <1>1, <2>3, <2>4, <2>5 DEF StageShape
<1>3. Place(wire, pos', stage', hmac', enc', got', h, e)
  BY <1>1, <1>2 DEF Place, Waits
<1>4. /\ returned' \o dec' = StreamText(wire, h) /\ ~raised'
      /\ 0 \notin Requests /\ ended' => eof /\ Len(wire) <= Begin + HLEN
  BY DEF Waits, Goes, RunningStep, Running
<1> QED BY <1>3, <1>4, RunsOn DEF RunningStep

LEMMA EmptyCat ==
  ASSUME TypeInv, returned \o dec = <<>>
  PROVE  returned = <<>> /\ dec = <<>>
<1>1. returned \in Seq(Nat) /\ dec \in Seq(Nat)
  BY DEF TypeInv
<1> QED BY <1>1, ConcatEqualIffEmpty

\* read() ends before the ciphertext has begun.
LEMMA ReturnsNothing ==
  ASSUME TypeInv, NEW avail, Returns(dec, avail)
  PROVE  /\ returned' \o dec' = returned \o dec /\ raised' = raised
         /\ 0 \notin Requests /\ ended' => ended \/ ~avail
         /\ dec = <<>> => dec' = <<>>
         /\ 0 \notin Requests /\ ended' => ended \/ dec = <<>>
<1>1. dec \in Seq(Nat)
  BY DEF TypeInv
<1> QED BY <1>1, ReturnsFacts

LEMMA RunningNeedsMore ==
  ASSUME NEW h, NEW e, NEW bytes, NEW avail, NEW p, RunningStep(h, e, bytes, avail, p),
         got' = <<>>, NEW size,
         \/ stage = "header" /\ size = HeaderSize
         \/ stage = "iv" /\ size = BlockSize,
         NeedsMore(enc \o bytes, avail, size)
  PROVE  ReaderInv'
<1>1. /\ h \in Nat /\ p \in Nat /\ pos \in Nat /\ h <= p /\ p <= Len(wire) /\ wire \in Seq(Byte)
      /\ hmac = Cut(wire, 0, h) /\ enc \o bytes = Cut(wire, h, p)
      /\ StageShape(stage, pos, h, e) /\ pos' = p
      /\ Len(Cut(wire, h, p)) = p - h /\ Cut(wire, p, p) = <<>>
      /\ returned \o dec = StreamText(wire, h) /\ ~raised
  <2>1. Reading(h, e, bytes, p)
    BY RunningFacts
  <2> QED BY <2>1 DEF Reading
<1>2. p - h < size /\ enc' = Cut(wire, h, p) /\ stage' = stage /\ hmac' = hmac
      /\ Returns(dec, avail)
  BY <1>1 DEF NeedsMore
<1>3. StageShape(stage, p, h, p) /\ p < Begin
  BY <1>1, <1>2, BlockFacts DEF StageShape, Begin
<1>4. Place(wire, pos', stage', hmac', enc', got', h, p)
  BY <1>1, <1>2, <1>3 DEF Place
<1>5. /\ returned' \o dec' = returned \o dec /\ raised' = raised
      /\ 0 \notin Requests /\ ended' => ended \/ ~avail
  BY <1>2, ReturnsNothing DEF RunningStep
<1>6. ~avail => eof /\ Len(wire) <= Begin + HLEN
  <2>1. ~avail => eof /\ p = Len(wire)
    BY DEF RunningStep, SourceShape
  <2> QED BY <1>3, <2>1, BlockFacts, BeginFacts
<1>7. 0 \notin Requests /\ ended' => eof /\ Len(wire) <= Begin + HLEN
  BY <1>5, <1>6 DEF RunningStep, Running
<1>8. returned' \o dec' = StreamText(wire, h) /\ ~raised'
  BY <1>1, <1>5
<1> QED BY <1>4, <1>7, <1>8, RunsOn DEF RunningStep

LEMMA RunningHasHeader ==
  ASSUME NEW h, NEW e, NEW bytes, NEW avail, NEW p, RunningStep(h, e, bytes, avail, p),
         got' = <<>>, stage = "header", HasHeader(enc \o bytes, avail)
  PROVE  ReaderInv'
<1>1. /\ h \in Nat /\ e \in Nat /\ p \in Nat /\ pos \in Nat /\ e <= pos /\ pos <= p
      /\ p <= Len(wire) /\ wire \in Seq(Byte)
      /\ enc \o bytes = Cut(wire, h, p)
      /\ StageShape(stage, pos, h, e) /\ pos' = p /\ Len(enc) = e - h
      /\ Len(Cut(wire, h, p)) = p - h /\ Cut(wire, p, p) = <<>>
      /\ returned \o dec = StreamText(wire, h) /\ ~raised
  <2>1. Reading(h, e, bytes, p)
    BY RunningFacts
  <2> QED BY <2>1 DEF Reading
<1>2. h = 0 /\ pos < HeaderSize
  BY <1>1 DEF StageShape
<1>3. HeaderSize <= p
  BY <1>1, <1>2 DEF HasHeader
<1>4. avail = TRUE /\ Goes
  <2>1. avail = FALSE => p = pos
    BY DEF RunningStep, SourceShape
  <2>3. p # pos
    BY <1>1, <1>2, <1>3, BlockFacts
  <2>2. avail # FALSE
    BY <2>1, <2>3
  <2> QED BY <2>2 DEF HasHeader
<1>5. p < Begin
  <2>1. p - pos <= 2 * R!Size
    BY <1>4 DEF RunningStep, SourceShape
  <2>2. R!Size = HeaderSize - Len(enc)
    BY SizeIs DEF RunningStep
  <2> QED BY <1>1, <1>2, <2>1, <2>2, BlockFacts DEF Begin
<1>6. BufferShape(wire, 0, HeaderSize, p)
  <2>1. IsCut3(Byte, wire, 0, HeaderSize, p)
    BY <1>1, <1>3, BlockFacts DEF IsCut3
  <2> QED BY <2>1, BufferFacts
<1>7. HeaderSize - 0 = HeaderSize
  BY BlockFacts
<1>8. Take(enc \o bytes, HeaderSize) = Cut(wire, 0, HeaderSize)
      /\ Drop(enc \o bytes, HeaderSize) = Cut(wire, HeaderSize, p)
  BY <1>1, <1>2, <1>6, <1>7 DEF BufferShape
<1>9. hmac' = Cut(wire, 0, HeaderSize) /\ enc' = Cut(wire, HeaderSize, p) /\ stage' = "iv"
  BY <1>8 DEF HasHeader
<1>10. StageShape("iv", p, HeaderSize, p)
  BY <1>5 DEF StageShape
<1>11. Place(wire, pos', stage', hmac', enc', got', HeaderSize, p)
  BY <1>1, <1>3, <1>9, <1>10, BlockFacts DEF Place
<1>12. StreamText(wire, HeaderSize) = <<>> /\ StreamText(wire, h) = <<>>
  BY <1>2, BlockFacts DEF StreamText, Begin
<1>13. /\ returned' \o dec' = StreamText(wire, HeaderSize) /\ ~raised' /\ ended' = ended
  BY <1>1, <1>4, <1>12 DEF Goes
<1>14. 0 \notin Requests /\ ended' => eof /\ Len(wire) <= Begin + HLEN
  BY <1>13 DEF RunningStep, Running
<1> QED BY <1>11, <1>13, <1>14, RunsOn DEF RunningStep

LEMMA RunningRefuses ==
  ASSUME NEW h, NEW e, NEW bytes, NEW avail, NEW p, RunningStep(h, e, bytes, avail, p),
         got' = <<>>, stage = "header", Refuses(enc \o bytes)
  PROVE  ReaderInv'
<1>1. /\ h \in Nat /\ p \in Nat /\ p <= Len(wire) /\ wire \in Seq(Byte)
      /\ enc \o bytes = Cut(wire, h, p) /\ StageShape(stage, pos, h, e)
      /\ Len(Cut(wire, h, p)) = p - h
      /\ returned \o dec = StreamText(wire, h)
  <2>1. Reading(h, e, bytes, p)
    BY RunningFacts
  <2> QED BY <2>1 DEF Reading
<1>2. h = 0
  BY <1>1 DEF StageShape
<1>3. HeaderSize <= p
  BY <1>1, <1>2 DEF Refuses
<1>4. BufferShape(wire, 0, HeaderSize, p)
  <2>1. IsCut3(Byte, wire, 0, HeaderSize, p)
    BY <1>1, <1>3, BlockFacts DEF IsCut3
  <2> QED BY <2>1, BufferFacts
<1>5. HeaderSize - 0 = HeaderSize
  BY BlockFacts
<1>6. Take(enc \o bytes, HeaderSize) = Cut(wire, 0, HeaderSize)
  BY <1>1, <1>2, <1>4, <1>5 DEF BufferShape
<1>7. Cut(wire, 0, HeaderSize) = Header
  <2>1. IsCut(Byte, wire, 0, HeaderSize)
    BY <1>1, <1>3, BlockFacts DEF IsCut
  <2>2. CutShape(Byte, wire, 0, HeaderSize)
    BY <2>1, CutFacts
  <2>3. PICK c \in Seq(Byte) : /\ c = Cut(wire, 0, HeaderSize) /\ Len(c) = HeaderSize
                               /\ \A i \in 1 .. HeaderSize : c[i] = wire[0 + i]
    BY <1>5, <2>2 DEF CutShape
  <2>4. \A i \in 1 .. HeaderSize : wire[i] = Header[i]
    <3> TAKE i \in 1 .. HeaderSize
    <3>1. i <= Len(wire)
      BY <1>1, <1>3, BlockFacts
    <3> QED BY <3>1 DEF RunningStep, WriterInv, HeaderInv
  <2>5. Header \in Seq(Byte) /\ Len(Header) = HeaderSize
    BY HeaderFacts, PlainIsByte
  <2>6. \A i \in 1 .. HeaderSize : c[i] = Header[i]
    BY <2>3, <2>4, BlockFacts
  <2> QED BY <2>3, <2>5, <2>6, SeqEqual
<1>8. ~known
  BY <1>6, <1>7 DEF Refuses
<1>9. returned = <<>> /\ dec = <<>>
  <2>1. StreamText(wire, h) = <<>>
    BY <1>2, BeginFacts DEF StreamText
  <2> QED BY <1>1, <2>1, EmptyCat DEF RunningStep
<1>10. Refused'
  BY <1>8, <1>9 DEF Refused, Refuses, Raises, RunningStep, SourceShape
<1> QED BY <1>10 DEF ReaderInv

LEMMA RunningHasIV ==
  ASSUME NEW h, NEW e, NEW bytes, NEW avail, NEW p, RunningStep(h, e, bytes, avail, p),
         got' = <<>>, stage = "iv", HasIV(enc \o bytes, avail)
  PROVE  ReaderInv'
<1>1. /\ h \in Nat /\ p \in Nat /\ pos \in Nat /\ pos <= p
      /\ p <= Len(wire) /\ wire \in Seq(Byte)
      /\ hmac = Cut(wire, 0, h) /\ enc \o bytes = Cut(wire, h, p)
      /\ StageShape(stage, pos, h, e) /\ pos' = p
      /\ Len(Cut(wire, h, p)) = p - h /\ Cut(wire, p, p) = <<>>
      /\ returned \o dec = StreamText(wire, h) /\ ~raised
  <2>1. Reading(h, e, bytes, p)
    BY RunningFacts
  <2> QED BY <2>1 DEF Reading
<1>2. h = HeaderSize /\ pos < Begin
  BY <1>1 DEF StageShape
<1>3. Begin <= p
  BY <1>1, <1>2, BlockFacts DEF HasIV, Begin
<1>4. avail = TRUE /\ Goes
  <2>1. avail = FALSE => p = pos
    BY DEF RunningStep, SourceShape
  <2>3. p # pos
    BY <1>1, <1>2, <1>3, BeginFacts
  <2>2. avail # FALSE
    BY <2>1, <2>3
  <2> QED BY <2>2 DEF HasIV
<1>5. BufferShape(wire, HeaderSize, Begin, p)
  <2>1. IsCut3(Byte, wire, HeaderSize, Begin, p)
    BY <1>1, <1>3, BlockFacts, BeginFacts DEF IsCut3
  <2> QED BY <2>1, BufferFacts
<1>6. Begin - HeaderSize = BlockSize
  BY BlockFacts DEF Begin
<1>7. /\ Take(enc \o bytes, BlockSize) = Cut(wire, HeaderSize, Begin)
      /\ Drop(enc \o bytes, BlockSize) = Cut(wire, Begin, p)
      /\ Cut(wire, 0, HeaderSize) \o Cut(wire, HeaderSize, Begin) = Cut(wire, 0, Begin)
  BY <1>1, <1>2, <1>5, <1>6 DEF BufferShape
<1>8. hmac' = Cut(wire, 0, Begin) /\ enc' = Cut(wire, Begin, p) /\ stage' = "body"
  BY <1>1, <1>2, <1>7 DEF HasIV
<1>9. StageShape("body", p, Begin, p)
  <2>1. Begin - Begin = 0 /\ p - p = 0
    BY <1>1, BeginFacts
  <2> QED BY <2>1, WholeZero, BlockFacts, BeginFacts DEF StageShape
<1>10. Place(wire, pos', stage', hmac', enc', got', Begin, p)
  BY <1>1, <1>3, <1>8, <1>9, BeginFacts DEF Place
<1>11. StreamText(wire, Begin) = <<>> /\ StreamText(wire, h) = <<>>
  BY <1>2, BlockFacts, BeginFacts DEF StreamText
<1>12. /\ returned' \o dec' = StreamText(wire, Begin) /\ ~raised' /\ ended' = ended
  BY <1>1, <1>4, <1>11 DEF Goes
<1>13. 0 \notin Requests /\ ended' => eof /\ Len(wire) <= Begin + HLEN
  BY <1>12 DEF RunningStep, Running
<1> QED BY <1>10, <1>12, <1>13, RunsOn DEF RunningStep

(***************************************************************************)
(* A running reader in the ciphertext.                                     *)
(***************************************************************************)
\* What is decrypted goes from h to m.
MoreFacts(h, e, m, k, now, rest, opened, avail, p) ==
  /\ h \in Nat /\ e \in Nat /\ p \in Nat /\ k \in Nat /\ m \in Nat /\ m = h + k /\ m <= p
  /\ Begin <= h /\ h <= e /\ e <= p /\ p <= Len(wire) /\ wire \in Seq(Byte) /\ pos' = p
  /\ Whole(h - Begin) /\ (h = Begin \/ h + HLEN + BlockSize <= e)
  /\ hmac = Cut(wire, 0, h) /\ enc \o Cut(wire, e, p) = Cut(wire, h, p)
  /\ now = Cut(wire, h, m) /\ rest = Cut(wire, m, p) /\ hmac \o now = Cut(wire, 0, m)
  /\ Cut(wire, p, p) = <<>> /\ Len(rest) = p - m /\ Len(now) = k
  /\ opened = CipherDecrypt(h - Begin, Cut(wire, h, m)) /\ opened \in Seq(Nat)
  /\ Len(opened) = k
  /\ StreamText(wire, h) \o opened = CipherDecrypt(0, Cut(wire, Begin, m))
  /\ StreamText(wire, h) \in Seq(Nat)
  /\ returned \o dec = StreamText(wire, h) /\ ~raised
  /\ avail = TRUE => Whole(k) /\ (k = 0 \/ m + HLEN + BlockSize <= p)
  /\ avail = FALSE => /\ eof /\ p = Len(wire)
                      /\ m + HLEN = p \/ (k = 0 /\ p - h <= HLEN)

LEMMA MoreIs ==
  ASSUME NEW h, NEW e, NEW bytes, NEW avail, NEW p, RunningStep(h, e, bytes, avail, p),
         stage = "body", NEW k, NEW now, NEW rest, NEW opened,
         MoreShape(enc \o bytes, avail, k, now, rest, opened)
  PROVE  \E m : MoreFacts(h, e, m, k, now, rest, opened, avail, p)
<1>1. /\ h \in Nat /\ e \in Nat /\ p \in Nat /\ h <= e /\ e <= p /\ pos <= p
      /\ p <= Len(wire) /\ wire \in Seq(Byte)
      /\ hmac = Cut(wire, 0, h) /\ enc \o bytes = Cut(wire, h, p) /\ bytes = Cut(wire, e, p)
      /\ StageShape(stage, pos, h, e) /\ pos' = p /\ Len(hmac) = h
      /\ Len(Cut(wire, h, p)) = p - h /\ Cut(wire, p, p) = <<>>
      /\ returned \o dec = StreamText(wire, h) /\ ~raised
  <2>1. Reading(h, e, bytes, p)
    BY RunningFacts
  <2> QED BY <2>1 DEF Reading
<1>2. Begin <= h /\ Whole(h - Begin) /\ (h = Begin \/ h + HLEN + BlockSize <= e)
  BY <1>1 DEF StageShape
<1>3. k \in Nat /\ k <= p - h /\ now = Cut(Cut(wire, h, p), 0, k)
      /\ rest = Cut(Cut(wire, h, p), k, p - h) /\ Len(now) = k
      /\ Len(rest) = (p - h) - k
  BY <1>1 DEF MoreShape, DecryptsShape
<1>4. PICK m \in Nat : m = h + k
  BY <1>1, <1>3
<1>5. m <= p /\ m - h = k /\ h <= m /\ p - m = (p - h) - k
  BY <1>1, <1>3, <1>4
<1>6. BufferShape(wire, h, m, p)
  <2>1. IsCut3(Byte, wire, h, m, p)
    BY <1>1, <1>4, <1>5 DEF IsCut3
  <2> QED BY <2>1, BufferFacts
<1>7. /\ now = Cut(wire, h, m) /\ rest = Cut(wire, m, p) /\ hmac \o now = Cut(wire, 0, m)
  BY <1>1, <1>3, <1>5, <1>6 DEF BufferShape
<1>8. opened = CipherDecrypt(h - Begin, Cut(wire, h, m)) /\ opened \in Seq(Nat)
      /\ Len(opened) = k
  BY <1>1, <1>7 DEF MoreShape
<1>9. /\ StreamText(wire, h) \o opened = CipherDecrypt(0, Cut(wire, Begin, m))
      /\ StreamText(wire, h) \in Seq(Nat)
  <2>1. IsCut3(Byte, wire, Begin, h, m)
    BY <1>1, <1>2, <1>4, <1>5, BeginFacts DEF IsCut3
  <2> QED BY <1>8, <2>1, StreamTextCat
<1>10. avail = TRUE => Whole(k) /\ (k = 0 \/ m + HLEN + BlockSize <= p)
  <2>1. avail = TRUE => Whole(k) /\ (k = 0 \/ k + HLEN + BlockSize <= p - h)
    BY <1>1 DEF MoreShape, DecryptsShape
  <2>2. k + HLEN + BlockSize <= p - h => m + HLEN + BlockSize <= p
    BY <1>1, <1>3, <1>4, BlockFacts
  <2> QED BY <2>1, <2>2
<1>11. avail = FALSE => /\ eof /\ p = Len(wire)
                        /\ m + HLEN = p \/ (k = 0 /\ p - h <= HLEN)
  <2>1. avail = FALSE => k + HLEN = p - h \/ (k = 0 /\ p - h <= HLEN)
    BY <1>1 DEF MoreShape, DecryptsShape
  <2>2. k + HLEN = p - h => m + HLEN = p
    BY <1>1, <1>3, <1>4, BlockFacts
  <2>3. avail = FALSE => eof /\ p = Len(wire)
    BY DEF RunningStep, SourceShape
  <2> QED BY <2>1, <2>2, <2>3
<1>12. Len(rest) = p - m /\ enc \o Cut(wire, e, p) = Cut(wire, h, p)
  BY <1>1, <1>3, <1>5
<1>13. MoreFacts(h, e, m, k, now, rest, opened, avail, p)
  BY <1>1, <1>2, <1>3, <1>4, <1>5, <1>7, <1>8, <1>9, <1>10, <1>11, <1>12 DEF MoreFacts
<1> QED BY <1>13

LEMMA RunningMoreWaits ==
  ASSUME NEW h, NEW e, NEW bytes, NEW avail, NEW p, RunningStep(h, e, bytes, avail, p),
         stage = "body", stage' = stage, got' = <<>>, bytes = Cut(wire, e, p),
         NEW m, NEW k, NEW now, NEW rest, NEW opened,
         MoreFacts(h, e, m, k, now, rest, opened, avail, p),
         MoreWaits(enc \o bytes, avail, k)
  PROVE  ReaderInv'
<1>1. /\ h \in Nat /\ e \in Nat /\ p \in Nat /\ k \in Nat /\ k = 0 /\ m = h + k
      /\ Begin <= h /\ h <= e /\ e <= p /\ p <= Len(wire) /\ wire \in Seq(Byte) /\ pos' = p
      /\ Whole(h - Begin) /\ (h = Begin \/ h + HLEN + BlockSize <= e)
      /\ hmac = Cut(wire, 0, h) /\ enc \o bytes = Cut(wire, h, p) /\ Cut(wire, p, p) = <<>>
      /\ returned \o dec = StreamText(wire, h) /\ ~raised
  BY DEF MoreFacts, MoreWaits
<1>2. StageShape("body", p, h, p)
  <2>1. p - p = 0 /\ (h = Begin \/ h + HLEN + BlockSize <= p)
    BY <1>1, BlockFacts, BeginFacts
  <2> QED BY <1>1, <2>1, BlockFacts DEF StageShape
<1>3. Place(wire, pos', stage', hmac', enc', got', h, p)
  BY <1>1, <1>2 DEF Place, MoreWaits
<1>4. CASE avail = TRUE /\ Goes
  <2>1. /\ returned' \o dec' = StreamText(wire, h) /\ ~raised'
        /\ 0 \notin Requests /\ ended' => eof /\ Len(wire) <= Begin + HLEN
    BY <1>1, <1>4 DEF Goes, RunningStep, Running
  <2> QED BY <1>3, <2>1, RunsOn DEF RunningStep
<1>5. CASE avail = FALSE /\ Returns(dec, avail)
  <2>1. eof /\ p = Len(wire) /\ (m + HLEN = p \/ p - h <= HLEN)
    BY <1>5 DEF MoreFacts
  <2>2. Len(wire) <= Begin + HLEN
    BY <1>1, <2>1, BlockFacts, BeginFacts
  <2>3. returned' \o dec' = returned \o dec /\ raised' = raised
    BY <1>5, ReturnsNothing DEF RunningStep
  <2>4. returned' \o dec' = StreamText(wire, h) /\ ~raised'
    BY <1>1, <2>3
  <2> QED BY <1>3, <2>1, <2>2, <2>4, RunsOn DEF RunningStep
<1> QED BY <1>4, <1>5 DEF MoreWaits

LEMMA RunningMoreStreams ==
  ASSUME NEW h, NEW e, NEW bytes, NEW avail, NEW p, RunningStep(h, e, bytes, avail, p),
         stage = "body", stage' = stage, got' = <<>>,
         NEW m, NEW k, NEW now, NEW rest, NEW opened,
         MoreFacts(h, e, m, k, now, rest, opened, avail, p),
         MoreStreams(avail, k, now, rest, opened)
  PROVE  ReaderInv'
<1>1. /\ h \in Nat /\ p \in Nat /\ k \in Nat /\ k # 0 /\ m \in Nat /\ m = h + k /\ m <= p
      /\ Begin <= h /\ p <= Len(wire) /\ wire \in Seq(Byte) /\ pos' = p
      /\ Whole(h - Begin) /\ Whole(k) /\ m + HLEN + BlockSize <= p
      /\ hmac' = Cut(wire, 0, m) /\ enc' = Cut(wire, m, p) /\ Cut(wire, p, p) = <<>>
      /\ opened \in Seq(Nat) /\ returned \o dec = StreamText(wire, h) /\ ~raised
      /\ StreamText(wire, h) \o opened = CipherDecrypt(0, Cut(wire, Begin, m))
  BY DEF MoreFacts, MoreStreams
<1>2. Whole(m - Begin)
  <2>1. Whole((h - Begin) + k)
    BY <1>1, WholeSum
  <2>2. m - Begin = (h - Begin) + k
    BY <1>1, BeginFacts
  <2> QED BY <2>1, <2>2
<1>3. StageShape("body", p, m, p)
  <2>1. p - p = 0 /\ Begin <= m
    BY <1>1, BeginFacts
  <2> QED BY <1>1, <1>2, <2>1, BlockFacts DEF StageShape
<1>4. Place(wire, pos', stage', hmac', enc', got', m, p)
  BY <1>1, <1>3 DEF Place
<1>5. StreamText(wire, m) = CipherDecrypt(0, Cut(wire, Begin, m))
  <2>1. IsCut(Byte, wire, Begin, m)
    BY <1>1, BeginFacts DEF IsCut
  <2> QED BY <2>1, StreamTextIs
<1>6. dec \in Seq(Nat) /\ returned \in Seq(Nat) /\ TypeInv
  BY DEF RunningStep, TypeInv
<1>7. dec \o opened \in Seq(Nat) /\ returned \o (dec \o opened) = (returned \o dec) \o opened
  <2>1. dec \in Seq(Nat) /\ returned \in Seq(Nat) /\ opened \in Seq(Nat)
    BY <1>1, <1>6
  <2>2. dec \o opened \in Seq(Nat)
    BY <2>1, ConcatProperties
  <2>3. (returned \o dec) \o opened = returned \o (dec \o opened)
    BY <2>1, ConcatAssociative
  <2> QED BY <2>2, <2>3
<1>8. /\ returned' \o dec' = returned \o (dec \o opened) /\ raised' = raised
      /\ ended' = ended
  BY <1>6, <1>7, ReturnsFacts DEF MoreStreams
<1>9. returned' \o dec' = StreamText(wire, m) /\ ~raised'
  BY <1>1, <1>5, <1>7, <1>8
<1>10. 0 \notin Requests /\ ended' => eof /\ Len(wire) <= Begin + HLEN
  BY <1>8 DEF RunningStep, Running
<1> QED BY <1>4, <1>9, <1>10, RunsOn DEF RunningStep

\* The end of the source: what is read now is the message's last part.
LastFacts(h, m, k, now, rest, opened) ==
  /\ h \in Nat /\ m \in Nat /\ k \in Nat /\ k # 0 /\ m = h + k /\ Begin <= h /\ Begin <= m
  /\ wire \in Seq(Byte) /\ m + HLEN = Len(wire) /\ m # Begin
  /\ Whole(h - Begin) /\ (h <= Begin \/ h + HLEN + BlockSize <= Len(wire))
  /\ m - Begin = (h - Begin) + k
  /\ hmac \o now = Cut(wire, 0, m) /\ rest = Cut(wire, m, Len(wire)) /\ Len(rest) = HLEN
  /\ returned \o dec = StreamText(wire, h) /\ ~raised
  /\ StreamText(wire, h) \o opened = CipherDecrypt(0, Cut(wire, Begin, m))
  /\ opened = CipherDecrypt(h - Begin, Cut(wire, h, m)) /\ opened \in Seq(Nat)
  /\ Len(opened) = k
  /\ eof /\ pos' = Len(wire)
  /\ CanDecrypt(wire) <=> /\ rest = Sign(hmac \o now)
                          /\ k % BlockSize = 0
  /\ Decrypt(wire) = UnPad(CipherDecrypt(0, Cut(wire, Begin, m)))

LEMMA LastIs ==
  ASSUME NEW h, NEW e, NEW m, NEW k, NEW now, NEW rest, NEW opened, NEW p, NEW avail,
         MoreFacts(h, e, m, k, now, rest, opened, avail, p), avail = FALSE, k # 0
  PROVE  LastFacts(h, m, k, now, rest, opened)
<1>1. /\ h \in Nat /\ e \in Nat /\ m \in Nat /\ k \in Nat /\ m = h + k /\ Begin <= h
      /\ wire \in Seq(Byte) /\ e <= p /\ p = Len(wire) /\ eof /\ pos' = p /\ p \in Nat
      /\ Whole(h - Begin) /\ (h = Begin \/ h + HLEN + BlockSize <= e)
      /\ hmac \o now = Cut(wire, 0, m) /\ rest = Cut(wire, m, p) /\ Len(rest) = p - m
      /\ m + HLEN = p
  BY DEF MoreFacts
<1>2. /\ m + HLEN = Len(wire) /\ m # Begin /\ Begin <= m /\ Len(rest) = HLEN
      /\ m - Begin = (h - Begin) + k
      /\ (h <= Begin \/ h + HLEN + BlockSize <= Len(wire))
  BY <1>1, BlockFacts, BeginFacts
<1>3. (m - Begin) % BlockSize = k % BlockSize
  <2>1. ((h - Begin) + k) % BlockSize = k % BlockSize
    BY <1>1, WholePlus
  <2> QED BY <1>2, <2>1
<1>4. CanDecrypt(wire) <=> /\ Cut(wire, m, Len(wire)) = Sign(Cut(wire, 0, m))
                           /\ m # Begin /\ (m - Begin) % BlockSize = 0
  BY <1>1, <1>2, CanDecryptIs
<1>5. Decrypt(wire) = UnPad(CipherDecrypt(0, Cut(wire, Begin, m)))
  BY <1>1, <1>2, DecryptIs
<1>6. CanDecrypt(wire) <=> rest = Sign(hmac \o now) /\ k % BlockSize = 0
  BY <1>1, <1>2, <1>3, <1>4
<1>7. /\ returned \o dec = StreamText(wire, h) /\ ~raised
      /\ StreamText(wire, h) \o opened = CipherDecrypt(0, Cut(wire, Begin, m))
      /\ opened = CipherDecrypt(h - Begin, Cut(wire, h, m)) /\ opened \in Seq(Nat)
      /\ Len(opened) = k
  BY DEF MoreFacts
<1> QED BY <1>1, <1>2, <1>5, <1>6, <1>7 DEF LastFacts

LEMMA RunningMoreHalfBlock ==
  ASSUME NEW h, NEW e, NEW bytes, NEW avail, NEW p, RunningStep(h, e, bytes, avail, p),
         stage = "body", stage' = stage, got' = <<>>,
         NEW m, NEW k, NEW now, NEW rest, NEW opened,
         MoreFacts(h, e, m, k, now, rest, opened, avail, p),
         MoreHalfBlock(avail, k, now, rest)
  PROVE  ReaderInv'
<1>1. LastFacts(h, m, k, now, rest, opened)
  BY LastIs DEF MoreHalfBlock
<1>2. AtEndNext
  BY <1>1, BlockFacts DEF AtEndNext, LastFacts, MoreHalfBlock
<1>3. ~CanDecrypt(wire)
  BY <1>1 DEF LastFacts, MoreHalfBlock
<1>4. /\ raised' /\ h \in Nat /\ returned' \o dec' = StreamText(wire, h)
      /\ h <= Begin \/ h + HLEN + BlockSize <= Len(wire)
  BY <1>1 DEF LastFacts, MoreHalfBlock, Raises
<1>5. ReaderKeeps
  BY DEF RunningStep
<1> QED BY <1>2, <1>3, <1>4, <1>5, EndsRejected

\* A signature that verifies says that the message ends in padding.
LEMMA LastIsPadded ==
  ASSUME NEW h, NEW m, NEW k, NEW now, NEW rest, NEW opened,
         LastFacts(h, m, k, now, rest, opened), Sign(hmac \o now) = rest, k % BlockSize = 0
  PROVE  opened # <<>> /\ opened[Len(opened)] <= Len(opened) /\ opened[Len(opened)] # 0
<1>1. /\ h \in Nat /\ m \in Nat /\ k \in Nat /\ k # 0 /\ m = h + k /\ wire \in Seq(Byte)
      /\ m + HLEN = Len(wire) /\ Begin <= h
      /\ rest = Cut(wire, m, Len(wire)) /\ hmac \o now = Cut(wire, 0, m)
      /\ opened = CipherDecrypt(h - Begin, Cut(wire, h, m)) /\ Len(opened) = k
  BY DEF LastFacts
<1>2. IsCut(Byte, wire, 0, m) /\ IsCut(Byte, wire, m, Len(wire)) /\ IsCut(Byte, wire, h, m)
  BY <1>1, BlockFacts DEF IsCut
<1>3. CutShape(Byte, wire, 0, m) /\ CutShape(Byte, wire, m, Len(wire))
      /\ CutShape(Byte, wire, h, m)
  BY <1>2, CutFacts
<1>4. PICK c \in Seq(Byte) : c = Cut(wire, 0, m) /\ Len(c) = m - 0
                             /\ \A i \in 1 .. m - 0 : c[i] = wire[0 + i]
  BY <1>3 DEF CutShape
<1>5. PICK t \in Seq(Byte) : t = Cut(wire, m, Len(wire)) /\ Len(t) = Len(wire) - m
  BY <1>3 DEF CutShape
<1>6. PICK s \in Seq(Byte) : s = Cut(wire, h, m) /\ Len(s) = m - h
                             /\ \A i \in 1 .. m - h : s[i] = wire[h + i]
  BY <1>3 DEF CutShape
<1>7. c \in Padded
  <2>1. t = Sign(c)
    BY <1>1, <1>4, <1>5
  <2>2. t[1] = <<"sig", 1, c>>
    BY <2>1, BlockFacts DEF Sign
  <2>3. t[1] \in Byte
    <3>1. 1 \in 1 .. Len(t)
      BY <1>1, <1>5, BlockFacts
    <3> QED BY <3>1
  <2>4. <<"sig", 1, c>> \notin PlainBytes
    BY DEF PlainBytes
  <2>5. <<"sig", 1, c>> \in {"sig"} \X Int \X Padded
    BY <2>2, <2>3, <2>4 DEF Byte
  <2> QED BY <2>5
<1>8. PICK pad \in 1 .. BlockSize : c[m] = <<"cipher", m - Begin, pad>> /\ c[m] = wire[m]
  <2>1. Len(c) = m /\ m \in 1 .. m - 0 /\ m - 0 = m /\ 0 + m = m
    BY <1>1, <1>4
  <2>2. EndsPadded(c)
    BY <1>7 DEF Padded
  <2>3. c[m] = wire[0 + m]
    BY <1>4, <2>1
  <2> QED BY <2>1, <2>2, <2>3 DEF EndsPadded
<1>9. s[k] = c[m] /\ k \in 1 .. Len(s) /\ Len(s) = k
  <2>1. m - h = k /\ k \in 1 .. m - h /\ h + k = m
    BY <1>1
  <2> QED BY <1>6, <1>8, <2>1
<1>10. opened[k] = Opened(s[k], (h - Begin) + k)
  <2>1. \A i \in 1 .. Len(s) :
          CipherDecrypt(h - Begin, s)[i] = Opened(s[i], (h - Begin) + i)
    BY CipherDecryptFacts
  <2> QED BY <1>1, <1>6, <1>9, <2>1
<1>11. opened[k] = pad /\ pad <= BlockSize /\ pad # 0
  <2>1. (h - Begin) + k = m - Begin
    BY <1>1, BeginFacts
  <2> QED BY <1>8, <1>9, <1>10, <2>1, BlockFacts DEF Opened
<1>12. BlockSize <= k /\ opened[k] \in Nat
  <2>1. Whole(k)
    BY <1>1 DEF Whole
  <2>2. opened \in Seq(Nat) /\ k \in 1 .. Len(opened)
    BY <1>1 DEF LastFacts
  <2> QED BY <1>1, <2>1, <2>2, WholeAtLeast
<1>13. opened # <<>>
  BY <1>1
<1>14. opened[k] <= k
  BY <1>1, <1>11, <1>12, BlockFacts
<1> QED BY <1>1, <1>11, <1>13, <1>14

LEMMA RunningMoreEnds ==
  ASSUME NEW h, NEW e, NEW bytes, NEW avail, NEW p, RunningStep(h, e, bytes, avail, p),
         stage = "body", stage' = stage, got' = <<>>,
         NEW m, NEW k, NEW now, NEW rest, NEW opened,
         MoreFacts(h, e, m, k, now, rest, opened, avail, p),
         MoreEnds(avail, k, now, rest, opened)
  PROVE  ReaderInv'
<1>1. LastFacts(h, m, k, now, rest, opened)
  BY LastIs DEF MoreEnds
<1>2. AtEndNext
  <2>1. Len(<<>>) <= HLEN
    BY BlockFacts
  <2> QED BY <1>1, <2>1 DEF AtEndNext, LastFacts, MoreEnds
<1>3. ReaderKeeps /\ TypeInv
  BY DEF RunningStep
<1>4. CASE Sign(hmac \o now) # rest /\ Raises
  <2>1. ~CanDecrypt(wire)
    BY <1>1, <1>4 DEF LastFacts
  <2>2. /\ raised' /\ h \in Nat /\ returned' \o dec' = StreamText(wire, h)
        /\ h <= Begin \/ h + HLEN + BlockSize <= Len(wire)
    BY <1>1, <1>4 DEF LastFacts, Raises
  <2> QED BY <1>2, <1>3, <2>1, <2>2, EndsRejected
<1>5. CASE Sign(hmac \o now) = rest /\ Returns(dec \o UnPad(opened), avail)
  <2>1. CanDecrypt(wire)
    BY <1>1, <1>5 DEF LastFacts, MoreEnds
  <2>2. opened # <<>> /\ opened[Len(opened)] <= Len(opened) /\ opened[Len(opened)] # 0
    BY <1>1, <1>5, LastIsPadded DEF MoreEnds
  <2>3. /\ dec \in Seq(Nat) /\ returned \in Seq(Nat) /\ opened \in Seq(Nat)
    BY <1>1, <1>3 DEF TypeInv, LastFacts
  <2>4. UnPad(opened) \in Seq(Nat)
    BY <2>2, <2>3, UnPadType
  <2>5. PICK u \in Seq(Nat) : u = UnPad(opened)
    BY <2>4
  <2>6. dec \o u \in Seq(Nat)
    BY <2>3, ConcatProperties
  <2>7. (returned \o dec) \o u = returned \o (dec \o u)
    BY <2>3, ConcatAssociative
  <2>8. returned \o dec \in Seq(Nat)
    BY <2>3, ConcatProperties
  <2>9. PICK s \in Seq(Nat) : s = returned \o dec
    BY <2>8
  <2>10. s \o UnPad(opened) = UnPad(s \o opened)
    BY <2>2, <2>3, UnPadTail
  <2>11. Decrypt(wire) = UnPad(s \o opened)
    BY <1>1, <2>9 DEF LastFacts
  <2>12. /\ returned' \o dec' = returned \o (dec \o u) /\ raised' = raised
         /\ 0 \notin Requests /\ ended' => ended \/ (dec \o u = <<>> /\ ~avail)
         /\ dec \o u = <<>> => dec' = <<>>
    BY <1>3, <1>5, <2>5, <2>6, ReturnsFacts
  <2>13. returned' \o dec' = Decrypt(wire)
    BY <2>5, <2>7, <2>9, <2>10, <2>11, <2>12
  <2>14. 0 \notin Requests => ~ended
    <3>1. 0 \notin Requests /\ ended => Len(wire) <= Begin + HLEN
      BY DEF RunningStep, Running
    <3>2. ~(Len(wire) <= Begin + HLEN)
      <4>1. m + HLEN = Len(wire) /\ Begin <= m /\ m # Begin /\ m \in Nat
        BY <1>1 DEF LastFacts
      <4> QED BY <4>1, BlockFacts, BeginFacts
    <3> QED BY <3>1, <3>2
  <2>15. 0 \notin Requests /\ ended' => dec' = <<>>
    BY <2>12, <2>14
  <2>16. ~raised'
    BY <1>1, <2>12 DEF LastFacts
  <2> QED BY <1>2, <1>3, <2>1, <2>13, <2>15, <2>16, EndsAccepted
<1> QED BY <1>4, <1>5 DEF MoreEnds

LEMMA RunningHandsOn ==
  ASSUME NEW h, NEW e, NEW bytes, NEW avail, NEW p, RunningStep(h, e, bytes, avail, p),
         HandsOn(enc \o bytes, avail), got' = <<>>
  PROVE  ReaderInv'
<1>1. CASE stage = "header" /\ NeedsMore(enc \o bytes, avail, HeaderSize)
  BY <1>1, RunningNeedsMore
<1>2. CASE stage = "header" /\ HasHeader(enc \o bytes, avail)
  BY <1>2, RunningHasHeader
<1>3. CASE stage = "header" /\ Refuses(enc \o bytes)
  BY <1>3, RunningRefuses
<1>4. CASE stage = "iv" /\ NeedsMore(enc \o bytes, avail, BlockSize)
  BY <1>4, RunningNeedsMore
<1>5. CASE stage = "iv" /\ HasIV(enc \o bytes, avail)
  BY <1>5, RunningHasIV
<1>6. ASSUME stage = "body", NEW k, NEW now, NEW rest, NEW opened,
             DecryptMoreOutcome(enc \o bytes, avail, k, now, rest, opened)
      PROVE  ReaderInv'
  <2>1. MoreShape(enc \o bytes, avail, k, now, rest, opened)
    BY <1>6 DEF DecryptMoreOutcome
  <2>2. stage' = stage
    BY <2>1 DEF MoreShape
  <2>3. PICK m : MoreFacts(h, e, m, k, now, rest, opened, avail, p)
    BY <1>6, <2>1, MoreIs
  <2>4. bytes = Cut(wire, e, p)
    <3>1. Reading(h, e, bytes, p)
      BY RunningFacts
    <3> QED BY <3>1 DEF Reading
  <2>5. CASE MoreWaits(enc \o bytes, avail, k)
    BY <1>6, <2>2, <2>3, <2>4, <2>5, RunningMoreWaits
  <2>6. CASE MoreStreams(avail, k, now, rest, opened)
    BY <1>6, <2>2, <2>3, <2>6, RunningMoreStreams
  <2>7. CASE MoreHalfBlock(avail, k, now, rest)
    BY <1>6, <2>2, <2>3, <2>7, RunningMoreHalfBlock
  <2>8. CASE MoreEnds(avail, k, now, rest, opened)
    BY <1>6, <2>2, <2>3, <2>8, RunningMoreEnds
  <2> QED BY <1>6, <2>5, <2>6, <2>7, <2>8 DEF DecryptMoreOutcome
<1> QED BY <1>1, <1>2, <1>3, <1>4, <1>5, <1>6 DEF HandsOn

(***************************************************************************)
(* A reader that has refused the header, or has come to the end.           *)
(***************************************************************************)
LEMMA RefusedStep ==
  ASSUME TypeInv, Refused, NEW bytes, NEW avail, NEW p, SourceStep(bytes, avail, p)
  PROVE  Refused'
<1>1. ~known /\ raised /\ stage = "header" /\ returned = <<>> /\ dec = <<>>
  BY DEF Refused
<1>2. known' = known
  BY DEF SourceStep, SourceShape
<1>3. CASE Waits(bytes)
  BY <1>1, <1>2, <1>3 DEF Refused, Waits, Goes
<1>4. CASE NeedsMore(enc \o bytes, avail, HeaderSize)
  <2>1. dec \in Seq(Nat) /\ Returns(dec, avail) /\ stage' = stage
    BY <1>4 DEF NeedsMore, TypeInv
  <2>2. /\ dec' \in Seq(Nat) /\ returned' \in Seq(Nat)
        /\ returned' \o dec' = returned \o dec /\ raised' = raised
    BY <2>1, ReturnsFacts
  <2>3. returned \o dec = <<>>
    BY <1>1
  <2>4. returned' = <<>> /\ dec' = <<>>
    BY <2>2, <2>3, ConcatEqualIffEmpty
  <2> QED BY <1>1, <1>2, <2>1, <2>2, <2>4 DEF Refused
<1>5. CASE Refuses(enc \o bytes)
  BY <1>1, <1>2, <1>5 DEF Refused, Refuses, Raises
<1>6. ~HasHeader(enc \o bytes, avail)
  BY <1>1 DEF HasHeader
<1>7. HandsOn(enc \o bytes, avail)
        => NeedsMore(enc \o bytes, avail, HeaderSize) \/ Refuses(enc \o bytes)
  BY <1>1, <1>6 DEF HandsOn
<1> QED BY <1>3, <1>4, <1>5, <1>7 DEF SourceStep

LEMMA AtEndStep ==
  ASSUME TypeInv, AtEnd, NEW bytes, NEW avail, NEW p, SourceStep(bytes, avail, p)
  PROVE  AtEndNext /\ (Goes \/ Returns(dec, FALSE))
<1>1. /\ eof /\ pos = Len(wire) /\ stage = "body" /\ got = <<>> /\ Len(enc) <= HLEN
  BY DEF AtEnd
<1>2. p = pos /\ pos' = p /\ bytes \in Seq(Byte) /\ Len(bytes) = 0 + (p - pos) /\ pos \in Nat
  <2>1. Len(got) = 0
    BY <1>1
  <2>2. pos \in Nat /\ p \in Nat /\ pos <= p /\ p <= Len(wire) /\ pos' = p
        /\ bytes \in Seq(Byte) /\ Len(bytes) = Len(got) + (p - pos)
    BY DEF SourceStep, SourceShape
  <2>3. p = pos
    BY <1>1, <2>2
  <2> QED BY <2>1, <2>2, <2>3
<1>3. bytes = <<>>
  <2>1. Len(bytes) = 0
    BY <1>2
  <2> QED BY <1>2, <2>1, EmptySeq
<1>4. enc \in Seq(Byte) /\ enc \o bytes = enc
  <2>1. enc \in Seq(Byte)
    BY DEF TypeInv
  <2> QED BY <1>3, <2>1, ConcatEmptySeq
<1>5. CASE Waits(bytes)
  BY <1>1, <1>2, <1>3, <1>5 DEF Waits, AtEndNext
<1>6. CASE HandsOn(enc \o bytes, avail) /\ got' = <<>>
  <2>1. PICK k, now, rest, opened : DecryptMoreOutcome(enc, avail, k, now, rest, opened)
    BY <1>1, <1>4, <1>6 DEF HandsOn
  <2>2. k = 0 /\ stage' = stage
    <3>1. MoreShape(enc, avail, k, now, rest, opened) /\ avail \in BOOLEAN
      BY <2>1 DEF DecryptMoreOutcome, SourceStep, SourceShape
    <3>2. /\ k \in Nat /\ stage' = stage
          /\ avail = TRUE => k = 0 \/ k + HLEN + BlockSize <= Len(enc)
          /\ avail = FALSE => k = 0 \/ k + HLEN = Len(enc)
      BY <3>1 DEF MoreShape, DecryptsShape
    <3>3. ~(k + HLEN + BlockSize <= Len(enc)) /\ (k + HLEN = Len(enc) => k = 0)
      BY <1>1, <1>4, <3>2, BlockFacts
    <3> QED BY <3>1, <3>2, <3>3
  <2>3. MoreWaits(enc, avail, k)
    BY <2>1, <2>2 DEF DecryptMoreOutcome, MoreStreams, MoreHalfBlock, MoreEnds
  <2>4. enc' = enc /\ (Goes \/ Returns(dec, FALSE))
    BY <2>3 DEF MoreWaits
  <2> QED BY <1>1, <1>2, <1>6, <2>2, <2>4 DEF AtEndNext
<1> QED BY <1>5, <1>6 DEF SourceStep

LEMMA EndResult ==
  ASSUME TypeInv, Goes \/ Returns(dec, FALSE)
  PROVE  /\ returned' \o dec' = returned \o dec /\ raised' = raised
         /\ (0 \notin Requests /\ ended => dec = <<>>)
              => (0 \notin Requests /\ ended' => dec' = <<>>)
<1>1. CASE Goes
  BY <1>1 DEF Goes
<1>2. CASE Returns(dec, FALSE)
  BY <1>2, ReturnsNothing
<1> QED BY <1>1, <1>2

LEMMA SourceKeepsReader ==
  ASSUME TypeInv, WriterInv, ReaderInv, ReaderKeeps,
         NEW bytes, NEW avail, NEW p, SourceStep(bytes, avail, p)
  PROVE  ReaderInv'
<1>1. ASSUME NEW h, NEW e, Running(h, e)
      PROVE  ReaderInv'
  <2>1. RunningStep(h, e, bytes, avail, p)
    BY <1>1 DEF RunningStep, SourceStep
  <2>2. CASE Waits(bytes)
    BY <2>1, <2>2, RunningWaits
  <2>3. CASE HandsOn(enc \o bytes, avail) /\ got' = <<>>
    BY <2>1, <2>3, RunningHandsOn
  <2> QED BY <2>2, <2>3 DEF SourceStep
<1>2. CASE Refused
  <2>1. Refused'
    BY <1>2, RefusedStep
  <2> QED BY <2>1 DEF ReaderInv
<1>3. CASE Accepted
  <2>1. AtEndNext /\ (Goes \/ Returns(dec, FALSE))
    BY <1>3, AtEndStep DEF Accepted
  <2>2. /\ returned' \o dec' = returned \o dec /\ raised' = raised
        /\ (0 \notin Requests /\ ended => dec = <<>>)
             => (0 \notin Requests /\ ended' => dec' = <<>>)
    BY <2>1, EndResult
  <2>3. /\ CanDecrypt(wire) /\ returned' \o dec' = Decrypt(wire) /\ ~raised'
        /\ 0 \notin Requests /\ ended' => dec' = <<>>
    BY <1>3, <2>2 DEF Accepted
  <2> QED BY <2>1, <2>3, EndsAccepted
<1>4. ASSUME NEW h, Rejected(h)
      PROVE  ReaderInv'
  <2>1. AtEndNext /\ (Goes \/ Returns(dec, FALSE))
    BY <1>4, AtEndStep DEF Rejected
  <2>2. returned' \o dec' = returned \o dec /\ raised' = raised
    BY <2>1, EndResult
  <2>3. /\ ~CanDecrypt(wire) /\ raised' /\ h \in Nat
        /\ returned' \o dec' = StreamText(wire, h)
        /\ h <= Begin \/ h + HLEN + BlockSize <= Len(wire)
    BY <1>4, <2>2 DEF Rejected
  <2> QED BY <2>1, <2>3, EndsRejected
<1> QED BY <1>1, <1>2, <1>3, <1>4 DEF ReaderInv

(***************************************************************************)
(* Steps that do not read the source: what the reader has read stays where *)
(* it is, and nothing changes any more behind the end.                     *)
(***************************************************************************)
ReaderStays ==
  /\ pos' = pos /\ known' = known /\ stage' = stage /\ got' = got /\ enc' = enc
  /\ dec' = dec /\ hmac' = hmac /\ returned' = returned /\ ended' = ended /\ raised' = raised

SourceSame == \/ wire' = wire /\ eof' = eof
              \/ ~eof /\ SameUpTo(Byte, wire, wire', pos)

LEMMA SamePlace ==
  ASSUME NEW w, NEW v, NEW p, NEW st, NEW hm, NEW en, NEW go, NEW h, NEW e,
         SameUpTo(Byte, w, v, p), Place(w, p, st, hm, en, go, h, e)
  PROVE  Place(v, p, st, hm, en, go, h, e) /\ StreamText(v, h) = StreamText(w, h)
<1>1. /\ p \in Nat /\ h \in Nat /\ e \in Nat /\ h <= e /\ e <= p
      /\ hm = Cut(w, 0, h) /\ en = Cut(w, h, e) /\ go = Cut(w, e, p)
      /\ StageShape(st, p, h, e)
  BY DEF Place
<1>2. v \in Seq(Byte) /\ p <= Len(v)
  BY DEF SameUpTo
<1>3. 0 \in Nat /\ 0 <= h /\ h <= p
  BY <1>1
<1>4. Cut(w, 0, h) = Cut(v, 0, h)
  BY <1>1, <1>3, SameCut
<1>5. Cut(w, h, e) = Cut(v, h, e)
  BY <1>1, SameCut
<1>6. p <= p
  BY <1>1
<1>7. Cut(w, e, p) = Cut(v, e, p)
  BY <1>1, <1>6, SameCut
<1>8. StreamText(v, h) = StreamText(w, h)
  <2>1. CASE h <= Begin
    BY <2>1 DEF StreamText
  <2>2. CASE ~(h <= Begin)
    <3>1. Begin \in Nat /\ Begin <= h
      BY <1>1, <2>2, BeginFacts
    <3>2. Cut(w, Begin, h) = Cut(v, Begin, h)
      BY <1>1, <1>3, <3>1, SameCut
    <3> QED BY <2>2, <3>2 DEF StreamText
  <2> QED BY <2>1, <2>2
<1> QED BY <1>1, <1>2, <1>4, <1>5, <1>7, <1>8 DEF Place

LEMMA ReaderStable ==
  ASSUME TypeInv, ReaderInv, ReaderStays, SourceSame
  PROVE  ReaderInv'
<1>0. /\ pos' = pos /\ known' = known /\ stage' = stage /\ got' = got /\ enc' = enc
      /\ dec' = dec /\ hmac' = hmac /\ returned' = returned /\ ended' = ended
      /\ raised' = raised /\ Begin' = Begin
  BY DEF ReaderStays, Begin
<1>1. ASSUME NEW h, NEW e, Running(h, e)
      PROVE  ReaderInv'
  <2>1. /\ Place(wire, pos, stage, hmac, enc, got, h, e)
        /\ returned \o dec = StreamText(wire, h) /\ ~raised
        /\ 0 \notin Requests /\ ended => eof /\ Len(wire) <= Begin + HLEN
    BY <1>1 DEF Running
  <2>2. SameUpTo(Byte, wire, wire', pos)
    <3>1. CASE wire' = wire
      BY <3>1 DEF TypeInv, TypeOK, SameUpTo
    <3>2. CASE wire' # wire
      BY <3>2 DEF SourceSame
    <3> QED BY <3>1, <3>2
  <2>3. /\ Place(wire', pos, stage, hmac, enc, got, h, e)
        /\ StreamText(wire', h) = StreamText(wire, h)
    BY <2>1, <2>2, SamePlace
  <2>4. 0 \notin Requests /\ ended' => eof' /\ Len(wire') <= Begin + HLEN
    BY <1>0, <2>1 DEF SourceSame
  <2>5. Place(wire', pos', stage', hmac', enc', got', h, e)
    BY <1>0, <2>3
  <2>6. Running(h, e)'
    BY <1>0, <2>1, <2>3, <2>4, <2>5, PrimedPlace DEF Running
  <2> QED BY <2>6 DEF ReaderInv
<1>2. CASE Refused
  <2>1. Refused'
    BY <1>0, <1>2 DEF Refused
  <2> QED BY <2>1 DEF ReaderInv
<1>3. ASSUME AtEnd
      PROVE  wire' = wire /\ eof' = eof /\ AtEnd'
  <2>1. wire' = wire /\ eof' = eof
    BY <1>3 DEF AtEnd, SourceSame
  <2> QED BY <1>0, <1>3, <2>1 DEF AtEnd
<1>4. CASE Accepted
  <2>1. wire' = wire /\ eof' = eof /\ AtEnd'
    BY <1>3, <1>4 DEF Accepted
  <2>2. Accepted'
    BY <1>0, <1>4, <2>1, PrimedDecrypt DEF Accepted
  <2> QED BY <2>2 DEF ReaderInv
<1>5. ASSUME NEW h, Rejected(h)
      PROVE  ReaderInv'
  <2>1. wire' = wire /\ eof' = eof /\ AtEnd'
    BY <1>3, <1>5 DEF Rejected
  <2>2. Rejected(h)'
    BY <1>0, <1>5, <2>1, PrimedDecrypt, PrimedPlace DEF Rejected
  <2> QED BY <2>2 DEF ReaderInv
<1> QED BY <1>1, <1>2, <1>4, <1>5 DEF ReaderInv

LEMMA ReaderInit == Init => ReaderInv
<1> SUFFICES ASSUME Init PROVE ReaderInv
  OBVIOUS
<1>1. /\ pos = 0 /\ stage = "header" /\ got = <<>> /\ enc = <<>> /\ dec = <<>>
      /\ hmac = <<>> /\ returned = <<>> /\ ended = FALSE /\ raised = FALSE
  BY DEF Init, R!ReaderInit
<1>2. wire \in Seq(Byte)
  BY TypeInit DEF TypeInv
<1>3. Cut(wire, 0, 0) = <<>>
  <2>1. IsCut(Byte, wire, 0, 0)
    BY <1>2 DEF IsCut
  <2>2. CutShape(Byte, wire, 0, 0)
    BY <2>1, CutFacts
  <2> QED BY <2>2 DEF CutShape
<1>4. StageShape("header", 0, 0, 0)
  BY BlockFacts DEF StageShape
<1>5. 0 <= Len(wire)
  BY <1>2
<1>6. Place(wire, pos, stage, hmac, enc, got, 0, 0)
  BY <1>1, <1>2, <1>3, <1>4, <1>5 DEF Place
<1>7. StreamText(wire, 0) = <<>>
  BY BeginFacts DEF StreamText
<1>8. Running(0, 0)
  BY <1>1, <1>6, <1>7 DEF Running
<1> QED BY <1>8 DEF ReaderInv

LEMMA ReaderNextStep ==
  ASSUME TypeInv, WriterInv, ReaderInv, [Next]_vars
  PROVE  ReaderInv'
<1>1. CASE Writer
  <2>1. ReaderStays /\ eof' = eof /\ ~eof
    BY <1>1 DEF Writer, readerVars, ReaderStays
  <2>2. WriterEffect
    BY <1>1, WriterStep
  <2>3. SameUpTo(Byte, wire, wire', pos)
    <3>1. SameUpTo(Byte, wire, wire', Len(wire)) /\ pos \in 0 .. Len(wire)
      BY <2>2 DEF WriterEffect, TypeInv, TypeOK
    <3> QED BY <3>1 DEF SameUpTo
  <2>4. SourceSame
    BY <2>1, <2>3 DEF SourceSame
  <2> QED BY <2>1, <2>4, ReaderStable
<1>2. CASE Reader
  <2>1. /\ ReaderKeeps
        /\ \/ \E n \in Requests : R!Read(n)
           \/ R!Step
           \/ R!Shut
    BY <1>2, ReaderIs
  <2>2. CASE R!Step
    <3>1. PICK bytes, avail, p : SourceStep(bytes, avail, p)
      BY <2>2, StepIs
    <3> QED BY <2>1, <3>1, SourceKeepsReader
  <2>3. CASE R!Shut \/ \E n \in Requests : R!Read(n)
    <3>1. ReaderStays
      BY <2>3 DEF R!Shut, R!Read, ReaderStays
    <3>2. SourceSame
      BY <2>1 DEF ReaderKeeps, SourceSame
    <3> QED BY <3>1, <3>2, ReaderStable
  <2> QED BY <2>1, <2>2, <2>3
<1>3. CASE Finish
  <2>1. PICK n : FinishShape(n)
    BY <1>3, FinishIs
  <2>2. ReaderStays
    BY <1>3 DEF Finish, readerVars, ReaderStays
  <2>3. SameUpTo(Byte, wire, wire', pos) /\ ~eof
    <3>1. SameUpTo(Byte, wire, wire', n) /\ pos <= n /\ n \in Nat /\ pos \in Nat /\ ~eof
      BY <2>1 DEF FinishShape, TypeInv, TypeOK
    <3> QED BY <3>1 DEF SameUpTo
  <2>4. SourceSame
    BY <2>3 DEF SourceSame
  <2> QED BY <2>2, <2>4, ReaderStable
<1>4. CASE UNCHANGED vars
  <2>1. ReaderStays /\ SourceSame
    BY <1>4 DEF vars, readerVars, ReaderStays, SourceSame
  <2> QED BY <2>1, ReaderStable
<1> QED BY <1>1, <1>2, <1>3, <1>4 DEF Next

(***************************************************************************)
(* read() agrees with Decrypt for all sizes of the parts, all requests but *)
(* read(0), whatever of the stream is lost and however often it has been   *)
(* flushed: unless the message is too short to have a signature, no end    *)
(* without an exception where Decrypt does not accept it, and no exception *)
(* where Decrypt accepts with a known key.  read(0) is left out: it        *)
(* returns the empty string, which is how the end is reported.             *)
(***************************************************************************)
THEOREM ReadsLikeDecryptHolds ==
  ASSUME 0 \notin Requests
  PROVE  Spec => []ReadsLikeDecrypt
<1>1. Init => TypeInv /\ WriterInv /\ ReaderInv
  BY TypeInit, ReaderInit
<1>2. TypeInv /\ WriterInv /\ ReaderInv /\ [Next]_vars
        => TypeInv' /\ WriterInv' /\ ReaderInv'
  BY TypeStep, ReaderNextStep
<1>3. TypeInv /\ ReaderInv => ReadsLikeDecrypt
  <2> SUFFICES ASSUME TypeInv, ReaderInv PROVE ReadsLikeDecrypt
    OBVIOUS
  <2>1. ASSUME ended, ~raised, ~IsShort(wire), CipherPart(wire) # <<>>
        PROVE  CanDecrypt(wire) /\ returned = Decrypt(wire)
    <3>1. wire \in Seq(Byte) /\ returned \in Seq(Nat)
      BY DEF TypeInv
    <3>2. ~(Len(wire) < Begin + HLEN)
      BY <2>1, <3>1, IsShortIs
    <3>3. PICK n \in Nat : n + HLEN = Len(wire) /\ Begin <= n
      <4>1. Len(wire) \in Nat
        BY <3>1
      <4>2. PICK n \in Nat : n = Len(wire) - HLEN
        BY <3>2, <4>1, BlockFacts, BeginFacts
      <4> QED BY <3>2, <4>1, <4>2, BlockFacts, BeginFacts
    <3>4. CipherPart(wire) = Cut(wire, Begin, n) /\ CutShape(Byte, wire, Begin, n)
      BY <3>1, <3>3, CipherPartIs
    <3>5. n # Begin
      BY <2>1, <3>4 DEF CutShape
    <3>6. ~(Len(wire) <= Begin + HLEN)
      BY <3>3, <3>5, BlockFacts, BeginFacts
    <3>7. Accepted
      BY <2>1, <3>6 DEF ReaderInv, Running, Refused, Rejected
    <3>8. CanDecrypt(wire) /\ returned \o dec = Decrypt(wire) /\ dec = <<>>
      BY <2>1, <3>7 DEF Accepted
    <3>9. returned \o <<>> = returned
      BY <3>1, ConcatEmptySeq
    <3> QED BY <3>8, <3>9
  <2>2. ASSUME raised
        PROVE  ~(known /\ eof /\ CanDecrypt(wire))
    BY <2>2 DEF ReaderInv, Running, Refused, Accepted, Rejected
  <2> QED BY <2>1, <2>2 DEF ReadsLikeDecrypt
<1> QED BY <1>1, <1>2, <1>3, PTL DEF Spec

(***************************************************************************)
(* What the reader has decrypted, and what the application has written.    *)
(***************************************************************************)
StartsGiven(s) ==
  /\ s \in Seq(Nat) /\ Len(s) <= given
  /\ \A i \in 1 .. Len(s) : s[i] = BlockSize + 0 + i

LEMMA GivenIs ==
  ASSUME TypeInv
  PROVE  /\ given \in Nat /\ W!Given \in Seq(Nat) /\ Len(W!Given) = given
         /\ \A i \in 1 .. given : W!Given[i] = BlockSize + 0 + i
<1>1. given \in Nat
  BY DEF TypeInv, TypeOK
<1>2. BytesShape(0, given, given - 0, W!Bytes(0, given))
  <2>1. 0 \in Nat /\ 0 <= given
    BY <1>1
  <2> QED BY <1>1, <2>1, BytesFacts
<1>3. given - 0 = given
  BY <1>1
<1> QED BY <1>1, <1>2, <1>3 DEF BytesShape, W!Given

LEMMA StartsGivenPrefix ==
  ASSUME TypeInv, StartsGiven(returned \o dec)
  PROVE  ReturnsPrefix
<1>1. PICK r \in Seq(Nat) : r = returned
  BY DEF TypeInv
<1>2. PICK d \in Seq(Nat) : d = dec
  BY DEF TypeInv
<1>3. PICK g \in Seq(Nat) : g = W!Given /\ Len(g) = given
                            /\ \A i \in 1 .. given : g[i] = BlockSize + 0 + i
  BY GivenIs
<1>4. CatShape(Nat, r, d, r \o d)
  BY CatFacts
<1>5. Len(r) <= given /\ \A i \in 1 .. Len(r) : r[i] = BlockSize + 0 + i
  <2>1. PICK s \in Seq(Nat) : s = r \o d /\ CatShape(Nat, r, d, s) /\ StartsGiven(s)
    BY <1>1, <1>2, <1>4 DEF StartsGiven
  <2>2. Len(s) = Len(r) + Len(d) /\ \A i \in 1 .. Len(r) : s[i] = r[i]
    BY <2>1 DEF CatShape
  <2>3. Len(s) <= given /\ \A i \in 1 .. Len(s) : s[i] = BlockSize + 0 + i
    BY <2>1 DEF StartsGiven
  <2>4. Len(r) <= Len(s)
    BY <2>2
  <2>5. given \in Nat
    BY GivenIs
  <2> QED BY <2>2, <2>3, <2>4, <2>5
<1>6. SameUpTo(Nat, r, g, Len(r))
  BY <1>3, <1>5, GivenIs DEF SameUpTo
<1>7. Cut(r, 0, Len(r)) = Cut(g, 0, Len(r))
  BY <1>6, SameCut
<1>8. SubSeq(r, 1, Len(r)) = SubSeq(g, 1, Len(r))
  BY <1>7 DEF Cut
<1> QED BY <1>1, <1>3, <1>5, <1>8 DEF ReturnsPrefix, SeqExt!IsPrefix

\* As long as a signature and a block follow, no padding is decrypted.
LEMMA StreamTextIsGiven ==
  ASSUME TypeInv, WriterInv, MaxFlushes <= 1, NEW h \in Nat,
         h <= Begin \/ h + HLEN + BlockSize <= Len(wire)
  PROVE  StartsGiven(StreamText(wire, h))
<1>1. FlushedOnce
  BY DEF FlushedOnce
<1>2. mac = Message(Sent) /\ SameUpTo(Byte, wire, Output, Len(wire))
  BY <1>1 DEF WriterInv, OutputInv
<1>3. PICK g, m : /\ g \in Nat /\ m \in Nat /\ g = First /\ m = given /\ g <= m
  BY GivenFacts DEF WriterInv
<1>4. wire \in Seq(Byte) /\ Len(wire) \in Nat
  BY DEF TypeInv
<1>5. CASE h <= Begin
  <2>1. StreamText(wire, h) = <<>>
    BY <1>5 DEF StreamText
  <2> QED BY <1>3, <2>1 DEF StartsGiven
<1>6. CASE ~(h <= Begin)
  <2>1. h + HLEN + BlockSize <= Len(wire)
    BY <1>6
  <2>2. PICK k \in Nat : h = Begin + k
    <3>1. h - Begin \in Nat /\ h = Begin + (h - Begin)
      BY <1>6, BeginFacts
    <3> QED BY <3>1
  <2>3. StreamText(wire, h) = CipherDecrypt(0, Cut(wire, Begin, h))
    BY <1>6 DEF StreamText
  <2>4. ASSUME NEW text, Carries(text, k, wire, h), k <= m,
               \A i \in 1 .. k : text[i] = BlockSize + 0 + i
        PROVE  StartsGiven(StreamText(wire, h))
    <3>1. OpensAs(text, k, wire, h)
      BY <2>4, DecryptMessage
    <3> QED BY <1>3, <2>3, <2>4, <3>1 DEF OpensAs, StartsGiven
  <2>5. CASE flushes = 0
    <3>1. PICK text : text = Sent /\ text \in Seq(Nat) /\ Len(text) = g
                      /\ \A i \in 1 .. g : text[i] = BlockSize + 0 + i
      <4>1. BytesShape(0, g, g - 0, W!Bytes(0, g))
        BY <1>3, BytesFacts
      <4>2. Sent = W!Bytes(0, g) /\ g - 0 = g
        BY <1>3, <2>5 DEF Sent
      <4> QED BY <4>1, <4>2 DEF BytesShape
    <3>2. MessageShape(text, Message(text))
      BY <3>1, MessageFacts
    <3>3. Output = Message(text) /\ Len(Message(text)) = Begin + g
      BY <1>2, <2>5, <3>1, <3>2 DEF Output, MessageShape
    <3>4. Len(wire) <= Begin + g
      BY <1>2, <3>3 DEF SameUpTo
    <3>5. k <= g /\ k <= m /\ h <= Len(wire)
      BY <1>3, <1>4, <2>1, <2>2, <3>4, BlockFacts, BeginFacts
    <3>6. SameUpTo(Byte, wire, Message(text), h)
      BY <1>2, <1>4, <3>3, <3>5 DEF SameUpTo
    <3>7. Carries(text, k, wire, h)
      BY <2>2, <3>1, <3>5, <3>6 DEF Carries
    <3>8. \A i \in 1 .. k : text[i] = BlockSize + 0 + i
      BY <1>3, <3>1, <3>5
    <3> QED BY <2>4, <3>5, <3>7, <3>8
  <2>6. CASE flushes # 0
    <3>1. PICK gt \in Seq(Nat) : gt = W!Given /\ Len(gt) = m
                                 /\ \A i \in 1 .. m : gt[i] = BlockSize + 0 + i
      BY <1>3, GivenIs
    <3>2. PICK pad : PadShape(gt, Pad(gt), pad)
      BY PadFacts
    <3>3. PICK text \in Seq(Nat) : text = Pad(gt)
      BY <3>2 DEF PadShape
    <3>4. /\ Len(text) <= m + BlockSize /\ Len(text) >= m
          /\ \A i \in 1 .. m : text[i] = BlockSize + 0 + i
      BY <1>3, <3>1, <3>2, <3>3, BlockFacts DEF PadShape
    <3>5. Sent = text
      BY <2>6, <3>1, <3>3 DEF Sent
    <3>6. MessageShape(text, Message(text))
      BY MessageFacts
    <3>7. mac = Message(text) /\ Len(mac) = Begin + Len(text)
      BY <1>2, <3>5, <3>6 DEF MessageShape
    <3>8. mac \in Padded
      BY <3>3, <3>7, MessagePadded
    <3>9. SignedShape(mac, Output)
      BY <2>6, <3>8, SignedFacts DEF Output
    <3>10. Len(wire) <= (Begin + Len(text)) + HLEN
      BY <1>2, <3>7, <3>9 DEF SameUpTo, SignedShape
    <3>11. k <= m /\ k <= Len(text) /\ h <= Len(mac) /\ h <= Len(wire)
      BY <1>3, <1>4, <2>1, <2>2, <3>4, <3>7, <3>10, BlockFacts, BeginFacts
    <3>12. SameUpTo(Byte, wire, Message(text), h)
      <4>1. mac \in Seq(Byte)
        BY PlainIsByte DEF TypeInv
      <4>2. ASSUME NEW i \in 1 .. h
            PROVE  wire[i] = mac[i]
        <5>1. i \in 1 .. Len(wire) /\ i \in 1 .. Len(mac)
          BY <1>4, <3>11, <4>1
        <5> QED BY <1>2, <3>9, <5>1 DEF SameUpTo, SignedShape
      <4> QED BY <1>4, <3>7, <3>11, <4>1, <4>2 DEF SameUpTo
    <3>13. Carries(text, k, wire, h)
      BY <2>2, <3>11, <3>12 DEF Carries
    <3>14. \A i \in 1 .. k : text[i] = BlockSize + 0 + i
      BY <1>3, <3>4, <3>11
    <3> QED BY <2>4, <3>11, <3>13, <3>14
  <2> QED BY <2>5, <2>6
<1> QED BY <1>5, <1>6

\* Only the whole message ends in a whole signature.
LEMMA AcceptedIsWhole ==
  ASSUME TypeInv, WriterInv, MaxFlushes <= 1, CanDecrypt(wire)
  PROVE  wire = Encrypt(W!Given)
<1>1. FlushedOnce
  BY DEF FlushedOnce
<1>2. mac = Message(Sent) /\ SameUpTo(Byte, wire, Output, Len(wire))
  BY <1>1 DEF WriterInv, OutputInv
<1>3. wire \in Seq(Byte) /\ Len(wire) \in Nat /\ mac \in Seq(PlainBytes) /\ Len(mac) \in Nat
  BY DEF TypeInv
<1>4. ~(Len(wire) < Begin + HLEN)
  BY <1>3, IsShortIs DEF CanDecrypt
<1>5. PICK n \in Nat : n + HLEN = Len(wire) /\ Begin <= n
  <2>1. PICK n \in Nat : n = Len(wire) - HLEN
    BY <1>3, <1>4, BlockFacts, BeginFacts
  <2> QED BY <1>3, <1>4, <2>1, BlockFacts, BeginFacts
<1>6. wire[Len(wire)] = <<"sig", HLEN, Cut(wire, 0, n)>>
  <2>1. Cut(wire, n, Len(wire)) = Sign(Cut(wire, 0, n))
    BY <1>3, <1>5, CanDecryptIs
  <2>2. IsCut(Byte, wire, n, Len(wire))
    BY <1>3, <1>5, BlockFacts DEF IsCut
  <2>3. CutShape(Byte, wire, n, Len(wire))
    BY <2>2, CutFacts
  <2>4. HLEN \in 1 .. Len(wire) - n /\ n + HLEN = Len(wire)
    BY <1>3, <1>5, BlockFacts
  <2>5. Cut(wire, n, Len(wire))[HLEN] = wire[n + HLEN]
    BY <2>3, <2>4 DEF CutShape
  <2>6. Sign(Cut(wire, 0, n))[HLEN] = <<"sig", HLEN, Cut(wire, 0, n)>>
    BY BlockFacts DEF Sign
  <2> QED BY <2>1, <2>4, <2>5, <2>6
<1>7. wire[Len(wire)] \notin PlainBytes
  BY <1>6 DEF PlainBytes
<1>8. Len(wire) \in 1 .. Len(wire)
  BY <1>3, <1>5, BlockFacts
<1>9. wire[Len(wire)] = Output[Len(wire)] /\ Len(wire) <= Len(Output)
      /\ Output \in Seq(Byte)
  BY <1>2, <1>8 DEF SameUpTo
<1>10. flushes # 0
  <2>1. SUFFICES ASSUME flushes = 0 PROVE FALSE
    OBVIOUS
  <2>2. Output = mac
    BY <2>1 DEF Output
  <2>3. Len(wire) \in 1 .. Len(mac)
    BY <1>3, <1>8, <1>9, <2>2
  <2>4. mac[Len(wire)] \in PlainBytes
    BY <1>3, <2>3
  <2> QED BY <1>7, <1>9, <2>2, <2>4
<1>11. Sent = Pad(W!Given) /\ W!Given \in Seq(Nat)
  BY <1>10, GivenIs DEF Sent
<1>12. mac \in Padded
  BY <1>2, <1>11, MessagePadded
<1>13. SignedShape(mac, Output)
  BY <1>10, <1>12, SignedFacts DEF Output
<1>14. ~(Len(wire) <= Len(mac))
  <2>1. SUFFICES ASSUME Len(wire) <= Len(mac) PROVE FALSE
    OBVIOUS
  <2>2. Len(wire) \in 1 .. Len(mac)
    BY <1>3, <1>8, <2>1
  <2>3. Output[Len(wire)] = mac[Len(wire)]
    BY <1>13, <2>2 DEF SignedShape
  <2>4. mac[Len(wire)] \in PlainBytes
    BY <1>3, <2>2
  <2> QED BY <1>7, <1>9, <2>3, <2>4
<1>15. Len(wire) = Len(Output)
  <2>1. PICK i \in Nat : i = Len(wire) - Len(mac)
    BY <1>3, <1>14
  <2>2. Len(Output) = Len(mac) + HLEN
    BY <1>13 DEF SignedShape
  <2>3. i \in 1 .. HLEN /\ Len(mac) + i = Len(wire)
    BY <1>3, <1>9, <1>14, <2>1, <2>2, BlockFacts
  <2>4. Output[Len(mac) + i] = <<"sig", i, mac>>
    BY <1>13, <2>3 DEF SignedShape
  <2>5. <<"sig", HLEN, Cut(wire, 0, n)>> = <<"sig", i, mac>>
    BY <1>6, <1>9, <2>3, <2>4
  <2>6. i = HLEN
    BY <2>5
  <2> QED BY <2>2, <2>3, <2>6
<1>16. wire = Output
  <2>1. \A i \in 1 .. Len(wire) : wire[i] = Output[i]
    BY <1>2 DEF SameUpTo
  <2> QED BY <1>3, <1>9, <1>15, <2>1, SeqEqual
<1> QED BY <1>2, <1>10, <1>11, <1>16, EncryptIs DEF Output

(***************************************************************************)
(* What read() has returned is a beginning of what was written, for all    *)
(* sizes of the parts and all requests, whatever of the stream is lost.    *)
(* It is so for a writer that is flushed once at most: flush() keeps       *)
(* __data, and a second one sends it again.                                *)
(***************************************************************************)
THEOREM ReturnsPrefixHolds ==
  ASSUME MaxFlushes <= 1
  PROVE  Spec => []ReturnsPrefix
<1>1. Init => TypeInv /\ WriterInv /\ ReaderInv
  BY TypeInit, ReaderInit
<1>2. TypeInv /\ WriterInv /\ ReaderInv /\ [Next]_vars
        => TypeInv' /\ WriterInv' /\ ReaderInv'
  BY TypeStep, ReaderNextStep
<1>3. TypeInv /\ WriterInv /\ ReaderInv => ReturnsPrefix
  <2> SUFFICES ASSUME TypeInv, WriterInv, ReaderInv PROVE ReturnsPrefix
    OBVIOUS
  <2>1. ASSUME NEW h \in Nat, h <= Begin \/ h + HLEN + BlockSize <= Len(wire),
               returned \o dec = StreamText(wire, h)
        PROVE  ReturnsPrefix
    <3>1. StartsGiven(StreamText(wire, h))
      BY <2>1, StreamTextIsGiven
    <3> QED BY <2>1, <3>1, StartsGivenPrefix
  <2>2. ASSUME NEW h, NEW e, Running(h, e)
        PROVE  ReturnsPrefix
    <3>1. /\ h \in Nat /\ e \in Nat /\ pos \in Nat /\ e <= pos /\ pos <= Len(wire)
          /\ StageShape(stage, pos, h, e) /\ returned \o dec = StreamText(wire, h)
          /\ Len(wire) \in Nat
      BY <2>2 DEF Running, Place
    <3>2. h <= Begin \/ h + HLEN + BlockSize <= e
      BY <3>1, BlockFacts DEF StageShape, Begin
    <3>3. h <= Begin \/ h + HLEN + BlockSize <= Len(wire)
      BY <3>1, <3>2, BlockFacts
    <3> QED BY <2>1, <3>1, <3>3
  <2>3. CASE Refused
    <3>1. StreamText(wire, 0) = <<>> /\ 0 <= Begin
      BY BeginFacts DEF StreamText
    <3>2. returned \o dec = <<>>
      BY <2>3 DEF Refused
    <3> QED BY <2>1, <3>1, <3>2
  <2>4. CASE Accepted
    <3>1. wire = Encrypt(W!Given)
      BY <2>4, AcceptedIsWhole DEF Accepted
    <3>2. W!Given \in Seq(Nat)
      BY GivenIs
    <3>3. Decrypt(wire) = W!Given
      BY <3>1, <3>2, DecryptOfEncrypt
    <3>4. returned \o dec = W!Given
      BY <2>4, <3>3 DEF Accepted
    <3>5. StartsGiven(W!Given)
      BY GivenIs DEF StartsGiven
    <3> QED BY <3>4, <3>5, StartsGivenPrefix
  <2>5. ASSUME NEW h, Rejected(h)
        PROVE  ReturnsPrefix
    BY <2>1, <2>5 DEF Rejected
  <2> QED BY <2>2, <2>3, <2>4, <2>5 DEF ReaderInv
<1> QED BY <1>1, <1>2, <1>3, PTL DEF Spec

===============================================================================
