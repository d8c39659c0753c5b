-------------------------------- MODULE AesKey --------------------------------
(***************************************************************************)
(* AesKey of keys.py: padding, and the message Header|IV|Ciph|Sig that     *)
(* Encrypt makes of a plaintext and Decrypt takes apart.                   *)
(*                                                                         *)
(* A plaintext byte is a number; the bytes 1 .. BlockSize are those that   *)
(* padding adds.  Ciphertext bytes are abstract: one that the cipher makes *)
(* carries its place in the cipher stream and decrypts at that place only, *)
(* and a signature byte carries all that was signed.                       *)
(***************************************************************************)
EXTENDS Integers, Sequences

CONSTANTS
  BlockSize,    \* AES.block_size, 16
  HLEN,         \* length of a signature, 20
  HeaderSize    \* version byte and key hash, 5

ASSUME AesKeyAssumption ==
  /\ BlockSize \in Nat /\ HLEN \in Nat /\ HeaderSize \in Nat
  /\ 0 < HeaderSize /\ 2 * HeaderSize <= BlockSize
  /\ BlockSize < HLEN /\ HLEN < 2 * BlockSize

\* Python's s[:n], s[n:] and, unless n is 0, s[:-n].
Take(s, n) == SubSeq(s, 1, IF n < Len(s) THEN n ELSE Len(s))
Drop(s, n) == SubSeq(s, n + 1, Len(s))
ButLast(s, n) == SubSeq(s, 1, Len(s) - n)

Header == [j \in 1 .. HeaderSize |-> <<"header", j, 0>>]
IV == [j \in 1 .. BlockSize |-> <<"iv", j, 0>>]

\* The cipher object has done done bytes before.
CipherEncrypt(done, plain) ==
  [j \in 1 .. Len(plain) |-> <<"cipher", done + j, plain[j]>>]

Garbage == 0

CipherDecrypt(done, bytes) ==
  [j \in 1 .. Len(bytes) |->
     IF bytes[j][1] = "cipher" /\ bytes[j][2] = done + j THEN bytes[j][3] ELSE Garbage]

Sign(msg) == [j \in 1 .. HLEN |-> <<"sig", j, msg>>]

\* _Pad always adds something: a whole block to a multiple of the block size.
PadIfNeeded(data) ==                                             \* mutant
  LET pad == (BlockSize - (Len(data) % BlockSize)) % BlockSize
  IN  data \o [j \in 1 .. pad |-> pad]

Pad(data) ==
  LET pad == BlockSize - (Len(data) % BlockSize)
  IN  data \o [j \in 1 .. pad |-> pad]

UnPad(padded) ==
  LET pad == padded[Len(padded)]
  IN  IF pad = 0 THEN <<>> ELSE ButLast(padded, pad)

\* The largest multiple of the block size, but one block at least.
OneBlock(n) == BlockSize                                         \* mutant

NoPadBufferSize(n) ==
  IF n < BlockSize THEN BlockSize ELSE BlockSize * (n \div BlockSize)

Encrypt(data) ==
  LET msg == Header \o IV \o CipherEncrypt(0, Pad(data))
  IN  msg \o Sign(msg)

(***************************************************************************)
(* Decrypt: the checks before the cipher is used, in their order.  Slicing *)
(* with [-HLEN:] gives the last HLEN bytes.                                *)
(***************************************************************************)
CipherPart(input) == ButLast(Drop(input, HeaderSize + BlockSize), HLEN)

IsShort(input) == Len(Drop(input, HeaderSize)) < BlockSize + HLEN

CanDecrypt(input) ==
  /\ ~IsShort(input)
  /\ Drop(input, Len(input) - HLEN) = Sign(ButLast(input, HLEN))
  /\ CipherPart(input) # <<>> /\ Len(CipherPart(input)) % BlockSize = 0

Decrypt(input) == UnPad(CipherDecrypt(0, CipherPart(input)))
===============================================================================
