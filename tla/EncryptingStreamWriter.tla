------------------------ MODULE EncryptingStreamWriter ------------------------
(***************************************************************************)
(* EncryptingStreamWriter of keys.py.  It sends whole blocks as soon as it *)
(* has them and pads the rest when it is flushed.  flush keeps __data, so  *)
(* that a second flush, or a write after it, sends those bytes again.      *)
(***************************************************************************)
EXTENDS AesKey

CONSTANTS
  MaxData,     \* bound: bytes given to write()
  MaxFlushes   \* bound: calls of flush(); the last of them ends the writing

VARIABLES
  data,     \* __data, not encrypted yet
  mac,      \* what __hmac_stream has been fed with
  wire,     \* the bytes written to the output stream
  closed,   \* __closed
  given,    \* history: how many bytes the application has written
  flushes   \* history: the number of calls of flush()

\* The application's bytes, all different and none a padding byte.
Bytes(m, n) == [j \in 1 .. n - m |-> BlockSize + m + j]
Given == Bytes(0, given)

\* The constructor writes the header and the initialisation vector.
WriterInit ==
  /\ data = <<>>
  /\ mac = Header \o IV
  /\ wire = Header \o IV
  /\ closed = FALSE
  /\ given = 0
  /\ flushes = 0

Done == Len(mac) - HeaderSize - BlockSize

\* __WriteEncrypted
Encrypted(plain) == CipherEncrypt(Done, plain)

Write(n) ==
  LET buffered == data \o Bytes(given, given + n)
      size == NoPadBufferSize(Len(buffered))
      now == IF Len(buffered) >= size THEN size ELSE 0
  IN
  /\ ~closed
  /\ given + n <= MaxData /\ flushes < MaxFlushes
  /\ wire' = wire \o Encrypted(Take(buffered, now))
  /\ mac' = mac \o Encrypted(Take(buffered, now))
  /\ data' = Drop(buffered, now)
  /\ given' = given + n
  /\ UNCHANGED <<closed, flushes>>

\* Mutant: the final block is not signed.
FlushSigningEarly ==
  LET sent == Encrypted(Pad(data)) IN
  /\ ~closed
  /\ flushes < MaxFlushes
  /\ mac' = mac \o sent
  /\ wire' = wire \o sent \o Sign(mac)
  /\ flushes' = flushes + 1
  /\ UNCHANGED <<data, closed, given>>

Flush ==
  LET sent == Encrypted(Pad(data)) IN
  /\ ~closed
  /\ flushes < MaxFlushes
  /\ mac' = mac \o sent
  /\ wire' = wire \o sent \o Sign(mac \o sent)
  /\ flushes' = flushes + 1
  /\ UNCHANGED <<data, closed, given>>

\* close discards what is buffered: nothing is written.
Close ==
  /\ ~closed
  /\ closed' = TRUE
  /\ UNCHANGED <<data, mac, wire, given, flushes>>

WriterNext == (\E n \in 1 .. MaxData : Write(n)) \/ Flush \/ Close
===============================================================================
