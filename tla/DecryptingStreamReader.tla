------------------------ MODULE DecryptingStreamReader ------------------------
(***************************************************************************)
(* DecryptingStreamReader of keys.py over a source that can be slow: each  *)
(* read of the input stream gives some of the bytes asked for, None when   *)
(* there are none at the moment, or the empty string at the end.  A call   *)
(* of read() is a sequence of such reads; the state between them is pc,    *)
(* chars and got.                                                          *)
(***************************************************************************)
EXTENDS AesKey

CONSTANTS Requests   \* values of read()'s argument chars

VARIABLES
  wire,      \* the bytes of the source so far
  eof,       \* no more will come
  pos,       \* how many of them the reader has taken
  known,     \* does the key set have the key that the header names?
  stage,     \* "header": no __key, "iv": no __cipher, "body": both
  calling,   \* read() is under way
  chars,     \* its argument
  got,       \* what __ReadBytes has collected
  enc,       \* __encrypted_buffer
  dec,       \* __decrypted_buffer
  hmac,      \* what __hmac_stream has been fed with
  shut,      \* __closed
  returned,  \* history: all that read() has returned
  ended,     \* history: read() has returned the empty string
  raised     \* history: a call of read() has raised

ReaderInit ==
  /\ pos = 0
  /\ known \in BOOLEAN
  /\ stage = "header"
  /\ calling = FALSE /\ chars = -1 /\ got = <<>>
  /\ enc = <<>> /\ dec = <<>> /\ hmac = <<>>
  /\ shut = FALSE
  /\ returned = <<>> /\ ended = FALSE /\ raised = FALSE

\* read() begins.
Read(n) ==
  /\ ~calling /\ ~shut
  /\ calling' = TRUE
  /\ chars' = n
  /\ UNCHANGED <<pos, known, stage, got, enc, dec, hmac, shut, returned, ended, raised>>

\* read() raises: what it has changed so far stays changed.
Raise ==
  /\ calling' = FALSE /\ raised' = TRUE
  /\ UNCHANGED <<dec, returned, ended>>

\* The end of read(): up to chars bytes; None if empty and more may come.
Return(plain, avail) ==
  LET result == IF chars < 0 THEN plain ELSE Take(plain, chars) IN
  /\ calling' = FALSE
  /\ dec' = Drop(plain, Len(result))
  /\ returned' = returned \o result
  /\ ended' = (ended \/ (result = <<>> /\ ~avail))
  /\ UNCHANGED raised

\* read() goes on to the next call of __ReadBytes.
GoOn == UNCHANGED <<calling, dec, returned, ended, raised>>

(***************************************************************************)
(* __CreateKey and __CreateCipher, once __ReadBytes has given them bytes.  *)
(***************************************************************************)
CreateKey(buffer, avail) ==
  IF Len(buffer) < HeaderSize
    THEN /\ enc' = buffer
         /\ UNCHANGED <<stage, hmac>>
         /\ Return(dec, avail)
    ELSE /\ enc' = Drop(buffer, HeaderSize)
         /\ IF known /\ Take(buffer, HeaderSize) = Header
              THEN /\ stage' = "iv"
                   /\ hmac' = Header
                   /\ IF avail THEN GoOn ELSE Return(dec, avail)
              ELSE UNCHANGED <<stage, hmac>> /\ Raise

CreateCipher(buffer, avail) ==
  IF Len(buffer) < BlockSize
    THEN /\ enc' = buffer
         /\ UNCHANGED <<stage, hmac>>
         /\ Return(dec, avail)
    ELSE /\ enc' = Drop(buffer, BlockSize)
         /\ hmac' = hmac \o Take(buffer, BlockSize)
         /\ stage' = "body"
         /\ IF avail THEN GoOn ELSE Return(dec, avail)

(***************************************************************************)
(* The loop of read().  While more may come, the last bytes are kept: they *)
(* may be the final block, which has the padding, and the signature.       *)
(***************************************************************************)
ReservedSignatureOnly(avail) == HLEN                             \* mutant

Reserved(avail) == IF avail THEN HLEN + BlockSize ELSE HLEN

ToDecrypt(buffer, avail) ==
  LET available == ButLast(buffer, Reserved(avail))
  IN  IF avail THEN ButLast(available, Len(available) % BlockSize) ELSE available

\* VerifySignedData on the last HLEN bytes of the message.
VerifiesLoosely(signed, sig) == Len(sig) = HLEN                  \* mutant

Verifies(signed, sig) == Sign(signed) = sig

Done == Len(hmac) - HeaderSize - BlockSize

DecryptMore(buffer, avail) ==
  LET now == ToDecrypt(buffer, avail)
      rest == Drop(buffer, Len(now))
      plain == CipherDecrypt(Done, now)
  IN
  /\ UNCHANGED stage
  /\ IF now = <<>>
       THEN /\ enc' = buffer
            /\ UNCHANGED hmac
            /\ IF avail THEN GoOn ELSE Return(dec, avail)
       ELSE /\ hmac' = hmac \o now
            /\ IF Len(now) % BlockSize # 0   \* the cipher refuses half a block
                 THEN enc' = rest /\ Raise
               ELSE IF avail
                 THEN enc' = rest /\ Return(dec \o plain, avail)
               ELSE IF Len(rest) # HLEN
                 THEN enc' = rest /\ Raise
               ELSE /\ enc' = <<>>
                    /\ IF Verifies(hmac \o now, rest)
                         THEN Return(dec \o UnPad(plain), avail)
                         ELSE Raise

(***************************************************************************)
(* One read of the input stream in __ReadBytes.  Its size is what is still *)
(* missing for the header or the IV, or a block.  A decoder such as        *)
(* IncrementalBase64WSStreamReader gives up to twice as much.              *)
(***************************************************************************)
Size ==
  CASE stage = "header" -> HeaderSize - Len(enc)
    [] stage = "iv"     -> BlockSize - Len(enc)
    [] stage = "body"   -> BlockSize

\* __ReadBytes returns (bytes, avail).
ReadBytesReturns(bytes, avail) ==
  /\ got' = <<>>
  /\ \/ stage = "header" /\ CreateKey(enc \o bytes, avail)
     \/ stage = "iv" /\ CreateCipher(enc \o bytes, avail)
     \/ stage = "body" /\ DecryptMore(enc \o bytes, avail)

SourceGives(n) ==
  LET bytes == got \o SubSeq(wire, pos + 1, pos + n) IN
  /\ calling
  /\ n <= 2 * Size /\ pos + n <= Len(wire)
  /\ pos' = pos + n
  /\ IF Len(bytes) < Size
       THEN got' = bytes /\ GoOn /\ UNCHANGED <<stage, enc, hmac>>
       ELSE ReadBytesReturns(bytes, TRUE)
  /\ UNCHANGED <<known, chars, shut>>

\* None: the header and the IV are waited for, the loop of read() goes on.
SourceIsEmpty ==
  /\ calling
  /\ pos = Len(wire) /\ ~eof
  /\ stage = "body"
  /\ ReadBytesReturns(got, TRUE)
  /\ UNCHANGED <<pos, known, chars, shut>>

SourceEnds ==
  /\ calling
  /\ pos = Len(wire) /\ eof
  /\ ReadBytesReturns(got, FALSE)
  /\ UNCHANGED <<pos, known, chars, shut>>

Shut ==
  /\ ~calling /\ ~shut
  /\ shut' = TRUE
  /\ UNCHANGED <<pos, known, stage, calling, chars, got, enc, dec, hmac,
                 returned, ended, raised>>

Step == (\E n \in 1 .. 2 * BlockSize : SourceGives(n)) \/ SourceIsEmpty \/ SourceEnds

ReaderNext == (\E n \in Requests : Read(n)) \/ Step \/ Shut
===============================================================================
