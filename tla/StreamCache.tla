----------------------------- MODULE StreamCache -----------------------------
(***************************************************************************)
(* One Java Crypter or Signer used by several threads.  Each key keeps the *)
(* streams that are not in use in a queue (KeyczarKey.cachedStreams); a    *)
(* call polls one or makes a new one, feeds it, and adds it back when it   *)
(* has succeeded.  A call that fails on the way leaves its stream to the   *)
(* garbage collector: the ciphers of an AesStream are only reset by their  *)
(* doFinal.                                                                *)
(*                                                                         *)
(* Several keys may share a hash identifier.  decrypt and verify try the   *)
(* keys of the bucket in turn, and decrypt writes to the caller's buffer   *)
(* while it does.  Texts and buffers are measured in chunks: a text has    *)
(* len chunks of DECRYPT_CHUNK_SIZE bytes and a last piece.                *)
(***************************************************************************)
EXTENDS Sequences, FiniteSets, Integers

CONSTANTS
  Thread,      \* threads that share the Crypter or Signer
  Bucket,      \* hashMap.get(hash): the keys with one identifier
  Primary,     \* one of them, the key that encrypts and signs
  Forged,      \* no key: the maker of a message that none of them made
  Stream,      \* stream objects
  NoStream,
  MaxLen,      \* bound: chunks of a text before its last piece
  MaxSpare     \* bound: room in an output buffer beyond the need

Turns == 1 .. Len(Bucket)
Keys == {Bucket[i] : i \in Turns}

ASSUME StreamCacheAssumption ==
  /\ Bucket \in Seq(Keys) /\ Primary \in Keys /\ Forged \notin Keys
  /\ NoStream \notin Stream
  /\ MaxLen \in Nat /\ MaxSpare \in Nat

VARIABLES
  crypts,   \* is it a Crypter, or a Signer?
  cache,    \* cachedStreams of each key
  fed,      \* whose data a stream has been fed since it was reset
  call      \* what each thread is doing, or did last

vars == <<crypts, cache, fed, call>>

\* size: ciphertextSize or digestSize; attached: attachedSign.
Op == {"size", "encrypt", "decrypt", "sign", "attached", "verify"}

Calls ==
  [op     : Op,
   at     : {"idle", "take", "feed", "measure", "give"},
   turn   : Turns,                   \* the key being tried
   by     : Keys \cup {Forged},      \* the key that made the message
   len    : 0 .. MaxLen,
   room   : 0 .. MaxLen + 1 + MaxSpare,
   stream : Stream \cup {NoStream},
   second : Stream \cup {NoStream},  \* held by the digestSize() inside sign()
   done   : 0 .. MaxLen + 1,         \* steps fed: the IV, then the chunks
   out    : Seq(Keys \X (1 .. MaxLen + 1)),
   result : {"none", "right", "wrong", "error"}]

NoCall ==
  [op |-> "size", at |-> "idle", turn |-> 1, by |-> Primary, len |-> 0, room |-> 0,
   stream |-> NoStream, second |-> NoStream, done |-> 0, out |-> <<>>, result |-> "none"]

TypeOK ==
  /\ crypts \in BOOLEAN
  /\ cache \in [Keys -> Seq(Stream)]
  /\ fed \in [Stream -> Seq(Thread)]
  /\ call \in [Thread -> Calls]

Init ==
  /\ crypts \in BOOLEAN
  /\ cache = [k \in Keys |-> <<>>]
  /\ fed = [s \in Stream |-> <<>>]
  /\ call = [t \in Thread |-> NoCall]
-------------------------------------------------------------------------------
Cached(k) == {cache[k][i] : i \in 1 .. Len(cache[k])}

Held(t) == {call[t].stream, call[t].second} \ {NoStream}

InUse(s) == (\E t \in Thread : s \in Held(t)) \/ (\E k \in Keys : s \in Cached(k))

\* Encrypter and Signer use the primary, Crypter.decrypt and Verifier.verify the bucket.
KeyInTurn(c) == IF c.op \in {"decrypt", "verify"} THEN Bucket[c.turn] ELSE Primary

PeekStream(k, s) ==                                              \* mutant
  /\ IF cache[k] # <<>> THEN s = cache[k][1]
                        ELSE s = CHOOSE n \in Stream : ~InUse(n)
  /\ UNCHANGED <<cache, fed>>

MakeStream(k, s) ==                                              \* mutant
  ~InUse(s) /\ s = (CHOOSE n \in Stream : ~InUse(n)) /\ UNCHANGED <<cache, fed>>

\* getStream: the head of the queue, which leaves the queue, or a new stream.
GetStream(k, s) ==
  \/ /\ cache[k] # <<>>
     /\ s = Head(cache[k])
     /\ cache' = [cache EXCEPT ![k] = Tail(@)]
     /\ UNCHANGED fed
  \/ /\ cache[k] = <<>>
     /\ ~InUse(s) /\ s = CHOOSE n \in Stream : ~InUse(n)
     /\ UNCHANGED <<cache, fed>>

AddStreamToCacheForReuse(k, s) == cache' = [cache EXCEPT ![k] = Append(@, s)]

Step(t, c) == call' = [call EXCEPT ![t] = c]

\* Only the result is left of a call.
Ended(r) == [NoCall EXCEPT !.result = r]

NextTurnTooFar(c) ==                                             \* mutant
  IF c.op \in {"decrypt", "verify"} /\ c.turn <= Len(Bucket)
    THEN [c EXCEPT !.at = "take", !.stream = NoStream, !.done = 0, !.turn = @ + 1]
    ELSE Ended("error")

\* decrypt and verify go on with the next key, and fail after the last.
NextTurn(c) ==
  IF c.op \in {"decrypt", "verify"} /\ c.turn < Len(Bucket)
    THEN [c EXCEPT !.at = "take", !.stream = NoStream, !.done = 0, !.turn = @ + 1]
    ELSE Ended("error")

FailKeepingStream(t) ==                                          \* mutant
  /\ AddStreamToCacheForReuse(KeyInTurn(call[t]), call[t].stream)
  /\ Step(t, NextTurn(call[t]))
  /\ UNCHANGED fed

\* An exception: the stream is not added back, and what it was fed is gone with it.
Fail(t) ==
  /\ fed' = [fed EXCEPT ![call[t].stream] = <<>>]
  /\ Step(t, NextTurn(call[t]))
  /\ UNCHANGED cache
-------------------------------------------------------------------------------
(***************************************************************************)
(* A thread calls a method, with any text, or a message made with a key of *)
(* the bucket or forged, and an output buffer that may be too small.  A    *)
(* message cut short fails like a forged one.                              *)
(***************************************************************************)
Begin(t, op, by, len, room) ==
  /\ call[t].at = "idle"
  /\ op \in IF crypts THEN {"size", "encrypt", "decrypt"}
                    ELSE {"size", "sign", "attached", "verify"}
  /\ op \notin {"decrypt", "verify"} => by = Primary
  /\ op \notin {"encrypt", "decrypt"} => len = 0
  /\ op \in {"size", "attached", "verify"} => room = 1
  /\ room <= len + 1 + MaxSpare
  /\ Step(t, [NoCall EXCEPT !.op = op, !.at = "take", !.by = by, !.len = len, !.room = room])
  /\ UNCHANGED <<crypts, cache, fed>>

Take(t) ==
  /\ call[t].at = "take"
  /\ \E s \in Stream :
       /\ GetStream(KeyInTurn(call[t]), s)
       /\ Step(t, [call[t] EXCEPT !.stream = s,
                     !.at = CASE call[t].op = "size" -> "give"
                              [] call[t].op = "sign" -> "measure"
                              [] OTHER -> "feed"])
  /\ UNCHANGED crypts

\* ciphertextSize() and digestSize() only look at the stream.
GiveSize(t) ==
  /\ call[t].op = "size" /\ call[t].at = "give"
  /\ AddStreamToCacheForReuse(Primary, call[t].stream)
  /\ Step(t, Ended("right"))
  /\ UNCHANGED <<crypts, fed>>

\* sign() calls digestSize() while it holds a stream of the same key.
Measure(t) ==
  /\ call[t].at = "measure"
  /\ \E s \in Stream :
       /\ GetStream(Primary, s)
       /\ Step(t, [call[t] EXCEPT !.second = s, !.at = "give"])
  /\ UNCHANGED crypts

GiveMeasured(t) ==
  /\ call[t].op = "sign" /\ call[t].at = "give"
  /\ AddStreamToCacheForReuse(Primary, call[t].second)
  /\ Step(t, [call[t] EXCEPT !.second = NoStream, !.at = "feed"])
  /\ UNCHANGED <<crypts, fed>>
-------------------------------------------------------------------------------
(***************************************************************************)
(* The IV and the chunks.  initEncrypt and initDecrypt feed the IV to a    *)
(* cipher that they take to be reset, initSign and initVerify reset.       *)
(* decrypt puts each chunk into the output, whichever key it tries;        *)
(* encrypt and decrypt fail when the output is full, sign at once.         *)
(***************************************************************************)
Feeding(t) == call[t].at = "feed" /\ call[t].done <= call[t].len

IsFull(c) ==
  CASE c.op = "sign" -> c.room = 0
    [] c.op = "encrypt" -> c.done > c.room
    [] c.op = "decrypt" -> c.done > 0 /\ Len(c.out) = c.room
    [] OTHER -> FALSE

Feed(t) ==
  LET c == call[t] IN
  /\ Feeding(t) /\ ~IsFull(c)
  /\ fed' = [fed EXCEPT ![c.stream] =
                IF c.done = 0 /\ ~crypts THEN <<t>> ELSE Append(@, t)]
  /\ Step(t, [c EXCEPT !.done = @ + 1,
                 !.out = IF c.op = "decrypt" /\ c.done > 0
                           THEN Append(@, <<KeyInTurn(c), c.done>>) ELSE @])
  /\ UNCHANGED <<crypts, cache>>

FeedFails(t) == Feeding(t) /\ IsFull(call[t]) /\ Fail(t) /\ UNCHANGED crypts

(***************************************************************************)
(* The end of a call, or of one turn of it.                                *)
(***************************************************************************)
Fed(t) == call[t].at = "feed" /\ call[t].done > call[t].len

\* The stream was fed the data of this call and nothing else.
FedOwn(t) == fed[call[t].stream] = [i \in 1 .. call[t].len + 1 |-> t]

Verified(t) == KeyInTurn(call[t]) = call[t].by

Plaintext(c) == [i \in 1 .. c.len + 1 |-> <<c.by, i>>]

FinishUnfinal(t, c) ==                                           \* mutant
  /\ AddStreamToCacheForReuse(KeyInTurn(call[t]), call[t].stream)
  /\ Step(t, c)
  /\ UNCHANGED <<crypts, fed>>

\* doFinal resets the stream, which is added back.
Finish(t, c) ==
  /\ fed' = [fed EXCEPT ![call[t].stream] = <<>>]
  /\ AddStreamToCacheForReuse(KeyInTurn(call[t]), call[t].stream)
  /\ Step(t, c)
  /\ UNCHANGED crypts

FinishEncrypt(t) ==
  LET c == call[t] IN
  /\ Fed(t) /\ c.op = "encrypt" /\ c.room > c.len
  /\ Finish(t, Ended(IF FedOwn(t) THEN "right" ELSE "wrong"))

FinishSign(t) ==
  /\ Fed(t) /\ call[t].op \in {"sign", "attached"}
  /\ Finish(t, Ended(IF FedOwn(t) THEN "right" ELSE "wrong"))

\* rawVerify adds the stream back also when the signature is not this key's.
FinishVerify(t) ==
  /\ Fed(t) /\ call[t].op = "verify"
  /\ Finish(t, IF Verified(t) /\ FedOwn(t) THEN Ended("right") ELSE NextTurn(call[t]))

\* With several keys the last piece goes through tempBuffer to the end of the output.
FinishDecrypt(t) ==
  LET c == call[t]
      out == Append(c.out, <<c.by, c.len + 1>>) IN
  /\ Fed(t) /\ c.op = "decrypt" /\ Verified(t) /\ Len(c.out) < c.room
  /\ Finish(t, Ended(IF FedOwn(t) /\ out = Plaintext(c) THEN "right" ELSE "wrong"))

\* A wrong signature, a full buffer, or an exception of the provider's on another key's signature.
FinishFails(t) ==
  LET c == call[t] IN
  /\ Fed(t)
  /\ \/ c.op = "encrypt" /\ c.room = c.len
     \/ c.op = "decrypt" /\ (~Verified(t) \/ Len(c.out) = c.room)
     \/ c.op = "verify" /\ ~Verified(t)
  /\ Fail(t)
  /\ UNCHANGED crypts

Works(t) ==
  \/ Take(t) \/ GiveSize(t) \/ Measure(t) \/ GiveMeasured(t) \/ Feed(t) \/ FeedFails(t)
  \/ FinishEncrypt(t) \/ FinishSign(t) \/ FinishVerify(t) \/ FinishDecrypt(t)
  \/ FinishFails(t)

Next ==
  \E t \in Thread :
    \/ \E op \in Op, by \in Keys \cup {Forged}, len \in 0 .. MaxLen,
          room \in 0 .. MaxLen + 1 + MaxSpare : Begin(t, op, by, len, room)
    \/ Works(t)

Spec == Init /\ [][Next]_vars
-------------------------------------------------------------------------------
(***************************************************************************)
(* A stream object is in one place: in the hands of one call, or once in   *)
(* one queue, or garbage (KeyczarKey.getStream, addStreamToCacheForReuse,  *)
(* also for the two streams sign() holds).                                 *)
(***************************************************************************)
OneHolder ==
  /\ \A t \in Thread : call[t].stream = call[t].second => call[t].stream = NoStream
  /\ \A t, u \in Thread : t # u => Held(t) \cap Held(u) = {}
  /\ \A t \in Thread, k \in Keys : Held(t) \cap Cached(k) = {}
  /\ \A k, j \in Keys : k # j => Cached(k) \cap Cached(j) = {}
  /\ \A k \in Keys : \A i, j \in 1 .. Len(cache[k]) : cache[k][i] = cache[k][j] => i = j

(***************************************************************************)
(* Every AesStream in a queue has ciphers that were reset: no call that    *)
(* failed in the middle has left its data for the next one to continue     *)
(* (Encrypter.encrypt, Crypter.decrypt).                                   *)
(***************************************************************************)
CachedAreReset ==
  crypts => \A k \in Keys : \A s \in Cached(k) : fed[s] = <<>>

\* decrypt has written chunks under a wrong key before it came to the right one.
IsSoiled(c) == c.op = "decrypt" /\ c.len > 0 /\ c.by # Bucket[1]

(***************************************************************************)
(* A finished call had the right result if its key is there and its buffer *)
(* large enough, whatever the other threads did at the same time and       *)
(* whatever failed before on the same stream (Encrypter.encrypt,           *)
(* Crypter.decrypt, Signer.sign, Verifier.verify).  Excepted are long      *)
(* ciphertexts under an identifier that another key shares.                *)
(***************************************************************************)
Serves(t) ==
  LET c == call[t] IN
  c.at # "idle" /\ call'[t].at = "idle" /\ c.by # Forged /\ c.room > c.len
    => call'[t].result = "right"

ServedRight == [][\A t \in Thread : IsSoiled(call[t]) \/ Serves(t)]_vars

(***************************************************************************)
(* The same without the exception: every ciphertext made with a key of the *)
(* set is decrypted (CollisionTest.testDecrypt; Crypter.decrypt).          *)
(***************************************************************************)
CollidingKeysDecrypt == [][\A t \in Thread : Serves(t)]_vars

(***************************************************************************)
(* The queues do not grow: a key never has more streams than its users     *)
(* could hold at once, two for each thread that signs (getStream makes a   *)
(* stream only when the queue is empty).                                   *)
(***************************************************************************)
StreamsOf(k) ==
  Cached(k) \cup UNION {Held(t) : t \in {u \in Thread : KeyInTurn(call[u]) = k}}

PoolIsBounded ==
  \A k \in Keys :
    Cardinality(StreamsOf(k)) <= Cardinality(Thread) * (IF crypts THEN 1 ELSE 2)

===============================================================================
