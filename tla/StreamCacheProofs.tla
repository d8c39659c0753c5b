-------------------------- MODULE StreamCacheProofs --------------------------
(***************************************************************************)
(* The stream cache, for any number of threads, keys, streams and chunks.  *)
(* A stream has one holder; from that it follows that only streams in the  *)
(* middle of a call have been fed, each with the data of its own call, and *)
(* from that that calls do not disturb each other.                         *)
(***************************************************************************)
EXTENDS StreamCache, FiniteSetTheorems, TLAPS

\* The members of a queue.
Elems(q) == {q[i] : i \in 1 .. Len(q)}

\* No member is there twice.
Once(q) == \A i, j \in 1 .. Len(q) : q[i] = q[j] => i = j

HeldBy(c) == {c.stream, c.second} \ {NoStream}

\* ServedRight promises this call its result, if the key is there.
IsServed(c) == c.room > c.len /\ ~IsSoiled(c)

(***************************************************************************)
(* Which streams a call holds at which step, what it has written, and that *)
(* it has not passed over the right key.                                   *)
(***************************************************************************)
CallOK(c) ==
  /\ c \in Calls
  /\ c.at \in {"feed", "measure", "give"} => c.stream # NoStream
  /\ c.op = "sign" /\ c.at = "give" => c.second # NoStream
  /\ c.second # NoStream => c.op = "sign" /\ c.at = "give"
  /\ c.at = "give" => c.op \in {"size", "sign"}
  /\ c.at = "measure" => c.op = "sign"
  /\ c.at # "feed" => c.done = 0
  /\ c.done <= c.len + 1
  /\ c.op = "decrypt" /\ c.turn = 1 => c.out = [i \in 1 .. c.done - 1 |-> <<Bucket[1], i>>]
  /\ c.op = "decrypt" /\ c.len = 0 => c.out = <<>>
  /\ IsServed(c) => \A i \in 1 .. c.turn - 1 : c.by # Bucket[i]

(***************************************************************************)
(* OneHolder, of any queues and calls.                                     *)
(***************************************************************************)
Sole(queues, calls) ==
  /\ \A t \in Thread : calls[t].stream = calls[t].second => calls[t].stream = NoStream
  /\ \A t, u \in Thread : t # u => HeldBy(calls[t]) \cap HeldBy(calls[u]) = {}
  /\ \A t \in Thread, k \in Keys : HeldBy(calls[t]) \cap Elems(queues[k]) = {}
  /\ \A k, j \in Keys : k # j => Elems(queues[k]) \cap Elems(queues[j]) = {}
  /\ \A k \in Keys : Once(queues[k])
-------------------------------------------------------------------------------
(***************************************************************************)
(* What getStream takes from a queue is in it, and no longer afterwards.   *)
(***************************************************************************)
LEMMA TailFacts ==
  ASSUME NEW S, NEW q \in Seq(S), q # <<>>, Once(q)
  PROVE  /\ Head(q) \in S /\ Tail(q) \in Seq(S) /\ Once(Tail(q))
         /\ Head(q) \in Elems(q) /\ Elems(Tail(q)) \subseteq Elems(q)
         /\ Head(q) \notin Elems(Tail(q))
<1>1. /\ Len(q) \in Nat /\ Len(q) >= 1 /\ Head(q) = q[1] /\ Head(q) \in S
      /\ Tail(q) \in Seq(S) /\ Len(Tail(q)) = Len(q) - 1
      /\ \A i \in 1 .. Len(q) - 1 : Tail(q)[i] = q[i + 1]
  OBVIOUS
<1>2. \A i \in 1 .. Len(q) - 1 : i + 1 \in 1 .. Len(q) /\ i + 1 # 1
  BY <1>1
<1>3. Once(Tail(q))
  <2> SUFFICES ASSUME NEW i \in 1 .. Len(q) - 1, NEW j \in 1 .. Len(q) - 1,
                      Tail(q)[i] = Tail(q)[j]
               PROVE  i = j
    BY <1>1 DEF Once
  <2>1. q[i + 1] = q[j + 1]
    BY <1>1
  <2>2. i + 1 = j + 1
    BY <1>2, <2>1 DEF Once
  <2> QED BY <2>2
<1>4. Head(q) \notin Elems(Tail(q))
  <2> SUFFICES ASSUME NEW i \in 1 .. Len(q) - 1, q[1] = Tail(q)[i] PROVE FALSE
    BY <1>1 DEF Elems
  <2>1. q[1] = q[i + 1] /\ 1 \in 1 .. Len(q)
    BY <1>1
  <2> QED BY <1>2, <2>1 DEF Once
<1>5. Elems(Tail(q)) \subseteq Elems(q)
  BY <1>1, <1>2 DEF Elems
<1> QED BY <1>1, <1>3, <1>4, <1>5 DEF Elems

(***************************************************************************)
(* addStreamToCacheForReuse adds the stream and nothing else.              *)
(***************************************************************************)
LEMMA AppendFacts ==
  ASSUME NEW S, NEW q \in Seq(S), NEW s \in S
  PROVE  /\ Append(q, s) \in Seq(S) /\ Elems(Append(q, s)) = Elems(q) \cup {s}
         /\ s \notin Elems(q) /\ Once(q) => Once(Append(q, s))
<1>1. /\ Append(q, s) \in Seq(S) /\ Len(q) \in Nat /\ Len(Append(q, s)) = Len(q) + 1
      /\ Append(q, s)[Len(q) + 1] = s
      /\ \A i \in 1 .. Len(q) : Append(q, s)[i] = q[i]
  OBVIOUS
<1>2. \A i : i \in 1 .. Len(q) + 1 <=> (i \in 1 .. Len(q) \/ i = Len(q) + 1)
  BY <1>1
<1>3. Elems(Append(q, s)) = Elems(q) \cup {s}
  BY <1>1, <1>2 DEF Elems
<1>4. s \notin Elems(q) /\ Once(q) => Once(Append(q, s))
  BY <1>1, <1>2 DEF Elems, Once
<1> QED BY <1>1, <1>3, <1>4
-------------------------------------------------------------------------------
(***************************************************************************)
(* Sole is the invariant OneHolder, before and after a step.               *)
(***************************************************************************)
LEMMA SoleIsOneHolder == (OneHolder <=> Sole(cache, call)) /\ (OneHolder' <=> Sole(cache', call'))
BY DEF OneHolder, Sole, Held, Cached, HeldBy, Elems, Once

(***************************************************************************)
(* A call that goes on with no more streams than it holds.                 *)
(***************************************************************************)
LEMMA DropKeepsSole ==
  ASSUME NEW queues, NEW calls, NEW t \in Thread, NEW c,
         DOMAIN calls = Thread, Sole(queues, calls),
         HeldBy(c) \subseteq HeldBy(calls[t]),
         c.stream = c.second => c.stream = NoStream
  PROVE  Sole(queues, [calls EXCEPT ![t] = c])
<1> DEFINE next == [calls EXCEPT ![t] = c]
<1>1. next[t] = c /\ \A u \in Thread : u # t => next[u] = calls[u]
  OBVIOUS
<1>2. \A u \in Thread : HeldBy(next[u]) \subseteq HeldBy(calls[u])
  BY <1>1
<1> HIDE DEF next
<1>3. Sole(queues, next)
  BY <1>1, <1>2 DEF Sole
<1> QED BY <1>3 DEF next

(***************************************************************************)
(* A call that takes one stream more, which no call holds and no queue     *)
(* keeps.                                                                  *)
(***************************************************************************)
LEMMA TakeKeepsSole ==
  ASSUME NEW queues, NEW queues2, NEW calls, NEW t \in Thread, NEW c, NEW s,
         DOMAIN calls = Thread, Sole(queues, calls),
         \A k \in Keys : Elems(queues2[k]) \subseteq Elems(queues[k]) /\ Once(queues2[k]),
         \A k \in Keys : s \notin Elems(queues2[k]),
         \A u \in Thread : s \notin HeldBy(calls[u]),
         HeldBy(c) \subseteq HeldBy(calls[t]) \cup {s},
         c.stream = c.second => c.stream = NoStream
  PROVE  Sole(queues2, [calls EXCEPT ![t] = c])
<1> DEFINE next == [calls EXCEPT ![t] = c]
<1>1. next[t] = c /\ \A u \in Thread : u # t => next[u] = calls[u]
  OBVIOUS
<1> HIDE DEF next
<1>2. \A u \in Thread : next[u].stream = next[u].second => next[u].stream = NoStream
  BY <1>1 DEF Sole
<1>3. \A u, v \in Thread : u # v => HeldBy(next[u]) \cap HeldBy(next[v]) = {}
  BY <1>1 DEF Sole
<1>4. \A u \in Thread, k \in Keys : HeldBy(next[u]) \cap Elems(queues2[k]) = {}
  BY <1>1 DEF Sole
<1>5. \A k, j \in Keys : k # j => Elems(queues2[k]) \cap Elems(queues2[j]) = {}
  BY DEF Sole
<1>6. Sole(queues2, next)
  BY <1>2, <1>3, <1>4, <1>5 DEF Sole
<1> QED BY <1>6 DEF next

(***************************************************************************)
(* A call that puts one of its streams into a queue.                       *)
(***************************************************************************)
LEMMA GiveKeepsSole ==
  ASSUME NEW queues \in [Keys -> Seq(Stream)], NEW calls, NEW t \in Thread, NEW c,
         NEW k \in Keys, NEW s \in Stream,
         DOMAIN calls = Thread, Sole(queues, calls),
         s \in HeldBy(calls[t]), HeldBy(c) \subseteq HeldBy(calls[t]) \ {s},
         c.stream = c.second => c.stream = NoStream
  PROVE  Sole([queues EXCEPT ![k] = Append(@, s)], [calls EXCEPT ![t] = c])
<1> DEFINE next == [calls EXCEPT ![t] = c]
           queues2 == [queues EXCEPT ![k] = Append(@, s)]
<1>1. next[t] = c /\ \A u \in Thread : u # t => next[u] = calls[u]
  OBVIOUS
<1>2. \A j \in Keys : j # k => queues2[j] = queues[j]
  OBVIOUS
<1>3. queues2[k] = Append(queues[k], s) /\ queues[k] \in Seq(Stream)
  OBVIOUS
<1>4. s \notin Elems(queues[k]) /\ Once(queues[k])
  BY DEF Sole
<1>5. Elems(queues2[k]) = Elems(queues[k]) \cup {s} /\ Once(queues2[k])
  BY <1>3, <1>4, AppendFacts
<1> HIDE DEF next, queues2
<1>6. \A u \in Thread : next[u].stream = next[u].second => next[u].stream = NoStream
  BY <1>1 DEF Sole
<1>7. \A u, v \in Thread : u # v => HeldBy(next[u]) \cap HeldBy(next[v]) = {}
  BY <1>1 DEF Sole
<1>8. \A u \in Thread : s \notin HeldBy(next[u])
  BY <1>1 DEF Sole
<1>9. \A u \in Thread, j \in Keys : HeldBy(next[u]) \cap Elems(queues2[j]) = {}
  BY <1>1, <1>2, <1>5, <1>8 DEF Sole
<1>10. \A i, j \in Keys : i # j => Elems(queues2[i]) \cap Elems(queues2[j]) = {}
  BY <1>2, <1>5 DEF Sole
<1>11. \A j \in Keys : Once(queues2[j])
  BY <1>2, <1>5 DEF Sole
<1>12. Sole(queues2, next)
  BY <1>6, <1>7, <1>9, <1>10, <1>11 DEF Sole
<1> QED BY <1>12 DEF next, queues2
-------------------------------------------------------------------------------
\* What the stream of t's call was fed: nothing, or what t fed it in this call.
OwnData(on, data, t, c) ==
  /\ on /\ c.at \in {"feed", "measure", "give"} /\ c.done = 0 => data[c.stream] = <<>>
  /\ c.at = "feed" /\ c.done > 0 => data[c.stream] = [i \in 1 .. c.done |-> t]

(***************************************************************************)
(* Only streams in the middle of a call have been fed, each by its holder. *)
(***************************************************************************)
FedByHolder(on, data, calls) ==
  /\ on => \A s \in Stream :
       data[s] # <<>> => \E t \in Thread : calls[t].at = "feed" /\ calls[t].stream = s
  /\ \A t \in Thread : OwnData(on, data, t, calls[t])

Inv ==
  /\ TypeOK
  /\ \A t \in Thread : CallOK(call[t])
  /\ Sole(cache, call)
  /\ FedByHolder(crypts, fed, call)

\* A step from c to d does not end a promised call with anything but the right result.
EndsRight(c, d) ==
  c.at # "idle" /\ d.at = "idle" /\ c.by # Forged /\ IsServed(c) => d.result = "right"

(***************************************************************************)
(* What has to be shown of an action of t.                                 *)
(***************************************************************************)
LEMMA StepKeepsInv ==
  ASSUME Inv, NEW t \in Thread, NEW c, call' = [call EXCEPT ![t] = c], CallOK(c),
         UNCHANGED crypts, cache' \in [Keys -> Seq(Stream)], fed' \in [Stream -> Seq(Thread)],
         Sole(cache', call'), FedByHolder(crypts, fed', call')
  PROVE  Inv' /\ call'[t] = c /\ \A u \in Thread : u # t => call'[u] = call[u]
<1>1. call'[t] = c /\ \A u \in Thread : u # t => call'[u] = call[u]
  BY DEF Inv, TypeOK
<1>2. call' \in [Thread -> Calls]
  BY DEF Inv, TypeOK, CallOK
<1>3. \A u \in Thread : CallOK(call'[u])
  BY <1>1 DEF Inv
<1>4. TypeOK'
  BY <1>2 DEF Inv, TypeOK
<1> QED BY <1>1, <1>3, <1>4 DEF Inv

(***************************************************************************)
(* What is fed to the stream of one call, or taken from it, is not noticed *)
(* by the others.                                                          *)
(***************************************************************************)
LEMMA OthersKeepData ==
  ASSUME Inv, NEW t \in Thread, call[t].stream # NoStream, NEW data,
         \A s \in Stream : s # call[t].stream => data[s] = fed[s],
         NEW u \in Thread, u # t
  PROVE  OwnData(crypts, data, u, call[u])
<1>1. CASE call[u].at \in {"feed", "measure", "give"}
  <2>1. call[u].stream # NoStream /\ call[u] \in Calls
    BY <1>1 DEF Inv, CallOK
  <2>2. call[u].stream \in Stream
    BY <2>1 DEF Calls
  <2>3. call[u].stream # call[t].stream
    BY <2>1 DEF Inv, Sole, HeldBy
  <2>4. data[call[u].stream] = fed[call[u].stream]
    BY <2>2, <2>3
  <2> QED BY <2>4 DEF Inv, FedByHolder, OwnData
<1>2. CASE call[u].at \notin {"feed", "measure", "give"}
  BY <1>2 DEF OwnData
<1> QED BY <1>1, <1>2

(***************************************************************************)
(* A call that does not feed goes on, and feeds nothing.                   *)
(***************************************************************************)
LEMMA UnfedKeepsFed ==
  ASSUME Inv, NEW t \in Thread, NEW c, call[t].at # "feed", OwnData(crypts, fed, t, c)
  PROVE  FedByHolder(crypts, fed, [call EXCEPT ![t] = c])
<1> DEFINE next == [call EXCEPT ![t] = c]
<1>1. next[t] = c /\ \A u \in Thread : u # t => next[u] = call[u]
  BY DEF Inv, TypeOK
<1> HIDE DEF next
<1>2. FedByHolder(crypts, fed, next)
  BY <1>1 DEF Inv, FedByHolder
<1> QED BY <1>2 DEF next

(***************************************************************************)
(* A call resets its stream and stops feeding it.                          *)
(***************************************************************************)
LEMMA ResetKeepsFed ==
  ASSUME Inv, NEW t \in Thread, NEW c, call[t].at = "feed", c.at \in {"take", "idle"}
  PROVE  /\ FedByHolder(crypts, [fed EXCEPT ![call[t].stream] = <<>>], [call EXCEPT ![t] = c])
         /\ [fed EXCEPT ![call[t].stream] = <<>>] \in [Stream -> Seq(Thread)]
<1> DEFINE next == [call EXCEPT ![t] = c]
           data == [fed EXCEPT ![call[t].stream] = <<>>]
<1>1. next[t] = c /\ \A u \in Thread : u # t => next[u] = call[u]
  BY DEF Inv, TypeOK
<1>2. call[t].stream \in Stream /\ call[t].stream # NoStream
  BY DEF Inv, CallOK, Calls
<1>3. /\ data[call[t].stream] = <<>> /\ data \in [Stream -> Seq(Thread)]
      /\ \A s \in Stream : s # call[t].stream => data[s] = fed[s]
  BY <1>2 DEF Inv, TypeOK
<1> HIDE DEF next, data
<1>4. \A u \in Thread : u # t => OwnData(crypts, data, u, next[u])
  BY <1>1, <1>2, <1>3, OthersKeepData
<1>5. OwnData(crypts, data, t, next[t])
  BY <1>1 DEF OwnData
<1>6. ASSUME crypts, NEW s \in Stream, data[s] # <<>>
      PROVE  \E u \in Thread : next[u].at = "feed" /\ next[u].stream = s
  <2>1. s # call[t].stream /\ fed[s] # <<>>
    BY <1>3, <1>6
  <2>2. PICK u \in Thread : call[u].at = "feed" /\ call[u].stream = s
    BY <1>6, <2>1 DEF Inv, FedByHolder
  <2> QED BY <1>1, <2>1, <2>2
<1>7. FedByHolder(crypts, data, next)
  BY <1>4, <1>5, <1>6 DEF FedByHolder
<1> QED BY <1>3, <1>7 DEF next, data
-------------------------------------------------------------------------------
(***************************************************************************)
(* The bucket has a key, and a call always has one of its keys in turn.    *)
(***************************************************************************)
LEMMA BucketFacts ==
  /\ Len(Bucket) \in Nat /\ 1 \in Turns
  /\ \A i \in Turns : Bucket[i] \in Keys
  /\ \A k \in Keys : \E i \in Turns : k = Bucket[i]
  /\ \A c \in Calls : KeyInTurn(c) \in Keys
<1>1. Len(Bucket) \in Nat /\ (\A i \in Turns : Bucket[i] \in Keys)
      /\ \A k \in Keys : \E i \in Turns : k = Bucket[i]
  BY StreamCacheAssumption DEF Keys, Turns
<1>2. 1 \in Turns
  BY <1>1, StreamCacheAssumption DEF Turns
<1>3. \A c \in Calls : KeyInTurn(c) \in Keys
  BY <1>1, StreamCacheAssumption DEF KeyInTurn, Calls
<1> QED BY <1>1, <1>2, <1>3

(***************************************************************************)
(* A call that has ended holds nothing.                                    *)
(***************************************************************************)
LEMMA EndedFacts ==
  ASSUME NEW r \in {"none", "right", "wrong", "error"}
  PROVE  /\ CallOK(Ended(r)) /\ Ended(r).at = "idle" /\ Ended(r).result = r
         /\ Ended(r).stream = NoStream /\ HeldBy(Ended(r)) = {} /\ Ended(r).second = NoStream
<1>1. Ended(r) = [op |-> "size", at |-> "idle", turn |-> 1, by |-> Primary, len |-> 0,
                  room |-> 0, stream |-> NoStream, second |-> NoStream, done |-> 0,
                  out |-> <<>>, result |-> r]
  BY DEF Ended, NoCall
<1>2. 1 \in Turns /\ Primary \in Keys /\ 0 \in 0 .. MaxLen /\ 0 \in 0 .. MaxLen + 1
      /\ 0 \in 0 .. MaxLen + 1 + MaxSpare /\ <<>> \in Seq(Keys \X (1 .. MaxLen + 1))
  BY BucketFacts, StreamCacheAssumption
<1>3. Ended(r) \in Calls
  BY <1>1, <1>2 DEF Calls, Op
<1> QED BY <1>1, <1>3 DEF CallOK, IsServed, HeldBy

(***************************************************************************)
(* A call that gives a key up: it goes on with the next one or fails, and  *)
(* fails only if the right key is not there.                               *)
(***************************************************************************)
LEMMA NextTurnFacts ==
  ASSUME NEW c, CallOK(c), c.at = "feed",
         IsServed(c) => c.op \in {"decrypt", "verify"} /\ c.by # Bucket[c.turn]
  PROVE  /\ CallOK(NextTurn(c)) /\ NextTurn(c).at \in {"take", "idle"}
         /\ NextTurn(c).stream = NoStream /\ HeldBy(NextTurn(c)) = {}
         /\ EndsRight(c, NextTurn(c))
<1> DEFINE d == [c EXCEPT !.at = "take", !.stream = NoStream, !.done = 0, !.turn = @ + 1]
<1>1. c \in Calls /\ c.turn \in Turns /\ c.second = NoStream
  BY DEF CallOK, Calls
<1>2. CASE c.op \in {"decrypt", "verify"} /\ c.turn < Len(Bucket)
  <2>1. NextTurn(c) = d
    BY <1>2 DEF NextTurn
  <2>2. /\ d.op = c.op /\ d.at = "take" /\ d.turn = c.turn + 1 /\ d.by = c.by /\ d.len = c.len
        /\ d.room = c.room /\ d.stream = NoStream /\ d.second = c.second /\ d.done = 0
        /\ d.out = c.out /\ d.result = c.result
    BY <1>1 DEF Calls
  <2>3. c.turn \in Nat /\ c.turn >= 1 /\ c.turn + 1 \in Turns
    BY <1>1, <1>2, BucketFacts DEF Turns
  <2>4. d \in Calls
    <3>1. 0 \in 0 .. MaxLen + 1
      BY StreamCacheAssumption
    <3> QED BY <1>1, <2>3, <3>1 DEF Calls
  <2>5. IsServed(d) <=> IsServed(c)
    BY <2>2 DEF IsServed, IsSoiled
  <2>6. IsServed(c) => \A i \in 1 .. (c.turn + 1) - 1 : c.by # Bucket[i]
    <3>1. \A i \in 1 .. (c.turn + 1) - 1 : i \in 1 .. c.turn - 1 \/ i = c.turn
      BY <2>3
    <3> QED BY <3>1 DEF CallOK
  <2>7. d.done <= d.len + 1 /\ (d.op = "decrypt" /\ d.len = 0 => d.out = <<>>) /\ d.turn # 1
    BY <1>1, <2>2, <2>3 DEF CallOK, Calls
  <2> HIDE DEF d
  <2>8. CallOK(d)
    BY <1>1, <2>2, <2>4, <2>5, <2>6, <2>7 DEF CallOK
  <2> QED BY <1>1, <2>1, <2>2, <2>8 DEF EndsRight, HeldBy
<1>3. CASE ~(c.op \in {"decrypt", "verify"} /\ c.turn < Len(Bucket))
  <2>1. NextTurn(c) = Ended("error")
    BY <1>3 DEF NextTurn
  <2>2. ASSUME IsServed(c), c.by # Forged PROVE FALSE
    <3>1. c.turn = Len(Bucket)
      BY <1>1, <1>3, <2>2, BucketFacts DEF Turns
    <3>2. PICK i \in Turns : c.by = Bucket[i]
      BY <1>1, <2>2, BucketFacts DEF Calls
    <3>3. i \in 1 .. c.turn - 1 \/ i = c.turn
      BY <3>1, BucketFacts DEF Turns
    <3> QED BY <2>2, <3>2, <3>3 DEF CallOK
  <2> QED BY <2>1, <2>2, EndedFacts DEF EndsRight
<1> QED BY <1>2, <1>3

(***************************************************************************)
(* A call that feeds, and whose key or buffer is not the right one, gives  *)
(* the key up.                                                             *)
(***************************************************************************)
LEMMA FailKeepsInv ==
  ASSUME Inv, NEW t \in Thread, Fail(t), UNCHANGED crypts, call[t].at = "feed",
         IsServed(call[t]) =>
           call[t].op \in {"decrypt", "verify"} /\ call[t].by # Bucket[call[t].turn]
  PROVE  /\ Inv' /\ EndsRight(call[t], call'[t])
         /\ \A u \in Thread : u # t => call'[u] = call[u]
<1> DEFINE c == NextTurn(call[t])
<1>1. /\ CallOK(c) /\ c.at \in {"take", "idle"} /\ c.stream = NoStream
      /\ HeldBy(c) = {} /\ EndsRight(call[t], c)
  BY NextTurnFacts DEF Inv
<1>2. call' = [call EXCEPT ![t] = c] /\ cache' = cache
      /\ fed' = [fed EXCEPT ![call[t].stream] = <<>>]
  BY DEF Fail, Step
<1>3. DOMAIN call = Thread /\ cache \in [Keys -> Seq(Stream)]
  BY DEF Inv, TypeOK
<1> HIDE DEF c
<1>4. Sole(cache', call')
  BY <1>1, <1>2, <1>3, DropKeepsSole DEF Inv
<1>5. FedByHolder(crypts, fed', call') /\ fed' \in [Stream -> Seq(Thread)]
  BY <1>1, <1>2, ResetKeepsFed
<1> QED BY <1>1, <1>2, <1>3, <1>4, <1>5, StepKeepsInv

(***************************************************************************)
(* A call that has finished with a key gives the stream, reset, back.      *)
(***************************************************************************)
LEMMA FinishKeepsInv ==
  ASSUME Inv, NEW t \in Thread, NEW c, Finish(t, c), call[t].at = "feed", CallOK(c),
         c.at \in {"take", "idle"}, c.stream = NoStream, HeldBy(c) = {}, EndsRight(call[t], c)
  PROVE  /\ Inv' /\ EndsRight(call[t], call'[t])
         /\ \A u \in Thread : u # t => call'[u] = call[u]
<1> DEFINE k == KeyInTurn(call[t])
           s == call[t].stream
<1>1. /\ call' = [call EXCEPT ![t] = c] /\ cache' = [cache EXCEPT ![k] = Append(@, s)]
      /\ fed' = [fed EXCEPT ![s] = <<>>] /\ crypts' = crypts
  BY DEF Finish, Step, AddStreamToCacheForReuse
<1>2. k \in Keys /\ s \in Stream /\ s \in HeldBy(call[t])
  BY BucketFacts DEF Inv, CallOK, Calls, HeldBy
<1>3. DOMAIN call = Thread /\ cache \in [Keys -> Seq(Stream)]
  BY DEF Inv, TypeOK
<1>4. FedByHolder(crypts, fed', call') /\ fed' \in [Stream -> Seq(Thread)]
  BY <1>1, ResetKeepsFed
<1> HIDE DEF k, s
<1>5. Sole(cache', call')
  BY <1>1, <1>2, <1>3, GiveKeepsSole DEF Inv
<1>6. cache' \in [Keys -> Seq(Stream)]
  <2>1. cache[k] \in Seq(Stream)
    BY <1>2, <1>3
  <2>2. Append(cache[k], s) \in Seq(Stream)
    BY <1>2, <2>1
  <2> QED BY <1>1, <1>2, <1>3, <2>2
<1> QED BY <1>1, <1>4, <1>5, <1>6, StepKeepsInv
-------------------------------------------------------------------------------
(***************************************************************************)
(* What every action of a thread does: it keeps Inv, ends no promised call *)
(* badly, and leaves the calls of the others alone.                        *)
(***************************************************************************)
Good(t) ==
  /\ Inv' /\ EndsRight(call[t], call'[t])
  /\ \A u \in Thread : u # t => call'[u] = call[u]

(***************************************************************************)
(* A call begins with the first key, with nothing held and nothing written.*)
(***************************************************************************)
LEMMA BeginIsGood ==
  ASSUME Inv, NEW t \in Thread, NEW op \in Op, NEW by \in Keys \cup {Forged},
         NEW len \in 0 .. MaxLen, NEW room \in 0 .. MaxLen + 1 + MaxSpare,
         Begin(t, op, by, len, room)
  PROVE  Good(t)
<1> DEFINE c == [NoCall EXCEPT !.op = op, !.at = "take", !.by = by, !.len = len, !.room = room]
<1>1. call' = [call EXCEPT ![t] = c] /\ UNCHANGED <<crypts, cache, fed>> /\ call[t].at = "idle"
  BY DEF Begin, Step
<1>2. /\ NoCall \in Calls /\ NoCall.turn = 1 /\ NoCall.done = 0 /\ NoCall.out = <<>>
      /\ NoCall.stream = NoStream /\ NoCall.second = NoStream
  <2>1. /\ 1 \in Turns /\ Primary \in Keys /\ 0 \in 0 .. MaxLen /\ 0 \in 0 .. MaxLen + 1
        /\ 0 \in 0 .. MaxLen + 1 + MaxSpare /\ <<>> \in Seq(Keys \X (1 .. MaxLen + 1))
    BY BucketFacts, StreamCacheAssumption
  <2> QED BY <2>1 DEF NoCall, Calls, Op
<1>3. CallOK(c) /\ c.at = "take" /\ c.stream = NoStream /\ c.second = NoStream
  <2>1. /\ c \in Calls /\ c.op = op /\ c.at = "take" /\ c.turn = 1 /\ c.len = len /\ c.done = 0
        /\ c.out = <<>> /\ c.stream = NoStream /\ c.second = NoStream
    BY <1>2 DEF Calls
  <2> HIDE DEF c
  <2>2. c.out = [i \in 1 .. c.done - 1 |-> <<Bucket[1], i>>]
    BY <2>1
  <2>3. c.done <= c.len + 1 /\ \A i \in 1 .. c.turn - 1 : c.by # Bucket[i]
    BY <2>1
  <2> QED BY <2>1, <2>2, <2>3 DEF CallOK
<1> HIDE DEF c
<1>4. c.at = "take" /\ c.stream = NoStream /\ HeldBy(c) = {}
  BY <1>3 DEF HeldBy
<1>5. Sole(cache', call')
  BY <1>1, <1>4, DropKeepsSole DEF Inv, TypeOK
<1>6. FedByHolder(crypts, fed', call')
  <2>1. OwnData(crypts, fed, t, c)
    BY <1>4 DEF OwnData
  <2> QED BY <1>1, <2>1, UnfedKeepsFed
<1>7. cache' \in [Keys -> Seq(Stream)] /\ fed' \in [Stream -> Seq(Thread)]
  BY <1>1 DEF Inv, TypeOK
<1>8. EndsRight(call[t], c)
  BY <1>4 DEF EndsRight
<1>9. Inv' /\ call'[t] = c /\ \A u \in Thread : u # t => call'[u] = call[u]
  BY <1>1, <1>3, <1>5, <1>6, <1>7, StepKeepsInv
<1> QED BY <1>8, <1>9 DEF Good

(***************************************************************************)
(* getStream returns a stream that nobody has, and a Crypter a reset one.  *)
(***************************************************************************)
LEMMA GetStreamFacts ==
  ASSUME Inv, NEW k \in Keys, NEW s \in Stream, GetStream(k, s)
  PROVE  /\ cache' \in [Keys -> Seq(Stream)] /\ UNCHANGED fed
         /\ \A j \in Keys : Elems(cache'[j]) \subseteq Elems(cache[j]) /\ Once(cache'[j])
         /\ \A j \in Keys : s \notin Elems(cache'[j])
         /\ \A u \in Thread : s \notin HeldBy(call[u])
         /\ crypts => fed[s] = <<>>
<1>1. cache \in [Keys -> Seq(Stream)] /\ \A j \in Keys : Once(cache[j])
  BY DEF Inv, TypeOK, Sole
<1>2. (\A u \in Thread : s \notin HeldBy(call[u])) => (crypts => fed[s] = <<>>)
  <2> SUFFICES ASSUME crypts, fed[s] # <<>>
               PROVE  \E u \in Thread : s \in HeldBy(call[u])
    OBVIOUS
  <2>1. PICK u \in Thread : call[u].at = "feed" /\ call[u].stream = s
    BY DEF Inv, FedByHolder
  <2> QED BY <2>1, StreamCacheAssumption DEF HeldBy
<1>3. CASE cache[k] # <<>> /\ s = Head(cache[k]) /\ cache' = [cache EXCEPT ![k] = Tail(@)]
           /\ UNCHANGED fed
  <2>1. cache[k] \in Seq(Stream) /\ Once(cache[k])
    BY <1>1
  <2>2. /\ Tail(cache[k]) \in Seq(Stream) /\ Once(Tail(cache[k])) /\ s \in Elems(cache[k])
        /\ Elems(Tail(cache[k])) \subseteq Elems(cache[k]) /\ s \notin Elems(Tail(cache[k]))
    BY <1>3, <2>1, TailFacts
  <2>3. cache'[k] = Tail(cache[k]) /\ \A j \in Keys : j # k => cache'[j] = cache[j]
    BY <1>1, <1>3
  <2>4. cache' \in [Keys -> Seq(Stream)]
    BY <1>1, <1>3, <2>2
  <2>5. \A j \in Keys : s \notin Elems(cache'[j])
    BY <2>2, <2>3 DEF Inv, Sole
  <2>6. \A u \in Thread : s \notin HeldBy(call[u])
    BY <2>2 DEF Inv, Sole
  <2> QED BY <1>1, <1>2, <1>3, <2>2, <2>3, <2>4, <2>5, <2>6
<1>4. CASE cache[k] = <<>> /\ ~InUse(s) /\ UNCHANGED <<cache, fed>>
  <2>1. (\A u \in Thread : s \notin HeldBy(call[u])) /\ \A j \in Keys : s \notin Elems(cache[j])
    BY <1>4 DEF InUse, Held, Cached, HeldBy, Elems
  <2> QED BY <1>1, <1>2, <1>4, <2>1
<1> QED BY <1>3, <1>4 DEF GetStream

(***************************************************************************)
(* A call takes its stream.                                                *)
(***************************************************************************)
LEMMA TakeIsGood ==
  ASSUME Inv, NEW t \in Thread, Take(t)
  PROVE  Good(t)
<1>1. PICK s \in Stream :
        /\ GetStream(KeyInTurn(call[t]), s)
        /\ Step(t, [call[t] EXCEPT !.stream = s,
                     !.at = CASE call[t].op = "size" -> "give"
                              [] call[t].op = "sign" -> "measure"
                              [] OTHER -> "feed"])
  BY DEF Take
<1> DEFINE at == CASE call[t].op = "size" -> "give"
                   [] call[t].op = "sign" -> "measure"
                   [] OTHER -> "feed"
           c == [call[t] EXCEPT !.stream = s, !.at = at]
<1>2. call' = [call EXCEPT ![t] = c] /\ crypts' = crypts /\ call[t].at = "take"
  BY <1>1 DEF Take, Step
<1>3. call[t] \in Calls /\ CallOK(call[t]) /\ call[t].second = NoStream /\ call[t].done = 0
  BY <1>2 DEF Inv, CallOK
<1>4. /\ at \in {"give", "measure", "feed"} /\ (at = "give" => call[t].op = "size")
      /\ at = "measure" => call[t].op = "sign"
  OBVIOUS
<1> HIDE DEF at
<1>5. /\ c.op = call[t].op /\ c.at = at /\ c.turn = call[t].turn /\ c.by = call[t].by
      /\ c.len = call[t].len /\ c.room = call[t].room /\ c.stream = s
      /\ c.second = NoStream /\ c.done = 0 /\ c.out = call[t].out
  BY <1>3 DEF Calls
<1>6. c \in Calls
  BY <1>3, <1>4 DEF Calls
<1>7. s # NoStream
  BY StreamCacheAssumption
<1> HIDE DEF c
<1>8. CallOK(c)
  <2>1. IsServed(c) <=> IsServed(call[t])
    BY <1>5 DEF IsServed, IsSoiled
  <2> QED BY <1>3, <1>4, <1>5, <1>6, <1>7, <2>1 DEF CallOK
<1>9. KeyInTurn(call[t]) \in Keys
  BY <1>3, BucketFacts
<1>10. /\ cache' \in [Keys -> Seq(Stream)] /\ UNCHANGED fed
       /\ \A j \in Keys : Elems(cache'[j]) \subseteq Elems(cache[j]) /\ Once(cache'[j])
       /\ \A j \in Keys : s \notin Elems(cache'[j])
       /\ \A u \in Thread : s \notin HeldBy(call[u])
       /\ crypts => fed[s] = <<>>
  BY <1>1, <1>9, GetStreamFacts
<1>11. HeldBy(c) = {s} /\ c.stream # c.second
  BY <1>5, <1>7 DEF HeldBy
<1>12. Sole(cache', call')
  BY <1>2, <1>10, <1>11, TakeKeepsSole DEF Inv, TypeOK
<1>13. OwnData(crypts, fed, t, c)
  BY <1>5, <1>10 DEF OwnData
<1>14. FedByHolder(crypts, fed', call')
  BY <1>2, <1>10, <1>13, UnfedKeepsFed
<1>15. fed' \in [Stream -> Seq(Thread)]
  BY <1>10 DEF Inv, TypeOK
<1>16. EndsRight(call[t], c)
  BY <1>4, <1>5 DEF EndsRight
<1>17. cache' \in [Keys -> Seq(Stream)]
  BY <1>10
<1>18. Inv' /\ call'[t] = c /\ \A u \in Thread : u # t => call'[u] = call[u]
  BY <1>2, <1>8, <1>12, <1>14, <1>15, <1>17, StepKeepsInv
<1> QED BY <1>16, <1>18 DEF Good

(***************************************************************************)
(* ciphertextSize and digestSize give the stream back as it is.            *)
(***************************************************************************)
LEMMA GiveSizeIsGood ==
  ASSUME Inv, NEW t \in Thread, GiveSize(t)
  PROVE  Good(t)
<1> DEFINE c == Ended("right")
           s == call[t].stream
<1>1. /\ call' = [call EXCEPT ![t] = c] /\ cache' = [cache EXCEPT ![Primary] = Append(@, s)]
      /\ UNCHANGED <<crypts, fed>> /\ call[t].at = "give"
  BY DEF GiveSize, Step, AddStreamToCacheForReuse
<1>2. /\ CallOK(c) /\ c.at = "idle" /\ c.result = "right" /\ c.stream = NoStream
      /\ HeldBy(c) = {}
  BY EndedFacts
<1>3. Primary \in Keys /\ s \in Stream /\ s \in HeldBy(call[t])
  BY <1>1, StreamCacheAssumption DEF Inv, CallOK, Calls, HeldBy
<1>4. /\ DOMAIN call = Thread /\ cache \in [Keys -> Seq(Stream)]
      /\ fed' \in [Stream -> Seq(Thread)]
  BY <1>1 DEF Inv, TypeOK
<1> HIDE DEF c, s
<1>5. Sole(cache', call')
  BY <1>1, <1>2, <1>3, <1>4, GiveKeepsSole DEF Inv
<1>6. cache' \in [Keys -> Seq(Stream)]
  <2>1. cache[Primary] \in Seq(Stream)
    BY <1>3, <1>4
  <2>2. Append(cache[Primary], s) \in Seq(Stream)
    BY <1>3, <2>1
  <2> QED BY <1>1, <1>3, <1>4, <2>2
<1>7. OwnData(crypts, fed, t, c)
  BY <1>2 DEF OwnData
<1>8. FedByHolder(crypts, fed', call')
  BY <1>1, <1>7, UnfedKeepsFed
<1>9. EndsRight(call[t], c)
  BY <1>2 DEF EndsRight
<1>10. Inv' /\ call'[t] = c /\ \A u \in Thread : u # t => call'[u] = call[u]
  BY <1>1, <1>2, <1>4, <1>5, <1>6, <1>8, StepKeepsInv
<1> QED BY <1>9, <1>10 DEF Good

(***************************************************************************)
(* sign() takes a second stream for digestSize().                          *)
(***************************************************************************)
LEMMA MeasureIsGood ==
  ASSUME Inv, NEW t \in Thread, Measure(t)
  PROVE  Good(t)
<1>1. PICK s \in Stream :
        GetStream(Primary, s) /\ Step(t, [call[t] EXCEPT !.second = s, !.at = "give"])
  BY DEF Measure
<1> DEFINE c == [call[t] EXCEPT !.second = s, !.at = "give"]
<1>2. call' = [call EXCEPT ![t] = c] /\ crypts' = crypts /\ call[t].at = "measure"
  BY <1>1 DEF Measure, Step
<1>3. /\ call[t] \in Calls /\ CallOK(call[t]) /\ call[t].done = 0
      /\ call[t].stream # NoStream /\ call[t].op = "sign"
  BY <1>2 DEF Inv, CallOK
<1>4. /\ c.op = call[t].op /\ c.at = "give" /\ c.turn = call[t].turn /\ c.by = call[t].by
      /\ c.len = call[t].len /\ c.room = call[t].room /\ c.stream = call[t].stream
      /\ c.second = s /\ c.done = 0 /\ c.out = call[t].out /\ c \in Calls
  BY <1>3 DEF Calls
<1>5. s # NoStream /\ Primary \in Keys
  BY StreamCacheAssumption
<1> HIDE DEF c
<1>6. CallOK(c)
  <2>1. IsServed(c) <=> IsServed(call[t])
    BY <1>4 DEF IsServed, IsSoiled
  <2> QED BY <1>3, <1>4, <1>5, <2>1 DEF CallOK
<1>7. /\ cache' \in [Keys -> Seq(Stream)] /\ UNCHANGED fed
      /\ \A j \in Keys : Elems(cache'[j]) \subseteq Elems(cache[j]) /\ Once(cache'[j])
      /\ \A j \in Keys : s \notin Elems(cache'[j])
      /\ \A u \in Thread : s \notin HeldBy(call[u])
  BY <1>1, <1>5, GetStreamFacts
<1>8. HeldBy(c) \subseteq HeldBy(call[t]) \cup {s} /\ c.stream # c.second
  BY <1>3, <1>4, <1>5, <1>7 DEF HeldBy
<1>9. Sole(cache', call')
  BY <1>2, <1>7, <1>8, TakeKeepsSole DEF Inv, TypeOK
<1>10. OwnData(crypts, fed, t, c)
  <2>1. OwnData(crypts, fed, t, call[t])
    BY DEF Inv, FedByHolder
  <2> QED BY <1>2, <1>3, <1>4, <2>1 DEF OwnData
<1>11. FedByHolder(crypts, fed', call') /\ fed' \in [Stream -> Seq(Thread)]
  BY <1>2, <1>7, <1>10, UnfedKeepsFed DEF Inv, TypeOK
<1>12. EndsRight(call[t], c)
  BY <1>4 DEF EndsRight
<1>13. cache' \in [Keys -> Seq(Stream)]
  BY <1>7
<1>14. Inv' /\ call'[t] = c /\ \A u \in Thread : u # t => call'[u] = call[u]
  BY <1>2, <1>6, <1>9, <1>11, <1>13, StepKeepsInv
<1> QED BY <1>12, <1>14 DEF Good

(***************************************************************************)
(* digestSize() inside sign() gives the second stream back.                *)
(***************************************************************************)
LEMMA GiveMeasuredIsGood ==
  ASSUME Inv, NEW t \in Thread, GiveMeasured(t)
  PROVE  Good(t)
<1> DEFINE c == [call[t] EXCEPT !.second = NoStream, !.at = "feed"]
           s == call[t].second
<1>1. /\ call' = [call EXCEPT ![t] = c] /\ cache' = [cache EXCEPT ![Primary] = Append(@, s)]
      /\ UNCHANGED <<crypts, fed>> /\ call[t].at = "give" /\ call[t].op = "sign"
  BY DEF GiveMeasured, Step, AddStreamToCacheForReuse
<1>2. /\ call[t] \in Calls /\ CallOK(call[t]) /\ call[t].done = 0
      /\ call[t].stream # NoStream /\ s # NoStream
  BY <1>1 DEF Inv, CallOK
<1>3. /\ c.op = call[t].op /\ c.at = "feed" /\ c.turn = call[t].turn /\ c.by = call[t].by
      /\ c.len = call[t].len /\ c.room = call[t].room /\ c.stream = call[t].stream
      /\ c.second = NoStream /\ c.done = 0 /\ c.out = call[t].out /\ c \in Calls
  BY <1>2 DEF Calls
<1>4. Primary \in Keys /\ s \in Stream /\ s \in HeldBy(call[t]) /\ call[t].stream # s
  BY <1>2, StreamCacheAssumption DEF Calls, HeldBy, Inv, Sole
<1> HIDE DEF c
<1>5. CallOK(c)
  <2>1. IsServed(c) <=> IsServed(call[t])
    BY <1>3 DEF IsServed, IsSoiled
  <2> QED BY <1>1, <1>2, <1>3, <2>1 DEF CallOK
<1>6. HeldBy(c) \subseteq HeldBy(call[t]) \ {s} /\ c.stream # c.second
  BY <1>2, <1>3, <1>4 DEF HeldBy
<1>7. /\ DOMAIN call = Thread /\ cache \in [Keys -> Seq(Stream)]
      /\ fed' \in [Stream -> Seq(Thread)]
  BY <1>1 DEF Inv, TypeOK
<1> HIDE DEF s
<1>8. Sole(cache', call')
  BY <1>1, <1>4, <1>6, <1>7, GiveKeepsSole DEF Inv
<1>9. cache' \in [Keys -> Seq(Stream)]
  <2>1. cache[Primary] \in Seq(Stream)
    BY <1>4, <1>7
  <2>2. Append(cache[Primary], s) \in Seq(Stream)
    BY <1>4, <2>1
  <2> QED BY <1>1, <1>4, <1>7, <2>2
<1>10. OwnData(crypts, fed, t, c)
  <2>1. OwnData(crypts, fed, t, call[t])
    BY DEF Inv, FedByHolder
  <2> QED BY <1>1, <1>2, <1>3, <2>1 DEF OwnData
<1>11. FedByHolder(crypts, fed', call')
  BY <1>1, <1>10, UnfedKeepsFed
<1>12. EndsRight(call[t], c)
  BY <1>3 DEF EndsRight
<1>13. Inv' /\ call'[t] = c /\ \A u \in Thread : u # t => call'[u] = call[u]
  BY <1>1, <1>5, <1>7, <1>8, <1>9, <1>11, StepKeepsInv
<1> QED BY <1>12, <1>13 DEF Good
-------------------------------------------------------------------------------
(***************************************************************************)
(* Feeding once more.                                                      *)
(***************************************************************************)
LEMMA AppendSame ==
  ASSUME NEW t, NEW n \in Nat
  PROVE  Append([i \in 1 .. n |-> t], t) = [i \in 1 .. n + 1 |-> t]
<1> DEFINE a == [i \in 1 .. n |-> t]
           b == [i \in 1 .. n + 1 |-> t]
<1>1. a \in Seq({t}) /\ Len(a) = n /\ b \in Seq({t}) /\ Len(b) = n + 1
  OBVIOUS
<1>2. Append(a, t) \in Seq({t}) /\ Len(Append(a, t)) = n + 1
  BY <1>1
<1>3. \A i \in 1 .. n + 1 : Append(a, t)[i] = b[i]
  BY <1>1
<1> HIDE DEF a, b
<1>4. Append(a, t) = b
  BY <1>1, <1>2, <1>3
<1> QED BY <1>4 DEF a, b

(***************************************************************************)
(* Writing one chunk more.                                                 *)
(***************************************************************************)
LEMMA AppendChunk ==
  ASSUME NEW k, NEW n \in Nat
  PROVE  Append([i \in 1 .. n |-> <<k, i>>], <<k, n + 1>>) = [i \in 1 .. n + 1 |-> <<k, i>>]
<1> DEFINE a == [i \in 1 .. n |-> <<k, i>>]
           b == [i \in 1 .. n + 1 |-> <<k, i>>]
           S == {k} \X (1 .. n + 1)
<1>1. a \in Seq(S) /\ Len(a) = n /\ b \in Seq(S) /\ Len(b) = n + 1
  OBVIOUS
<1>2. <<k, n + 1>> \in S
  OBVIOUS
<1>3. \A i \in 1 .. n : a[i] = b[i]
  OBVIOUS
<1>4. b[n + 1] = <<k, n + 1>>
  OBVIOUS
<1> HIDE DEF a, b, S
<1>5. Append(a, <<k, n + 1>>) \in Seq(S) /\ Len(Append(a, <<k, n + 1>>)) = n + 1
  BY <1>1, <1>2
<1>6. \A i \in 1 .. n + 1 : Append(a, <<k, n + 1>>)[i] = b[i]
  BY <1>1, <1>2, <1>3, <1>4
<1>7. Append(a, <<k, n + 1>>) = b
  BY <1>1, <1>5, <1>6
<1> QED BY <1>7 DEF a, b

(***************************************************************************)
(* A call feeds its stream, which only it holds.                           *)
(***************************************************************************)
LEMMA FeedIsGood ==
  ASSUME Inv, NEW t \in Thread, Feed(t)
  PROVE  Good(t)
<1> DEFINE c == call[t]
           s == c.stream
           out == IF c.op = "decrypt" /\ c.done > 0
                    THEN Append(c.out, <<KeyInTurn(c), c.done>>) ELSE c.out
           d == [c EXCEPT !.done = @ + 1, !.out = out]
           q == IF c.done = 0 /\ ~crypts THEN <<t>> ELSE Append(fed[s], t)
<1>1. /\ call' = [call EXCEPT ![t] = d] /\ fed' = [fed EXCEPT ![s] = q]
      /\ crypts' = crypts /\ cache' = cache /\ c.at = "feed" /\ c.done <= c.len
  BY DEF Feed, Feeding, Step
<1>2. /\ c \in Calls /\ CallOK(c) /\ s \in Stream /\ s # NoStream /\ c.second = NoStream
      /\ KeyInTurn(c) \in Keys
  BY <1>1, BucketFacts DEF Inv, CallOK, Calls
<1>3. c.done \in Nat /\ c.len \in Nat /\ c.len <= MaxLen /\ MaxLen \in Nat
  BY <1>2, StreamCacheAssumption DEF Calls
<1>4. out \in Seq(Keys \X (1 .. MaxLen + 1))
  <2>1. c.out \in Seq(Keys \X (1 .. MaxLen + 1))
    BY <1>2 DEF Calls
  <2>2. c.done > 0 => c.done \in 1 .. MaxLen + 1
    BY <1>1, <1>3
  <2>3. c.done > 0 => <<KeyInTurn(c), c.done>> \in Keys \X (1 .. MaxLen + 1)
    BY <1>2, <2>2
  <2> HIDE DEF c
  <2> QED BY <2>1, <2>3
<1>5. c.op = "decrypt" /\ c.turn = 1 => out = [i \in 1 .. c.done |-> <<Bucket[1], i>>]
  <2> SUFFICES ASSUME c.op = "decrypt", c.turn = 1
               PROVE  out = [i \in 1 .. c.done |-> <<Bucket[1], i>>]
    OBVIOUS
  <2>1. KeyInTurn(c) = Bucket[1] /\ c.out = [i \in 1 .. c.done - 1 |-> <<Bucket[1], i>>]
    BY <1>2 DEF KeyInTurn, CallOK
  <2> HIDE DEF c
  <2>2. CASE c.done = 0
    <3>1. 1 .. c.done - 1 = 1 .. c.done
      BY <2>2
    <3> QED BY <2>1, <2>2, <3>1
  <2>3. CASE c.done > 0
    <3>1. c.done - 1 \in Nat /\ (c.done - 1) + 1 = c.done
      BY <1>3, <2>3
    <3>2. Append([i \in 1 .. c.done - 1 |-> <<Bucket[1], i>>], <<Bucket[1], (c.done - 1) + 1>>)
            = [i \in 1 .. (c.done - 1) + 1 |-> <<Bucket[1], i>>]
      BY <3>1, AppendChunk
    <3> QED BY <2>1, <2>3, <3>1, <3>2
  <2> QED BY <1>3, <2>2, <2>3
<1>6. c.op = "decrypt" /\ c.len = 0 => out = <<>>
  BY <1>1, <1>2, <1>3 DEF CallOK
<1>7. q \in Seq(Thread) /\ q = [i \in 1 .. c.done + 1 |-> t]
  <2>1. OwnData(crypts, fed, t, c) /\ fed[s] \in Seq(Thread)
    BY <1>2 DEF Inv, FedByHolder, TypeOK
  <2>2. q \in Seq(Thread)
    BY <2>1
  <2> HIDE DEF c
  <2>3. CASE c.done = 0
    <3>1. ~crypts \/ fed[s] = <<>>
      BY <1>1, <2>1, <2>3 DEF OwnData
    <3>2. q = <<t>>
      <4>1. CASE ~crypts
        BY <2>3, <4>1
      <4>2. CASE crypts
        <5>1. q = Append(fed[s], t)
          BY <4>2
        <5>2. Append(<<>>, t) = <<t>>
          OBVIOUS
        <5> QED BY <3>1, <4>2, <5>1, <5>2
      <4> QED BY <4>1, <4>2
    <3>3. <<t>> = [i \in 1 .. 1 |-> t] /\ c.done + 1 = 1
      BY <2>3
    <3> QED BY <2>2, <3>2, <3>3
  <2>4. CASE c.done > 0
    <3>1. fed[s] = [i \in 1 .. c.done |-> t]
      BY <1>1, <2>1, <2>4 DEF OwnData
    <3>2. q = Append([i \in 1 .. c.done |-> t], t)
      <4>1. c.done # 0
        BY <1>3, <2>4
      <4>2. q = Append(fed[s], t)
        BY <4>1
      <4> QED BY <3>1, <4>2
    <3> QED BY <1>3, <2>2, <3>2, AppendSame
  <2> QED BY <1>3, <2>3, <2>4
<1> HIDE DEF out, q
<1>8. /\ d.op = c.op /\ d.at = "feed" /\ d.turn = c.turn /\ d.by = c.by /\ d.len = c.len
      /\ d.room = c.room /\ d.stream = s /\ d.second = NoStream /\ d.done = c.done + 1
      /\ d.out = out
  BY <1>1, <1>2 DEF Calls
<1>9. d \in Calls
  <2>1. c.done + 1 \in 0 .. MaxLen + 1
    BY <1>1, <1>3
  <2> QED BY <1>2, <1>4, <2>1 DEF Calls
<1>10. HeldBy(d) = HeldBy(c) /\ d.stream # d.second
  BY <1>2, <1>8 DEF HeldBy
<1> HIDE DEF d
<1>11. CallOK(d)
  <2>1. IsServed(d) <=> IsServed(c)
    BY <1>8 DEF IsServed, IsSoiled
  <2>2. d.done <= d.len + 1 /\ d.done - 1 = c.done
    BY <1>1, <1>3, <1>8
  <2>3. c.op = "decrypt" /\ c.turn = 1 => d.out = [i \in 1 .. d.done - 1 |-> <<Bucket[1], i>>]
    BY <1>5, <1>8, <2>2
  <2>4. IsServed(d) => \A i \in 1 .. d.turn - 1 : d.by # Bucket[i]
    BY <1>2, <1>8, <2>1 DEF CallOK
  <2> QED BY <1>2, <1>6, <1>8, <1>9, <2>2, <2>3, <2>4 DEF CallOK
<1>12. Sole(cache', call')
  BY <1>1, <1>10, DropKeepsSole DEF Inv, TypeOK
<1>13. fed' \in [Stream -> Seq(Thread)] /\ cache' \in [Keys -> Seq(Stream)]
  BY <1>1, <1>2, <1>7 DEF Inv, TypeOK
<1>14. FedByHolder(crypts, fed', call')
  <2>1. call'[t] = d /\ \A u \in Thread : u # t => call'[u] = call[u]
    BY <1>1 DEF Inv, TypeOK
  <2>2. fed'[s] = q /\ \A x \in Stream : x # s => fed'[x] = fed[x]
    BY <1>1, <1>2 DEF Inv, TypeOK
  <2>3. \A u \in Thread : u # t => OwnData(crypts, fed', u, call'[u])
    BY <1>2, <2>1, <2>2, OthersKeepData
  <2>4. OwnData(crypts, fed', t, d)
    BY <1>3, <1>7, <1>8, <2>2 DEF OwnData
  <2>5. ASSUME crypts, NEW x \in Stream, fed'[x] # <<>>
        PROVE  \E u \in Thread : call'[u].at = "feed" /\ call'[u].stream = x
    <3>1. CASE x = s
      BY <1>8, <2>1, <3>1
    <3>2. CASE x # s
      <4>1. PICK u \in Thread : call[u].at = "feed" /\ call[u].stream = x
        BY <2>2, <2>5, <3>2 DEF Inv, FedByHolder
      <4> QED BY <2>1, <3>2, <4>1
    <3> QED BY <3>1, <3>2
  <2> QED BY <2>1, <2>3, <2>4, <2>5 DEF FedByHolder
<1>15. EndsRight(c, d)
  BY <1>8 DEF EndsRight
<1>16. Inv' /\ call'[t] = d /\ \A u \in Thread : u # t => call'[u] = call[u]
  BY <1>1, <1>11, <1>12, <1>13, <1>14, StepKeepsInv
<1> QED BY <1>15, <1>16 DEF Good

(***************************************************************************)
(* decrypt, as far as ServedRight covers it, has written the chunks of the *)
(* right key if any, and so has room for the next.                         *)
(***************************************************************************)
LEMMA ServedDecrypt ==
  ASSUME NEW c, CallOK(c), c.at = "feed", c.op = "decrypt", IsServed(c), c.done > 0,
         KeyInTurn(c) = c.by \/ c.done <= c.len
  PROVE  c.out = [i \in 1 .. c.done - 1 |-> <<c.by, i>>] /\ Len(c.out) = c.done - 1
<1>1. /\ c \in Calls /\ c.done \in Nat /\ c.len \in Nat /\ c.turn \in Turns /\ c.turn \in Nat
      /\ c.done <= c.len + 1
  BY BucketFacts, StreamCacheAssumption DEF CallOK, Calls, Turns
<1>2. c.len = 0 \/ c.by = Bucket[1]
  BY <1>1 DEF IsServed, IsSoiled
<1>3. CASE c.len = 0
  <2>1. c.done = 1 /\ c.out = <<>>
    BY <1>1, <1>3 DEF CallOK
  <2>2. <<>> = [i \in 1 .. 1 - 1 |-> <<c.by, i>>] /\ Len(<<>>) = 0
    OBVIOUS
  <2> QED BY <2>1, <2>2
<1>4. CASE c.by = Bucket[1]
  <2>1. c.turn = 1
    <3>1. c.turn >= 1 /\ (c.turn > 1 => 1 \in 1 .. c.turn - 1)
      BY <1>1 DEF Turns
    <3> QED BY <1>1, <1>4, <3>1 DEF CallOK
  <2>2. c.out = [i \in 1 .. c.done - 1 |-> <<c.by, i>>]
    BY <1>4, <2>1 DEF CallOK
  <2>3. c.done - 1 \in Nat
    BY <1>1
  <2> QED BY <2>2, <2>3
<1> QED BY <1>2, <1>3, <1>4

(***************************************************************************)
(* A full buffer is not what a promised call meets.                        *)
(***************************************************************************)
LEMMA FeedFailsIsGood ==
  ASSUME Inv, NEW t \in Thread, FeedFails(t)
  PROVE  Good(t)
<1> DEFINE c == call[t]
<1>1. /\ c.at = "feed" /\ c.done <= c.len /\ IsFull(c) /\ Fail(t) /\ UNCHANGED crypts
      /\ CallOK(c)
  BY DEF FeedFails, Feeding, Inv
<1>2. c.done \in Nat /\ c.len \in Nat /\ c.room \in Nat /\ c.op \in Op
  BY <1>1, StreamCacheAssumption DEF CallOK, Calls
<1>3. ASSUME IsServed(c) PROVE FALSE
  <2>1. c.room > c.len
    BY <1>3 DEF IsServed
  <2>2. c.op = "decrypt" /\ c.done > 0 /\ Len(c.out) = c.room
    BY <1>1, <1>2, <2>1 DEF IsFull
  <2>3. Len(c.out) = c.done - 1
    BY <1>1, <1>3, <2>2, ServedDecrypt
  <2> QED BY <1>1, <1>2, <2>1, <2>2, <2>3
<1> QED BY <1>1, <1>3, FailKeepsInv DEF Good

(***************************************************************************)
(* A call that has been fed to the end was fed its own data.               *)
(***************************************************************************)
LEMMA FedMeansOwn ==
  ASSUME Inv, NEW t \in Thread, Fed(t)
  PROVE  FedOwn(t) /\ call[t].at = "feed" /\ call[t].done = call[t].len + 1 /\ call[t].done > 0
         /\ call[t].len \in Nat /\ call[t].room \in Nat /\ CallOK(call[t])
<1>1. /\ call[t].at = "feed" /\ call[t].done > call[t].len /\ CallOK(call[t])
      /\ OwnData(crypts, fed, t, call[t])
  BY DEF Fed, Inv, FedByHolder
<1>2. /\ call[t].len \in Nat /\ call[t].done \in Nat /\ call[t].room \in Nat
      /\ call[t].done <= call[t].len + 1
  BY <1>1, StreamCacheAssumption DEF CallOK, Calls
<1>3. call[t].done = call[t].len + 1 /\ call[t].done > 0
  BY <1>1, <1>2
<1>4. fed[call[t].stream] = [i \in 1 .. call[t].done |-> t]
  BY <1>1, <1>3 DEF OwnData
<1> QED BY <1>1, <1>2, <1>3, <1>4 DEF FedOwn

(***************************************************************************)
(* encrypt, sign and attachedSign end right.                               *)
(***************************************************************************)
LEMMA FinishMadeIsGood ==
  ASSUME Inv, NEW t \in Thread, FinishEncrypt(t) \/ FinishSign(t)
  PROVE  Good(t)
<1>1. Fed(t) /\ Finish(t, Ended(IF FedOwn(t) THEN "right" ELSE "wrong"))
  BY DEF FinishEncrypt, FinishSign
<1>2. Finish(t, Ended("right")) /\ call[t].at = "feed"
  BY <1>1, FedMeansOwn
<1>3. EndsRight(call[t], Ended("right"))
  BY EndedFacts DEF EndsRight
<1> QED BY <1>2, <1>3, EndedFacts, FinishKeepsInv DEF Good

(***************************************************************************)
(* verify ends right under the key that signed, or goes on.                *)
(***************************************************************************)
LEMMA FinishVerifyIsGood ==
  ASSUME Inv, NEW t \in Thread, FinishVerify(t)
  PROVE  Good(t)
<1> DEFINE c == call[t]
<1>1. /\ FedOwn(t) /\ c.at = "feed" /\ c.op = "verify" /\ CallOK(c)
      /\ Finish(t, IF Verified(t) /\ FedOwn(t) THEN Ended("right") ELSE NextTurn(c))
  BY FedMeansOwn DEF FinishVerify
<1>2. CASE Verified(t)
  <2>1. Finish(t, Ended("right"))
    BY <1>1, <1>2
  <2>2. EndsRight(c, Ended("right"))
    BY EndedFacts DEF EndsRight
  <2> QED BY <1>1, <2>1, <2>2, EndedFacts, FinishKeepsInv DEF Good
<1>3. CASE ~Verified(t)
  <2>1. Finish(t, NextTurn(c))
    BY <1>1, <1>3
  <2>2. c.by # Bucket[c.turn]
    BY <1>1, <1>3 DEF Verified, KeyInTurn
  <2>3. /\ CallOK(NextTurn(c)) /\ NextTurn(c).at \in {"take", "idle"}
        /\ NextTurn(c).stream = NoStream /\ HeldBy(NextTurn(c)) = {}
        /\ EndsRight(c, NextTurn(c))
    BY <1>1, <2>2, NextTurnFacts
  <2> QED BY <1>1, <2>1, <2>3, FinishKeepsInv DEF Good
<1> QED BY <1>2, <1>3

(***************************************************************************)
(* decrypt ends right: what it has written is the plaintext.               *)
(***************************************************************************)
LEMMA FinishDecryptIsGood ==
  ASSUME Inv, NEW t \in Thread, FinishDecrypt(t)
  PROVE  Good(t)
<1> DEFINE c == call[t]
           out == Append(c.out, <<c.by, c.len + 1>>)
           r == IF FedOwn(t) /\ out = Plaintext(c) THEN "right" ELSE "wrong"
<1>1. Fed(t) /\ c.op = "decrypt" /\ Verified(t) /\ Finish(t, Ended(r))
  BY DEF FinishDecrypt
<1>2. /\ FedOwn(t) /\ c.at = "feed" /\ c.done = c.len + 1 /\ c.done > 0 /\ c.len \in Nat
      /\ CallOK(c)
  BY <1>1, FedMeansOwn
<1>3. IsServed(c) => r = "right"
  <2> SUFFICES ASSUME IsServed(c) PROVE out = Plaintext(c)
    BY <1>2
  <2>1. c.out = [i \in 1 .. c.done - 1 |-> <<c.by, i>>]
    BY <1>1, <1>2, ServedDecrypt DEF Verified
  <2>2. c.done - 1 = c.len
    BY <1>2
  <2>3. out = [i \in 1 .. c.len + 1 |-> <<c.by, i>>]
    BY <1>2, <2>1, <2>2, AppendChunk
  <2> QED BY <2>3 DEF Plaintext
<1>4. r \in {"none", "right", "wrong", "error"}
  OBVIOUS
<1> HIDE DEF r
<1>5. /\ CallOK(Ended(r)) /\ Ended(r).at = "idle" /\ Ended(r).result = r
      /\ Ended(r).stream = NoStream /\ HeldBy(Ended(r)) = {}
  BY <1>4, EndedFacts
<1>6. EndsRight(c, Ended(r))
  BY <1>3, <1>5 DEF EndsRight
<1> QED BY <1>1, <1>2, <1>5, <1>6, FinishKeepsInv DEF Good

(***************************************************************************)
(* What fails at the end fails for a wrong key or a small buffer.          *)
(***************************************************************************)
LEMMA FinishFailsIsGood ==
  ASSUME Inv, NEW t \in Thread, FinishFails(t)
  PROVE  Good(t)
<1> DEFINE c == call[t]
<1>1. /\ \/ c.op = "encrypt" /\ c.room = c.len
         \/ c.op = "decrypt" /\ (~Verified(t) \/ Len(c.out) = c.room)
         \/ c.op = "verify" /\ ~Verified(t)
      /\ Fed(t) /\ Fail(t) /\ UNCHANGED crypts
  BY DEF FinishFails
<1>2. /\ c.at = "feed" /\ c.done = c.len + 1 /\ c.done > 0 /\ c.len \in Nat /\ c.room \in Nat
      /\ CallOK(c)
  BY <1>1, FedMeansOwn
<1>3. ASSUME IsServed(c)
      PROVE  c.op \in {"decrypt", "verify"} /\ c.by # Bucket[c.turn]
  <2>1. c.room > c.len
    BY <1>3 DEF IsServed
  <2>2. c.op \in {"decrypt", "verify"}
    BY <1>1, <1>2, <2>1
  <2>3. ASSUME Verified(t) PROVE FALSE
    <3>1. c.op = "decrypt" /\ Len(c.out) = c.room
      BY <1>1, <2>2, <2>3
    <3>2. Len(c.out) = c.done - 1
      BY <1>2, <1>3, <2>3, <3>1, ServedDecrypt DEF Verified
    <3> QED BY <1>2, <2>1, <3>1, <3>2
  <2> QED BY <2>2, <2>3 DEF Verified, KeyInTurn
<1> QED BY <1>1, <1>2, <1>3, FailKeepsInv DEF Good
-------------------------------------------------------------------------------
(***************************************************************************)
(* At the start nothing is held, cached or fed.                            *)
(***************************************************************************)
LEMMA InvInit == Init => Inv
<1> SUFFICES ASSUME Init PROVE Inv
  OBVIOUS
<1>1. NoCall = Ended("none")
  BY DEF NoCall, Ended
<1>2. CallOK(NoCall) /\ NoCall.at = "idle" /\ NoCall.stream = NoStream /\ HeldBy(NoCall) = {}
  BY <1>1, EndedFacts
<1>3. \A t \in Thread : call[t] = NoCall
  BY DEF Init
<1>4. TypeOK
  BY <1>2 DEF Init, TypeOK, CallOK
<1>5. Sole(cache, call)
  <2>1. \A k \in Keys : Elems(cache[k]) = {} /\ Once(cache[k])
    BY DEF Init, Elems, Once
  <2> QED BY <1>2, <1>3, <2>1 DEF Sole
<1>6. FedByHolder(crypts, fed, call)
  BY <1>2, <1>3 DEF Init, FedByHolder, OwnData
<1> QED BY <1>2, <1>3, <1>4, <1>5, <1>6 DEF Inv

(***************************************************************************)
(* Every action is good, whichever thread takes it.                        *)
(***************************************************************************)
LEMMA NextIsGood == Inv /\ Next => \E t \in Thread : Good(t)
<1> SUFFICES ASSUME Inv, NEW t \in Thread,
                    \/ \E op \in Op, by \in Keys \cup {Forged}, len \in 0 .. MaxLen,
                          room \in 0 .. MaxLen + 1 + MaxSpare : Begin(t, op, by, len, room)
                    \/ Works(t)
             PROVE  Good(t)
  BY DEF Next
<1>1. CASE Works(t)
  BY <1>1, TakeIsGood, GiveSizeIsGood, MeasureIsGood, GiveMeasuredIsGood, FeedIsGood,
     FeedFailsIsGood, FinishMadeIsGood, FinishVerifyIsGood, FinishDecryptIsGood,
     FinishFailsIsGood DEF Works
<1> QED BY <1>1, BeginIsGood

(***************************************************************************)
(* A step that changes nothing keeps Inv.                                  *)
(***************************************************************************)
LEMMA InvStutter == Inv /\ UNCHANGED vars => Inv'
BY DEF Inv, TypeOK, vars

(***************************************************************************)
(* Every step keeps the invariant.                                         *)
(***************************************************************************)
LEMMA InvNext == Inv /\ [Next]_vars => Inv'
BY NextIsGood, InvStutter DEF Good

(***************************************************************************)
(* The variables keep their types, for any number of threads, keys with    *)
(* one identifier, streams and chunks; decrypt never tries a key beyond    *)
(* the bucket (Crypter.decrypt, Verifier.verify).                          *)
(***************************************************************************)
THEOREM TypesHold == Spec => []TypeOK
<1>1. Inv => TypeOK
  BY DEF Inv
<1> QED BY <1>1, InvInit, InvNext, PTL DEF Spec

(***************************************************************************)
(* A stream object is never in two hands, nor in a hand and a queue        *)
(* (KeyczarKey.getStream, addStreamToCacheForReuse).                       *)
(***************************************************************************)
THEOREM OneHolderHolds == Spec => []OneHolder
<1>1. Inv => OneHolder
  BY SoleIsOneHolder DEF Inv
<1> QED BY <1>1, InvInit, InvNext, PTL DEF Spec

(***************************************************************************)
(* No queue of a Crypter has a stream that a failed call left in the       *)
(* middle of a text (Encrypter.encrypt, Crypter.decrypt).                  *)
(***************************************************************************)
THEOREM CachedAreResetHolds == Spec => []CachedAreReset
<1>1. Inv => CachedAreReset
  <2> SUFFICES ASSUME Inv, crypts, NEW k \in Keys, NEW s \in Cached(k), fed[s] # <<>>
               PROVE  FALSE
    BY DEF CachedAreReset
  <2>1. s \in Stream /\ s \in Elems(cache[k])
    BY DEF Cached, Elems, Inv, TypeOK
  <2>2. PICK t \in Thread : call[t].at = "feed" /\ call[t].stream = s
    BY <2>1 DEF Inv, FedByHolder
  <2>3. s \in HeldBy(call[t])
    BY <2>1, <2>2, StreamCacheAssumption DEF HeldBy
  <2> QED BY <2>1, <2>3 DEF Inv, Sole
<1> QED BY <1>1, InvInit, InvNext, PTL DEF Spec

(***************************************************************************)
(* A call whose key is there and whose buffer is large enough ends right,  *)
(* whatever other threads do and whatever failed before (Encrypter.encrypt,*)
(* Crypter.decrypt, Signer.sign, Verifier.verify).                         *)
(***************************************************************************)
THEOREM ServedRightHolds == Spec => ServedRight
<1> DEFINE Served == \A t \in Thread : IsSoiled(call[t]) \/ Serves(t)
<1>1. Inv /\ [Next]_vars => [Served]_vars
  <2> SUFFICES ASSUME Inv, Next, NEW u \in Thread, ~IsSoiled(call[u])
               PROVE  Serves(u)
    OBVIOUS
  <2>1. PICK t \in Thread : Good(t)
    BY NextIsGood
  <2>2. CASE u = t
    BY <2>1, <2>2 DEF Good, EndsRight, IsServed, Serves
  <2>3. CASE u # t
    BY <2>1, <2>3 DEF Good, Serves
  <2> QED BY <2>2, <2>3
<1> QED BY <1>1, InvInit, InvNext, PTL DEF Spec, ServedRight
-------------------------------------------------------------------------------
(***************************************************************************)
(* The size of the pool.  A step either adds no stream to a key's pool, or *)
(* it finds the key's queue empty: then every stream of the pool is in the *)
(* hands of a thread, and a thread has one hand, or two if it signs.       *)
(***************************************************************************)
Mine(c, k) == IF KeyInTurn(c) = k THEN HeldBy(c) ELSE {}

\* StreamsOf, of any queue and calls.
Pool(queue, calls, k) == Elems(queue) \cup UNION {Mine(calls[u], k) : u \in Thread}

LEMMA PoolIsStreamsOf ==
  \A k \in Keys : /\ StreamsOf(k) = Pool(cache[k], call, k)
                  /\ StreamsOf(k)' = Pool(cache'[k], call', k)
<1> TAKE k \in Keys
<1>1. StreamsOf(k) = Pool(cache[k], call, k)
  BY DEF StreamsOf, Pool, Cached, Elems, Mine, Held, HeldBy
<1>2. StreamsOf(k)' = Pool(cache'[k], call', k)
  BY DEF StreamsOf, Pool, Cached, Elems, Mine, Held, HeldBy, KeyInTurn
<1> QED BY <1>1, <1>2

\* Only t has moved, and only streams that were in the pool.
LEMMA PoolShrinks ==
  ASSUME NEW queue, NEW queue2, NEW calls, DOMAIN calls = Thread, NEW t \in Thread, NEW c, NEW k,
         Elems(queue2) \subseteq Elems(queue) \cup Mine(calls[t], k),
         Mine(c, k) \subseteq Elems(queue) \cup Mine(calls[t], k)
  PROVE  Pool(queue2, [calls EXCEPT ![t] = c], k) \subseteq Pool(queue, calls, k)
<1> DEFINE next == [calls EXCEPT ![t] = c]
<1>1. next[t] = c /\ \A u \in Thread : u # t => next[u] = calls[u]
  OBVIOUS
<1> HIDE DEF next
<1>2. \A u \in Thread : Mine(next[u], k) \subseteq Pool(queue, calls, k)
  BY <1>1 DEF Pool
<1>3. Elems(queue2) \subseteq Pool(queue, calls, k)
  BY DEF Pool
<1>4. Pool(queue2, next, k) \subseteq Pool(queue, calls, k)
  <2> SUFFICES ASSUME NEW s \in Pool(queue2, next, k) PROVE s \in Pool(queue, calls, k)
    OBVIOUS
  <2>1. s \in Elems(queue2) \/ \E u \in Thread : s \in Mine(next[u], k)
    BY DEF Pool
  <2> QED BY <1>2, <1>3, <2>1
<1> QED BY <1>4 DEF next

Hands(one) == IF one THEN {1} ELSE {1, 2}

InHands(P, calls, k) == \A s \in P : \E u \in Thread : s \in Mine(calls[u], k)

OneHanded(calls) == \A u \in Thread : calls[u].second = NoStream

\* One hand to a call, or two.
LEMMA HandsAreFew ==
  ASSUME NEW one \in BOOLEAN
  PROVE  IsFiniteSet(Hands(one)) /\ Cardinality(Hands(one)) = IF one THEN 1 ELSE 2
<1>1. PICK S : S = {1}
  OBVIOUS
<1>2. IsFiniteSet(S) /\ Cardinality(S) = 1
  BY <1>1, FS_Singleton
<1>3. 2 \notin S
  BY <1>1
<1>4. IsFiniteSet(S \cup {2}) /\ Cardinality(S \cup {2}) = Cardinality(S) + 1
  BY <1>2, <1>3, FS_AddElement
<1>5. {1, 2} = S \cup {2}
  BY <1>1
<1> QED BY <1>1, <1>2, <1>4, <1>5 DEF Hands

(***************************************************************************)
(* Streams in hands are counted by the hands.                              *)
(***************************************************************************)
LEMMA HandsBound ==
  ASSUME IsFiniteSet(Thread), NEW one \in BOOLEAN, NEW calls, NEW k, NEW P,
         InHands(P, calls, k), one => OneHanded(calls)
  PROVE  /\ IsFiniteSet(P)
         /\ Cardinality(P) <= Cardinality(Thread) * (IF one THEN 1 ELSE 2)
<1> DEFINE H == Thread \X Hands(one)
           In(x) == IF x[2] = 1 THEN calls[x[1]].stream ELSE calls[x[1]].second
           f == [s \in P |-> CHOOSE x \in H : s = In(x)]
<1>1. \A s \in P : \E x \in H : s = In(x)
  <2> SUFFICES ASSUME NEW s \in P PROVE \E x \in H : s = In(x)
    OBVIOUS
  <2>1. PICK u \in Thread : s \in Mine(calls[u], k)
    BY DEF InHands
  <2>2. s # NoStream /\ (s = calls[u].stream \/ s = calls[u].second)
    BY <2>1 DEF Mine, HeldBy
  <2>3. CASE s = calls[u].stream
    <3>1. <<u, 1>> \in H /\ In(<<u, 1>>) = s
      BY <2>3 DEF Hands
    <3> QED BY <3>1
  <2>4. CASE s = calls[u].second
    <3>1. <<u, 2>> \in H /\ In(<<u, 2>>) = s
      BY <2>2, <2>4 DEF Hands, OneHanded
    <3> QED BY <3>1
  <2> QED BY <2>2, <2>3, <2>4
<1> HIDE DEF H, In
<1>2. \A s \in P : f[s] \in H /\ s = In(f[s])
  BY <1>1
<1> HIDE DEF f
<1>3. f \in Injection(P, H)
  <2>1. f \in [P -> H]
    BY <1>2 DEF f
  <2>2. \A s, r \in P : f[s] = f[r] => s = r
    BY <1>2
  <2> QED BY <2>1, <2>2 DEF Injection, IsInjective
<1>4. IsFiniteSet(Hands(one)) /\ Cardinality(Hands(one)) = IF one THEN 1 ELSE 2
  BY HandsAreFew
<1>5. IsFiniteSet(H) /\ Cardinality(H) = Cardinality(Thread) * Cardinality(Hands(one))
  BY <1>4, FS_Product DEF H
<1>6. IsFiniteSet(P) /\ Cardinality(P) <= Cardinality(H)
  BY <1>3, <1>5, FS_Injection
<1> QED BY <1>4, <1>5, <1>6

\* What has to be shown of a step of t for the size of the pools.
Modest(t) ==
  \E c : /\ call' = [call EXCEPT ![t] = c] /\ UNCHANGED crypts
         /\ crypts /\ c.op = "sign" => call[t].op = "sign"
         /\ \A k \in Keys :
              \/ cache'[k] = <<>>
              \/ /\ Elems(cache'[k]) \subseteq Elems(cache[k]) \cup Mine(call[t], k)
                 /\ Mine(c, k) \subseteq Elems(cache[k]) \cup Mine(call[t], k)

\* A step that takes a stream: the head of the queue, or the queue is empty.
LEMMA GettingIsModest ==
  ASSUME Inv, NEW t \in Thread, NEW s \in Stream, GetStream(KeyInTurn(call[t]), s), UNCHANGED crypts,
         NEW c, call' = [call EXCEPT ![t] = c], c.op = call[t].op, KeyInTurn(c) = KeyInTurn(call[t]),
         HeldBy(c) \subseteq HeldBy(call[t]) \cup {s}
  PROVE  Modest(t)
<1> PICK j : j = KeyInTurn(call[t])
  OBVIOUS
<1>1. /\ call[t] \in Calls /\ j \in Keys
      /\ cache \in [Keys -> Seq(Stream)] /\ \A i \in Keys : Once(cache[i])
  BY BucketFacts DEF Inv, TypeOK, Sole
<1>2. \A k \in Keys : k # j => Mine(c, k) = {}
  BY DEF Mine
<1>3. \A k \in Keys : Elems(cache'[k]) \subseteq Elems(cache[k])
  BY <1>1, GetStreamFacts
<1>4. CASE cache[j] = <<>>
  <2>1. cache'[j] = <<>>
    BY <1>4 DEF GetStream
  <2> QED BY <1>2, <1>3, <2>1 DEF Modest
<1>5. CASE cache[j] # <<>>
  <2>1. s = Head(cache[j])
    BY <1>5 DEF GetStream
  <2>2. s \in Elems(cache[j])
    BY <1>1, <1>5, <2>1, TailFacts
  <2>3. Mine(c, j) \subseteq Elems(cache[j]) \cup Mine(call[t], j)
    BY <2>2 DEF Mine
  <2> QED BY <1>2, <1>3, <2>3 DEF Modest
<1> QED BY <1>4, <1>5

\* A step that adds a stream back to the queue of its key, or drops it.
LEMMA GivingIsModest ==
  ASSUME Inv, NEW t \in Thread, UNCHANGED crypts,
         NEW c, call' = [call EXCEPT ![t] = c], crypts /\ c.op = "sign" => call[t].op = "sign",
         HeldBy(c) = {} \/ (HeldBy(c) \subseteq HeldBy(call[t]) /\ KeyInTurn(c) = KeyInTurn(call[t])),
         \/ UNCHANGED cache
         \/ \E s \in HeldBy(call[t]) :
              s \in Stream /\ AddStreamToCacheForReuse(KeyInTurn(call[t]), s)
  PROVE  Modest(t)
<1> PICK j : j = KeyInTurn(call[t])
  OBVIOUS
<1>1. call[t] \in Calls /\ j \in Keys /\ cache \in [Keys -> Seq(Stream)]
  BY BucketFacts DEF Inv, TypeOK
<1>2. \A k \in Keys : Mine(c, k) \subseteq Mine(call[t], k)
  BY DEF Mine
<1>3. \A k \in Keys : Elems(cache'[k]) \subseteq Elems(cache[k]) \cup Mine(call[t], k)
  <2>1. CASE UNCHANGED cache
    BY <2>1
  <2>2. ASSUME NEW s \in HeldBy(call[t]), s \in Stream, AddStreamToCacheForReuse(j, s)
        PROVE  \A k \in Keys : Elems(cache'[k]) \subseteq Elems(cache[k]) \cup Mine(call[t], k)
    <3>1. cache'[j] = Append(cache[j], s) /\ \A k \in Keys : k # j => cache'[k] = cache[k]
      BY <1>1, <2>2 DEF AddStreamToCacheForReuse
    <3>2. Elems(cache'[j]) = Elems(cache[j]) \cup {s}
      BY <1>1, <2>2, <3>1, AppendFacts
    <3>3. s \in Mine(call[t], j)
      BY DEF Mine
    <3> QED BY <3>1, <3>2, <3>3
  <2> QED BY <2>1, <2>2
<1> QED BY <1>2, <1>3 DEF Modest

\* The last step of a call, or of one key's turn in it.
LEMMA FinishIsModest ==
  ASSUME Inv, NEW t \in Thread, call[t].at = "feed", NEW c, HeldBy(c) = {},
         c.op = "sign" => call[t].op = "sign", Finish(t, c)
  PROVE  Modest(t)
<1>1. call[t].stream \in HeldBy(call[t]) /\ call[t].stream \in Stream
  BY DEF Inv, CallOK, Calls, HeldBy
<1> QED BY <1>1, GivingIsModest DEF Finish, Step

\* NextTurn holds nothing and is no other operation, or none.
LEMMA NextTurnHolds ==
  ASSUME NEW c \in Calls, c.second = NoStream
  PROVE  HeldBy(NextTurn(c)) = {} /\ (NextTurn(c).op = "sign" => c.op = "sign")
<1>1. CASE c.op \in {"decrypt", "verify"} /\ c.turn < Len(Bucket)
  BY <1>1 DEF NextTurn, HeldBy, Calls
<1>2. CASE ~(c.op \in {"decrypt", "verify"} /\ c.turn < Len(Bucket))
  <2>1. NextTurn(c) = Ended("error")
    BY <1>2 DEF NextTurn
  <2> QED BY <2>1, EndedFacts DEF Ended, NoCall
<1> QED BY <1>1, <1>2

LEMMA EndedHolds ==
  \A r \in {"none", "right", "wrong", "error"} : HeldBy(Ended(r)) = {} /\ Ended(r).op = "size"
BY EndedFacts DEF Ended, NoCall

LEMMA FailIsModest ==
  ASSUME Inv, NEW t \in Thread, call[t].at = "feed", Fail(t), UNCHANGED crypts
  PROVE  Modest(t)
<1>1. call[t] \in Calls /\ call[t].second = NoStream
  BY DEF Inv, CallOK
<1>2. HeldBy(NextTurn(call[t])) = {} /\ (NextTurn(call[t]).op = "sign" => call[t].op = "sign")
  BY <1>1, NextTurnHolds
<1> QED BY <1>2, GivingIsModest DEF Fail, Step

LEMMA StepIsModest ==
  ASSUME Inv, NEW t \in Thread,
         \/ \E op \in Op, by \in Keys \cup {Forged}, len \in 0 .. MaxLen,
               room \in 0 .. MaxLen + 1 + MaxSpare : Begin(t, op, by, len, room)
         \/ Works(t)
  PROVE  Modest(t)
<1> PICK d : d = call[t]
  OBVIOUS
<1>1. d \in Calls /\ CallOK(d)
  BY DEF Inv, TypeOK
<1>2. ASSUME NEW op \in Op, NEW by \in Keys \cup {Forged}, NEW len \in 0 .. MaxLen,
             NEW room \in 0 .. MaxLen + 1 + MaxSpare, Begin(t, op, by, len, room)
      PROVE  Modest(t)
  <2> DEFINE c == [NoCall EXCEPT !.op = op, !.at = "take", !.by = by, !.len = len, !.room = room]
  <2>1. c.op = op /\ c.stream = NoStream /\ c.second = NoStream
    BY DEF NoCall
  <2>2. call' = [call EXCEPT ![t] = c] /\ UNCHANGED <<crypts, cache>> /\ (crypts => op # "sign")
    BY <1>2 DEF Begin, Step
  <2> HIDE DEF c
  <2>3. HeldBy(c) = {}
    BY <2>1 DEF HeldBy
  <2> QED BY <2>1, <2>2, <2>3, GivingIsModest
<1>3. CASE Take(t)
  <2> DEFINE at == CASE d.op = "size" -> "give" [] d.op = "sign" -> "measure" [] OTHER -> "feed"
  <2>1. PICK s \in Stream : /\ GetStream(KeyInTurn(d), s)
                            /\ call' = [call EXCEPT ![t] = [d EXCEPT !.stream = s, !.at = at]]
    BY <1>3 DEF Take, Step
  <2>2. UNCHANGED crypts
    BY <1>3 DEF Take
  <2> HIDE DEF at
  <2> PICK c : c = [d EXCEPT !.stream = s, !.at = at]
    OBVIOUS
  <2>3. c.op = d.op /\ c.turn = d.turn /\ c.stream = s /\ c.second = d.second
    BY <1>1 DEF Calls
  <2>4. KeyInTurn(c) = KeyInTurn(d) /\ HeldBy(c) \subseteq HeldBy(d) \cup {s}
    BY <2>3 DEF KeyInTurn, HeldBy
  <2> QED BY <2>1, <2>2, <2>3, <2>4, GettingIsModest
<1>4. CASE Measure(t)
  <2>1. PICK s \in Stream : /\ GetStream(Primary, s)
                            /\ call' = [call EXCEPT ![t] = [d EXCEPT !.second = s, !.at = "give"]]
    BY <1>4 DEF Measure, Step
  <2>2. UNCHANGED crypts /\ d.op = "sign"
    BY <1>1, <1>4 DEF Measure, CallOK
  <2> PICK c : c = [d EXCEPT !.second = s, !.at = "give"]
    OBVIOUS
  <2>3. c.op = d.op /\ c.stream = d.stream /\ c.second = s
    BY <1>1 DEF Calls
  <2>4. KeyInTurn(d) = Primary /\ KeyInTurn(c) = Primary /\ HeldBy(c) \subseteq HeldBy(d) \cup {s}
    BY <2>2, <2>3 DEF KeyInTurn, HeldBy
  <2>5. GetStream(KeyInTurn(call[t]), s) /\ KeyInTurn(c) = KeyInTurn(call[t])
    BY <2>1, <2>4
  <2> QED BY <2>1, <2>2, <2>3, <2>4, <2>5, GettingIsModest
<1>5. CASE GiveSize(t)
  <2>1. /\ d.op = "size" /\ d.at = "give" /\ AddStreamToCacheForReuse(Primary, d.stream)
        /\ call' = [call EXCEPT ![t] = Ended("right")] /\ UNCHANGED crypts
    BY <1>5 DEF GiveSize, Step
  <2>2. KeyInTurn(d) = Primary /\ d.stream \in HeldBy(d) /\ d.stream \in Stream
    BY <1>1, <2>1 DEF KeyInTurn, HeldBy, CallOK, Calls
  <2>3. HeldBy(Ended("right")) = {} /\ Ended("right").op # "sign"
    BY EndedHolds
  <2> QED BY <2>1, <2>2, <2>3, GivingIsModest
<1>6. CASE GiveMeasured(t)
  <2> PICK c : c = [d EXCEPT !.second = NoStream, !.at = "feed"]
    OBVIOUS
  <2>1. /\ d.op = "sign" /\ d.at = "give" /\ AddStreamToCacheForReuse(Primary, d.second)
        /\ call' = [call EXCEPT ![t] = c] /\ UNCHANGED crypts
    BY <1>6 DEF GiveMeasured, Step
  <2>2. d.second \in HeldBy(d) /\ d.second \in Stream
    BY <1>1, <2>1 DEF HeldBy, CallOK, Calls
  <2>3. c.op = d.op /\ c.stream = d.stream /\ c.second = NoStream
    BY <1>1 DEF Calls
  <2>4. KeyInTurn(d) = Primary /\ KeyInTurn(c) = Primary /\ HeldBy(c) \subseteq HeldBy(d)
    BY <2>1, <2>3 DEF KeyInTurn, HeldBy
  <2> QED BY <2>1, <2>2, <2>3, <2>4, GivingIsModest
<1>7. CASE Feed(t)
  <2> DEFINE out == IF d.op = "decrypt" /\ d.done > 0
                      THEN Append(d.out, <<KeyInTurn(d), d.done>>) ELSE d.out
  <2>1. call' = [call EXCEPT ![t] = [d EXCEPT !.done = @ + 1, !.out = out]]
    BY <1>7 DEF Feed, Step
  <2>2. UNCHANGED <<crypts, cache>>
    BY <1>7 DEF Feed
  <2> HIDE DEF out
  <2> PICK c : c = [d EXCEPT !.done = @ + 1, !.out = out]
    OBVIOUS
  <2>3. c.op = d.op /\ c.turn = d.turn /\ c.stream = d.stream /\ c.second = d.second
    BY <1>1 DEF Calls
  <2>4. KeyInTurn(c) = KeyInTurn(d) /\ HeldBy(c) \subseteq HeldBy(d)
    BY <2>3 DEF KeyInTurn, HeldBy
  <2> QED BY <2>1, <2>2, <2>3, <2>4, GivingIsModest
<1>8. CASE FeedFails(t) \/ FinishFails(t)
  <2>1. d.at = "feed" /\ Fail(t) /\ UNCHANGED crypts
    BY <1>8 DEF FeedFails, FinishFails, Feeding, Fed
  <2> QED BY <2>1, FailIsModest
<1>9. CASE FinishEncrypt(t) \/ FinishSign(t) \/ FinishVerify(t) \/ FinishDecrypt(t)
  <2>1. d.at = "feed" /\ d.second = NoStream
    BY <1>1, <1>9 DEF FinishEncrypt, FinishSign, FinishVerify, FinishDecrypt, Fed, CallOK
  <2>2. \/ Finish(t, Ended("right")) \/ Finish(t, Ended("wrong"))
        \/ Finish(t, NextTurn(d))
    BY <1>9 DEF FinishEncrypt, FinishSign, FinishVerify, FinishDecrypt
  <2>3. HeldBy(NextTurn(d)) = {} /\ (NextTurn(d).op = "sign" => d.op = "sign")
    BY <1>1, <2>1, NextTurnHolds
  <2>4. /\ HeldBy(Ended("right")) = {} /\ Ended("right").op # "sign"
        /\ HeldBy(Ended("wrong")) = {} /\ Ended("wrong").op # "sign"
    BY EndedHolds
  <2> QED BY <2>1, <2>2, <2>3, <2>4, FinishIsModest
<1> QED BY <1>2, <1>3, <1>4, <1>5, <1>6, <1>7, <1>8, <1>9 DEF Works

\* The sizes of the pools, with what they rest on: a Crypter does not sign.
PoolInv ==
  /\ crypts => \A t \in Thread : call[t].op # "sign"
  /\ \A k \in Keys : IsFiniteSet(StreamsOf(k))
  /\ PoolIsBounded

LEMMA PoolNext ==
  ASSUME IsFiniteSet(Thread), Inv, Inv', PoolInv, [Next]_vars
  PROVE  PoolInv'
<1>1. CASE UNCHANGED vars
  <2>1. \A k \in Keys : StreamsOf(k)' = StreamsOf(k)
    BY <1>1, PoolIsStreamsOf DEF vars
  <2> QED BY <1>1, <2>1 DEF PoolInv, PoolIsBounded, vars
<1>2. CASE Next
  <2>1. PICK t \in Thread : Modest(t)
    BY <1>2, StepIsModest DEF Next
  <2>2. PICK c : /\ call' = [call EXCEPT ![t] = c] /\ UNCHANGED crypts
                 /\ crypts /\ c.op = "sign" => call[t].op = "sign"
                 /\ \A k \in Keys :
                      \/ cache'[k] = <<>>
                      \/ /\ Elems(cache'[k]) \subseteq Elems(cache[k]) \cup Mine(call[t], k)
                         /\ Mine(c, k) \subseteq Elems(cache[k]) \cup Mine(call[t], k)
    BY <2>1 DEF Modest
  <2>3. DOMAIN call = Thread /\ crypts \in BOOLEAN /\ UNCHANGED crypts
    BY <2>2 DEF Inv, TypeOK
  <2>4. call'[t] = c /\ \A u \in Thread : u # t => call'[u] = call[u]
    BY <2>2, <2>3
  <2>5. crypts => \A u \in Thread : call'[u].op # "sign"
    BY <2>2, <2>4 DEF PoolInv
  <2>6. crypts => \A u \in Thread : call'[u].second = NoStream
    BY <2>5 DEF Inv, CallOK
  <2>7. ASSUME NEW k \in Keys
        PROVE  /\ IsFiniteSet(StreamsOf(k)')
               /\ Cardinality(StreamsOf(k)') <= Cardinality(Thread) * (IF crypts THEN 1 ELSE 2)
    <3> PICK P : P = Pool(cache'[k], call', k)
      OBVIOUS
    <3> PICK O : O = Pool(cache[k], call, k)
      OBVIOUS
    <3>1. StreamsOf(k)' = P /\ StreamsOf(k) = O
      BY PoolIsStreamsOf
    <3>2. CASE cache'[k] = <<>>
      <4>1. Elems(cache'[k]) = {}
        BY <3>2 DEF Elems
      <4>2. \A s \in P : \E u \in Thread : s \in Mine(call'[u], k)
        BY <4>1 DEF Pool
      <4> PICK calls : calls = call'
        OBVIOUS
      <4>3. IsFiniteSet(P) /\ Cardinality(P) <= Cardinality(Thread) * (IF crypts THEN 1 ELSE 2)
        <5>1. InHands(P, calls, k)
          BY <4>2 DEF InHands
        <5>2. crypts => OneHanded(calls)
          BY <2>6 DEF OneHanded
        <5> QED BY <2>3, <5>1, <5>2, HandsBound
      <4> QED BY <3>1, <4>3
    <3>3. CASE /\ Elems(cache'[k]) \subseteq Elems(cache[k]) \cup Mine(call[t], k)
               /\ Mine(c, k) \subseteq Elems(cache[k]) \cup Mine(call[t], k)
      <4>1. P \subseteq O
        BY <2>2, <2>3, <3>3, PoolShrinks
      <4>2. /\ IsFiniteSet(O)
            /\ Cardinality(O) <= Cardinality(Thread) * (IF crypts THEN 1 ELSE 2)
        BY <3>1 DEF PoolInv, PoolIsBounded
      <4>3. IsFiniteSet(P) /\ Cardinality(P) <= Cardinality(O)
        BY <4>1, <4>2, FS_Subset
      <4>4. Cardinality(P) \in Nat /\ Cardinality(O) \in Nat /\ Cardinality(Thread) \in Nat
        BY <4>2, <4>3, FS_CardinalityType
      <4> QED BY <3>1, <4>2, <4>3, <4>4
    <3> QED BY <2>2, <3>2, <3>3
  <2> QED BY <2>3, <2>5, <2>7 DEF PoolInv, PoolIsBounded
<1> QED BY <1>1, <1>2

LEMMA PoolInit ==
  ASSUME IsFiniteSet(Thread), Init
  PROVE  PoolInv
<1>1. \A t \in Thread : call[t].op = "size" /\ HeldBy(call[t]) = {}
  BY DEF Init, NoCall, HeldBy
<1>2. \A k \in Keys : StreamsOf(k) = {}
  <2> SUFFICES ASSUME NEW k \in Keys PROVE Pool(cache[k], call, k) = {}
    BY PoolIsStreamsOf
  <2>1. Elems(cache[k]) = {}
    BY DEF Init, Elems
  <2> QED BY <1>1, <2>1 DEF Pool, Mine
<1>3. IsFiniteSet({}) /\ Cardinality({}) = 0 /\ Cardinality(Thread) \in Nat
  BY FS_EmptySet, FS_CardinalityType
<1>4. 0 <= Cardinality(Thread) * (IF crypts THEN 1 ELSE 2)
  BY <1>3 DEF Init
<1> QED BY <1>1, <1>2, <1>3, <1>4 DEF PoolInv, PoolIsBounded

(***************************************************************************)
(* For any finite number of threads, a key never has more streams than the *)
(* threads have hands: one each for a Crypter, two each for a Signer       *)
(* (KeyczarKey.getStream, addStreamToCacheForReuse).                       *)
(***************************************************************************)
THEOREM PoolIsBoundedHolds ==
  ASSUME IsFiniteSet(Thread)
  PROVE  Spec => []PoolIsBounded
<1>1. Init => PoolInv
  BY PoolInit
<1>2. Inv /\ Inv' /\ PoolInv /\ [Next]_vars => PoolInv'
  BY PoolNext
<1>3. PoolInv => PoolIsBounded
  BY DEF PoolInv
<1> QED BY <1>1, <1>2, <1>3, InvInit, InvNext, PTL DEF Spec
===============================================================================
