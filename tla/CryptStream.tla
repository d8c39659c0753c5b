------------------------------ MODULE CryptStream ------------------------------
(***************************************************************************)
(* An EncryptingStreamWriter and a DecryptingStreamReader at the two ends  *)
(* of a file or a pipe that can lose its tail: the application that writes *)
(* may die, and the bytes it wrote last may never arrive.                  *)
(***************************************************************************)
EXTENDS AesKey

CONSTANTS
  MaxData, MaxFlushes, Requests,
  MayLose   \* can the tail of the stream be lost?

ASSUME CryptStreamAssumption ==
  /\ MaxData \in Nat /\ MaxFlushes \in Nat
  /\ Requests \subseteq Int
  /\ MayLose \in BOOLEAN

VARIABLES
  data, mac, closed, given, flushes,
  pos, known, stage, calling, chars, got, enc, dec, hmac, shut,
  returned, ended, raised,
  wire, eof

W == INSTANCE EncryptingStreamWriter
R == INSTANCE DecryptingStreamReader

writerVars == <<data, mac, closed, given, flushes>>
readerVars == <<pos, known, stage, calling, chars, got, enc, dec, hmac, shut,
                returned, ended, raised>>
vars == <<writerVars, readerVars, wire, eof>>

SeqExt == INSTANCE SequencesExt

Init ==
  /\ W!WriterInit
  /\ R!ReaderInit
  /\ eof = FALSE

Writer == ~eof /\ W!WriterNext /\ UNCHANGED <<readerVars, eof>>

Reader == R!ReaderNext /\ UNCHANGED <<writerVars, wire, eof>>

\* The output stream is closed: the reader will see its end.
Finish ==
  /\ ~eof /\ (closed \/ MayLose)
  /\ eof' = TRUE
  /\ wire' \in IF MayLose THEN {Take(wire, n) : n \in pos .. Len(wire)} ELSE {wire}
  /\ UNCHANGED <<writerVars, readerVars>>

Next == Writer \/ Reader \/ Finish

Spec == Init /\ [][Next]_vars

(***************************************************************************)
(* The writing application gets to its end; the reading one calls read()   *)
(* until it gets the empty string or an exception, and bytes that are      *)
(* there are delivered.                                                    *)
(***************************************************************************)
FairSpec ==
  /\ Spec
  /\ WF_vars(~eof /\ W!Close /\ UNCHANGED <<readerVars, eof>>)
  /\ WF_vars(Finish)
  /\ WF_vars(~ended /\ ~raised /\ (\E n \in Requests : R!Read(n))
             /\ UNCHANGED <<writerVars, wire, eof>>)
  /\ WF_vars(((\E n \in 1 .. 2 * BlockSize : R!SourceGives(n)) \/ R!SourceEnds)
             /\ UNCHANGED <<writerVars, wire, eof>>)
-------------------------------------------------------------------------------
Plain == {BlockSize + j : j \in 1 .. MaxData}

IsBytes(s, set) == \A i \in DOMAIN s : s[i] \in set

TypeOK ==
  /\ IsBytes(data, Plain) /\ Len(data) < BlockSize
  /\ closed \in BOOLEAN /\ eof \in BOOLEAN /\ known \in BOOLEAN
  /\ calling \in BOOLEAN /\ shut \in BOOLEAN /\ ended \in BOOLEAN /\ raised \in BOOLEAN
  /\ given \in 0 .. MaxData /\ flushes \in 0 .. MaxFlushes
  /\ pos \in 0 .. Len(wire)
  /\ stage \in {"header", "iv", "body"}
  /\ Len(got) < BlockSize
  /\ chars \in Requests \cup {-1}

(***************************************************************************)
(* However the plaintext is cut into calls of write(), the first flush()   *)
(* completes the message that Encrypt makes of it at once.                 *)
(***************************************************************************)
StreamsLikeEncrypt ==
  [][flushes = 0 /\ flushes' = 1 => wire' = Encrypt(W!Given)]_vars

(***************************************************************************)
(* What read() has returned is a beginning of what was written, without a  *)
(* padding or a signature byte, although it returns plaintext before it    *)
(* has seen where the message ends.                                        *)
(***************************************************************************)
ReturnsPrefix == SeqExt!IsPrefix(returned, W!Given)

(***************************************************************************)
(* read() agrees with Decrypt.  If the end of the stream is reported       *)
(* without an exception, Decrypt accepts the message and gives what read() *)
(* returned; if read() raised, Decrypt raises.  The exception are messages *)
(* too short to have a signature, whose end is reported without one.       *)
(***************************************************************************)
ReadsLikeDecrypt ==
  /\ ended /\ ~raised /\ ~IsShort(wire) /\ CipherPart(wire) # <<>> =>
       CanDecrypt(wire) /\ returned = Decrypt(wire)
  /\ raised => ~(known /\ eof /\ CanDecrypt(wire))

(***************************************************************************)
(* A message that was not cut is read to its end, and all of it, however   *)
(* slowly the bytes arrive and whatever is asked for at a time.            *)
(***************************************************************************)
WholeMessageArrives ==
  (eof /\ known /\ wire = Encrypt(W!Given)) ~>
    (shut \/ (ended /\ returned = W!Given))
===============================================================================
