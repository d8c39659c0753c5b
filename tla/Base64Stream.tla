----------------------------- MODULE Base64Stream -----------------------------
(***************************************************************************)
(* IncrementalBase64WSStreamWriter and IncrementalBase64WSStreamReader of  *)
(* util.py at the two ends of a file or pipe that gives its characters in  *)
(* pieces of any size.  Encoder and decoder keep back what is not a whole  *)
(* group.  A call of read() is a loop of reads of the underlying stream.   *)
(***************************************************************************)
EXTENDS Base64WS

CONSTANTS
  MaxBytes,   \* bound: bytes given to write()
  Requests    \* arguments of read(): records of size and chars

ASSUME Base64StreamAssumption ==
  MaxBytes \in Nat /\ Requests \subseteq [size : Int, chars : Int]

VARIABLES
  given,       \* history: how many bytes the application has written
  buffer,      \* the encoder's buffer
  text,        \* the characters written to the underlying stream
  eof,         \* it is flushed and complete
  pos,         \* how many characters the reader has taken
  undecoded,   \* the decoder's buffer
  charbuffer,  \* decoded bytes that no read() has returned yet
  calling,     \* read() is under way
  request,     \* its arguments
  result,      \* what the last read() returned
  returned,    \* history: all that read() has returned
  ended,       \* history: read() has returned the empty string
  raised       \* history: read() has raised Base64DecodingError

vars == <<given, buffer, text, eof, pos, undecoded, charbuffer, calling, request,
          result, returned, ended, raised>>

writerVars == <<given, buffer, text, eof>>

Given(n) == [i \in 1 .. n |-> i]

Init ==
  /\ given = 0 /\ buffer = <<>> /\ text = <<>> /\ eof = FALSE
  /\ pos = 0 /\ undecoded = <<>> /\ charbuffer = <<>>
  /\ calling = FALSE
  /\ request = [size |-> -1, chars |-> -1]
  /\ result = <<>> /\ returned = <<>> /\ ended = FALSE /\ raised = FALSE
-------------------------------------------------------------------------------
(***************************************************************************)
(* The writer.  _buffer_encode takes whole groups only.                    *)
(***************************************************************************)
AllBytes(n) == n                                                 \* mutant
OneGroup(n) == IF n >= 3 THEN 3 ELSE 0                           \* mutant

WholeGroups(n) == 3 * (n \div 3)

Write(n) ==
  LET input == buffer \o SubSeq(Given(given + n), given + 1, given + n)
      now == WholeGroups(Len(input))
  IN
  /\ ~eof /\ given + n <= MaxBytes
  /\ given' = given + n
  /\ text' = text \o Base64WSEncode(SubSeq(input, 1, now))
  /\ buffer' = SubSeq(input, now + 1, Len(input))
  /\ UNCHANGED <<eof, pos, undecoded, charbuffer, calling, request, result,
                 returned, ended, raised>>

\* The last flush: the rest is encoded, and the stream is complete.
Flush ==
  /\ ~eof
  /\ text' = text \o Base64WSEncode(buffer)
  /\ buffer' = <<>>
  /\ eof' = TRUE
  /\ UNCHANGED <<given, pos, undecoded, charbuffer, calling, request, result,
                 returned, ended, raised>>
-------------------------------------------------------------------------------
(***************************************************************************)
(* The reader.  _buffer_decode takes whole groups only.                    *)
(***************************************************************************)
AllChars(n) == n                                                 \* mutant

WholeChars(n) == 4 * (n \div 4)

\* Mutant: one byte more is waited for.
SatisfiedByMore(req, bytes) ==
  IF req.chars >= 0 THEN Len(bytes) > req.chars
  ELSE IF req.size >= 0 THEN Len(bytes) > req.size
  ELSE bytes # <<>>

Satisfied(req, bytes) ==
  IF req.chars >= 0 THEN Len(bytes) >= req.chars
  ELSE IF req.size >= 0 THEN Len(bytes) >= req.size
  ELSE bytes # <<>>

\* What is in the buffer, or no more than chars of it.
Share(req, bytes) ==
  IF req.chars >= 0 /\ req.chars < Len(bytes) THEN SubSeq(bytes, 1, req.chars) ELSE bytes

ReturnsResult(r, done) ==
  /\ calling' = FALSE
  /\ result' = r
  /\ returned' = returned \o r
  /\ ended' = (ended \/ (done /\ r = <<>>))
  /\ UNCHANGED raised

\* Mutant: the decoder is not flushed at the end of the stream.
FinishWithoutFlush(req, bytes, rest, empty) ==
  LET share == Share(req, bytes) IN
  /\ charbuffer' = SubSeq(bytes, Len(share) + 1, Len(bytes))
  /\ undecoded' = rest
  /\ ReturnsResult(share, empty)

(***************************************************************************)
(* The end of read() after its loop: if there is nothing to return and the *)
(* last newdata was empty, the decoder is flushed.                         *)
(***************************************************************************)
Finish(req, bytes, rest, empty) ==
  LET share == Share(req, bytes) IN
  /\ charbuffer' = SubSeq(bytes, Len(share) + 1, Len(bytes))
  /\ IF share = <<>> /\ empty /\ req.chars # 0
       THEN IF CanDecode(rest)
              THEN undecoded' = <<>> /\ ReturnsResult(Base64WSDecode(rest), TRUE)
              ELSE /\ calling' = FALSE /\ raised' = TRUE
                   /\ UNCHANGED <<undecoded, result, returned, ended>>
       ELSE undecoded' = rest /\ ReturnsResult(share, empty)

\* newdata is empty before the first read of the underlying stream.
Read(req) ==
  /\ ~calling
  /\ request' = req
  /\ IF Satisfied(req, charbuffer)
       THEN Finish(req, charbuffer, undecoded, TRUE)
       ELSE /\ calling' = TRUE
            /\ UNCHANGED <<undecoded, charbuffer, result, returned, ended, raised>>
  /\ UNCHANGED <<writerVars, pos>>

SourceGives(n) ==
  LET input == undecoded \o SubSeq(text, pos + 1, pos + n)
      now == WholeChars(Len(input))
      bytes == charbuffer \o Base64WSDecode(SubSeq(input, 1, now))
      rest == SubSeq(input, now + 1, Len(input))
  IN
  /\ calling
  /\ pos + n <= Len(text) /\ (request.size >= 0 => n <= request.size)
  /\ pos' = pos + n
  /\ IF Satisfied(request, bytes)
       THEN Finish(request, bytes, rest, FALSE)
       ELSE /\ charbuffer' = bytes /\ undecoded' = rest
            /\ UNCHANGED <<calling, result, returned, ended, raised>>
  /\ UNCHANGED <<writerVars, request>>

\* None, or a BlockingIOError: the loop goes on.
SourceIsEmpty ==
  /\ calling
  /\ pos = Len(text) /\ ~eof
  /\ UNCHANGED vars

SourceEnds ==
  /\ calling
  /\ pos = Len(text) /\ eof
  /\ Finish(request, charbuffer, undecoded, TRUE)
  /\ UNCHANGED <<writerVars, pos, request>>

Step == (\E n \in 1 .. 2 * MaxBytes : SourceGives(n)) \/ SourceIsEmpty \/ SourceEnds

Next ==
  \/ \E n \in 1 .. MaxBytes : Write(n)
  \/ Flush
  \/ \E req \in Requests : Read(req)
  \/ Step

Spec == Init /\ [][Next]_vars

(***************************************************************************)
(* The reading application calls read() until the end, and the underlying  *)
(* stream delivers.  The writing one may stop before its flush.            *)
(***************************************************************************)
FairSpec ==
  /\ Spec
  /\ WF_vars(Step)
  /\ WF_vars(~ended /\ \E req \in Requests : Read(req))
-------------------------------------------------------------------------------
TypeOK ==
  /\ given \in 0 .. MaxBytes /\ pos \in 0 .. Len(text)
  /\ Len(buffer) < 3 /\ Len(undecoded) < 4
  /\ calling \in BOOLEAN /\ eof \in BOOLEAN /\ ended \in BOOLEAN /\ raised \in BOOLEAN

(***************************************************************************)
(* However the bytes are cut into calls of write(), the text is the one    *)
(* that Base64WSEncode makes of them at once.                              *)
(***************************************************************************)
TextIsEncoding == eof => text = Base64WSEncode(Given(given))

(***************************************************************************)
(* util.py:703, "Any undecoded data outside this optimal size will be      *)
(* buffered and decoded on a final call to read()": what the reader        *)
(* returns is always a beginning of what was written, never garbage from a *)
(* group it has seen a part of, and no read() raises.                      *)
(***************************************************************************)
DecodesPrefix ==
  /\ ~raised
  /\ Len(returned) <= given /\ returned = Given(Len(returned))

(***************************************************************************)
(* A read(size) returns at most twice size bytes, though more than size:   *)
(* what the decrypting stream above it has to expect when it asks for the  *)
(* rest of a header or for a block.                                        *)
(***************************************************************************)
SurplusIsBounded ==
  ~calling /\ request.chars < 0 /\ request.size > 1 => Len(result) <= 2 * request.size

(***************************************************************************)
(* A stream that was flushed is decoded to its end, and the reader reports *)
(* the end only when it has returned all.                                  *)
(***************************************************************************)
AllIsDecoded == eof ~> (ended /\ Len(returned) = given)
===============================================================================
