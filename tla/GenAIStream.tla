---------------------------- MODULE GenAIStream ----------------------------
(***************************************************************************)
(* instrumentation/github.com/openai/openai-go: the middleware around one  *)
(* request and, when the answer is a stream of events, the reader that     *)
(* stands between the application and the body.                            *)
(*                                                                         *)
(* The network cuts the stream anywhere: a Read brings the rest of a line, *)
(* some lines and a piece of the next one.  Another goroutine may Close    *)
(* the body while a Read waits.                                            *)
(***************************************************************************)
EXTENDS Integers, Sequences, FiniteSetsExt

CONSTANTS
  Texts,        \* content of a chunk: a sequence of characters, each its width
  Indexes,      \* indexes of choices
  MaxLines,     \* bounds the lines of the stream
  MaxStreams,   \* choices captured (16)
  KeepBytes     \* bytes captured of a choice before the suffix

GenAssumption == Texts \subseteq Seq(Nat) /\ MaxStreams \in Nat /\ KeepBytes \in Nat
ASSUME GenAssumption

VARIABLES
  genStage,     \* "new", "sent", "streaming" or "over"
  genSpan,      \* the span and the metric of the request
  genSuppressed,\* the HTTP client below leaves the request alone
  pending,      \* the line begun: how much of it is in lineBuffer
  reading,      \* a Read waits for the network
  bodyOpen,     \* the body is not closed
  reader,       \* the fields of StreamingReader
  arrived       \* history: the lines the application was given, all but a newline

genVars == <<genStage, genSpan, genSuppressed, pending, reading, bodyOpen, reader, arrived>>
-----------------------------------------------------------------------------
(* Lines.  "chunk" is a data line: finish is set if a choice of it has a   *)
(* finish reason.  "other" is blank, a comment, or data that is not JSON.  *)

EventLines ==
  [kind : {"chunk"}, finish : BOOLEAN, index : Indexes, text : Texts]
    \cup [kind : {"done", "other"}, finish : {FALSE}, index : {0}, text : {<<>>}]

\* The bytes of the first characters of a text.
Widths(text) ==
  LET sum[k \in 0..Len(text)] == IF k = 0 THEN 0 ELSE sum[k - 1] + text[k]
  IN  sum

Bytes(text) == Widths(text)[Len(text)]

\* How much of the current line has come: none, a part, all but its newline.
Nothing == 0
Fragment == 1
WholeText == 2

NoLine == [line |-> [kind |-> "other", finish |-> FALSE, index |-> 0, text |-> <<>>],
           have |-> Nothing]

\* truncateToUTF8Boundary: no character is cut.
CutAt(text, room) ==
  SubSeq(text, 1, Max({k \in 0..Len(text) : Widths(text)[k] <= room}))

\* Mutant: a later chunk that fits again is appended after the suffix.
AppendResumes(acc, text) ==
  IF Bytes(acc.text) + Bytes(text) <= KeepBytes THEN [acc EXCEPT !.text = @ \o text]
  ELSE [text |-> acc.text \o CutAt(text, KeepBytes - Bytes(acc.text)), truncated |-> TRUE]

\* contentAccumulator.Append
AppendContent(acc, text) ==
  IF text = <<>> \/ acc.truncated THEN acc
  ELSE IF Bytes(acc.text) + Bytes(text) <= KeepBytes THEN [acc EXCEPT !.text = @ \o text]
  ELSE [text |-> acc.text \o CutAt(text, KeepBytes - Bytes(acc.text)), truncated |-> TRUE]

Empty == [text |-> <<>>, truncated |-> FALSE]

\* captureChunkContent
Capture(captured, line) ==
  IF line.text = <<>> THEN captured
  ELSE IF line.index \in DOMAIN captured
       THEN [captured EXCEPT ![line.index] = AppendContent(@, line.text)]
  ELSE IF Cardinality(DOMAIN captured) >= MaxStreams THEN captured
  ELSE [i \in DOMAIN captured \cup {line.index} |->
          IF i = line.index THEN AppendContent(Empty, line.text) ELSE captured[i]]

\* processChatChunk, and processCompletionChunk for its operation
ProcessLine(r, line) ==
  CASE line.kind = "done" -> [r EXCEPT !.completed = TRUE]
    [] line.kind = "chunk" ->
         [r EXCEPT !.reasons = @ \/ line.finish, !.captured = Capture(@, line)]
    [] line.kind = "other" -> r
-----------------------------------------------------------------------------
(* The request                                                             *)

GenInit ==
  /\ genStage = "new"
  /\ genSpan = [started |-> FALSE, ends |-> 0, failed |-> FALSE, hard |-> FALSE, durations |-> 0]
  /\ genSuppressed = FALSE /\ reading = FALSE /\ bodyOpen = FALSE
  /\ pending = NoLine
  /\ reader = [completed |-> FALSE, reasons |-> FALSE, captured |-> [i \in {} |-> Empty]]
  /\ arrived = <<>>

\* No body, a path that is not of an operation, a body that cannot be read or
\* names no model: the request goes on as it is.
PassThrough ==
  /\ genStage = "new" /\ genStage' = "over"
  /\ UNCHANGED <<genSpan, genSuppressed, pending, reading, bodyOpen, reader, arrived>>

SendRequest ==
  /\ genStage = "new" /\ genStage' = "sent"
  /\ genSpan' = [genSpan EXCEPT !.started = TRUE]
  /\ genSuppressed' = TRUE
  /\ UNCHANGED <<pending, reading, bodyOpen, reader, arrived>>

\* The deferred function records the duration unless the answer is a stream.
\* An error of the transport and a status of 400 or more fail the span; a body
\* that cannot be read does not.
Answered(failed) ==
  /\ genStage = "sent" /\ genStage' = "over"
  /\ genSpan' = [genSpan EXCEPT !.ends = @ + 1, !.durations = @ + 1, !.failed = failed]
  /\ UNCHANGED <<genSuppressed, pending, reading, bodyOpen, reader, arrived>>

RequestFails == Answered(TRUE)
WholeAnswer == Answered(FALSE)

StreamBegins ==
  /\ genStage = "sent" /\ genStage' = "streaming"
  /\ bodyOpen' = TRUE
  /\ UNCHANGED <<genSpan, genSuppressed, pending, reading, reader, arrived>>
-----------------------------------------------------------------------------
(* The stream                                                              *)

\* Mutant: Close flushes nothing.
LeaveBuffer(r, p) == r

\* flushRemaining: what is left is parsed as a line; a fragment is not JSON.
FlushRemaining(r, p) == IF p.have = WholeText THEN ProcessLine(r, p.line) ELSE r

\* finalize.  The content recorded is what was captured until then.
Finalized(r, hard) ==
  [genSpan EXCEPT !.ends = @ + 1, !.durations = @ + 1, !.hard = hard,
                  !.failed = hard \/ ~(r.completed \/ r.reasons)]

\* Mutant: whoever sees the end of the stream ends the span.
EverybodyEnds == TRUE

\* done.CompareAndSwap(false, true)
FirstToEnd == genSpan.ends = 0

ReadBody ==
  /\ genStage = "streaming" /\ ~reading
  /\ reading' = TRUE
  /\ UNCHANGED <<genStage, genSpan, genSuppressed, pending, bodyOpen, reader, arrived>>

\* What a Read can bring: the rest of the line begun, and the start of another
\* one.  (Several lines are several Reads.)
Firsts == IF pending.have = Nothing THEN EventLines ELSE {pending.line}
Begun(lines, least) == [line : lines, have : least..WholeText]

Brought ==
  {[whole |-> <<>>, rest |-> r] : r \in {pending} \cup Begun(Firsts, pending.have + 1)}
    \cup {[whole |-> <<l>>, rest |-> r] :
             l \in Firsts, r \in {NoLine} \cup Begun(EventLines, Fragment)}

\* parseSSELines, for the line that the Read has completed, if it has.
ProcessLines(r, whole) == IF whole = <<>> THEN r ELSE ProcessLine(r, whole[1])

\* Read parses the lines that are complete before it looks at the error.  After
\* an error that is not the end, the rest is not parsed.  A Read parses in one step:
\* Close does not fall between its parsing and its attempt on done.
ReadReturns ==
  /\ reading /\ bodyOpen /\ genSpan.ends = 0
  /\ \E new \in Brought, err \in {"none", "eof", "hard"} :
       LET read == ProcessLines(reader, new.whole)
           final == IF err = "eof" THEN FlushRemaining(read, new.rest) ELSE read
           last == IF new.rest.have = WholeText THEN <<new.rest.line>> ELSE <<>>
       IN /\ Len(arrived \o new.whole) < MaxLines
          /\ IF err = "none"
             THEN /\ reader' = read /\ pending' = new.rest /\ arrived' = arrived \o new.whole
                  /\ UNCHANGED genSpan
             ELSE /\ reader' = final /\ pending' = NoLine /\ arrived' = arrived \o new.whole \o last
                  /\ genSpan' = Finalized(final, err = "hard")
  /\ reading' = FALSE
  /\ UNCHANGED <<genStage, genSuppressed, bodyOpen>>

\* After Close, or after an error, a Read brings an error.
NothingReturns ==
  /\ reading /\ (~bodyOpen \/ genSpan.ends > 0)
  /\ reading' = FALSE
  /\ IF FirstToEnd THEN genSpan' = Finalized(reader, TRUE) ELSE UNCHANGED genSpan
  /\ UNCHANGED <<genStage, genSuppressed, pending, bodyOpen, reader, arrived>>

\* Close, by the reader or by another goroutine.
CloseBody ==
  /\ genStage = "streaming" /\ bodyOpen
  /\ bodyOpen' = FALSE
  /\ IF FirstToEnd
     THEN LET final == FlushRemaining(reader, pending)
          IN /\ reader' = final /\ pending' = NoLine
             /\ genSpan' = Finalized(final, ~(final.completed \/ final.reasons))
             /\ arrived' = IF pending.have = WholeText THEN Append(arrived, pending.line) ELSE arrived
     ELSE UNCHANGED <<reader, pending, genSpan, arrived>>
  /\ UNCHANGED <<genStage, genSuppressed, reading>>

GenNext ==
  \/ PassThrough \/ SendRequest \/ RequestFails \/ WholeAnswer \/ StreamBegins
  \/ ReadBody \/ ReadReturns \/ NothingReturns \/ CloseBody

GenSpec == GenInit /\ [][GenNext]_genVars
-----------------------------------------------------------------------------
(* Properties                                                              *)

\* Whichever of Read, a concurrent Close and the middleware ends a request, its
\* span is ended and its duration recorded once, together, and no request whose
\* body is closed is left without.
EndedOnce ==
  /\ genSpan.ends <= 1 /\ genSpan.durations = genSpan.ends
  /\ genStage = "over" \/ (genStage = "streaming" /\ ~bodyOpen) =>
       (genSpan.ends = 1) = genSpan.started

\* However the network cuts the stream, a span says that its stream failed iff
\* the reader met a hard error or none of the complete lines the application
\* was given is the [DONE] marker or has a finish reason.
StatusTellsOutcome ==
  genStage = "streaming" /\ genSpan.ends = 1 =>
    genSpan.failed = (\/ genSpan.hard
                      \/ \A i \in 1..Len(arrived) : arrived[i].kind # "done" /\ ~arrived[i].finish)

\* All the text of a choice, from the first lines.
SaidBy(i, lines) ==
  LET said[k \in 0..Len(lines)] ==
        IF k = 0 THEN <<>>
        ELSE IF lines[k].kind = "chunk" /\ lines[k].index = i THEN said[k - 1] \o lines[k].text
        ELSE said[k - 1]
  IN  said

Said(i, lines) == SaidBy(i, lines)[Len(lines)]

\* What is kept of a choice is what would be kept of its whole text in one
\* chunk, at most KeepBytes of it, and of no more than MaxStreams choices.
CaptureIgnoresChunks ==
  /\ Cardinality(DOMAIN reader.captured) <= MaxStreams
  /\ ~genSpan.hard =>
       \A i \in DOMAIN reader.captured : reader.captured[i].text = CutAt(Said(i, arrived), KeepBytes)
=============================================================================
