---------------------------- MODULE HooksProofs ----------------------------
(***************************************************************************)
(* Proofs about the hooks that a build weaves into the application, for    *)
(* every value of their constants: KafkaWriter, HttpHooks, SqlHooks,       *)
(* DsnParse, GenAIStream and ClientHooks.                                  *)
(***************************************************************************)
EXTENDS KafkaWriter, HttpHooks, SqlHooks, DsnParse, GenAIStream, ClientHooks, FiniteSetTheorems,
        SequenceTheorems, TLAPS

-----------------------------------------------------------------------------
(* KafkaWriter.  That failures are logged once needs to know that the      *)
(* wrapper is on Completion exactly once before a batch of a call with     *)
(* spans can be in flight, hence which goroutine runs the function of the  *)
(* sync.Once.  The switch may answer anything in every call.               *)

CallRecord ==
  [step : {"idle", "once", "install", "write", "returned"}, spans : BOOLEAN, messages : Int,
   original : Nat, failed : SUBSET Int, marked : SUBSET Int]

Told == [calls : Nat, completed : Nat, failed : Nat, logged : Nat, bareFailed : Nat,
         bareLogged : Nat, user : Nat]

KafkaTypeInv ==
  /\ writer \in [async : BOOLEAN, user : BOOLEAN, layers : Nat]
  /\ once \in {"new", "running", "done"}
  /\ DOMAIN writing = Goroutines
  /\ \A g \in Goroutines :
       writing[g] \in CallRecord
  /\ inFlight \in Nat
  /\ bare \in Nat
  /\ told \in Told

\* The writer is wrapped once: while the function of the sync.Once runs, in one
\* goroutine, which has read an unwrapped Completion, no call with spans has come past it.
OnceInv ==
  /\ once = "done" => writer.layers = 1
  /\ once # "done" => writer.layers = 0
  /\ \A g \in Goroutines :
       /\ writing[g].step = "install" =>
            /\ once = "running" /\ writing[g].original = 0
            /\ \A h \in Goroutines : writing[h].step = "install" => h = g
       /\ writer.async /\ writing[g].spans /\ writing[g].step \in {"write", "returned"} =>
            once = "done"
  /\ inFlight > 0 => once = "done"

KafkaInv == KafkaTypeInv /\ OnceInv /\ WritesTellTheirOutcome

LEMMA KafkaStarts == KafkaInit => KafkaInv
  BY SMTT(20) DEF KafkaInit, KafkaInv, KafkaTypeInv, OnceInv, WritesTellTheirOutcome, NotWriting,
         CallRecord, Told

\* A call marks what it says has failed.
LEMMA MarksFailed ==
  ASSUME NEW n \in Int, NEW kind \in {"nil", "error", "WriteErrors"},
         NEW failed \in FailedSets(kind, n)
  PROVE  {i \in 1..n : Marks(kind, failed, i)} = failed /\ failed \in SUBSET Int
  <1>1. CASE kind = "nil"
    BY <1>1 DEF FailedSets, Marks
  <1>2. CASE kind = "error"
    BY <1>2 DEF FailedSets, Marks
  <1>3. CASE kind = "WriteErrors"
    BY <1>3 DEF FailedSets, Marks
  <1> QED BY <1>1, <1>2, <1>3

\* The state of one goroutine changes.
LEMMA OneWrites ==
  ASSUME KafkaTypeInv, NEW g \in Goroutines, NEW call \in CallRecord,
         DOMAIN writing' = Goroutines,
         \A h \in Goroutines : writing'[h] = IF h = g THEN call ELSE writing[h]
  PROVE  \A h \in Goroutines : writing'[h] \in CallRecord
  BY DEF KafkaTypeInv

LEMMA KafkaTypes == KafkaTypeInv /\ [KafkaNext]_kafkaVars => KafkaTypeInv'
  <1> SUFFICES ASSUME KafkaTypeInv, [KafkaNext]_kafkaVars PROVE KafkaTypeInv'
    OBVIOUS
  <1>a. \A g \in Goroutines : writing[g] \in CallRecord
    BY DEF KafkaTypeInv
  <1>1. ASSUME NEW g \in Goroutines, NEW n \in 0..MaxMessages, NEW on \in BOOLEAN,
               BeforeWriteMessages(g, n, on)
        PROVE  KafkaTypeInv'
    <2> DEFINE spans == on /\ n > 0
               call == [NotWriting EXCEPT
                          !.step = IF writer.async /\ spans THEN "once" ELSE "write",
                          !.spans = spans, !.messages = n]
    <2>1. NotWriting \in CallRecord /\ n \in Int /\ spans \in BOOLEAN
      BY DEF NotWriting, CallRecord
    <2>2. call \in CallRecord
      BY <2>1, Zenon DEF CallRecord
    <2>3. \A h \in Goroutines : writing'[h] \in CallRecord
      BY <1>1, <2>2, OneWrites DEF BeforeWriteMessages, KafkaTypeInv
    <2>4. told' \in Told
      BY <1>1 DEF BeforeWriteMessages, KafkaTypeInv, Told
    <2> QED BY <1>1, <2>3, <2>4 DEF BeforeWriteMessages, KafkaTypeInv
  <1>2. ASSUME NEW g \in Goroutines, AwaitOnce(g) PROVE KafkaTypeInv'
    <2>1. [writing[g] EXCEPT !.step = "write"] \in CallRecord
      BY <1>a DEF CallRecord
    <2>2. \A h \in Goroutines : writing'[h] \in CallRecord
      BY <1>2, <1>a, <2>1, OneWrites DEF AwaitOnce, KafkaTypeInv
    <2> QED BY <1>2, <2>2 DEF AwaitOnce, KafkaTypeInv
  <1>3. ASSUME NEW g \in Goroutines, ReadCompletion(g) PROVE KafkaTypeInv'
    <2> DEFINE call == [writing[g] EXCEPT !.step = "install", !.original = writer.layers]
    <2>1. call \in CallRecord
      BY <1>a DEF CallRecord, KafkaTypeInv
    <2>2. \A h \in Goroutines : writing'[h] \in CallRecord
      BY <1>3, <1>a, <2>1, OneWrites DEF ReadCompletion, KafkaTypeInv
    <2> QED BY <1>3, <2>2 DEF ReadCompletion, KafkaTypeInv
  <1>4. ASSUME NEW g \in Goroutines, InstallWrapper(g) PROVE KafkaTypeInv'
    <2>1. [writing[g] EXCEPT !.step = "write"] \in CallRecord
      BY <1>a DEF CallRecord
    <2>2. \A h \in Goroutines : writing'[h] \in CallRecord
      BY <1>4, <1>a, <2>1, OneWrites DEF InstallWrapper, KafkaTypeInv
    <2>3. writing[g].original \in Nat
      BY <1>a DEF CallRecord
    <2> QED BY <1>4, <2>2, <2>3 DEF InstallWrapper, KafkaTypeInv
  <1>5. ASSUME NEW g \in Goroutines, NEW kind \in {"nil", "error", "WriteErrors"}, NEW failed,
               WriteMessages(g, kind, failed)
        PROVE  KafkaTypeInv'
    <2> DEFINE marked == {i \in 1..writing[g].messages :
                            writing[g].spans /\ Marks(kind, failed, i)}
               call == [writing[g] EXCEPT !.step = "returned", !.failed = failed,
                                          !.marked = marked]
    <2>1. failed \in SUBSET Int /\ marked \in SUBSET Int
      BY <1>5, <1>a, MarksFailed DEF WriteMessages, CallRecord
    <2>2. call \in CallRecord
      BY <1>a, <2>1, Zenon DEF CallRecord
    <2>3. \A h \in Goroutines : writing'[h] \in CallRecord
      BY <1>5, <1>a, <2>2, OneWrites DEF WriteMessages, KafkaTypeInv
    <2>4. inFlight' \in Nat /\ bare' \in Nat
      BY <1>5 DEF WriteMessages, KafkaTypeInv
    <2>5. DOMAIN writing' = Goroutines /\ UNCHANGED <<writer, once, told>>
      BY <1>5 DEF WriteMessages, KafkaTypeInv
    <2> QED BY <2>3, <2>4, <2>5 DEF KafkaTypeInv
  <1>6. ASSUME NEW failed \in BOOLEAN, Completion(failed) PROVE KafkaTypeInv'
    <2> DEFINE a == told.completed + 1
               b == told.failed + (IF failed THEN 1 ELSE 0)
               c == told.logged + (IF failed THEN writer.layers ELSE 0)
               d == told.user + (IF writer.user THEN 1 ELSE 0)
    <2>1. a \in Nat /\ b \in Nat /\ c \in Nat /\ d \in Nat
      BY DEF KafkaTypeInv, Told
    <2>2. told' = [told EXCEPT !.completed = a, !.failed = b, !.logged = c, !.user = d]
      BY <1>6 DEF Completion
    <2> HIDE DEF a, b, c, d
    <2>3. told' \in Told
      BY <2>1, <2>2, Zenon DEF KafkaTypeInv, Told
    <2> QED BY <1>6, <2>3 DEF Completion, KafkaTypeInv
  <1>7. ASSUME NEW failed \in BOOLEAN, BareCompletion(failed) PROVE KafkaTypeInv'
    <2> DEFINE a == told.completed + 1
               b == told.bareFailed + (IF failed THEN 1 ELSE 0)
               c == told.bareLogged + (IF failed THEN writer.layers ELSE 0)
               d == told.user + (IF writer.user THEN 1 ELSE 0)
    <2>1. a \in Nat /\ b \in Nat /\ c \in Nat /\ d \in Nat
      BY DEF KafkaTypeInv, Told
    <2>2. told' = [told EXCEPT !.completed = a, !.bareFailed = b, !.bareLogged = c, !.user = d]
      BY <1>7 DEF BareCompletion
    <2> HIDE DEF a, b, c, d
    <2>3. told' \in Told
      BY <2>1, <2>2, Zenon DEF KafkaTypeInv, Told
    <2> QED BY <1>7, <2>3 DEF BareCompletion, KafkaTypeInv
  <1>8. CASE UNCHANGED kafkaVars
    BY <1>8 DEF kafkaVars, KafkaTypeInv
  <1> QED BY <1>1, <1>2, <1>3, <1>4, <1>5, <1>6, <1>7, <1>8 DEF KafkaNext

LEMMA KafkaSteps == KafkaInv /\ [KafkaNext]_kafkaVars => KafkaInv'
  <1> SUFFICES ASSUME KafkaInv, [KafkaNext]_kafkaVars PROVE OnceInv' /\ WritesTellTheirOutcome'
    BY KafkaTypes DEF KafkaInv
  <1> USE DEF KafkaInv, KafkaTypeInv, CallRecord, Told, OnceInv, WritesTellTheirOutcome
  <1>1. ASSUME NEW g \in Goroutines, NEW n \in 0..MaxMessages, NEW on \in BOOLEAN,
               BeforeWriteMessages(g, n, on)
        PROVE  OnceInv' /\ WritesTellTheirOutcome'
    <2>1. /\ writing'[g].step \in {"once", "write"}
          /\ writing'[g].step = "once" \/ ~(writer.async /\ writing'[g].spans)
          /\ writing'[g].marked = writing'[g].failed
      BY <1>1 DEF BeforeWriteMessages, NotWriting
    <2>2. \A h \in Goroutines : h # g => writing'[h] = writing[h]
      BY <1>1 DEF BeforeWriteMessages
    <2>3. /\ UNCHANGED <<writer, once, inFlight, bare>>
          /\ told'.logged = told.logged /\ told'.failed = told.failed
          /\ told'.bareLogged = told.bareLogged /\ told'.bareFailed = told.bareFailed
          /\ told'.user = told.user /\ told'.completed = told.completed
      BY <1>1 DEF BeforeWriteMessages
    <2>4. OnceInv'
      BY <2>1, <2>2, <2>3
    <2>5. WritesTellTheirOutcome'
      BY <2>1, <2>2, <2>3
    <2> QED BY <2>4, <2>5
  <1>2. ASSUME NEW g \in Goroutines, AwaitOnce(g)
        PROVE  OnceInv' /\ WritesTellTheirOutcome'
    BY <1>2 DEF AwaitOnce
  <1>3. ASSUME NEW g \in Goroutines, ReadCompletion(g)
        PROVE  OnceInv' /\ WritesTellTheirOutcome'
    BY <1>3 DEF ReadCompletion
  <1>4. ASSUME NEW g \in Goroutines, InstallWrapper(g)
        PROVE  OnceInv' /\ WritesTellTheirOutcome'
    BY <1>4 DEF InstallWrapper
  <1>5. ASSUME NEW g \in Goroutines, NEW kind \in {"nil", "error", "WriteErrors"}, NEW failed,
               WriteMessages(g, kind, failed)
        PROVE  OnceInv' /\ WritesTellTheirOutcome'
    <2>1. writing[g].spans =>
            {i \in 1..writing[g].messages : writing[g].spans /\ Marks(kind, failed, i)} = failed
      BY <1>5, MarksFailed DEF WriteMessages
    <2>2. OnceInv'
      BY <1>5 DEF WriteMessages
    <2>3. /\ writing'[g].step = "returned" /\ writing'[g].spans = writing[g].spans
          /\ writing'[g].spans => writing'[g].marked = writing'[g].failed
      BY <1>5, <2>1 DEF WriteMessages
    <2>4. \A h \in Goroutines : h # g => writing'[h] = writing[h]
      BY <1>5 DEF WriteMessages
    <2>5. UNCHANGED <<writer, once, told>>
      BY <1>5 DEF WriteMessages
    <2>6. inFlight' > 0 => inFlight > 0 \/ (writer.async /\ writing[g].spans)
      BY <1>5 DEF WriteMessages
    <2>7. inFlight' > 0 => once = "done"
      BY <1>5, <2>6 DEF WriteMessages
    <2>8. WritesTellTheirOutcome'
      BY <2>3, <2>4, <2>5, <2>7
    <2> QED BY <2>2, <2>8
  <1>6. ASSUME NEW failed \in BOOLEAN, Completion(failed)
        PROVE  OnceInv' /\ WritesTellTheirOutcome'
    BY <1>6 DEF Completion
  <1>7. ASSUME NEW failed \in BOOLEAN, BareCompletion(failed)
        PROVE  OnceInv' /\ WritesTellTheirOutcome'
    BY <1>7 DEF BareCompletion
  <1>8. CASE UNCHANGED kafkaVars
    BY <1>8 DEF kafkaVars
  <1> QED BY <1>1, <1>2, <1>3, <1>4, <1>5, <1>6, <1>7, <1>8 DEF KafkaNext

\* For any number of goroutines, messages and batches, and whatever the switch
\* answers in each call, the writer's Completion is wrapped once before a batch of a
\* call with spans is in flight, by the one goroutine that once.Do lets run: KafkaInv
\* is inductive.
THEOREM KafkaInvariant == KafkaSpec => []KafkaInv
  BY KafkaStarts, KafkaSteps, PTL DEF KafkaSpec

\* The spans of a call tell which of its messages failed, and every failed batch of a
\* call with spans is logged once, whichever goroutine wrapped Completion and however
\* the switch changes between calls (producer_hook.go).
THEOREM WritesTellTheirOutcomeHolds == KafkaSpec => []WritesTellTheirOutcome
  <1>1. KafkaInv => WritesTellTheirOutcome
    BY DEF KafkaInv
  <1> QED BY <1>1, KafkaInvariant, PTL

-----------------------------------------------------------------------------
(* HttpHooks.  A span belongs to one RoundTrip or one handler, and as long *)
(* as neither Flush nor Hijack has gone past the wrapper, what it knows of *)
(* the response is what the client has been sent.                          *)

TripRecord ==
  [stage : {"idle", "sending", "serving", "returned"}, kind : Kinds, span : Nat,
   header : {"own", "shared"}, traceparent : Nat, serving : Nat,
   wrapper : [statusCode : Int, wroteHeader : BOOLEAN], sent : Int, early : BOOLEAN, code : Int]

SpanRecord ==
  [kind : {"client", "server"}, parent : Nat, code : Int, failed : BOOLEAN, open : BOOLEAN]

HttpTypeInv ==
  /\ DOMAIN trips = Clients
  /\ \A c \in Clients : trips[c] \in TripRecord
  /\ httpSpans \in Seq(SpanRecord)

\* Where a RoundTrip is decides which spans it has, and its headers carry the
\* client span.
SpansInv(t) ==
  /\ t.span \in 0..Len(httpSpans) /\ t.serving \in 0..Len(httpSpans)
  /\ t.stage = "idle" => t.span = 0
  /\ t.stage \in {"idle", "sending"} => t.serving = 0
  /\ t.stage = "serving" => t.serving # 0
  /\ t.stage # "idle" => (t.span # 0) = (t.kind = "application")
  /\ t.traceparent = t.span
  /\ t.span # 0 => t.header = "own"
  /\ t.serving # 0 => t.span # t.serving /\ httpSpans[t.serving].parent = t.span

\* What the wrapper knows of the response.
WrapperInv(t) ==
  /\ t.stage = "sending" => ~t.early /\ ~t.wrapper.wroteHeader
  /\ t.stage \in {"sending", "serving"} /\ ~t.early =>
       \/ ~t.wrapper.wroteHeader /\ t.sent = -1 /\ t.wrapper.statusCode = 200
       \/ t.wrapper.wroteHeader /\ t.sent = t.wrapper.statusCode /\ t.sent # -1
  /\ t.stage = "returned" /\ t.serving # 0 /\ ~t.early /\ t.sent # -1 =>
       httpSpans[t.serving].code = t.sent

\* No span is that of two RoundTrips.
OwnSpans ==
  \A c, d \in Clients : c # d =>
    /\ trips[c].span # 0 => trips[c].span # trips[d].span /\ trips[c].span # trips[d].serving
    /\ trips[c].serving # 0 => trips[c].serving # trips[d].serving

\* A span is open exactly while its RoundTrip or its handler is in progress.
OpenInv ==
  \A i \in 1..Len(httpSpans) :
    httpSpans[i].open <=>
      \E c \in Clients : \/ trips[c].span = i
                         \/ trips[c].serving = i /\ trips[c].stage = "serving"

HttpInv ==
  /\ HttpTypeInv
  /\ sharedHeader = 0
  /\ \A c \in Clients : SpansInv(trips[c]) /\ WrapperInv(trips[c])
  /\ OwnSpans
  /\ OpenInv

LEMMA HttpStarts == HttpInit => HttpInv
  <1> SUFFICES ASSUME HttpInit PROVE HttpInv
    OBVIOUS
  <1>1. NoTrip \in TripRecord
    BY DEF NoTrip, TripRecord, Kinds
  <1>2. HttpTypeInv
    BY <1>1 DEF HttpInit, HttpTypeInv
  <1> QED BY <1>2 DEF HttpInit, HttpInv, SpansInv, WrapperInv, OwnSpans, OpenInv, NoTrip

\* WriteHeader changes nothing but what was sent and what the wrapper knows.
LEMMA WriteHeaderKeeps ==
  ASSUME NEW t \in TripRecord, NEW code \in Int
  PROVE  LET u == WriteHeader(t, code)
         IN /\ u \in TripRecord
            /\ u.stage = t.stage /\ u.kind = t.kind /\ u.span = t.span /\ u.header = t.header
            /\ u.traceparent = t.traceparent /\ u.serving = t.serving /\ u.early = t.early
  <1> DEFINE s == Sent(t.sent, code)
             w == [statusCode |-> code, wroteHeader |-> TRUE]
  <1>1. s \in Int /\ w \in [statusCode : Int, wroteHeader : BOOLEAN]
    BY DEF Sent, TripRecord
  <1>2. WriteHeader(t, code) \in {t, [t EXCEPT !.sent = s], [t EXCEPT !.sent = s, !.wrapper = w]}
    BY DEF WriteHeader, TripRecord
  <1> HIDE DEF s, w
  <1>3. [t EXCEPT !.sent = s] \in TripRecord /\ [t EXCEPT !.sent = s, !.wrapper = w] \in TripRecord
    BY <1>1, Zenon DEF TripRecord
  <1> QED BY <1>2, <1>3 DEF TripRecord

\* The wrapper goes on knowing what was sent.
LEMMA WriteHeaderKnows ==
  ASSUME NEW t \in TripRecord, WrapperInv(t), t.stage = "serving", NEW code \in 100..999
  PROVE  WrapperInv(WriteHeader(t, code))
  BY DEF WriteHeader, TripRecord, WrapperInv, Sent, Informational

\* A step of the handler that only touches the response.
LEMMA RespondingKeeps ==
  ASSUME HttpInv, NEW c \in Clients, trips[c].stage = "serving", NEW t \in TripRecord,
         WrapperInv(t), trips' = [trips EXCEPT ![c] = t], UNCHANGED <<sharedHeader, httpSpans>>,
         t.stage = trips[c].stage, t.kind = trips[c].kind, t.span = trips[c].span,
         t.header = trips[c].header, t.traceparent = trips[c].traceparent,
         t.serving = trips[c].serving
  PROVE  HttpInv'
  <1>1. HttpTypeInv' /\ trips'[c] = t /\ \A d \in Clients : d # c => trips'[d] = trips[d]
    BY DEF HttpInv, HttpTypeInv
  <1>2. \A d \in Clients : SpansInv(trips[d])' /\ WrapperInv(trips[d])'
    BY <1>1 DEF HttpInv, SpansInv, WrapperInv
  <1>3. OwnSpans' /\ OpenInv'
    BY <1>1 DEF HttpInv, OwnSpans, OpenInv
  <1> QED BY <1>1, <1>2, <1>3 DEF HttpInv

\* The spans of a RoundTrip that moves change, or it adds one: the others keep theirs.
LEMMA OthersKeepTheirSpans ==
  ASSUME HttpInv, NEW c \in Clients, HttpTypeInv',
         \A d \in Clients : d # c => trips'[d] = trips[d],
         Len(httpSpans') >= Len(httpSpans),
         \A i \in 1..Len(httpSpans) :
           i # trips[c].span /\ i # trips[c].serving => httpSpans'[i] = httpSpans[i],
         \A i \in 1..Len(httpSpans') :
           i = trips[c].span \/ i = trips[c].serving \/ i > Len(httpSpans) =>
             (httpSpans'[i].open <=> \/ trips'[c].span = i
                                     \/ trips'[c].serving = i /\ trips'[c].stage = "serving"),
         \A i \in 1..Len(httpSpans') :
           i = trips'[c].span \/ i = trips'[c].serving =>
             i = trips[c].span \/ i = trips[c].serving \/ i > Len(httpSpans)
  PROVE  /\ \A d \in Clients : d # c => SpansInv(trips[d])' /\ WrapperInv(trips[d])'
         /\ OpenInv'
  <1>0. Len(httpSpans) \in Nat /\ Len(httpSpans') \in Nat
    BY DEF HttpInv, HttpTypeInv
  <1>1. ASSUME NEW d \in Clients, d # c PROVE SpansInv(trips[d])' /\ WrapperInv(trips[d])'
    <2>1. /\ trips'[d] = trips[d] /\ SpansInv(trips[d]) /\ WrapperInv(trips[d])
          /\ trips[d].serving # 0 => trips[d].serving # trips[c].serving
                                     /\ trips[d].serving # trips[c].span
      BY <1>1 DEF HttpInv, OwnSpans
    <2>2. trips[d].serving # 0 => trips[d].serving \in 1..Len(httpSpans)
      BY <1>0, <2>1 DEF SpansInv
    <2>3. trips[d].serving # 0 => httpSpans'[trips[d].serving] = httpSpans[trips[d].serving]
      BY <2>1, <2>2
    <2>4. SpansInv(trips[d])'
      BY <1>0, <2>1, <2>3 DEF SpansInv
    <2>5. WrapperInv(trips[d])'
      BY <2>1, <2>3 DEF WrapperInv
    <2> QED BY <2>4, <2>5
  <1>2. ASSUME NEW i \in 1..Len(httpSpans')
        PROVE  httpSpans'[i].open <=>
                 \E d \in Clients : \/ trips'[d].span = i
                                    \/ trips'[d].serving = i /\ trips'[d].stage = "serving"
    <2>1. CASE i = trips[c].span \/ i = trips[c].serving \/ i > Len(httpSpans)
      <3>1. \A d \in Clients : d # c => trips'[d].span # i /\ trips'[d].serving # i
        BY <1>0, <2>1 DEF HttpInv, OwnSpans, SpansInv
      <3> QED BY <2>1, <3>1
    <2>2. CASE ~(i = trips[c].span \/ i = trips[c].serving \/ i > Len(httpSpans))
      <3>1. i \in 1..Len(httpSpans) /\ httpSpans'[i] = httpSpans[i]
        BY <1>0, <2>2
      <3>2. httpSpans[i].open <=>
              \E d \in Clients : \/ trips[d].span = i
                                 \/ trips[d].serving = i /\ trips[d].stage = "serving"
        BY <3>1 DEF HttpInv, OpenInv
      <3> QED BY <2>2, <3>1, <3>2
    <2> QED BY <2>1, <2>2
  <1> QED BY <1>1, <1>2 DEF OpenInv

\* A RoundTrip that begins.
LEMMA BeforeRoundTripKeeps ==
  ASSUME HttpInv, NEW c \in Clients, BeforeRoundTrip(c) PROVE HttpInv'
  <1>0. HttpTypeInv /\ trips[c] \in TripRecord /\ httpSpans \in Seq(SpanRecord)
    BY DEF HttpInv, HttpTypeInv
  <1>1. PICK kind \in Kinds, header \in {"own", "shared"} :
          IF Instruments(kind)
          THEN LET new == Len(httpSpans) + 1
                   to == OutgoingHeader(header)
               IN /\ httpSpans' = Append(httpSpans, NewSpan("client", 0))
                  /\ trips' = [trips EXCEPT ![c] =
                       [NoTrip EXCEPT !.stage = "sending", !.kind = kind, !.span = new,
                                      !.header = to,
                                      !.traceparent = IF to = "own" THEN new ELSE 0]]
                  /\ sharedHeader' = IF to = "shared" THEN new ELSE sharedHeader
          ELSE /\ trips' = [trips EXCEPT ![c] =
                    [NoTrip EXCEPT !.stage = "sending", !.kind = kind, !.header = header]]
               /\ UNCHANGED <<sharedHeader, httpSpans>>
    BY DEF BeforeRoundTrip
  <1>2. NoTrip \in TripRecord
    BY DEF NoTrip, TripRecord, Kinds
  <1>3. CASE Instruments(kind)
    <2> DEFINE new == Len(httpSpans) + 1
               t == [NoTrip EXCEPT !.stage = "sending", !.kind = kind, !.span = new,
                                   !.header = "own", !.traceparent = new]
    <2>1. /\ httpSpans' = Append(httpSpans, NewSpan("client", 0))
          /\ trips' = [trips EXCEPT ![c] = t] /\ sharedHeader' = sharedHeader
      BY <1>1, <1>3 DEF OutgoingHeader
    <2>2. new \in Nat /\ Len(httpSpans) \in Nat
      BY <1>0
    <2>3. t \in TripRecord
      <3> HIDE DEF new
      <3> QED BY <1>2, <2>2, Zenon DEF TripRecord
    <2>4. /\ t.stage = "sending" /\ t.kind = "application" /\ t.span = new /\ t.header = "own"
          /\ t.traceparent = new /\ t.serving = 0 /\ ~t.early /\ t.sent = -1
          /\ t.wrapper = [statusCode |-> 200, wroteHeader |-> FALSE]
      BY <1>3 DEF NoTrip, Instruments, Kinds
    <2> HIDE DEF t
    <2>5. NewSpan("client", 0) \in SpanRecord /\ NewSpan("client", 0).open
      BY DEF NewSpan, SpanRecord
    <2>6. /\ httpSpans' \in Seq(SpanRecord) /\ Len(httpSpans') = new
          /\ httpSpans'[new].open /\ \A i \in 1..Len(httpSpans) : httpSpans'[i] = httpSpans[i]
      BY <1>0, <2>1, <2>5
    <2>7. /\ HttpTypeInv' /\ trips'[c] = t
          /\ \A d \in Clients : d # c => trips'[d] = trips[d]
      BY <1>0, <2>1, <2>3, <2>6 DEF HttpTypeInv
    <2>8. trips[c].span = 0 /\ trips[c].serving = 0
      BY DEF BeforeRoundTrip, HttpInv, SpansInv
    <2>9. SpansInv(trips[c])' /\ WrapperInv(trips[c])'
      BY <2>2, <2>4, <2>6, <2>7 DEF SpansInv, WrapperInv
    <2>10. \A d \in Clients : trips[d].span # new /\ trips[d].serving # new
      BY <2>2 DEF HttpInv, SpansInv
    <2>11. OwnSpans'
      BY <2>2, <2>4, <2>7, <2>10 DEF HttpInv, OwnSpans
    <2>12. /\ \A d \in Clients : d # c => SpansInv(trips[d])' /\ WrapperInv(trips[d])'
           /\ OpenInv'
      BY <2>2, <2>4, <2>6, <2>7, <2>8, OthersKeepTheirSpans
    <2> QED BY <2>1, <2>7, <2>9, <2>11, <2>12 DEF HttpInv
  <1>4. CASE ~Instruments(kind)
    <2> DEFINE t == [NoTrip EXCEPT !.stage = "sending", !.kind = kind, !.header = header]
    <2>1. trips' = [trips EXCEPT ![c] = t] /\ UNCHANGED <<sharedHeader, httpSpans>>
      BY <1>1, <1>4
    <2>2. t \in TripRecord
      BY <1>2, Zenon DEF TripRecord
    <2>3. /\ t.stage = "sending" /\ t.kind # "application" /\ t.span = 0
          /\ t.traceparent = 0 /\ t.serving = 0 /\ ~t.early /\ t.sent = -1
          /\ t.wrapper = [statusCode |-> 200, wroteHeader |-> FALSE]
      BY <1>4 DEF NoTrip, Instruments, Kinds
    <2> HIDE DEF t
    <2>4. /\ HttpTypeInv' /\ trips'[c] = t
          /\ \A d \in Clients : d # c => trips'[d] = trips[d]
      BY <1>0, <2>1, <2>2 DEF HttpTypeInv
    <2>5. \A d \in Clients : SpansInv(trips[d])' /\ WrapperInv(trips[d])'
      BY <1>0, <2>1, <2>3, <2>4 DEF HttpInv, SpansInv, WrapperInv
    <2>6. OwnSpans' /\ OpenInv'
      BY <2>1, <2>3, <2>4 DEF BeforeRoundTrip, HttpInv, SpansInv, OwnSpans, OpenInv
    <2> QED BY <2>1, <2>4, <2>5, <2>6 DEF HttpInv
  <1> QED BY <1>3, <1>4

\* A RoundTrip that ends closes its span.
LEMMA AfterRoundTripKeeps ==
  ASSUME HttpInv, NEW c \in Clients, AfterRoundTrip(c) PROVE HttpInv'
  <1> DEFINE code == trips[c].code
             s == trips[c].span
             span == [httpSpans[s] EXCEPT !.open = FALSE, !.code = code,
                                          !.failed = code >= 400 \/ code < 100]
  <1>1. /\ trips[c] \in TripRecord /\ httpSpans \in Seq(SpanRecord) /\ HttpTypeInv
        /\ SpansInv(trips[c]) /\ trips[c].stage = "returned"
    BY DEF HttpInv, HttpTypeInv, AfterRoundTrip
  <1>2. NoTrip \in TripRecord
    BY DEF NoTrip, TripRecord, Kinds
  <1>3. /\ NoTrip.stage = "idle" /\ NoTrip.span = 0 /\ NoTrip.serving = 0
        /\ NoTrip.traceparent = 0
    BY DEF NoTrip
  <1>4. /\ httpSpans' \in Seq(SpanRecord) /\ Len(httpSpans') = Len(httpSpans)
        /\ \A i \in 1..Len(httpSpans) : i # s => httpSpans'[i] = httpSpans[i]
        /\ s # 0 => ~httpSpans'[s].open
    <2>1. CASE s = 0
      BY <1>1, <2>1 DEF AfterRoundTrip
    <2>2. CASE s # 0
      <3>1. s \in 1..Len(httpSpans) /\ httpSpans[s] \in SpanRecord
        BY <1>1, <2>2 DEF SpansInv
      <3>2. code \in Int /\ (code >= 400 \/ code < 100) \in BOOLEAN
        BY <1>1 DEF TripRecord
      <3>3. span \in SpanRecord /\ ~span.open
        <4> DEFINE bad == code >= 400 \/ code < 100
        <4>1. span = [httpSpans[s] EXCEPT !.open = FALSE, !.code = code, !.failed = bad]
          OBVIOUS
        <4>2. bad \in BOOLEAN
          OBVIOUS
        <4> HIDE DEF span, bad, code
        <4> QED BY <3>1, <3>2, <4>1, <4>2, Zenon DEF SpanRecord
      <3>4. httpSpans' = [httpSpans EXCEPT ![s] = span]
        BY <2>2 DEF AfterRoundTrip
      <3> HIDE DEF span
      <3> QED BY <1>1, <3>1, <3>3, <3>4
    <2> QED BY <2>1, <2>2
  <1>5. /\ HttpTypeInv' /\ trips'[c] = NoTrip /\ sharedHeader' = sharedHeader
        /\ \A d \in Clients : d # c => trips'[d] = trips[d]
    BY <1>1, <1>2, <1>4 DEF AfterRoundTrip, HttpTypeInv
  <1>6. SpansInv(trips[c])' /\ WrapperInv(trips[c])'
    BY <1>1, <1>3, <1>4, <1>5 DEF SpansInv, WrapperInv
  <1>7. OwnSpans'
    BY <1>3, <1>5 DEF HttpInv, OwnSpans
  <1>8. trips[c].serving # 0 => ~httpSpans'[trips[c].serving].open
    BY <1>1, <1>4 DEF HttpInv, OpenInv, OwnSpans, SpansInv
  <1>9. /\ \A d \in Clients : d # c => SpansInv(trips[d])' /\ WrapperInv(trips[d])'
        /\ OpenInv'
    BY <1>1, <1>3, <1>4, <1>5, <1>8, OthersKeepTheirSpans
  <1> QED BY <1>5, <1>6, <1>7, <1>9 DEF HttpInv

\* A handler that begins: what it extracts from the headers is the client span.
LEMMA BeforeServeHTTPKeeps ==
  ASSUME HttpInv, NEW c \in Clients, BeforeServeHTTP(c) PROVE HttpInv'
  <1> DEFINE new == Len(httpSpans) + 1
             t == [trips[c] EXCEPT !.stage = "serving", !.serving = new]
             parent == IF trips[c].header = "shared" THEN sharedHeader ELSE trips[c].traceparent
             span == NewSpan("server", parent)
  <1>1. /\ trips[c] \in TripRecord /\ httpSpans \in Seq(SpanRecord) /\ HttpTypeInv
        /\ SpansInv(trips[c]) /\ WrapperInv(trips[c]) /\ trips[c].stage = "sending"
        /\ sharedHeader = 0
    BY DEF HttpInv, HttpTypeInv, BeforeServeHTTP
  <1>2. /\ trips' = [trips EXCEPT ![c] = t] /\ httpSpans' = Append(httpSpans, span)
        /\ UNCHANGED sharedHeader
    BY <1>1 DEF BeforeServeHTTP, HttpTypeInv
  <1>3. new \in Nat /\ Len(httpSpans) \in Nat
    BY <1>1
  <1>4. t \in TripRecord
    <2> HIDE DEF new
    <2> QED BY <1>1, <1>3, Zenon DEF TripRecord
  <1>5. /\ t.stage = "serving" /\ t.serving = new /\ t.kind = trips[c].kind
        /\ t.span = trips[c].span /\ t.header = trips[c].header
        /\ t.traceparent = trips[c].traceparent /\ t.wrapper = trips[c].wrapper
        /\ t.sent = trips[c].sent /\ t.early = trips[c].early
    BY <1>1 DEF TripRecord
  <1>6. /\ parent = trips[c].span /\ span \in SpanRecord /\ span.parent = parent /\ span.open
    BY <1>1 DEF SpansInv, TripRecord, SpanRecord, NewSpan
  <1> HIDE DEF t, parent, span
  <1>7. /\ httpSpans' \in Seq(SpanRecord) /\ Len(httpSpans') = new
        /\ httpSpans'[new] = span /\ \A i \in 1..Len(httpSpans) : httpSpans'[i] = httpSpans[i]
    BY <1>1, <1>2, <1>6
  <1>8. /\ HttpTypeInv' /\ trips'[c] = t
        /\ \A d \in Clients : d # c => trips'[d] = trips[d]
    BY <1>1, <1>2, <1>4, <1>7 DEF HttpTypeInv
  <1>9. SpansInv(trips[c])' /\ WrapperInv(trips[c])'
    BY <1>1, <1>3, <1>5, <1>6, <1>7, <1>8 DEF SpansInv, WrapperInv
  <1>10. \A d \in Clients : trips[d].span # new /\ trips[d].serving # new
    BY <1>3 DEF HttpInv, SpansInv
  <1>11. OwnSpans'
    BY <1>3, <1>5, <1>8, <1>10 DEF HttpInv, OwnSpans
  <1>12. trips[c].serving = 0 /\ (trips[c].span # 0 => httpSpans[trips[c].span].open)
    BY <1>1, <1>3 DEF HttpInv, OpenInv, SpansInv
  <1>13. /\ \A d \in Clients : d # c => SpansInv(trips[d])' /\ WrapperInv(trips[d])'
         /\ OpenInv'
    <2>1. \A i \in 1..Len(httpSpans') :
            i = trips[c].span \/ i = trips[c].serving \/ i > Len(httpSpans) =>
              (httpSpans'[i].open <=> \/ trips'[c].span = i
                                      \/ trips'[c].serving = i /\ trips'[c].stage = "serving")
      BY <1>1, <1>3, <1>5, <1>6, <1>7, <1>8, <1>12 DEF SpansInv
    <2> QED BY <1>3, <1>5, <1>7, <1>8, <1>10, <2>1, OthersKeepTheirSpans
  <1> QED BY <1>2, <1>8, <1>9, <1>11, <1>13 DEF HttpInv

\* A handler that returns or panics closes its span, with what the wrapper knows.
LEMMA AfterServeHTTPKeeps ==
  ASSUME HttpInv, NEW c \in Clients, AfterServeHTTP(c) PROVE HttpInv'
  <1> DEFINE code == trips[c].wrapper.statusCode
             s == trips[c].serving
  <1>1. /\ trips[c] \in TripRecord /\ httpSpans \in Seq(SpanRecord) /\ HttpTypeInv
        /\ SpansInv(trips[c]) /\ WrapperInv(trips[c]) /\ trips[c].stage = "serving"
    BY DEF HttpInv, HttpTypeInv, AfterServeHTTP
  <1>p. PICK panics \in BOOLEAN : \E sent \in Received(trips[c], panics) :
          /\ httpSpans' = [httpSpans EXCEPT ![s] =
                [@ EXCEPT !.open = FALSE, !.code = code, !.failed = code < 100 \/ code >= 500]]
          /\ trips' = [trips EXCEPT ![c].stage = "returned", ![c].code = sent, ![c].sent = sent]
    BY Zenon DEF AfterServeHTTP
  <1>2. PICK sent \in Received(trips[c], panics) :
          /\ httpSpans' = [httpSpans EXCEPT ![s] =
                [@ EXCEPT !.open = FALSE, !.code = code, !.failed = code < 100 \/ code >= 500]]
          /\ trips' = [trips EXCEPT ![c].stage = "returned", ![c].code = sent, ![c].sent = sent]
    BY <1>p, Zenon
  <1> DEFINE t == [trips[c] EXCEPT !.stage = "returned", !.code = sent, !.sent = sent]
             bad == code < 100 \/ code >= 500
             span == [httpSpans[s] EXCEPT !.open = FALSE, !.code = code, !.failed = bad]
  <1>3. s \in 1..Len(httpSpans) /\ httpSpans[s] \in SpanRecord /\ Len(httpSpans) \in Nat
    BY <1>1 DEF SpansInv
  <1>4. code \in Int /\ sent \in Int /\ bad \in BOOLEAN
    BY <1>1 DEF TripRecord, Sent, Received
  <1>5. span \in SpanRecord /\ ~span.open /\ span.code = code /\ span.parent = httpSpans[s].parent
    <2> HIDE DEF code, bad
    <2>1. span \in SpanRecord
      BY <1>3, <1>4, Zenon DEF SpanRecord
    <2> QED BY <1>3, <2>1 DEF SpanRecord
  <1>6. /\ t \in TripRecord /\ t.stage = "returned" /\ t.sent = sent /\ t.kind = trips[c].kind
        /\ t.span = trips[c].span /\ t.serving = s /\ t.header = trips[c].header
        /\ t.traceparent = trips[c].traceparent /\ t.early = trips[c].early
    <2>1. t \in TripRecord
      BY <1>1, <1>4, Zenon DEF TripRecord
    <2> QED BY <1>1, <2>1 DEF TripRecord
  <1>7. httpSpans' = [httpSpans EXCEPT ![s] = span] /\ sharedHeader' = sharedHeader
    BY <1>2 DEF AfterServeHTTP
  <1>8. trips' = [trips EXCEPT ![c] = t]
    BY <1>1, <1>2, ZenonT(40) DEF HttpTypeInv
  <1>9. ~t.early /\ sent # -1 => sent = code
    BY <1>1, <1>6 DEF WrapperInv, Received, Sent, Informational
  <1> HIDE DEF code, bad, span, t
  <1>10. /\ httpSpans' \in Seq(SpanRecord) /\ Len(httpSpans') = Len(httpSpans)
         /\ httpSpans'[s] = span
         /\ \A i \in 1..Len(httpSpans) : i # s => httpSpans'[i] = httpSpans[i]
    BY <1>1, <1>3, <1>5, <1>7
  <1>11. /\ HttpTypeInv' /\ trips'[c] = t
         /\ \A d \in Clients : d # c => trips'[d] = trips[d]
    BY <1>1, <1>6, <1>8, <1>10 DEF HttpTypeInv
  <1>12. SpansInv(trips[c])' /\ WrapperInv(trips[c])'
    BY <1>1, <1>5, <1>6, <1>9, <1>10, <1>11 DEF SpansInv, WrapperInv
  <1>13. OwnSpans'
    BY <1>6, <1>11 DEF HttpInv, OwnSpans
  <1>14. trips[c].span # s /\ (trips[c].span # 0 => httpSpans[trips[c].span].open)
    BY <1>1, <1>3 DEF HttpInv, OpenInv, SpansInv
  <1>15. /\ \A d \in Clients : d # c => SpansInv(trips[d])' /\ WrapperInv(trips[d])'
         /\ OpenInv'
    <2>1. \A i \in 1..Len(httpSpans') :
            i = trips[c].span \/ i = trips[c].serving \/ i > Len(httpSpans) =>
              (httpSpans'[i].open <=> \/ trips'[c].span = i
                                      \/ trips'[c].serving = i /\ trips'[c].stage = "serving")
      BY <1>1, <1>3, <1>5, <1>6, <1>10, <1>11, <1>14 DEF SpansInv
    <2> QED BY <1>3, <1>6, <1>10, <1>11, <2>1, OthersKeepTheirSpans
  <1> QED BY <1>1, <1>7, <1>11, <1>12, <1>13, <1>15 DEF HttpInv

LEMMA HttpSteps == HttpInv /\ [HttpNext]_httpVars => HttpInv'
  <1> SUFFICES ASSUME HttpInv, [HttpNext]_httpVars PROVE HttpInv'
    OBVIOUS
  <1>a. \A c \in Clients : trips[c] \in TripRecord /\ SpansInv(trips[c]) /\ WrapperInv(trips[c])
    BY DEF HttpInv, HttpTypeInv
  <1>1. ASSUME NEW c \in Clients, TransportFails(c) PROVE HttpInv'
    <2> DEFINE t == [trips[c] EXCEPT !.stage = "returned", !.code = -1]
    <2>1. /\ trips' = [trips EXCEPT ![c] = t] /\ UNCHANGED <<sharedHeader, httpSpans>>
          /\ trips[c].stage = "sending" /\ DOMAIN trips = Clients
      BY <1>1 DEF TransportFails, HttpInv, HttpTypeInv
    <2>2. /\ t.stage = "returned" /\ t.span = trips[c].span /\ t.serving = trips[c].serving
          /\ t.kind = trips[c].kind /\ t.header = trips[c].header
          /\ t.traceparent = trips[c].traceparent
      BY <1>a DEF TripRecord
    <2>3. t \in TripRecord
      <3>1. "returned" \in {"idle", "sending", "serving", "returned"} /\ -1 \in Int
        OBVIOUS
      <3> QED BY <1>a, <3>1, Zenon DEF TripRecord
    <2> HIDE DEF t
    <2>4. /\ HttpTypeInv' /\ trips'[c] = t /\ \A d \in Clients : d # c => trips'[d] = trips[d]
      BY <2>1, <2>3 DEF HttpInv, HttpTypeInv
    <2>5. \A d \in Clients : SpansInv(trips[d])' /\ WrapperInv(trips[d])'
      BY <1>a, <2>1, <2>2, <2>4 DEF SpansInv, WrapperInv
    <2>6. OwnSpans' /\ OpenInv'
      BY <2>1, <2>2, <2>4 DEF HttpInv, OwnSpans, OpenInv
    <2> QED BY <2>1, <2>4, <2>5, <2>6 DEF HttpInv
  <1>2. ASSUME NEW c \in Clients, CallWriteHeader(c) PROVE HttpInv'
    <2>1. PICK code \in Codes : trips' = [trips EXCEPT ![c] = WriteHeader(trips[c], code)]
      BY <1>2 DEF CallWriteHeader
    <2>2. code \in 100..999 /\ code \in Int
      BY HttpAssumption
    <2> DEFINE t == WriteHeader(trips[c], code)
    <2>3. /\ t \in TripRecord
          /\ t.stage = trips[c].stage /\ t.kind = trips[c].kind /\ t.span = trips[c].span
          /\ t.header = trips[c].header /\ t.traceparent = trips[c].traceparent
          /\ t.serving = trips[c].serving
      BY <1>a, <2>2, WriteHeaderKeeps
    <2>4. WrapperInv(t)
      <3>1. trips[c] \in TripRecord /\ WrapperInv(trips[c]) /\ trips[c].stage = "serving"
        BY <1>2, <1>a DEF CallWriteHeader
      <3> QED BY <2>2, <3>1, WriteHeaderKnows
    <2>5. trips' = [trips EXCEPT ![c] = t]
      BY <2>1
    <2> HIDE DEF t
    <2> QED BY <1>2, <2>3, <2>4, <2>5, RespondingKeeps DEF CallWriteHeader
  <1>3. ASSUME NEW c \in Clients, CallWrite(c) PROVE HttpInv'
    <2>1. 200 \in 100..999 /\ 200 \in Int
      OBVIOUS
    <2> DEFINE t == WriteHeader(trips[c], 200)
    <2>3. /\ t \in TripRecord
          /\ t.stage = trips[c].stage /\ t.kind = trips[c].kind /\ t.span = trips[c].span
          /\ t.header = trips[c].header /\ t.traceparent = trips[c].traceparent
          /\ t.serving = trips[c].serving
      BY <1>a, <2>1, WriteHeaderKeeps
    <2>4. WrapperInv(t)
      BY <1>3, <1>a, <2>1, WriteHeaderKnows DEF CallWrite
    <2>5. trips' = [trips EXCEPT ![c] = t]
      BY <1>3 DEF CallWrite
    <2> HIDE DEF t
    <2> QED BY <1>3, <2>3, <2>4, <2>5, RespondingKeeps DEF CallWrite
  <1>4. ASSUME NEW c \in Clients, CallFlush(c) \/ CallHijack(c) PROVE HttpInv'
    <2>1. PICK sent \in Int, early \in BOOLEAN :
            /\ trips' = [trips EXCEPT ![c] = [trips[c] EXCEPT !.sent = sent, !.early = early]]
            /\ ~early => sent = trips[c].sent /\ ~trips[c].early
      <3>0. DOMAIN trips = Clients /\ trips[c].sent \in Int /\ trips[c].early \in BOOLEAN
        BY <1>a DEF HttpInv, HttpTypeInv, TripRecord
      <3>1. CASE CallFlush(c)
        <4> DEFINE s == Sent(trips[c].sent, 200)
                   e == trips[c].early \/ trips[c].sent = -1
        <4>1. trips' = [trips EXCEPT ![c] = [trips[c] EXCEPT !.sent = s, !.early = e]]
          BY <3>0, <3>1, ZenonT(40) DEF CallFlush
        <4>2. s \in Int /\ e \in BOOLEAN /\ (~e => s = trips[c].sent /\ ~trips[c].early)
          BY <3>0 DEF Sent
        <4> HIDE DEF s, e
        <4> QED BY <4>1, <4>2
      <3>2. CASE CallHijack(c)
        <4> DEFINE s == 101
                   e == TRUE
        <4>1. trips' = [trips EXCEPT ![c] = [trips[c] EXCEPT !.sent = s, !.early = e]]
          BY <3>0, <3>2 DEF CallHijack
        <4>2. s \in Int /\ e \in BOOLEAN /\ e
          OBVIOUS
        <4> HIDE DEF s, e
        <4> QED BY <4>1, <4>2
      <3> QED BY <1>4, <3>1, <3>2
    <2> DEFINE t == [trips[c] EXCEPT !.sent = sent, !.early = early]
    <2>2. trips[c].stage = "serving"
      BY <1>4 DEF CallFlush, CallHijack
    <2>3. trips' = [trips EXCEPT ![c] = t]
      BY <2>1
    <2>4. t \in TripRecord
      BY <1>a, <2>1, Zenon DEF TripRecord
    <2>5. /\ t.stage = trips[c].stage /\ t.kind = trips[c].kind /\ t.span = trips[c].span
          /\ t.header = trips[c].header /\ t.traceparent = trips[c].traceparent
          /\ t.serving = trips[c].serving /\ t.wrapper = trips[c].wrapper
          /\ t.sent = sent /\ t.early = early
      BY <1>a DEF TripRecord
    <2> HIDE DEF t
    <2>6. WrapperInv(t)
      BY <1>a, <2>1, <2>2, <2>5 DEF WrapperInv
    <2> QED BY <1>4, <2>2, <2>3, <2>4, <2>5, <2>6, RespondingKeeps DEF CallFlush, CallHijack
  <1>5. CASE UNCHANGED httpVars
    BY <1>5 DEF httpVars, HttpInv, HttpTypeInv, SpansInv, WrapperInv, OwnSpans, OpenInv
  <1> QED BY <1>1, <1>2, <1>3, <1>4, <1>5, BeforeRoundTripKeeps, AfterRoundTripKeeps,
             BeforeServeHTTPKeeps, AfterServeHTTPKeeps DEF HttpNext

\* For any number of clients and spans, any status codes and any calls of the
\* handlers, a span belongs to one RoundTrip or handler and the wrapper knows what
\* was sent, as long as nothing has gone past it: HttpInv is inductive.
THEOREM HttpInvariant == HttpSpec => []HttpInv
  BY HttpStarts, HttpSteps, PTL DEF HttpSpec

\* The application's requests, and no others, have a client span, and the span of
\* the server is its child, because BeforeRoundTrip writes the trace context to a
\* clone of the headers.
THEOREM TraceContinuesHolds == HttpSpec => []TraceContinues
  <1>1. HttpInv => TraceContinues
    BY DEF HttpInv, SpansInv, TraceContinues
  <1> QED BY <1>1, HttpInvariant, PTL

\* The server span has the code the client was given, whatever the handler called
\* in whatever order, and no span is left open or closed early.
THEOREM HttpSpansTellHolds == HttpSpec => []HttpSpansTell
  <1>1. HttpInv => HttpSpansTell
    BY DEF HttpInv, WrapperInv, OpenInv, HttpSpansTell, HandlerStatus
  <1> QED BY <1>1, HttpInvariant, PTL

-----------------------------------------------------------------------------
(* SqlHooks.  When no call is in progress, every handle carries what Open  *)
(* or OpenDB was told, and every transaction the trace of its begin; the   *)
(* one handle that does not is the one an Open has yet to return.          *)

SqlTexts == Queries \cup {"", "PING", "START", "COMMIT", "ROLLBACK"}
SqlNames == Databases \cup {"", Unknown}
InfoRecord == [endpoint : SqlNames, driver : SqlNames, dsn : SqlNames, dbName : SqlNames]
HandleKinds == {"db", "conn", "tx", "stmt"}
SpanOpNames == {"ping", "exec", "query", "begin", "commit", "rollback"}

HandleRecord ==
  [kind : HandleKinds, info : InfoRecord, sql : SqlTexts, otelCtx : Int, source : InfoRecord,
   prepared : SqlTexts, begun : Int]

SqlSpanRecord ==
  [on : InfoRecord, kind : HandleKinds, op : SpanOpNames, sql : SqlTexts, info : InfoRecord,
   parent : Int, trace : Int, prepared : SqlTexts, begun : Int, open : BOOLEAN]

OpenCalls == [op : {"Open", "OpenDB"}, source : InfoRecord, data : InfoRecord, made : Nat]
SpanCalls == [op : SpanOpNames, on : Nat, ctx : {NoTrace, 0}, query : SqlTexts, span : Nat]
MakeCalls == [op : {"conn", "prepare", "stmt"}, on : Nat, arg : Nat, query : SqlTexts,
              prepared : SqlTexts]

SqlTypeInv ==
  /\ enabled \in BOOLEAN
  /\ handles \in Seq(HandleRecord)
  /\ sqlCalls \in Seq(OpenCalls \cup SpanCalls \cup MakeCalls)
  /\ sqlSpans \in Seq(SqlSpanRecord)

\* Only an Open has a call inside it.
CallsInv ==
  /\ Len(sqlCalls) \in 0..2
  /\ Len(sqlCalls) = 2 =>
       /\ sqlCalls[1] \in OpenCalls /\ sqlCalls[1].op = "Open" /\ sqlCalls[1].made = 0
       /\ sqlCalls[2] \in OpenCalls /\ sqlCalls[2].op = "OpenDB"
       /\ sqlCalls[2].source = sqlCalls[1].source
  /\ Len(sqlCalls) >= 1 /\ sqlCalls[1] \in OpenCalls =>
       /\ sqlCalls[1].data = sqlCalls[1].source
       /\ sqlCalls[1].op = "Open" /\ sqlCalls[1].made # 0 =>
            /\ sqlCalls[1].made \in 1..Len(handles)
            /\ handles[sqlCalls[1].made].source = sqlCalls[1].source
            /\ handles[sqlCalls[1].made].kind = "db"
  /\ Len(sqlCalls) = 1 /\ sqlCalls[1] \in SpanCalls =>
       /\ sqlCalls[1].on \in 1..Len(handles)
       /\ sqlCalls[1].span \in 0..Len(sqlSpans) /\ (sqlCalls[1].span # 0 <=> enabled)
       /\ sqlCalls[1].span # 0 =>
            /\ sqlSpans[sqlCalls[1].span].info = handles[sqlCalls[1].on].info
            /\ sqlSpans[sqlCalls[1].span].trace # NoTrace
            /\ sqlCalls[1].op = "begin" /\ sqlCalls[1].ctx # NoTrace =>
                 sqlSpans[sqlCalls[1].span].trace = sqlCalls[1].ctx
  /\ Len(sqlCalls) = 1 /\ sqlCalls[1] \in MakeCalls =>
       /\ sqlCalls[1].on \in 1..Len(handles) /\ sqlCalls[1].arg \in 1..Len(handles)
       /\ sqlCalls[1].op = "prepare" => sqlCalls[1].query = sqlCalls[1].prepared

SameDatabase(a, b) == [a EXCEPT !.dsn = ""] = [b EXCEPT !.dsn = ""]

SaysWhatWasPrepared(h) ==
  h.kind = "stmt" => h.sql = h.prepared \/ (h.sql = "" /\ h.info.dsn = "")

HandleInv(h) ==
  /\ SameDatabase(h.info, h.source)
  /\ SaysWhatWasPrepared(h)
  /\ h.kind = "tx" => h.otelCtx = h.begun /\ h.otelCtx # NoTrace

\* An Open has made its handle and not returned it.
BeingOpened(i) ==
  /\ Len(sqlCalls) = 1 /\ sqlCalls[1] \in OpenCalls
  /\ sqlCalls[1].op = "Open" /\ sqlCalls[1].made = i

SqlHandlesInv ==
  enabled => \A i \in 1..Len(handles) : ~BeingOpened(i) => HandleInv(handles[i])

SqlSpanInv(s) ==
  /\ SameDatabase(s.info, s.on)
  /\ SaysWhatWasPrepared(s)
  /\ s.op \in {"commit", "rollback"} => s.trace = s.begun

SqlInv ==
  /\ SqlTypeInv
  /\ CallsInv
  /\ SqlHandlesInv
  /\ ~enabled => Len(sqlSpans) = 0
  /\ \A i \in 1..Len(sqlSpans) : SqlSpanInv(sqlSpans[i])

LEMMA SqlStarts == SqlInit => SqlInv
  BY DEF SqlInit, SqlInv, SqlTypeInv, CallsInv, SqlHandlesInv

\* Which kinds of calls there are.
LEMMA OpsOfKinds ==
  ASSUME NEW kind \in HandleKinds
  PROVE  /\ SpanOps[kind] \subseteq SpanOpNames
         /\ \A op \in SpanOps[kind] : op \in {"commit", "rollback"} => kind = "tx"
         /\ MakeOps[kind] \subseteq {"conn", "prepare", "stmt"}
  <1>1. /\ SpanOps["db"] = {"ping", "exec", "query", "begin"} /\ MakeOps["db"] = {"conn", "prepare"}
        /\ SpanOps["conn"] = {"ping", "exec", "query", "begin"} /\ MakeOps["conn"] = {"prepare"}
        /\ SpanOps["tx"] = {"exec", "query", "commit", "rollback"}
        /\ MakeOps["tx"] = {"prepare", "stmt"}
        /\ SpanOps["stmt"] = {"exec", "query"} /\ MakeOps["stmt"] = {}
    BY DEF SpanOps, MakeOps
  <1> QED BY <1>1 DEF HandleKinds, SpanOpNames

\* The calls in progress are of three kinds.
LEMMA CallKinds ==
  /\ \A call \in OpenCalls : call.op \in {"Open", "OpenDB"} /\ DOMAIN call = {"op", "source", "data", "made"}
  /\ \A call \in SpanCalls : call.op \in SpanOpNames /\ DOMAIN call = {"op", "on", "ctx", "query", "span"}
  /\ \A call \in MakeCalls : /\ call.op \in {"conn", "prepare", "stmt"}
                             /\ DOMAIN call = {"op", "on", "arg", "query", "prepared"}
  BY DEF OpenCalls, SpanCalls, MakeCalls

\* What is told of a database is a record, and is the same database without the DSN.
LEMMA Infos ==
  /\ Blank3 \in InfoRecord
  /\ \A d \in Databases : Learned(d) \in InfoRecord /\ Hidden(d) \in InfoRecord
                          /\ Learned(d).dsn = d
  /\ \A a \in InfoRecord : [a EXCEPT !.dsn = ""] \in InfoRecord
                           /\ SameDatabase([a EXCEPT !.dsn = ""], a)
  BY DEF Blank3, Learned, Hidden, Info, InfoRecord, SqlNames, Unknown, SameDatabase

\* A call that makes a handle, or none, ends.
LEMMA HandleAdded ==
  ASSUME SqlInv, NEW h \in HandleRecord, enabled => HandleInv(h),
         handles' \in {handles, Append(handles, h)}, sqlCalls' = <<>>, enabled' = enabled,
         ~\E i \in 1..Len(handles) : BeingOpened(i),
         sqlSpans' \in Seq(SqlSpanRecord), Len(sqlSpans') = Len(sqlSpans),
         \A i \in 1..Len(sqlSpans) : SqlSpanInv(sqlSpans'[i])
  PROVE  SqlInv'
  <1>1. handles \in Seq(HandleRecord) /\ sqlSpans \in Seq(SqlSpanRecord) /\ SqlTypeInv
    BY DEF SqlInv, SqlTypeInv
  <1>2. handles' \in Seq(HandleRecord)
    BY <1>1
  <1>3. SqlTypeInv'
    BY <1>1, <1>2 DEF SqlTypeInv
  <1>4. CallsInv'
    BY DEF CallsInv
  <1>5. \A i \in 1..Len(handles) : enabled => HandleInv(handles[i])
    BY DEF SqlInv, SqlHandlesInv
  <1>6. \A i \in 1..Len(handles') : enabled => HandleInv(handles'[i])
    <2>1. CASE handles' = handles
      BY <1>5, <2>1
    <2>2. CASE handles' = Append(handles, h)
      <3>1. ASSUME NEW i \in 1..Len(handles'), enabled PROVE HandleInv(handles'[i])
        <4>1. CASE i \in 1..Len(handles)
          BY <1>1, <1>5, <2>2, <3>1, <4>1
        <4>2. CASE i = Len(handles) + 1
          BY <1>1, <2>2, <3>1, <4>2
        <4> QED BY <1>1, <2>2, <4>1, <4>2
      <3> QED BY <3>1
    <2> QED BY <2>1, <2>2
  <1>7. SqlHandlesInv'
    BY <1>6 DEF SqlHandlesInv, HandleInv, SaysWhatWasPrepared, SameDatabase
  <1>8. ~enabled => Len(sqlSpans') = 0
    BY <1>1 DEF SqlInv
  <1> QED BY <1>3, <1>4, <1>7, <1>8 DEF SqlInv, SqlSpanInv, SaysWhatWasPrepared, SameDatabase

\* A call begins when none is in progress.
LEMMA CallBegun ==
  ASSUME SqlInv, sqlCalls = <<>>, NEW call \in OpenCalls \cup SpanCalls \cup MakeCalls,
         sqlCalls' = <<call>>, UNCHANGED <<enabled, handles>>, CallsInv',
         sqlSpans' \in Seq(SqlSpanRecord), ~enabled => Len(sqlSpans') = 0,
         \A i \in 1..Len(sqlSpans') : SqlSpanInv(sqlSpans'[i])
  PROVE  SqlInv'
  <1>1. SqlTypeInv'
    BY DEF SqlInv, SqlTypeInv
  <1>2. \A i \in 1..Len(handles) : enabled => HandleInv(handles[i])
    BY DEF SqlInv, SqlHandlesInv, BeingOpened
  <1>3. SqlHandlesInv'
    BY <1>2 DEF SqlHandlesInv, HandleInv, SaysWhatWasPrepared, SameDatabase
  <1> QED BY <1>1, <1>3 DEF SqlInv, SqlSpanInv, SaysWhatWasPrepared, SameDatabase

\* The call that an action ends is the only one, but for the OpenDB in an Open.
LEMMA InProgress ==
  ASSUME SqlInv, sqlCalls # <<>>
  PROVE  \/ Len(sqlCalls) = 1 /\ SqlCall = sqlCalls[1] /\ Rest = <<>>
            /\ SqlCall \in OpenCalls \cup SpanCalls \cup MakeCalls
         \/ Len(sqlCalls) = 2 /\ SqlCall = sqlCalls[2] /\ Rest # <<>> /\ Rest[1] = sqlCalls[1]
            /\ SqlCall \in OpenCalls /\ SqlCall.op = "OpenDB"
  <1>1. /\ sqlCalls \in Seq(OpenCalls \cup SpanCalls \cup MakeCalls) /\ Len(sqlCalls) \in 0..2
        /\ Len(sqlCalls) = 2 => sqlCalls[2] \in OpenCalls /\ sqlCalls[2].op = "OpenDB"
    BY DEF SqlInv, SqlTypeInv, CallsInv
  <1>2. Len(sqlCalls) # 0
    BY <1>1, EmptySeq
  <1>3. CASE Len(sqlCalls) = 1
    BY <1>1, <1>3 DEF SqlCall, Rest
  <1>4. CASE Len(sqlCalls) = 2
    <2>1. Len(sqlCalls) - 1 = 1
      BY <1>4
    <2>2. Len(Rest) = 1 /\ Rest[1] = sqlCalls[1]
      BY <1>1, <1>4, <2>1 DEF Rest
    <2>3. Rest # <<>>
      BY <2>2
    <2> QED BY <1>1, <1>4, <2>2, <2>3 DEF SqlCall
  <1> QED BY <1>1, <1>2, <1>3, <1>4

LEMMA BeforeOpenKeeps == SqlInv /\ (BeforeOpen \/ BeforeOpenDB) => SqlInv'
  <1> SUFFICES ASSUME SqlInv, BeforeOpen \/ BeforeOpenDB PROVE SqlInv'
    OBVIOUS
  <1>0. SqlTypeInv /\ CallsInv
    BY DEF SqlInv
  <1>1. ASSUME sqlCalls = <<>>, NEW op \in {"Open", "OpenDB"}, NEW info \in InfoRecord,
               sqlCalls' = <<[op |-> op, source |-> info, data |-> info, made |-> 0]>>,
               UNCHANGED <<enabled, handles, sqlSpans>>
        PROVE  SqlInv'
    <2> DEFINE call == [op |-> op, source |-> info, data |-> info, made |-> 0]
    <2>1. call \in OpenCalls /\ call.data = call.source /\ call.made = 0
      BY <1>1 DEF OpenCalls
    <2> HIDE DEF call
    <2>2. call \notin SpanCalls /\ call \notin MakeCalls
      BY <2>1, CallKinds DEF SpanOpNames
    <2>3. sqlCalls' = <<call>>
      BY <1>1 DEF call
    <2>4. CallsInv'
      BY <2>1, <2>2, <2>3 DEF CallsInv
    <2> QED BY <1>0, <1>1, <2>1, <2>3, <2>4, CallBegun DEF SqlInv, SqlTypeInv
  <1>2. CASE BeforeOpen
    BY <1>1, <1>2, Infos DEF BeforeOpen
  <1>3. CASE BeforeOpenDB /\ sqlCalls = <<>>
    BY <1>1, <1>3, Infos DEF BeforeOpenDB
  <1>4. CASE BeforeOpenDB /\ sqlCalls # <<>>
    <2>1. /\ SqlCall.op = "Open" /\ SqlCall.made = 0 /\ UNCHANGED <<enabled, handles, sqlSpans>>
          /\ sqlCalls' = Append(sqlCalls, [SqlCall EXCEPT !.op = "OpenDB",
                                                          !.data = Hidden(SqlCall.data.dsn)])
      BY <1>4 DEF BeforeOpenDB
    <2>2. Len(sqlCalls) = 1 /\ SqlCall = sqlCalls[1] /\ SqlCall \in OpenCalls
      BY <1>4, <2>1, InProgress, CallKinds DEF SpanOpNames
    <2> DEFINE hidden == Hidden(SqlCall.data.dsn)
               call == [SqlCall EXCEPT !.op = "OpenDB", !.data = hidden]
    <2>3. hidden \in InfoRecord /\ "OpenDB" \in {"Open", "OpenDB"}
      BY <2>2 DEF Hidden, Info, InfoRecord, OpenCalls, SqlNames
    <2> HIDE DEF hidden
    <2>4. call \in OpenCalls
      BY <2>2, <2>3, Zenon DEF OpenCalls
    <2>5. call.op = "OpenDB" /\ call.source = SqlCall.source
      BY <2>2 DEF OpenCalls
    <2>6. sqlCalls' = Append(sqlCalls, call)
      BY <2>1 DEF hidden
    <2> HIDE DEF call
    <2>7. /\ sqlCalls' \in Seq(OpenCalls \cup SpanCalls \cup MakeCalls) /\ Len(sqlCalls') = 2
          /\ sqlCalls'[1] = sqlCalls[1] /\ sqlCalls'[2] = call
      <3> DEFINE Calls == OpenCalls \cup SpanCalls \cup MakeCalls
      <3>1. sqlCalls \in Seq(Calls) /\ call \in Calls
        BY <1>0, <2>4 DEF SqlTypeInv
      <3> HIDE DEF Calls
      <3>2. /\ sqlCalls' \in Seq(Calls) /\ Len(sqlCalls') = 2
            /\ sqlCalls'[1] = sqlCalls[1] /\ sqlCalls'[2] = call
        BY <2>2, <2>6, <3>1, AppendProperties
      <3> QED BY <3>2 DEF Calls
    <2>8. CallsInv'
      BY <1>0, <2>1, <2>2, <2>4, <2>5, <2>7 DEF CallsInv
    <2>9. \A i \in 1..Len(handles) : ~BeingOpened(i)
      BY <2>1, <2>2 DEF BeingOpened
    <2>10. SqlHandlesInv'
      BY <2>1, <2>9 DEF SqlInv, SqlHandlesInv, HandleInv, SaysWhatWasPrepared, SameDatabase
    <2> QED BY <1>0, <2>1, <2>7, <2>8, <2>10
            DEF SqlInv, SqlTypeInv, SqlSpanInv, SaysWhatWasPrepared, SameDatabase
  <1> QED BY <1>2, <1>3, <1>4

LEMMA HandleIsRecord ==
  ASSUME NEW kind \in HandleKinds, NEW info \in InfoRecord, NEW source \in InfoRecord
  PROVE  /\ Handle(kind, info, source) \in HandleRecord
         /\ Handle(kind, info, source).kind = kind
         /\ Handle(kind, info, source).info = info
         /\ Handle(kind, info, source).source = source
  BY DEF Handle, HandleRecord, SqlTexts, NoTrace

LEMMA AfterOpenDBKeeps == SqlInv /\ AfterOpenDB => SqlInv'
  <1> SUFFICES ASSUME SqlInv, AfterOpenDB PROVE SqlInv'
    OBVIOUS
  <1> DEFINE h == Handle("db", SqlCall.data, SqlCall.source)
  <1>0. SqlTypeInv /\ CallsInv /\ handles \in Seq(HandleRecord)
    BY DEF SqlInv, SqlTypeInv
  <1>1. /\ sqlCalls # <<>> /\ SqlCall.op = "OpenDB" /\ handles' = Append(handles, h)
        /\ UNCHANGED <<enabled, sqlSpans>>
    BY DEF AfterOpenDB
  <1>2. SqlCall \in OpenCalls
    BY <1>1, InProgress, CallKinds DEF SpanOpNames
  <1>3. /\ h \in HandleRecord /\ h.kind = "db" /\ h.info = SqlCall.data
        /\ h.source = SqlCall.source
    <2>1. "db" \in HandleKinds /\ SqlCall.data \in InfoRecord /\ SqlCall.source \in InfoRecord
      BY <1>2 DEF OpenCalls, HandleKinds
    <2> QED BY <2>1, HandleIsRecord
  <1> HIDE DEF h
  <1>4. CASE Len(sqlCalls) = 1
    <2>1. SqlCall = sqlCalls[1] /\ Rest = <<>> /\ SqlCall.data = SqlCall.source
      BY <1>0, <1>1, <1>2, <1>4, InProgress DEF CallsInv
    <2>2. HandleInv(h)
      BY <1>3, <2>1 DEF HandleInv, SameDatabase, SaysWhatWasPrepared
    <2>3. ~\E i \in 1..Len(handles) : BeingOpened(i)
      BY <1>1, <2>1 DEF BeingOpened
    <2>4. sqlCalls' = <<>>
      BY <2>1 DEF AfterOpenDB
    <2> QED BY <1>0, <1>1, <1>3, <2>2, <2>3, <2>4, HandleAdded DEF SqlInv, SqlTypeInv
  <1>5. CASE Len(sqlCalls) = 2
    <2>0. PICK n \in Nat : n = Len(handles) + 1
      BY <1>0
    <2> DEFINE call == [sqlCalls[1] EXCEPT !.made = n]
    <2>1. /\ SqlCall = sqlCalls[2] /\ Rest # <<>> /\ Rest[1] = sqlCalls[1]
          /\ sqlCalls[1] \in OpenCalls /\ sqlCalls[1].op = "Open"
          /\ sqlCalls[1].source = SqlCall.source /\ sqlCalls[1].data = sqlCalls[1].source
      BY <1>0, <1>1, <1>5, InProgress DEF CallsInv
    <2>2. /\ handles' \in Seq(HandleRecord) /\ Len(handles') = n /\ handles'[n] = h
          /\ \A i \in 1..Len(handles) : handles'[i] = handles[i]
      BY <1>0, <1>1, <1>3, <2>0
    <2>3. n # 0
      BY <1>0, <2>0
    <2>4. sqlCalls' = <<call>>
      BY <2>1, <2>2 DEF AfterOpenDB
    <2>5. /\ call \in OpenCalls /\ call.op = "Open" /\ call.source = SqlCall.source
          /\ call.data = call.source /\ call.made = n
      BY <2>1, <2>3 DEF OpenCalls
    <2> HIDE DEF call
    <2>6. call \notin SpanCalls /\ call \notin MakeCalls
      BY <2>5, CallKinds DEF SpanOpNames
    <2>7. CallsInv'
      BY <1>3, <2>2, <2>3, <2>4, <2>5, <2>6 DEF CallsInv
    <2>8. \A i \in 1..Len(handles) : enabled => HandleInv(handles[i])
      BY <1>5 DEF SqlInv, SqlHandlesInv, BeingOpened
    <2>9. SqlHandlesInv'
      <3>1. BeingOpened(n)'
        BY <2>4, <2>5 DEF BeingOpened
      <3>2. ASSUME NEW i \in 1..Len(handles'), enabled', i # n PROVE HandleInv(handles[i])'
        <4>1. i \in 1..Len(handles) /\ handles'[i] = handles[i]
            BY <1>0, <2>0, <2>2, <3>2
        <4> QED BY <1>1, <2>8, <3>2, <4>1
                DEF HandleInv, SaysWhatWasPrepared, SameDatabase
      <3> QED BY <3>1, <3>2 DEF SqlHandlesInv
    <2>10. SqlTypeInv'
      BY <1>0, <1>1, <2>2, <2>4, <2>5 DEF SqlTypeInv
    <2> QED BY <1>1, <2>7, <2>9, <2>10
            DEF SqlInv, SqlSpanInv, SaysWhatWasPrepared, SameDatabase
  <1> QED BY <1>1, <1>4, <1>5, InProgress

LEMMA AfterOpenKeeps == SqlInv /\ AfterOpen => SqlInv'
  <1> SUFFICES ASSUME SqlInv, AfterOpen PROVE SqlInv'
    OBVIOUS
  <1> DEFINE m == SqlCall.made
             data == SqlCall.data
  <1>0. SqlTypeInv /\ CallsInv /\ handles \in Seq(HandleRecord)
    BY DEF SqlInv, SqlTypeInv
  <1>1. /\ sqlCalls # <<>> /\ SqlCall.op = "Open" /\ sqlCalls' = <<>>
        /\ UNCHANGED <<enabled, sqlSpans>>
    BY DEF AfterOpen
  <1>2. /\ SqlCall \in OpenCalls /\ Len(sqlCalls) = 1 /\ SqlCall = sqlCalls[1]
        /\ SqlCall.data = SqlCall.source
    BY <1>0, <1>1, InProgress, CallKinds DEF SpanOpNames, CallsInv
  <1>3. data \in InfoRecord
    BY <1>2 DEF OpenCalls
  <1>4. CASE m = 0
    <2> DEFINE h == Handle("db", data, data)
    <2>1. h \in HandleRecord /\ HandleInv(h)
      <3>1. "db" \in HandleKinds
        BY DEF HandleKinds
      <3>2. h \in HandleRecord /\ h.kind = "db" /\ h.info = data /\ h.source = data
        BY <1>3, <3>1, HandleIsRecord
      <3> HIDE DEF h
      <3> QED BY <3>2 DEF HandleInv, SameDatabase, SaysWhatWasPrepared
    <2>2. ~\E i \in 1..Len(handles) : BeingOpened(i)
      BY <1>2, <1>4 DEF BeingOpened
    <2>3. handles' = handles
      BY <1>4 DEF AfterOpen
    <2> HIDE DEF h
    <2> QED BY <1>0, <1>1, <2>1, <2>2, <2>3, HandleAdded DEF SqlInv, SqlTypeInv
  <1>5. CASE m # 0
    <2> DEFINE h == [handles[m] EXCEPT !.info = data]
    <2>1. m \in 1..Len(handles) /\ handles[m].source = data /\ handles[m].kind = "db"
      BY <1>0, <1>1, <1>2, <1>5 DEF CallsInv
    <2>2. handles[m] \in HandleRecord
      BY <1>0, <2>1
    <2>3. h \in HandleRecord /\ h.info = data /\ h.source = data /\ h.kind = "db"
      BY <1>3, <2>1, <2>2 DEF HandleRecord
    <2>4. handles' = [handles EXCEPT ![m] = h]
      BY <1>5 DEF AfterOpen
    <2> HIDE DEF h
    <2>5. /\ handles' \in Seq(HandleRecord) /\ Len(handles') = Len(handles) /\ handles'[m] = h
          /\ \A i \in 1..Len(handles) : i # m => handles'[i] = handles[i]
      BY <1>0, <2>1, <2>3, <2>4
    <2>6. \A i \in 1..Len(handles) : enabled /\ i # m => HandleInv(handles[i])
      BY <1>2 DEF SqlInv, SqlHandlesInv, BeingOpened
    <2>7. ASSUME NEW i \in 1..Len(handles'), enabled' PROVE HandleInv(handles[i])'
      <3>1. CASE i = m
        BY <2>3, <2>5, <3>1 DEF HandleInv, SameDatabase, SaysWhatWasPrepared
      <3>2. CASE i # m
        BY <1>1, <2>5, <2>6, <2>7, <3>2, ZenonT(40) DEF HandleInv, SameDatabase, SaysWhatWasPrepared
      <3> QED BY <3>1, <3>2
    <2>8. SqlHandlesInv'
      BY <2>7 DEF SqlHandlesInv
    <2>9. SqlTypeInv' /\ CallsInv'
      BY <1>0, <1>1, <2>5 DEF SqlTypeInv, CallsInv
    <2> QED BY <1>1, <2>8, <2>9 DEF SqlInv, SqlSpanInv, SaysWhatWasPrepared, SameDatabase
  <1> QED BY <1>4, <1>5

\* The span of a call says what its handle knows.
LEMMA SpanStarted ==
  ASSUME SqlInv, enabled, sqlCalls = <<>>, NEW i \in 1..Len(handles),
         NEW op \in SpanOps[handles[i].kind], NEW query \in Queries, NEW ctx \in {NoTrace, 0}
  PROVE  LET s == StartSpan(handles[i], op, query, ctx)
         IN /\ s \in SqlSpanRecord /\ SqlSpanInv(s) /\ s.info = handles[i].info
            /\ s.trace # NoTrace /\ (op = "begin" /\ ctx # NoTrace => s.trace = ctx)
  <1> DEFINE h == handles[i]
             s == StartSpan(h, op, query, ctx)
             c == CallContext(h, op, ctx)
             t == IF c = NoTrace THEN Len(sqlSpans) + 1 ELSE c
             q == Statement(h, op, query)
  <1>1. h \in HandleRecord /\ Len(sqlSpans) \in Nat
    BY DEF SqlInv, SqlTypeInv
  <1>2. HandleInv(h)
    BY DEF SqlInv, SqlHandlesInv, BeingOpened
  <1>3. op \in SpanOpNames /\ (op \in {"commit", "rollback"} => h.kind = "tx")
    BY <1>1, OpsOfKinds DEF HandleRecord
  <1>4. c \in Int /\ t \in Int /\ t # NoTrace
    BY <1>1 DEF CallContext, HandleRecord, NoTrace
  <1>5. q \in SqlTexts
    <2>1. \A k \in DOMAIN Fixed : Fixed[k] \in SqlTexts
      <3>1. /\ DOMAIN Fixed = {"ping", "begin", "commit", "rollback"}
            /\ Fixed["ping"] = "PING" /\ Fixed["begin"] = "START"
            /\ Fixed["commit"] = "COMMIT" /\ Fixed["rollback"] = "ROLLBACK"
        BY DEF Fixed
      <3> QED BY <3>1 DEF SqlTexts
    <2>2. h.sql \in SqlTexts /\ query \in SqlTexts
      BY <1>1 DEF HandleRecord, SqlTexts
    <2> HIDE DEF h
    <2> QED BY <2>1, <2>2 DEF Statement
  <1>6. s = [on |-> h.source, kind |-> h.kind, op |-> op, sql |-> q, info |-> h.info,
             parent |-> c, trace |-> t, prepared |-> h.prepared, begun |-> h.begun, open |-> TRUE]
    BY DEF StartSpan
  <1>7. op \in {"commit", "rollback"} => t = h.begun
    BY <1>2, <1>3 DEF HandleInv, CallContext
  <1>8. op = "begin" /\ ctx # NoTrace => t = ctx
    BY DEF CallContext
  <1>9. h.kind = "stmt" => q = h.sql
    BY DEF Statement
  <1> HIDE DEF h, c, t, q, s
  <1>10. s \in SqlSpanRecord
    BY <1>1, <1>3, <1>4, <1>5, <1>6 DEF HandleRecord, SqlSpanRecord
  <1>11. SqlSpanInv(s)
    BY <1>2, <1>6, <1>7, <1>9 DEF HandleInv, SqlSpanInv, SameDatabase, SaysWhatWasPrepared
  <1>12. s.info = h.info /\ s.trace = t
    BY <1>6
  <1> QED BY <1>4, <1>8, <1>10, <1>11, <1>12 DEF s, h

LEMMA BeforeSpanOpKeeps == SqlInv /\ BeforeSpanOp => SqlInv'
  <1> SUFFICES ASSUME SqlInv, BeforeSpanOp PROVE SqlInv'
    OBVIOUS
  <1>1. SqlTypeInv /\ CallsInv /\ handles \in Seq(HandleRecord) /\ sqlSpans \in Seq(SqlSpanRecord)
    BY DEF SqlInv, SqlTypeInv
  <1>a. PICK i \in 1..Len(handles) : \E op \in SpanOps[handles[i].kind] :
        \E query \in Queries, ctx \in {NoTrace, 0} :
          /\ IF enabled
             THEN sqlSpans' = Append(sqlSpans, StartSpan(handles[i], op, query, ctx))
             ELSE UNCHANGED sqlSpans
          /\ sqlCalls' = <<[op |-> op, on |-> i, ctx |-> ctx, query |-> query,
                            span |-> IF enabled THEN Len(sqlSpans) + 1 ELSE 0]>>
    BY DEF BeforeSpanOp
  <1>c. PICK op \in SpanOps[handles[i].kind] : \E query \in Queries, ctx \in {NoTrace, 0} :
          /\ IF enabled
             THEN sqlSpans' = Append(sqlSpans, StartSpan(handles[i], op, query, ctx))
             ELSE UNCHANGED sqlSpans
          /\ sqlCalls' = <<[op |-> op, on |-> i, ctx |-> ctx, query |-> query,
                            span |-> IF enabled THEN Len(sqlSpans) + 1 ELSE 0]>>
    BY <1>a
  <1>2. PICK query \in Queries, ctx \in {NoTrace, 0} :
          /\ IF enabled
             THEN sqlSpans' = Append(sqlSpans, StartSpan(handles[i], op, query, ctx))
             ELSE UNCHANGED sqlSpans
          /\ sqlCalls' = <<[op |-> op, on |-> i, ctx |-> ctx, query |-> query,
                            span |-> IF enabled THEN Len(sqlSpans) + 1 ELSE 0]>>
    BY <1>c
  <1>3. sqlCalls = <<>> /\ UNCHANGED <<enabled, handles>>
    BY DEF BeforeSpanOp
  <1>4. op \in SpanOpNames
    <2>1. handles[i] \in HandleRecord
      BY <1>1
    <2>2. handles[i].kind \in HandleKinds
      BY <2>1 DEF HandleRecord
    <2> QED BY <2>2, OpsOfKinds
  <1> DEFINE s == StartSpan(handles[i], op, query, ctx)
             n == IF enabled THEN Len(sqlSpans) + 1 ELSE 0
             call == [op |-> op, on |-> i, ctx |-> ctx, query |-> query, span |-> n]
  <1>5. n \in Nat /\ Len(sqlSpans) \in Nat
    BY <1>1
  <1>6. sqlCalls' = <<call>>
    BY <1>2
  <1>7. enabled => /\ s \in SqlSpanRecord /\ SqlSpanInv(s) /\ s.info = handles[i].info
                   /\ s.trace # NoTrace /\ (op = "begin" /\ ctx # NoTrace => s.trace = ctx)
                   /\ sqlSpans' = Append(sqlSpans, s)
    BY <1>2, <1>3, SpanStarted
  <1>8. ~enabled => sqlSpans' = sqlSpans /\ n = 0
    BY <1>2
  <1>9. enabled => n = Len(sqlSpans) + 1
    OBVIOUS
  <1> HIDE DEF s, n
  <1>10. /\ call \in SpanCalls /\ call.op = op /\ call.on = i /\ call.ctx = ctx /\ call.span = n
    <2>1. i \in Nat
      BY <1>1
    <2>2. query \in SqlTexts
      BY DEF SqlTexts
    <2> QED BY <1>4, <1>5, <2>1, <2>2 DEF SpanCalls
  <1> HIDE DEF call
  <1>11. call \notin OpenCalls /\ call \notin MakeCalls
    BY <1>4, <1>10, CallKinds DEF SpanOpNames
  <1>12. /\ sqlSpans' \in Seq(SqlSpanRecord) /\ n \in 0..Len(sqlSpans') /\ (n # 0 <=> enabled)
         /\ n # 0 => sqlSpans'[n] = s
         /\ \A k \in 1..Len(sqlSpans') : SqlSpanInv(sqlSpans'[k])
         /\ ~enabled => Len(sqlSpans') = 0
    <2>1. CASE enabled
      <3>1. /\ sqlSpans' \in Seq(SqlSpanRecord) /\ Len(sqlSpans') = n /\ sqlSpans'[n] = s
            /\ \A k \in 1..Len(sqlSpans) : sqlSpans'[k] = sqlSpans[k]
        BY <1>1, <1>7, <1>9, <2>1, SMTT(20)
      <3>2. \A k \in 1..Len(sqlSpans') : SqlSpanInv(sqlSpans'[k])
        <4> TAKE k \in 1..Len(sqlSpans')
        <4>1. CASE k = n
          BY <1>7, <2>1, <3>1, <4>1
        <4>2. CASE k # n
          <5>1. k \in 1..Len(sqlSpans) /\ sqlSpans'[k] = sqlSpans[k]
            BY <1>5, <1>9, <2>1, <3>1, <4>2
          <5> QED BY <5>1 DEF SqlInv
        <4> QED BY <4>1, <4>2
      <3> QED BY <1>5, <1>9, <2>1, <3>1, <3>2
    <2>2. CASE ~enabled
      BY <1>1, <1>5, <1>8, <2>2 DEF SqlInv, SqlTypeInv
    <2> QED BY <2>1, <2>2 DEF SqlInv, SqlTypeInv
  <1>13. CallsInv'
    BY <1>3, <1>6, <1>7, <1>8, <1>10, <1>11, <1>12 DEF CallsInv, SqlInv, SqlTypeInv
  <1> QED BY <1>3, <1>6, <1>10, <1>12, <1>13, CallBegun

\* BeginTx gives the transaction the trace of its begin.
LEMMA TxBegun ==
  ASSUME SqlInv, Len(sqlCalls) = 1, sqlCalls[1] \in SpanCalls, sqlCalls[1].op = "begin"
  PROVE  NewTx(sqlCalls[1]) \in HandleRecord /\ (enabled => HandleInv(NewTx(sqlCalls[1])))
  <1> DEFINE call == sqlCalls[1]
             from == handles[call.on]
             span == sqlSpans[call.span]
             c == StoredContext(call)
  <1>1. /\ call.on \in 1..Len(handles) /\ call.span \in 0..Len(sqlSpans)
        /\ (call.span # 0 <=> enabled) /\ handles \in Seq(HandleRecord)
        /\ sqlSpans \in Seq(SqlSpanRecord)
    BY DEF SqlInv, CallsInv, SqlTypeInv
  <1>2. from \in HandleRecord /\ from.source \in InfoRecord /\ "tx" \in HandleKinds
    <2>1. from \in HandleRecord
      BY <1>1
    <2> QED BY <2>1 DEF HandleRecord, HandleKinds
  <1>3. CASE call.span = 0
    <2>1. NewTx(call) = Handle("tx", Blank3, from.source)
      BY <1>3 DEF NewTx
    <2>2. Handle("tx", Blank3, from.source) \in HandleRecord
      <3>1. Blank3 \in InfoRecord
        BY Infos
      <3> QED BY <1>2, <3>1, HandleIsRecord
    <2> QED BY <1>1, <1>3, <2>1, <2>2
  <1>4. CASE call.span # 0
    <2> DEFINE base == Handle("tx", span.info, from.source)
               b == span.trace
               h == [base EXCEPT !.otelCtx = c, !.begun = b]
    <2>1. /\ span \in SqlSpanRecord /\ span.info \in InfoRecord /\ b \in Int
          /\ span.info = from.info /\ b # NoTrace /\ (call.ctx # NoTrace => b = call.ctx)
      <3>1. call.span \in 1..Len(sqlSpans)
        BY <1>1, <1>4
      <3>2. span \in SqlSpanRecord
        BY <1>1, <3>1
      <3>3. span.info = from.info /\ b # NoTrace /\ (call.ctx # NoTrace => b = call.ctx)
        BY <1>4 DEF SqlInv, CallsInv
      <3> QED BY <3>2, <3>3 DEF SqlSpanRecord
    <2>2. c = b
      BY <2>1 DEF StoredContext
    <2>3. NewTx(call) = h
      BY <1>4 DEF NewTx
    <2>4. /\ base \in HandleRecord /\ base.kind = "tx" /\ base.info = span.info
          /\ base.source = from.source
      BY <1>2, <2>1, HandleIsRecord
    <2>5. SameDatabase(from.info, from.source)
      <3>1. sqlCalls[1] \notin OpenCalls
        BY CallKinds
      <3> QED BY <1>1, <1>4, <3>1 DEF SqlInv, SqlHandlesInv, HandleInv, BeingOpened
    <2> HIDE DEF base, b, c
    <2>6. h \in HandleRecord
      BY <2>1, <2>2, <2>4, Zenon DEF HandleRecord
    <2>7. /\ h.kind = "tx" /\ h.info = from.info /\ h.source = from.source /\ h.otelCtx = b
          /\ h.begun = b
      BY <2>1, <2>2, <2>4 DEF HandleRecord
    <2> HIDE DEF h
    <2>8. HandleInv(h)
      BY <2>1, <2>5, <2>7 DEF HandleInv, SaysWhatWasPrepared
    <2> QED BY <2>3, <2>6, <2>8
  <1> QED BY <1>3, <1>4

LEMMA AfterSpanOpKeeps == SqlInv /\ AfterSpanOp => SqlInv'
  <1> SUFFICES ASSUME SqlInv, AfterSpanOp PROVE SqlInv'
    OBVIOUS
  <1> DEFINE call == sqlCalls[1]
  <1>1. SqlTypeInv /\ CallsInv /\ sqlSpans \in Seq(SqlSpanRecord)
    BY DEF SqlInv, SqlTypeInv
  <1>2. /\ Len(sqlCalls) = 1 /\ SqlCall = call /\ call \in SpanCalls /\ call \notin OpenCalls
        /\ call.span \in 0..Len(sqlSpans)
    <2>1. sqlCalls # <<>> /\ "span" \in DOMAIN SqlCall
      BY DEF AfterSpanOp
    <2>2. SqlCall \notin OpenCalls /\ SqlCall \notin MakeCalls
      BY <2>1, CallKinds
    <2> QED BY <1>1, <2>1, <2>2, InProgress DEF CallsInv
  <1>3. /\ handles' \in {handles, Append(handles, NewTx(call))}
        /\ handles' # handles => call.op = "begin"
        /\ sqlCalls' = <<>> /\ enabled' = enabled
        /\ sqlSpans' = IF call.span = 0 THEN sqlSpans
                       ELSE [sqlSpans EXCEPT ![call.span].open = FALSE]
    BY <1>2 DEF AfterSpanOp, EndSpan
  <1>4. ~\E i \in 1..Len(handles) : BeingOpened(i)
    BY <1>2 DEF BeingOpened
  <1>5. /\ sqlSpans' \in Seq(SqlSpanRecord) /\ Len(sqlSpans') = Len(sqlSpans)
        /\ \A i \in 1..Len(sqlSpans) : SqlSpanInv(sqlSpans'[i])
    <2>1. CASE call.span = 0
      BY <1>1, <1>3, <2>1 DEF SqlInv
    <2>2. CASE call.span # 0
      <3> DEFINE k == call.span
                 s == [sqlSpans[k] EXCEPT !.open = FALSE]
      <3>1. k \in 1..Len(sqlSpans) /\ sqlSpans[k] \in SqlSpanRecord /\ SqlSpanInv(sqlSpans[k])
        BY <1>1, <1>2, <2>2 DEF SqlInv
      <3>2. /\ s \in SqlSpanRecord /\ s.info = sqlSpans[k].info /\ s.on = sqlSpans[k].on
            /\ s.kind = sqlSpans[k].kind /\ s.sql = sqlSpans[k].sql /\ s.op = sqlSpans[k].op
            /\ s.prepared = sqlSpans[k].prepared /\ s.trace = sqlSpans[k].trace
            /\ s.begun = sqlSpans[k].begun
        BY <3>1 DEF SqlSpanRecord
      <3>3. sqlSpans' = [sqlSpans EXCEPT ![k] = s]
        BY <1>3, <2>2
      <3> HIDE DEF s, k
      <3>4. SqlSpanInv(s)
        BY <3>1, <3>2 DEF SqlSpanInv, SaysWhatWasPrepared
      <3>5. /\ sqlSpans' \in Seq(SqlSpanRecord) /\ Len(sqlSpans') = Len(sqlSpans)
            /\ \A i \in 1..Len(sqlSpans) : sqlSpans'[i] = IF i = k THEN s ELSE sqlSpans[i]
        BY <1>1, <3>1, <3>2, <3>3
      <3> QED BY <3>4, <3>5 DEF SqlInv
    <2> QED BY <2>1, <2>2
  <1>6. CASE call.op = "begin"
    BY <1>2, <1>3, <1>4, <1>5, <1>6, TxBegun, HandleAdded
  <1>7. CASE call.op # "begin"
    <2> DEFINE h == Handle("db", Blank3, Blank3)
    <2>1. "db" \in HandleKinds /\ Blank3 \in InfoRecord
      BY Infos DEF HandleKinds
    <2>2. h \in HandleRecord /\ h.kind = "db" /\ h.info = h.source
      BY <2>1, HandleIsRecord
    <2>3. handles' = handles
      BY <1>3, <1>7
    <2> HIDE DEF h
    <2>4. HandleInv(h)
      BY <2>2 DEF HandleInv, SameDatabase, SaysWhatWasPrepared
    <2> QED BY <1>3, <1>4, <1>5, <2>2, <2>3, <2>4, HandleAdded
  <1> QED BY <1>6, <1>7

LEMMA BeforeMakeOpKeeps == SqlInv /\ BeforeMakeOp => SqlInv'
  <1> SUFFICES ASSUME SqlInv, BeforeMakeOp PROVE SqlInv'
    OBVIOUS
  <1>1. SqlTypeInv /\ CallsInv /\ handles \in Seq(HandleRecord) /\ sqlSpans \in Seq(SqlSpanRecord)
    BY DEF SqlInv, SqlTypeInv
  <1>2. PICK i \in 1..Len(handles) : \E op \in MakeOps[handles[i].kind] :
        \E query \in Queries, arg \in 1..Len(handles) :
          sqlCalls' = <<[op |-> op, on |-> i, arg |-> arg,
                         query |-> IF op = "stmt" THEN handles[arg].sql ELSE query,
                         prepared |-> IF op = "stmt" THEN handles[arg].prepared ELSE query]>>
    BY DEF BeforeMakeOp
  <1>3. PICK op \in MakeOps[handles[i].kind] : \E query \in Queries, arg \in 1..Len(handles) :
          sqlCalls' = <<[op |-> op, on |-> i, arg |-> arg,
                         query |-> IF op = "stmt" THEN handles[arg].sql ELSE query,
                         prepared |-> IF op = "stmt" THEN handles[arg].prepared ELSE query]>>
    BY <1>2
  <1>4. PICK query \in Queries, arg \in 1..Len(handles) :
          sqlCalls' = <<[op |-> op, on |-> i, arg |-> arg,
                         query |-> IF op = "stmt" THEN handles[arg].sql ELSE query,
                         prepared |-> IF op = "stmt" THEN handles[arg].prepared ELSE query]>>
    BY <1>3
  <1> DEFINE q == IF op = "stmt" THEN handles[arg].sql ELSE query
             p == IF op = "stmt" THEN handles[arg].prepared ELSE query
             call == [op |-> op, on |-> i, arg |-> arg, query |-> q, prepared |-> p]
  <1>5. sqlCalls' = <<call>> /\ sqlCalls = <<>> /\ UNCHANGED <<enabled, handles, sqlSpans>>
    BY <1>4 DEF BeforeMakeOp
  <1>6. op \in {"conn", "prepare", "stmt"}
    <2>1. handles[i] \in HandleRecord
      BY <1>1
    <2>2. handles[i].kind \in HandleKinds
      BY <2>1 DEF HandleRecord
    <2> QED BY <2>2, OpsOfKinds
  <1>7. q \in SqlTexts /\ p \in SqlTexts /\ (op = "prepare" => q = p)
    <2>1. handles[arg] \in HandleRecord
      BY <1>1
    <2> QED BY <2>1 DEF HandleRecord, SqlTexts
  <1>8. i \in Nat /\ arg \in Nat
    BY <1>1
  <1> HIDE DEF q, p
  <1>9. /\ call \in MakeCalls /\ call.op = op /\ call.on = i /\ call.arg = arg
        /\ call.query = q /\ call.prepared = p
    BY <1>6, <1>7, <1>8 DEF MakeCalls
  <1> HIDE DEF call
  <1>10. call \notin OpenCalls /\ call \notin SpanCalls
    BY <1>6, <1>9, CallKinds DEF SpanOpNames
  <1>11. CallsInv'
    BY <1>5, <1>7, <1>9, <1>10 DEF CallsInv
  <1> QED BY <1>1, <1>5, <1>9, <1>11, CallBegun DEF SqlInv

\* A handle made from another one is of the same database.
LEMMA HandleMade ==
  ASSUME SqlInv, Len(sqlCalls) = 1, sqlCalls[1] \in MakeCalls
  PROVE  Made(sqlCalls[1]) \in HandleRecord /\ (enabled => HandleInv(Made(sqlCalls[1])))
  <1> DEFINE call == sqlCalls[1]
             from == handles[call.arg]
             q == IF enabled THEN call.query ELSE ""
             p == call.prepared
  <1>1. /\ call.arg \in 1..Len(handles) /\ handles \in Seq(HandleRecord)
        /\ call.op \in {"conn", "prepare", "stmt"} /\ (call.op = "prepare" => call.query = p)
        /\ call.query \in SqlTexts /\ p \in SqlTexts
    BY DEF SqlInv, CallsInv, SqlTypeInv, MakeCalls
  <1>2. from \in HandleRecord
    BY <1>1
  <1>3. from.info \in InfoRecord /\ from.source \in InfoRecord /\ q \in SqlTexts
    BY <1>1, <1>2 DEF HandleRecord, SqlTexts
  <1>4. enabled => SameDatabase(from.info, from.source)
    <2>1. sqlCalls[1] \notin OpenCalls
      BY CallKinds
    <2> QED BY <1>1, <2>1 DEF SqlInv, SqlHandlesInv, HandleInv, BeingOpened
  <1> DEFINE nameless == [from.info EXCEPT !.dsn = ""]
             info == IF enabled THEN from.info ELSE Blank3
             info2 == IF enabled THEN nameless ELSE Blank3
  <1>5. info \in InfoRecord /\ info2 \in InfoRecord
    BY <1>3, Infos
  <1>6. enabled => /\ SameDatabase(info, from.source) /\ SameDatabase(info2, from.source)
                   /\ info2.dsn = ""
    BY <1>3, <1>4, Infos DEF SameDatabase, InfoRecord
  <1> HIDE DEF info, info2
  <1>7. "conn" \in HandleKinds /\ "stmt" \in HandleKinds
    BY DEF HandleKinds
  <1>8. CASE call.op = "conn"
    <2> DEFINE h == Handle("conn", info, from.source)
    <2>1. Made(call) = h
      BY <1>8 DEF Made, info
    <2>2. h \in HandleRecord /\ h.kind = "conn" /\ h.info = info /\ h.source = from.source
      <3>1. "conn" \in HandleKinds /\ info \in InfoRecord /\ from.source \in InfoRecord
        BY <1>3, <1>5, <1>7
      <3> QED BY <3>1, HandleIsRecord
    <2> HIDE DEF h
    <2> QED BY <1>6, <2>1, <2>2 DEF HandleInv, SaysWhatWasPrepared
  <1>9. CASE call.op = "prepare"
    <2> DEFINE base == Handle("stmt", info, from.source)
               h == [base EXCEPT !.sql = q, !.prepared = p]
    <2>1. Made(call) = h
      BY <1>9 DEF Made, info
    <2>2. /\ base \in HandleRecord /\ base.kind = "stmt" /\ base.info = info
          /\ base.source = from.source
      <3>1. "stmt" \in HandleKinds /\ info \in InfoRecord /\ from.source \in InfoRecord
        BY <1>3, <1>5, <1>7
      <3> QED BY <3>1, HandleIsRecord
    <2>3. enabled => q = p
      BY <1>1, <1>9
    <2> HIDE DEF base, q, p
    <2>4. h \in HandleRecord
      BY <1>1, <1>3, <2>2, Zenon DEF HandleRecord
    <2>5. h.kind = "stmt" /\ h.info = info /\ h.source = from.source /\ h.sql = q /\ h.prepared = p
      BY <2>2 DEF HandleRecord
    <2> HIDE DEF h
    <2> QED BY <1>6, <2>1, <2>3, <2>4, <2>5 DEF HandleInv, SaysWhatWasPrepared
  <1>10. CASE call.op = "stmt"
    <2> DEFINE base == Handle("stmt", info2, from.source)
               h == [base EXCEPT !.prepared = p]
    <2>1. Made(call) = h
      BY <1>10 DEF Made, info2
    <2>2. /\ base \in HandleRecord /\ base.kind = "stmt" /\ base.info = info2
          /\ base.source = from.source
      <3>1. "stmt" \in HandleKinds /\ info2 \in InfoRecord /\ from.source \in InfoRecord
        BY <1>3, <1>5, <1>7
      <3> QED BY <3>1, HandleIsRecord
    <2>a. base.sql = ""
      BY DEF Handle
    <2> HIDE DEF base
    <2>3. /\ h \in HandleRecord /\ h.kind = "stmt" /\ h.info = info2 /\ h.source = from.source
          /\ h.sql = ""
      BY <1>1, <2>2, <2>a DEF HandleRecord
    <2> HIDE DEF h
    <2> QED BY <1>6, <2>1, <2>3 DEF HandleInv, SaysWhatWasPrepared
  <1> QED BY <1>1, <1>8, <1>9, <1>10

LEMMA AfterMakeOpKeeps == SqlInv /\ AfterMakeOp => SqlInv'
  <1> SUFFICES ASSUME SqlInv, AfterMakeOp PROVE SqlInv'
    OBVIOUS
  <1>1. SqlTypeInv /\ sqlSpans \in Seq(SqlSpanRecord)
    BY DEF SqlInv, SqlTypeInv
  <1>2. /\ Len(sqlCalls) = 1 /\ SqlCall = sqlCalls[1] /\ sqlCalls[1] \in MakeCalls
        /\ sqlCalls[1] \notin OpenCalls
    <2>1. sqlCalls # <<>> /\ "arg" \in DOMAIN SqlCall
      BY DEF AfterMakeOp
    <2>2. SqlCall \notin OpenCalls /\ SqlCall \notin SpanCalls
      BY <2>1, CallKinds
    <2> QED BY <2>1, <2>2, InProgress
  <1>3. /\ handles' \in {handles, Append(handles, Made(sqlCalls[1]))} /\ sqlCalls' = <<>>
        /\ UNCHANGED <<enabled, sqlSpans>>
    BY <1>2 DEF AfterMakeOp
  <1>4. ~\E i \in 1..Len(handles) : BeingOpened(i)
    BY <1>2 DEF BeingOpened
  <1>5. \A i \in 1..Len(sqlSpans) : SqlSpanInv(sqlSpans'[i])
    BY <1>3 DEF SqlInv
  <1> QED BY <1>1, <1>2, <1>3, <1>4, <1>5, HandleMade, HandleAdded

LEMMA SqlSteps == SqlInv /\ [SqlNext]_sqlVars => SqlInv'
  <1> SUFFICES ASSUME SqlInv, UNCHANGED sqlVars PROVE SqlInv'
    BY BeforeOpenKeeps, AfterOpenDBKeeps, AfterOpenKeeps, BeforeSpanOpKeeps, AfterSpanOpKeeps,
       BeforeMakeOpKeeps, AfterMakeOpKeeps DEF SqlNext
  <1> QED BY ZenonT(40) DEF sqlVars, SqlInv, SqlTypeInv, CallsInv, SqlHandlesInv, BeingOpened,
                            HandleInv, SqlSpanInv, SaysWhatWasPrepared, SameDatabase

\* For any databases and statements and any number of handles and spans, what Open
\* was told reaches every handle made from the database, and the trace of a begin
\* its transaction: SqlInv is inductive.
THEOREM SqlInvariant == SqlSpec => []SqlInv
  BY SqlStarts, SqlSteps, PTL DEF SqlSpec

\* A span names its database as Open or OpenDB was told it, and a prepared
\* statement's what was prepared, through chains of handles of any length.
THEOREM SpansDescribeTheirHandleHolds == SqlSpec => []SpansDescribeTheirHandle
  <1>1. SqlInv => SpansDescribeTheirHandle
    BY DEF SqlInv, SqlSpanInv, SameDatabase, SaysWhatWasPrepared, SpansDescribeTheirHandle
  <1> QED BY <1>1, SqlInvariant, PTL

\* The commit or rollback of any transaction is in the trace of its begin.
THEOREM CommitsJoinBeginHolds == SqlSpec => []CommitsJoinBegin
  <1>1. SqlInv => CommitsJoinBegin
    BY DEF SqlInv, SqlSpanInv, CommitsJoinBegin
  <1> QED BY <1>1, SqlInvariant, PTL

-----------------------------------------------------------------------------
(* DsnParse.  Which host and port a dialect's parser finds is checked on   *)
(* the forms users write; that the endpoint made of them can be taken      *)
(* apart again is proved, whatever they are: a host has no brackets, and   *)
(* no colon or, as IPv6 addresses have, several.                           *)

\* A set of numbers that has a greatest, or a least, one.
LEMMA MaxIs ==
  ASSUME NEW S \in SUBSET Int, NEW m \in S, \A k \in S : k <= m
  PROVE  Max(S) = m
  <1>1. \A x \in S : (\A y \in S : x >= y) => x = m
    OBVIOUS
  <1>2. \A y \in S : m >= y
    OBVIOUS
  <1> QED BY <1>1, <1>2 DEF Max

LEMMA MinIs ==
  ASSUME NEW S \in SUBSET Int, NEW m \in S, \A k \in S : m <= k
  PROVE  Min(S) = m
  <1>1. \A x \in S : (\A y \in S : x <= y) => x = m
    OBVIOUS
  <1> QED BY <1>1 DEF Min

NoneOf(s, c) == \A k \in 1..Len(s) : s[k] # c
FirstAt(s, c, i) == i \in 1..Len(s) /\ s[i] = c /\ \A k \in 1..Len(s) : s[k] = c => i <= k
LastAt(s, c, i) == i \in 1..Len(s) /\ s[i] = c /\ \A k \in 1..Len(s) : s[k] = c => k <= i

\* Where a character first stands, and where it last stands.
LEMMA FirstIs ==
  ASSUME NEW Chars, NEW s \in Seq(Chars), NEW c
  PROVE  /\ NoneOf(s, c) => FirstOf(s, {c}) = 0
         /\ \A i : FirstAt(s, c, i) => FirstOf(s, {c}) = i
  <1> DEFINE at == {j \in 1..Len(s) : s[j] \in {c}}
  <1>1. FirstOf(s, {c}) = IF at = {} THEN 0 ELSE Min(at)
    BY DEF FirstOf, FirstFrom
  <1>2. ASSUME NEW i, FirstAt(s, c, i) PROVE FirstOf(s, {c}) = i
    <2>1. at \in SUBSET Int /\ i \in at /\ \A k \in at : i <= k
      BY <1>2 DEF FirstAt
    <2> HIDE DEF at
    <2> QED BY <1>1, <2>1, MinIs
  <1> QED BY <1>1, <1>2 DEF NoneOf

LEMMA LastIs ==
  ASSUME NEW Chars, NEW s \in Seq(Chars), NEW c, NEW i, LastAt(s, c, i)
  PROVE  LastOf(s, c) = i
  <1> DEFINE at == {k \in DOMAIN s : s[k] = c} \cup {0}
  <1>1. LastOf(s, c) = Max(at) /\ DOMAIN s = 1..Len(s) /\ at \in SUBSET Int
    BY DEF LastOf
  <1>2. i \in at /\ \A k \in at : k <= i
    BY <1>1 DEF LastAt
  <1> HIDE DEF at
  <1> QED BY <1>1, <1>2, MaxIs

\* One text behind another.
LEMMA TextBehind ==
  ASSUME NEW S, NEW s \in Seq(S), NEW t \in Seq(S)
  PROVE  /\ s \o t \in Seq(S) /\ Len(s \o t) = Len(s) + Len(t)
         /\ \A k \in 1..Len(s) : (s \o t)[k] = s[k]
         /\ \A k \in 1..Len(t) : (s \o t)[Len(s) + k] = t[k]
  <1> DEFINE m == Len(s)
             n == Len(t)
             u == s \o t
  <1>1. /\ u \in Seq(S) /\ Len(u) = m + n
        /\ \A k \in 1..(m + n) : u[k] = IF k <= m THEN s[k] ELSE t[k - m]
    BY ConcatProperties
  <1>2. m \in Nat /\ n \in Nat
    OBVIOUS
  <1> HIDE DEF m, n, u
  <1>3. \A k \in 1..m : k \in 1..(m + n) /\ k <= m
    BY <1>2
  <1>4. \A k \in 1..n : m + k \in 1..(m + n) /\ ~(m + k <= m) /\ (m + k) - m = k
    BY <1>2
  <1> QED BY <1>1, <1>3, <1>4 DEF m, n, u

\* A character behind a text, and one in front of it.
LEMMA CharAround ==
  ASSUME NEW S, NEW s \in Seq(S), NEW c \in S
  PROVE  /\ s \o <<c>> \in Seq(S) /\ Len(s \o <<c>>) = Len(s) + 1
         /\ (s \o <<c>>)[Len(s) + 1] = c /\ \A k \in 1..Len(s) : (s \o <<c>>)[k] = s[k]
         /\ <<c>> \o s \in Seq(S) /\ Len(<<c>> \o s) = Len(s) + 1
         /\ (<<c>> \o s)[1] = c /\ \A k \in 1..Len(s) : (<<c>> \o s)[k + 1] = s[k]
  <1> DEFINE one == <<c>>
  <1>1. one \in Seq(S) /\ Len(one) = 1 /\ one[1] = c /\ Len(s) \in Nat
    OBVIOUS
  <1> HIDE DEF one
  <1>2. /\ s \o one \in Seq(S) /\ Len(s \o one) = Len(s) + 1
        /\ \A k \in 1..(Len(s) + 1) : (s \o one)[k] = IF k <= Len(s) THEN s[k] ELSE one[k - Len(s)]
    BY <1>1, ConcatProperties
  <1>3. /\ one \o s \in Seq(S) /\ Len(one \o s) = 1 + Len(s)
        /\ \A k \in 1..(1 + Len(s)) : (one \o s)[k] = IF k <= 1 THEN one[k] ELSE s[k - 1]
    <2>1. /\ one \o s \in Seq(S) /\ Len(one \o s) = Len(one) + Len(s)
          /\ \A k \in 1..(Len(one) + Len(s)) :
               (one \o s)[k] = IF k <= Len(one) THEN one[k] ELSE s[k - Len(one)]
      BY <1>1, ConcatProperties, Zenon
    <2> QED BY <1>1, <2>1
  <1> DEFINE n == Len(s)
             f == s \o one
             g == one \o s
  <1> HIDE DEF n, f, g
  <1>4. f[n + 1] = c /\ \A k \in 1..n : f[k] = s[k]
    <2>1. n \in Nat /\ \A k \in 1..(n + 1) : f[k] = IF k <= n THEN s[k] ELSE one[k - n]
      BY <1>1, <1>2 DEF n, f
    <2>2. n + 1 \in 1..(n + 1) /\ ~(n + 1 <= n) /\ (n + 1) - n = 1
      BY <2>1
    <2>3. \A k \in 1..n : k \in 1..(n + 1) /\ k <= n
      BY <2>1
    <2> QED BY <1>1, <2>1, <2>2, <2>3
  <1>5. g[1] = c /\ \A k \in 1..n : g[k + 1] = s[k]
    <2>1. n \in Nat /\ \A k \in 1..(1 + n) : g[k] = IF k <= 1 THEN one[k] ELSE s[k - 1]
      BY <1>1, <1>3 DEF n, g
    <2>2. 1 \in 1..(1 + n) /\ 1 <= 1
      BY <2>1
    <2>3. \A k \in 1..n : k + 1 \in 1..(1 + n) /\ ~(k + 1 <= 1) /\ (k + 1) - 1 = k
      BY <2>1
    <2> QED BY <1>1, <2>1, <2>2, <2>3
  <1> QED BY <1>1, <1>2, <1>3, <1>4, <1>5 DEF one, n, f, g

\* The characters texts are made of.
HasMarks(Chars) == {":", "[", "]"} \subseteq Chars

\* A name, or an IPv6 address: without brackets, and with no colon or several.
IsHost(Chars, h) ==
  /\ h \in Seq(Chars) /\ h # <<>>
  /\ NoneOf(h, "[") /\ NoneOf(h, "]")
  /\ \/ NoneOf(h, ":")
     \/ \E i, j \in 1..Len(h) : FirstAt(h, ":", i) /\ LastAt(h, ":", j) /\ i < j

IsPort(Chars, p) == p \in Seq(Chars) /\ NoneOf(p, ":") /\ NoneOf(p, "]")

\* The endpoint of a plain host, of one with its port, and of an address in brackets.
IsEndpoint(addr, h, p) ==
  /\ p = <<>> => addr = h
  /\ p # <<>> /\ NoneOf(h, ":") => addr = h \o <<":">> \o p
  /\ p # <<>> /\ ~NoneOf(h, ":") => addr = (<<"[">> \o h \o <<"]">>) \o <<":">> \o p

LEMMA AddrShapes ==
  ASSUME NEW Chars, NEW info, IsHost(Chars, info.host), IsPort(Chars, info.port)
  PROVE  IsEndpoint(Addr(info), info.host, info.port)
  <1> DEFINE h == info.host
             p == info.port
  <1>0. IsHost(Chars, h) /\ IsPort(Chars, p)
    OBVIOUS
  <1>1. /\ h \in Seq(Chars) /\ h # <<>> /\ Len(h) \in Nat /\ Len(h) >= 1 /\ Head(h) = h[1]
        /\ Head(h) # "["
    BY DEF IsHost, NoneOf
  <1>2. TrimHostBrackets(h) = h
    BY <1>1 DEF TrimHostBrackets
  <1>4. NoneOf(h, ":") => FirstOf(h, {":"}) = 0
    BY <1>1, FirstIs
  <1>5. ~NoneOf(h, ":") => FirstOf(h, {":"}) > 0
    <2> SUFFICES ASSUME ~NoneOf(h, ":") PROVE FirstOf(h, {":"}) > 0
      OBVIOUS
    <2>1. PICK i \in 1..Len(h) : FirstAt(h, ":", i)
      BY DEF IsHost
    <2>2. FirstOf(h, {":"}) = i
      BY <1>1, <2>1, FirstIs
    <2> QED BY <1>1, <2>2
  <1> DEFINE first == FirstOf(h, {":"})
  <1>6. Addr(info) = IF p = <<>> THEN h
                     ELSE (IF first > 0 THEN <<"[">> \o h \o <<"]">> ELSE h) \o <<":">> \o p
    <2>1. Addr(info) = IF h = <<>> \/ p = <<>> THEN h ELSE Bracketed(h) \o <<":">> \o p
      BY <1>2 DEF Addr
    <2> QED BY <1>1, <2>1 DEF Bracketed
  <1> HIDE DEF first
  <1>7. NoneOf(h, ":") => ~(first > 0)
    BY <1>4 DEF first
  <1>8. ~NoneOf(h, ":") => first > 0
    BY <1>5 DEF first
  <1> QED BY <1>6, <1>7, <1>8 DEF IsEndpoint

\* net.SplitHostPort takes apart what net.JoinHostPort put together.
LEMMA PlainSplits ==
  ASSUME NEW Chars, HasMarks(Chars), NEW h, NEW p, IsHost(Chars, h), IsPort(Chars, p), NoneOf(h, ":")
  PROVE  SplitHostPort(h \o <<":">> \o p) = <<h, p>>
  <1> DEFINE n == Len(h)
             a == h \o <<":">> \o p
  <1>0. ":" \in Chars /\ "[" \in Chars /\ "]" \in Chars
    BY DEF HasMarks
  <1>1. /\ h \in Seq(Chars) /\ p \in Seq(Chars) /\ n \in Nat /\ Len(p) \in Nat /\ n >= 1
        /\ h[1] # "["
    BY DEF IsHost, IsPort, NoneOf
  <1>2. /\ a \in Seq(Chars) /\ Len(a) = n + 1 + Len(p)
        /\ \A k \in 1..n : a[k] = h[k]
        /\ a[n + 1] = ":" /\ \A k \in 1..Len(p) : a[n + 1 + k] = p[k]
    <2> DEFINE b == h \o <<":">>
    <2>1. /\ b \in Seq(Chars) /\ Len(b) = n + 1 /\ b[n + 1] = ":"
          /\ \A k \in 1..n : b[k] = h[k]
      <3>1. /\ h \o <<":">> \in Seq(Chars) /\ Len(h \o <<":">>) = Len(h) + 1
             /\ (h \o <<":">>)[Len(h) + 1] = ":" /\ \A k \in 1..Len(h) : (h \o <<":">>)[k] = h[k]
        BY <1>1, <1>0, CharAround
      <3> QED BY <1>1, <3>1
    <2> HIDE DEF b, n
    <2>2. /\ b \o p \in Seq(Chars) /\ Len(b \o p) = n + 1 + Len(p)
          /\ \A k \in 1..(n + 1) : (b \o p)[k] = b[k]
          /\ \A k \in 1..Len(p) : (b \o p)[n + 1 + k] = p[k]
      <3>0. b \in Seq(Chars) /\ p \in Seq(Chars)
        BY <1>1, <2>1
      <3>1. /\ b \o p \in Seq(Chars) /\ Len(b \o p) = Len(b) + Len(p)
            /\ \A k \in 1..Len(b) : (b \o p)[k] = b[k]
            /\ \A k \in 1..Len(p) : (b \o p)[Len(b) + k] = p[k]
        BY <3>0, TextBehind
      <3> QED BY <2>1, <3>1
    <2>3. n + 1 \in 1..(n + 1) /\ \A k \in 1..n : k \in 1..(n + 1)
      BY <1>1
    <2> QED BY <2>1, <2>2, <2>3 DEF b
  <1>3. a # <<>> /\ Head(a) # "["
    BY <1>1, <1>2
  <1> HIDE DEF a, n
  <1>4. /\ n + 1 \in 1..Len(a)
        /\ \A k \in 1..Len(a) : a[k] = ":" => k = n + 1
    <2>1. ASSUME NEW k \in 1..Len(a), k # n + 1 PROVE a[k] # ":"
      <3>1. CASE k \in 1..n
        BY <1>2, <3>1 DEF NoneOf, n
      <3>2. CASE k \notin 1..n
        <4>1. k - (n + 1) \in 1..Len(p) /\ n + 1 + (k - (n + 1)) = k
          BY <1>1, <1>2, <2>1, <3>2
        <4>2. a[k] = p[k - (n + 1)]
          BY <1>2, <4>1
        <4> QED BY <4>1, <4>2 DEF IsPort, NoneOf
      <3> QED BY <3>1, <3>2
    <2> QED BY <1>1, <1>2, <2>1
  <1>5. FirstOf(a, {":"}) = n + 1 /\ LastOf(a, ":") = n + 1
    <2>1. FirstAt(a, ":", n + 1) /\ LastAt(a, ":", n + 1)
      BY <1>1, <1>2, <1>4 DEF FirstAt, LastAt
    <2> QED BY <1>2, <1>4, <2>1, FirstIs, LastIs
  <1>6. SplitHostPort(a) = <<UpTo(a, n + 1), After(a, n + 1)>>
    BY <1>1, <1>3, <1>5 DEF SplitHostPort
  <1>7. UpTo(a, n + 1) = h
    <2>1. UpTo(a, n + 1) = SubSeq(a, 1, n)
      BY <1>1 DEF UpTo
    <2>2. /\ SubSeq(a, 1, n) \in Seq(Chars) /\ Len(SubSeq(a, 1, n)) = n
          /\ \A k \in 1..n : SubSeq(a, 1, n)[k] = a[k]
      BY <1>1, <1>2
    <2> DEFINE front == SubSeq(a, 1, n)
    <2> HIDE DEF front
    <2>3. front = h
      BY <1>1, <1>2, <2>2, SeqEqual DEF front, n
    <2> QED BY <2>1, <2>3 DEF front
  <1>8. After(a, n + 1) = p
    <2> DEFINE back == SubSeq(a, n + 2, Len(a))
    <2>1. After(a, n + 1) = back
      BY <1>1 DEF After
    <2>2. /\ back \in Seq(Chars) /\ Len(back) = Len(p)
          /\ \A k \in 1..Len(p) : back[k] = p[k]
      BY <1>1, <1>2
    <2> HIDE DEF back
    <2>3. back = p
      BY <1>1, <2>2, SeqEqual
    <2> QED BY <2>1, <2>3
  <1> QED BY <1>6, <1>7, <1>8 DEF a

LEMMA BracketedSplits ==
  ASSUME NEW Chars, HasMarks(Chars), NEW h, NEW p, IsHost(Chars, h), IsPort(Chars, p), p # <<>>
  PROVE  SplitHostPort((<<"[">> \o h \o <<"]">>) \o <<":">> \o p) = <<h, p>>
  <1> DEFINE n == Len(h)
             a == (<<"[">> \o h \o <<"]">>) \o <<":">> \o p
  <1>0. ":" \in Chars /\ "[" \in Chars /\ "]" \in Chars
    BY DEF HasMarks
  <1>1. h \in Seq(Chars) /\ p \in Seq(Chars) /\ n \in Nat /\ Len(p) \in Nat /\ Len(p) >= 1
    BY DEF IsHost, IsPort
  <1>2. /\ a \in Seq(Chars) /\ Len(a) = n + 3 + Len(p)
        /\ a[1] = "[" /\ a[n + 2] = "]" /\ a[n + 3] = ":"
        /\ \A k \in 1..n : a[k + 1] = h[k]
        /\ \A k \in 1..Len(p) : a[n + 3 + k] = p[k]
    <2> DEFINE b == <<"[">> \o h
               c == b \o <<"]">>
               e == c \o <<":">>
    <2>1. /\ b \in Seq(Chars) /\ Len(b) = n + 1 /\ b[1] = "["
          /\ \A k \in 1..n : b[k + 1] = h[k]
      <3>1. /\ <<"[">> \o h \in Seq(Chars) /\ Len(<<"[">> \o h) = Len(h) + 1
             /\ (<<"[">> \o h)[1] = "[" /\ \A k \in 1..Len(h) : (<<"[">> \o h)[k + 1] = h[k]
        BY <1>1, <1>0, CharAround
      <3> QED BY <1>1, <3>1
    <2> HIDE DEF b, n
    <2>2. /\ c \in Seq(Chars) /\ Len(c) = n + 2 /\ c[n + 2] = "]"
          /\ \A k \in 1..(n + 1) : c[k] = b[k]
      <3>1. /\ b \o <<"]">> \in Seq(Chars) /\ Len(b \o <<"]">>) = Len(b) + 1
             /\ (b \o <<"]">>)[Len(b) + 1] = "]" /\ \A k \in 1..Len(b) : (b \o <<"]">>)[k] = b[k]
        BY <2>1, <1>0, CharAround
      <3>2. Len(b) + 1 = n + 2
        BY <1>1, <2>1
      <3> HIDE DEF c
      <3>3. /\ c \in Seq(Chars) /\ Len(c) = Len(b) + 1 /\ c[Len(b) + 1] = "]"
            /\ \A k \in 1..Len(b) : c[k] = b[k]
        BY <3>1 DEF c
      <3> QED BY <2>1, <3>2, <3>3
    <2> HIDE DEF c
    <2>3. /\ e \in Seq(Chars) /\ Len(e) = n + 3 /\ e[n + 3] = ":"
          /\ \A k \in 1..(n + 2) : e[k] = c[k]
      <3>1. /\ c \o <<":">> \in Seq(Chars) /\ Len(c \o <<":">>) = Len(c) + 1
             /\ (c \o <<":">>)[Len(c) + 1] = ":" /\ \A k \in 1..Len(c) : (c \o <<":">>)[k] = c[k]
        BY <2>2, <1>0, CharAround
      <3>2. Len(c) + 1 = n + 3
        BY <1>1, <2>2
      <3> HIDE DEF e
      <3>3. /\ e \in Seq(Chars) /\ Len(e) = Len(c) + 1 /\ e[Len(c) + 1] = ":"
            /\ \A k \in 1..Len(c) : e[k] = c[k]
        BY <3>1 DEF e
      <3> QED BY <2>2, <3>2, <3>3
    <2> HIDE DEF e
    <2>4. /\ e \o p \in Seq(Chars) /\ Len(e \o p) = n + 3 + Len(p)
          /\ \A k \in 1..(n + 3) : (e \o p)[k] = e[k]
          /\ \A k \in 1..Len(p) : (e \o p)[n + 3 + k] = p[k]
      <3>0. e \in Seq(Chars) /\ p \in Seq(Chars)
        BY <1>1, <2>3
      <3>1. /\ e \o p \in Seq(Chars) /\ Len(e \o p) = Len(e) + Len(p)
            /\ \A k \in 1..Len(e) : (e \o p)[k] = e[k]
            /\ \A k \in 1..Len(p) : (e \o p)[Len(e) + k] = p[k]
        BY <3>0, TextBehind
      <3> QED BY <2>3, <3>1
    <2>5. /\ n + 3 \in 1..(n + 3) /\ n + 2 \in 1..(n + 3) /\ n + 2 \in 1..(n + 2)
          /\ 1 \in 1..(n + 3) /\ 1 \in 1..(n + 2) /\ 1 \in 1..(n + 1)
          /\ \A k \in 1..n : k + 1 \in 1..(n + 1) /\ k + 1 \in 1..(n + 2) /\ k + 1 \in 1..(n + 3)
      BY <1>1
    <2>6. a = e \o p
      BY DEF b, c, e
    <2> HIDE DEF a
    <2>7. a[1] = "[" /\ a[n + 2] = "]" /\ a[n + 3] = ":"
      BY <2>1, <2>2, <2>3, <2>4, <2>5, <2>6
    <2>8. ASSUME NEW k \in 1..n PROVE a[k + 1] = h[k]
      BY <2>1, <2>2, <2>3, <2>4, <2>5, <2>6
    <2> QED BY <2>4, <2>6, <2>7, <2>8
  <1>3. a # <<>> /\ Head(a) = "["
    BY <1>1, <1>2
  <1> HIDE DEF a, n
  <1>4. n + 2 \in 1..Len(a) /\ \A k \in 1..Len(a) : a[k] = "]" => k <= n + 2
    <2>1. ASSUME NEW k \in 1..Len(a), ~(k <= n + 2) PROVE a[k] # "]"
      <3>1. CASE k = n + 3
        BY <1>2, <3>1
      <3>2. CASE k # n + 3
        <4>1. k - (n + 3) \in 1..Len(p) /\ n + 3 + (k - (n + 3)) = k
          BY <1>1, <1>2, <2>1, <3>2
        <4>2. a[k] = p[k - (n + 3)]
          BY <1>2, <4>1
        <4> QED BY <4>1, <4>2 DEF IsPort, NoneOf
      <3> QED BY <3>1, <3>2
    <2> QED BY <1>1, <1>2, <2>1
  <1>5. LastOf(a, "]") = n + 2
    <2>1. LastAt(a, "]", n + 2)
      BY <1>2, <1>4 DEF LastAt
    <2> QED BY <1>2, <2>1, LastIs
  <1> DEFINE back == SubSeq(a, n + 4, Len(a))
             inside == SubSeq(a, 2, n + 1)
             rest == SubSeq(a, n + 3, Len(a))
  <1>6. rest # <<>>
    <2>1. Len(rest) = 1 + Len(p)
      BY <1>1, <1>2
    <2> QED BY <1>1, <2>1
  <1>7. SplitHostPort(a) = <<inside, back>>
    <2>1. /\ After(a, n + 2) = rest /\ After(a, n + 3) = back
          /\ SubSeq(a, 2, n + 2 - 1) = inside
      BY <1>1 DEF After
    <2> HIDE DEF rest, back, inside
    <2>2. SplitBracketed(a, <<>>) = <<SubSeq(a, 2, n + 2 - 1), After(a, n + 2 + 1)>>
      <3> DEFINE rb == LastOf(a, "]")
      <3>1. rb = n + 2 /\ rb > 0 /\ After(a, rb) # <<>>
        BY <1>1, <1>5, <1>6, <2>1
      <3>2. SplitBracketed(a, <<>>) =
              IF a # <<>> /\ Head(a) = "[" /\ rb > 0
              THEN <<SubSeq(a, 2, rb - 1),
                     IF After(a, rb) # <<>> THEN After(a, rb + 1) ELSE <<>>>>
              ELSE IF LastOf(a, ":") > 0 THEN <<UpTo(a, LastOf(a, ":")), After(a, LastOf(a, ":"))>>
              ELSE <<a, <<>>>>
        BY DEF SplitBracketed
      <3> HIDE DEF rb
      <3>3. SplitBracketed(a, <<>>) = <<SubSeq(a, 2, rb - 1), After(a, rb + 1)>>
        BY <1>3, <3>1, <3>2, Zenon
      <3>4. rb - 1 = n + 2 - 1 /\ rb + 1 = n + 2 + 1
        BY <1>1, <3>1
      <3> QED BY <3>3, <3>4
    <2>3. n + 2 + 1 = n + 3
      BY <1>1
    <2> QED BY <1>3, <2>1, <2>2, <2>3 DEF SplitHostPort
  <1>8. inside = h
    <2>1. inside \in Seq(Chars) /\ Len(inside) = n /\ \A k \in 1..n : inside[k] = h[k]
      BY <1>1, <1>2
    <2> HIDE DEF inside
    <2> QED BY <1>1, <2>1, SeqEqual DEF n
  <1>9. back = p
    <2>1. back \in Seq(Chars) /\ Len(back) = Len(p) /\ \A k \in 1..Len(p) : back[k] = p[k]
      BY <1>1, <1>2
    <2> HIDE DEF back
    <2> QED BY <1>1, <2>1, SeqEqual
  <1> QED BY <1>7, <1>8, <1>9 DEF a

\* Without a port the endpoint is the host, whose colons, if any, are too many.
LEMMA AloneSplits ==
  ASSUME NEW Chars, NEW h, IsHost(Chars, h)
  PROVE  SplitHostPort(h) = <<h, <<>>>>
  <1>1. h \in Seq(Chars) /\ h # <<>> /\ Head(h) # "["
    BY DEF IsHost, NoneOf
  <1>2. CASE NoneOf(h, ":")
    <2>1. FirstOf(h, {":"}) = 0
      BY <1>1, <1>2, FirstIs DEF NoneOf
    <2> QED BY <1>1, <2>1 DEF SplitHostPort
  <1>3. CASE ~NoneOf(h, ":")
    <2>1. PICK i, j \in 1..Len(h) : FirstAt(h, ":", i) /\ LastAt(h, ":", j) /\ i < j
      BY <1>3 DEF IsHost
    <2>2. FirstOf(h, {":"}) = i /\ LastOf(h, ":") = j
      BY <1>1, <2>1, FirstIs, LastIs
    <2>3. FirstOf(h, {":"}) # 0 /\ FirstOf(h, {":"}) # LastOf(h, ":")
      BY <2>1, <2>2
    <2> QED BY <1>1, <2>3 DEF SplitHostPort
  <1> QED BY <1>2, <1>3

LEMMA EndpointComesApart ==
  ASSUME NEW Chars, HasMarks(Chars), NEW o, NEW info, NEW h, NEW p,
         IsHost(Chars, info.host), IsPort(Chars, info.port), h = info.host, p = info.port
  PROVE  SplitHostPort(Described(o, info).endpoint) = <<h, p>>
  <1> DEFINE addr == Addr(info)
  <1>0. /\ p = <<>> => addr = h
        /\ p # <<>> /\ NoneOf(h, ":") => addr = h \o <<":">> \o p
        /\ p # <<>> /\ ~NoneOf(h, ":") => addr = (<<"[">> \o h \o <<"]">>) \o <<":">> \o p
    <2>1. IsEndpoint(addr, info.host, info.port)
      BY AddrShapes
    <2> HIDE DEF addr
    <2> QED BY <2>1 DEF IsEndpoint
  <1>1. SplitHostPort(addr) = <<h, p>>
    <2>1. CASE p = <<>>
      BY <2>1, <1>0, AloneSplits
    <2>2. CASE p # <<>> /\ NoneOf(h, ":")
      <3>1. addr = h \o <<":">> \o p
        BY <2>2, <1>0
      <3> HIDE DEF addr
      <3> QED BY <2>2, <3>1, PlainSplits
    <2>3. CASE p # <<>> /\ ~NoneOf(h, ":")
      <3>1. addr = (<<"[">> \o h \o <<"]">>) \o <<":">> \o p
        BY <2>3, <1>0
      <3> HIDE DEF addr
      <3> QED BY <2>3, <3>1, BracketedSplits
    <2> QED BY <2>1, <2>2, <2>3
  <1>2. addr # <<>>
    <2>1. h \in Seq(Chars) /\ p \in Seq(Chars) /\ h # <<>>
      BY DEF IsHost, IsPort
    <2>2. /\ h \o <<":">> \o p # <<>>
          /\ (<<"[">> \o h \o <<"]">>) \o <<":">> \o p # <<>>
      BY <2>1
    <2> QED BY <2>1, <2>2, <1>0
  <1>3. Described(o, info).endpoint = Default(addr, <<"unknown">>)
    BY DEF Described
  <1>4. Default(addr, <<"unknown">>) = addr
    BY <1>2 DEF Default
  <1> QED BY <1>1, <1>3, <1>4

\* DSNInfo.Addr: server.address and server.port, which net.SplitHostPort reads off
\* the endpoint, are the host and the port that the parser found, for every
\* driver, any DSN and any host and port in it.
THEOREM EndpointsComeApart ==
  ASSUME NEW CONSTANT Chars, HasMarks(Chars)
  PROVE  DsnInit /\ [][DsnNext]_dsnRead =>
           [](IsHost(Chars, dsnRead.found.host) /\ IsPort(Chars, dsnRead.found.port) =>
                SplitHostPort(dsnRead.endpoint) = <<dsnRead.found.host, dsnRead.found.port>>)
  <1> DEFINE Inv == IsHost(Chars, dsnRead.found.host) /\ IsPort(Chars, dsnRead.found.port) =>
                      SplitHostPort(dsnRead.endpoint) = <<dsnRead.found.host, dsnRead.found.port>>
  <1>1. DsnInit => Inv
    BY DEF DsnInit, NoInfo, DsnInfo, IsHost
  <1>2. Inv /\ [DsnNext]_dsnRead => Inv'
    <2> SUFFICES ASSUME Inv, [DsnNext]_dsnRead PROVE Inv'
      OBVIOUS
    <2>1. CASE DsnNext
      <3>1. PICK o \in Openings : Read(o)
        BY <2>1 DEF DsnNext
      <3> DEFINE info == ParseDSN(o.driver, o.dsn)
      <3>2. dsnRead' = Described(o, info)
        BY <3>1 DEF Read
      <3> HIDE DEF info
      <3>3. dsnRead'.found = info
        BY <3>2 DEF Described
      <3>4. IsHost(Chars, info.host) /\ IsPort(Chars, info.port) =>
              SplitHostPort(dsnRead'.endpoint) = <<info.host, info.port>>
        BY <3>2, EndpointComesApart
      <3> QED BY <3>3, <3>4
    <2>2. CASE UNCHANGED dsnRead
      BY <2>2
    <2> QED BY <2>1, <2>2
  <1> QED BY <1>1, <1>2, PTL

-----------------------------------------------------------------------------
(* GenAIStream.  The status of a span follows the lines that were parsed,  *)
(* and these are the lines that arrived unless the stream broke: a line    *)
(* left in the buffer is parsed by whoever ends the span.                  *)

GenSpanRecord ==
  [started : BOOLEAN, ends : Nat, failed : BOOLEAN, hard : BOOLEAN, durations : Nat]

IsReader(r) ==
  /\ r = [completed |-> r.completed, reasons |-> r.reasons, captured |-> r.captured]
  /\ r.completed \in BOOLEAN /\ r.reasons \in BOOLEAN

GenTypeInv ==
  /\ genStage \in {"new", "sent", "streaming", "over"}
  /\ genSpan \in GenSpanRecord
  /\ pending \in [line : EventLines, have : Nothing..WholeText]
  /\ reading \in BOOLEAN /\ bodyOpen \in BOOLEAN
  /\ IsReader(reader)
  /\ arrived \in Seq(EventLines)

\* A line that says how the stream ended.
Tells(line) == line.kind = "done" \/ line.finish

SomeTells(lines) == \E i \in 1..Len(lines) : Tells(lines[i])

Complete(r) == r.completed \/ r.reasons

GenStagesInv ==
  /\ genStage = "new" => ~genSpan.started /\ genSpan.ends = 0
  /\ genStage = "sent" => genSpan.started /\ genSpan.ends = 0
  /\ genStage = "streaming" => genSpan.started /\ (bodyOpen \/ genSpan.ends = 1)
  /\ bodyOpen \/ reading => genStage = "streaming"
  /\ genSpan.ends = 0 => ~genSpan.hard
  /\ ~genSpan.hard => (Complete(reader) <=> SomeTells(arrived))

GenInv == GenTypeInv /\ GenStagesInv /\ EndedOnce /\ StatusTellsOutcome

LEMMA LinesHaveKinds ==
  /\ \A line \in EventLines :
       /\ line.kind \in {"chunk", "done", "other"} /\ line.finish \in BOOLEAN
       /\ line.kind # "chunk" => ~line.finish
  /\ NoLine \in [line : EventLines, have : Nothing..WholeText] /\ NoLine.have = Nothing
  /\ Nothing = 0 /\ Fragment = 1 /\ WholeText = 2
  <1> DEFINE blank == [kind |-> "other", finish |-> FALSE, index |-> 0, text |-> <<>>]
  <1>1. \A line \in EventLines :
          /\ line.kind \in {"chunk", "done", "other"} /\ line.finish \in BOOLEAN
          /\ line.kind # "chunk" => ~line.finish
    BY DEF EventLines
  <1>2. blank \in EventLines
    BY DEF EventLines
  <1>3. Nothing = 0 /\ Fragment = 1 /\ WholeText = 2
    BY DEF Nothing, Fragment, WholeText
  <1>4. NoLine = [line |-> blank, have |-> Nothing]
    BY DEF NoLine
  <1> HIDE DEF blank
  <1> QED BY <1>1, <1>2, <1>3, <1>4

\* processChatChunk notes that a stream is complete, and forgets it never.
LEMMA ProcessTells ==
  ASSUME NEW r, IsReader(r), NEW line \in EventLines
  PROVE  /\ IsReader(ProcessLine(r, line))
         /\ Complete(ProcessLine(r, line)) <=> Complete(r) \/ Tells(line)
  <1>1. line.finish \in BOOLEAN /\ r.completed \in BOOLEAN /\ r.reasons \in BOOLEAN
    BY LinesHaveKinds DEF IsReader
  <1>2. CASE line.kind = "done"
    <2>1. ProcessLine(r, line) = [r EXCEPT !.completed = TRUE]
      BY <1>2 DEF ProcessLine
    <2> QED BY <1>1, <1>2, <2>1 DEF IsReader, Complete, Tells
  <1>3. CASE line.kind = "chunk"
    <2>1. ProcessLine(r, line) =
            [r EXCEPT !.reasons = r.reasons \/ line.finish, !.captured = Capture(r.captured, line)]
      BY <1>3 DEF ProcessLine
    <2> DEFINE cap == Capture(r.captured, line)
               fin == r.reasons \/ line.finish
    <2>2. ProcessLine(r, line) = [completed |-> r.completed, reasons |-> fin, captured |-> cap]
      <3> HIDE DEF cap, fin
      <3>1. ProcessLine(r, line) = [r EXCEPT !.reasons = fin, !.captured = cap]
        BY <2>1 DEF cap, fin
      <3> QED BY <3>1 DEF IsReader
    <2>3. ~Tells(line) <=> ~line.finish
      BY <1>3 DEF Tells
    <2> HIDE DEF cap
    <2> QED BY <1>1, <2>2, <2>3 DEF IsReader, Complete
  <1>4. CASE line.kind = "other"
    <2>1. ProcessLine(r, line) = r /\ ~Tells(line)
      BY <1>4, LinesHaveKinds DEF ProcessLine, Tells
    <2> QED BY <2>1
  <1> QED BY <1>2, <1>3, <1>4, LinesHaveKinds

LEMMA TellsOfConcat ==
  ASSUME NEW s \in Seq(EventLines), NEW t \in Seq(EventLines)
  PROVE  /\ s \o t \in Seq(EventLines)
         /\ SomeTells(s \o t) <=> SomeTells(s) \/ SomeTells(t)
  <1>1. /\ s \o t \in Seq(EventLines) /\ Len(s \o t) = Len(s) + Len(t)
        /\ Len(s) \in Nat /\ Len(t) \in Nat
        /\ \A i \in 1..Len(s) + Len(t) : (s \o t)[i] = IF i <= Len(s) THEN s[i] ELSE t[i - Len(s)]
    BY ConcatProperties
  <1>2. ASSUME NEW i \in 1..Len(s)
        PROVE  i \in 1..Len(s \o t) /\ (s \o t)[i] = s[i]
    BY <1>1
  <1>3. ASSUME NEW i \in 1..Len(t)
        PROVE  i + Len(s) \in 1..Len(s \o t) /\ (s \o t)[i + Len(s)] = t[i]
    BY <1>1
  <1>4. ASSUME NEW i \in 1..Len(s \o t)
        PROVE  \/ i \in 1..Len(s) /\ (s \o t)[i] = s[i]
               \/ i - Len(s) \in 1..Len(t) /\ (s \o t)[i] = t[i - Len(s)]
    BY <1>1
  <1>5. SomeTells(s \o t) => SomeTells(s) \/ SomeTells(t)
    BY <1>4 DEF SomeTells
  <1>6. SomeTells(s) \/ SomeTells(t) => SomeTells(s \o t)
    BY <1>2, <1>3 DEF SomeTells
  <1> QED BY <1>1, <1>5, <1>6

LEMMA TellsOfFew ==
  /\ <<>> \in Seq(EventLines) /\ ~SomeTells(<<>>)
  /\ \A line \in EventLines : <<line>> \in Seq(EventLines) /\ (SomeTells(<<line>>) <=> Tells(line))
  BY DEF SomeTells

\* What finalize leaves of a span that nobody had ended.
LEMMA FinalizedSpan ==
  ASSUME genSpan \in GenSpanRecord, genSpan.ends = 0, genSpan.durations = 0, genSpan.started,
         NEW r, IsReader(r), NEW hard \in BOOLEAN
  PROVE  LET span == Finalized(r, hard) IN
         /\ span \in GenSpanRecord /\ span.started /\ span.ends = 1 /\ span.durations = 1
         /\ span.hard = hard /\ span.failed = (hard \/ ~Complete(r))
  <1> DEFINE failed == hard \/ ~(r.completed \/ r.reasons)
  <1>1. Finalized(r, hard) =
          [started |-> TRUE, ends |-> 1, failed |-> failed, hard |-> hard, durations |-> 1]
    <2>1. Finalized(r, hard) = [genSpan EXCEPT !.ends = 1, !.durations = 1, !.hard = hard,
                                               !.failed = failed]
      BY DEF Finalized
    <2> HIDE DEF failed
    <2>2. genSpan = [started |-> TRUE, ends |-> 0, failed |-> genSpan.failed,
                     hard |-> genSpan.hard, durations |-> 0]
      BY DEF GenSpanRecord
    <2> QED BY <2>1, <2>2
  <1>2. failed \in BOOLEAN /\ failed = (hard \/ ~Complete(r))
    BY DEF Complete
  <1> HIDE DEF failed
  <1> QED BY <1>1, <1>2 DEF GenSpanRecord

\* The span is ended by a reader whose lines are those that arrived, or which broke.
LEMMA EndedBy ==
  ASSUME GenInv, genStage = "streaming", genStage' = genStage, genSpan.ends = 0,
         NEW r, IsReader(r), NEW hard \in BOOLEAN,
         genSpan' = Finalized(r, hard), reader' = r,
         pending' \in [line : EventLines, have : Nothing..WholeText],
         reading' \in BOOLEAN, bodyOpen' \in BOOLEAN, arrived' \in Seq(EventLines),
         ~hard => (Complete(r) <=> SomeTells(arrived')),
         hard => SomeTells(arrived') \in BOOLEAN
  PROVE  GenInv'
  <1>1. GenTypeInv /\ GenStagesInv /\ EndedOnce
    BY DEF GenInv
  <1>2. genSpan.started /\ genSpan.durations = 0 /\ genSpan \in GenSpanRecord
    BY <1>1 DEF GenTypeInv, GenStagesInv, EndedOnce
  <1>3. /\ genSpan' \in GenSpanRecord /\ genSpan'.started /\ genSpan'.ends = 1
        /\ genSpan'.durations = 1 /\ genSpan'.hard = hard
        /\ genSpan'.failed = (hard \/ ~Complete(r))
    BY <1>2, FinalizedSpan
  <1>4. GenTypeInv'
    BY <1>1, <1>3 DEF GenTypeInv, IsReader
  <1>5. GenStagesInv'
    BY <1>3 DEF GenStagesInv, Complete, SomeTells, Tells
  <1>6. EndedOnce'
    <2>1. (genSpan'.ends = 1) = genSpan'.started
      <3>1. genSpan'.started \in BOOLEAN
        BY <1>3 DEF GenSpanRecord
      <3> QED BY <1>3, <3>1, Zenon
    <2>2. genSpan'.ends <= 1 /\ genSpan'.durations = genSpan'.ends
      BY <1>3
    <2> QED BY <2>1, <2>2, Zenon DEF EndedOnce
  <1>7. StatusTellsOutcome'
    <2>1. ~SomeTells(arrived') <=>
            \A i \in 1..Len(arrived') : arrived'[i].kind # "done" /\ ~arrived'[i].finish
      BY DEF SomeTells, Tells
    <2>2. genSpan'.failed <=> (hard \/ ~SomeTells(arrived'))
      BY <1>3
    <2>3. genSpan'.failed \in BOOLEAN /\ (genSpan'.hard <=> hard)
      BY <1>3 DEF GenSpanRecord
    <2> DEFINE silent == \A i \in 1..Len(arrived') : arrived'[i].kind # "done" /\ ~arrived'[i].finish
    <2>4. silent \in BOOLEAN /\ (genSpan'.failed <=> (genSpan'.hard \/ silent))
      BY <2>1, <2>2, <2>3
    <2>5. genSpan'.failed = (genSpan'.hard \/ silent)
      <3> HIDE DEF silent
      <3> QED BY <2>3, <2>4, Zenon
    <2> QED BY <2>5 DEF StatusTellsOutcome
  <1> QED BY <1>4, <1>5, <1>6, <1>7 DEF GenInv

LEMMA GenStarts == GenInit => GenInv
  <1> SUFFICES ASSUME GenInit PROVE GenInv
    OBVIOUS
  <1>1. /\ genStage = "new" /\ genSpan \in GenSpanRecord /\ ~genSpan.started /\ ~genSpan.hard
        /\ genSpan.ends = 0 /\ genSpan.durations = 0
        /\ ~reading /\ ~bodyOpen /\ reading \in BOOLEAN /\ bodyOpen \in BOOLEAN
        /\ pending = NoLine /\ arrived = <<>>
    BY DEF GenInit, GenSpanRecord
  <1>2. IsReader(reader) /\ ~Complete(reader)
    BY DEF GenInit, IsReader, Complete
  <1>3. GenTypeInv
    BY <1>1, <1>2, LinesHaveKinds, TellsOfFew DEF GenTypeInv
  <1>4. GenStagesInv
    BY <1>1, <1>2, TellsOfFew DEF GenStagesInv
  <1>5. EndedOnce /\ StatusTellsOutcome
    BY <1>1 DEF EndedOnce, StatusTellsOutcome
  <1> QED BY <1>3, <1>4, <1>5 DEF GenInv

\* The request goes out, and is answered or refused, or a stream begins.
LEMMA RequestKeeps ==
  ASSUME GenInv, PassThrough \/ SendRequest \/ RequestFails \/ WholeAnswer \/ StreamBegins
  PROVE  GenInv'
  <1>1. GenTypeInv /\ GenStagesInv /\ EndedOnce
    BY DEF GenInv
  <1>2. /\ UNCHANGED <<pending, reading, reader, arrived>>
        /\ genStage \in {"new", "sent"} /\ genStage' \in {"sent", "streaming", "over"}
    BY DEF PassThrough, SendRequest, RequestFails, WholeAnswer, Answered, StreamBegins
  <1>3. /\ genSpan' \in GenSpanRecord /\ bodyOpen' \in BOOLEAN /\ genSpan'.hard = genSpan.hard
        /\ genSpan.ends = 0 /\ genSpan.durations = 0 /\ ~bodyOpen /\ ~reading
        /\ genStage' = "sent" => genSpan'.started /\ genSpan'.ends = 0
        /\ genStage' = "streaming" => genSpan'.started /\ genSpan'.ends = 0 /\ bodyOpen'
        /\ genStage' # "streaming" => ~bodyOpen'
        /\ genStage' = "over" => (genSpan'.started <=> genSpan'.ends = 1)
        /\ genSpan'.ends <= 1 /\ genSpan'.durations = genSpan'.ends
    <2>1. /\ genSpan \in GenSpanRecord /\ bodyOpen \in BOOLEAN /\ genSpan.ends = 0
          /\ genSpan.durations = 0 /\ ~bodyOpen /\ ~reading
          /\ genSpan.started <=> genStage = "sent"
      BY <1>1, <1>2 DEF GenTypeInv, GenStagesInv, EndedOnce, GenSpanRecord
    <2>2. CASE PassThrough
      BY <2>1, <2>2 DEF PassThrough
    <2>3. CASE SendRequest
      <3>1. genSpan' = [started |-> TRUE, ends |-> 0, failed |-> genSpan.failed,
                        hard |-> genSpan.hard, durations |-> 0]
        BY <2>1, <2>3 DEF SendRequest, GenSpanRecord
      <3>2. genSpan.failed \in BOOLEAN /\ genSpan.hard \in BOOLEAN
        BY <2>1 DEF GenSpanRecord
      <3>3. genStage' = "sent" /\ UNCHANGED bodyOpen
        BY <2>3 DEF SendRequest
      <3> QED BY <2>1, <3>1, <3>2, <3>3 DEF GenSpanRecord
    <2>4. CASE RequestFails \/ WholeAnswer
      <3>1. PICK failed \in BOOLEAN : Answered(failed)
        BY <2>4 DEF RequestFails, WholeAnswer
      <3>2. genSpan' = [started |-> TRUE, ends |-> 1, failed |-> failed,
                        hard |-> genSpan.hard, durations |-> 1]
        <4>1. genSpan' = [genSpan EXCEPT !.ends = 1, !.durations = 1, !.failed = failed]
          BY <2>1, <3>1 DEF Answered
        <4>2. genSpan.started /\ genSpan.started \in BOOLEAN
          BY <2>1, <3>1 DEF Answered, GenSpanRecord
        <4>3. genSpan.started = TRUE
          BY <4>2, Zenon
        <4> DEFINE hard == genSpan.hard
                   old == genSpan.failed
        <4>4. genSpan = [started |-> TRUE, ends |-> 0, failed |-> old, hard |-> hard,
                         durations |-> 0]
          BY <2>1, <4>3 DEF GenSpanRecord
        <4> HIDE DEF hard, old
        <4>5. genSpan' = [started |-> TRUE, ends |-> 1, failed |-> failed, hard |-> hard,
                          durations |-> 1]
          BY <4>1, <4>4
        <4> QED BY <4>5 DEF hard
      <3>3. genSpan.hard \in BOOLEAN
        BY <2>1 DEF GenSpanRecord
      <3>4. genStage' = "over" /\ UNCHANGED bodyOpen
        BY <3>1 DEF Answered
      <3> QED BY <2>1, <3>2, <3>3, <3>4 DEF GenSpanRecord
    <2>5. CASE StreamBegins
      BY <2>1, <2>5 DEF StreamBegins
    <2> QED BY <2>2, <2>3, <2>4, <2>5
  <1>4. GenTypeInv'
    BY <1>1, <1>2, <1>3 DEF GenTypeInv, IsReader
  <1>5. GenStagesInv'
    BY <1>1, <1>2, <1>3 DEF GenStagesInv, Complete, SomeTells, Tells
  <1>6. EndedOnce'
    <2>1. genStage' = "over" => (genSpan'.ends = 1) = genSpan'.started
      <3>1. genSpan'.started \in BOOLEAN
        BY <1>3 DEF GenSpanRecord
      <3> QED BY <1>3, <3>1, Zenon
    <2> QED BY <1>3, <2>1 DEF EndedOnce
  <1>7. StatusTellsOutcome'
    BY <1>3 DEF StatusTellsOutcome
  <1> QED BY <1>4, <1>5, <1>6, <1>7 DEF GenInv

\* flushRemaining: the line that was left counts among those that arrived.
LEMMA FlushTells ==
  ASSUME NEW r, IsReader(r), NEW p \in [line : EventLines, have : Nothing..WholeText]
  PROVE  LET final == FlushRemaining(r, p)
             last == IF p.have = WholeText THEN <<p.line>> ELSE <<>>
         IN /\ IsReader(final) /\ last \in Seq(EventLines)
            /\ Complete(final) <=> Complete(r) \/ SomeTells(last)
  <1>1. CASE p.have = WholeText
    BY <1>1, ProcessTells, TellsOfFew DEF FlushRemaining
  <1>2. CASE p.have # WholeText
    BY <1>2, TellsOfFew DEF FlushRemaining
  <1> QED BY <1>1, <1>2

\* What Read finds: at most one more whole line, and what is left of another.
LEMMA BroughtShapes ==
  ASSUME GenTypeInv, NEW new \in Brought
  PROVE  /\ new.whole = <<>> \/ \E line \in EventLines : new.whole = <<line>>
         /\ new.rest \in [line : EventLines, have : Nothing..WholeText]
  <1>1. pending \in [line : EventLines, have : Nothing..WholeText]
    BY DEF GenTypeInv
  <1>2. Firsts \subseteq EventLines
    BY <1>1 DEF Firsts
  <1>3. /\ Begun(Firsts, pending.have + 1) \subseteq [line : EventLines, have : Nothing..WholeText]
        /\ Begun(EventLines, Fragment) \subseteq [line : EventLines, have : Nothing..WholeText]
    BY <1>1, <1>2 DEF Begun, Nothing, Fragment, WholeText
  <1>4. NoLine \in [line : EventLines, have : Nothing..WholeText]
    BY LinesHaveKinds
  <1> QED BY <1>1, <1>2, <1>3, <1>4 DEF Brought

LEMMA ReadReturnsKeeps ==
  ASSUME GenInv, ReadReturns
  PROVE  GenInv'
  <1>1. GenTypeInv /\ GenStagesInv /\ EndedOnce
    BY DEF GenInv
  <1>2. genStage = "streaming" /\ genSpan.ends = 0 /\ ~genSpan.hard
    BY <1>1 DEF ReadReturns, GenStagesInv
  <1>3. IsReader(reader) /\ arrived \in Seq(EventLines) /\ (Complete(reader) <=> SomeTells(arrived))
    BY <1>1, <1>2 DEF GenTypeInv, GenStagesInv
  <1>4. PICK new \in Brought, err \in {"none", "eof", "hard"} :
       LET read == ProcessLines(reader, new.whole)
           final == IF err = "eof" THEN FlushRemaining(read, new.rest) ELSE read
           last == IF new.rest.have = WholeText THEN <<new.rest.line>> ELSE <<>>
       IN IF err = "none"
          THEN /\ reader' = read /\ pending' = new.rest /\ arrived' = arrived \o new.whole
               /\ UNCHANGED genSpan
          ELSE /\ reader' = final /\ pending' = NoLine /\ arrived' = arrived \o new.whole \o last
               /\ genSpan' = Finalized(final, err = "hard")
    BY DEF ReadReturns
  <1>5. reading' = FALSE /\ UNCHANGED <<genStage, bodyOpen>>
    BY DEF ReadReturns
  <1> DEFINE read == ProcessLines(reader, new.whole)
             final == IF err = "eof" THEN FlushRemaining(read, new.rest) ELSE read
             last == IF new.rest.have = WholeText THEN <<new.rest.line>> ELSE <<>>
  <1>6. /\ new.whole \in Seq(EventLines) /\ IsReader(read)
        /\ Complete(read) <=> Complete(reader) \/ SomeTells(new.whole)
    <2>1. CASE new.whole = <<>>
      BY <1>3, <2>1, TellsOfFew DEF ProcessLines
    <2>2. CASE \E line \in EventLines : new.whole = <<line>>
      <3>1. PICK line \in EventLines : new.whole = <<line>>
        BY <2>2
      <3>2. read = ProcessLine(reader, line)
        BY <3>1 DEF ProcessLines
      <3> HIDE DEF read
      <3> QED BY <1>3, <3>1, <3>2, ProcessTells, TellsOfFew
    <2> QED BY <1>1, <2>1, <2>2, BroughtShapes
  <1>7. new.rest \in [line : EventLines, have : Nothing..WholeText]
    BY <1>1, BroughtShapes
  <1> HIDE DEF read
  <1>8. /\ IsReader(FlushRemaining(read, new.rest)) /\ last \in Seq(EventLines)
        /\ Complete(FlushRemaining(read, new.rest)) <=> Complete(read) \/ SomeTells(last)
    BY <1>6, <1>7, FlushTells
  <1>9. /\ arrived \o new.whole \in Seq(EventLines)
        /\ Complete(read) <=> SomeTells(arrived \o new.whole)
    BY <1>3, <1>6, TellsOfConcat
  <1>10. CASE err = "none"
    <2>1. /\ reader' = read /\ pending' = new.rest /\ arrived' = arrived \o new.whole
          /\ UNCHANGED genSpan
      BY <1>4, <1>10 DEF read
    <2>2. GenTypeInv'
      BY <1>1, <1>5, <1>6, <1>7, <1>9, <2>1 DEF GenTypeInv, IsReader
    <2>3. GenStagesInv'
      <3>1. (Complete(reader) <=> SomeTells(arrived))'
        BY <1>9, <2>1 DEF Complete, SomeTells, Tells
      <3> QED BY <1>1, <1>2, <1>5, <2>1, <3>1 DEF GenStagesInv
    <2>4. EndedOnce'
      BY <1>1, <1>5, <2>1 DEF EndedOnce
    <2>5. StatusTellsOutcome'
      BY <1>2, <2>1 DEF StatusTellsOutcome
    <2> QED BY <2>2, <2>3, <2>4, <2>5 DEF GenInv
  <1>11. CASE err # "none"
    <2>1. /\ reader' = final /\ pending' = NoLine /\ arrived' = arrived \o new.whole \o last
          /\ genSpan' = Finalized(final, err = "hard")
      BY <1>4, <1>11 DEF read
    <2>2. IsReader(final)
      BY <1>6, <1>8
    <2>3. /\ arrived' \in Seq(EventLines)
          /\ SomeTells(arrived') <=> SomeTells(arrived \o new.whole) \/ SomeTells(last)
      <3> HIDE DEF last, final
      <3> QED BY <1>8, <1>9, <2>1, TellsOfConcat
    <2>4. err # "hard" => (Complete(final) <=> SomeTells(arrived'))
      <3>1. err # "hard" => final = FlushRemaining(read, new.rest)
        BY <1>11
      <3> HIDE DEF last, final
      <3> QED BY <1>8, <1>9, <2>3, <3>1
    <2>5. pending' \in [line : EventLines, have : Nothing..WholeText]
      BY <2>1, LinesHaveKinds
    <2>6. SomeTells(arrived') \in BOOLEAN
      BY DEF SomeTells
    <2>7. reading' \in BOOLEAN /\ bodyOpen' \in BOOLEAN /\ genStage' = genStage
      BY <1>1, <1>5 DEF GenTypeInv
    <2> HIDE DEF last, final
    <2> QED BY <1>2, <2>1, <2>2, <2>3, <2>4, <2>5, <2>6, <2>7, EndedBy
  <1> QED BY <1>10, <1>11

LEMMA CloseBodyKeeps ==
  ASSUME GenInv, CloseBody
  PROVE  GenInv'
  <1>1. GenTypeInv /\ GenStagesInv /\ EndedOnce /\ StatusTellsOutcome
    BY DEF GenInv
  <1>2. /\ genStage = "streaming" /\ bodyOpen' = FALSE
        /\ UNCHANGED <<genStage, genSuppressed, reading>>
    BY DEF CloseBody
  <1>3. CASE FirstToEnd
    <2> DEFINE final == FlushRemaining(reader, pending)
               last == IF pending.have = WholeText THEN <<pending.line>> ELSE <<>>
    <2>1. /\ reader' = final /\ pending' = NoLine
          /\ genSpan' = Finalized(final, ~Complete(final))
          /\ arrived' = IF pending.have = WholeText THEN Append(arrived, pending.line) ELSE arrived
      BY <1>3 DEF CloseBody, Complete
    <2>2. genSpan.ends = 0 /\ ~genSpan.hard
      BY <1>1, <1>3 DEF FirstToEnd, GenStagesInv
    <2>3. /\ IsReader(reader) /\ pending \in [line : EventLines, have : Nothing..WholeText]
          /\ arrived \in Seq(EventLines) /\ (Complete(reader) <=> SomeTells(arrived))
      BY <1>1, <2>2 DEF GenTypeInv, GenStagesInv
    <2>4. /\ IsReader(final) /\ last \in Seq(EventLines)
          /\ Complete(final) <=> Complete(reader) \/ SomeTells(last)
      BY <2>3, FlushTells
    <2>5. arrived' = arrived \o last
      <3>1. CASE pending.have = WholeText
        <4>1. pending.line \in EventLines
          BY <2>3
        <4> QED BY <2>1, <2>3, <3>1, <4>1, AppendIsConcat
      <3>2. CASE pending.have # WholeText
        BY <2>1, <2>3, <3>2, ConcatEmptySeq
      <3> QED BY <3>1, <3>2
    <2> HIDE DEF final, last
    <2>6. arrived' \in Seq(EventLines) /\ (Complete(final) <=> SomeTells(arrived'))
      BY <2>3, <2>4, <2>5, TellsOfConcat
    <2>7. pending' \in [line : EventLines, have : Nothing..WholeText]
      BY <2>1, LinesHaveKinds
    <2>8. (~Complete(final)) \in BOOLEAN /\ SomeTells(arrived') \in BOOLEAN
      <3>1. SomeTells(arrived') \in BOOLEAN
        BY DEF SomeTells
      <3>2. (~Complete(final)) \in BOOLEAN
        BY DEF Complete
      <3> QED BY <3>1, <3>2
    <2>9. reading' \in BOOLEAN /\ bodyOpen' \in BOOLEAN
      BY <1>1, <1>2 DEF GenTypeInv
    <2> QED BY <1>2, <2>1, <2>2, <2>4, <2>6, <2>7, <2>8, <2>9, EndedBy
  <1>4. CASE ~FirstToEnd
    <2>1. UNCHANGED <<reader, pending, genSpan, arrived>>
      BY <1>4 DEF CloseBody
    <2>2. genSpan.ends = 1
      <3>1. genSpan.ends <= 1 /\ genSpan.ends \in Nat
        BY <1>1 DEF EndedOnce, GenTypeInv, GenSpanRecord
      <3> QED BY <1>4, <3>1 DEF FirstToEnd
    <2>3. GenTypeInv'
      BY <1>1, <1>2, <2>1 DEF GenTypeInv, IsReader
    <2>4. GenStagesInv'
      BY <1>1, <1>2, <2>1, <2>2 DEF GenStagesInv, Complete, SomeTells, Tells
    <2>5. StatusTellsOutcome'
      BY <1>1, <1>2, <2>1 DEF StatusTellsOutcome
    <2>6. EndedOnce'
      BY <1>1, <1>2, <2>1, <2>2 DEF EndedOnce, GenStagesInv, GenTypeInv, GenSpanRecord
    <2> QED BY <2>3, <2>4, <2>5, <2>6 DEF GenInv
  <1> QED BY <1>3, <1>4

LEMMA NothingReturnsKeeps ==
  ASSUME GenInv, NothingReturns
  PROVE  GenInv'
  <1>1. GenTypeInv /\ GenStagesInv /\ EndedOnce /\ StatusTellsOutcome
    BY DEF GenInv
  <1>2. /\ reading' = FALSE /\ genStage = "streaming"
        /\ UNCHANGED <<genStage, genSuppressed, pending, bodyOpen, reader, arrived>>
    BY <1>1 DEF NothingReturns, GenStagesInv
  <1>3. CASE FirstToEnd
    <2>1. genSpan' = Finalized(reader, TRUE) /\ genSpan.ends = 0
      BY <1>3 DEF NothingReturns, FirstToEnd
    <2>2. SomeTells(arrived') \in BOOLEAN
      BY DEF SomeTells
    <2> QED BY <1>1, <1>2, <2>1, <2>2, EndedBy DEF GenTypeInv
  <1>4. CASE ~FirstToEnd
    <2>1. UNCHANGED genSpan
      BY <1>4 DEF NothingReturns
    <2>2. GenTypeInv'
      BY <1>1, <1>2, <2>1 DEF GenTypeInv, IsReader
    <2>3. GenStagesInv'
      BY <1>1, <1>2, <2>1 DEF GenStagesInv, Complete, SomeTells, Tells
    <2>4. StatusTellsOutcome' /\ EndedOnce'
      BY <1>1, <1>2, <2>1 DEF StatusTellsOutcome, EndedOnce
    <2> QED BY <2>2, <2>3, <2>4 DEF GenInv
  <1> QED BY <1>3, <1>4

LEMMA GenSteps == GenInv /\ [GenNext]_genVars => GenInv'
  <1> SUFFICES ASSUME GenInv, [GenNext]_genVars PROVE GenInv'
    OBVIOUS
  <1>1. CASE ReadBody \/ UNCHANGED genVars
    <2>1. GenTypeInv /\ GenStagesInv /\ EndedOnce /\ StatusTellsOutcome
      BY DEF GenInv
    <2>2. /\ UNCHANGED <<genStage, genSpan, genSuppressed, pending, bodyOpen, reader, arrived>>
          /\ reading' \in BOOLEAN /\ (reading' => genStage = "streaming")
      <3>1. reading \in BOOLEAN /\ (reading => genStage = "streaming")
        BY <2>1 DEF GenTypeInv, GenStagesInv
      <3>2. CASE ReadBody
        BY <3>2 DEF ReadBody
      <3>3. CASE UNCHANGED genVars
        BY <3>1, <3>3 DEF genVars
      <3> QED BY <1>1, <3>2, <3>3
    <2>3. GenTypeInv'
      BY <2>1, <2>2 DEF GenTypeInv, IsReader
    <2>4. GenStagesInv'
      BY <2>1, <2>2 DEF GenStagesInv, Complete, SomeTells, Tells
    <2>5. StatusTellsOutcome' /\ EndedOnce'
      BY <2>1, <2>2 DEF StatusTellsOutcome, EndedOnce
    <2> QED BY <2>3, <2>4, <2>5 DEF GenInv
  <1> QED BY <1>1, RequestKeeps, ReadReturnsKeeps, CloseBodyKeeps, NothingReturnsKeeps DEF GenNext

\* Requests, streams and their spans agree in every reachable state.
THEOREM GenInvariant == GenSpec => []GenInv
  BY GenStarts, GenSteps, PTL DEF GenSpec

\* done.CompareAndSwap: Read, Close and the middleware end a span once among them.
THEOREM EndedOnceHolds == GenSpec => []EndedOnce
  <1>1. GenInv => EndedOnce
    BY DEF GenInv
  <1> QED BY GenInvariant, <1>1, PTL

\* finalize judges the stream by every line that came, wherever it was cut.
THEOREM StatusTellsOutcomeHolds == GenSpec => []StatusTellsOutcome
  <1>1. GenInv => StatusTellsOutcome
    BY DEF GenInv
  <1> QED BY GenInvariant, <1>1, PTL

-----------------------------------------------------------------------------
(* GenAIStream, what is captured.  A text is a sequence of characters of   *)
(* some width each.  What fits of two texts, one after the other, is what  *)
(* fits of the first, and then of the second; so what a choice has kept    *)
(* after some chunks is what would be kept of all it said in one chunk.    *)
(* The widths and the texts are defined by recursion along a sequence:     *)
(* CountUp is the induction that the lemmas about them rest on.            *)

\* A set of numbers that has 0 and, with each number, the next one.
LEMMA CountUp ==
  ASSUME NEW n \in Nat, NEW good \in SUBSET (0..n), 0 \in good,
         \A k \in 1..n : k - 1 \in good => k \in good
  PROVE  \A k \in 0..n : k \in good
  <1> SUFFICES ASSUME (0..n) \ good # {} PROVE FALSE
    OBVIOUS
  <1> DEFINE bad == (0..n) \ good
  <1>1. bad \in SUBSET Nat /\ bad # {}
    OBVIOUS
  <1> HIDE DEF bad
  <1>2. PICK i \in bad : \A j \in bad : <<j, i>> \notin OpToRel(<, Nat)
    BY <1>1, NatLessThanWellFounded, WFMin
  <1>3. \A j \in bad : ~(j < i)
    BY <1>1, <1>2 DEF OpToRel
  <1>4. i \in 0..n /\ i \notin good
    BY <1>2 DEF bad
  <1>a. i # 0
    BY <1>4
  <1>b. i \in 1..n /\ i - 1 \in 0..n /\ i - 1 < i
    BY <1>4, <1>a
  <1>5. i - 1 \notin bad
    BY <1>3, <1>b
  <1> QED BY <1>4, <1>b, <1>5 DEF bad

\* A sequence of states, each a step from the one before.
CanStep(n, S, first, step) == first \in S /\ \A x \in S, k \in 1..n : step[<<x, k>>] \in S

Steps(g, n, S, first, step) ==
  g \in [0..n -> S] /\ g[0] = first /\ \A k \in 1..n : g[k] = step[<<g[k - 1], k>>]

\* What is defined step by step along a sequence is defined.
LEMMA StepByStep ==
  ASSUME NEW n \in Nat, NEW S, NEW first, NEW step, CanStep(n, S, first, step)
  PROVE  \E g : Steps(g, n, S, first, step)
  <1> DEFINE good == {m \in 0..n : \E g : Steps(g, m, S, first, step)}
  <1>0. first \in S /\ \A x \in S, k \in 1..n : step[<<x, k>>] \in S
    BY DEF CanStep
  <1>1. 0 \in good
    <2>1. Steps([k \in 0..0 |-> first], 0, S, first, step)
      BY <1>0 DEF Steps
    <2> QED BY <2>1
  <1>2. ASSUME NEW m \in 1..n, m - 1 \in good PROVE m \in good
    <2>1. PICK g : Steps(g, m - 1, S, first, step)
      BY <1>2
    <2> DEFINE next == step[<<g[m - 1], m>>]
               h == [k \in 0..m |-> IF k = m THEN next ELSE g[k]]
    <2>2. m \in Nat /\ m - 1 \in 0..(m - 1) /\ 0 \in 0..(m - 1)
      OBVIOUS
    <2>a. /\ g \in [0..(m - 1) -> S] /\ g[0] = first
          /\ \A k \in 1..(m - 1) : g[k] = step[<<g[k - 1], k>>]
      BY <2>1 DEF Steps
    <2>3. next \in S
      BY <1>0, <2>a, <2>2
    <2> HIDE DEF next
    <2>4. h \in [0..m -> S] /\ h[0] = first
      BY <2>a, <2>2, <2>3
    <2>5. \A k \in 1..m : /\ k \in 0..m /\ k - 1 \in 0..m /\ k - 1 # m
                          /\ (k # m => k \in 1..(m - 1))
      OBVIOUS
    <2>6. ASSUME NEW k \in 1..m PROVE h[k] = step[<<h[k - 1], k>>]
      <3>1. h[k - 1] = g[k - 1]
        BY <2>5
      <3>2. CASE k = m
        <4>1. h[k] = next
          BY <2>5, <3>2
        <4> QED BY <3>1, <3>2, <4>1 DEF next
      <3>3. CASE k # m
        <4>1. h[k] = g[k]
          BY <2>5, <3>3
        <4>2. g[k] = step[<<g[k - 1], k>>]
          BY <2>a, <2>5, <3>3
        <4> QED BY <3>1, <4>1, <4>2
      <3> QED BY <3>2, <3>3
    <2>7. Steps(h, m, S, first, step)
      BY <2>4, <2>6 DEF Steps
    <2> QED BY <2>7
  <1>3. n \in good
    <2> HIDE DEF good
    <2>1. good \in SUBSET (0..n)
      BY DEF good
    <2>2. \A k \in 0..n : k \in good
      BY <1>1, <1>2, <2>1, CountUp
    <2> QED BY <2>2
  <1>4. PICK g : Steps(g, n, S, first, step)
    BY <1>3
  <1> QED BY <1>4

LEMMA WidthsAddUp ==
  ASSUME NEW t \in Seq(Nat)
  PROVE  /\ Widths(t) \in [0..Len(t) -> Nat] /\ Widths(t)[0] = 0
         /\ \A k \in 1..Len(t) : Widths(t)[k] = Widths(t)[k - 1] + t[k]
  <1> DEFINE n == Len(t)
             step == [x \in Nat \X (1..n) |-> x[1] + t[x[2]]]
             IsSum(s) == s = [k \in 0..n |-> IF k = 0 THEN 0 ELSE s[k - 1] + t[k]]
  <1>1. n \in Nat /\ \A k \in 1..n : t[k] \in Nat
    OBVIOUS
  <1>2. \A s \in Nat, k \in 1..n : step[<<s, k>>] = s + t[k] /\ step[<<s, k>>] \in Nat
    BY <1>1
  <1>3. PICK g \in [0..n -> Nat] : g[0] = 0 /\ \A k \in 1..n : g[k] = step[<<g[k - 1], k>>]
    <2>1. CanStep(n, Nat, 0, step)
      BY <1>2 DEF CanStep
    <2> HIDE DEF n, step
    <2>2. \E g : Steps(g, n, Nat, 0, step)
      BY <1>1, <2>1, StepByStep
    <2> QED BY <2>2 DEF Steps
  <1> HIDE DEF n
  <1>4. ASSUME NEW k \in 1..n PROVE g[k] = g[k - 1] + t[k]
    <2>1. k - 1 \in 0..n
      BY <1>1
    <2>2. g[k - 1] \in Nat
      BY <1>3, <2>1
    <2>3. step[<<g[k - 1], k>>] = g[k - 1] + t[k]
      BY <2>2
    <2> HIDE DEF step
    <2> QED BY <1>3, <2>3
  <1>5. IsSum(g)
    BY <1>1, <1>3, <1>4
  <1>6. Widths(t) = CHOOSE s : IsSum(s)
    BY DEF Widths, n
  <1>7. IsSum(Widths(t))
    <2> HIDE DEF IsSum
    <2> QED BY <1>5, <1>6
  <1> DEFINE w == Widths(t)
  <1>8. /\ DOMAIN w = 0..n /\ w[0] = 0 /\ \A k \in 1..n : w[k] = w[k - 1] + t[k]
        /\ w = [k \in 0..n |-> w[k]]
    <2>1. w = [k \in 0..n |-> IF k = 0 THEN 0 ELSE w[k - 1] + t[k]]
      BY <1>7
    <2> HIDE DEF w
    <2>2. /\ DOMAIN w = 0..n /\ w = [k \in 0..n |-> w[k]]
          /\ \A k \in 0..n : w[k] = IF k = 0 THEN 0 ELSE w[k - 1] + t[k]
      BY <2>1
    <2>3. 0 \in 0..n /\ \A k \in 1..n : k \in 0..n /\ k # 0
      BY <1>1
    <2>4. w[0] = 0 /\ \A k \in 1..n : w[k] = w[k - 1] + t[k]
      BY <2>2, <2>3
    <2> QED BY <2>2, <2>4
  <1> HIDE DEF w
  <1>9. \A k \in 0..n : w[k] \in Nat
    <2> DEFINE good == {k \in 0..n : w[k] \in Nat}
    <2>1. 0 \in good
      BY <1>1, <1>8
    <2>2. ASSUME NEW k \in 1..n, k - 1 \in good PROVE k \in good
      <3>1. w[k - 1] \in Nat /\ t[k] \in Nat /\ w[k] = w[k - 1] + t[k]
        BY <1>1, <1>8, <2>2
      <3> QED BY <3>1, <1>1, SMTT(20)
    <2>3. good \in SUBSET (0..n)
      OBVIOUS
    <2>4. \A k \in 0..n : k \in good
      <3> HIDE DEF good
      <3> QED BY <1>1, <2>1, <2>2, <2>3, CountUp
    <2> QED BY <2>4
  <1> QED BY <1>8, <1>9 DEF w, n

\* Characters do not take bytes away.
LEMMA WidthsGrow ==
  ASSUME NEW t \in Seq(Nat), NEW i \in 0..Len(t), NEW j \in i..Len(t)
  PROVE  Widths(t)[i] <= Widths(t)[j]
  <1> DEFINE w == Widths(t)
             n == Len(t) - i
             good == {k \in 0..n : w[i] <= w[i + k]}
  <1>1. Len(t) \in Nat /\ n \in Nat /\ i \in Nat /\ \A k \in 1..Len(t) : t[k] \in Nat
    OBVIOUS
  <1>2. w \in [0..Len(t) -> Nat] /\ \A k \in 1..Len(t) : w[k] = w[k - 1] + t[k]
    BY WidthsAddUp
  <1> HIDE DEF w
  <1>3. 0 \in good
    <2>1. i + 0 = i /\ w[i] \in Nat /\ 0 \in 0..n
      BY <1>1, <1>2
    <2> QED BY <2>1
  <1>4. ASSUME NEW k \in 1..n, k - 1 \in good PROVE k \in good
    <2>1. i + k \in 1..Len(t) /\ (i + k) - 1 \in 0..Len(t) /\ (i + k) - 1 = i + (k - 1)
      BY <1>1
    <2>2. /\ w[i + k] = w[(i + k) - 1] + t[i + k]
          /\ t[i + k] \in Nat /\ w[(i + k) - 1] \in Nat /\ w[i] \in Nat
      BY <1>1, <1>2, <2>1
    <2>3. w[i] <= w[i + (k - 1)]
      BY <1>4
    <2>4. w[i] <= w[i + k]
      BY <2>1, <2>2, <2>3
    <2> QED BY <2>4
  <1>5. good \in SUBSET (0..n)
    OBVIOUS
  <1>6. \A k \in 0..n : k \in good
    <2> HIDE DEF good, n
    <2> QED BY <1>1, <1>3, <1>4, <1>5, CountUp
  <1>7. j - i \in 0..n /\ i + (j - i) = j
    BY <1>1
  <1>8. w[i] <= w[i + (j - i)]
    BY <1>6, <1>7
  <1> QED BY <1>7, <1>8 DEF w

\* The widths of two texts, one after the other.
LEMMA WidthsOfTwo ==
  ASSUME NEW t \in Seq(Nat), NEW u \in Seq(Nat)
  PROVE  /\ \A k \in 0..Len(t) : Widths(t \o u)[k] = Widths(t)[k]
         /\ \A k \in 0..Len(u) : Widths(t \o u)[Len(t) + k] = Bytes(t) + Widths(u)[k]
         /\ Bytes(t \o u) = Bytes(t) + Bytes(u)
  <1> DEFINE both == t \o u
             w == Widths(both)
             wt == Widths(t)
             wu == Widths(u)
  <1>1. /\ both \in Seq(Nat) /\ Len(both) = Len(t) + Len(u) /\ Len(t) \in Nat /\ Len(u) \in Nat
        /\ \A k \in 1..Len(t) : both[k] = t[k] /\ t[k] \in Nat
        /\ \A k \in 1..Len(u) : both[Len(t) + k] = u[k] /\ u[k] \in Nat
    BY ConcatProperties
  <1> HIDE DEF both
  <1>2. /\ w \in [0..Len(both) -> Nat] /\ w[0] = 0
        /\ \A k \in 1..Len(both) : w[k] = w[k - 1] + both[k]
    BY <1>1, WidthsAddUp
  <1>3. /\ wt \in [0..Len(t) -> Nat] /\ wt[0] = 0 /\ \A k \in 1..Len(t) : wt[k] = wt[k - 1] + t[k]
        /\ wu \in [0..Len(u) -> Nat] /\ wu[0] = 0 /\ \A k \in 1..Len(u) : wu[k] = wu[k - 1] + u[k]
    BY WidthsAddUp
  <1> HIDE DEF w, wt, wu
  <1>4. \A k \in 0..Len(t) : w[k] = wt[k]
    <2> DEFINE good == {k \in 0..Len(t) : w[k] = wt[k]}
    <2>1. 0 \in good
      BY <1>1, <1>2, <1>3
    <2>2. ASSUME NEW k \in 1..Len(t), k - 1 \in good PROVE k \in good
      <3>1. k \in 1..Len(both) /\ k \in 0..Len(t)
        BY <1>1
      <3>2. w[k - 1] = wt[k - 1] /\ w[k] = w[k - 1] + t[k] /\ wt[k] = wt[k - 1] + t[k]
        BY <1>1, <1>2, <1>3, <2>2, <3>1
      <3> QED BY <3>1, <3>2
    <2>3. good \in SUBSET (0..Len(t))
      OBVIOUS
    <2>4. \A k \in 0..Len(t) : k \in good
      <3> HIDE DEF good
      <3> QED BY <1>1, <2>1, <2>2, <2>3, CountUp
    <2> QED BY <2>4
  <1>5. \A k \in 0..Len(u) : w[Len(t) + k] = wt[Len(t)] + wu[k]
    <2> DEFINE good == {k \in 0..Len(u) : w[Len(t) + k] = wt[Len(t)] + wu[k]}
    <2>1. 0 \in good
      <3>1. w[Len(t) + 0] = wt[Len(t)] /\ wt[Len(t)] \in Nat
        BY <1>1, <1>3, <1>4
      <3> QED BY <1>1, <1>3, <3>1
    <2>2. ASSUME NEW k \in 1..Len(u), k - 1 \in good PROVE k \in good
      <3>1. /\ Len(t) + k \in 1..Len(both) /\ (Len(t) + k) - 1 = Len(t) + (k - 1)
            /\ k \in 0..Len(u) /\ k - 1 \in 0..Len(u) /\ Len(t) \in 0..Len(t)
        BY <1>1
      <3>2. w[Len(t) + (k - 1)] = wt[Len(t)] + wu[k - 1]
        BY <2>2
      <3>3. /\ w[Len(t) + k] = w[Len(t) + (k - 1)] + u[k] /\ wu[k] = wu[k - 1] + u[k]
            /\ wt[Len(t)] \in Nat /\ wu[k - 1] \in Nat /\ u[k] \in Nat
        BY <1>1, <1>2, <1>3, <3>1
      <3>4. w[Len(t) + k] = wt[Len(t)] + wu[k]
        BY <3>2, <3>3
      <3> QED BY <3>1, <3>4
    <2>3. good \in SUBSET (0..Len(u))
      OBVIOUS
    <2>4. \A k \in 0..Len(u) : k \in good
      <3> HIDE DEF good
      <3> QED BY <1>1, <2>1, <2>2, <2>3, CountUp
    <2> QED BY <2>4
  <1> QED BY <1>1, <1>4, <1>5 DEF w, wt, wu, both, Bytes

\* Where a text is cut: after the last character that fits.
IsCut(text, room, q) ==
  /\ q \in 0..Len(text) /\ Widths(text)[q] <= room
  /\ \A k \in 0..Len(text) : Widths(text)[k] <= room => k <= q

LEMMA CutIsThere ==
  ASSUME NEW text \in Seq(Nat), NEW room \in Nat
  PROVE  \E q \in 0..Len(text) : IsCut(text, room, q)
  <1> DEFINE w == Widths(text)
             n == Len(text)
             none(m) == \A k \in 0..n : w[k] <= room => k < n - m
             good == {m \in 0..n : none(m)}
  <1>1. n \in Nat /\ w \in [0..n -> Nat] /\ w[0] = 0
    BY WidthsAddUp
  <1> HIDE DEF w, n
  <1>2. SUFFICES ASSUME \A q \in 0..n : ~IsCut(text, room, q) PROVE FALSE
    BY DEF n
  <1>3. \A q \in 0..n : w[q] <= room => \E k \in 0..n : w[k] <= room /\ q < k
    <2> SUFFICES ASSUME NEW q \in 0..n, w[q] <= room,
                        \A k \in 0..n : w[k] <= room => ~(q < k)
                 PROVE  FALSE
      OBVIOUS
    <2>1. \A k \in 0..n : w[k] <= room => k <= q
      BY <1>1
    <2> QED BY <1>2, <2>1 DEF IsCut, w, n
  <1>4. 0 \in good
    <2>1. ~(w[n] <= room)
      BY <1>1, <1>3
    <2>2. none(0)
      BY <1>1, <2>1
    <2> QED BY <1>1, <2>2
  <1>5. ASSUME NEW m \in 1..n, m - 1 \in good PROVE m \in good
    <2>1. none(m - 1)
      BY <1>5
    <2>2. n - m \in 0..n /\ n - (m - 1) = (n - m) + 1
      BY <1>1
    <2>3. ~(w[n - m] <= room)
      <3> SUFFICES ASSUME w[n - m] <= room PROVE FALSE
        OBVIOUS
      <3>1. PICK k \in 0..n : w[k] <= room /\ n - m < k
        BY <1>3, <2>2
      <3>2. k < n - (m - 1)
        BY <2>1, <3>1
      <3> QED BY <1>1, <2>2, <3>1, <3>2
    <2>4. ASSUME NEW k \in 0..n, w[k] <= room PROVE k < n - m
      <3>1. k < n - (m - 1) /\ k # n - m
        BY <2>1, <2>3, <2>4
      <3> QED BY <1>1, <2>2, <3>1
    <2>5. m \in 0..n
      BY <1>1
    <2> QED BY <2>4, <2>5
  <1>6. n \in good
    <2>1. good \in SUBSET (0..n)
      OBVIOUS
    <2> HIDE DEF good
    <2>2. \A k \in 0..n : k \in good
      BY <1>1, <1>4, <1>5, <2>1, CountUp
    <2> QED BY <1>1, <2>2
  <1>7. none(n) /\ n - n = 0
    BY <1>1, <1>6
  <1>8. 0 \in 0..n /\ w[0] <= room
    BY <1>1
  <1> QED BY <1>7, <1>8

LEMMA CutTo ==
  ASSUME NEW text \in Seq(Nat), NEW room \in Nat, NEW q, IsCut(text, room, q)
  PROVE  CutAt(text, room) = SubSeq(text, 1, q)
  <1> DEFINE fits == {k \in 0..Len(text) : Widths(text)[k] <= room}
  <1>1. q \in fits /\ \A k \in fits : q >= k /\ k \in Int
    BY DEF IsCut
  <1>2. \A x \in fits : (\A y \in fits : x >= y) => x = q
    BY <1>1
  <1>3. Max(fits) = q
    <2> HIDE DEF fits
    <2> QED BY <1>1, <1>2 DEF Max
  <1> QED BY <1>3 DEF CutAt

\* A text that fits is kept.
LEMMA CutOfShort ==
  ASSUME NEW s \in Seq(Nat), NEW room \in Nat, Bytes(s) <= room
  PROVE  CutAt(s, room) = s
  <1>1. Len(s) \in Nat
    OBVIOUS
  <1>2. IsCut(s, room, Len(s))
    BY <1>1 DEF IsCut, Bytes
  <1>3. SubSeq(s, 1, Len(s)) = s
    OBVIOUS
  <1> QED BY <1>2, <1>3, CutTo

\* What follows a text that does not fit is not looked at.
LEMMA CutOfLong ==
  ASSUME NEW s \in Seq(Nat), NEW t \in Seq(Nat), NEW room \in Nat, Bytes(s) > room
  PROVE  CutAt(s \o t, room) = CutAt(s, room) /\ Bytes(s \o t) > room
  <1> DEFINE both == s \o t
  <1>1. /\ both \in Seq(Nat) /\ Len(both) = Len(s) + Len(t) /\ Len(s) \in Nat /\ Len(t) \in Nat
        /\ \A k \in 1..Len(s) : both[k] = s[k]
    BY ConcatProperties
  <1>2. PICK q \in 0..Len(s) : IsCut(s, room, q)
    BY CutIsThere
  <1>3. \A k \in 0..Len(s) : Widths(both)[k] = Widths(s)[k]
    BY WidthsOfTwo
  <1> HIDE DEF both
  <1>4. Widths(both)[Len(s)] = Bytes(s) /\ Bytes(s) \in Nat
    BY <1>1, <1>3, WidthsAddUp DEF Bytes
  <1>5. ASSUME NEW k \in 0..Len(both), Widths(both)[k] <= room PROVE k <= q
    <2>1. CASE k \in 0..Len(s)
      BY <1>2, <1>3, <1>5, <2>1 DEF IsCut
    <2>2. CASE k \notin 0..Len(s)
      <3>1. Len(s) \in 0..Len(both) /\ k \in Len(s)..Len(both)
        BY <1>1, <2>2
      <3>2. Widths(both)[Len(s)] <= Widths(both)[k]
        BY <1>1, <3>1, WidthsGrow
      <3>3. Widths(both)[k] \in Nat
        BY <1>1, WidthsAddUp
      <3> QED BY <1>4, <1>5, <3>2, <3>3
    <2> QED BY <2>1, <2>2
  <1>6. IsCut(both, room, q)
    <2>1. q \in 0..Len(both)
      BY <1>1
    <2>2. Widths(both)[q] <= room
      BY <1>2, <1>3 DEF IsCut
    <2> QED BY <1>5, <2>1, <2>2 DEF IsCut
  <1>7. CutAt(both, room) = SubSeq(both, 1, q) /\ CutAt(s, room) = SubSeq(s, 1, q)
    BY <1>1, <1>2, <1>6, CutTo
  <1>8. SubSeq(both, 1, q) = SubSeq(s, 1, q)
    BY <1>1
  <1>9. Bytes(both) > room
    <2>1. Len(s) \in 0..Len(both) /\ Len(both) \in Len(s)..Len(both)
      BY <1>1
    <2>2. Widths(both)[Len(s)] <= Bytes(both) /\ Bytes(both) \in Nat
      BY <1>1, <2>1, WidthsGrow, WidthsAddUp DEF Bytes
    <2> QED BY <1>4, <2>2
  <1> QED BY <1>7, <1>8, <1>9 DEF both

\* A text that fits takes what there is room for of the next one.
LEMMA CutOfBoth ==
  ASSUME NEW s \in Seq(Nat), NEW t \in Seq(Nat), NEW room \in Nat,
         Bytes(s) <= room
  PROVE  s \o CutAt(t, room - Bytes(s)) = CutAt(s \o t, room)
  <1> DEFINE both == s \o t
             left == room - Bytes(s)
  <1>1. /\ both \in Seq(Nat) /\ Len(both) = Len(s) + Len(t) /\ Len(s) \in Nat /\ Len(t) \in Nat
        /\ \A k \in 1..Len(s) : both[k] = s[k]
        /\ \A k \in 1..Len(t) : both[Len(s) + k] = t[k]
    BY ConcatProperties
  <1>2. Bytes(s) \in Nat /\ left \in Nat
    BY WidthsAddUp, <1>1 DEF Bytes
  <1>3. \A k \in 0..Len(t) : Widths(both)[Len(s) + k] = Bytes(s) + Widths(t)[k]
    BY WidthsOfTwo
  <1>4. \A k \in 0..Len(t) : Widths(t)[k] \in Nat
    BY WidthsAddUp
  <1>5. PICK q \in 0..Len(t) : IsCut(t, left, q)
    <2> HIDE DEF left
    <2> QED BY <1>2, CutIsThere
  <1>6. IsCut(both, room, Len(s) + q)
    <2>1. Len(s) + q \in 0..Len(both)
      BY <1>1
    <2>2. Widths(both)[Len(s) + q] <= room
      <3>1. Widths(t)[q] <= left
        BY <1>5 DEF IsCut
      <3> QED BY <1>2, <1>3, <1>4, <3>1
    <2>3. ASSUME NEW k \in 0..Len(both), Widths(both)[k] <= room PROVE k <= Len(s) + q
      <3>1. CASE k <= Len(s)
        BY <1>1, <3>1
      <3>2. CASE ~(k <= Len(s))
        <4> DEFINE j == k - Len(s)
        <4>1. j \in 0..Len(t) /\ k = Len(s) + j
          BY <1>1, <3>2
        <4>2. Bytes(s) + Widths(t)[j] <= room
          BY <1>3, <2>3, <4>1
        <4>3. Widths(t)[j] <= left
          <5> DEFINE x == Widths(t)[j]
          <5>1. x \in Nat /\ Bytes(s) + x <= room
            BY <1>4, <4>1, <4>2
          <5> HIDE DEF x
          <5>2. x <= room - Bytes(s)
            BY <1>2, <5>1
          <5> QED BY <5>2 DEF x
        <4>4. j <= q
          BY <1>5, <4>1, <4>3 DEF IsCut
        <4> QED BY <1>1, <4>1, <4>4
      <3> QED BY <3>1, <3>2
    <2> QED BY <2>1, <2>2, <2>3 DEF IsCut
  <1>7. CutAt(both, room) = SubSeq(both, 1, Len(s) + q)
    BY <1>1, <1>6, CutTo
  <1>8. CutAt(t, left) = SubSeq(t, 1, q)
    <2> HIDE DEF left
    <2> QED BY <1>2, <1>5, CutTo
  <1>9. s \o SubSeq(t, 1, q) = SubSeq(both, 1, Len(s) + q)
    <2> HIDE DEF both
    <2> DEFINE end == SubSeq(t, 1, q)
               front == SubSeq(both, 1, Len(s) + q)
    <2>1. end \in Seq(Nat) /\ Len(end) = q /\ \A k \in 1..q : end[k] = t[k]
      BY <1>1, SubSeqProperties, SMTT(20)
    <2>2. /\ front \in Seq(Nat) /\ Len(front) = Len(s) + q
          /\ \A k \in 1..(Len(s) + q) : front[k] = both[k]
      <3>1. \A k \in 1..(Len(s) + q) : k \in 1..Len(both)
        BY <1>1
      <3>2. \A k \in 1..(Len(s) + q) : both[k] \in Nat
        BY <1>1, <3>1, ElementOfSeq
      <3>3. 1 \in Int /\ Len(s) + q \in Nat
        BY <1>1
      <3> DEFINE n == Len(s) + q
      <3> HIDE DEF n
      <3>4. /\ SubSeq(both, 1, n) \in Seq(Nat)
            /\ Len(SubSeq(both, 1, n)) = IF 1 <= n THEN n - 1 + 1 ELSE 0
            /\ \A k \in 1..(n - 1 + 1) : SubSeq(both, 1, n)[k] = both[1 + k - 1]
        BY <3>2, <3>3, SubSeqProperties DEF n
      <3>5. /\ SubSeq(both, 1, n) \in Seq(Nat) /\ Len(SubSeq(both, 1, n)) = n
            /\ \A k \in 1..n : SubSeq(both, 1, n)[k] = both[k]
        BY <3>3, <3>4 DEF n
      <3> QED BY <3>5 DEF n, front
    <2> HIDE DEF end, front
    <2>3. /\ s \o end \in Seq(Nat) /\ Len(s \o end) = Len(s) + q
          /\ \A k \in 1..(Len(s) + q) : (s \o end)[k] = IF k <= Len(s) THEN s[k] ELSE end[k - Len(s)]
      BY <2>1, ConcatProperties
    <2>4. ASSUME NEW k \in 1..(Len(s) + q) PROVE (s \o end)[k] = front[k]
      <3>1. CASE k <= Len(s)
        <4>1. k \in 1..Len(s)
          BY <1>1, <3>1
        <4> QED BY <1>1, <2>2, <2>3, <3>1, <4>1
      <3>2. CASE ~(k <= Len(s))
        <4>1. k - Len(s) \in 1..q /\ k - Len(s) \in 1..Len(t) /\ Len(s) + (k - Len(s)) = k
          BY <1>1, <3>2
        <4>2. (s \o end)[k] = t[k - Len(s)]
          BY <2>1, <2>3, <3>2, <4>1
        <4>3. both[k] = t[k - Len(s)]
          BY <1>1, <4>1
        <4> QED BY <2>2, <4>2, <4>3
      <3> QED BY <3>1, <3>2
    <2>5. s \o end = front
      BY <2>2, <2>3, <2>4, SeqEqual
    <2> QED BY <2>5 DEF end, front
  <1> QED BY <1>7, <1>8, <1>9

\* What a line adds to the text of a choice.
Adds(i, said, line) == IF line.kind = "chunk" /\ line.index = i THEN said \o line.text ELSE said

LEMMA TextsOfLines ==
  \A line \in EventLines :
    /\ line.text \in Seq(Nat)
    /\ \A i, said : said \in Seq(Nat) => Adds(i, said, line) \in Seq(Nat)
  <1>1. Texts \subseteq Seq(Nat) /\ <<>> \in Seq(Nat)
    BY GenAssumption DEF GenAssumption
  <1>2. \A line \in EventLines : line.text \in Seq(Nat)
    BY <1>1 DEF EventLines
  <1>3. \A s, t : s \in Seq(Nat) /\ t \in Seq(Nat) => s \o t \in Seq(Nat)
    BY ConcatProperties
  <1> QED BY <1>2, <1>3 DEF Adds

\* Line after line, a choice has said more.
LEMMA SaidAddsUp ==
  ASSUME NEW i, NEW lines \in Seq(EventLines)
  PROVE  /\ SaidBy(i, lines) \in [0..Len(lines) -> Seq(Nat)] /\ SaidBy(i, lines)[0] = <<>>
         /\ \A k \in 1..Len(lines) :
              SaidBy(i, lines)[k] = Adds(i, SaidBy(i, lines)[k - 1], lines[k])
  <1> DEFINE n == Len(lines)
             S == Seq(Nat)
             step == [x \in S \X (1..n) |-> Adds(i, x[1], lines[x[2]])]
             IsSaid(s) == s = [k \in 0..n |->
                                 IF k = 0 THEN <<>>
                                 ELSE IF lines[k].kind = "chunk" /\ lines[k].index = i
                                      THEN s[k - 1] \o lines[k].text
                                      ELSE s[k - 1]]
  <1>1. n \in Nat /\ \A k \in 1..n : lines[k] \in EventLines
    OBVIOUS
  <1>2. <<>> \in S
    OBVIOUS
  <1> HIDE DEF n, S
  <1>3. ASSUME NEW x \in S, NEW k \in 1..n
        PROVE  step[<<x, k>>] = Adds(i, x, lines[k]) /\ Adds(i, x, lines[k]) \in S
    <2>1. Adds(i, x, lines[k]) \in S
      BY <1>1, TextsOfLines DEF S
    <2> QED BY <2>1
  <1> HIDE DEF step
  <1>4. CanStep(n, S, <<>>, step)
    BY <1>2, <1>3 DEF CanStep
  <1>5. \E g : Steps(g, n, S, <<>>, step)
    BY <1>1, <1>4, StepByStep
  <1>6. PICK g : Steps(g, n, S, <<>>, step)
    BY <1>5
  <1>7. g \in [0..n -> S] /\ g[0] = <<>> /\ \A k \in 1..n : g[k] = step[<<g[k - 1], k>>]
    BY <1>6 DEF Steps
  <1>8. ASSUME NEW k \in 1..n PROVE g[k] = Adds(i, g[k - 1], lines[k])
    <2>1. k - 1 \in 0..n
      BY <1>1
    <2>2. g[k - 1] \in S
      BY <1>7, <2>1
    <2> QED BY <1>3, <1>7, <2>2
  <1>9. IsSaid(g)
    <2> DEFINE says(k) == IF k = 0 THEN <<>>
                          ELSE IF lines[k].kind = "chunk" /\ lines[k].index = i
                               THEN g[k - 1] \o lines[k].text
                               ELSE g[k - 1]
    <2>1. ASSUME NEW k \in 0..n PROVE g[k] = says(k)
      <3>1. CASE k = 0
        BY <1>7, <3>1
      <3>2. CASE k # 0
        <4>1. k \in 1..n
          BY <1>1, <3>2
        <4> QED BY <1>8, <3>2, <4>1 DEF Adds
      <3> QED BY <3>1, <3>2
    <2>2. g = [k \in 0..n |-> g[k]]
      BY <1>7
    <2> HIDE DEF says
    <2>3. g = [k \in 0..n |-> says(k)]
      BY <2>1, <2>2
    <2> QED BY <2>3 DEF says
  <1>10. SaidBy(i, lines) = CHOOSE s : IsSaid(s)
    BY DEF SaidBy, n
  <1>11. IsSaid(SaidBy(i, lines))
    <2> HIDE DEF IsSaid
    <2> QED BY <1>9, <1>10
  <1> DEFINE said == SaidBy(i, lines)
  <1>12. /\ DOMAIN said = 0..n /\ said[0] = <<>> /\ said = [k \in 0..n |-> said[k]]
         /\ \A k \in 1..n : said[k] = Adds(i, said[k - 1], lines[k])
    <2>1. IsSaid(said)
      BY <1>11
    <2> HIDE DEF said
    <2>2. /\ DOMAIN said = 0..n /\ said = [k \in 0..n |-> said[k]]
          /\ \A k \in 0..n : said[k] = IF k = 0 THEN <<>> ELSE Adds(i, said[k - 1], lines[k])
      BY <2>1 DEF Adds
    <2>3. 0 \in 0..n /\ \A k \in 1..n : k \in 0..n /\ k # 0
      BY <1>1
    <2>4. said[0] = <<>> /\ \A k \in 1..n : said[k] = Adds(i, said[k - 1], lines[k])
      BY <2>2, <2>3
    <2> QED BY <2>2, <2>4
  <1> HIDE DEF said
  <1>13. \A k \in 0..n : said[k] \in S
    <2> DEFINE good == {k \in 0..n : said[k] \in S}
    <2>1. 0 \in good
      BY <1>1, <1>2, <1>12
    <2>2. ASSUME NEW k \in 1..n, k - 1 \in good PROVE k \in good
      <3>1. Adds(i, said[k - 1], lines[k]) \in S
        BY <1>3, <2>2
      <3>2. said[k] \in S
        BY <1>12, <3>1
      <3> QED BY <1>1, <3>2
    <2>3. good \in SUBSET (0..n)
      OBVIOUS
    <2> HIDE DEF good
    <2>4. \A k \in 0..n : k \in good
      BY <1>1, <2>1, <2>2, <2>3, CountUp
    <2> QED BY <2>4 DEF good
  <1> QED BY <1>12, <1>13 DEF said, n, S

\* A choice has said nothing at first, and then what the next line adds.
LEMMA SaidNext ==
  ASSUME NEW i, NEW lines \in Seq(EventLines), NEW line \in EventLines
  PROVE  /\ Said(i, lines) \in Seq(Nat)
         /\ Said(i, lines \o <<line>>) = Adds(i, Said(i, lines), line)
  <1> DEFINE more == lines \o <<line>>
             old == SaidBy(i, lines)
             new == SaidBy(i, more)
             n == Len(lines)
  <1>1. /\ more \in Seq(EventLines) /\ Len(more) = n + 1 /\ n \in Nat
        /\ more[n + 1] = line /\ \A k \in 1..n : more[k] = lines[k]
    OBVIOUS
  <1> HIDE DEF more, n
  <1>2. /\ old \in [0..n -> Seq(Nat)] /\ old[0] = <<>>
        /\ \A k \in 1..n : old[k] = Adds(i, old[k - 1], lines[k])
    BY SaidAddsUp DEF n
  <1>3. /\ new[0] = <<>> /\ \A k \in 1..(n + 1) : new[k] = Adds(i, new[k - 1], more[k])
    BY <1>1, SaidAddsUp
  <1> HIDE DEF old, new
  <1>4. \A k \in 0..n : new[k] = old[k]
    <2> DEFINE good == {k \in 0..n : new[k] = old[k]}
    <2>1. 0 \in good
      BY <1>1, <1>2, <1>3, SMTT(20)
    <2>2. ASSUME NEW k \in 1..n, k - 1 \in good PROVE k \in good
      <3>1. k \in 1..(n + 1) /\ k \in 0..n /\ new[k - 1] = old[k - 1]
        BY <1>1, <2>2
      <3>2. new[k] = Adds(i, new[k - 1], lines[k])
        BY <1>1, <1>3, <3>1
      <3>3. new[k] = old[k]
        BY <1>2, <3>1, <3>2
      <3> QED BY <3>1, <3>3
    <2>3. good \in SUBSET (0..n)
      OBVIOUS
    <2> HIDE DEF good
    <2>4. \A k \in 0..n : k \in good
      BY <1>1, <2>1, <2>2, <2>3, CountUp
    <2> QED BY <2>4 DEF good
  <1>5. n \in 0..n /\ n + 1 \in 1..(n + 1) /\ (n + 1) - 1 = n
    BY <1>1
  <1>6. new[n + 1] = Adds(i, old[n], line) /\ old[n] \in Seq(Nat)
    BY <1>1, <1>2, <1>3, <1>4, <1>5
  <1>7. Said(i, lines) = old[n] /\ Said(i, more) = new[n + 1]
    BY <1>1 DEF Said, old, new, n
  <1> QED BY <1>6, <1>7 DEF more

LEMMA SaidAtFirst == \A i : Said(i, <<>>) = <<>>
  <1> TAKE i
  <1>1. <<>> \in Seq(EventLines) /\ Len(<<>>) = 0
    OBVIOUS
  <1>2. SaidBy(i, <<>>)[0] = <<>>
    BY <1>1, SaidAddsUp
  <1> QED BY <1>1, <1>2 DEF Said

\* What is kept of a choice that has said so much.
Accs == [text : Seq(Nat), truncated : BOOLEAN]

KeptOf(acc, said) ==
  /\ acc \in Accs /\ said \in Seq(Nat)
  /\ ~acc.truncated => acc.text = said /\ Bytes(said) <= KeepBytes
  /\ acc.truncated => acc.text = CutAt(said, KeepBytes) /\ Bytes(said) > KeepBytes

LEMMA AppendKeeps ==
  ASSUME NEW said \in Seq(Nat), NEW text \in Seq(Nat), NEW acc, KeptOf(acc, said)
  PROVE  KeptOf(AppendContent(acc, text), said \o text)
  <1>1. /\ acc \in Accs /\ acc.text \in Seq(Nat) /\ acc.truncated \in BOOLEAN
        /\ KeepBytes \in Nat
    BY GenAssumption DEF KeptOf, Accs, GenAssumption
  <1>2. /\ Bytes(said) \in Nat /\ Bytes(text) \in Nat /\ said \o text \in Seq(Nat)
        /\ Bytes(said \o text) = Bytes(said) + Bytes(text)
    <2>1. \A t \in Seq(Nat) : Bytes(t) \in Nat
      <3> TAKE t \in Seq(Nat)
      <3>1. Len(t) \in 0..Len(t)
        OBVIOUS
      <3> QED BY <3>1, WidthsAddUp DEF Bytes
    <2> QED BY <2>1, WidthsOfTwo, ConcatProperties
  <1>3. CASE acc.truncated
    <2>1. AppendContent(acc, text) = acc
      BY <1>3 DEF AppendContent
    <2>2. acc.text = CutAt(said, KeepBytes) /\ Bytes(said) > KeepBytes
      BY <1>3 DEF KeptOf
    <2>3. CutAt(said \o text, KeepBytes) = CutAt(said, KeepBytes) /\ Bytes(said \o text) > KeepBytes
      BY <1>1, <2>2, CutOfLong
    <2> QED BY <1>1, <1>3, <2>1, <2>2, <2>3 DEF KeptOf
  <1>4. CASE ~acc.truncated /\ text = <<>>
    <2>1. AppendContent(acc, text) = acc /\ said \o text = said
      BY <1>4 DEF AppendContent
    <2> QED BY <2>1
  <1>5. CASE ~acc.truncated /\ text # <<>> /\ Bytes(said) + Bytes(text) <= KeepBytes
    <2>1. acc.text = said
      BY <1>5 DEF KeptOf
    <2>2. AppendContent(acc, text) = [acc EXCEPT !.text = said \o text]
      BY <1>5, <2>1 DEF AppendContent
    <2> DEFINE new == [acc EXCEPT !.text = said \o text]
    <2>3. new \in Accs /\ new.text = said \o text /\ new.truncated = acc.truncated
      <3> DEFINE both == said \o text
      <3>1. both \in Seq(Nat)
        BY <1>2
      <3> HIDE DEF both
      <3>2. /\ [acc EXCEPT !.text = both] \in Accs /\ [acc EXCEPT !.text = both].text = both
            /\ [acc EXCEPT !.text = both].truncated = acc.truncated
        BY <1>1, <3>1 DEF Accs
      <3> QED BY <3>2 DEF both
    <2> HIDE DEF new
    <2>4. KeptOf(new, said \o text)
      BY <1>2, <1>5, <2>3 DEF KeptOf
    <2> QED BY <2>2, <2>4 DEF new
  <1>6. CASE ~acc.truncated /\ text # <<>> /\ ~(Bytes(said) + Bytes(text) <= KeepBytes)
    <2>1. acc.text = said /\ Bytes(said) <= KeepBytes
      BY <1>6 DEF KeptOf
    <2>2. AppendContent(acc, text) =
            [text |-> said \o CutAt(text, KeepBytes - Bytes(said)), truncated |-> TRUE]
      BY <1>6, <2>1 DEF AppendContent
    <2>3. said \o CutAt(text, KeepBytes - Bytes(said)) = CutAt(said \o text, KeepBytes)
      BY <1>1, <2>1, CutOfBoth
    <2> DEFINE kept == CutAt(said \o text, KeepBytes)
    <2>4. kept \in Seq(Nat)
      <3> DEFINE both == said \o text
      <3>1. both \in Seq(Nat)
        BY <1>2
      <3> HIDE DEF both
      <3>2. PICK q \in 0..Len(both) : IsCut(both, KeepBytes, q)
        BY <1>1, <3>1, CutIsThere
      <3>3. CutAt(both, KeepBytes) = SubSeq(both, 1, q)
        BY <1>1, <3>1, <3>2, CutTo
      <3>4. SubSeq(both, 1, q) \in Seq(Nat)
        BY <3>1
      <3> QED BY <3>3, <3>4 DEF both
    <2>5. AppendContent(acc, text) = [text |-> kept, truncated |-> TRUE]
      BY <2>2, <2>3
    <2>6. Bytes(said \o text) > KeepBytes
      BY <1>1, <1>2, <1>6
    <2>7. KeptOf([text |-> kept, truncated |-> TRUE], said \o text)
      <3>1. [text |-> kept, truncated |-> TRUE] \in Accs
        <4> HIDE DEF kept
        <4> QED BY <2>4 DEF Accs
      <3> QED BY <2>6, <3>1 DEF KeptOf
    <2> QED BY <2>5, <2>7
  <1> QED BY <1>3, <1>4, <1>5, <1>6

WithinLimit(acc) == ~acc.truncated => Bytes(acc.text) <= KeepBytes

LEMMA AppendType ==
  ASSUME NEW acc \in Accs, NEW text \in Seq(Nat), WithinLimit(acc)
  PROVE  AppendContent(acc, text) \in Accs /\ WithinLimit(AppendContent(acc, text))
  <1>1. CASE acc.truncated
    <2>1. AppendContent(acc, text) = acc
      BY <1>1 DEF AppendContent
    <2> QED BY <2>1
  <1>2. CASE ~acc.truncated
    <2>1. acc.text \in Seq(Nat) /\ KeptOf(acc, acc.text)
      BY <1>2 DEF Accs, KeptOf, WithinLimit
    <2>2. KeptOf(AppendContent(acc, text), acc.text \o text)
      BY <2>1, AppendKeeps
    <2> QED BY <2>2 DEF KeptOf, WithinLimit
  <1> QED BY <1>1, <1>2

\* A choice of which nothing was captured has said nothing that was looked at.
LEMMA EmptyKeeps == KeptOf(Empty, <<>>)
  <1>1. <<>> \in Seq(Nat) /\ Len(<<>>) = 0
    OBVIOUS
  <1>2. Bytes(<<>>) = 0
    BY <1>1, WidthsAddUp DEF Bytes
  <1> QED BY <1>1, <1>2, GenAssumption DEF KeptOf, Empty, Accs, GenAssumption

\* What the reader has captured, and what the lines have said.
IsCaptured(captured) ==
  /\ captured \in [DOMAIN captured -> Accs]
  /\ \A i \in DOMAIN captured : WithinLimit(captured[i])
  /\ IsFiniteSet(DOMAIN captured) /\ Cardinality(DOMAIN captured) <= MaxStreams

KeepsAll(captured, lines) ==
  /\ \A i \in DOMAIN captured : KeptOf(captured[i], Said(i, lines))
  /\ Cardinality(DOMAIN captured) < MaxStreams =>
       \A i : i \notin DOMAIN captured => Said(i, lines) = <<>>

LEMMA CaptureKeeps ==
  ASSUME NEW captured, IsCaptured(captured), NEW line \in EventLines, line.kind = "chunk"
  PROVE  /\ IsCaptured(Capture(captured, line))
         /\ \A lines \in Seq(EventLines) :
              KeepsAll(captured, lines) => KeepsAll(Capture(captured, line), lines \o <<line>>)
  <1> DEFINE D == DOMAIN captured
             new == Capture(captured, line)
             i == line.index
             text == line.text
  <1>1. /\ captured \in [D -> Accs] /\ IsFiniteSet(D) /\ Cardinality(D) <= MaxStreams
        /\ Cardinality(D) \in Nat /\ MaxStreams \in Nat /\ text \in Seq(Nat)
        /\ \A j \in D : WithinLimit(captured[j])
    BY FS_CardinalityType, GenAssumption, TextsOfLines DEF IsCaptured, GenAssumption
  <1>2. ASSUME NEW lines \in Seq(EventLines), NEW j
        PROVE  /\ Said(j, lines) \in Seq(Nat)
               /\ Said(j, lines \o <<line>>) = IF j = i THEN Said(j, lines) \o text ELSE Said(j, lines)
    BY SaidNext DEF Adds
  <1> HIDE DEF D, new, i, text
  <1>3. CASE text = <<>>
    <2>1. new = captured
      BY <1>3 DEF new, text, Capture
    <2>2. ASSUME NEW lines \in Seq(EventLines), NEW j
          PROVE  Said(j, lines \o <<line>>) = Said(j, lines)
      <3>1. \A s \in Seq(Nat) : s \o <<>> = s
        OBVIOUS
      <3> QED BY <1>2, <1>3, <3>1
    <2> QED BY <2>1, <2>2 DEF KeepsAll, new
  <1>4. CASE text # <<>> /\ i \in D
    <2> DEFINE acc == AppendContent(captured[i], text)
    <2>1. new = [captured EXCEPT ![i] = acc]
      BY <1>4 DEF new, i, D, text, Capture
    <2>2. acc \in Accs /\ WithinLimit(acc)
      <3>1. captured[i] \in Accs
        BY <1>1, <1>4
      <3> QED BY <1>1, <1>4, <3>1, AppendType
    <2> HIDE DEF acc
    <2>3. /\ new \in [D -> Accs] /\ DOMAIN new = D /\ new[i] = acc
          /\ \A j \in D : j # i => new[j] = captured[j]
      BY <1>1, <1>4, <2>1, <2>2
    <2>4. IsCaptured(new)
      BY <1>1, <2>2, <2>3 DEF IsCaptured
    <2>5. ASSUME NEW lines \in Seq(EventLines), KeepsAll(captured, lines)
          PROVE  KeepsAll(new, lines \o <<line>>)
      <3>1. KeptOf(captured[i], Said(i, lines))
        BY <1>4, <2>5 DEF KeepsAll, D
      <3>2. KeptOf(acc, Said(i, lines) \o text)
        BY <1>1, <1>2, <3>1, AppendKeeps DEF acc
      <3>3. ASSUME NEW j \in D PROVE KeptOf(new[j], Said(j, lines \o <<line>>))
        <4>1. CASE j = i
          BY <1>2, <2>3, <3>2, <4>1
        <4>2. CASE j # i
          BY <1>2, <2>3, <2>5, <4>2 DEF KeepsAll, D
        <4> QED BY <4>1, <4>2
      <3>4. ASSUME NEW j, j \notin D, Cardinality(D) < MaxStreams
            PROVE  Said(j, lines \o <<line>>) = <<>>
        BY <1>2, <1>4, <2>5, <3>4 DEF KeepsAll, D
      <3> QED BY <2>3, <3>3, <3>4 DEF KeepsAll
    <2> QED BY <2>4, <2>5 DEF new
  <1>5. CASE text # <<>> /\ i \notin D /\ Cardinality(D) >= MaxStreams
    <2>1. new = captured
      BY <1>5 DEF new, i, D, text, Capture
    <2>2. ASSUME NEW lines \in Seq(EventLines), KeepsAll(captured, lines)
          PROVE  KeepsAll(captured, lines \o <<line>>)
      <3>1. \A j \in D : j # i
        BY <1>5
      <3>2. ~(Cardinality(D) < MaxStreams)
        BY <1>1, <1>5
      <3> QED BY <1>2, <2>2, <3>1, <3>2 DEF KeepsAll, D
    <2> QED BY <2>1, <2>2 DEF new
  <1>6. CASE text # <<>> /\ i \notin D /\ ~(Cardinality(D) >= MaxStreams)
    <2> DEFINE acc == AppendContent(Empty, text)
               E == D \cup {i}
    <2>1. new = [j \in E |-> IF j = i THEN acc ELSE captured[j]]
      BY <1>6 DEF new, i, D, text, Capture
    <2>2. KeptOf(acc, text)
      <3>1. <<>> \in Seq(Nat) /\ <<>> \o text = text
        BY <1>1
      <3> QED BY <1>1, <3>1, EmptyKeeps, AppendKeeps
    <2>3. acc \in Accs /\ WithinLimit(acc)
      BY <2>2 DEF KeptOf, WithinLimit
    <2>4. IsFiniteSet(E) /\ Cardinality(E) = Cardinality(D) + 1
      BY <1>1, <1>6, FS_AddElement
    <2> HIDE DEF acc, E
    <2>5. /\ DOMAIN new = E /\ new \in [E -> Accs] /\ new[i] = acc
          /\ \A j \in D : j # i /\ new[j] = captured[j]
          /\ \A j \in E : j = i \/ j \in D
      BY <1>1, <1>6, <2>1, <2>3 DEF E
    <2>6. IsCaptured(new)
      BY <1>1, <1>6, <2>3, <2>4, <2>5 DEF IsCaptured
    <2>7. ASSUME NEW lines \in Seq(EventLines), KeepsAll(captured, lines)
          PROVE  KeepsAll(new, lines \o <<line>>)
      <3>1. Cardinality(D) < MaxStreams
        BY <1>1, <1>6
      <3>2. \A j : j \notin D => Said(j, lines) = <<>>
        BY <2>7, <3>1 DEF KeepsAll, D
      <3>3. Said(i, lines \o <<line>>) = text
        <4>1. <<>> \o text = text
          BY <1>1
        <4> QED BY <1>2, <1>6, <3>2, <4>1
      <3>4. ASSUME NEW j \in E PROVE KeptOf(new[j], Said(j, lines \o <<line>>))
        <4>1. CASE j = i
          BY <2>2, <2>5, <3>3, <4>1
        <4>2. CASE j \in D
          BY <1>2, <2>5, <2>7, <4>2 DEF KeepsAll, D
        <4> QED BY <2>5, <4>1, <4>2
      <3>5. ASSUME NEW j, j \notin E PROVE Said(j, lines \o <<line>>) = <<>>
        <4>1. j \notin D /\ j # i
          BY <3>5 DEF E
        <4> QED BY <1>2, <3>2, <4>1
      <3> QED BY <2>5, <3>4, <3>5 DEF KeepsAll
    <2> QED BY <2>6, <2>7 DEF new
  <1> QED BY <1>3, <1>4, <1>5, <1>6

\* A reader that has captured what the lines said.
Follows(r, lines) ==
  /\ IsReader(r) /\ IsCaptured(r.captured)
  /\ lines \in Seq(EventLines) /\ KeepsAll(r.captured, lines)

\* The captured content and the lines that came agree unless the stream broke.
CaptureInv ==
  /\ IsCaptured(reader.captured)
  /\ ~genSpan.hard => KeepsAll(reader.captured, arrived)

LEMMA LineFollows ==
  ASSUME NEW r, NEW lines, Follows(r, lines), NEW line \in EventLines
  PROVE  Follows(ProcessLine(r, line), lines \o <<line>>)
  <1>1. IsReader(r) /\ IsCaptured(r.captured) /\ KeepsAll(r.captured, lines)
    BY DEF Follows
  <1>2. lines \in Seq(EventLines) /\ lines \o <<line>> \in Seq(EventLines)
    BY TellsOfFew, TellsOfConcat DEF Follows
  <1>3. IsReader(ProcessLine(r, line))
    BY <1>1, ProcessTells
  <1>4. CASE line.kind = "chunk"
    <2> DEFINE cap == Capture(r.captured, line)
               fin == r.reasons \/ line.finish
    <2>1. ProcessLine(r, line) = [r EXCEPT !.reasons = fin, !.captured = cap]
      BY <1>4 DEF ProcessLine
    <2>2. IsCaptured(cap) /\ KeepsAll(cap, lines \o <<line>>)
      BY <1>1, <1>2, <1>4, CaptureKeeps
    <2> HIDE DEF cap, fin
    <2>3. ProcessLine(r, line).captured = cap
      BY <1>1, <2>1 DEF IsReader
    <2> QED BY <1>2, <1>3, <2>2, <2>3 DEF Follows
  <1>5. CASE line.kind # "chunk"
    <2>1. ProcessLine(r, line).captured = r.captured
      BY <1>1, <1>5, LinesHaveKinds DEF ProcessLine, IsReader
    <2>2. ASSUME NEW i PROVE Said(i, lines \o <<line>>) = Said(i, lines)
      BY <1>2, <1>5, SaidNext DEF Adds
    <2>3. KeepsAll(r.captured, lines \o <<line>>)
      BY <1>1, <2>2 DEF KeepsAll
    <2> QED BY <1>1, <1>2, <1>3, <2>1, <2>3 DEF Follows
  <1> QED BY <1>4, <1>5

LEMMA FlushFollows ==
  ASSUME NEW r, NEW lines, Follows(r, lines),
         NEW p \in [line : EventLines, have : Nothing..WholeText]
  PROVE  Follows(FlushRemaining(r, p),
                 lines \o (IF p.have = WholeText THEN <<p.line>> ELSE <<>>))
  <1>1. CASE p.have = WholeText
    BY <1>1, LineFollows DEF FlushRemaining
  <1>2. CASE p.have # WholeText
    <2>1. lines \o <<>> = lines
      BY DEF Follows
    <2> QED BY <1>2, <2>1 DEF FlushRemaining
  <1> QED BY <1>1, <1>2

\* The span is ended by a reader that follows what came, or the stream broke.
LEMMA EndFollows ==
  ASSUME GenInv, genSpan.ends = 0, genSpan.started, NEW r, IsReader(r),
         IsCaptured(r.captured), NEW hard \in BOOLEAN,
         genSpan' = Finalized(r, hard), reader' = r, ~hard => Follows(r, arrived')
  PROVE  CaptureInv'
  <1>1. genSpan \in GenSpanRecord /\ genSpan.durations = 0
    BY DEF GenInv, GenTypeInv, EndedOnce
  <1>2. genSpan'.hard = hard
    BY <1>1, FinalizedSpan
  <1> QED BY <1>2 DEF CaptureInv, Follows

LEMMA CaptureStarts == GenInit => CaptureInv
  <1> SUFFICES ASSUME GenInit PROVE CaptureInv
    OBVIOUS
  <1>1. reader.captured = [i \in {} |-> Empty] /\ arrived = <<>>
    BY DEF GenInit
  <1>2. DOMAIN reader.captured = {} /\ reader.captured \in [{} -> Accs]
    BY <1>1
  <1>3. IsFiniteSet({}) /\ Cardinality({}) = 0 /\ MaxStreams \in Nat
    BY FS_EmptySet, GenAssumption DEF GenAssumption
  <1> QED BY <1>1, <1>2, <1>3, SaidAtFirst DEF CaptureInv, IsCaptured, KeepsAll

LEMMA CaptureSteps == GenInv /\ CaptureInv /\ [GenNext]_genVars => CaptureInv'
  <1> SUFFICES ASSUME GenInv, CaptureInv, [GenNext]_genVars PROVE CaptureInv'
    OBVIOUS
  <1>1. GenTypeInv /\ GenStagesInv /\ EndedOnce
    BY DEF GenInv
  <1>2. ASSUME UNCHANGED <<reader, arrived>>, genSpan'.hard = genSpan.hard PROVE CaptureInv'
    BY <1>2 DEF CaptureInv
  <1>3. genSpan.ends = 0 => Follows(reader, arrived)
    BY <1>1 DEF GenTypeInv, GenStagesInv, CaptureInv, Follows
  <1>4. CASE PassThrough \/ SendRequest \/ RequestFails \/ WholeAnswer \/ StreamBegins
             \/ ReadBody \/ UNCHANGED genVars
    <2>1. UNCHANGED <<reader, arrived>>
      BY <1>4 DEF PassThrough, SendRequest, RequestFails, WholeAnswer, Answered, StreamBegins,
                  ReadBody, genVars
    <2>2. genSpan'.hard = genSpan.hard
      BY <1>1, <1>4 DEF PassThrough, SendRequest, RequestFails, WholeAnswer, Answered,
                        StreamBegins, ReadBody, genVars, GenTypeInv, GenSpanRecord
    <2> QED BY <1>2, <2>1, <2>2
  <1>5. CASE ReadReturns
    <2>1. genSpan.ends = 0 /\ genSpan.started /\ Follows(reader, arrived)
      BY <1>1, <1>3, <1>5 DEF ReadReturns, GenStagesInv
    <2>2. PICK new \in Brought, err \in {"none", "eof", "hard"} :
         LET read == ProcessLines(reader, new.whole)
             final == IF err = "eof" THEN FlushRemaining(read, new.rest) ELSE read
             last == IF new.rest.have = WholeText THEN <<new.rest.line>> ELSE <<>>
         IN IF err = "none"
            THEN reader' = read /\ arrived' = arrived \o new.whole /\ UNCHANGED genSpan
            ELSE /\ reader' = final /\ arrived' = arrived \o new.whole \o last
                 /\ genSpan' = Finalized(final, err = "hard")
      BY <1>5 DEF ReadReturns
    <2> DEFINE read == ProcessLines(reader, new.whole)
               flushed == FlushRemaining(read, new.rest)
               last == IF new.rest.have = WholeText THEN <<new.rest.line>> ELSE <<>>
    <2>3. Follows(read, arrived \o new.whole)
      <3>1. CASE new.whole = <<>>
        <4>1. arrived \o <<>> = arrived
          BY <2>1 DEF Follows
        <4> QED BY <2>1, <3>1, <4>1 DEF ProcessLines
      <3>2. CASE \E line \in EventLines : new.whole = <<line>>
        <4>1. PICK line \in EventLines : new.whole = <<line>>
          BY <3>2
        <4>2. read = ProcessLine(reader, line)
          BY <4>1 DEF ProcessLines
        <4> HIDE DEF read
        <4> QED BY <2>1, <4>1, <4>2, LineFollows
      <3> QED BY <1>1, <3>1, <3>2, BroughtShapes
    <2>4. new.rest \in [line : EventLines, have : Nothing..WholeText]
      BY <1>1, BroughtShapes
    <2>5. Follows(flushed, arrived \o new.whole \o last)
      <3> HIDE DEF read
      <3> QED BY <2>3, <2>4, FlushFollows
    <2>6. CASE err = "none"
      <3>1. reader' = read /\ arrived' = arrived \o new.whole /\ UNCHANGED genSpan
        BY <2>2, <2>6
      <3> HIDE DEF read
      <3> QED BY <2>3, <3>1 DEF CaptureInv, Follows
    <2>7. CASE err = "eof"
      <3>1. /\ reader' = flushed /\ arrived' = arrived \o new.whole \o last
            /\ genSpan' = Finalized(flushed, FALSE)
        BY <2>2, <2>7
      <3> HIDE DEF flushed, last
      <3>2. IsReader(flushed) /\ IsCaptured(flushed.captured)
        BY <2>5 DEF Follows
      <3> QED BY <2>1, <2>5, <3>1, <3>2, EndFollows
    <2>8. CASE err = "hard"
      <3>1. reader' = read /\ genSpan' = Finalized(read, TRUE)
        BY <2>2, <2>8
      <3> HIDE DEF read
      <3>2. IsReader(read) /\ IsCaptured(read.captured)
        BY <2>3 DEF Follows
      <3> QED BY <2>1, <3>1, <3>2, EndFollows
    <2> QED BY <2>6, <2>7, <2>8
  <1>6. CASE NothingReturns
    <2>1. UNCHANGED <<reader, arrived>>
      BY <1>6 DEF NothingReturns
    <2>2. CASE FirstToEnd
      <3>1. genSpan' = Finalized(reader, TRUE) /\ genSpan.ends = 0 /\ genSpan.started
        BY <1>1, <1>6, <2>2 DEF NothingReturns, FirstToEnd, GenStagesInv
      <3>2. IsReader(reader) /\ IsCaptured(reader.captured)
        BY <1>1 DEF GenTypeInv, CaptureInv
      <3> QED BY <2>1, <3>1, <3>2, EndFollows
    <2>3. CASE ~FirstToEnd
      BY <1>2, <1>6, <2>1, <2>3 DEF NothingReturns
    <2> QED BY <2>2, <2>3
  <1>7. CASE CloseBody
    <2>1. CASE FirstToEnd
      <3> DEFINE final == FlushRemaining(reader, pending)
                 last == IF pending.have = WholeText THEN <<pending.line>> ELSE <<>>
                 broken == ~Complete(final)
      <3>1. /\ reader' = final /\ genSpan' = Finalized(final, broken)
            /\ arrived' = IF pending.have = WholeText THEN Append(arrived, pending.line) ELSE arrived
        BY <1>7, <2>1 DEF CloseBody, Complete
      <3>2. genSpan.ends = 0 /\ genSpan.started /\ Follows(reader, arrived)
        BY <1>1, <1>3, <1>7, <2>1 DEF CloseBody, FirstToEnd, GenStagesInv
      <3>3. pending \in [line : EventLines, have : Nothing..WholeText]
        BY <1>1 DEF GenTypeInv
      <3>4. Follows(final, arrived \o last)
        BY <3>2, <3>3, FlushFollows
      <3>5. arrived' = arrived \o last
        <4>1. arrived \in Seq(EventLines) /\ pending.line \in EventLines
          BY <3>2, <3>3 DEF Follows
        <4>2. CASE pending.have = WholeText
          BY <3>1, <4>1, <4>2, AppendIsConcat
        <4>3. CASE pending.have # WholeText
          BY <3>1, <4>1, <4>3, ConcatEmptySeq
        <4> QED BY <4>2, <4>3
      <3>6. broken \in BOOLEAN
        BY DEF Complete
      <3> HIDE DEF final, last, broken
      <3>7. IsReader(final) /\ IsCaptured(final.captured)
        BY <3>4 DEF Follows
      <3> QED BY <3>1, <3>2, <3>4, <3>5, <3>6, <3>7, EndFollows
    <2>2. CASE ~FirstToEnd
      BY <1>2, <1>7, <2>2 DEF CloseBody
    <2> QED BY <2>1, <2>2
  <1> QED BY <1>4, <1>5, <1>6, <1>7 DEF GenNext

\* contentAccumulator: what is captured of a choice is the front of all that the
\* lines said of it, up to the limit, for any lines and any cuts of them.
THEOREM CaptureInvariant == GenSpec => []CaptureInv
  BY GenInvariant, CaptureStarts, CaptureSteps, PTL DEF GenSpec

\* The content recorded does not tell how the text was cut into chunks.
THEOREM CaptureIgnoresChunksHolds == GenSpec => []CaptureIgnoresChunks
  <1>1. CaptureInv => CaptureIgnoresChunks
    <2> SUFFICES ASSUME CaptureInv PROVE CaptureIgnoresChunks
      OBVIOUS
    <2>1. ASSUME ~genSpan.hard, NEW i \in DOMAIN reader.captured
          PROVE  reader.captured[i].text = CutAt(Said(i, arrived), KeepBytes)
      <3>1. KeptOf(reader.captured[i], Said(i, arrived))
        BY <2>1 DEF CaptureInv, KeepsAll
      <3>2. CASE reader.captured[i].truncated
        BY <3>1, <3>2 DEF KeptOf
      <3>3. CASE ~reader.captured[i].truncated
        BY <3>1, <3>3, GenAssumption, CutOfShort DEF KeptOf, GenAssumption
      <3> QED BY <3>2, <3>3
    <2> QED BY <2>1 DEF CaptureInv, CaptureIgnoresChunks, IsCaptured
  <1> QED BY CaptureInvariant, <1>1, PTL

-----------------------------------------------------------------------------
(* ClientHooks, for every set of environments and any number of nested      *)
(* calls.                                                                   *)
(*                                                                          *)
(* BalanceInv: a span belongs to one call.  The calls in progress hold      *)
(* different spans, all open, and what is open beside them was left by an   *)
(* After hook that asked again.                                             *)
(*                                                                          *)
(* OperationInv: while the environment stays, the first call of an          *)
(* operation tells whether each call below it is instrumented, with which   *)
(* context and under which parent; a call that counts has its span or will  *)
(* have it when it returns.                                                 *)

ContextRecord == [span : Nat, suppressed : BOOLEAN, fetching : BOOLEAN]

HookedRecord == [fn : DOMAIN Hooks, on : BOOLEAN, data : Seq(Nat), ctx : ContextRecord]

ClientSpanRecord == [by : DOMAIN Hooks \cup {"caller"}, parent : Nat, open : BOOLEAN]

OptionsRecord == [of : {"client", "server"}, injected : BOOLEAN, handlers : Nat]

ClientTypeInv ==
  /\ hooked \in Seq(HookedRecord)
  /\ clientSpans \in Seq(ClientSpanRecord) /\ Len(clientSpans) >= 1
  /\ connection \in OptionsRecord
  /\ gin \in [depth : Int, errors : BOOLEAN, reports : Nat]
  /\ operation \in [made : Seq(DOMAIN Hooks), steady : BOOLEAN]

\* The spans that a call in progress will end.
Holds(call, s) == \E i \in 1..Len(call.data) : call.data[i] = s

HeldInv ==
  /\ clientSpans[1].open
  /\ \A k \in 1..Len(hooked) : \A s \in Nat : Holds(hooked[k], s) =>
       /\ s \in 2..Len(clientSpans) /\ clientSpans[s].open
       /\ clientSpans[s].by = hooked[k].fn
       /\ \A l \in 1..Len(hooked) : Holds(hooked[l], s) => l = k
  /\ \A s \in 2..Len(clientSpans) :
       clientSpans[s].open /\ ~Hooks[clientSpans[s].by].rechecks =>
         \E k \in 1..Len(hooked) : Holds(hooked[k], s)

EnteredNext(calls) == {k \in DOMAIN calls : calls[k].fn = "Next" /\ calls[k].on}

DepthInv == IsFiniteSet(EnteredNext(hooked)) /\ gin.depth = Cardinality(EnteredNext(hooked))

BalanceInv == ClientTypeInv /\ HeldInv /\ DepthInv

LEMMA HookFields ==
  ASSUME NEW f \in DOMAIN Hooks
  PROVE  /\ Hooks[f].span \in {"before", "after", "none"} /\ Hooks[f].root \in BOOLEAN
         /\ Hooks[f].suppresses \in BOOLEAN /\ Hooks[f].rechecks \in BOOLEAN
         /\ Hooks[f].callees \in SUBSET DOMAIN Hooks
  <1> DEFINE callees == SUBSET {"RoundTrip", "DoRequest", "Event", "FetchMessage", "NewClient", "Next"}
             keys == {"opensearch", "elastic", "stripe", "linodego", "k8s_client_go", "redis", "kafka",
                      "grpc", "gin", "nethttp"}
             rows == [key : keys, span : {"before", "after", "none"}, root : BOOLEAN,
                      suppresses : BOOLEAN, rechecks : BOOLEAN, callees : callees]
  <1>1. callees \subseteq SUBSET DOMAIN Hooks
    BY DEF Hooks
  <1>2. \A key \in keys : \A c \in callees : Spanning(key, c) \in rows
    BY DEF Spanning
  <1>3. /\ {"RoundTrip"} \in callees /\ {"DoRequest"} \in callees /\ {"Event"} \in callees
        /\ {"FetchMessage"} \in callees /\ {"NewClient"} \in callees /\ {"Next"} \in callees
        /\ {} \in callees
    OBVIOUS
  <1>4. \A row \in rows :
          /\ [row EXCEPT !.suppresses = TRUE] \in rows
          /\ [row EXCEPT !.rechecks = TRUE] \in rows
          /\ [row EXCEPT !.rechecks = TRUE, !.root = TRUE] \in rows
          /\ [row EXCEPT !.span = "after"] \in rows
          /\ [row EXCEPT !.root = TRUE] \in rows
          /\ [row EXCEPT !.span = "none"] \in rows
    OBVIOUS
  <1> HIDE DEF rows, callees
  <1>5. /\ Stripe \in rows /\ Event \in rows /\ Redis \in rows /\ RPC \in rows
        /\ Spanning("nethttp", {}) \in rows
    BY <1>2, <1>3 DEF Stripe, Event, Redis, RPC
  <1>6. /\ OpenSearch \in rows /\ Elastic \in rows /\ PublicMethod \in rows /\ DoRequest \in rows
        /\ Deltas \in rows /\ ReadMessage \in rows /\ FetchMessage \in rows
        /\ DialContext \in rows /\ NewClient \in rows /\ NewServer \in rows /\ GinNext \in rows
        /\ Served \in rows
    BY <1>2, <1>3, <1>4, Zenon DEF OpenSearch, Elastic, PublicMethod, DoRequest, Deltas, ReadMessage,
                            FetchMessage, DialContext, NewClient, NewServer, GinNext, Served
  <1>7. Hooks[f] \in rows
    BY <1>5, <1>6 DEF Hooks
  <1> QED BY <1>1, <1>7 DEF rows

LEMMA ClientStarts == ClientInit => BalanceInv
  <1> SUFFICES ASSUME ClientInit PROVE BalanceInv
    OBVIOUS
  <1>1. /\ hooked = <<>> /\ clientSpans = <<[by |-> "caller", parent |-> 0, open |-> TRUE]>>
        /\ connection = NoOptions /\ gin = NoRequest
        /\ operation = [made |-> <<>>, steady |-> FALSE]
    BY DEF ClientInit
  <1>2. hooked \in Seq(HookedRecord) /\ Len(hooked) = 0 /\ DOMAIN hooked = {}
    BY <1>1
  <1>3. /\ clientSpans \in Seq(ClientSpanRecord) /\ Len(clientSpans) = 1 /\ clientSpans[1].open
    BY <1>1 DEF ClientSpanRecord
  <1>4. ClientTypeInv
    BY <1>1, <1>2, <1>3 DEF ClientTypeInv, OptionsRecord, NoOptions, NoRequest
  <1>5. HeldInv
    BY <1>2, <1>3 DEF HeldInv
  <1>6. DepthInv
    <2>1. EnteredNext(hooked) = {}
      BY <1>2 DEF EnteredNext
    <2> QED BY <1>1, <2>1, FS_EmptySet DEF DepthInv, NoRequest
  <1> QED BY <1>4, <1>5, <1>6 DEF BalanceInv

-----------------------------------------------------------------------------
(* Calls.                                                                  *)

LEMMA SetenvKeeps == BalanceInv /\ (Setenv \/ UNCHANGED clientVars) => BalanceInv'
  <1> SUFFICES ASSUME BalanceInv, Setenv \/ UNCHANGED clientVars PROVE BalanceInv'
    OBVIOUS
  <1>1. /\ UNCHANGED <<hooked, clientSpans, connection, gin>>
        /\ operation' \in [made : Seq(DOMAIN Hooks), steady : BOOLEAN]
    BY DEF BalanceInv, ClientTypeInv, Setenv, clientVars
  <1> QED BY <1>1 DEF BalanceInv, ClientTypeInv, HeldInv, Holds, DepthInv, EnteredNext

\* The spans that a call starts follow those that are there.
LEMMA SpansAppended ==
  ASSUME NEW held \in Seq(ClientSpanRecord), NEW n \in Nat, NEW new \in ClientSpanRecord
  PROVE  LET spans == held \o [i \in 1..n |-> new] IN
         /\ spans \in Seq(ClientSpanRecord) /\ Len(spans) = Len(held) + n
         /\ \A i \in 1..Len(held) : spans[i] = held[i]
         /\ \A i \in Len(held) + 1..Len(held) + n : spans[i] = new
  <1> DEFINE more == [i \in 1..n |-> new]
  <1>1. more \in Seq(ClientSpanRecord) /\ Len(more) = n /\ \A i \in 1..n : more[i] = new
    OBVIOUS
  <1> HIDE DEF more
  <1>2. Len(held) \in Nat
    OBVIOUS
  <1>3. /\ held \o more \in Seq(ClientSpanRecord) /\ Len(held \o more) = Len(held) + n
        /\ \A i \in 1..Len(held) + n :
             (held \o more)[i] = IF i <= Len(held) THEN held[i] ELSE more[i - Len(held)]
    BY <1>1, ConcatProperties
  <1> QED BY <1>1, <1>2, <1>3 DEF more

\* The parts of a call of f.
Outer == IF hooked = <<>> THEN Background ELSE Caller.ctx
HeldSpans == IF hooked = <<>> THEN SubSeq(clientSpans, 1, 1) ELSE clientSpans
SpansOf(f) == IF Takes(f, Outer) /\ Hooks[f].span = "before" THEN Started(f) ELSE 0
SpanOf(f) == [by |-> f, parent |-> IF Hooks[f].root THEN 0 ELSE Outer.span, open |-> TRUE]
DataOf(f) == [i \in 1..SpansOf(f) |-> Len(HeldSpans) + i]
InnerOf(f) ==
  [span |-> IF SpansOf(f) > 0 THEN Len(HeldSpans) + SpansOf(f) ELSE Outer.span,
   suppressed |-> Outer.suppressed \/ (Takes(f, Outer) /\ Hooks[f].suppresses),
   fetching |-> Outer.fetching \/ (Takes(f, Outer) /\ f = "ReadMessage")]
ProgressOf(f) == [fn |-> f, on |-> Takes(f, Outer), data |-> DataOf(f), ctx |-> InnerOf(f)]
RequestOf == IF hooked = <<>> THEN NoRequest ELSE gin

LEMMA CallEffect ==
  ASSUME NEW f \in DOMAIN Hooks, Call(f)
  PROVE  /\ MayCall(f)
         /\ clientSpans' = HeldSpans \o [i \in 1..SpansOf(f) |-> SpanOf(f)]
         /\ hooked' = Append(hooked, ProgressOf(f))
         /\ connection' = Connected(f, IF hooked = <<>> THEN NoOptions ELSE connection, Takes(f, Outer))
         /\ gin' = IF f = "Next" /\ Takes(f, Outer) THEN [RequestOf EXCEPT !.depth = @ + 1]
                   ELSE RequestOf
         /\ operation' = IF hooked = <<>> THEN [made |-> <<f>>, steady |-> TRUE]
                         ELSE [operation EXCEPT !.made = Append(@, f)]
         /\ env' = env
  BY DEF Call, Outer, HeldSpans, SpansOf, SpanOf, DataOf, InnerOf, ProgressOf, RequestOf

\* The innermost call.
LEMMA CallerFacts ==
  ASSUME BalanceInv, hooked # <<>>
  PROVE  /\ Len(hooked) \in Nat \ {0} /\ Len(hooked) \in 1..Len(hooked)
         /\ Caller = hooked[Len(hooked)] /\ Caller \in HookedRecord
  <1>1. hooked \in Seq(HookedRecord)
    BY DEF BalanceInv, ClientTypeInv
  <1>2. Len(hooked) \in Nat \ {0}
    BY <1>1, EmptySeq
  <1>3. hooked[Len(hooked)] \in HookedRecord
    BY <1>1, <1>2, ElementOfSeq
  <1> QED BY <1>2, <1>3 DEF Caller

LEMMA CallShapes ==
  ASSUME BalanceInv, NEW f \in DOMAIN Hooks
  PROVE  /\ Outer \in ContextRecord /\ SpansOf(f) \in Nat /\ SpanOf(f) \in ClientSpanRecord
         /\ ProgressOf(f) \in HookedRecord
         /\ ProgressOf(f).fn = f /\ ProgressOf(f).on = Takes(f, Outer)
         /\ ProgressOf(f).ctx = InnerOf(f) /\ ProgressOf(f).data = DataOf(f)
         /\ Len(DataOf(f)) = SpansOf(f)
         /\ \A i \in 1..SpansOf(f) : DataOf(f)[i] = Len(HeldSpans) + i
         /\ HeldSpans \in Seq(ClientSpanRecord) /\ Len(HeldSpans) \in 1..Len(clientSpans)
         /\ \A i \in 1..Len(HeldSpans) : HeldSpans[i] = clientSpans[i]
         /\ hooked # <<>> => HeldSpans = clientSpans
         /\ hooked = <<>> => Len(HeldSpans) = 1
  <1>1. ClientTypeInv
    BY DEF BalanceInv
  <1>2. clientSpans \in Seq(ClientSpanRecord) /\ Len(clientSpans) \in Nat /\ Len(clientSpans) >= 1
    BY <1>1 DEF ClientTypeInv
  <1>3. Outer \in ContextRecord
    <2>1. CASE hooked = <<>>
      BY <2>1 DEF Outer, Background, ContextRecord
    <2>2. CASE hooked # <<>>
      BY <2>2, CallerFacts DEF Outer, HookedRecord
    <2> QED BY <2>1, <2>2
  <1>4. /\ HeldSpans \in Seq(ClientSpanRecord) /\ Len(HeldSpans) \in 1..Len(clientSpans)
        /\ \A i \in 1..Len(HeldSpans) : HeldSpans[i] = clientSpans[i]
        /\ hooked # <<>> => HeldSpans = clientSpans
        /\ hooked = <<>> => Len(HeldSpans) = 1
    <2>1. CASE hooked = <<>>
      <3>1. \A i \in 1..1 : clientSpans[i] \in ClientSpanRecord
        BY <1>2
      <3>2. /\ SubSeq(clientSpans, 1, 1) \in Seq(ClientSpanRecord)
            /\ Len(SubSeq(clientSpans, 1, 1)) = 1 /\ SubSeq(clientSpans, 1, 1)[1] = clientSpans[1]
        BY <3>1, SubSeqProperties
      <3> QED BY <1>2, <2>1, <3>2 DEF HeldSpans
    <2>2. CASE hooked # <<>>
      BY <1>2, <2>2 DEF HeldSpans
    <2> QED BY <2>1, <2>2
  <1>5. SpansOf(f) \in Nat
    BY <1>1 DEF SpansOf, Started, ClientTypeInv, OptionsRecord
  <1>6. SpanOf(f) \in ClientSpanRecord
    BY <1>3 DEF SpanOf, ClientSpanRecord, ContextRecord
  <1>7. /\ DataOf(f) \in Seq(Nat) /\ Len(DataOf(f)) = SpansOf(f)
        /\ \A i \in 1..SpansOf(f) : DataOf(f)[i] = Len(HeldSpans) + i
    BY <1>2, <1>4, <1>5 DEF DataOf
  <1>8. Takes(f, Outer) \in BOOLEAN
    BY DEF Takes
  <1>9. InnerOf(f) \in ContextRecord
    <2>1. (IF SpansOf(f) > 0 THEN Len(HeldSpans) + SpansOf(f) ELSE Outer.span) \in Nat
      BY <1>2, <1>3, <1>4, <1>5 DEF ContextRecord
    <2> QED BY <2>1 DEF InnerOf, ContextRecord
  <1>10. ProgressOf(f) \in HookedRecord
    BY <1>7, <1>8, <1>9 DEF ProgressOf, HookedRecord
  <1>11. /\ ProgressOf(f).fn = f /\ ProgressOf(f).on = Takes(f, Outer)
         /\ ProgressOf(f).ctx = InnerOf(f) /\ ProgressOf(f).data = DataOf(f)
    BY DEF ProgressOf
  <1> QED BY <1>3, <1>4, <1>5, <1>6, <1>7, <1>10, <1>11

\* A call in progress is added to the others.
LEMMA HookedAppended ==
  ASSUME BalanceInv, NEW call \in HookedRecord
  PROVE  LET after == Append(hooked, call) IN
         /\ after \in Seq(HookedRecord) /\ Len(after) = Len(hooked) + 1 /\ Len(hooked) \in Nat
         /\ \A k \in 1..Len(hooked) : after[k] = hooked[k]
         /\ after[Len(hooked) + 1] = call
         /\ EnteredNext(after) = IF call.fn = "Next" /\ call.on
                                 THEN EnteredNext(hooked) \cup {Len(hooked) + 1}
                                 ELSE EnteredNext(hooked)
         /\ Len(hooked) + 1 \notin EnteredNext(hooked)
  <1> DEFINE after == Append(hooked, call)
  <1>1. hooked \in Seq(HookedRecord) /\ Len(hooked) \in Nat /\ DOMAIN hooked = 1..Len(hooked)
    BY LenProperties DEF BalanceInv, ClientTypeInv
  <1>2. /\ after \in Seq(HookedRecord) /\ Len(after) = Len(hooked) + 1
        /\ \A k \in 1..Len(hooked) : after[k] = hooked[k]
        /\ after[Len(hooked) + 1] = call
    BY <1>1, AppendProperties
  <1>3. DOMAIN after = 1..(Len(hooked) + 1)
    BY <1>2, LenProperties
  <1> HIDE DEF after
  <1>4. EnteredNext(after) = IF call.fn = "Next" /\ call.on
                             THEN EnteredNext(hooked) \cup {Len(hooked) + 1} ELSE EnteredNext(hooked)
    BY <1>1, <1>2, <1>3 DEF EnteredNext
  <1>5. Len(hooked) + 1 \notin EnteredNext(hooked)
    BY <1>1 DEF EnteredNext
  <1> QED BY <1>1, <1>2, <1>4, <1>5 DEF after

LEMMA CallKeeps ==
  ASSUME BalanceInv, NEW f \in DOMAIN Hooks, Call(f)
  PROVE  BalanceInv'
  <1> DEFINE call == ProgressOf(f)
             n == SpansOf(f)
             L == Len(HeldSpans)
             H == Len(hooked)
  <1>1. ClientTypeInv /\ HeldInv /\ DepthInv
    BY DEF BalanceInv
  <1>2. /\ n \in Nat /\ SpanOf(f) \in ClientSpanRecord /\ call \in HookedRecord
        /\ call.fn = f /\ Len(call.data) = n /\ \A i \in 1..n : call.data[i] = L + i
        /\ HeldSpans \in Seq(ClientSpanRecord) /\ L \in 1..Len(clientSpans)
        /\ \A i \in 1..L : HeldSpans[i] = clientSpans[i]
        /\ hooked # <<>> => HeldSpans = clientSpans
    <2>1. /\ ProgressOf(f).data = DataOf(f) /\ Len(DataOf(f)) = SpansOf(f)
          /\ \A i \in 1..SpansOf(f) : DataOf(f)[i] = Len(HeldSpans) + i
      BY CallShapes
    <2>2. Len(call.data) = n /\ \A i \in 1..n : call.data[i] = L + i
      BY <2>1
    <2> QED BY <2>2, CallShapes
  <1>3. /\ clientSpans' \in Seq(ClientSpanRecord) /\ Len(clientSpans') = L + n
        /\ \A i \in 1..L : clientSpans'[i] = clientSpans[i]
        /\ \A i \in L + 1..L + n : clientSpans'[i] = SpanOf(f)
    <2>1. clientSpans' = HeldSpans \o [i \in 1..n |-> SpanOf(f)]
      BY CallEffect
    <2> HIDE DEF n
    <2>2. /\ clientSpans' \in Seq(ClientSpanRecord) /\ Len(clientSpans') = Len(HeldSpans) + n
          /\ \A i \in 1..Len(HeldSpans) : clientSpans'[i] = HeldSpans[i]
          /\ \A i \in Len(HeldSpans) + 1..Len(HeldSpans) + n : clientSpans'[i] = SpanOf(f)
      BY <1>2, <2>1, SpansAppended
    <2> QED BY <1>2, <2>2
  <1>4. /\ hooked' \in Seq(HookedRecord) /\ Len(hooked') = H + 1 /\ H \in Nat
        /\ \A k \in 1..H : hooked'[k] = hooked[k]
        /\ hooked'[H + 1] = call
        /\ EnteredNext(hooked)' = IF call.fn = "Next" /\ call.on
                                  THEN EnteredNext(hooked) \cup {H + 1} ELSE EnteredNext(hooked)
        /\ H + 1 \notin EnteredNext(hooked)
    <2>1. hooked' = Append(hooked, call)
      BY CallEffect
    <2>2. EnteredNext(hooked)' = EnteredNext(hooked')
      BY DEF EnteredNext
    <2> HIDE DEF call
    <2> QED BY <1>2, <2>1, <2>2, HookedAppended
  <1>5. SpanOf(f).open /\ SpanOf(f).by = f
    BY DEF SpanOf
  <1>6. hooked = <<>> \/ L = Len(clientSpans)
    BY <1>2
  <1>7. L \in Nat \ {0} /\ Len(clientSpans) \in Nat
    BY <1>1, <1>2 DEF ClientTypeInv
  <1>8. hooked = <<>> => H = 0
    OBVIOUS
  <1>9. ClientTypeInv'
    <2>1. connection' \in OptionsRecord
      <3>1. connection' = Connected(f, IF hooked = <<>> THEN NoOptions ELSE connection, Takes(f, Outer))
        BY CallEffect
      <3>2. NoOptions \in OptionsRecord /\ connection \in OptionsRecord
        BY <1>1 DEF ClientTypeInv, NoOptions, OptionsRecord
      <3>3. \A opts \in OptionsRecord : WithClientStatsHandler(opts) \in OptionsRecord
        BY DEF WithClientStatsHandler, OptionsRecord
      <3>4. [of |-> "server", injected |-> FALSE, handlers |-> 1] \in OptionsRecord
        BY DEF OptionsRecord
      <3>5. \A opts \in OptionsRecord : Connected(f, opts, Takes(f, Outer)) \in OptionsRecord
        <4> TAKE opts \in OptionsRecord
        <4>1. CASE f \in {"DialContext", "NewClient", "NewServer"}
          BY <3>2, <3>3, <3>4, <4>1 DEF Connected
        <4>2. CASE f \notin {"DialContext", "NewClient", "NewServer"}
          BY <3>2, <4>2 DEF Connected
        <4> QED BY <4>1, <4>2
      <3> QED BY <3>1, <3>2, <3>5
    <2>2. gin' \in [depth : Int, errors : BOOLEAN, reports : Nat]
      <3>1. gin' = IF f = "Next" /\ Takes(f, Outer) THEN [RequestOf EXCEPT !.depth = @ + 1]
                   ELSE RequestOf
        BY CallEffect
      <3>2. RequestOf \in [depth : Int, errors : BOOLEAN, reports : Nat]
        BY <1>1 DEF ClientTypeInv, RequestOf, NoRequest
      <3> QED BY <3>1, <3>2
    <2>3. operation' \in [made : Seq(DOMAIN Hooks), steady : BOOLEAN]
      <3>1. operation' = IF hooked = <<>> THEN [made |-> <<f>>, steady |-> TRUE]
                         ELSE [operation EXCEPT !.made = Append(@, f)]
        BY CallEffect
      <3>2. operation.made \in Seq(DOMAIN Hooks) /\ <<f>> \in Seq(DOMAIN Hooks)
        BY <1>1 DEF ClientTypeInv
      <3>3. Append(operation.made, f) \in Seq(DOMAIN Hooks)
        BY <3>2, AppendProperties
      <3> DEFINE longer == Append(operation.made, f)
      <3>4. operation' = IF hooked = <<>> THEN [made |-> <<f>>, steady |-> TRUE]
                         ELSE [operation EXCEPT !.made = longer]
        BY <3>1
      <3> HIDE DEF longer
      <3> QED BY <1>1, <3>2, <3>3, <3>4 DEF ClientTypeInv, longer
    <2>4. Len(clientSpans') >= 1
      BY <1>2, <1>3, <1>7
    <2> QED BY <1>3, <1>4, <2>1, <2>2, <2>3, <2>4 DEF ClientTypeInv
  <1> HIDE DEF call, n, L, H
  <1>10. \A s \in Nat : Holds(call, s) <=> s \in L + 1..L + n
    <2>1. \A s \in Nat : Holds(call, s) => s \in L + 1..L + n
      BY <1>2, <1>7 DEF Holds
    <2>2. ASSUME NEW s \in L + 1..L + n
          PROVE  Holds(call, s)
      <3>1. s - L \in 1..n /\ call.data[s - L] = L + (s - L) /\ L + (s - L) = s
        BY <1>2, <1>7
      <3> QED BY <1>2, <3>1 DEF Holds
    <2> QED BY <2>1, <2>2
  <1>11. \A k \in 1..H : \A s \in Nat : Holds(hooked[k], s) =>
           /\ s \in 2..L /\ clientSpans[s].open /\ clientSpans[s].by = hooked[k].fn
           /\ \A l \in 1..H : Holds(hooked[l], s) => l = k
    BY <1>1, <1>4, <1>6, <1>7, <1>8 DEF HeldInv, H
  <1>12. \A k \in 1..H : \A s \in Nat : Holds(hooked[k], s) => s \notin L + 1..L + n
    BY <1>7, <1>11
  <1>held. ASSUME NEW s \in 2..L
            PROVE  /\ s \in 2..Len(clientSpans') /\ s \in 2..Len(clientSpans)
                   /\ clientSpans'[s] = clientSpans[s]
    <2>1. L + n >= L /\ L <= Len(clientSpans) /\ s \in 1..L
      BY <1>2, <1>7
    <2>2. clientSpans'[s] = HeldSpans[s] /\ HeldSpans[s] = clientSpans[s] /\ Len(clientSpans') = L + n
      BY <1>2, <1>3, <2>1
    <2>3. n \in Nat /\ L \in Nat /\ Len(clientSpans) \in Nat
      BY <1>2, <1>7
    <2> QED BY <2>1, <2>2, <2>3
  <1>13. HeldInv'
    <2>1. clientSpans'[1].open
      BY <1>1, <1>3, <1>7 DEF HeldInv
    <2>2. ASSUME NEW k \in 1..Len(hooked'), NEW s \in Nat, Holds(hooked'[k], s)
          PROVE  /\ s \in 2..Len(clientSpans') /\ clientSpans'[s].open
                 /\ clientSpans'[s].by = hooked'[k].fn
                 /\ \A l \in 1..Len(hooked') : Holds(hooked'[l], s) => l = k
      <3>1. CASE k = H + 1
        <4>1. hooked'[k] = call /\ s \in L + 1..L + n
          BY <1>4, <1>10, <2>2, <3>1
        <4>2. /\ s \in 2..Len(clientSpans') /\ clientSpans'[s].open
              /\ clientSpans'[s].by = hooked'[k].fn
          BY <1>2, <1>3, <1>5, <1>7, <4>1
        <4>3. \A l \in 1..H : ~Holds(hooked'[l], s)
          BY <1>4, <1>12, <4>1
        <4> QED BY <1>4, <3>1, <4>2, <4>3
      <3>2. CASE k \in 1..H
        <4>1. /\ hooked'[k] = hooked[k] /\ s \in 2..L /\ clientSpans[s].open
              /\ clientSpans[s].by = hooked[k].fn
              /\ \A l \in 1..H : Holds(hooked'[l], s) => l = k
          BY <1>4, <1>11, <2>2, <3>2
        <4>2. ~Holds(hooked'[H + 1], s)
          BY <1>4, <1>7, <1>10, <4>1
        <4>3. s \in 2..Len(clientSpans') /\ clientSpans'[s] = clientSpans[s]
          BY <1>held, <4>1
        <4> QED BY <1>4, <4>1, <4>2, <4>3
      <3> QED BY <1>4, <3>1, <3>2
    <2>3. ASSUME NEW s \in 2..Len(clientSpans'), clientSpans'[s].open,
                 ~Hooks[clientSpans'[s].by].rechecks
          PROVE  \E k \in 1..Len(hooked') : Holds(hooked'[k], s)
      <3>1. CASE s \in L + 1..L + n
        <4>1. s \in Nat /\ Holds(hooked'[H + 1], s) /\ H + 1 \in 1..Len(hooked')
          BY <1>4, <1>7, <1>10, <3>1
        <4> QED BY <4>1
      <3>2. CASE s \in 2..L
        <4>1. clientSpans'[s] = clientSpans[s] /\ s \in 2..Len(clientSpans)
          BY <1>held, <3>2
        <4>2. PICK k \in 1..Len(hooked) : Holds(hooked[k], s)
          BY <1>1, <2>3, <4>1 DEF HeldInv
        <4>3. k \in 1..Len(hooked') /\ hooked'[k] = hooked[k]
          BY <1>4, <4>2 DEF H
        <4> QED BY <4>2, <4>3
      <3> QED BY <1>2, <1>3, <1>7, <3>1, <3>2
    <2> QED BY <2>1, <2>2, <2>3 DEF HeldInv
  <1>14. DepthInv'
    <2>1. /\ IsFiniteSet(EnteredNext(hooked)) /\ RequestOf.depth = Cardinality(EnteredNext(hooked))
          /\ RequestOf \in [depth : Int, errors : BOOLEAN, reports : Nat]
      <3>1. CASE hooked = <<>>
        <4>1. EnteredNext(hooked) = {}
          BY <3>1 DEF EnteredNext
        <4> QED BY <3>1, <4>1, FS_EmptySet DEF RequestOf, NoRequest
      <3>2. CASE hooked # <<>>
        BY <1>1, <3>2 DEF DepthInv, RequestOf, ClientTypeInv
      <3> QED BY <3>1, <3>2
    <2>2. gin' = IF f = "Next" /\ Takes(f, Outer) THEN [RequestOf EXCEPT !.depth = @ + 1] ELSE RequestOf
      BY CallEffect
    <2>3. call.on = Takes(f, Outer)
      BY CallShapes DEF call
    <2>4. CASE f = "Next" /\ Takes(f, Outer)
      <3>1. EnteredNext(hooked)' = EnteredNext(hooked) \cup {H + 1}
        BY <1>2, <1>4, <2>3, <2>4
      <3>2. gin'.depth = RequestOf.depth + 1
        BY <2>1, <2>2, <2>4
      <3>3. /\ IsFiniteSet(EnteredNext(hooked) \cup {H + 1})
            /\ Cardinality(EnteredNext(hooked) \cup {H + 1}) = Cardinality(EnteredNext(hooked)) + 1
        BY <1>4, <2>1, FS_AddElement
      <3> QED BY <2>1, <3>1, <3>2, <3>3 DEF DepthInv
    <2>5. CASE ~(f = "Next" /\ Takes(f, Outer))
      <3>1. EnteredNext(hooked)' = EnteredNext(hooked) /\ gin' = RequestOf
        BY <1>2, <1>4, <2>2, <2>3, <2>5
      <3> QED BY <2>1, <3>1 DEF DepthInv
    <2> QED BY <2>4, <2>5
  <1> QED BY <1>9, <1>13, <1>14 DEF BalanceInv

-----------------------------------------------------------------------------
(* Returns.                                                                *)

\* The innermost call is taken from the others.
LEMMA HookedShortened ==
  ASSUME BalanceInv, hooked # <<>>, hooked' = SubSeq(hooked, 1, Len(hooked) - 1)
  PROVE  /\ hooked' \in Seq(HookedRecord) /\ Len(hooked') = Len(hooked) - 1
         /\ \A k \in 1..Len(hooked) - 1 : hooked'[k] = hooked[k]
         /\ EnteredNext(hooked)' = EnteredNext(hooked) \ {Len(hooked)}
         /\ Len(hooked) \in EnteredNext(hooked) <=> Caller.fn = "Next" /\ Caller.on
  <1>1. hooked \in Seq(HookedRecord) /\ Len(hooked) \in Nat \ {0} /\ DOMAIN hooked = 1..Len(hooked)
    BY CallerFacts, LenProperties DEF BalanceInv, ClientTypeInv
  <1>2. \A k \in 1..Len(hooked) - 1 : hooked[k] \in HookedRecord
    BY <1>1
  <1>3. /\ hooked' \in Seq(HookedRecord) /\ Len(hooked') = Len(hooked) - 1
        /\ \A k \in 1..Len(hooked) - 1 : hooked'[k] = hooked[k]
    BY <1>1, <1>2, SubSeqProperties
  <1>4. DOMAIN hooked' = 1..Len(hooked) - 1
    BY <1>3, LenProperties
  <1>5. EnteredNext(hooked)' = EnteredNext(hooked) \ {Len(hooked)}
    BY <1>1, <1>3, <1>4 DEF EnteredNext
  <1>6. Len(hooked) \in EnteredNext(hooked) <=> Caller.fn = "Next" /\ Caller.on
    BY <1>1 DEF EnteredNext, Caller
  <1> QED BY <1>3, <1>5, <1>6

\* What the After hook does to the spans.
LEMMA SpansClosed ==
  ASSUME BalanceInv, NEW call \in HookedRecord, NEW carried \in BOOLEAN
  PROVE  LET after == Ended(call) \o Late(call, carried) IN
         /\ after \in Seq(ClientSpanRecord)
         /\ Len(after) = Len(clientSpans)
                          + IF call.on /\ Hooks[call.fn].span = "after" THEN 1 ELSE 0
         /\ \A s \in 1..Len(clientSpans) :
              /\ after[s].by = clientSpans[s].by /\ after[s].parent = clientSpans[s].parent
              /\ after[s].open <=> clientSpans[s].open /\ ~Holds(call, s)
         /\ call.on /\ Hooks[call.fn].span = "after" =>
              after[Len(clientSpans) + 1] =
                [by |-> call.fn, parent |-> IF carried THEN 0 ELSE call.ctx.span, open |-> FALSE]
  <1> DEFINE ended == Ended(call)
             late == Late(call, carried)
             from == IF carried THEN 0 ELSE call.ctx.span
             spans == Len(clientSpans)
  <1>1. clientSpans \in Seq(ClientSpanRecord) /\ spans \in Nat /\ DOMAIN clientSpans = 1..spans
    BY LenProperties DEF BalanceInv, ClientTypeInv
  <1>2. call.data \in Seq(Nat) /\ DOMAIN call.data = 1..Len(call.data) /\ call.fn \in DOMAIN Hooks
    BY LenProperties DEF HookedRecord
  <1>3. \A s \in 1..spans : ended[s] = IF Holds(call, s) THEN [clientSpans[s] EXCEPT !.open = FALSE]
                                       ELSE clientSpans[s]
    BY <1>1, <1>2 DEF Ended, Holds
  <1>4. \A s \in 1..spans : clientSpans[s] \in ClientSpanRecord
    BY <1>1
  <1>5. \A s \in 1..spans :
          /\ ended[s] \in ClientSpanRecord
          /\ ended[s].by = clientSpans[s].by /\ ended[s].parent = clientSpans[s].parent
          /\ ended[s].open <=> clientSpans[s].open /\ ~Holds(call, s)
    <2> HIDE DEF ended
    <2> QED BY <1>3, <1>4 DEF ClientSpanRecord
  <1>6. ended \in Seq(ClientSpanRecord) /\ Len(ended) = spans
    <2>1. ended = [s \in 1..spans |-> ended[s]]
      BY <1>1 DEF Ended
    <2> HIDE DEF ended
    <2>2. ended \in [1..spans -> ClientSpanRecord]
      BY <1>5, <2>1
    <2> QED BY <1>1, <2>2
  <1>7. /\ late \in Seq(ClientSpanRecord)
        /\ Len(late) = IF call.on /\ Hooks[call.fn].span = "after" THEN 1 ELSE 0
        /\ call.on /\ Hooks[call.fn].span = "after" =>
             late[1] = [by |-> call.fn, parent |-> from, open |-> FALSE]
    <2>1. [by |-> call.fn, parent |-> from, open |-> FALSE] \in ClientSpanRecord
      BY <1>2 DEF ClientSpanRecord, HookedRecord, ContextRecord
    <2> QED BY <2>1 DEF Late
  <1> HIDE DEF ended, late
  <1>8. /\ ended \o late \in Seq(ClientSpanRecord) /\ Len(ended \o late) = Len(ended) + Len(late)
        /\ \A i \in 1..Len(ended) + Len(late) :
             (ended \o late)[i] = IF i <= Len(ended) THEN ended[i] ELSE late[i - Len(ended)]
    <2>1. ended \in Seq(ClientSpanRecord) /\ late \in Seq(ClientSpanRecord)
      BY <1>6, <1>7
    <2> QED BY <2>1, ConcatProperties
  <1>9. \A s \in 1..spans : (ended \o late)[s] = ended[s]
    BY <1>1, <1>6, <1>7, <1>8
  <1>10. call.on /\ Hooks[call.fn].span = "after" => (ended \o late)[spans + 1] = late[1]
    BY <1>1, <1>6, <1>7, <1>8
  <1>11. Len(ended \o late) = spans + IF call.on /\ Hooks[call.fn].span = "after" THEN 1 ELSE 0
    BY <1>6, <1>7, <1>8
  <1> QED BY <1>5, <1>7, <1>8, <1>9, <1>10, <1>11 DEF ended, late

LEMMA ReturnKeeps ==
  ASSUME BalanceInv, NEW failed \in BOOLEAN, NEW carried \in BOOLEAN, Return(failed, carried)
  PROVE  BalanceInv'
  <1> DEFINE H == Len(hooked)
             L == Len(clientSpans)
             runs == AsksAgain(Caller.fn) => Instrumented(Hooks[Caller.fn].key)
             late == Caller.on /\ Hooks[Caller.fn].span = "after"
  <1>1. ClientTypeInv /\ HeldInv /\ DepthInv
    BY DEF BalanceInv
  <1>2. /\ hooked # <<>> /\ hooked' = SubSeq(hooked, 1, H - 1)
        /\ clientSpans' = IF runs THEN Ended(Caller) \o Late(Caller, carried) ELSE clientSpans
        /\ gin' = IF Caller.fn = "Next" THEN LeaveNext(Caller, failed) ELSE gin
        /\ UNCHANGED <<env, connection, operation>>
    BY DEF Return
  <1>3. H \in Nat \ {0} /\ Caller = hooked[H] /\ Caller \in HookedRecord
    BY <1>2, CallerFacts
  <1>4. /\ hooked' \in Seq(HookedRecord) /\ Len(hooked') = H - 1
        /\ \A k \in 1..H - 1 : hooked'[k] = hooked[k]
        /\ EnteredNext(hooked)' = EnteredNext(hooked) \ {H}
        /\ H \in EnteredNext(hooked) <=> Caller.fn = "Next" /\ Caller.on
    BY <1>2, HookedShortened
  <1>5. clientSpans \in Seq(ClientSpanRecord) /\ L \in Nat \ {0}
    BY <1>1 DEF ClientTypeInv
  <1> DEFINE after == Ended(Caller) \o Late(Caller, carried)
  <1>6. /\ after \in Seq(ClientSpanRecord) /\ Len(after) = L + IF late THEN 1 ELSE 0
        /\ \A s \in 1..L : /\ after[s].by = clientSpans[s].by
                           /\ after[s].open <=> clientSpans[s].open /\ ~Holds(Caller, s)
        /\ late => ~after[L + 1].open
    <2>1. /\ after \in Seq(ClientSpanRecord) /\ Len(after) = L + IF late THEN 1 ELSE 0
          /\ \A s \in 1..L : /\ after[s].by = clientSpans[s].by
                             /\ after[s].open <=> clientSpans[s].open /\ ~Holds(Caller, s)
          /\ late => after[L + 1] =
               [by |-> Caller.fn, parent |-> IF carried THEN 0 ELSE Caller.ctx.span, open |-> FALSE]
      BY <1>3, SpansClosed, ZenonT(40)
    <2> HIDE DEF after, late
    <2> QED BY <2>1
  <1> HIDE DEF after, late, runs
  <1>7. /\ clientSpans' \in Seq(ClientSpanRecord) /\ Len(clientSpans') \in Nat
        /\ L <= Len(clientSpans')
        /\ \A s \in 1..L :
             /\ clientSpans'[s].by = clientSpans[s].by
             /\ clientSpans'[s].open => clientSpans[s].open
             /\ clientSpans[s].open /\ ~Holds(Caller, s) => clientSpans'[s].open
             /\ Holds(Caller, s) /\ clientSpans'[s].open => Hooks[Caller.fn].rechecks
        /\ \A s \in L + 1..Len(clientSpans') : ~clientSpans'[s].open
    <2>1. CASE runs
      <3>1. clientSpans' = after
        BY <1>2, <2>1 DEF after, runs
      <3>2. Len(after) \in Nat /\ L <= Len(after)
        BY <1>5, <1>6
      <3>3. \A s \in L + 1..Len(after) : late /\ s = L + 1
        BY <1>5, <1>6
      <3> QED BY <1>6, <3>1, <3>2, <3>3
    <2>2. CASE ~runs
      <3>1. clientSpans' = clientSpans /\ Hooks[Caller.fn].rechecks
        BY <1>2, <2>2 DEF runs, AsksAgain
      <3> QED BY <1>5, <3>1
    <2> QED BY <2>1, <2>2
  <1>8. ClientTypeInv'
    <2>1. gin' \in [depth : Int, errors : BOOLEAN, reports : Nat]
      <3>1. gin \in [depth : Int, errors : BOOLEAN, reports : Nat]
        BY <1>1 DEF ClientTypeInv
      <3>2. LeaveNext(Caller, failed) \in [depth : Int, errors : BOOLEAN, reports : Nat]
        BY <3>1 DEF LeaveNext
      <3> QED BY <1>2, <3>1, <3>2
    <2>2. Len(clientSpans') >= 1
      BY <1>5, <1>7
    <2> QED BY <1>1, <1>2, <1>4, <1>7, <2>1, <2>2 DEF ClientTypeInv
  <1> HIDE DEF H, L
  <1>9. \A k \in 1..H : \A s \in Nat : Holds(hooked[k], s) =>
          /\ s \in 2..L /\ clientSpans[s].open /\ clientSpans[s].by = hooked[k].fn
          /\ \A l \in 1..H : Holds(hooked[l], s) => l = k
    BY <1>1 DEF HeldInv, H, L
  <1>10. HeldInv'
    <2>1. clientSpans'[1].open
      <3>1. clientSpans[1].open
        BY <1>1 DEF HeldInv
      <3>2. ~Holds(Caller, 1)
        BY <1>3, <1>5, <1>9
      <3> QED BY <1>5, <1>7, <3>1, <3>2
    <2>2. ASSUME NEW k \in 1..Len(hooked'), NEW s \in Nat, Holds(hooked'[k], s)
          PROVE  /\ s \in 2..Len(clientSpans') /\ clientSpans'[s].open
                 /\ clientSpans'[s].by = hooked'[k].fn
                 /\ \A l \in 1..Len(hooked') : Holds(hooked'[l], s) => l = k
      <3>1. k \in 1..H /\ k # H /\ hooked'[k] = hooked[k]
        BY <1>3, <1>4, <2>2
      <3>2. /\ s \in 2..L /\ clientSpans[s].open /\ clientSpans[s].by = hooked[k].fn
            /\ \A l \in 1..H : Holds(hooked[l], s) => l = k
        BY <1>9, <2>2, <3>1
      <3>3. ~Holds(Caller, s)
        BY <1>3, <3>1, <3>2
      <3>4. s \in 2..Len(clientSpans') /\ clientSpans'[s].open /\ clientSpans'[s].by = hooked'[k].fn
        BY <1>5, <1>7, <3>1, <3>2, <3>3
      <3>5. \A l \in 1..Len(hooked') : l \in 1..H /\ hooked'[l] = hooked[l]
        BY <1>3, <1>4
      <3> QED BY <3>2, <3>4, <3>5
    <2>3. ASSUME NEW s \in 2..Len(clientSpans'), clientSpans'[s].open,
                 ~Hooks[clientSpans'[s].by].rechecks
          PROVE  \E k \in 1..Len(hooked') : Holds(hooked'[k], s)
      <3>1. s \in 2..L
        BY <1>5, <1>7, <2>3
      <3>2. clientSpans[s].open /\ clientSpans[s].by = clientSpans'[s].by
        BY <1>5, <1>7, <2>3, <3>1
      <3>3. PICK k \in 1..H : Holds(hooked[k], s)
        BY <1>1, <2>3, <3>1, <3>2 DEF HeldInv, H, L
      <3>4. clientSpans[s].by = hooked[k].fn
        BY <1>5, <1>9, <3>1, <3>3
      <3>5. k # H
        BY <1>3, <1>5, <1>7, <2>3, <3>1, <3>2, <3>3, <3>4
      <3>6. k \in 1..Len(hooked') /\ hooked'[k] = hooked[k]
        BY <1>3, <1>4, <3>3, <3>5
      <3> QED BY <3>3, <3>6
    <2> QED BY <2>1, <2>2, <2>3 DEF HeldInv
  <1>11. DepthInv'
    <2>1. IsFiniteSet(EnteredNext(hooked)) /\ gin.depth = Cardinality(EnteredNext(hooked))
      BY <1>1 DEF DepthInv
    <2>2. CASE Caller.fn = "Next" /\ Caller.on
      <3>1. gin'.depth = gin.depth - 1
        BY <1>2, <2>2 DEF LeaveNext
      <3>2. /\ IsFiniteSet(EnteredNext(hooked) \ {H})
            /\ Cardinality(EnteredNext(hooked) \ {H}) = Cardinality(EnteredNext(hooked)) - 1
        BY <1>4, <2>1, <2>2, FS_RemoveElement
      <3> QED BY <1>4, <2>1, <3>1, <3>2 DEF DepthInv
    <2>3. CASE ~(Caller.fn = "Next" /\ Caller.on)
      <3>1. gin'.depth = gin.depth
        BY <1>1, <1>2, <2>3 DEF LeaveNext, ClientTypeInv
      <3>2. EnteredNext(hooked)' = EnteredNext(hooked)
        BY <1>4, <2>3
      <3> QED BY <2>1, <3>1, <3>2 DEF DepthInv
    <2> QED BY <2>2, <2>3
  <1> QED BY <1>8, <1>10, <1>11 DEF BalanceInv

\* Calls, their spans and the depth of gin agree in every reachable state.
THEOREM ClientInvariant == ClientSpec => []BalanceInv
  <1>1. BalanceInv /\ [ClientNext]_clientVars => BalanceInv'
    BY SetenvKeeps, CallKeeps, ReturnKeeps DEF ClientNext
  <1> QED BY ClientStarts, <1>1, PTL DEF ClientSpec

\* No After hook leaves the span of another call, or one of its own unless it asks
\* again, whatever the switch does meanwhile.
THEOREM HooksStayBalancedHolds == ClientSpec => []HooksStayBalanced
  <1>1. BalanceInv => HooksStayBalanced
    <2> SUFFICES ASSUME BalanceInv PROVE HooksStayBalanced
      OBVIOUS
    <2> DEFINE held == {1} \cup UNION {{hooked[k].data[i] : i \in DOMAIN hooked[k].data} :
                                         k \in DOMAIN hooked}
    <2>1. ClientTypeInv /\ HeldInv /\ DepthInv
      BY DEF BalanceInv
    <2>2. /\ DOMAIN hooked = 1..Len(hooked) /\ DOMAIN clientSpans = 1..Len(clientSpans)
          /\ Len(clientSpans) \in Nat
      BY <2>1, LenProperties DEF ClientTypeInv
    <2>3. \A k \in 1..Len(hooked) : /\ DOMAIN hooked[k].data = 1..Len(hooked[k].data)
                                    /\ \A i \in 1..Len(hooked[k].data) : hooked[k].data[i] \in Nat
      <3> TAKE k \in 1..Len(hooked)
      <3>1. hooked[k] \in HookedRecord
        BY <2>1, ElementOfSeq DEF ClientTypeInv
      <3>2. hooked[k].data \in Seq(Nat)
        BY <3>1 DEF HookedRecord
      <3> QED BY <3>2, LenProperties, ElementOfSeq
    <2>4. \A s \in Nat : s \in held <=> s = 1 \/ \E k \in 1..Len(hooked) : Holds(hooked[k], s)
      <3> DEFINE spans(k) == {hooked[k].data[i] : i \in DOMAIN hooked[k].data}
      <3>1. \A k \in 1..Len(hooked) : \A s \in Nat : s \in spans(k) <=> Holds(hooked[k], s)
        BY <2>3 DEF Holds
      <3>2. held = {1} \cup UNION {spans(k) : k \in DOMAIN hooked}
        OBVIOUS
      <3> HIDE DEF spans, held
      <3> QED BY <2>2, <3>1, <3>2
    <2> HIDE DEF held
    <2>5. ASSUME NEW s \in 1..Len(clientSpans)
          PROVE  /\ s \in held => clientSpans[s].open
                 /\ clientSpans[s].open /\ s \notin held => Hooks[clientSpans[s].by].rechecks
      BY <2>1, <2>2, <2>4 DEF HeldInv
    <2>6. gin.depth = Cardinality({k \in DOMAIN hooked : hooked[k].fn = "Next" /\ hooked[k].on})
      BY <2>1 DEF DepthInv, EnteredNext
    <2> QED BY <2>2, <2>5, <2>6 DEF HooksStayBalanced, held
  <1> QED BY ClientInvariant, <1>1, PTL

-----------------------------------------------------------------------------
(* One span per operation.  While the environment stays, everything about  *)
(* the calls below an operation follows from its first call.               *)

\* The fields of a hook that decide how many spans there are.
Row(hook, key, span, root, suppresses, rechecks, callees) ==
  /\ hook.key = key /\ hook.span = span /\ hook.root = root /\ hook.suppresses = suppresses
  /\ hook.rechecks = rechecks /\ hook.callees = callees

LEMMA HookRows ==
  /\ \A f \in {"OpenSearch", "Elastic"} : \E key \in {"opensearch", "elastic"} :
       Row(Hooks[f], key, "before", FALSE, TRUE, FALSE, {"RoundTrip"})
  /\ Row(Hooks["Stripe"], "stripe", "before", FALSE, FALSE, FALSE, {"RoundTrip"})
  /\ Row(Hooks["PublicMethod"], "linodego", "before", FALSE, FALSE, TRUE, {"DoRequest"})
  /\ Row(Hooks["DoRequest"], "linodego", "before", FALSE, FALSE, TRUE, {"RoundTrip"})
  /\ Row(Hooks["Deltas"], "k8s_client_go", "before", TRUE, FALSE, TRUE, {"Event"})
  /\ Row(Hooks["Event"], "k8s_client_go", "before", FALSE, FALSE, FALSE, {})
  /\ Row(Hooks["Redis"], "redis", "before", FALSE, FALSE, FALSE, {})
  /\ Row(Hooks["ReadMessage"], "kafka", "after", FALSE, FALSE, FALSE, {"FetchMessage"})
  /\ Row(Hooks["FetchMessage"], "kafka", "after", FALSE, FALSE, FALSE, {})
  /\ Row(Hooks["DialContext"], "grpc", "none", FALSE, FALSE, FALSE, {"NewClient"})
  /\ Row(Hooks["NewClient"], "grpc", "none", FALSE, FALSE, FALSE, {})
  /\ Row(Hooks["NewServer"], "grpc", "none", FALSE, FALSE, FALSE, {})
  /\ Row(Hooks["Next"], "gin", "none", FALSE, FALSE, FALSE, {"Next"})
  /\ \A f \in {"RPC", "Export"} : Row(Hooks[f], "grpc", "before", FALSE, FALSE, FALSE, {})
  /\ Row(Hooks["Served"], "grpc", "before", TRUE, FALSE, FALSE, {})
  /\ Row(Hooks["RoundTrip"], "nethttp", "before", FALSE, FALSE, FALSE, {})
  <1>1. /\ Hooks["OpenSearch"] = OpenSearch /\ Hooks["Elastic"] = Elastic /\ Hooks["Stripe"] = Stripe
        /\ Hooks["PublicMethod"] = PublicMethod /\ Hooks["DoRequest"] = DoRequest
        /\ Hooks["Deltas"] = Deltas /\ Hooks["Event"] = Event /\ Hooks["Redis"] = Redis
        /\ Hooks["ReadMessage"] = ReadMessage /\ Hooks["FetchMessage"] = FetchMessage
        /\ Hooks["DialContext"] = DialContext /\ Hooks["NewClient"] = NewClient
        /\ Hooks["RPC"] = RPC /\ Hooks["Export"] = RPC /\ Hooks["NewServer"] = NewServer
        /\ Hooks["Served"] = Served /\ Hooks["Next"] = GinNext
        /\ Hooks["RoundTrip"] = Spanning("nethttp", {})
    BY DEF Hooks
  <1>2. /\ Row(OpenSearch, "opensearch", "before", FALSE, TRUE, FALSE, {"RoundTrip"})
        /\ Row(Elastic, "elastic", "before", FALSE, TRUE, FALSE, {"RoundTrip"})
        /\ Row(Stripe, "stripe", "before", FALSE, FALSE, FALSE, {"RoundTrip"})
    BY DEF Row, OpenSearch, Elastic, Stripe, Spanning
  <1>3. /\ Row(PublicMethod, "linodego", "before", FALSE, FALSE, TRUE, {"DoRequest"})
        /\ Row(DoRequest, "linodego", "before", FALSE, FALSE, TRUE, {"RoundTrip"})
        /\ Row(Deltas, "k8s_client_go", "before", TRUE, FALSE, TRUE, {"Event"})
        /\ Row(Event, "k8s_client_go", "before", FALSE, FALSE, FALSE, {})
        /\ Row(Redis, "redis", "before", FALSE, FALSE, FALSE, {})
    BY DEF Row, PublicMethod, DoRequest, Deltas, Event, Redis, Spanning
  <1>4. /\ Row(ReadMessage, "kafka", "after", FALSE, FALSE, FALSE, {"FetchMessage"})
        /\ Row(FetchMessage, "kafka", "after", FALSE, FALSE, FALSE, {})
        /\ Row(GinNext, "gin", "none", FALSE, FALSE, FALSE, {"Next"})
        /\ Row(Spanning("nethttp", {}), "nethttp", "before", FALSE, FALSE, FALSE, {})
    BY DEF Row, ReadMessage, FetchMessage, GinNext, Spanning
  <1>5. /\ Row(DialContext, "grpc", "none", FALSE, FALSE, FALSE, {"NewClient"})
        /\ Row(NewClient, "grpc", "none", FALSE, FALSE, FALSE, {})
        /\ Row(NewServer, "grpc", "none", FALSE, FALSE, FALSE, {})
        /\ Row(RPC, "grpc", "before", FALSE, FALSE, FALSE, {})
        /\ Row(Served, "grpc", "before", TRUE, FALSE, FALSE, {})
    BY DEF Row, DialContext, NewClient, NewServer, RPC, Served, Spanning
  <1> QED BY <1>1, <1>2, <1>3, <1>4, <1>5

LEMMA HookTable ==
  ASSUME NEW f \in DOMAIN Hooks
  PROVE  /\ Hooks[f].suppresses <=> f \in {"OpenSearch", "Elastic"}
         /\ Hooks[f].root <=> f \in {"Deltas", "Served"}
         /\ Hooks[f].span = "after" <=> f \in {"ReadMessage", "FetchMessage"}
         /\ Hooks[f].span = "none" <=> f \in {"DialContext", "NewClient", "NewServer", "Next"}
  <1> DEFINE says(g) ==
        /\ Hooks[g].suppresses <=> g \in {"OpenSearch", "Elastic"}
        /\ Hooks[g].root <=> g \in {"Deltas", "Served"}
        /\ Hooks[g].span = "after" <=> g \in {"ReadMessage", "FetchMessage"}
        /\ Hooks[g].span = "none" <=> g \in {"DialContext", "NewClient", "NewServer", "Next"}
  <1>1. f \in {"OpenSearch", "Elastic", "Stripe", "PublicMethod", "DoRequest", "Deltas", "Event",
               "Redis", "ReadMessage", "FetchMessage", "DialContext", "NewClient", "RPC", "Export",
               "NewServer", "Served", "Next", "RoundTrip"}
    BY DEF Hooks
  <1>2. \A g \in {"OpenSearch", "Elastic", "Stripe", "PublicMethod", "DoRequest"} : says(g)
    BY HookRows DEF Row
  <1>3. \A g \in {"Deltas", "Event", "Redis", "ReadMessage", "FetchMessage"} : says(g)
    BY HookRows DEF Row
  <1>4. \A g \in {"DialContext", "NewClient", "NewServer", "Next"} : says(g)
    BY HookRows DEF Row
  <1>5. \A g \in {"RPC", "Export", "Served", "RoundTrip"} : says(g)
    BY HookRows DEF Row
  <1> HIDE DEF says
  <1>6. says(f)
    BY <1>1, <1>2, <1>3, <1>4, <1>5
  <1> QED BY <1>6 DEF says

\* Which functions a call may make.
LEMMA HookCallees ==
  /\ \A f \in {"OpenSearch", "Elastic", "Stripe", "DoRequest"} : Hooks[f].callees = {"RoundTrip"}
  /\ Hooks["PublicMethod"].callees = {"DoRequest"} /\ Hooks["Deltas"].callees = {"Event"}
  /\ Hooks["ReadMessage"].callees = {"FetchMessage"} /\ Hooks["DialContext"].callees = {"NewClient"}
  /\ Hooks["Next"].callees = {"Next"}
  /\ \A f \in {"Event", "Redis", "RPC", "Export", "Served", "RoundTrip", "FetchMessage", "NewClient",
               "NewServer"} : Hooks[f].callees = {}
  BY HookRows DEF Row

\* The functions that share a switch.
LEMMA HookKeys ==
  /\ Hooks["RoundTrip"].key = "nethttp" /\ Hooks["Next"].key = "gin"
  /\ Hooks["PublicMethod"].key = "linodego" /\ Hooks["DoRequest"].key = "linodego"
  /\ Hooks["Deltas"].key = "k8s_client_go" /\ Hooks["Event"].key = "k8s_client_go"
  /\ Hooks["ReadMessage"].key = "kafka" /\ Hooks["FetchMessage"].key = "kafka"
  /\ Hooks["DialContext"].key = "grpc" /\ Hooks["NewClient"].key = "grpc"
  /\ Hooks["NewServer"].key = "grpc"
  BY HookRows DEF Row

\* The operation in progress, and the functions that may be called below it.
First == operation.made[1]
FirstOn == SwitchedOn(Hooks[First].key)

CalledIn(first, g) ==
  \/ g = "RoundTrip" /\ first \in {"OpenSearch", "Elastic", "Stripe", "PublicMethod"}
  \/ g = "DoRequest" /\ first = "PublicMethod"
  \/ g = "Event" /\ first = "Deltas"
  \/ g = "FetchMessage" /\ first = "ReadMessage"
  \/ g = "NewClient" /\ first = "DialContext"
  \/ g = "Next" /\ first = "Next"

\* Whether the hook of a call of f finds itself switched on.
OnFor(f) ==
  CASE f = "RoundTrip" -> SwitchedOn("nethttp") /\ ~(Hooks[First].suppresses /\ FirstOn)
    [] f = "FetchMessage" -> SwitchedOn("kafka") /\ First = "FetchMessage"
    [] f = "RPC" -> connection.of = "client" /\ connection.handlers > 0
    [] f = "Served" -> connection.of = "server" /\ connection.handlers > 0
    [] f = "Export" -> FALSE
    [] OTHER -> SwitchedOn(Hooks[f].key)

ConnInv ==
  /\ connection.handlers \in {0, 1}
  /\ connection.of = "client" => (connection.injected <=> connection.handlers = 1)
  /\ \A k \in 1..Len(hooked) : hooked[k].fn = "DialContext" => connection.of = "client"

ShapeInv ==
  /\ operation.made # <<>> /\ First \in Operations
  /\ \A k \in 2..Len(operation.made) : CalledIn(First, operation.made[k])
  /\ \A k \in 1..Len(hooked) : hooked[k].fn = First \/ CalledIn(First, hooked[k].fn)

\* What a call in progress hands to those it makes.
ContextInv ==
  \A k \in 1..Len(hooked) :
    /\ hooked[k].fn \notin {"RPC", "Served"} => (hooked[k].on <=> OnFor(hooked[k].fn))
    /\ Hooks[hooked[k].fn].callees # {} =>
         /\ hooked[k].ctx.suppressed <=> Hooks[First].suppresses /\ FirstOn
         /\ hooked[k].ctx.fetching <=> First = "ReadMessage" /\ FirstOn
         /\ hooked[k].ctx.span \in IF FirstOn /\ Hooks[First].span = "before"
                                   THEN 2..Len(clientSpans) ELSE {1}

SpansBy(f) == {i \in 2..Len(clientSpans) : clientSpans[i].by = f}
StillLate(f) == {k \in 1..Len(hooked) : hooked[k].fn = f /\ hooked[k].on /\ Hooks[f].span = "after"}
MadeOf(f) == {k \in 1..Len(operation.made) : operation.made[k] = f}

\* A call that counts has its span, or will have it when it returns.
CountInv ==
  \A f \in DOMAIN Hooks :
    Cardinality(SpansBy(f)) + Cardinality(StillLate(f))
      = IF Counts(f) THEN Cardinality(MadeOf(f)) ELSE 0

ParentInv ==
  \A i \in 2..Len(clientSpans) : clientSpans[i].by # First =>
    clientSpans[i].parent \in IF FirstOn THEN 2..Len(clientSpans) ELSE {1}

ResultInv ==
  /\ First \in {"DialContext", "NewClient", "NewServer"} =>
       connection.handlers = IF SwitchedOn("grpc") THEN 1 ELSE 0
  /\ First = "Next" =>
       gin.reports = IF hooked = <<>> /\ SwitchedOn("gin") /\ gin.errors THEN 1 ELSE 0

SteadyInv == ShapeInv /\ ContextInv /\ CountInv /\ ParentInv /\ ResultInv

OperationInv == BalanceInv /\ ConnInv /\ (operation.steady => SteadyInv)

LEMMA CalleeOf ==
  ASSUME NEW g \in DOMAIN Hooks, NEW f \in Hooks[g].callees
  PROVE  \/ f = "RoundTrip" /\ g \in {"OpenSearch", "Elastic", "Stripe", "DoRequest"}
         \/ f = "DoRequest" /\ g = "PublicMethod"
         \/ f = "Event" /\ g = "Deltas"
         \/ f = "FetchMessage" /\ g = "ReadMessage"
         \/ f = "NewClient" /\ g = "DialContext"
         \/ f = "Next" /\ g = "Next"
  <1>1. g \in {"OpenSearch", "Elastic", "Stripe", "PublicMethod", "DoRequest", "Deltas", "Event",
               "Redis", "ReadMessage", "FetchMessage", "DialContext", "NewClient", "RPC", "Export",
               "NewServer", "Served", "Next", "RoundTrip"}
    BY DEF Hooks
  <1>2. g \notin {"Event", "Redis", "RPC", "Export", "Served", "RoundTrip", "FetchMessage",
                  "NewClient", "NewServer"}
    BY HookCallees
  <1> QED BY <1>1, <1>2, HookCallees

\* What is called below an operation calls nothing else.
LEMMA CallsBelow ==
  ASSUME NEW first \in Operations, NEW g \in DOMAIN Hooks, g = first \/ CalledIn(first, g),
         NEW f \in Hooks[g].callees
  PROVE  CalledIn(first, f)
  <1>1. first # "DoRequest"
    BY DEF Operations
  <1> QED BY <1>1, CalleeOf DEF CalledIn

LEMMA SwitchTells == \A key : Instrumented(key) <=> SwitchedOn(key)
  <1>1. Cached = env
    BY DEF Cached
  <1> QED BY <1>1 DEF Instrumented, SwitchedOn

LEMMA OperationStarts == ClientInit => OperationInv
  <1> SUFFICES ASSUME ClientInit PROVE OperationInv
    OBVIOUS
  <1>1. BalanceInv
    BY ClientStarts
  <1>2. connection = NoOptions /\ Len(hooked) = 0 /\ ~operation.steady
    BY DEF ClientInit
  <1>3. ConnInv
    BY <1>2 DEF ConnInv, NoOptions
  <1> QED BY <1>1, <1>2, <1>3 DEF OperationInv

\* A connection or server has at most one stats handler of ours.
LEMMA ConnectionKept == BalanceInv /\ ConnInv /\ [ClientNext]_clientVars => ConnInv'
  <1> SUFFICES ASSUME BalanceInv, ConnInv, [ClientNext]_clientVars PROVE ConnInv'
    OBVIOUS
  <1>1. connection \in OptionsRecord
    BY DEF BalanceInv, ClientTypeInv
  <1>2. ASSUME NEW f \in DOMAIN Hooks, Call(f)
        PROVE  ConnInv'
    <2> DEFINE opts == IF hooked = <<>> THEN NoOptions ELSE connection
    <2>1. /\ connection' = Connected(f, opts, Takes(f, Outer)) /\ MayCall(f)
          /\ hooked' = Append(hooked, ProgressOf(f))
      BY <1>2, CallEffect
    <2>2. /\ Len(hooked') = Len(hooked) + 1 /\ Len(hooked) \in Nat
          /\ \A k \in 1..Len(hooked) : hooked'[k] = hooked[k]
          /\ hooked'[Len(hooked) + 1].fn = f
      BY <2>1, CallShapes, HookedAppended
    <2>3. /\ opts.handlers \in {0, 1} /\ opts \in OptionsRecord
          /\ opts.of = "client" => (opts.injected <=> opts.handlers = 1)
      BY <1>1 DEF ConnInv, NoOptions, OptionsRecord
    <2>4. hooked # <<>> => /\ f \in Hooks[Caller.fn].callees /\ Caller.fn \in DOMAIN Hooks
                           /\ Len(hooked) \in 1..Len(hooked) /\ Caller = hooked[Len(hooked)]
      BY <2>1, CallerFacts DEF MayCall, HookedRecord
    <2>5. f \in {"DialContext", "NewServer"} => hooked = <<>>
      BY <2>4, CalleeOf
    <2>6. f \in {"DialContext", "NewClient"} => opts.of = "client"
      <3>1. CASE hooked = <<>>
        BY <3>1 DEF NoOptions
      <3>2. CASE hooked # <<>>
        <4>1. f \in {"DialContext", "NewClient"} => Caller.fn = "DialContext"
          BY <2>4, <3>2, CalleeOf
        <4> QED BY <2>4, <3>2, <4>1 DEF ConnInv
      <3> QED BY <3>1, <3>2
    <2> HIDE DEF opts
    <2>7. CASE f \in {"DialContext", "NewClient"}
      <3>1. /\ connection'.handlers \in {0, 1} /\ connection'.of = "client"
            /\ connection'.injected <=> connection'.handlers = 1
        <4>1. CASE Takes(f, Outer) /\ ~opts.injected
          <5>1. connection' = [of |-> "client", injected |-> TRUE, handlers |-> opts.handlers + 1]
            <6>1. connection' = WithClientStatsHandler(opts)
              BY <2>1, <2>7, <4>1 DEF Connected
            <6> QED BY <4>1, <6>1 DEF WithClientStatsHandler
          <5>2. opts.handlers = 0
            BY <2>3, <2>6, <2>7, <4>1
          <5> QED BY <5>1, <5>2
        <4>2. CASE ~(Takes(f, Outer) /\ ~opts.injected)
          <5>1. connection' = opts
            BY <2>1, <2>7, <4>2 DEF Connected, WithClientStatsHandler
          <5> QED BY <2>3, <2>6, <2>7, <5>1
        <4> QED BY <4>1, <4>2
      <3> QED BY <3>1 DEF ConnInv
    <2>8. CASE f = "NewServer"
      <3>1. /\ connection'.handlers \in {0, 1}
            /\ connection'.of = "client" => (connection'.injected <=> connection'.handlers = 1)
        BY <2>1, <2>3, <2>8 DEF Connected
      <3>2. Len(hooked) = 0
        BY <2>5, <2>8
      <3> QED BY <2>2, <2>8, <3>1, <3>2 DEF ConnInv
    <2>9. CASE f \notin {"DialContext", "NewClient", "NewServer"}
      <3>1. connection' = connection
        BY <2>1, <2>9 DEF Connected
      <3>2. \A k \in 1..Len(hooked') : hooked'[k].fn = "DialContext" => k \in 1..Len(hooked)
        BY <2>2, <2>9
      <3> QED BY <2>2, <3>1, <3>2 DEF ConnInv
    <2> QED BY <2>7, <2>8, <2>9
  <1>3. ASSUME NEW failed \in BOOLEAN, NEW carried \in BOOLEAN, Return(failed, carried)
        PROVE  ConnInv'
    <2>1. /\ connection' = connection /\ Len(hooked') = Len(hooked) - 1 /\ Len(hooked) \in Nat
          /\ \A k \in 1..Len(hooked) - 1 : hooked'[k] = hooked[k]
      BY <1>3, HookedShortened, CallerFacts DEF Return
    <2> QED BY <2>1 DEF ConnInv
  <1>4. CASE Setenv \/ UNCHANGED clientVars
    BY <1>4 DEF Setenv, clientVars, ConnInv
  <1> QED BY <1>2, <1>3, <1>4 DEF ClientNext

\* The operation begins, or goes on, with a call of f.
LEMMA CallMoves ==
  ASSUME OperationInv, NEW f \in DOMAIN Hooks, Call(f), operation'.steady
  PROVE  /\ \A key : SwitchedOn(key)' <=> SwitchedOn(key)
         /\ hooked = <<>> => f \in Operations /\ First' = f /\ operation'.made = <<f>>
         /\ hooked # <<>> =>
              /\ operation.steady /\ First' = First /\ CalledIn(First, f)
              /\ f \in Hooks[Caller.fn].callees
              /\ operation'.made = Append(operation.made, f)
              /\ Len(operation'.made) = Len(operation.made) + 1
              /\ Len(operation.made) \in Nat \ {0}
              /\ \A k \in 1..Len(operation.made) : operation'.made[k] = operation.made[k]
              /\ operation'.made[Len(operation.made) + 1] = f
  <1>1. BalanceInv /\ operation \in [made : Seq(DOMAIN Hooks), steady : BOOLEAN]
    BY DEF OperationInv, BalanceInv, ClientTypeInv
  <1>2. /\ MayCall(f) /\ env' = env
        /\ operation' = IF hooked = <<>> THEN [made |-> <<f>>, steady |-> TRUE]
                        ELSE [operation EXCEPT !.made = Append(@, f)]
    BY CallEffect
  <1>3. \A key : SwitchedOn(key)' <=> SwitchedOn(key)
    BY <1>2 DEF SwitchedOn
  <1>4. CASE hooked = <<>>
    BY <1>2, <1>3, <1>4 DEF First, MayCall
  <1>5. CASE hooked # <<>>
    <2> DEFINE made == operation.made
    <2>1. made \in Seq(DOMAIN Hooks) /\ operation.steady \in BOOLEAN
      BY <1>1
    <2>2. operation' = [made |-> Append(made, f), steady |-> operation.steady]
      <3> DEFINE longer == Append(made, f)
      <3>1. operation' = [operation EXCEPT !.made = longer]
        BY <1>2, <1>5
      <3> HIDE DEF longer
      <3>2. operation' = [made |-> longer, steady |-> operation.steady]
        BY <1>1, <3>1
      <3> QED BY <3>2 DEF longer
    <2>3. operation.steady /\ ShapeInv
      BY <2>2 DEF OperationInv, SteadyInv
    <2>4. Len(made) \in Nat \ {0}
      BY <2>1, <2>3, EmptySeq DEF ShapeInv
    <2>5. /\ operation'.made = Append(made, f) /\ Len(operation'.made) = Len(made) + 1
          /\ \A k \in 1..Len(made) : operation'.made[k] = made[k]
          /\ operation'.made[Len(made) + 1] = f
      <3>1. operation'.made = Append(made, f)
        BY <2>2
      <3> HIDE DEF made
      <3> QED BY <2>1, <3>1, AppendProperties
    <2>6. First' = First
      BY <2>4, <2>5 DEF First
    <2>7. /\ f \in Hooks[Caller.fn].callees /\ Caller.fn \in DOMAIN Hooks
          /\ Len(hooked) \in 1..Len(hooked) /\ Caller = hooked[Len(hooked)]
      BY <1>1, <1>2, <1>5, CallerFacts DEF MayCall, HookedRecord
    <2>8. CalledIn(First, f)
      <3>1. First \in Operations /\ (Caller.fn = First \/ CalledIn(First, Caller.fn))
        BY <2>3, <2>7 DEF ShapeInv
      <3> QED BY <2>7, <3>1, CallsBelow
    <2> QED BY <1>3, <1>5, <2>3, <2>4, <2>5, <2>6, <2>7, <2>8
  <1> QED BY <1>4, <1>5

LEMMA CountsIsOn ==
  \A f \in DOMAIN Hooks : Counts(f) <=> OnFor(f) /\ Hooks[f].span # "none"
  <1> TAKE f \in DOMAIN Hooks
  <1>1. Hooks[f].span = "none" <=> f \in {"DialContext", "NewClient", "NewServer", "Next"}
    BY HookTable
  <1>2. CASE f \in {"DialContext", "NewClient", "NewServer", "Next", "Export"}
    BY <1>1, <1>2 DEF Counts, OnFor
  <1>3. CASE f = "RoundTrip"
    BY <1>1, <1>3 DEF Counts, OnFor, First, FirstOn
  <1>4. CASE f = "FetchMessage"
    BY <1>1, <1>4 DEF Counts, OnFor, First
  <1>5. CASE f \in {"RPC", "Served"}
    BY <1>1, <1>5 DEF Counts, OnFor
  <1>6. CASE f \notin {"DialContext", "NewClient", "NewServer", "Next", "Export", "RoundTrip",
                       "FetchMessage", "RPC", "Served"}
    BY <1>1, <1>6 DEF Counts, OnFor
  <1> QED BY <1>2, <1>3, <1>4, <1>5, <1>6

LEMMA CountsStayOn ==
  (\A f \in DOMAIN Hooks : Counts(f) <=> OnFor(f) /\ Hooks[f].span # "none")'
  BY CountsIsOn, PTL

\* The context in which an operation that goes on makes a call.
LEMMA CallerTells ==
  ASSUME OperationInv, NEW f \in DOMAIN Hooks, Call(f), operation'.steady, hooked # <<>>
  PROVE  /\ Outer = Caller.ctx
         /\ Outer.suppressed <=> Hooks[First].suppresses /\ FirstOn
         /\ Outer.fetching <=> First = "ReadMessage" /\ FirstOn
         /\ Outer.span \in IF FirstOn /\ Hooks[First].span = "before" THEN 2..Len(clientSpans) ELSE {1}
         /\ Caller.on <=> OnFor(Caller.fn)
         /\ First \in Operations
  <1>1. /\ BalanceInv /\ ShapeInv /\ ContextInv /\ f \in Hooks[Caller.fn].callees
    BY CallMoves DEF OperationInv, SteadyInv
  <1>2. /\ Len(hooked) \in 1..Len(hooked) /\ Caller = hooked[Len(hooked)] /\ Caller.fn \in DOMAIN Hooks
    BY <1>1, CallerFacts DEF HookedRecord
  <1>3. Caller.fn \notin {"RPC", "Served"}
    BY <1>1, <1>2, CalleeOf
  <1>4. Outer = Caller.ctx
    BY DEF Outer
  <1>5. First \in Operations
    BY <1>1 DEF ShapeInv
  <1> QED BY <1>1, <1>2, <1>3, <1>4, <1>5 DEF ContextInv

\* While the environment stays, the hook of a call takes it as its first call says.
LEMMA TakesTells ==
  ASSUME OperationInv, NEW f \in DOMAIN Hooks, Call(f), operation'.steady
  PROVE  Takes(f, Outer) <=> OnFor(f)'
  <1>1. /\ \A key : SwitchedOn(key)' <=> SwitchedOn(key)
        /\ hooked = <<>> => f \in Operations /\ First' = f
        /\ hooked # <<>> => First' = First /\ CalledIn(First, f) /\ f \in Hooks[Caller.fn].callees
    BY CallMoves
  <1>2. f \notin {"DialContext", "NewClient", "NewServer"} => connection' = connection
    BY CallEffect DEF Connected
  <1>3. FirstOn' <=> SwitchedOn(Hooks[First'].key)
    BY <1>1 DEF FirstOn
  <1>4. CASE f \in {"RPC", "Served", "Export"}
    BY <1>2, <1>4 DEF Takes, Opts, Asks, OnFor
  <1>5. CASE f = "RoundTrip"
    <2>1. hooked # <<>>
      BY <1>1, <1>5 DEF Operations
    <2>2. Takes(f, Outer) <=> ~Outer.suppressed /\ SwitchedOn("nethttp")
      BY <1>5, HookKeys, SwitchTells DEF Takes, Opts, Asks
    <2>3. OnFor(f)' <=> SwitchedOn("nethttp") /\ ~(Hooks[First].suppresses /\ FirstOn)
      BY <1>1, <1>3, <1>5, <2>1 DEF OnFor, FirstOn
    <2> QED BY <2>1, <2>2, <2>3, CallerTells
  <1>6. CASE f = "FetchMessage"
    <2>1. Takes(f, Outer) <=> ~Outer.fetching /\ SwitchedOn("kafka")
      BY <1>6, HookKeys, SwitchTells DEF Takes, Opts, Asks
    <2>2. OnFor(f)' <=> SwitchedOn("kafka") /\ First' = "FetchMessage"
      BY <1>1, <1>6 DEF OnFor
    <2>3. CASE hooked = <<>>
      BY <1>1, <1>6, <2>1, <2>2, <2>3 DEF Outer, Background
    <2>4. CASE hooked # <<>>
      <3>1. First' = "ReadMessage" /\ First = "ReadMessage"
        BY <1>1, <1>6, <2>4 DEF CalledIn
      <3>2. Outer.fetching <=> SwitchedOn("kafka")
        BY <2>4, <3>1, CallerTells, HookKeys DEF FirstOn
      <3> QED BY <2>1, <2>2, <3>1, <3>2
    <2> QED BY <2>3, <2>4
  <1>7. CASE f = "Event"
    <2>1. hooked # <<>>
      BY <1>1, <1>7 DEF Operations
    <2>2. Caller.fn = "Deltas"
      BY <1>1, <1>7, <2>1, CalleeOf, CallerFacts, SMTT(20) DEF OperationInv, HookedRecord
    <2>3. Takes(f, Outer) <=> Caller.on
      BY <1>7 DEF Takes, Opts, Asks
    <2>4. Caller.on <=> SwitchedOn("k8s_client_go")
      BY <2>1, <2>2, CallerTells, HookKeys DEF OnFor
    <2>5. OnFor(f)' <=> SwitchedOn("k8s_client_go")
      BY <1>1, <1>7, HookKeys DEF OnFor
    <2> QED BY <2>3, <2>4, <2>5
  <1>8. CASE f \notin {"RPC", "Served", "Export", "RoundTrip", "FetchMessage", "Event"}
    <2>1. Takes(f, Outer) <=> SwitchedOn(Hooks[f].key)
      BY <1>8, SwitchTells DEF Takes, Opts, Asks
    <2>2. OnFor(f)' <=> SwitchedOn(Hooks[f].key)
      BY <1>1, <1>8 DEF OnFor
    <2> QED BY <2>1, <2>2
  <1> QED BY <1>4, <1>5, <1>6, <1>7, <1>8

\* A call has one span at most.
LEMMA OneSpan ==
  ASSUME ConnInv, NEW f \in DOMAIN Hooks
  PROVE  SpansOf(f) = IF Takes(f, Outer) /\ Hooks[f].span = "before" THEN 1 ELSE 0
  <1>1. CASE f \in {"RPC", "Served"}
    <2>1. Takes(f, Outer) => connection.handlers = 1
      BY <1>1 DEF Takes, Opts, ConnInv
    <2> QED BY <1>1, <2>1 DEF SpansOf, Started
  <1>2. CASE f \notin {"RPC", "Served"}
    BY <1>2 DEF SpansOf, Started
  <1> QED BY <1>1, <1>2

\* The calls and the spans after a call.
LEMMA CallAdds ==
  ASSUME OperationInv, NEW f \in DOMAIN Hooks, Call(f)
  PROVE  /\ Len(hooked') = Len(hooked) + 1 /\ Len(hooked) \in Nat
         /\ \A k \in 1..Len(hooked) : hooked'[k] = hooked[k] /\ hooked[k].fn \in DOMAIN Hooks
         /\ hooked'[Len(hooked) + 1] = ProgressOf(f)
         /\ SpansOf(f) \in {0, 1} /\ Len(HeldSpans) \in 1..Len(clientSpans)
         /\ Len(HeldSpans) \in Nat /\ Len(clientSpans) \in Nat
         /\ hooked # <<>> => Len(HeldSpans) = Len(clientSpans)
         /\ hooked = <<>> => Len(HeldSpans) = 1
         /\ Len(clientSpans') = Len(HeldSpans) + SpansOf(f)
         /\ \A i \in 1..Len(HeldSpans) : clientSpans'[i] = clientSpans[i]
         /\ SpansOf(f) = 1 => clientSpans'[Len(HeldSpans) + 1] = SpanOf(f)
  <1>1. BalanceInv /\ ConnInv
    BY DEF OperationInv
  <1>2. hooked' = Append(hooked, ProgressOf(f))
    BY CallEffect
  <1>3. /\ Len(hooked') = Len(hooked) + 1 /\ Len(hooked) \in Nat
        /\ \A k \in 1..Len(hooked) : hooked'[k] = hooked[k]
        /\ hooked'[Len(hooked) + 1] = ProgressOf(f)
    BY <1>1, <1>2, CallShapes, HookedAppended
  <1>4. \A k \in 1..Len(hooked) : hooked[k].fn \in DOMAIN Hooks
    <2> TAKE k \in 1..Len(hooked)
    <2>1. hooked[k] \in HookedRecord
      BY <1>1, ElementOfSeq DEF BalanceInv, ClientTypeInv
    <2> QED BY <2>1 DEF HookedRecord
  <1>5. SpansOf(f) \in {0, 1} /\ SpanOf(f) \in ClientSpanRecord
    BY <1>1, OneSpan, CallShapes
  <1>6. /\ HeldSpans \in Seq(ClientSpanRecord) /\ Len(HeldSpans) \in 1..Len(clientSpans)
        /\ \A i \in 1..Len(HeldSpans) : HeldSpans[i] = clientSpans[i]
        /\ hooked # <<>> => HeldSpans = clientSpans
        /\ hooked = <<>> => Len(HeldSpans) = 1
    BY <1>1, CallShapes
  <1>7. clientSpans' = HeldSpans \o [i \in 1..SpansOf(f) |-> SpanOf(f)]
    BY CallEffect
  <1>8. /\ Len(clientSpans') = Len(HeldSpans) + SpansOf(f)
        /\ \A i \in 1..Len(HeldSpans) : clientSpans'[i] = HeldSpans[i]
        /\ \A i \in Len(HeldSpans) + 1..Len(HeldSpans) + SpansOf(f) : clientSpans'[i] = SpanOf(f)
    BY <1>5, <1>6, <1>7, SpansAppended
  <1>9. Len(HeldSpans) \in Nat /\ Len(clientSpans) \in Nat
    BY <1>1, <1>6 DEF BalanceInv, ClientTypeInv
  <1>10. SpansOf(f) = 1 => Len(HeldSpans) + 1 \in Len(HeldSpans) + 1..Len(HeldSpans) + SpansOf(f)
    BY <1>9
  <1> QED BY <1>3, <1>4, <1>5, <1>6, <1>8, <1>9, <1>10

LEMMA CallShapeKept ==
  ASSUME OperationInv, NEW f \in DOMAIN Hooks, Call(f), operation'.steady
  PROVE  ShapeInv'
  <1>1. CASE hooked = <<>>
    <2>1. f \in Operations /\ First' = f /\ operation'.made = <<f>>
      BY <1>1, CallMoves
    <2>2. Len(hooked') = 1 /\ hooked'[1].fn = f
      <3>1. Len(hooked) = 0
        BY <1>1
      <3>2. Len(hooked') = Len(hooked) + 1 /\ hooked'[Len(hooked) + 1] = ProgressOf(f)
        BY CallAdds
      <3> QED BY <3>1, <3>2, CallShapes DEF OperationInv
    <2>3. operation'.made # <<>> /\ Len(operation'.made) = 1
      BY <2>1
    <2> QED BY <2>1, <2>2, <2>3 DEF ShapeInv
  <1>2. CASE hooked # <<>>
    <2>1. /\ ShapeInv /\ First' = First /\ CalledIn(First, f)
          /\ Len(operation'.made) = Len(operation.made) + 1
          /\ Len(operation.made) \in Nat \ {0}
          /\ \A k \in 1..Len(operation.made) : operation'.made[k] = operation.made[k]
          /\ operation'.made[Len(operation.made) + 1] = f
      BY <1>2, CallMoves DEF OperationInv, SteadyInv
    <2>2. operation'.made # <<>> /\ First' \in Operations
      BY <2>1 DEF ShapeInv
    <2>3. \A k \in 2..Len(operation'.made) : CalledIn(First', operation'.made[k])
      BY <2>1 DEF ShapeInv
    <2>4. /\ Len(hooked') = Len(hooked) + 1 /\ Len(hooked) \in Nat
          /\ \A k \in 1..Len(hooked) : hooked'[k] = hooked[k]
          /\ hooked'[Len(hooked) + 1].fn = f
      BY CallAdds, CallShapes DEF OperationInv
    <2>5. \A k \in 1..Len(hooked') : hooked'[k].fn = First' \/ CalledIn(First', hooked'[k].fn)
      BY <2>1, <2>4 DEF ShapeInv
    <2> QED BY <2>2, <2>3, <2>5 DEF ShapeInv
  <1> QED BY <1>1, <1>2

\* What the switches say does not change below an operation, but for gRPC's.
LEMMA OnForKept ==
  ASSUME OperationInv, NEW f \in DOMAIN Hooks, Call(f), operation'.steady, hooked # <<>>,
         NEW g \in DOMAIN Hooks, g \notin {"RPC", "Served"}
  PROVE  (OnFor(g)' <=> OnFor(g)) /\ (FirstOn' <=> FirstOn) /\ First' = First
  <1>1. First' = First /\ \A key : SwitchedOn(key)' <=> SwitchedOn(key)
    BY CallMoves
  <1>2. FirstOn' <=> FirstOn
    BY <1>1 DEF FirstOn
  <1> QED BY <1>1, <1>2 DEF OnFor

LEMMA CallContextKept ==
  ASSUME OperationInv, NEW f \in DOMAIN Hooks, Call(f), operation'.steady
  PROVE  ContextInv'
  <1> DEFINE L == Len(HeldSpans)
             H == Len(hooked)
             call == ProgressOf(f)
  <1>1. /\ Len(hooked') = H + 1 /\ H \in Nat
        /\ \A k \in 1..H : hooked'[k] = hooked[k] /\ hooked[k].fn \in DOMAIN Hooks
        /\ hooked'[H + 1] = call
        /\ SpansOf(f) \in {0, 1} /\ L \in Nat \ {0} /\ Len(clientSpans') = L + SpansOf(f)
        /\ hooked # <<>> => L = Len(clientSpans)
        /\ hooked = <<>> => L = 1
    BY CallAdds
  <1>2. /\ call.fn = f /\ call.on = Takes(f, Outer) /\ call.ctx = InnerOf(f)
        /\ Outer \in ContextRecord
    BY CallShapes DEF OperationInv
  <1>3. Takes(f, Outer) <=> OnFor(f)'
    BY TakesTells
  <1>4. SpansOf(f) = IF Takes(f, Outer) /\ Hooks[f].span = "before" THEN 1 ELSE 0
    BY OneSpan DEF OperationInv
  <1>5. /\ call.ctx.span = IF SpansOf(f) > 0 THEN L + SpansOf(f) ELSE Outer.span
        /\ call.ctx.suppressed <=> Outer.suppressed \/ (Takes(f, Outer) /\ Hooks[f].suppresses)
        /\ call.ctx.fetching <=> Outer.fetching \/ (Takes(f, Outer) /\ f = "ReadMessage")
    <2>1. InnerOf(f).span = IF SpansOf(f) > 0 THEN L + SpansOf(f) ELSE Outer.span
      BY DEF InnerOf
    <2>2. InnerOf(f).suppressed <=> Outer.suppressed \/ (Takes(f, Outer) /\ Hooks[f].suppresses)
      BY DEF InnerOf
    <2>3. InnerOf(f).fetching <=> Outer.fetching \/ (Takes(f, Outer) /\ f = "ReadMessage")
      BY DEF InnerOf
    <2> HIDE DEF call
    <2> QED BY <1>2, <2>1, <2>2, <2>3
  <1> HIDE DEF call, L, H
  <1>6. ASSUME Hooks[f].callees # {}
        PROVE  /\ call.ctx.suppressed <=> Hooks[First'].suppresses /\ FirstOn'
               /\ call.ctx.fetching <=> First' = "ReadMessage" /\ FirstOn'
               /\ call.ctx.span \in IF FirstOn' /\ Hooks[First'].span = "before"
                                    THEN 2..Len(clientSpans') ELSE {1}
    <2>1. f \notin {"Event", "Redis", "RPC", "Export", "Served", "RoundTrip", "FetchMessage",
                    "NewClient", "NewServer"}
      BY <1>6, HookCallees
    <2>2. CASE hooked = <<>>
      <3>1. First' = f /\ \A key : SwitchedOn(key)' <=> SwitchedOn(key)
        BY <2>2, CallMoves
      <3>2. FirstOn' <=> Takes(f, Outer)
        BY <1>3, <2>1, <3>1 DEF OnFor, FirstOn
      <3>3. ~Outer.suppressed /\ ~Outer.fetching /\ Outer.span = 1
        BY <2>2 DEF Outer, Background
      <3> QED BY <1>1, <1>4, <1>5, <2>2, <3>1, <3>2, <3>3
    <2>3. CASE hooked # <<>>
      <3>1. /\ Outer.suppressed <=> Hooks[First].suppresses /\ FirstOn
            /\ Outer.fetching <=> First = "ReadMessage" /\ FirstOn
            /\ Outer.span \in IF FirstOn /\ Hooks[First].span = "before" THEN 2..Len(clientSpans) ELSE {1}
        BY <2>3, CallerTells
      <3>2. First' = First /\ CalledIn(First, f) /\ \A key : SwitchedOn(key)' <=> SwitchedOn(key)
        BY <2>3, CallMoves
      <3>3. FirstOn' <=> FirstOn
        BY <3>2 DEF FirstOn
      <3>4. (f = "DoRequest" /\ First = "PublicMethod") \/ (f = "Next" /\ First = "Next")
        BY <2>1, <3>2 DEF CalledIn
      <3>5. ~Hooks[f].suppresses /\ f # "ReadMessage"
        BY <3>4, HookTable
      <3>6. SpansOf(f) = 1 => FirstOn /\ Hooks[First].span = "before"
        <4>1. CASE f = "DoRequest" /\ First = "PublicMethod"
          <5>1. Hooks["PublicMethod"].span = "before"
            BY HookRows DEF Row
          <5>2. Takes(f, Outer) <=> SwitchedOn("linodego")
            BY <1>3, <3>2, <4>1, HookKeys DEF OnFor
          <5> QED BY <1>4, <4>1, <5>1, <5>2, HookKeys DEF FirstOn
        <4>2. CASE f = "Next"
          BY <1>4, <4>2, HookTable
        <4> QED BY <3>4, <4>1, <4>2
      <3>7. Len(clientSpans) \in Nat /\ Len(clientSpans') = Len(clientSpans) + SpansOf(f)
        BY <1>1, <2>3
      <3>8. call.ctx.span \in IF FirstOn /\ Hooks[First].span = "before"
                              THEN 2..Len(clientSpans') ELSE {1}
        <4>1. CASE SpansOf(f) = 1
          BY <1>1, <1>5, <2>3, <3>6, <3>7, <4>1
        <4>2. CASE SpansOf(f) = 0
          BY <1>5, <3>1, <3>7, <4>2
        <4> QED BY <1>1, <4>1, <4>2
      <3> QED BY <1>5, <3>1, <3>2, <3>3, <3>5, <3>8
    <2> QED BY <2>2, <2>3
  <1>7. ASSUME NEW k \in 1..H
        PROVE  /\ \A g \in DOMAIN Hooks : hooked[k].fn = g /\ g \notin {"RPC", "Served"} =>
                    (hooked[k].on <=> OnFor(g)')
               /\ Hooks[hooked[k].fn].callees # {} =>
                    /\ hooked[k].ctx.suppressed <=> Hooks[First'].suppresses /\ FirstOn'
                    /\ hooked[k].ctx.fetching <=> First' = "ReadMessage" /\ FirstOn'
                    /\ hooked[k].ctx.span \in IF FirstOn' /\ Hooks[First'].span = "before"
                                              THEN 2..Len(clientSpans') ELSE {1}
    <2>1. hooked # <<>>
      BY <1>1 DEF H
    <2>2. ContextInv /\ First' = First /\ \A key : SwitchedOn(key)' <=> SwitchedOn(key)
      BY <2>1, CallMoves DEF OperationInv, SteadyInv
    <2>3. FirstOn' <=> FirstOn
      BY <2>2 DEF FirstOn
    <2>4. Len(clientSpans) \in Nat /\ Len(clientSpans') = Len(clientSpans) + SpansOf(f)
      BY <1>1, <2>1
    <2>5. \A s \in 2..Len(clientSpans) : s \in 2..Len(clientSpans')
      BY <1>1, <2>4
    <2>6. ASSUME NEW g \in DOMAIN Hooks, hooked[k].fn = g, g \notin {"RPC", "Served"}
          PROVE  hooked[k].on <=> OnFor(g)'
      <3>1. hooked[k].on <=> OnFor(g)
        BY <2>2, <2>6 DEF ContextInv, H
      <3>2. OnFor(g)' <=> OnFor(g)
        BY <2>1, <2>6, OnForKept
      <3> QED BY <3>1, <3>2
    <2> QED BY <2>2, <2>3, <2>5, <2>6 DEF ContextInv, H
  <1>8. ASSUME NEW k \in 1..Len(hooked')
        PROVE  /\ \A g \in DOMAIN Hooks : hooked'[k].fn = g /\ g \notin {"RPC", "Served"} =>
                    (hooked'[k].on <=> OnFor(g)')
               /\ Hooks[hooked'[k].fn].callees # {} =>
                    /\ hooked'[k].ctx.suppressed <=> Hooks[First'].suppresses /\ FirstOn'
                    /\ hooked'[k].ctx.fetching <=> First' = "ReadMessage" /\ FirstOn'
                    /\ hooked'[k].ctx.span \in IF FirstOn' /\ Hooks[First'].span = "before"
                                               THEN 2..Len(clientSpans') ELSE {1}
    <2>1. CASE k \in 1..H
      BY <1>1, <1>7, <2>1
    <2>2. CASE k = H + 1
      BY <1>1, <1>2, <1>3, <1>6, <2>2
    <2> QED BY <1>1, <2>1, <2>2
  <1>9. \A k \in 1..Len(hooked') : hooked'[k].fn \in DOMAIN Hooks
    BY <1>1, <1>2
  <1> QED BY <1>8, <1>9 DEF ContextInv

LEMMA CallParentKept ==
  ASSUME OperationInv, NEW f \in DOMAIN Hooks, Call(f), operation'.steady
  PROVE  ParentInv'
  <1> DEFINE L == Len(HeldSpans)
  <1>1. /\ SpansOf(f) \in {0, 1} /\ L \in Nat \ {0} /\ Len(clientSpans') = L + SpansOf(f)
        /\ hooked # <<>> => L = Len(clientSpans)
        /\ hooked = <<>> => L = 1
        /\ \A i \in 1..L : clientSpans'[i] = clientSpans[i]
        /\ SpansOf(f) = 1 => clientSpans'[L + 1] = SpanOf(f)
    BY CallAdds
  <1> HIDE DEF L
  <1> SUFFICES ASSUME NEW i \in 2..Len(clientSpans'), clientSpans'[i].by # First'
               PROVE  clientSpans'[i].parent \in IF FirstOn' THEN 2..Len(clientSpans') ELSE {1}
    BY DEF ParentInv
  <1>2. SpanOf(f).by = f /\ SpanOf(f).parent = IF Hooks[f].root THEN 0 ELSE Outer.span
    BY DEF SpanOf
  <1>3. i \in 2..L \/ (SpansOf(f) = 1 /\ i = L + 1)
    BY <1>1
  <1>4. hooked # <<>>
    <2>1. hooked = <<>> => First' = f
      BY CallMoves
    <2> QED BY <1>1, <1>2, <1>3, <2>1
  <1>5. ParentInv /\ First' = First /\ CalledIn(First, f)
    BY <1>4, CallMoves DEF OperationInv, SteadyInv
  <1>6. FirstOn' <=> FirstOn
    <2>1. First' = First /\ \A key : SwitchedOn(key)' <=> SwitchedOn(key)
      BY <1>4, CallMoves
    <2> QED BY <2>1 DEF FirstOn
  <1>7. Len(clientSpans) \in Nat /\ \A s \in 2..Len(clientSpans) : s \in 2..Len(clientSpans')
    BY <1>1, <1>4
  <1>8. CASE i \in 2..L
    <2>1. i \in 2..Len(clientSpans) /\ clientSpans'[i] = clientSpans[i]
      BY <1>1, <1>4, <1>8
    <2>2. clientSpans[i].parent \in IF FirstOn THEN 2..Len(clientSpans) ELSE {1}
      BY <1>5, <2>1 DEF ParentInv
    <2> QED BY <1>6, <1>7, <2>1, <2>2
  <1>9. CASE SpansOf(f) = 1 /\ i = L + 1
    <2>1. Hooks[f].span = "before"
      BY <1>9, OneSpan DEF OperationInv
    <2>2. f \in {"RoundTrip", "DoRequest", "Event"}
      <3>1. f \notin {"FetchMessage", "NewClient", "Next"}
        BY <2>1, HookTable
      <3> QED BY <1>5, <3>1 DEF CalledIn
    <2>3. First \in {"OpenSearch", "Elastic", "Stripe", "PublicMethod", "Deltas"}
      BY <1>5, <2>2 DEF CalledIn
    <2>4. Hooks[First].span = "before"
      BY <2>3, HookRows DEF Row
    <2>5. ~Hooks[f].root
      BY <2>2, HookTable
    <2>6. Outer.span \in IF FirstOn /\ Hooks[First].span = "before" THEN 2..Len(clientSpans) ELSE {1}
      BY <1>4, CallerTells
    <2>7. clientSpans'[i].parent = Outer.span
      BY <1>1, <1>2, <1>9, <2>5
    <2> QED BY <1>6, <1>7, <2>4, <2>6, <2>7
  <1> QED BY <1>3, <1>8, <1>9

LEMMA CallResultKept ==
  ASSUME OperationInv, NEW f \in DOMAIN Hooks, Call(f), operation'.steady
  PROVE  ResultInv'
  <1> DEFINE opts == IF hooked = <<>> THEN NoOptions ELSE connection
  <1>1. /\ connection' = Connected(f, opts, Takes(f, Outer))
        /\ gin' = IF f = "Next" /\ Takes(f, Outer) THEN [RequestOf EXCEPT !.depth = @ + 1]
                  ELSE RequestOf
    BY CallEffect
  <1>2. /\ \A key : SwitchedOn(key)' <=> SwitchedOn(key)
        /\ hooked = <<>> => First' = f
        /\ hooked # <<>> => First' = First /\ CalledIn(First, f) /\ f \in Hooks[Caller.fn].callees
                            /\ operation.steady
    BY CallMoves
  <1>3. Takes(f, Outer) <=> OnFor(f)'
    BY TakesTells
  <1>4. Takes(f, Outer) \in BOOLEAN
    BY DEF Takes
  <1>5. ConnInv /\ BalanceInv
    BY DEF OperationInv
  <1>6. ASSUME First' \in {"DialContext", "NewClient", "NewServer"}
        PROVE  connection'.handlers = IF SwitchedOn("grpc") THEN 1 ELSE 0
    <2>1. f \in {"DialContext", "NewClient", "NewServer"}
      BY <1>2, <1>6 DEF CalledIn
    <2>2. Takes(f, Outer) <=> SwitchedOn("grpc")
      BY <1>2, <1>3, <2>1, HookKeys DEF OnFor
    <2>3. CASE hooked = <<>>
      <3>1. opts = [of |-> "client", injected |-> FALSE, handlers |-> 0]
        BY <2>3 DEF NoOptions
      <3> HIDE DEF opts
      <3>2. CASE ~Takes(f, Outer)
        <4>1. connection' = opts
          BY <1>1, <2>1, <3>2 DEF Connected
        <4> QED BY <2>2, <3>1, <3>2, <4>1
      <3>3. CASE Takes(f, Outer) /\ f = "NewServer"
        <4>1. connection' = [of |-> "server", injected |-> FALSE, handlers |-> 1]
          BY <1>1, <3>3 DEF Connected
        <4> QED BY <2>2, <3>3, <4>1
      <3>4. CASE Takes(f, Outer) /\ f # "NewServer"
        <4>1. connection' = WithClientStatsHandler(opts)
          BY <1>1, <2>1, <3>4 DEF Connected
        <4>2. opts.injected = FALSE /\ opts.handlers = 0
          BY <3>1
        <4>3. connection' = [of |-> "client", injected |-> TRUE, handlers |-> 0 + 1]
          BY <4>1, <4>2 DEF WithClientStatsHandler
        <4> QED BY <2>2, <3>4, <4>3
      <3> QED BY <3>2, <3>3, <3>4
    <2>4. CASE hooked # <<>>
      <3>1. /\ Len(hooked) \in 1..Len(hooked) /\ Caller = hooked[Len(hooked)]
            /\ Caller.fn \in DOMAIN Hooks
        BY <1>5, <2>4, CallerFacts DEF HookedRecord
      <3>2. f = "NewClient" /\ Caller.fn = "DialContext"
        BY <1>2, <2>1, <2>4, <3>1, CalleeOf
      <3>3. connection.of = "client"
        BY <1>5, <3>1, <3>2 DEF ConnInv
      <3>4. connection.handlers = IF SwitchedOn("grpc") THEN 1 ELSE 0
        BY <1>2, <1>6, <2>4 DEF OperationInv, SteadyInv, ResultInv
      <3>5. connection' = connection
        <4>1. CASE Takes(f, Outer)
          <5>1. connection.injected
            BY <1>5, <2>2, <3>3, <3>4, <4>1 DEF ConnInv
          <5>2. connection' = WithClientStatsHandler(connection)
            BY <1>1, <2>4, <3>2, <4>1 DEF Connected
          <5> QED BY <5>1, <5>2 DEF WithClientStatsHandler
        <4>2. CASE ~Takes(f, Outer)
          BY <1>1, <2>4, <3>2, <4>2 DEF Connected
        <4> QED BY <4>1, <4>2
      <3> QED BY <3>4, <3>5
    <2> QED BY <2>3, <2>4
  <1>7. ASSUME First' = "Next"
        PROVE  gin'.reports = 0
    <2>1. RequestOf.reports = 0 /\ RequestOf \in [depth : Int, errors : BOOLEAN, reports : Nat]
      <3>1. CASE hooked = <<>>
        BY <3>1 DEF RequestOf, NoRequest
      <3>2. CASE hooked # <<>>
        <4>1. gin.reports = IF hooked = <<>> /\ SwitchedOn("gin") /\ gin.errors THEN 1 ELSE 0
          BY <1>2, <1>7, <3>2 DEF OperationInv, SteadyInv, ResultInv
        <4> QED BY <1>5, <3>2, <4>1 DEF RequestOf, BalanceInv, ClientTypeInv
      <3> QED BY <3>1, <3>2
    <2> QED BY <1>1, <2>1
  <1>8. hooked' # <<>>
    <2>1. Len(hooked') = Len(hooked) + 1 /\ Len(hooked) \in Nat
      BY CallAdds
    <2>2. hooked' = <<>> => Len(hooked') = 0
      OBVIOUS
    <2> QED BY <2>1, <2>2
  <1> QED BY <1>2, <1>6, <1>7, <1>8 DEF ResultInv

LEMMA CountsAreFinite ==
  ASSUME OperationInv, NEW g \in DOMAIN Hooks
  PROVE  /\ IsFiniteSet(SpansBy(g)) /\ IsFiniteSet(StillLate(g)) /\ IsFiniteSet(MadeOf(g))
         /\ Cardinality(SpansBy(g)) \in Nat /\ Cardinality(StillLate(g)) \in Nat
         /\ Cardinality(MadeOf(g)) \in Nat
  <1>1. Len(clientSpans) \in Nat /\ Len(hooked) \in Nat /\ Len(operation.made) \in Nat
    <2>1. /\ clientSpans \in Seq(ClientSpanRecord) /\ hooked \in Seq(HookedRecord)
          /\ operation.made \in Seq(DOMAIN Hooks)
      BY DEF OperationInv, BalanceInv, ClientTypeInv
    <2> QED BY <2>1
  <1>2. /\ IsFiniteSet(2..Len(clientSpans)) /\ IsFiniteSet(1..Len(hooked))
        /\ IsFiniteSet(1..Len(operation.made))
    <2>1. \A a, b \in Int : IsFiniteSet(a..b)
      BY FS_Interval
    <2> QED BY <1>1, <2>1
  <1>3. /\ SpansBy(g) \in SUBSET (2..Len(clientSpans)) /\ StillLate(g) \in SUBSET (1..Len(hooked))
        /\ MadeOf(g) \in SUBSET (1..Len(operation.made))
    BY DEF SpansBy, StillLate, MadeOf
  <1>4. IsFiniteSet(SpansBy(g)) /\ IsFiniteSet(StillLate(g)) /\ IsFiniteSet(MadeOf(g))
    BY <1>2, <1>3, FS_Subset
  <1> QED BY <1>4, FS_CardinalityType

\* What a call of f adds to the spans, to the calls whose span comes later and to
\* the calls made.
LEMMA CallCounts ==
  ASSUME OperationInv, NEW f \in DOMAIN Hooks, Call(f), operation'.steady, NEW g \in DOMAIN Hooks
  PROVE  LET fresh == hooked = <<>>
             one == IF f = g THEN 1 ELSE 0
         IN /\ Cardinality(SpansBy(g)') =
                 (IF fresh THEN 0 ELSE Cardinality(SpansBy(g)))
                   + IF f = g /\ Takes(f, Outer) /\ Hooks[f].span = "before" THEN 1 ELSE 0
            /\ Cardinality(StillLate(g)') =
                 (IF fresh THEN 0 ELSE Cardinality(StillLate(g)))
                   + IF f = g /\ Takes(f, Outer) /\ Hooks[f].span = "after" THEN 1 ELSE 0
            /\ Cardinality(MadeOf(g)') = (IF fresh THEN 0 ELSE Cardinality(MadeOf(g))) + one
  <1> DEFINE L == Len(HeldSpans)
             H == Len(hooked)
             spans == IF hooked = <<>> THEN {} ELSE SpansBy(g)
             lates == IF hooked = <<>> THEN {} ELSE StillLate(g)
             mades == IF hooked = <<>> THEN {} ELSE MadeOf(g)
             M == IF hooked = <<>> THEN 0 ELSE Len(operation.made)
             starts == f = g /\ Takes(f, Outer) /\ Hooks[f].span = "before"
             waits == f = g /\ Takes(f, Outer) /\ Hooks[f].span = "after"
  <1>1. /\ SpansOf(f) \in {0, 1} /\ L \in Nat \ {0} /\ Len(clientSpans') = L + SpansOf(f)
        /\ hooked # <<>> => L = Len(clientSpans)
        /\ hooked = <<>> => L = 1
        /\ \A i \in 1..L : clientSpans'[i] = clientSpans[i]
        /\ SpansOf(f) = 1 => clientSpans'[L + 1] = SpanOf(f)
        /\ Len(hooked') = H + 1 /\ H \in Nat
        /\ \A k \in 1..H : hooked'[k] = hooked[k]
        /\ hooked'[H + 1] = ProgressOf(f)
    BY CallAdds
  <1>2. /\ SpanOf(f).by = f /\ ProgressOf(f).fn = f /\ ProgressOf(f).on = Takes(f, Outer)
        /\ SpansOf(f) = IF Takes(f, Outer) /\ Hooks[f].span = "before" THEN 1 ELSE 0
    BY CallShapes, OneSpan DEF SpanOf, OperationInv
  <1>3. /\ IsFiniteSet(spans) /\ IsFiniteSet(lates) /\ IsFiniteSet(mades)
        /\ Cardinality(spans) = IF hooked = <<>> THEN 0 ELSE Cardinality(SpansBy(g))
        /\ Cardinality(lates) = IF hooked = <<>> THEN 0 ELSE Cardinality(StillLate(g))
        /\ Cardinality(mades) = IF hooked = <<>> THEN 0 ELSE Cardinality(MadeOf(g))
    BY CountsAreFinite, FS_EmptySet
  <1>4. spans \subseteq 2..L /\ \A i \in 2..L : i \in spans <=> clientSpans[i].by = g
    <2>1. CASE hooked = <<>>
      <3>1. L = 1
        BY <1>1, <2>1
      <3> HIDE DEF L
      <3>2. 2..L = {}
        BY <3>1
      <3> QED BY <2>1, <3>2
    <2>2. CASE hooked # <<>>
      <3>1. L = Len(clientSpans)
        BY <1>1, <2>2
      <3> QED BY <2>2, <3>1 DEF SpansBy
    <2> QED BY <2>1, <2>2
  <1>5. lates \subseteq 1..H /\ \A k \in 1..H : k \in lates <=>
          hooked[k].fn = g /\ hooked[k].on /\ Hooks[g].span = "after"
    BY <1>1 DEF StillLate
  <1>6. /\ M \in Nat /\ Len(operation'.made) = M + 1 /\ operation'.made[M + 1] = f
        /\ \A k \in 1..M : operation'.made[k] = operation.made[k]
        /\ mades \subseteq 1..M /\ \A k \in 1..M : k \in mades <=> operation.made[k] = g
    <2>1. CASE hooked = <<>>
      <3>1. operation'.made = <<f>> /\ M = 0 /\ mades = {}
        BY <2>1, CallMoves
      <3> QED BY <3>1
    <2>2. CASE hooked # <<>>
      BY <2>2, CallMoves DEF MadeOf
    <2> QED BY <2>1, <2>2
  <1> HIDE DEF L, H, spans, lates, mades, M
  <1>7. SpansBy(g)' = IF starts THEN spans \cup {L + 1} ELSE spans
    <2>1. SpansBy(g)' = {i \in 2..Len(clientSpans') : clientSpans'[i].by = g}
      BY DEF SpansBy
    <2>2. CASE SpansOf(f) = 1
      <3>1. 2..Len(clientSpans') = 2..L \cup {L + 1} /\ L + 1 \notin 2..L
        BY <1>1, <2>2
      <3>2. clientSpans'[L + 1].by = f /\ (starts <=> f = g)
        BY <1>1, <1>2, <2>2
      <3>3. \A i \in 2..L : clientSpans'[i].by = g <=> i \in spans
        BY <1>1, <1>4
      <3> QED BY <1>4, <2>1, <3>1, <3>2, <3>3
    <2>3. CASE SpansOf(f) = 0
      <3>1. 2..Len(clientSpans') = 2..L /\ ~starts
        BY <1>1, <1>2, <2>3
      <3>2. \A i \in 2..L : clientSpans'[i].by = g <=> i \in spans
        BY <1>1, <1>4
      <3> QED BY <1>4, <2>1, <3>1, <3>2
    <2> QED BY <1>1, <2>2, <2>3
  <1>8. StillLate(g)' = IF waits THEN lates \cup {H + 1} ELSE lates
    <2>1. StillLate(g)' = {k \in 1..Len(hooked') :
                             hooked'[k].fn = g /\ hooked'[k].on /\ Hooks[g].span = "after"}
      BY DEF StillLate
    <2>2. 1..Len(hooked') = 1..H \cup {H + 1} /\ H + 1 \notin 1..H
      BY <1>1
    <2>3. hooked'[H + 1].fn = f /\ hooked'[H + 1].on = Takes(f, Outer)
      BY <1>1, <1>2
    <2>4. \A k \in 1..H : k \in lates <=>
            hooked'[k].fn = g /\ hooked'[k].on /\ Hooks[g].span = "after"
      BY <1>1, <1>5
    <2>5. lates \subseteq 1..H
      BY <1>5
    <2> QED BY <2>1, <2>2, <2>3, <2>4, <2>5
  <1>9. MadeOf(g)' = IF f = g THEN mades \cup {M + 1} ELSE mades
    <2>1. MadeOf(g)' = {k \in 1..Len(operation'.made) : operation'.made[k] = g}
      BY DEF MadeOf
    <2>2. 1..Len(operation'.made) = 1..M \cup {M + 1} /\ M + 1 \notin 1..M
      BY <1>6
    <2>3. \A k \in 1..M : k \in mades <=> operation'.made[k] = g
      BY <1>6
    <2> QED BY <1>6, <2>1, <2>2, <2>3
  <1>10. L + 1 \notin spans /\ H + 1 \notin lates /\ M + 1 \notin mades
    BY <1>1, <1>4, <1>5, <1>6
  <1> HIDE DEF starts, waits
  <1>11. Cardinality(SpansBy(g)') = Cardinality(spans) + IF starts THEN 1 ELSE 0
    <2>1. Cardinality(spans \cup {L + 1}) = Cardinality(spans) + 1
      BY <1>3, <1>10, FS_AddElement
    <2>2. Cardinality(spans) \in Nat
      BY <1>3, FS_CardinalityType
    <2> QED BY <1>7, <2>1, <2>2
  <1>12. Cardinality(StillLate(g)') = Cardinality(lates) + IF waits THEN 1 ELSE 0
    <2>1. Cardinality(lates \cup {H + 1}) = Cardinality(lates) + 1
      BY <1>3, <1>10, FS_AddElement
    <2>2. Cardinality(lates) \in Nat
      BY <1>3, FS_CardinalityType
    <2> QED BY <1>8, <2>1, <2>2
  <1>13. Cardinality(MadeOf(g)') = Cardinality(mades) + IF f = g THEN 1 ELSE 0
    <2>1. Cardinality(mades \cup {M + 1}) = Cardinality(mades) + 1
      BY <1>3, <1>10, FS_AddElement
    <2>2. Cardinality(mades) \in Nat
      BY <1>3, FS_CardinalityType
    <2> QED BY <1>9, <2>1, <2>2
  <1> QED BY <1>3, <1>11, <1>12, <1>13 DEF starts, waits

LEMMA CallCountKept ==
  ASSUME OperationInv, NEW f \in DOMAIN Hooks, Call(f), operation'.steady
  PROVE  CountInv'
  <1> SUFFICES ASSUME NEW g \in DOMAIN Hooks
               PROVE  Cardinality(SpansBy(g)') + Cardinality(StillLate(g)')
                        = IF Counts(g)' THEN Cardinality(MadeOf(g)') ELSE 0
    BY DEF CountInv, SpansBy, StillLate, MadeOf
  <1> DEFINE starts == f = g /\ Takes(f, Outer) /\ Hooks[f].span = "before"
             waits == f = g /\ Takes(f, Outer) /\ Hooks[f].span = "after"
             fresh == hooked = <<>>
             spans == Cardinality(SpansBy(g))
             lates == Cardinality(StillLate(g))
             mades == Cardinality(MadeOf(g))
  <1>1. /\ Cardinality(SpansBy(g)') = (IF fresh THEN 0 ELSE spans) + IF starts THEN 1 ELSE 0
        /\ Cardinality(StillLate(g)') = (IF fresh THEN 0 ELSE lates) + IF waits THEN 1 ELSE 0
        /\ Cardinality(MadeOf(g)') = (IF fresh THEN 0 ELSE mades) + IF f = g THEN 1 ELSE 0
    BY CallCounts
  <1>2. spans \in Nat /\ lates \in Nat /\ mades \in Nat
    BY CountsAreFinite
  <1>3. f = g => (Counts(g)' <=> Takes(f, Outer) /\ Hooks[f].span # "none")
    <2>1. (\A h \in DOMAIN Hooks : Counts(h) <=> OnFor(h) /\ Hooks[h].span # "none")'
      BY CountsStayOn
    <2> QED BY <2>1, TakesTells
  <1>4. Hooks[f].span \in {"before", "after", "none"}
    BY HookFields
  <1>5. ~fresh => /\ (g \notin {"RPC", "Served"} => (Counts(g)' <=> Counts(g)))
                  /\ f \notin {"RPC", "Served"}
                  /\ spans + lates = IF Counts(g) THEN mades ELSE 0
                  /\ g \in {"RPC", "Served"} => mades = 0
    <2> SUFFICES ASSUME ~fresh
                 PROVE  /\ (g \notin {"RPC", "Served"} => (Counts(g)' <=> Counts(g)))
                        /\ f \notin {"RPC", "Served"}
                        /\ spans + lates = IF Counts(g) THEN mades ELSE 0
                        /\ g \in {"RPC", "Served"} => mades = 0
      OBVIOUS
    <2>1. (\A h \in DOMAIN Hooks : Counts(h) <=> OnFor(h) /\ Hooks[h].span # "none")'
      BY CountsStayOn
    <2>2. g \notin {"RPC", "Served"} => (Counts(g)' <=> Counts(g))
      BY <2>1, CountsIsOn, OnForKept
    <2>3. ShapeInv /\ CountInv /\ CalledIn(First, f)
      BY CallMoves DEF OperationInv, SteadyInv
    <2>4. f \notin {"RPC", "Served"}
      BY <2>3 DEF CalledIn
    <2>5. spans + lates = IF Counts(g) THEN mades ELSE 0
      BY <2>3 DEF CountInv
    <2>6. ASSUME g \in {"RPC", "Served"}
          PROVE  mades = 0
      <3>1. First # g /\ \A k \in 2..Len(operation.made) : operation.made[k] # g
        BY <2>3, <2>6 DEF ShapeInv, CalledIn
      <3>2. Len(operation.made) \in Nat
        BY CallMoves
      <3>3. MadeOf(g) = {}
        BY <3>1, <3>2 DEF MadeOf, First
      <3> QED BY <3>3, FS_EmptySet
    <2> QED BY <2>2, <2>4, <2>5, <2>6
  <1> HIDE DEF spans, lates, mades
  <1>6. CASE fresh
    BY <1>1, <1>2, <1>3, <1>4, <1>6
  <1>7. CASE ~fresh
    <2>1. CASE f = g
      BY <1>1, <1>2, <1>3, <1>4, <1>5, <1>7, <2>1
    <2>2. CASE f # g
      BY <1>1, <1>2, <1>5, <1>7, <2>2
    <2> QED BY <2>1, <2>2
  <1> QED BY <1>6, <1>7

\* The calls and the spans after a return.
LEMMA ReturnMoves ==
  ASSUME OperationInv, NEW failed \in BOOLEAN, NEW carried \in BOOLEAN, Return(failed, carried)
  PROVE  LET late == Caller.on /\ Hooks[Caller.fn].span = "after" IN
         /\ env' = env /\ connection' = connection /\ operation' = operation
         /\ Len(hooked) \in Nat \ {0} /\ Len(hooked') = Len(hooked) - 1
         /\ \A k \in 1..Len(hooked) - 1 : hooked'[k] = hooked[k]
         /\ Caller = hooked[Len(hooked)] /\ Caller.fn \in DOMAIN Hooks
         /\ Len(clientSpans) \in Nat \ {0}
         /\ Len(clientSpans') = Len(clientSpans) + IF late THEN 1 ELSE 0
         /\ \A i \in 1..Len(clientSpans) : /\ clientSpans'[i].by = clientSpans[i].by
                                           /\ clientSpans'[i].parent = clientSpans[i].parent
         /\ late => clientSpans'[Len(clientSpans) + 1].by = Caller.fn
  <1> DEFINE late == Caller.on /\ Hooks[Caller.fn].span = "after"
             runs == AsksAgain(Caller.fn) => Instrumented(Hooks[Caller.fn].key)
             after == Ended(Caller) \o Late(Caller, carried)
             L == Len(clientSpans)
  <1>1. BalanceInv
    BY DEF OperationInv
  <1>2. /\ hooked # <<>> /\ hooked' = SubSeq(hooked, 1, Len(hooked) - 1)
        /\ clientSpans' = IF runs THEN after ELSE clientSpans
        /\ env' = env /\ connection' = connection /\ operation' = operation
    BY DEF Return
  <1>3. /\ Len(hooked) \in Nat \ {0} /\ Caller = hooked[Len(hooked)] /\ Caller \in HookedRecord
        /\ Caller.fn \in DOMAIN Hooks
    BY <1>1, <1>2, CallerFacts DEF HookedRecord
  <1>4. /\ Len(hooked') = Len(hooked) - 1
        /\ \A k \in 1..Len(hooked) - 1 : hooked'[k] = hooked[k]
    BY <1>1, <1>2, HookedShortened
  <1>5. L \in Nat \ {0}
    BY <1>1 DEF BalanceInv, ClientTypeInv
  <1>6. /\ Len(after) = L + IF late THEN 1 ELSE 0
        /\ \A i \in 1..L : after[i].by = clientSpans[i].by /\ after[i].parent = clientSpans[i].parent
        /\ late => after[L + 1].by = Caller.fn
    <2>1. /\ Len(after) = L + IF late THEN 1 ELSE 0
          /\ \A i \in 1..L : after[i].by = clientSpans[i].by /\ after[i].parent = clientSpans[i].parent
          /\ late => after[L + 1] =
               [by |-> Caller.fn, parent |-> IF carried THEN 0 ELSE Caller.ctx.span, open |-> FALSE]
      BY <1>1, <1>3, SpansClosed, ZenonT(40)
    <2> HIDE DEF after, late, L
    <2> QED BY <2>1
  <1>7. ~runs => ~late
    <2>1. Hooks[Caller.fn].span = "after" => Caller.fn \in {"ReadMessage", "FetchMessage"}
      BY <1>3, HookTable
    <2>2. ~Hooks["ReadMessage"].rechecks /\ ~Hooks["FetchMessage"].rechecks
      BY HookRows DEF Row
    <2>3. Caller.fn \in {"ReadMessage", "FetchMessage"} => runs
      BY <2>2 DEF AsksAgain
    <2> QED BY <2>1, <2>3
  <1> HIDE DEF after, runs, late
  <1>8. /\ Len(clientSpans') = L + IF late THEN 1 ELSE 0
        /\ \A i \in 1..L : /\ clientSpans'[i].by = clientSpans[i].by
                           /\ clientSpans'[i].parent = clientSpans[i].parent
        /\ late => clientSpans'[L + 1].by = Caller.fn
    <2>1. CASE runs
      BY <1>2, <1>6, <2>1
    <2>2. CASE ~runs
      BY <1>2, <1>5, <1>7, <2>2
    <2> QED BY <2>1, <2>2
  <1> QED BY <1>2, <1>3, <1>4, <1>5, <1>8 DEF late

\* What stays as it is when the environment, the connection and the operation do.
LEMMA SwitchesStay ==
  ASSUME env' = env, connection' = connection, operation' = operation
  PROVE  /\ First' = First /\ (FirstOn' <=> FirstOn)
         /\ \A key : SwitchedOn(key)' <=> SwitchedOn(key)
         /\ \A g : (OnFor(g)' <=> OnFor(g)) /\ (Counts(g)' <=> Counts(g))
         /\ \A g : MadeOf(g)' = MadeOf(g)
  <1>1. First' = First /\ \A key : SwitchedOn(key)' <=> SwitchedOn(key)
    BY DEF First, SwitchedOn
  <1>2. FirstOn' <=> FirstOn
    BY <1>1 DEF FirstOn
  <1>3. \A g : OnFor(g)' <=> OnFor(g)
    BY <1>1, <1>2 DEF OnFor
  <1>4. \A g : Counts(g)' <=> Counts(g)
    BY <1>1 DEF Counts
  <1>5. \A g : MadeOf(g)' = MadeOf(g)
    BY DEF MadeOf
  <1> QED BY <1>1, <1>2, <1>3, <1>4, <1>5

LEMMA ReturnCountKept ==
  ASSUME OperationInv, NEW failed \in BOOLEAN, NEW carried \in BOOLEAN,
         Return(failed, carried), operation.steady
  PROVE  CountInv'
  <1> DEFINE H == Len(hooked)
             L == Len(clientSpans)
             late == Caller.on /\ Hooks[Caller.fn].span = "after"
  <1>1. /\ env' = env /\ connection' = connection /\ operation' = operation
        /\ H \in Nat \ {0} /\ Len(hooked') = H - 1
        /\ \A k \in 1..H - 1 : hooked'[k] = hooked[k]
        /\ Caller = hooked[H]
        /\ L \in Nat \ {0} /\ Len(clientSpans') = L + IF late THEN 1 ELSE 0
        /\ \A i \in 1..L : clientSpans'[i].by = clientSpans[i].by
        /\ late => clientSpans'[L + 1].by = Caller.fn
    BY ReturnMoves
  <1>2. CountInv
    BY DEF OperationInv, SteadyInv
  <1> SUFFICES ASSUME NEW g \in DOMAIN Hooks
               PROVE  Cardinality(SpansBy(g)') + Cardinality(StillLate(g)')
                        = IF Counts(g)' THEN Cardinality(MadeOf(g)') ELSE 0
    BY DEF CountInv, SpansBy, StillLate, MadeOf
  <1> DEFINE this == late /\ Caller.fn = g
  <1>3. Cardinality(SpansBy(g)) + Cardinality(StillLate(g))
          = IF Counts(g) THEN Cardinality(MadeOf(g)) ELSE 0
    BY <1>2 DEF CountInv
  <1>4. (Counts(g)' <=> Counts(g)) /\ MadeOf(g)' = MadeOf(g)
    BY <1>1, SwitchesStay
  <1>5. StillLate(g) = {k \in 1..H : hooked[k].fn = g /\ hooked[k].on /\ Hooks[g].span = "after"}
    BY DEF StillLate
  <1>6. StillLate(g)' = {k \in 1..Len(hooked') :
                           hooked'[k].fn = g /\ hooked'[k].on /\ Hooks[g].span = "after"}
    BY DEF StillLate
  <1>7. SpansBy(g) = {i \in 2..L : clientSpans[i].by = g}
    BY DEF SpansBy
  <1>8. SpansBy(g)' = {i \in 2..Len(clientSpans') : clientSpans'[i].by = g}
    BY DEF SpansBy
  <1> HIDE DEF H, L
  <1>9. H \in StillLate(g) <=> this
    BY <1>1, <1>5
  <1>10. StillLate(g)' = StillLate(g) \ {H}
    <2>1. 1..Len(hooked') = (1..H) \ {H} /\ \A k \in (1..H) \ {H} : hooked'[k] = hooked[k]
      BY <1>1
    <2> QED BY <1>5, <1>6, <2>1
  <1>11. SpansBy(g)' = IF this THEN SpansBy(g) \cup {L + 1} ELSE SpansBy(g)
    <2>1. CASE late
      <3>1. 2..Len(clientSpans') = 2..L \cup {L + 1} /\ L + 1 \notin 2..L
        BY <1>1, <2>1
      <3>2. clientSpans'[L + 1].by = Caller.fn /\ (this <=> Caller.fn = g)
        BY <1>1, <2>1
      <3>3. \A i \in 2..L : clientSpans'[i].by = clientSpans[i].by
        BY <1>1
      <3> QED BY <1>7, <1>8, <3>1, <3>2, <3>3
    <2>2. CASE ~late
      <3>1. 2..Len(clientSpans') = 2..L /\ ~this
        BY <1>1, <2>2
      <3>2. \A i \in 2..L : clientSpans'[i].by = clientSpans[i].by
        BY <1>1
      <3> QED BY <1>7, <1>8, <3>1, <3>2
    <2> QED BY <2>1, <2>2
  <1>12. L + 1 \notin SpansBy(g)
    BY <1>1, <1>7
  <1> HIDE DEF this
  <1>13. /\ IsFiniteSet(SpansBy(g)) /\ IsFiniteSet(StillLate(g))
         /\ Cardinality(SpansBy(g)) \in Nat /\ Cardinality(StillLate(g)) \in Nat
    BY CountsAreFinite
  <1>14. Cardinality(SpansBy(g)') = Cardinality(SpansBy(g)) + IF this THEN 1 ELSE 0
    <2>1. Cardinality(SpansBy(g) \cup {L + 1}) = Cardinality(SpansBy(g)) + 1
      BY <1>12, <1>13, FS_AddElement
    <2> QED BY <1>11, <1>13, <2>1
  <1>15. Cardinality(StillLate(g)') = Cardinality(StillLate(g)) - IF this THEN 1 ELSE 0
    <2>1. Cardinality(StillLate(g) \ {H}) =
            IF H \in StillLate(g) THEN Cardinality(StillLate(g)) - 1 ELSE Cardinality(StillLate(g))
      BY <1>13, FS_RemoveElement
    <2> QED BY <1>9, <1>10, <1>13, <2>1
  <1> QED BY <1>3, <1>4, <1>13, <1>14, <1>15

\* Only the operation itself still has its span to come.
LEMMA LateIsFirst ==
  ASSUME OperationInv, NEW failed \in BOOLEAN, NEW carried \in BOOLEAN,
         Return(failed, carried), operation.steady,
         Caller.on, Hooks[Caller.fn].span = "after"
  PROVE  Caller.fn = First
  <1>1. /\ Len(hooked) \in Nat \ {0} /\ Caller = hooked[Len(hooked)] /\ Caller.fn \in DOMAIN Hooks
        /\ Len(hooked) \in 1..Len(hooked)
    BY ReturnMoves
  <1>2. Caller.fn \in {"ReadMessage", "FetchMessage"}
    BY <1>1, HookTable
  <1>3. /\ Caller.fn = First \/ CalledIn(First, Caller.fn)
        /\ Caller.on <=> OnFor(Caller.fn)
    BY <1>1, <1>2 DEF OperationInv, SteadyInv, ShapeInv, ContextInv
  <1>4. CASE Caller.fn = "ReadMessage"
    BY <1>3, <1>4 DEF CalledIn
  <1>5. CASE Caller.fn = "FetchMessage"
    BY <1>3, <1>5 DEF OnFor
  <1> QED BY <1>2, <1>4, <1>5

LEMMA ReturnShapeKept ==
  ASSUME OperationInv, NEW failed \in BOOLEAN, NEW carried \in BOOLEAN,
         Return(failed, carried), operation.steady
  PROVE  ShapeInv' /\ ContextInv' /\ ParentInv'
  <1> DEFINE H == Len(hooked)
             L == Len(clientSpans)
             late == Caller.on /\ Hooks[Caller.fn].span = "after"
  <1>1. /\ env' = env /\ connection' = connection /\ operation' = operation
        /\ H \in Nat \ {0} /\ Len(hooked') = H - 1
        /\ \A k \in 1..H - 1 : hooked'[k] = hooked[k]
        /\ L \in Nat \ {0} /\ Len(clientSpans') = L + IF late THEN 1 ELSE 0
        /\ \A i \in 1..L : /\ clientSpans'[i].by = clientSpans[i].by
                           /\ clientSpans'[i].parent = clientSpans[i].parent
        /\ late => clientSpans'[L + 1].by = Caller.fn
    BY ReturnMoves
  <1>2. /\ First' = First /\ (FirstOn' <=> FirstOn)
        /\ \A g : OnFor(g)' <=> OnFor(g)
    BY <1>1, SwitchesStay
  <1>3. ShapeInv /\ ContextInv /\ ParentInv
    BY DEF OperationInv, SteadyInv
  <1>4. late => Caller.fn = First
    BY LateIsFirst
  <1> HIDE DEF late
  <1>5. \A k \in 1..Len(hooked') : k \in 1..Len(hooked) /\ hooked'[k] = hooked[k]
    BY <1>1
  <1>6. \A s \in 2..Len(clientSpans) : s \in 2..Len(clientSpans')
    BY <1>1
  <1>7. ShapeInv'
    BY <1>1, <1>2, <1>3, <1>5 DEF ShapeInv
  <1>8. ContextInv'
    <2> SUFFICES ASSUME NEW k \in 1..Len(hooked')
                 PROVE  /\ \A g : hooked'[k].fn = g /\ g \notin {"RPC", "Served"} =>
                             (hooked'[k].on <=> OnFor(g)')
                        /\ Hooks[hooked'[k].fn].callees # {} =>
                             /\ hooked'[k].ctx.suppressed <=> Hooks[First'].suppresses /\ FirstOn'
                             /\ hooked'[k].ctx.fetching <=> First' = "ReadMessage" /\ FirstOn'
                             /\ hooked'[k].ctx.span \in IF FirstOn' /\ Hooks[First'].span = "before"
                                                        THEN 2..Len(clientSpans') ELSE {1}
      BY DEF ContextInv
    <2>1. k \in 1..Len(hooked) /\ hooked'[k] = hooked[k]
      BY <1>5
    <2>2. \A g : hooked[k].fn = g /\ g \notin {"RPC", "Served"} => (hooked[k].on <=> OnFor(g)')
      BY <1>2, <1>3, <2>1 DEF ContextInv
    <2> QED BY <1>2, <1>3, <1>6, <2>1, <2>2 DEF ContextInv
  <1>9. ParentInv'
    <2> SUFFICES ASSUME NEW i \in 2..Len(clientSpans'), clientSpans'[i].by # First'
                 PROVE  clientSpans'[i].parent \in IF FirstOn' THEN 2..Len(clientSpans') ELSE {1}
      BY DEF ParentInv
    <2>1. i \in 2..L
      BY <1>1, <1>2, <1>4
    <2>2. clientSpans[i].parent \in IF FirstOn THEN 2..Len(clientSpans) ELSE {1}
      BY <1>1, <1>2, <1>3, <2>1 DEF ParentInv
    <2> QED BY <1>1, <1>2, <1>6, <2>1, <2>2
  <1> QED BY <1>7, <1>8, <1>9

LEMMA ReturnResultKept ==
  ASSUME OperationInv, NEW failed \in BOOLEAN, NEW carried \in BOOLEAN,
         Return(failed, carried), operation.steady
  PROVE  ResultInv'
  <1> DEFINE H == Len(hooked)
  <1>1. /\ env' = env /\ connection' = connection /\ operation' = operation
        /\ H \in Nat \ {0} /\ Len(hooked') = H - 1 /\ Caller = hooked[H]
        /\ Caller.fn \in DOMAIN Hooks
    BY ReturnMoves
  <1>2. First' = First /\ \A key : SwitchedOn(key)' <=> SwitchedOn(key)
    BY <1>1, SwitchesStay
  <1>3. ShapeInv /\ ContextInv /\ ResultInv /\ BalanceInv
    BY DEF OperationInv, SteadyInv
  <1>4. /\ hooked # <<>>
        /\ gin' = IF Caller.fn = "Next" THEN LeaveNext(Caller, failed) ELSE gin
    BY DEF Return
  <1>5. hooked' = <<>> <=> H = 1
    <2>1. hooked' \in Seq(HookedRecord)
      BY <1>3, <1>4, HookedShortened DEF Return
    <2>2. hooked' = <<>> <=> Len(hooked') = 0
      BY <2>1, EmptySeq
    <2> QED BY <1>1, <2>2
  <1>6. ASSUME First = "Next"
        PROVE  gin'.reports = IF hooked' = <<>> /\ SwitchedOn("gin") /\ gin'.errors THEN 1 ELSE 0
    <2>1. \A k \in 1..H : hooked[k].fn = "Next"
      BY <1>3, <1>6 DEF ShapeInv, CalledIn
    <2>2. \A k \in 1..H : hooked[k].on <=> SwitchedOn("gin")
      BY <1>3, <2>1, HookKeys DEF ContextInv, OnFor
    <2>3. H \in 1..H
      BY <1>1
    <2>4. gin.reports = 0 /\ gin \in [depth : Int, errors : BOOLEAN, reports : Nat]
      BY <1>3, <1>4, <1>6 DEF ResultInv, BalanceInv, ClientTypeInv
    <2>5. gin' = LeaveNext(Caller, failed)
      BY <1>1, <1>4, <2>1, <2>3
    <2>6. CASE SwitchedOn("gin")
      <3>1. EnteredNext(hooked) = 1..H
        <4>1. DOMAIN hooked = 1..H
          BY <1>3, LenProperties DEF BalanceInv, ClientTypeInv
        <4> QED BY <2>1, <2>2, <2>6, <4>1 DEF EnteredNext
      <3>2. Cardinality(1..H) = H
        <4>1. \A n \in Nat \ {0} : Cardinality(1..n) = n
          <5> TAKE n \in Nat \ {0}
          <5>1. Cardinality(1..n) = IF 1 > n THEN 0 ELSE n - 1 + 1
            BY FS_Interval
          <5> QED BY <5>1
        <4> QED BY <1>1, <4>1
      <3>3. gin.depth = H
        BY <1>3, <3>1, <3>2 DEF BalanceInv, DepthInv
      <3>4. Caller.on
        BY <1>1, <2>2, <2>3, <2>6
      <3>5. /\ gin'.errors = (gin.errors \/ failed)
            /\ gin'.reports = gin.reports + IF H - 1 <= 0 /\ (gin.errors \/ failed) THEN 1 ELSE 0
        <4> HIDE DEF H
        <4> QED BY <2>5, <3>3, <3>4 DEF LeaveNext
      <3>6. H - 1 <= 0 <=> hooked' = <<>>
        BY <1>1, <1>5
      <3> HIDE DEF H
      <3>7. gin'.errors <=> gin.errors \/ failed
        BY <3>5
      <3> QED BY <2>4, <2>6, <3>5, <3>6, <3>7
    <2>7. CASE ~SwitchedOn("gin")
      <3>1. ~Caller.on
        BY <1>1, <2>2, <2>3, <2>7
      <3>2. gin'.reports = gin.reports
        BY <2>4, <2>5, <3>1 DEF LeaveNext
      <3> QED BY <2>4, <2>7, <3>2
    <2> QED BY <2>6, <2>7
  <1>7. First' = "Next" =>
          gin'.reports = IF hooked' = <<>> /\ SwitchedOn("gin")' /\ gin'.errors THEN 1 ELSE 0
    BY <1>2, <1>6
  <1>8. First' \in {"DialContext", "NewClient", "NewServer"} =>
          connection'.handlers = IF SwitchedOn("grpc")' THEN 1 ELSE 0
    BY <1>1, <1>2, <1>3 DEF ResultInv
  <1> QED BY <1>7, <1>8 DEF ResultInv

LEMMA OperationKeeps == OperationInv /\ [ClientNext]_clientVars => OperationInv'
  <1> SUFFICES ASSUME OperationInv, [ClientNext]_clientVars PROVE OperationInv'
    OBVIOUS
  <1>1. ConnInv'
    BY ConnectionKept DEF OperationInv
  <1>2. BalanceInv
    BY DEF OperationInv
  <1>3. ASSUME NEW f \in DOMAIN Hooks, Call(f)
        PROVE  OperationInv'
    <2>1. BalanceInv'
      BY <1>2, <1>3, CallKeeps
    <2>2. operation'.steady => SteadyInv'
      BY <1>3, CallShapeKept, CallContextKept, CallCountKept, CallParentKept, CallResultKept
         DEF SteadyInv
    <2> QED BY <1>1, <2>1, <2>2 DEF OperationInv
  <1>4. ASSUME NEW failed \in BOOLEAN, NEW carried \in BOOLEAN, Return(failed, carried)
        PROVE  OperationInv'
    <2>1. BalanceInv'
      BY <1>2, <1>4, ReturnKeeps
    <2>2. operation' = operation
      BY <1>4, ReturnMoves
    <2>3. operation.steady => SteadyInv'
      BY <1>4, ReturnShapeKept, ReturnCountKept, ReturnResultKept DEF SteadyInv
    <2> QED BY <1>1, <2>1, <2>2, <2>3 DEF OperationInv
  <1>5. CASE Setenv
    <2>1. BalanceInv'
      BY <1>2, <1>5, SetenvKeeps
    <2>2. ~operation'.steady
      <3>1. operation \in [made : Seq(DOMAIN Hooks), steady : BOOLEAN]
        BY <1>2 DEF BalanceInv, ClientTypeInv
      <3>2. operation' = [operation EXCEPT !.steady = FALSE]
        BY <1>5 DEF Setenv
      <3> QED BY <3>1, <3>2
    <2> QED BY <1>1, <2>1, <2>2 DEF OperationInv
  <1>6. CASE UNCHANGED clientVars
    <2>1. BalanceInv'
      BY <1>2, <1>6, SetenvKeeps
    <2>2. /\ env' = env /\ hooked' = hooked /\ clientSpans' = clientSpans
          /\ connection' = connection /\ gin' = gin /\ operation' = operation
      BY <1>6 DEF clientVars
    <2>3. operation.steady => SteadyInv'
      <3> SUFFICES ASSUME operation.steady PROVE SteadyInv'
        OBVIOUS
      <3>1. ShapeInv /\ ContextInv /\ CountInv /\ ParentInv /\ ResultInv
        BY DEF OperationInv, SteadyInv
      <3>2. ShapeInv'
        BY <2>2, <3>1 DEF ShapeInv, First
      <3>3. ContextInv'
        BY <2>2, <3>1 DEF ContextInv, OnFor, First, FirstOn, SwitchedOn
      <3>4. CountInv'
        <4>1. \A g : (Counts(g)' <=> Counts(g)) /\ MadeOf(g)' = MadeOf(g)
          BY <2>2, SwitchesStay
        <4>2. \A g : SpansBy(g)' = SpansBy(g) /\ StillLate(g)' = StillLate(g)
          BY <2>2 DEF SpansBy, StillLate
        <4> HIDE DEF SpansBy, StillLate, MadeOf, Counts
        <4> QED BY <3>1, <4>1, <4>2 DEF CountInv
      <3>5. ParentInv'
        BY <2>2, <3>1 DEF ParentInv, First, FirstOn, SwitchedOn
      <3>6. ResultInv'
        BY <2>2, <3>1 DEF ResultInv, First, SwitchedOn
      <3> QED BY <3>2, <3>3, <3>4, <3>5, <3>6 DEF SteadyInv
    <2> QED BY <1>1, <2>1, <2>2, <2>3 DEF OperationInv
  <1> QED BY <1>3, <1>4, <1>5, <1>6 DEF ClientNext

\* The first call of an operation decides what those below it do: every reachable
\* state has the context, the spans and the parents it says.
THEOREM OperationInvariant == ClientSpec => []OperationInv
  BY OperationStarts, OperationKeeps, PTL DEF ClientSpec

\* While the environment stays as it is, an operation that is switched on gives one
\* span, whatever the hooked functions it calls do, for any number of nested calls.
THEOREM OneSpanPerOperationHolds == ClientSpec => []OneSpanPerOperation
  <1>1. OperationInv => OneSpanPerOperation
    <2> SUFFICES ASSUME OperationInv, hooked = <<>>, operation.steady
                 PROVE  LET mine == DOMAIN clientSpans \ {1}
                            made == operation.made
                        IN /\ \A f \in DOMAIN Hooks :
                                Cardinality({i \in mine : clientSpans[i].by = f})
                                  = IF Counts(f) THEN Cardinality({k \in DOMAIN made : made[k] = f}) ELSE 0
                           /\ \A i \in mine : clientSpans[i].by # made[1] =>
                                clientSpans[i].parent \in IF SwitchedOn(Hooks[made[1]].key) THEN mine ELSE {1}
                           /\ made[1] \in {"DialContext", "NewClient", "NewServer"} =>
                                connection.handlers = IF SwitchedOn("grpc") THEN 1 ELSE 0
                           /\ made[1] = "Next" =>
                                gin.reports = IF SwitchedOn("gin") /\ gin.errors THEN 1 ELSE 0
      BY DEF OneSpanPerOperation
    <2> DEFINE mine == DOMAIN clientSpans \ {1}
               made == operation.made
    <2>1. CountInv /\ ParentInv /\ ResultInv
      BY DEF OperationInv, SteadyInv
    <2>2. /\ clientSpans \in Seq(ClientSpanRecord) /\ Len(clientSpans) \in Nat
          /\ made \in Seq(DOMAIN Hooks)
      BY DEF OperationInv, BalanceInv, ClientTypeInv
    <2>3. mine = 2..Len(clientSpans) /\ DOMAIN made = 1..Len(made)
      BY <2>2, LenProperties
    <2>4. ASSUME NEW f \in DOMAIN Hooks
          PROVE  Cardinality({i \in mine : clientSpans[i].by = f})
                   = IF Counts(f) THEN Cardinality({k \in DOMAIN made : made[k] = f}) ELSE 0
      <3>1. SpansBy(f) = {i \in mine : clientSpans[i].by = f}
        BY <2>3 DEF SpansBy
      <3>2. MadeOf(f) = {k \in DOMAIN made : made[k] = f}
        BY <2>3 DEF MadeOf
      <3>3. Cardinality(StillLate(f)) = 0
        <4>1. StillLate(f) = {}
          BY DEF StillLate
        <4> QED BY <4>1, FS_EmptySet
      <3>4. Cardinality(SpansBy(f)) \in Nat /\ Cardinality(MadeOf(f)) \in Nat
        BY CountsAreFinite
      <3>5. Cardinality(SpansBy(f)) + Cardinality(StillLate(f))
              = IF Counts(f) THEN Cardinality(MadeOf(f)) ELSE 0
        BY <2>1 DEF CountInv
      <3>6. Cardinality(SpansBy(f)) = IF Counts(f) THEN Cardinality(MadeOf(f)) ELSE 0
        BY <3>3, <3>4, <3>5
      <3> QED BY <3>1, <3>2, <3>6
    <2>5. \A i \in mine : clientSpans[i].by # made[1] =>
            clientSpans[i].parent \in IF SwitchedOn(Hooks[made[1]].key) THEN mine ELSE {1}
      BY <2>1, <2>3 DEF ParentInv, First, FirstOn
    <2>6. /\ made[1] \in {"DialContext", "NewClient", "NewServer"} =>
               connection.handlers = IF SwitchedOn("grpc") THEN 1 ELSE 0
          /\ made[1] = "Next" => gin.reports = IF SwitchedOn("gin") /\ gin.errors THEN 1 ELSE 0
      BY <2>1 DEF ResultInv, First
    <2> QED BY <2>4, <2>5, <2>6
  <1> QED BY OperationInvariant, <1>1, PTL

=============================================================================
