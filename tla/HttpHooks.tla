----------------------------- MODULE HttpHooks -----------------------------
(***************************************************************************)
(* instrumentation/net/http: the hooks of Transport.RoundTrip and of       *)
(* serverHandler.ServeHTTP, and the writer that stands between a handler   *)
(* and the response.                                                       *)
(*                                                                         *)
(* Goroutines send requests of three kinds: the application's, those below *)
(* an instrumentation that has a span of its own, and the exporter's.      *)
(* Requests may share one map of headers.  The server is instrumented too. *)
(***************************************************************************)
EXTENDS Integers, Sequences, FiniteSets

CONSTANTS
  Clients,         \* goroutines that send requests
  Codes,           \* status codes of handlers
  WriterCalls,     \* the calls a handler makes on its ResponseWriter
  MaxHttpSpans     \* bounds the spans

ASSUME HttpAssumption ==
  /\ Codes \subseteq 100..999
  /\ WriterCalls \subseteq {"WriteHeader", "Write", "Flush", "Hijack"}

VARIABLES
  trips,           \* the RoundTrip of each goroutine
  sharedHeader,    \* the traceparent in the headers requests share, 0: none
  httpSpans        \* spans started so far: [kind, parent, code, failed, open]

httpVars == <<trips, sharedHeader, httpSpans>>

Kinds == {"application", "nested", "export"}

\* wrapper is the writerWrapper.  sent is the status the client is given, -1:
\* none yet; early: Flush or Hijack gave it.
NoTrip ==
  [stage |-> "idle", kind |-> "application", span |-> 0, header |-> "own", traceparent |-> 0,
   serving |-> 0, wrapper |-> [statusCode |-> 200, wroteHeader |-> FALSE], sent |-> -1,
   early |-> FALSE, code |-> 0]

NewSpan(kind, parent) ==
  [kind |-> kind, parent |-> parent, code |-> 0, failed |-> FALSE, open |-> TRUE]

HttpInit ==
  /\ trips = [c \in Clients |-> NoTrip]
  /\ sharedHeader = 0 /\ httpSpans = <<>>
-----------------------------------------------------------------------------
(* The client                                                              *)

\* Mutant: only a prefix the exporter no longer sends is looked for.
AllInstrumented(kind) == kind # "nested"

\* BeforeRoundTrip: the context says suppressed, or the User-Agent is an
\* exporter's.
Instruments(kind) == kind \notin {"nested", "export"}

\* Mutant: WithContext copies the request, the map is still the caller's.
SharesMap(header) == header

\* The map the trace context is injected into: a clone.
OutgoingHeader(header) == "own"

BeforeRoundTrip(c) ==
  /\ trips[c].stage = "idle" /\ Len(httpSpans) + 1 < MaxHttpSpans
  /\ \E kind \in Kinds, header \in {"own", "shared"} :
       IF Instruments(kind)
       THEN LET new == Len(httpSpans) + 1
                to == OutgoingHeader(header)
            IN /\ httpSpans' = Append(httpSpans, NewSpan("client", 0))
               /\ trips' = [trips EXCEPT ![c] =
                    [NoTrip EXCEPT !.stage = "sending", !.kind = kind, !.span = new, !.header = to,
                                   !.traceparent = IF to = "own" THEN new ELSE 0]]
               /\ sharedHeader' = IF to = "shared" THEN new ELSE sharedHeader
       ELSE /\ trips' = [trips EXCEPT ![c] =
                 [NoTrip EXCEPT !.stage = "sending", !.kind = kind, !.header = header]]
            /\ UNCHANGED <<sharedHeader, httpSpans>>

\* The transport writes the headers of the request, or the request fails.
TransportFails(c) ==
  /\ trips[c].stage = "sending"
  /\ trips' = [trips EXCEPT ![c].stage = "returned", ![c].code = -1]
  /\ UNCHANGED <<sharedHeader, httpSpans>>

\* HTTPClientStatus; an error fails the span, too.
AfterRoundTrip(c) ==
  /\ trips[c].stage = "returned"
  /\ trips' = [trips EXCEPT ![c] = NoTrip]
  /\ IF trips[c].span = 0 THEN UNCHANGED httpSpans
     ELSE httpSpans' = [httpSpans EXCEPT ![trips[c].span] =
            [@ EXCEPT !.open = FALSE, !.code = trips[c].code,
                      !.failed = trips[c].code >= 400 \/ trips[c].code < 100]]
  /\ UNCHANGED sharedHeader
-----------------------------------------------------------------------------
(* The server                                                              *)

\* BeforeServeHTTP: the parent is what is extracted from the headers.
BeforeServeHTTP(c) ==
  /\ trips[c].stage = "sending" /\ Len(httpSpans) < MaxHttpSpans
  /\ LET parent == IF trips[c].header = "shared" THEN sharedHeader ELSE trips[c].traceparent
     IN httpSpans' = Append(httpSpans, NewSpan("server", parent))
  /\ trips' = [trips EXCEPT ![c].stage = "serving", ![c].serving = Len(httpSpans) + 1]
  /\ UNCHANGED sharedHeader

Informational(code) == code \in 100..199 /\ code # 101

\* What net/http does with a WriteHeader: informational responses go out and
\* are not the response, the first other one is, later ones are ignored.
Sent(sent, code) == IF sent = -1 /\ ~Informational(code) THEN code ELSE sent

\* Mutant: an informational response is taken for the response.
WriteAnyHeader(trip, code) ==
  IF trip.wrapper.wroteHeader THEN trip
  ELSE [trip EXCEPT !.sent = Sent(@, code), !.wrapper = [statusCode |-> code, wroteHeader |-> TRUE]]

\* writerWrapper.WriteHeader
WriteHeader(trip, code) ==
  IF trip.wrapper.wroteHeader THEN trip
  ELSE IF Informational(code) THEN [trip EXCEPT !.sent = Sent(@, code)]
  ELSE [trip EXCEPT !.sent = Sent(@, code), !.wrapper = [statusCode |-> code, wroteHeader |-> TRUE]]

CallWriteHeader(c) ==
  /\ trips[c].stage = "serving" /\ "WriteHeader" \in WriterCalls
  /\ \E code \in Codes : trips' = [trips EXCEPT ![c] = WriteHeader(@, code)]
  /\ UNCHANGED <<sharedHeader, httpSpans>>

\* Write, WriteString and ReadFrom, with or without a fast path below.
CallWrite(c) ==
  /\ trips[c].stage = "serving" /\ "Write" \in WriterCalls
  /\ trips' = [trips EXCEPT ![c] = WriteHeader(@, 200)]
  /\ UNCHANGED <<sharedHeader, httpSpans>>

\* Flush goes to the writer below, which sends a header if none was; a handler
\* that hijacks the connection answers for itself, with 101 as a rule.  The
\* wrapper is told of neither.
CallFlush(c) ==
  /\ trips[c].stage = "serving" /\ "Flush" \in WriterCalls
  /\ trips' = [trips EXCEPT ![c].sent = Sent(@, 200), ![c].early = @ \/ trips[c].sent = -1]
  /\ UNCHANGED <<sharedHeader, httpSpans>>

CallHijack(c) ==
  /\ trips[c].stage = "serving" /\ "Hijack" \in WriterCalls /\ trips[c].sent = -1
  /\ trips' = [trips EXCEPT ![c].sent = 101, ![c].early = TRUE]
  /\ UNCHANGED <<sharedHeader, httpSpans>>

\* What the client has of the response when the handler has ended.  After a panic
\* net/http closes the connection: what was flushed has gone out, and of what the
\* handler only wrote the buffer may have kept all.
Received(trip, panics) ==
  IF ~panics THEN {Sent(trip.sent, 200)}
  ELSE IF trip.early THEN {trip.sent} ELSE {trip.sent, -1}

\* HTTPServerStatus.  A handler that panicked is hooked like one that returned.
AfterServeHTTP(c) ==
  /\ trips[c].stage = "serving"
  /\ \E panics \in BOOLEAN : \E sent \in Received(trips[c], panics) :
       LET code == trips[c].wrapper.statusCode
       IN /\ httpSpans' = [httpSpans EXCEPT ![trips[c].serving] =
                [@ EXCEPT !.open = FALSE, !.code = code, !.failed = code < 100 \/ code >= 500]]
          /\ trips' = [trips EXCEPT ![c].stage = "returned", ![c].code = sent, ![c].sent = sent]
  /\ UNCHANGED sharedHeader

HttpNext ==
  \E c \in Clients :
    \/ BeforeRoundTrip(c) \/ TransportFails(c) \/ AfterRoundTrip(c)
    \/ BeforeServeHTTP(c) \/ CallWriteHeader(c) \/ CallWrite(c) \/ CallFlush(c) \/ CallHijack(c)
    \/ AfterServeHTTP(c)

HttpSpec == HttpInit /\ [][HttpNext]_httpVars
-----------------------------------------------------------------------------
(* Properties                                                              *)

\* The requests of the application, and no others, have a client span, and the
\* span of their server is a child of it, whatever requests share a header map:
\* the exporter's own requests make no spans to export.
TraceContinues ==
  \A c \in Clients :
    /\ trips[c].stage # "idle" => (trips[c].span # 0) = (trips[c].kind = "application")
    /\ trips[c].serving # 0 => httpSpans[trips[c].serving].parent = trips[c].span

\* The span of a handler that is done has the code the client was given.
HandlerStatus(c) ==
  trips[c].stage = "returned" /\ trips[c].serving # 0 /\ trips[c].sent # -1 =>
    httpSpans[trips[c].serving].code = trips[c].sent

\* Whatever calls a handler makes, in whatever order: its span has the code the
\* client was given, unless Flush or Hijack gave it, or a panic none.  A span is
\* open exactly while its RoundTrip, or its handler, is in progress.
HttpSpansTell ==
  /\ \A c \in Clients : ~trips[c].early => HandlerStatus(c)
  /\ \A i \in 1..Len(httpSpans) :
       httpSpans[i].open <=>
         \E c \in Clients : \/ trips[c].span = i
                            \/ trips[c].serving = i /\ trips[c].stage = "serving"
=============================================================================
