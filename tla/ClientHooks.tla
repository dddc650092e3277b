---------------------------- MODULE ClientHooks ----------------------------
(***************************************************************************)
(* The hooks of client and server libraries: OpenSearch, Elasticsearch,    *)
(* Stripe, linodego, client-go, go-redis, kafka-go readers, gRPC and gin,  *)
(* over those of net/http.                                                 *)
(*                                                                         *)
(* A hooked function calls other hooked functions below it.  Each asks     *)
(* Instrumented, with the configuration it caches, whether it is switched  *)
(* on; the program may set the environment at any moment.  Hooks gives for *)
(* each function what its Before and After hooks do:                       *)
(*   key        its name in the environment                                *)
(*   span       where its span starts: "before" its body, "after" it, or   *)
(*              "none"                                                     *)
(*   root       the span has no parent, or one in another process          *)
(*   suppresses the context it hands on silences net/http's client hook    *)
(*   rechecks   the After hook asks again                                  *)
(*   callees    the hooked functions its body may call                     *)
(***************************************************************************)
EXTENDS Integers, Sequences, FiniteSets

CONSTANTS
  Switches,        \* environments: [sdkDisabled, enabled, disabled]
  MaxClientCalls   \* bounds the hooked calls of an operation

VARIABLES
  env,             \* the environment variables
  configCache,     \* instConfigCache: the environment it was built from
  hooked,          \* the hooked functions in progress, outermost first
  clientSpans,     \* the caller's span and those of the operation
  connection,      \* the options of the latest gRPC connection or server
  gin,             \* the request gin serves
  operation        \* the calls the application's operation has made: [made, steady]

clientVars == <<env, configCache, hooked, clientSpans, connection, gin, operation>>

Spanning(key, callees) ==
  [key |-> key, span |-> "before", root |-> FALSE, suppresses |-> FALSE,
   rechecks |-> FALSE, callees |-> callees]

OpenSearch == [Spanning("opensearch", {"RoundTrip"}) EXCEPT !.suppresses = TRUE]
Elastic == [Spanning("elastic", {"RoundTrip"}) EXCEPT !.suppresses = TRUE]
\* Each attempt of Stripe's retries has a span of its own.
Stripe == Spanning("stripe", {"RoundTrip"})
PublicMethod == [Spanning("linodego", {"DoRequest"}) EXCEPT !.rechecks = TRUE]
DoRequest == [Spanning("linodego", {"RoundTrip"}) EXCEPT !.rechecks = TRUE]
Deltas == [Spanning("k8s_client_go", {"Event"}) EXCEPT !.rechecks = TRUE, !.root = TRUE]
Event == Spanning("k8s_client_go", {})
Redis == Spanning("redis", {})
ReadMessage == [Spanning("kafka", {"FetchMessage"}) EXCEPT !.span = "after"]
FetchMessage == [Spanning("kafka", {}) EXCEPT !.span = "after"]
DialContext == [Spanning("grpc", {"NewClient"}) EXCEPT !.span = "none"]
NewClient == [Spanning("grpc", {}) EXCEPT !.span = "none"]
RPC == Spanning("grpc", {})
NewServer == [Spanning("grpc", {}) EXCEPT !.span = "none"]
Served == [Spanning("grpc", {}) EXCEPT !.root = TRUE]
GinNext == [Spanning("gin", {"Next"}) EXCEPT !.span = "none"]

Hooks ==
  [OpenSearch |-> OpenSearch, Elastic |-> Elastic, Stripe |-> Stripe,
   PublicMethod |-> PublicMethod, DoRequest |-> DoRequest, Deltas |-> Deltas,
   Event |-> Event, Redis |-> Redis, ReadMessage |-> ReadMessage,
   FetchMessage |-> FetchMessage, DialContext |-> DialContext, NewClient |-> NewClient,
   RPC |-> RPC, Export |-> RPC, NewServer |-> NewServer, Served |-> Served,
   Next |-> GinNext,
   RoundTrip |-> Spanning("nethttp", {})]

\* What an application calls; the others are called by these.
Operations == DOMAIN Hooks \ {"RoundTrip", "DoRequest", "Event"}

Background == [span |-> 1, suppressed |-> FALSE, fetching |-> FALSE]
NoOptions == [of |-> "client", injected |-> FALSE, handlers |-> 0]
NoRequest == [depth |-> 0, errors |-> FALSE, reports |-> 0]

ClientInit ==
  /\ env \in Switches /\ configCache = [sdkDisabled |-> FALSE, enabled |-> {}, disabled |-> {}]
  /\ hooked = <<>>
  /\ clientSpans = <<[by |-> "caller", parent |-> 0, open |-> TRUE]>>
  /\ connection = NoOptions
  /\ gin = NoRequest
  /\ operation = [made |-> <<>>, steady |-> FALSE]
-----------------------------------------------------------------------------
(* The switch                                                              *)

\* Mutant: a cache is kept as long as the list of enabled names is the same.
CachedByEnabled == IF configCache.enabled = env.enabled THEN configCache ELSE env

\* The cache as Instrumented leaves it.
Cached == IF configCache = env THEN configCache ELSE env

Instrumented(key) ==
  /\ ~Cached.sdkDisabled
  /\ Cached.enabled # {} => key \in Cached.enabled
  /\ key \notin Cached.disabled

Setenv ==
  /\ env' \in Switches \ {env}
  /\ operation' = [operation EXCEPT !.steady = FALSE]
  /\ UNCHANGED <<configCache, hooked, clientSpans, connection, gin>>
-----------------------------------------------------------------------------
(* Before                                                                  *)

Caller == hooked[Len(hooked)]

\* Mutant: FetchMessage does not know that ReadMessage calls it.
OptsTwice(f, ctx) ==
  CASE f = "RoundTrip" -> ~ctx.suppressed
    [] f = "RPC"       -> connection.of = "client" /\ connection.handlers > 0
    [] f = "Served"    -> connection.of = "server" /\ connection.handlers > 0
    [] f = "Export"    -> FALSE
    [] OTHER           -> TRUE

\* Whether the call is one the hook instruments: not a RoundTrip below a client
\* that has a span, not the FetchMessage of ReadMessage, not an RPC without a stats
\* handler or to a collector.  Export is an RPC of an OTLP exporter, at either end.
Opts(f, ctx) ==
  CASE f = "RoundTrip"    -> ~ctx.suppressed
    [] f = "FetchMessage" -> ~ctx.fetching
    [] f = "RPC"          -> connection.of = "client" /\ connection.handlers > 0
    [] f = "Served"       -> connection.of = "server" /\ connection.handlers > 0
    [] f = "Export"       -> FALSE
    [] OTHER              -> TRUE

\* The wrapper of the event handler and the stats handler do not ask.
Asks(f) == f \notin {"Event", "RPC", "Export", "Served"}

\* An event is instrumented when its handler was wrapped.
Takes(f, ctx) ==
  /\ Opts(f, ctx)
  /\ Asks(f) => Instrumented(Hooks[f].key)
  /\ f = "Event" => Caller.on

\* The spans of a call: one per stats handler for an RPC.
Started(f) == IF f \in {"RPC", "Served"} THEN connection.handlers ELSE 1

\* Mutant: the marker of an earlier injection is not looked for.
InjectAlways(opts) ==
  [of |-> "client", injected |-> TRUE, handlers |-> opts.handlers + 1]

\* withClientStatsHandler
WithClientStatsHandler(opts) ==
  IF opts.injected THEN opts
  ELSE [of |-> "client", injected |-> TRUE, handlers |-> opts.handlers + 1]

\* The options a gRPC connection or server is made with.
Connected(f, opts, on) ==
  CASE f \in {"DialContext", "NewClient"} /\ on -> WithClientStatsHandler(opts)
    [] f = "NewServer" /\ on -> [of |-> "server", injected |-> FALSE, handlers |-> 1]
    [] f \in {"DialContext", "NewClient", "NewServer"} /\ ~on -> opts
    [] OTHER -> connection

\* An operation begins, or a hooked function calls another.
MayCall(f) ==
  IF hooked = <<>> THEN f \in Operations
  ELSE Len(operation.made) < MaxClientCalls /\ f \in Hooks[Caller.fn].callees

Call(f) ==
  LET outermost == hooked = <<>>
      ctx  == IF outermost THEN Background ELSE Caller.ctx
      row  == Hooks[f]
      on   == Takes(f, ctx)
      held == IF outermost THEN SubSeq(clientSpans, 1, 1) ELSE clientSpans
      n    == IF on /\ row.span = "before" THEN Started(f) ELSE 0
      new  == [by |-> f, parent |-> IF row.root THEN 0 ELSE ctx.span, open |-> TRUE]
      data == [i \in 1..n |-> Len(held) + i]
      opts == IF outermost THEN NoOptions ELSE connection
  IN /\ MayCall(f)
     /\ configCache' = IF Asks(f) THEN Cached ELSE configCache
     /\ clientSpans' = held \o [i \in 1..n |-> new]
     /\ hooked' = Append(hooked,
          [fn |-> f, on |-> on, data |-> data,
           ctx |-> [span |-> IF n > 0 THEN Len(held) + n ELSE ctx.span,
                    suppressed |-> ctx.suppressed \/ (on /\ row.suppresses),
                    fetching |-> ctx.fetching \/ (on /\ f = "ReadMessage")]])
     /\ connection' = Connected(f, opts, on)
     /\ gin' = LET request == IF outermost THEN NoRequest ELSE gin
               IN IF f = "Next" /\ on THEN [request EXCEPT !.depth = @ + 1] ELSE request
     /\ operation' = IF outermost THEN [made |-> <<f>>, steady |-> TRUE]
                      ELSE [operation EXCEPT !.made = Append(@, f)]
     /\ UNCHANGED env
-----------------------------------------------------------------------------
(* After                                                                   *)

\* Mutant: every After hook asks again.
AskAgain(f) == Asks(f) /\ f # "Next"

\* The After hooks of linodego and of client-go.
AsksAgain(f) == Hooks[f].rechecks

\* The spans a call that returns leaves.
Ended(call) ==
  [i \in DOMAIN clientSpans |->
     IF \E k \in DOMAIN call.data : call.data[k] = i
     THEN [clientSpans[i] EXCEPT !.open = FALSE] ELSE clientSpans[i]]

\* A span that starts when the call is over, a child of the producer's, or of the
\* reader's own when the headers of the message carry no trace context.
Late(call, carried) ==
  IF call.on /\ Hooks[call.fn].span = "after"
  THEN <<[by |-> call.fn, parent |-> IF carried THEN 0 ELSE call.ctx.span, open |-> FALSE]>>
  ELSE <<>>

\* AfterNext: only the outermost Next reports the errors of the request.
LeaveNext(call, failed) ==
  LET errors == gin.errors \/ failed
      depth  == gin.depth - 1
  IN IF ~call.on THEN [gin EXCEPT !.errors = errors]
     ELSE [depth |-> depth, errors |-> errors,
           reports |-> gin.reports + IF depth <= 0 /\ errors THEN 1 ELSE 0]

\* carried: the headers of a message that was read carry a trace context.
Return(failed, carried) ==
  LET call == Caller
      runs == AsksAgain(call.fn) => Instrumented(Hooks[call.fn].key)
  IN /\ hooked # <<>>
     /\ failed => call.fn = "Next"
     /\ carried => call.on /\ Hooks[call.fn].span = "after"
     /\ hooked' = SubSeq(hooked, 1, Len(hooked) - 1)
     /\ configCache' = IF AsksAgain(call.fn) THEN Cached ELSE configCache
     /\ clientSpans' = IF runs THEN Ended(call) \o Late(call, carried) ELSE clientSpans
     /\ gin' = IF call.fn = "Next" THEN LeaveNext(call, failed) ELSE gin
     /\ UNCHANGED <<env, connection, operation>>

ClientNext ==
  \/ Setenv
  \/ \E f \in DOMAIN Hooks : Call(f)
  \/ \E failed, carried \in BOOLEAN : Return(failed, carried)

ClientSpec == ClientInit /\ [][ClientNext]_clientVars
-----------------------------------------------------------------------------
\* A span is open exactly while its call is in progress, whatever happens to the
\* switch meanwhile (those of After hooks that ask again may stay open); nobody
\* ends the caller's; and gin counts the calls of Next it has entered.
HooksStayBalanced ==
  LET held == {1} \cup UNION {{hooked[k].data[i] : i \in DOMAIN hooked[k].data} :
                               k \in DOMAIN hooked}
  IN /\ \A i \in DOMAIN clientSpans :
          /\ i \in held => clientSpans[i].open
          /\ clientSpans[i].open /\ i \notin held => Hooks[clientSpans[i].by].rechecks
     /\ gin.depth = Cardinality({k \in DOMAIN hooked : hooked[k].fn = "Next" /\ hooked[k].on})

\* The documented meaning of the three variables.
SwitchedOn(key) ==
  ~env.sdkDisabled /\ (env.enabled # {} => key \in env.enabled) /\ key \notin env.disabled

\* Whether a call of f below the operation has a span of its own.
Counts(f) ==
  LET first == operation.made[1]
  IN CASE f = "RoundTrip" -> /\ SwitchedOn("nethttp")
                             /\ ~(Hooks[first].suppresses /\ SwitchedOn(Hooks[first].key))
       [] f \in {"Export", "DialContext", "NewClient", "NewServer", "Next"} -> FALSE
       [] f = "FetchMessage" -> first = "FetchMessage" /\ SwitchedOn("kafka")
       [] f = "RPC" -> connection.of = "client" /\ connection.handlers > 0
       [] f = "Served" -> connection.of = "server" /\ connection.handlers > 0
       [] OTHER -> SwitchedOn(Hooks[f].key)

\* While the environment stays as it is, an operation that is switched on gives one
\* span, one that is not none: a call made below it does not repeat it (FetchMessage,
\* NewClient, net/http below a client that has its own), an attempt or an event
\* joins its trace, and errors of a request are reported once.
OneSpanPerOperation ==
  (hooked = <<>> /\ operation.steady) =>
    LET mine == DOMAIN clientSpans \ {1}
        made == operation.made
    IN /\ \A f \in DOMAIN Hooks :
            Cardinality({i \in mine : clientSpans[i].by = f})
              = IF Counts(f) THEN Cardinality({k \in DOMAIN made : made[k] = f}) ELSE 0
       /\ \A i \in mine : clientSpans[i].by # made[1] =>
            clientSpans[i].parent \in IF SwitchedOn(Hooks[made[1]].key) THEN mine ELSE {1}
       /\ made[1] \in {"DialContext", "NewClient", "NewServer"} =>
            connection.handlers = IF SwitchedOn("grpc") THEN 1 ELSE 0
       /\ made[1] = "Next" =>
            gin.reports = IF SwitchedOn("gin") /\ gin.errors THEN 1 ELSE 0
=============================================================================
