---------------------------- MODULE SpanTracker ----------------------------
(***************************************************************************)
(* instrumentation/go.opentelemetry.io/otel/sdk/trace: the goroutine-local *)
(* stack of spans that stands in for a missing context.Context.            *)
(*                                                                         *)
(* Every goroutine has a stack of its own, which only it reads and writes; *)
(* a new goroutine starts with a clone that holds its creator's current    *)
(* span (runtime.newproc1).  What the stacks share is one ended flag per   *)
(* span, and the bounded map of the flags of spans in flight, under a      *)
(* mutex.  A span is started once and may be ended by any goroutine, more  *)
(* than once.                                                              *)
(***************************************************************************)
EXTENDS Integers, SequencesExt

CONSTANTS
  Goroutines,
  Spans,
  NoSpan,
  MaxSpans,     \* OTEL_GLS_MAX_SPANS, 1000 by default
  MaxStates     \* OTEL_GLS_MAX_SPAN_STATES, 100000 by default

ASSUME SpanTrackerAssumption ==
  /\ NoSpan \notin Spans
  /\ MaxSpans \in Nat \ {0} /\ MaxStates \in Nat \ {0}

VARIABLES
  running,      \* the goroutines that exist
  stack,        \* traceContext.sw of each goroutine, the newest span first
  held,         \* traceContext.n
  lcs,          \* traceContext.lcs
  adding,       \* the span that add is making room for, or NoSpan
  scan,         \* where its compact has got to in the stack
  states,       \* the keys of spanStates.states
  order,        \* spanStates.order, the oldest span first
  ended,        \* the ended flag of each span
  life,         \* history: what the application has done with each span
  before,       \* history: the spans that had ended when compact began
  overflow      \* history: more than MaxStates spans were in flight at once

shared == <<states, order, ended>>
vars == <<running, stack, held, lcs, adding, scan, states, order, ended,
          life, before, overflow>>

TypeOK ==
  /\ running \subseteq Goroutines
  /\ stack \in [Goroutines -> Seq(Spans)]
  /\ held \in [Goroutines -> 0..MaxSpans]
  /\ lcs \in [Goroutines -> Spans \cup {NoSpan}]
  /\ adding \in [Goroutines -> Spans \cup {NoSpan}]
  /\ scan \in [Goroutines -> Nat]
  /\ states \subseteq Spans
  /\ order \in Seq(Spans)
  /\ ended \in [Spans -> BOOLEAN]
  /\ life \in [Spans -> {"unborn", "live", "over"}]
  /\ before \in [Goroutines -> SUBSET Spans]
  /\ overflow \in BOOLEAN

Init ==
  /\ \E g \in Goroutines : running = {g}
  /\ stack = [g \in Goroutines |-> <<>>]
  /\ held = [g \in Goroutines |-> 0]
  /\ lcs = [g \in Goroutines |-> NoSpan]
  /\ adding = [g \in Goroutines |-> NoSpan]
  /\ scan = [g \in Goroutines |-> 0]
  /\ states = {} /\ order = <<>>
  /\ ended = [s \in Spans |-> FALSE]
  /\ life = [s \in Spans |-> "unborn"]
  /\ before = [g \in Goroutines |-> {}]
  /\ overflow = FALSE

Live == {s \in Spans : life[s] = "live"}
Over == {s \in Spans : life[s] = "over"}

\* g is in no traceContext method.
Ready(g) == g \in running /\ adding[g] = NoSpan

Bottom(sw) == IF sw = <<>> THEN NoSpan ELSE Last(sw)

-----------------------------------------------------------------------------
(* stateForSpan and evictOldestLocked, under spanStates.Mutex.             *)

EvictOldest == order # <<>> /\ Cardinality(states) >= MaxStates

Register(s) ==
  IF s \in states
    THEN UNCHANGED shared
    ELSE LET kept == IF EvictOldest THEN Tail(order) ELSE order
         IN  /\ order' = Append(kept, s)
             /\ states' = ToSet(kept) \cup {s}
             /\ ended' = IF EvictOldest THEN [ended EXCEPT ![Head(order)] = TRUE] ELSE ended

\* traceContext.add, once there is room for the span.
Push(g, s) ==
  /\ Register(s)
  /\ stack' = [stack EXCEPT ![g] = <<s>> \o @]
  /\ held' = [held EXCEPT ![g] = @ + 1]
  /\ lcs' = [lcs EXCEPT ![g] = IF held[g] = 0 THEN s ELSE @]

-----------------------------------------------------------------------------
(* newRecordingSpan, newNonRecordingSpan: the span exists, nobody but g has *)
(* it yet.                                                                  *)

Born(s) ==
  /\ life[s] = "unborn"
  /\ life' = [life EXCEPT ![s] = "live"]
  /\ overflow' = (overflow \/ Cardinality(Live \cup {s}) > MaxStates)

Start(g, s) ==
  /\ Ready(g)
  /\ held[g] < MaxSpans
  /\ Born(s)
  /\ Push(g, s)
  /\ UNCHANGED <<running, adding, scan, before>>

\* The stack is full: compact it, one flag after the other.
StartFull(g, s) ==
  /\ Ready(g)
  /\ held[g] >= MaxSpans
  /\ Born(s)
  /\ adding' = [adding EXCEPT ![g] = s]
  /\ scan' = [scan EXCEPT ![g] = 1]
  /\ before' = [before EXCEPT ![g] = Over]
  /\ UNCHANGED <<running, stack, held, lcs, shared>>

\* Mutant: compact stops at the first live span, as tail does.
CompactTopOnly(g) ==
  /\ adding[g] # NoSpan
  /\ scan[g] <= Len(stack[g])
  /\ IF ended[stack[g][scan[g]]]
       THEN /\ stack' = [stack EXCEPT ![g] = RemoveAt(@, scan[g])]
            /\ held' = [held EXCEPT ![g] = @ - 1]
            /\ UNCHANGED scan
       ELSE scan' = [scan EXCEPT ![g] = Len(stack[g]) + 1] /\ UNCHANGED <<stack, held>>
  /\ UNCHANGED <<running, lcs, adding, shared, life, before, overflow>>

Compact(g) ==
  /\ adding[g] # NoSpan
  /\ scan[g] <= Len(stack[g])
  /\ IF ended[stack[g][scan[g]]]
       THEN /\ stack' = [stack EXCEPT ![g] = RemoveAt(@, scan[g])]
            /\ held' = [held EXCEPT ![g] = @ - 1]
            /\ UNCHANGED scan
       ELSE scan' = [scan EXCEPT ![g] = @ + 1] /\ UNCHANGED <<stack, held>>
  /\ UNCHANGED <<running, lcs, adding, shared, life, before, overflow>>

Compacted(g) ==
  /\ adding[g] # NoSpan
  /\ scan[g] > Len(stack[g])
  /\ adding' = [adding EXCEPT ![g] = NoSpan]
  /\ scan' = [scan EXCEPT ![g] = 0]
  /\ before' = [before EXCEPT ![g] = {}]
  /\ UNCHANGED <<running, life, overflow>>

StartCompacted(g) ==
  /\ Compacted(g)
  /\ held[g] < MaxSpans
  /\ Register(adding[g])
  /\ stack' = [stack EXCEPT ![g] = <<adding[g]>> \o @]
  /\ held' = [held EXCEPT ![g] = @ + 1]
  /\ lcs' = [lcs EXCEPT ![g] = Bottom(stack'[g])]

\* Every span of the stack is live: the new one is not tracked.
Drop(g) ==
  /\ Compacted(g)
  /\ held[g] >= MaxSpans
  /\ lcs' = [lcs EXCEPT ![g] = Bottom(stack[g])]
  /\ UNCHANGED <<stack, held, shared>>

-----------------------------------------------------------------------------
(* tail, Clone, del, clear.                                                *)

\* The newest span of a stack that is not flagged.  The flags only ever rise,
\* so that the loop has the effect of its last read.
Newest(g) ==
  IF \E i \in 1..Len(stack[g]) : ~ended[stack[g][i]]
    THEN CHOOSE i \in 1..Len(stack[g]) :
           ~ended[stack[g][i]] /\ \A j \in 1..(i - 1) : ended[stack[g][j]]
    ELSE 0

\* What trace.SpanFromContext falls back to.
Current(g) == IF Newest(g) = 0 THEN NoSpan ELSE stack[g][Newest(g)]

PopEnded(g) ==
  LET i == Newest(g)
  IN  IF i = 0
        THEN <<>>
        ELSE SubSeq(stack[g], i, Len(stack[g]))

\* SpanFromContext, GetTraceAndSpanID, GetTraceContext.
Lookup(g) ==
  /\ Ready(g)
  /\ stack' = [stack EXCEPT ![g] = PopEnded(g)]
  /\ held' = [held EXCEPT ![g] = @ - (Len(stack[g]) - Len(PopEnded(g)))]
  /\ lcs' = [lcs EXCEPT ![g] = IF PopEnded(g) = <<>> THEN NoSpan ELSE @]
  /\ UNCHANGED <<running, adding, scan, shared, life, before, overflow>>

\* A go statement: the new goroutine gets a clone of the current span only.
Go(g, h) ==
  /\ Ready(g)
  /\ h \in Goroutines \ running
  /\ running' = running \cup {h}
  /\ LET top == Current(g)
         clone == IF top = NoSpan THEN <<>> ELSE <<top>>
     IN  /\ stack' = [stack EXCEPT ![g] = PopEnded(g), ![h] = clone]
         /\ held' = [held EXCEPT ![g] = @ - (Len(stack[g]) - Len(PopEnded(g))),
                           ![h] = Len(clone)]
         /\ lcs' = [lcs EXCEPT ![g] = IF top = NoSpan THEN NoSpan ELSE @, ![h] = NoSpan]
  /\ UNCHANGED <<adding, scan, shared, life, before, overflow>>

\* The goroutine returns; with the last one the program ends.
Exit(g) ==
  /\ Ready(g)
  /\ running # {g}
  /\ running' = running \ {g}
  /\ stack' = [stack EXCEPT ![g] = <<>>]
  /\ held' = [held EXCEPT ![g] = 0]
  /\ lcs' = [lcs EXCEPT ![g] = NoSpan]
  /\ UNCHANGED <<adding, scan, shared, life, before, overflow>>

\* Mutants of markSpanEnded: the flag is not raised; the span stays in the map.
MarkEndedQuietly(s) ==
  IF s \in states
    THEN states' = states \ {s} /\ order' = RemoveFirst(order, s) /\ UNCHANGED ended
    ELSE UNCHANGED shared

MarkEndedLeaks(s) ==
  /\ ended' = [ended EXCEPT ![s] = @ \/ s \in states]
  /\ UNCHANGED <<states, order>>

\* markSpanEnded, under spanStates.Mutex.
MarkEnded(s) ==
  IF s \in states
    THEN /\ states' = states \ {s}
         /\ order' = RemoveFirst(order, s)
         /\ ended' = [ended EXCEPT ![s] = TRUE]
    ELSE UNCHANGED shared

\* traceContext.del on the goroutine's own stack.  (The flag it sets is set by
\* then: a span on a stack was registered, and leaves the map flagged.)
Del(g, s) ==
  IF s \in ToSet(stack[g])
    THEN /\ stack' = [stack EXCEPT ![g] = RemoveFirst(@, s)]
         /\ held' = [held EXCEPT ![g] = @ - 1]
         /\ lcs' = [lcs EXCEPT ![g] = IF Last(stack[g]) = s THEN Bottom(stack'[g]) ELSE @]
    ELSE UNCHANGED <<stack, held, lcs>>

\* span.End(), on any goroutine that was given the span.
End(g, s) ==
  /\ Ready(g)
  /\ s \in Live \cup Over
  /\ \A h \in Goroutines : adding[h] # s
  /\ life' = [life EXCEPT ![s] = "over"]
  /\ MarkEnded(s)
  /\ Del(g, s)
  /\ UNCHANGED <<running, adding, scan, before, overflow>>

ClearTraceContext(g) ==
  /\ Ready(g)
  /\ stack' = [stack EXCEPT ![g] = <<>>]
  /\ held' = [held EXCEPT ![g] = 0]
  /\ lcs' = [lcs EXCEPT ![g] = NoSpan]
  /\ UNCHANGED <<running, adding, scan, shared, life, before, overflow>>

Next ==
  \E g \in Goroutines :
    \/ \E s \in Spans : Start(g, s) \/ StartFull(g, s) \/ End(g, s)
    \/ \E h \in Goroutines : Go(g, h)
    \/ Compact(g) \/ StartCompacted(g) \/ Drop(g)
    \/ Lookup(g) \/ Exit(g) \/ ClearTraceContext(g)

Spec == Init /\ [][Next]_vars

-----------------------------------------------------------------------------
(* Properties.                                                             *)

\* No goroutine is given an ended span as the parent of its next one, whoever
\* ended the span and however old the clone is that holds it: the hazard of a
\* worker goroutine that outlives the request it was started for.
NoStaleParent == \A g \in Goroutines : Current(g) \in Live \cup {NoSpan}

\* A live span is cut off from implicit propagation only by a workload that
\* keeps more spans in flight than the map holds: ended spans leave the map,
\* and eviction never picks a span while there is room.
LiveSpansKept ==
  ~overflow => \A s \in Spans : ended[s] => life[s] = "over"

\* The map and the eviction list name the same spans, all of them in flight,
\* and stay within the limit: nothing is leaked, whatever ends in what order.
StatesAgree ==
  /\ states = ToSet(order)
  /\ IsInjective(order)
  /\ Len(order) <= MaxStates
  /\ states \subseteq Live

\* held counts the stack and lcs is its bottom, or nil when the bottom was
\* inherited, after any mix of add, del, tail and compact.
StackAgrees ==
  \A g \in Goroutines :
    /\ held[g] = Len(stack[g])
    /\ adding[g] = NoSpan => lcs[g] \in {NoSpan, Bottom(stack[g])}

\* Ended spans do not use up the limit: a span is left untracked only when
\* none of those that fill the stack had ended before room was asked for.
DropsOnlyLiveStack ==
  [][\A g \in Goroutines :
       Drop(g) => ToSet(stack[g]) \cap before[g] = {}]_vars
=============================================================================
