----------------------------- MODULE PendingAcks -----------------------------
(***************************************************************************)
(* instrumentation/github.com/rabbitmq/amqp091-go/hook.go: the spans of    *)
(* deliveries that wait for an ack, on one channel.                        *)
(*                                                                         *)
(* A delivery reaches the application through the wrapper goroutine of a   *)
(* Consume call or as the result of Get.  Its span is registered with the  *)
(* pendingAcks of the Consume call and with those of the channel, and ends *)
(* when the application settles it, when the library closes the consume    *)
(* channel, or in the after hook of Channel.shutdown.  Deliveries that     *)
(* are acked automatically end at once and are left out.                   *)
(***************************************************************************)
EXTENDS Naturals

CONSTANTS
  Consumers,    \* the Consume calls, each with its wrapper goroutine
  Getters,      \* goroutines that call Get
  Settlers,     \* goroutines that settle deliveries
  MaxTag        \* bounds the deliveries of the channel

ASSUME PendingAcksAssumption ==
  /\ MaxTag \in Nat
  /\ Consumers \cap Getters = {} /\ (Consumers \cup Getters) \cap Settlers = {}
  /\ (Consumers \cup Getters) \cap Nat = {}
  /\ "shutdown" \notin Consumers \cup Getters \cup Settlers

VARIABLES
  shutdown,     \* where Channel.shutdown is
  closed,       \* the Consume calls whose delivery channel the library closed
  source,       \* who received each delivery, 0 before
  span,         \* the span of each delivery
  channel,      \* settlingAcknowledger.channel of each delivery, 0 before
  acks,         \* the pendingAcks: of the Consume calls, of the channel
  entry,        \* which one channelAcks has for the channel, 0 for none
  at,           \* where each goroutine is
  holds,        \* the delivery a wrapper or a Get is working on
  call,         \* what each settler asked for
  toEnd,        \* the spans each goroutine took from a pendingAcks to end them
  handed,       \* deliveries the application has been given
  answers,      \* history: what the library answered to calls that cover each
  late          \* history: deliveries registered too late for AfterShutdown

delivery == <<source, span, channel, handed, answers, late>>
vars == <<shutdown, closed, delivery, acks, entry, at, holds, call, toEnd>>
-----------------------------------------------------------------------------
Tags == 1..MaxTag

Sources == Consumers \cup Getters

\* Only one of the channel's ever is in channelAcks: 1 until the hook of
\* shutdown removes it, 2 if it is created again.
Lists == Consumers \cup {1, 2}

Shutdown == "shutdown"

Threads == Sources \cup Settlers \cup {Shutdown}

Answers == {"sent", "failed"}

Calls == [tag : Tags, multiple : BOOLEAN, delivery : BOOLEAN,
          answer : Answers, given : SUBSET Tags]

NoCall == [tag |-> 0]

Ended == {"unset", "error"}

TypeOK ==
  /\ shutdown \in {"open", "closed", "deleted", "done"}
  /\ closed \subseteq Consumers
  /\ source \in [Tags -> Sources \cup {0}]
  /\ span \in [Tags -> {"none", "open"} \cup Ended]
  /\ channel \in [Tags -> 0..2]
  /\ acks \in [Lists -> SUBSET Tags]
  /\ entry \in 0..2
  /\ at \in [Sources \cup Settlers -> {"receive", "acksFor", "local", "channel", "send", "done",
                                      "idle", "hook", "first", "second", "return"}]
  /\ \A c \in Consumers : at[c] \in {"receive", "acksFor", "local", "channel", "send", "done"}
  /\ \A g \in Getters : at[g] \in {"idle", "acksFor", "channel"}
  /\ \A s \in Settlers :
       at[s] \in {"idle", "hook", "first", "second", "local", "channel", "return"}
  /\ holds \in [Sources -> 0..MaxTag]
  /\ call \in [Settlers -> Calls \cup {NoCall}]
  /\ toEnd \in [Threads -> SUBSET Tags]
  /\ handed \subseteq Tags
  /\ answers \in [Tags -> SUBSET Answers] /\ late \subseteq Tags

Init ==
  /\ shutdown = "open" /\ closed = {}
  /\ source = [d \in Tags |-> 0] /\ span = [d \in Tags |-> "none"]
  /\ channel = [d \in Tags |-> 0]
  /\ acks = [l \in Lists |-> {}] /\ entry = 0
  /\ at = [t \in Sources \cup Settlers |-> IF t \in Consumers THEN "receive" ELSE "idle"]
  /\ holds = [t \in Sources |-> 0] /\ call = [s \in Settlers |-> NoCall]
  /\ toEnd = [t \in Threads |-> {}]
  /\ handed = {} /\ answers = [d \in Tags |-> {}] /\ late = {}
-----------------------------------------------------------------------------
(* Registration.                                                           *)

\* startDeliverySpan starts a span.  The tags of one source increase.
Start(t, d) ==
  /\ source[d] = 0 /\ \A e \in Tags : source[e] = t => e < d
  /\ source' = [source EXCEPT ![d] = t]
  /\ span' = [span EXCEPT ![d] = "open"]
  /\ holds' = [holds EXCEPT ![t] = d]
  /\ at' = [at EXCEPT ![t] = "acksFor"]
  /\ UNCHANGED <<shutdown, closed, channel, acks, entry, call, toEnd, handed, answers, late>>

\* The wrapper goroutine takes a delivery from the library.
Receive(c, d) == at[c] = "receive" /\ c \notin closed /\ Start(c, d)

\* Get returns a delivery; a response that is in flight when shutdown starts can
\* still succeed.
Get(g, d) == at[g] = "idle" /\ shutdown \in {"open", "closed"} /\ Start(g, d)

\* LoadOrStore
AcksFor(t) ==
  LET list == IF entry # 0 THEN entry
              ELSE IF shutdown \in {"deleted", "done"} THEN 2 ELSE 1
  IN
  /\ at[t] = "acksFor"
  /\ entry' = list
  /\ channel' = [channel EXCEPT ![holds[t]] = list]
  /\ at' = [at EXCEPT ![t] = IF t \in Consumers THEN "local" ELSE "channel"]
  /\ UNCHANGED <<shutdown, closed, source, span, acks, holds, call, toEnd, handed, answers, late>>

Add(list, d) == acks' = [acks EXCEPT ![list] = @ \cup {d}]

AddLocal(c) ==
  /\ at[c] = "local"
  /\ Add(c, holds[c])
  /\ at' = [at EXCEPT ![c] = "channel"]
  /\ UNCHANGED <<shutdown, closed, delivery, entry, holds, call, toEnd>>

\* With the last registration Get returns the delivery to the application.
AddChannel(t) ==
  /\ at[t] = "channel"
  /\ Add(channel[holds[t]], holds[t])
  /\ late' = IF shutdown = "done" \/ channel[holds[t]] = 2 THEN late \cup {holds[t]} ELSE late
  /\ \/ t \in Consumers /\ at' = [at EXCEPT ![t] = "send"] /\ UNCHANGED <<holds, handed>>
     \/ /\ t \in Getters /\ at' = [at EXCEPT ![t] = "idle"]
        /\ handed' = handed \cup {holds[t]}
        /\ holds' = [holds EXCEPT ![t] = 0]
  /\ UNCHANGED <<shutdown, closed, source, span, channel, answers, entry, call, toEnd>>

\* The application reads from the wrapper's channel.
Send(c) ==
  /\ at[c] = "send"
  /\ handed' = handed \cup {holds[c]}
  /\ holds' = [holds EXCEPT ![c] = 0]
  /\ at' = [at EXCEPT ![c] = "receive"]
  /\ UNCHANGED <<shutdown, closed, source, span, channel, answers, late, acks, entry, call, toEnd>>
-----------------------------------------------------------------------------
(* Endings.                                                                *)

Take(t, list, tags) ==
  /\ acks' = [acks EXCEPT ![list] = @ \ tags]
  /\ toEnd' = [toEnd EXCEPT ![t] = acks[list] \cap tags]

\* settlingAcknowledger.end, outside the lock; only the first one counts.
End(t, d) ==
  LET status == IF t \in Settlers /\ call[t].answer = "failed" THEN "error" ELSE "unset" IN
  /\ d \in toEnd[t]
  /\ toEnd' = [toEnd EXCEPT ![t] = @ \ {d}]
  /\ span' = [span EXCEPT ![d] = IF @ = "open" THEN status ELSE @]
  /\ UNCHANGED <<shutdown, closed, source, channel, handed, answers, late>>
  /\ UNCHANGED <<acks, entry, at, holds, call>>

\* The library has closed the deliveries: endAll, and close the wrapper's channel.
WrapperEnds(c) ==
  /\ at[c] = "receive" /\ c \in closed
  /\ Take(c, c, Tags)
  /\ at' = [at EXCEPT ![c] = "done"]
  /\ UNCHANGED <<shutdown, closed, delivery, entry, holds, call>>

\* The application or the broker cancels a consumer.
Cancel(c) ==
  /\ c \notin closed /\ closed' = closed \cup {c}
  /\ UNCHANGED <<shutdown, delivery, acks, entry, at, holds, call, toEnd>>

\* The body of shutdown: the channel is closed, and every consume channel.
CloseChannel ==
  /\ shutdown = "open" /\ shutdown' = "closed"
  /\ closed' = Consumers
  /\ UNCHANGED <<delivery, acks, entry, at, holds, call, toEnd>>

\* AfterShutdown: LoadAndDelete, and then endAll, if there is an entry.
DeleteEntry ==
  /\ shutdown = "closed"
  /\ shutdown' = IF entry = 0 THEN "done" ELSE "deleted"
  /\ entry' = 0
  /\ UNCHANGED <<closed, delivery, acks, at, holds, call, toEnd>>

\* Mutant: the entry goes and its spans stay open.
EndAllForgotten ==
  /\ shutdown = "deleted" /\ shutdown' = "done"
  /\ UNCHANGED <<closed, delivery, acks, entry, at, holds, call, toEnd>>

EndAll ==
  /\ shutdown = "deleted" /\ shutdown' = "done"
  /\ Take(Shutdown, 1, Tags)
  /\ UNCHANGED <<closed, delivery, entry, at, holds, call>>
-----------------------------------------------------------------------------
(* Settlement.                                                             *)

\* The deliveries a call is about, as the protocol has it.
Covers(c) == {d \in Tags : d = c.tag \/ (c.multiple /\ d <= c.tag)}

\* Mutants: multiple is forgotten; it reaches the other way.
MatchesOne(c) == {c.tag}

MatchesLater(c) == IF c.multiple THEN c.tag..MaxTag ELSE {c.tag}

\* The keys that pendingAcks.settle takes out.
Matches(c) == IF c.multiple THEN {d \in Tags : d <= c.tag} ELSE {c.tag}

\* The goroutine has ended what it took.
Settling(s) == s \in Settlers /\ toEnd[s] = {}

\* Ack, Nack or Reject, of a delivery or of the channel with its tag: the
\* library sends it, or fails, as it does once the channel is closed.  A delivery
\* is not settled again, which is an error of the protocol.
Settle(s, c) ==
  /\ Settling(s) /\ at[s] = "idle"
  /\ c.tag \in handed /\ "sent" \notin answers[c.tag]
  /\ c.answer = "failed" \/ shutdown = "open"
  /\ call' = [call EXCEPT ![s] = [c EXCEPT !.given = @ \cap Covers(c)]]
  /\ answers' = [d \in Tags |-> answers[d] \cup (IF d \in Covers(c) THEN {c.answer} ELSE {})]
  /\ at' = [at EXCEPT ![s] = "hook"]
  /\ UNCHANGED <<shutdown, closed, source, span, channel, handed, late, acks, entry, holds, toEnd>>

\* A call on the delivery goes on in settlingAcknowledger.finish.
HookDone(s) == IF call[s].delivery THEN "local" ELSE "return"

\* AfterAck, AfterNack, AfterReject: acksLookup, the channel's pendingAcks as
\* channelAcks has them now,
AcksLookup(s) ==
  /\ Settling(s) /\ at[s] = "hook"
  /\ at' = [at EXCEPT ![s] = CASE entry = 0 -> HookDone(s)
                             [] entry = 1 -> "first"
                             [] OTHER     -> "second"]
  /\ UNCHANGED <<shutdown, closed, delivery, acks, toEnd, entry, holds, call>>

\* and settle, with what it found: AfterShutdown may have removed that meanwhile.
SettleHook(s) ==
  /\ Settling(s) /\ at[s] \in {"first", "second"}
  /\ Take(s, IF at[s] = "first" THEN 1 ELSE 2, Matches(call[s]))
  /\ at' = [at EXCEPT ![s] = HookDone(s)]
  /\ UNCHANGED <<shutdown, closed, delivery, entry, holds, call>>

\* settlingAcknowledger.finish: with the Consume call's, if there is one,
SettleLocal(s) ==
  LET c == source[call[s].tag] IN
  /\ Settling(s) /\ at[s] = "local"
  /\ IF c \in Consumers THEN Take(s, c, Matches(call[s])) ELSE UNCHANGED <<acks, toEnd>>
  /\ at' = [at EXCEPT ![s] = "channel"]
  /\ UNCHANGED <<shutdown, closed, delivery, entry, holds, call>>

\* and with the channel's, as the delivery found them.
SettleChannel(s) ==
  /\ Settling(s) /\ at[s] = "channel"
  /\ Take(s, channel[call[s].tag], Matches(call[s]))
  /\ at' = [at EXCEPT ![s] = "return"]
  /\ UNCHANGED <<shutdown, closed, delivery, entry, holds, call>>

Return(s) ==
  /\ Settling(s) /\ at[s] = "return"
  /\ at' = [at EXCEPT ![s] = "idle"]
  /\ call' = [call EXCEPT ![s] = NoCall]
  /\ UNCHANGED <<shutdown, closed, delivery, acks, entry, holds, toEnd>>
-----------------------------------------------------------------------------
Next ==
  \/ \E c \in Consumers :
       \/ \E d \in Tags : Receive(c, d)
       \/ AcksFor(c) \/ AddLocal(c) \/ AddChannel(c) \/ Send(c)
       \/ WrapperEnds(c) \/ Cancel(c)
  \/ \E g \in Getters :
       \/ \E d \in Tags : Get(g, d)
       \/ AcksFor(g) \/ AddChannel(g)
  \/ \E s \in Settlers :
       \/ \E d \in Tags, multiple, ofDelivery \in BOOLEAN, answer \in Answers :
            Settle(s, [tag |-> d, multiple |-> multiple, delivery |-> ofDelivery,
                       answer |-> answer, given |-> handed])
       \/ AcksLookup(s) \/ SettleHook(s) \/ SettleLocal(s) \/ SettleChannel(s) \/ Return(s)
  \/ \E t \in Threads, d \in Tags : End(t, d)
  \/ CloseChannel \/ DeleteEntry \/ EndAll

Spec == Init /\ [][Next]_vars
-----------------------------------------------------------------------------
(* Properties.                                                             *)

\* Some goroutine is about to end the span.
Taken(d) == \E t \in Threads : d \in toEnd[t]

Ending(d) == Taken(d) \/ (shutdown = "deleted" /\ d \in acks[1])

\* startDeliverySpan has registered the delivery.
Registered(d) ==
  channel[d] # 0 /\ (holds[source[d]] = d => at[source[d]] \notin {"local", "channel"})

EndedOrEnding(d) == span[d] \in Ended \/ Ending(d)

\* When a settle call returns, the span of every delivery that the application
\* had and that the call covers is ended or about to be: whoever received it,
\* whoever settles or tears down at the same time, and whether the call was on
\* the delivery or on the channel, unless it was registered too late.
SettledEnds ==
  \A s \in Settlers : at[s] = "return" /\ toEnd[s] = {} =>
    \A d \in call[s].given \ late : EndedOrEnding(d)

\* After AfterShutdown the spans of all deliveries, of Consume and of Get, are ended
\* or about to be, settled or not, unless they were registered too late.  So says the
\* package's README about Get, line 13.  The comment on AfterGet (hook.go:258-260) says that
\* an unacked Get's span "stays open until the process exits".  The code does not do
\* that: AfterShutdown ends all of the channel's list, whoever registered in it.
TeardownEnds ==
  shutdown = "done" =>
    \A d \in Tags \ late : Registered(d) => EndedOrEnding(d)

\* A span ends as failed only when a call that covers the delivery failed, and
\* as successful only when one succeeded or the channel or the consumer ended.
EndJustified ==
  \A d \in Tags :
    /\ span[d] = "error" => "failed" \in answers[d]
    /\ span[d] = "unset" => \/ "sent" \in answers[d] \/ source[d] \in closed
                            \/ shutdown \in {"deleted", "done"}

\* When a Consume call's wrapper is done, the spans of all its deliveries are
\* ended or about to be, settled or not, also those registered after
\* AfterShutdown, with a pendingAcks that nobody will look at again.
WrapperLeavesNone ==
  \A d \in Tags :
    source[d] \in Consumers /\ at[source[d]] = "done" => EndedOrEnding(d)
-----------------------------------------------------------------------------
(* The inductive invariant.                                                *)

\* A goroutine works on one delivery, which is its own; a delivery has its
\* pendingAcks before it is handed out.
HoldsInv ==
  /\ \A t \in Sources :
       /\ holds[t] = 0 <=> at[t] \in {"receive", "idle", "done"}
       /\ holds[t] # 0 => /\ source[holds[t]] = t
                          /\ channel[holds[t]] = 0 <=> at[t] = "acksFor"
  /\ \A d \in Tags :
       /\ span[d] = "none" <=> source[d] = 0
       /\ channel[d] # 0 => source[d] # 0
       /\ source[d] # 0 /\ channel[d] = 0 => holds[source[d]] = d
       /\ d \in handed => channel[d] # 0 /\ holds[source[d]] # d

\* What the lists hold.
ListsInv ==
  \A l \in Lists : \A d \in acks[l] : span[d] # "none" /\ (l \in Consumers => source[d] = l)

\* Who takes spans, and which.
TakersInv ==
  /\ \A c \in Consumers :
       /\ at[c] = "done" => c \in closed /\ acks[c] = {}
       /\ at[c] # "done" => toEnd[c] = {}
       /\ \A d \in toEnd[c] : source[d] = c
  /\ \A g \in Getters : toEnd[g] = {}
  /\ shutdown # "done" => toEnd[Shutdown] = {}
  /\ shutdown # "open" => closed = Consumers
  /\ \A t \in Threads : \A d \in toEnd[t] : span[d] # "none"

\* What a settler is doing, and for which call.
CallsInv ==
  \A s \in Settlers :
    IF at[s] = "idle" THEN toEnd[s] = {}
    ELSE /\ call[s] \in Calls /\ call[s].tag \in handed
         /\ call[s].given \subseteq Covers(call[s]) \cap handed
         /\ toEnd[s] \subseteq Covers(call[s])
         /\ \A d \in Covers(call[s]) : call[s].answer \in answers[d]

TakenInv == ListsInv /\ TakersInv /\ CallsInv

\* While the hook of shutdown has not run, all is in the first list, which
\* channelAcks has as soon as a delivery has it.
EntryInv ==
  /\ shutdown \in {"open", "closed"} =>
       /\ entry \in {0, 1} /\ late = {}
       /\ \A d \in Tags : channel[d] # 2
       /\ entry = 0 => \A d \in Tags : channel[d] = 0

\* A registered span is ended, taken, or in the list that shutdown will take.
KeptInv ==
  \A d \in Tags \ late :
    Registered(d) => \/ span[d] \in Ended \/ Taken(d)
                     \/ channel[d] = 1 /\ d \in acks[1] /\ shutdown # "done"

\* What the hook of a call has passed is ended or ending, and when the hook finds
\* the second list so is what the first had.
SettledInv ==
  \A s \in Settlers :
    at[s] \in {"second", "local", "channel", "return"} =>
      \A d \in call[s].given \ late : EndedOrEnding(d)

\* A span of a Consume call is ended, taken, in its list or on its way there.
LocalInv ==
  \A d \in Tags :
    source[d] \in Consumers =>
      \/ span[d] \in Ended \/ Taken(d) \/ d \in acks[source[d]]
      \/ holds[source[d]] = d /\ at[source[d]] \in {"acksFor", "local"}

\* All spans end for a reason, none is forgotten: the inductive invariant.
AcksInv ==
  TypeOK /\ HoldsInv /\ TakenInv /\ EntryInv /\ KeptInv /\ SettledInv /\ LocalInv /\ EndJustified
-----------------------------------------------------------------------------
\* The README and TestShutdown_DeliveryDuringTeardownIsStillCleanedUp: after
\* AfterShutdown channelAcks has no entry for the channel, whenever during the
\* teardown a delivery arrived.
NoEntryAfterShutdown == shutdown = "done" => entry = 0
=============================================================================
