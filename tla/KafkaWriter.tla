---------------------------- MODULE KafkaWriter ----------------------------
(***************************************************************************)
(* kafka-go's Writer shared by goroutines that call WriteMessages.         *)
(*                                                                         *)
(* Every message of a call has a span, which the After hook ends with the  *)
(* outcome the call returns.  An asynchronous writer returns before the    *)
(* broker has answered: its failures are logged by a wrapper around        *)
(* w.Completion, which kafka-go reads without a lock whenever a batch      *)
(* completes.  kafkaEnabler.Enable() reads the environment in every call,  *)
(* and may answer differently in each: a call made while it answers no has *)
(* no spans and does not wait for the wrapper.                             *)
(***************************************************************************)
EXTENDS Integers, FiniteSets

CONSTANTS
  Goroutines,  \* the callers of WriteMessages
  MaxMessages, \* bounds the messages of a call
  MaxWrites    \* bounds the calls

VARIABLES
  writer,      \* [async, user, layers]: user: Completion was set; layers: wrappers on it
  once,        \* the sync.Once of the writer: "new", "running", "done"
  writing,     \* per goroutine: [step, spans, messages, original, failed, marked]
  inFlight,    \* the batches of calls with spans that kafka-go has not completed
  bare,        \* those of calls without: made while the instrumentation was off
  told         \* [calls, completed, failed, logged, bareFailed, bareLogged, user]:
               \* what has been told to whom

kafkaVars == <<writer, once, writing, inFlight, bare, told>>

NotWriting == [step |-> "idle", spans |-> FALSE, messages |-> 0, original |-> 0,
               failed |-> {}, marked |-> {}]

KafkaInit ==
  /\ writer \in [async : BOOLEAN, user : BOOLEAN, layers : {0}]
  /\ once = "new"
  /\ writing = [g \in Goroutines |-> NotWriting]
  /\ inFlight = 0 /\ bare = 0
  /\ told = [calls |-> 0, completed |-> 0, failed |-> 0, logged |-> 0,
             bareFailed |-> 0, bareLogged |-> 0, user |-> 0]
-----------------------------------------------------------------------------
\* on: what kafkaEnabler.Enable() answers.  A call that it answers no, or that has no
\* messages, goes to kafka-go as it is.
BeforeWriteMessages(g, n, on) ==
  /\ writing[g].step \in {"idle", "returned"} /\ told.calls < MaxWrites
  /\ LET spans == on /\ n > 0 IN
     writing' = [writing EXCEPT ![g] = [NotWriting EXCEPT
       !.step = IF writer.async /\ spans THEN "once" ELSE "write",
       !.spans = spans, !.messages = n]]
  /\ told' = [told EXCEPT !.calls = @ + 1]
  /\ UNCHANGED <<writer, once, inFlight, bare>>

\* Mutant: a flag says that the writer is, or is about to be, wrapped.
SkipWrapping(g) ==
  /\ writing[g].step = "once" /\ once # "new"
  /\ writing' = [writing EXCEPT ![g].step = "write"]
  /\ UNCHANGED <<writer, once, inFlight, bare, told>>

\* once.Do, for a goroutine that does not run the function: it waits for its end.
AwaitOnce(g) ==
  /\ writing[g].step = "once" /\ once = "done"
  /\ writing' = [writing EXCEPT ![g].step = "write"]
  /\ UNCHANGED <<writer, once, inFlight, bare, told>>

\* original := w.Completion
ReadCompletion(g) ==
  /\ writing[g].step = "once" /\ once = "new"
  /\ once' = "running"
  /\ writing' = [writing EXCEPT ![g].step = "install", ![g].original = writer.layers]
  /\ UNCHANGED <<writer, inFlight, bare, told>>

\* w.Completion = func ...
InstallWrapper(g) ==
  /\ writing[g].step = "install"
  /\ writer' = [writer EXCEPT !.layers = writing[g].original + 1]
  /\ once' = "done"
  /\ writing' = [writing EXCEPT ![g].step = "write"]
  /\ UNCHANGED <<inFlight, bare, told>>

\* Mutant: any error is one of every message.
MarkAll(kind, failed, i) == kind # "nil"

\* Whether AfterWriteMessages marks the span of message i.
Marks(kind, failed, i) == IF kind = "WriteErrors" THEN i \in failed ELSE kind # "nil"

\* The messages that fail when WriteMessages returns a value of some kind.
FailedSets(kind, n) ==
  CASE kind = "nil"   -> {{}}
    [] kind = "error" -> {1..n}
    [] OTHER          -> SUBSET (1..n) \ {{}}

\* WriteMessages and its After hook, which asks the data for spans and not the
\* switch again.
WriteMessages(g, kind, failed) ==
  /\ writing[g].step = "write"
  /\ writer.async => kind # "WriteErrors"
  /\ failed \in FailedSets(kind, writing[g].messages)
  /\ writing' = [writing EXCEPT ![g].step = "returned", ![g].failed = failed,
       ![g].marked = {i \in 1..writing[g].messages :
                        writing[g].spans /\ Marks(kind, failed, i)}]
  /\ LET sent == IF writer.async /\ kind = "nil" /\ writing[g].messages > 0 THEN 1 ELSE 0 IN
     /\ inFlight' = inFlight + (IF writing[g].spans THEN sent ELSE 0)
     /\ bare' = bare + (IF writing[g].spans THEN 0 ELSE sent)
  /\ UNCHANGED <<writer, once, told>>

\* A batch of a call with spans is written or lost, and kafka-go calls w.Completion.
Completion(failed) ==
  /\ inFlight > 0
  /\ inFlight' = inFlight - 1
  /\ told' = [told EXCEPT !.completed = @ + 1,
                          !.failed = @ + (IF failed THEN 1 ELSE 0),
                          !.logged = @ + (IF failed THEN writer.layers ELSE 0),
                          !.user   = @ + (IF writer.user THEN 1 ELSE 0)]
  /\ UNCHANGED <<writer, once, writing, bare>>

\* A batch of a call without spans is: whether its failure is logged depends on
\* whether another call has wrapped w.Completion by then.
BareCompletion(failed) ==
  /\ bare > 0
  /\ bare' = bare - 1
  /\ told' = [told EXCEPT !.completed = @ + 1,
                          !.bareFailed = @ + (IF failed THEN 1 ELSE 0),
                          !.bareLogged = @ + (IF failed THEN writer.layers ELSE 0),
                          !.user       = @ + (IF writer.user THEN 1 ELSE 0)]
  /\ UNCHANGED <<writer, once, writing, inFlight>>

KafkaNext ==
  \/ \E g \in Goroutines :
       \/ \E n \in 0..MaxMessages, on \in BOOLEAN : BeforeWriteMessages(g, n, on)
       \/ AwaitOnce(g) \/ ReadCompletion(g) \/ InstallWrapper(g)
       \/ \E kind \in {"nil", "error", "WriteErrors"}, failed \in SUBSET (1..MaxMessages) :
            WriteMessages(g, kind, failed)
  \/ \E failed \in BOOLEAN : Completion(failed) \/ BareCompletion(failed)

KafkaSpec == KafkaInit /\ [][KafkaNext]_kafkaVars
-----------------------------------------------------------------------------
\* The spans of a call that has returned tell which of its messages failed; every
\* failure of a batch of a call with spans is logged, once, and none of another is
\* logged more than once, however the switch changes between calls; the user's
\* callback is called for every batch; and no batch of a call with spans is in flight,
\* to read w.Completion, while it is assigned.  One of a call without spans may be: it
\* does not pass once.Do, and the comment that every concurrent caller blocks until the
\* wrapper is on (producer_hook.go:46-53) holds only of calls made while
\* kafkaEnabler.Enable() answers yes.
WritesTellTheirOutcome ==
  /\ \A g \in Goroutines : writing[g].spans => writing[g].marked = writing[g].failed
  /\ told.logged = told.failed
  /\ told.bareLogged <= told.bareFailed
  /\ told.user = IF writer.user THEN told.completed ELSE 0
  /\ inFlight > 0 => \A g \in Goroutines : writing[g].step # "install"
=============================================================================
