----------------------------- MODULE Trampoline -----------------------------
(***************************************************************************)
(* tool/internal/instrument: a function with hooks, from the rules to a    *)
(* call of it.                                                             *)
(*                                                                         *)
(* Each func rule puts a trampoline jump at the head of the function, the  *)
(* next one inside the else branch of the one before:                      *)
(*                                                                         *)
(*     if ctx, skip := before(&arg); skip { after(ctx, &ret); return ret } *)
(*     else { defer after(ctx, &ret); next jump }                          *)
(*                                                                         *)
(* The jumps are then simplified.  A goroutine that calls the function     *)
(* goes through the jumps, the body and the deferred calls; the body may   *)
(* call the function again, and may hold one statement bracketed by        *)
(* //otelc:ignore, within which no hook of this goroutine runs.            *)
(***************************************************************************)
EXTENDS Integers, Sequences, FiniteSets

CONSTANTS
  RuleLists,    \* the func rules that match the function, in order of application
  Slots,        \* how a hook reaches the result: "typed", "any", "generic"
  MaxDepth      \* bounds the nested calls of the function

ASSUME TrampolineAssumption ==
  /\ \A rs \in RuleLists : rs \in Seq([name : STRING, before : {"none", "plain", "skips"},
                                       after : BOOLEAN])
  /\ Slots \subseteq {"typed", "any", "generic"}
  /\ MaxDepth \in Nat \ {0}

VARIABLES
  woven,       \* the woven function: its levels, its result slot, its guard
  calls,        \* the goroutine's frames of the function, the running one last
  suppressed,   \* otel_ignored_call_count of the goroutine
  returned      \* history: the last frame that ended, or NoFrame

trampolineVars == <<woven, calls, suppressed, returned>>
-----------------------------------------------------------------------------
(* Weaving                                                                 *)

\* A rule with neither hook is refused when the rules are loaded.
Valid(rule) == rule.before # "none" \/ rule.after

\* What a rule does, its name left out: rules of one identity share a trampoline.
Identity(rule) == [before |-> rule.before, after |-> rule.after]

FirstOfItsIdentity(rs, i) == \A j \in 1..(i - 1) : Identity(rs[j]) # Identity(rs[i])

\* In an ignored file only a function that says //otelc:instrument is woven;
\* //otelc:ignore on the function itself wins over both.
FileRefuses(marks) == "file ignore" \in marks /\ "instrument" \notin marks
FuncRefuses(marks) == "ignore" \in marks

\* Mutant: a hook that may skip is flattened as well.
FlattenAll(rule) == IF rule.before = "none" THEN "deferred only" ELSE "flat"

Form(rule) ==
  CASE rule.before = "none" -> "deferred only"
    [] rule.before = "skips" -> "jump"
    [] OTHER -> "flat"                          \* cannot skip: the condition is false

Level(rule) == [form |-> Form(rule), before |-> rule.before, after |-> rule.after]

\* The levels of a function, the outermost first.
Jumps(rs) ==
  LET kept == SelectSeq([i \in 1..Len(rs) |-> i],
                        LAMBDA i : Valid(rs[i]) /\ FirstOfItsIdentity(rs, i))
  IN [k \in 1..Len(kept) |-> Level(rs[kept[k]])]

Levels(rs, marks) == IF FileRefuses(marks) \/ FuncRefuses(marks) THEN <<>> ELSE Jumps(rs)
-----------------------------------------------------------------------------
(* A call                                                                  *)

\* Deferred calls: the After trampoline of a level, or one of these.
Fallback == 0       \* the deferred end of a bracket
Recover == -1       \* a deferred recover() of the application

\* Results: what an After hook of a level sets, or one of these.
Zero == 0
Original == -1

\* befores, afters, ran, threw, asked and set are histories.
NewFrame ==
  [at |-> "jumps", level |-> 1, deferred |-> <<>>, result |-> Zero, panicking |-> FALSE,
   done |-> TRUE, called |-> FALSE, recovers |-> FALSE,
   befores |-> {}, afters |-> <<>>, ran |-> 0, threw |-> FALSE, asked |-> {}, set |-> 0]

NoFrame == [at |-> "none"]

Depth == Len(calls)
Top == calls[Depth]
Replace(frame) == [calls EXCEPT ![Depth] = frame]
Hooked(k) == woven.levels[k]
HasAfter(k) == Hooked(k).after

\* A trampoline calls its hook unless the build uses //otelc:ignore and the
\* goroutine is inside a bracket.
HooksRun == ~woven.guard \/ suppressed = 0

\* Mutant: the After trampoline does not recover.
AfterUnrecovered(f, k) == {[f EXCEPT !.panicking = TRUE], f}

\* A typed result is written through its pointer; the slot of an `any` result
\* is overwritten instead.  The accessors of a generic function panic.
SetReturnVal(f, k) ==
  IF woven.slot = "typed" THEN [f EXCEPT !.result = k, !.set = k] ELSE [f EXCEPT !.set = k]
AccessorsPanic == woven.slot = "generic"

\* What the After trampoline of level k makes of the frame: the hook may set
\* the result and may panic, the trampoline recovers.
AfterTrampoline(f, k) ==
  IF ~HooksRun THEN {f}
  ELSE LET ran == [f EXCEPT !.afters = Append(@, k)]
       IN {ran} \cup IF AccessorsPanic THEN {} ELSE {SetReturnVal(ran, k)}

TrampolineInit ==
  /\ \E rs \in RuleLists, marks \in SUBSET {"file ignore", "instrument", "ignore"},
        slot \in Slots, guard \in BOOLEAN :
       woven = [levels |-> Levels(rs, marks), slot |-> slot, guard |-> guard]
  /\ calls = <<>>
  /\ suppressed = 0
  /\ returned = NoFrame

StartCall ==
  /\ calls = <<>>
  /\ returned = NoFrame
  /\ calls' = <<NewFrame>>
  /\ UNCHANGED <<woven, suppressed, returned>>

\* A level whose jump has no Before call.
PassJump ==
  /\ calls # <<>> /\ Top.at = "jumps" /\ Top.level \in DOMAIN woven.levels
  /\ Hooked(Top.level).form = "deferred only"
  /\ calls' = Replace([Top EXCEPT !.level = @ + 1, !.deferred = Append(@, Top.level)])
  /\ UNCHANGED <<woven, suppressed, returned>>

\* The Before trampoline returns its context and whether to skip.  Its result
\* is set by its last statement, which a hook that panics never reaches.
BeforeTrampoline ==
  /\ calls # <<>> /\ Top.at = "jumps" /\ Top.level \in DOMAIN woven.levels
  /\ Hooked(Top.level).form # "deferred only"
  /\ \E asks \in IF HooksRun /\ Hooked(Top.level).before = "skips" THEN BOOLEAN ELSE {FALSE},
        panics \in IF HooksRun THEN BOOLEAN ELSE {FALSE} :
       LET k == Top.level
           skip == asks /\ ~panics /\ Hooked(k).form = "jump"
           f == [Top EXCEPT !.befores = IF HooksRun THEN @ \cup {k} ELSE @,
                            !.asked = IF asks /\ ~panics THEN @ \cup {k} ELSE @]
       IN IF skip
          THEN \E g \in IF HasAfter(k) THEN AfterTrampoline(f, k) ELSE {f} :
                 calls' = Replace([g EXCEPT !.at = "unwind"])
          ELSE calls' = Replace([f EXCEPT !.level = @ + 1,
                                          !.deferred = IF HasAfter(k) THEN Append(@, k) ELSE @])
  /\ UNCHANGED <<woven, suppressed, returned>>

\* The jumps are behind: the body of the function starts.
EnterBody ==
  /\ calls # <<>> /\ Top.at = "jumps" /\ Top.level \notin DOMAIN woven.levels
  /\ \E recovers \in BOOLEAN :
       calls' = Replace([Top EXCEPT !.at = "body", !.ran = @ + 1, !.recovers = recovers,
                                    !.deferred = IF recovers THEN Append(@, Recover) ELSE @])
  /\ UNCHANGED <<woven, suppressed, returned>>

\* Mutant: a bracket without the deferred fallback.
BeginUnguarded ==
  /\ woven.guard
  /\ calls # <<>> /\ Top.at = "body" /\ ~Top.called
  /\ calls' = Replace([Top EXCEPT !.at = "bracket"])
  /\ suppressed' = suppressed + 1
  /\ UNCHANGED <<woven, returned>>

\* SuppressHooks(); done := false; defer func() { if !done { UnsuppressHooks() } }()
BeginIgnored ==
  /\ woven.guard
  /\ calls # <<>> /\ Top.at = "body" /\ ~Top.called
  /\ calls' = Replace([Top EXCEPT !.at = "bracket", !.done = FALSE,
                                  !.deferred = Append(@, Fallback)])
  /\ suppressed' = suppressed + 1
  /\ UNCHANGED <<woven, returned>>

\* done = true; UnsuppressHooks()
EndIgnored ==
  /\ calls # <<>> /\ Top.at = "bracket"
  /\ calls' = Replace([Top EXCEPT !.at = "body", !.done = TRUE, !.called = TRUE])
  /\ suppressed' = suppressed - 1
  /\ UNCHANGED <<woven, returned>>

\* The body, or the bracketed statement of it, calls the function.
CallAgain ==
  /\ calls # <<>> /\ Top.at \in {"body", "bracket"} /\ ~Top.called
  /\ Depth < MaxDepth
  /\ calls' = Append(Replace([Top EXCEPT !.called = TRUE]), NewFrame)
  /\ UNCHANGED <<woven, suppressed, returned>>

BodyReturns ==
  /\ calls # <<>> /\ Top.at = "body"
  /\ calls' = Replace([Top EXCEPT !.at = "unwind", !.result = Original])
  /\ UNCHANGED <<woven, suppressed, returned>>

BodyPanics ==
  /\ calls # <<>> /\ Top.at \in {"body", "bracket"}
  /\ calls' = Replace([Top EXCEPT !.at = "unwind", !.panicking = TRUE, !.threw = TRUE])
  /\ UNCHANGED <<woven, suppressed, returned>>

\* The last deferred call runs.
RunDeferred ==
  /\ calls # <<>> /\ Top.at = "unwind" /\ Top.deferred # <<>>
  /\ LET d == Top.deferred[Len(Top.deferred)]
         f == [Top EXCEPT !.deferred = SubSeq(@, 1, Len(@) - 1)]
     IN CASE d = Fallback ->
               /\ suppressed' = IF f.done THEN suppressed ELSE suppressed - 1
               /\ calls' = Replace([f EXCEPT !.done = TRUE])
          [] d = Recover ->
               /\ calls' = Replace([f EXCEPT !.panicking = FALSE])
               /\ UNCHANGED suppressed
          [] OTHER ->
               /\ \E g \in AfterTrampoline(f, d) : calls' = Replace(g)
               /\ UNCHANGED suppressed
  /\ UNCHANGED <<woven, returned>>

\* The call ends; its panic, if any, goes on in the caller's frame.
LeaveCall ==
  /\ calls # <<>> /\ Top.at = "unwind" /\ Top.deferred = <<>>
  /\ returned' = Top
  /\ LET rest == SubSeq(calls, 1, Depth - 1)
     IN calls' = IF rest # <<>> /\ Top.panicking
                 THEN [rest EXCEPT ![Depth - 1] = [@ EXCEPT !.at = "unwind", !.panicking = TRUE,
                                                            !.threw = TRUE]]
                 ELSE rest
  /\ UNCHANGED <<woven, suppressed>>

TrampolineNext ==
  \/ StartCall \/ PassJump \/ BeforeTrampoline \/ EnterBody \/ BeginIgnored \/ EndIgnored
  \/ CallAgain \/ BodyReturns \/ BodyPanics \/ RunDeferred \/ LeaveCall

TrampolineSpec == TrampolineInit /\ [][TrampolineNext]_trampolineVars
-----------------------------------------------------------------------------
(* Properties of a call that ended                                         *)

Decreasing(s) == \A i, j \in 1..Len(s) : i < j => s[i] > s[j]

\* A level with both hooks ran both or neither, whatever panicked or skipped,
\* and the After hooks ran last level first, each once: a span that a Before
\* hook starts is ended by its After hook.
HooksPaired ==
  returned # NoFrame =>
    /\ Decreasing(returned.afters)
    /\ \A k \in returned.befores :
         HasAfter(k) => \E i \in 1..Len(returned.afters) : returned.afters[i] = k
    /\ \A i \in 1..Len(returned.afters) :
         Hooked(returned.afters[i]).before # "none" => returned.afters[i] \in returned.befores

\* What the caller of a woven function gets (the trampolines around its body): the
\* body runs once, unless a Before hook asked to skip it and did not panic: then
\* not at all, and no hook of a later level runs.  The panic of a hook never
\* reaches the caller, and the panic of the body always does unless the
\* application recovers it.
SkipIsHonoured ==
  /\ returned.ran = (IF returned.asked = {} THEN 1 ELSE 0)
  /\ \A k \in returned.asked : \A j \in returned.befores : j <= k
PanicsAreTheBodys == returned.panicking <=> returned.threw /\ ~returned.recovers
CallOutcome == returned # NoFrame => SkipIsHonoured /\ PanicsAreTheBodys

\* The suppression count is the number of open brackets on the stack, also
\* while a panic unwinds them: no goroutine is left with its hooks off.
SuppressionBalanced == suppressed = Cardinality({i \in 1..Len(calls) : ~calls[i].done})
=============================================================================
