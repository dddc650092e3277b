-------------------------- MODULE TrampolineProofs --------------------------
(***************************************************************************)
(* Hooks are paired, the caller gets what the body and the skips make of   *)
(* the call, and the suppression count is balanced, for any list of rules  *)
(* on the function and any depth of nested calls.                          *)
(***************************************************************************)
EXTENDS Trampoline, FiniteSetTheorems, SequenceTheorems, TLAPS

Frame ==
  [at : {"jumps", "body", "bracket", "unwind"}, level : Nat \ {0}, deferred : Seq(Int),
   result : Int, panicking : BOOLEAN, done : BOOLEAN, called : BOOLEAN, recovers : BOOLEAN,
   befores : SUBSET Int, afters : Seq(Int), ran : Nat, threw : BOOLEAN, asked : SUBSET Int,
   set : Int]

Holds(s, x) == \E i \in 1..Len(s) : s[i] = x

\* The levels of a function know what their Before hook is.
LevelsInv(levels) ==
  \A k \in DOMAIN levels :
    /\ levels[k].form = "deferred only" <=> levels[k].before = "none"
    /\ levels[k].before = "skips" => levels[k].form = "jump"

\* A bracket that is open will be closed: by its end or by its deferred call.
BracketInv(f) ==
  /\ f.at \in {"jumps", "body"} => f.done
  /\ f.at = "bracket" => ~f.done
  /\ ~f.done => Holds(f.deferred, Fallback)

\* Deferred are the After trampolines of the levels passed, in their order, and
\* after them the calls of the body.
DeferredInv(levels, f) ==
  /\ \A i \in 1..Len(f.deferred) :
       \/ f.deferred[i] \in {Fallback, Recover} /\ f.at # "jumps"
       \/ /\ f.deferred[i] > 0 /\ f.deferred[i] < f.level
          /\ f.deferred[i] \in DOMAIN levels
          /\ \A j \in 1..(i - 1) : f.deferred[j] > 0 /\ f.deferred[j] < f.deferred[i]
  /\ \A i \in 1..Len(f.afters) :
       /\ f.afters[i] \in DOMAIN levels
       /\ \A j \in 1..Len(f.deferred) : f.afters[i] > f.deferred[j]
       /\ \A j \in 1..(i - 1) : f.afters[j] > f.afters[i]
       /\ levels[f.afters[i]].before # "none" => f.afters[i] \in f.befores
  /\ f.at # "unwind" => f.afters = <<>>

\* A Before hook that ran waits for its After hook, or has met it.
PairInv(levels, f) ==
  \A k \in f.befores :
    /\ k > 0 /\ k <= f.level /\ k \in DOMAIN levels /\ levels[k].before # "none"
    /\ f.at = "jumps" => k < f.level
    /\ levels[k].after => Holds(f.deferred, k) \/ Holds(f.afters, k)

\* How often the body ran, and whose panic it is.
OutcomeInv(f) ==
  /\ f.at # "unwind" => f.asked = {} /\ ~f.panicking /\ ~f.threw
  /\ f.at = "jumps" => f.ran = 0 /\ ~f.recovers
  /\ f.at \in {"body", "bracket"} => f.ran = 1
  /\ f.at = "unwind" => f.ran = (IF f.asked = {} THEN 1 ELSE 0)
  /\ \A k \in f.asked : \A j \in f.befores : j <= k
  /\ f.at # "unwind" /\ f.recovers => Holds(f.deferred, Recover)
  /\ Holds(f.deferred, Recover) => f.recovers
  /\ \A i, j \in 1..Len(f.deferred) : f.deferred[i] = Recover /\ f.deferred[j] = Recover => i = j
  /\ f.at = "unwind" =>
       (f.panicking <=> f.threw /\ (f.recovers => Holds(f.deferred, Recover)))

FrameInv(levels, f) ==
  /\ f \in Frame
  /\ BracketInv(f) /\ DeferredInv(levels, f) /\ PairInv(levels, f) /\ OutcomeInv(f)

\* The Before hooks of the levels passed ran exactly if hooks run for this frame.
Heard(levels, f, hooks) ==
  \A k \in 1..(f.level - 1) :
    k \in DOMAIN levels /\ levels[k].before # "none" => (k \in f.befores <=> hooks)

\* Hooks run for a frame unless a bracket is open in a frame below it.
Hears(guard, frames, i) == ~guard \/ \A j \in 1..(i - 1) : frames[j].done

Open(frames) == {i \in 1..Len(frames) : ~frames[i].done}

\* The frames of the goroutine and its suppression count.
StackInv(w, frames, count) ==
  /\ frames \in Seq(Frame) /\ count \in Int
  /\ count = Cardinality(Open(frames))
  /\ \A i \in 1..Len(frames) :
       /\ FrameInv(w.levels, frames[i])
       /\ Heard(w.levels, frames[i], Hears(w.guard, frames, i))
       /\ i < Len(frames) => frames[i].at \in {"body", "bracket"}

ReturnedInv ==
  \/ returned = NoFrame
  \/ /\ FrameInv(woven.levels, returned)
     /\ returned.at = "unwind" /\ returned.deferred = <<>>

TrampolineInv ==
  LevelsInv(woven.levels) /\ StackInv(woven, calls, suppressed) /\ ReturnedInv
-----------------------------------------------------------------------------
(* Sequences                                                               *)

\* What a sequence holds after an element is added at the end.
LEMMA HoldsAppend ==
  ASSUME NEW s \in Seq(Int), NEW e \in Int
  PROVE  /\ Append(s, e) \in Seq(Int) /\ Len(Append(s, e)) = Len(s) + 1
         /\ Append(s, e)[Len(s) + 1] = e
         /\ \A i \in 1..Len(s) : Append(s, e)[i] = s[i]
         /\ \A x : Holds(Append(s, e), x) <=> Holds(s, x) \/ x = e
<1>1. /\ Append(s, e) \in Seq(Int) /\ Len(Append(s, e)) = Len(s) + 1 /\ Len(s) \in Nat
      /\ Append(s, e)[Len(s) + 1] = e
      /\ \A i \in 1..Len(s) : Append(s, e)[i] = s[i]
  OBVIOUS
<1>2. ASSUME NEW x PROVE Holds(Append(s, e), x) <=> Holds(s, x) \/ x = e
  <2>1. ASSUME Holds(s, x) PROVE Holds(Append(s, e), x)
    BY <1>1, <2>1 DEF Holds
  <2>2. ASSUME x = e PROVE Holds(Append(s, e), x)
    <3>1. Len(s) + 1 \in 1..Len(Append(s, e))
      BY <1>1
    <3> QED BY <1>1, <2>2, <3>1 DEF Holds
  <2>3. ASSUME NEW i \in 1..Len(Append(s, e)), Append(s, e)[i] = x, x # e PROVE Holds(s, x)
    <3>1. i \in 1..Len(s)
      BY <1>1, <2>3
    <3> QED BY <1>1, <2>3, <3>1 DEF Holds
  <2> QED BY <2>1, <2>2, <2>3 DEF Holds
<1> QED BY <1>1, <1>2

\* A sequence without its last element.
LEMMA FrontOf ==
  ASSUME NEW S, NEW s \in Seq(S), s # <<>>
  PROVE  LET r == SubSeq(s, 1, Len(s) - 1)
         IN /\ r \in Seq(S) /\ Len(r) = Len(s) - 1 /\ Len(s) \in Nat \ {0} /\ s[Len(s)] \in S
            /\ \A i \in 1..(Len(s) - 1) : r[i] = s[i]
<1> DEFINE n == Len(s) - 1
           r == SubSeq(s, 1, n)
<1>1. Len(s) \in Nat \ {0} /\ \A i \in 1..Len(s) : s[i] \in S
  OBVIOUS
<1>2. n \in Nat /\ \A i \in 1..n : s[i] \in S
  BY <1>1
<1>3. /\ r \in Seq(S)
      /\ Len(r) = IF 1 <= n THEN n - 1 + 1 ELSE 0
      /\ \A i \in 1..(n - 1 + 1) : r[i] = s[1 + i - 1]
  BY <1>2, SubSeqProperties
<1>4. Len(r) = n /\ \A i \in 1..n : r[i] = s[i]
  <2> HIDE DEF r, n
  <2> QED BY <1>2, <1>3
<1> QED BY <1>1, <1>2, <1>3, <1>4

\* What a sequence holds without its last element.
LEMMA HoldsFront ==
  ASSUME NEW s \in Seq(Int), s # <<>>, NEW x
  PROVE  Holds(s, x) <=> Holds(SubSeq(s, 1, Len(s) - 1), x) \/ x = s[Len(s)]
<1> DEFINE r == SubSeq(s, 1, Len(s) - 1)
<1>1. /\ Len(r) = Len(s) - 1 /\ Len(s) \in Nat \ {0}
      /\ \A i \in 1..(Len(s) - 1) : r[i] = s[i]
  BY FrontOf
<1> HIDE DEF r
<1>2. ASSUME Holds(r, x) PROVE Holds(s, x)
  BY <1>1, <1>2 DEF Holds
<1>3. ASSUME x = s[Len(s)] PROVE Holds(s, x)
  BY <1>1, <1>3 DEF Holds
<1>4. ASSUME NEW i \in 1..Len(s), s[i] = x, x # s[Len(s)] PROVE Holds(r, x)
  <2>1. i \in 1..Len(r)
    BY <1>1, <1>4
  <2> QED BY <1>1, <1>4, <2>1 DEF Holds
<1> QED BY <1>2, <1>3, <1>4 DEF Holds, r
-----------------------------------------------------------------------------
(* Frames: what each action makes of the running one keeps FrameInv.         *)

\* The frame of a call that starts satisfies FrameInv.
LEMMA NewFrameInv ==
  ASSUME NEW levels
  PROVE  FrameInv(levels, NewFrame)
<1>1. NewFrame \in Frame
  BY DEF NewFrame, Frame, Zero
<1>2. /\ NewFrame.at = "jumps" /\ NewFrame.deferred = <<>> /\ NewFrame.afters = <<>>
      /\ NewFrame.done /\ NewFrame.befores = {} /\ NewFrame.asked = {} /\ NewFrame.ran = 0
      /\ ~NewFrame.panicking /\ ~NewFrame.threw /\ ~NewFrame.recovers
  BY DEF NewFrame
<1> QED
  BY <1>1, <1>2 DEF FrameInv, BracketInv, DeferredInv, PairInv, OutcomeInv, Holds

\* A level is behind, its Before hook ran or not, its After trampoline is
\* deferred or does not exist.
LEMMA LevelPassed ==
  ASSUME NEW levels, NEW f, FrameInv(levels, f), f.at = "jumps", f.level \in DOMAIN levels,
         NEW g \in Frame, g.level = f.level + 1, g.at = f.at,
         g.done = f.done, g.afters = f.afters, g.asked = f.asked, g.ran = f.ran,
         g.panicking = f.panicking, g.threw = f.threw, g.recovers = f.recovers,
         \/ g.deferred = Append(f.deferred, f.level)
         \/ g.deferred = f.deferred /\ ~levels[f.level].after,
         \/ g.befores = f.befores
         \/ g.befores = f.befores \cup {f.level} /\ levels[f.level].before # "none"
  PROVE  FrameInv(levels, g)
<1> USE DEF FrameInv
<1>1. /\ f.deferred \in Seq(Int) /\ f.level \in Nat \ {0} /\ f.befores \in SUBSET Int
      /\ f.afters = <<>> /\ f.asked = {} /\ f.done
  BY DEF Frame, DeferredInv, OutcomeInv, BracketInv
<1>2. /\ Append(f.deferred, f.level)[Len(f.deferred) + 1] = f.level
      /\ Len(Append(f.deferred, f.level)) = Len(f.deferred) + 1 /\ Len(f.deferred) \in Nat
      /\ \A i \in 1..Len(f.deferred) : Append(f.deferred, f.level)[i] = f.deferred[i]
      /\ \A x : Holds(Append(f.deferred, f.level), x) <=> Holds(f.deferred, x) \/ x = f.level
  BY <1>1, HoldsAppend
<1>3. \A i \in 1..Len(f.deferred) :
        /\ f.deferred[i] > 0 /\ f.deferred[i] < f.level /\ f.deferred[i] \in DOMAIN levels
        /\ f.deferred[i] \in Int
        /\ \A j \in 1..(i - 1) : f.deferred[j] > 0 /\ f.deferred[j] < f.deferred[i]
  BY <1>1 DEF DeferredInv
<1>4. BracketInv(g)
  BY <1>1 DEF BracketInv
<1>5. DeferredInv(levels, g)
  <2>1. CASE g.deferred = f.deferred
    BY <1>1, <1>3, <2>1 DEF DeferredInv
  <2>2. CASE g.deferred = Append(f.deferred, f.level)
    <3>1. ASSUME NEW i \in 1..Len(g.deferred)
          PROVE  /\ g.deferred[i] > 0 /\ g.deferred[i] < g.level /\ g.deferred[i] \in DOMAIN levels
                 /\ \A j \in 1..(i - 1) : g.deferred[j] > 0 /\ g.deferred[j] < g.deferred[i]
      <4>1. CASE i = Len(f.deferred) + 1
        BY <1>1, <1>2, <1>3, <2>2, <4>1
      <4>2. CASE i \in 1..Len(f.deferred)
        BY <1>1, <1>2, <1>3, <2>2, <4>2
      <4> QED BY <1>2, <2>2, <4>1, <4>2
    <3> QED BY <1>1, <3>1 DEF DeferredInv
  <2> QED BY <2>1, <2>2
<1>6. PairInv(levels, g)
  <2>1. ASSUME NEW k \in f.befores
        PROVE  /\ k \in DOMAIN levels /\ levels[k].before # "none" /\ k < f.level /\ k > 0
               /\ levels[k].after => Holds(f.deferred, k) \/ Holds(f.afters, k)
    BY DEF PairInv
  <2>2. ASSUME NEW k \in f.befores PROVE k \in Int
    BY <1>1
  <2>3. \A x : Holds(f.deferred, x) => Holds(g.deferred, x)
    BY <1>2
  <2>4. levels[f.level].after => Holds(g.deferred, f.level)
    BY <1>2
  <2> QED BY <1>1, <2>1, <2>2, <2>3, <2>4 DEF PairInv
<1>7. OutcomeInv(g)
  <2>1. ~Holds(f.deferred, Recover) /\ f.level # Recover
    BY <1>1, <1>3 DEF Holds, Recover
  <2>2. ~Holds(g.deferred, Recover)
    BY <1>2, <2>1
  <2> QED BY <1>1, <2>2 DEF OutcomeInv, Holds
<1> QED BY <1>4, <1>5, <1>6, <1>7

\* A Before hook asked to skip: its After trampoline runs at once.
LEMMA LevelSkips ==
  ASSUME NEW levels, NEW f, FrameInv(levels, f), f.at = "jumps", f.level \in DOMAIN levels,
         levels[f.level].before # "none",
         NEW g \in Frame, g.level = f.level, g.at = "unwind", g.deferred = f.deferred,
         g.done = f.done, g.ran = f.ran, g.panicking = f.panicking, g.threw = f.threw,
         g.recovers = f.recovers,
         g.befores = f.befores \cup {f.level}, g.asked = f.asked \cup {f.level},
         \/ g.afters = Append(f.afters, f.level)
         \/ g.afters = f.afters /\ ~levels[f.level].after
  PROVE  FrameInv(levels, g)
<1> USE DEF FrameInv
<1>1. /\ f.deferred \in Seq(Int) /\ f.level \in Nat \ {0} /\ f.befores \in SUBSET Int
      /\ f.afters = <<>> /\ f.asked = {} /\ f.done /\ f.ran = 0 /\ ~f.recovers
      /\ ~f.panicking /\ ~f.threw
  BY DEF Frame, DeferredInv, OutcomeInv, BracketInv
<1>2. \A i \in 1..Len(f.deferred) :
        /\ f.deferred[i] > 0 /\ f.deferred[i] < f.level /\ f.deferred[i] \in DOMAIN levels
        /\ f.deferred[i] \in Int
        /\ \A j \in 1..(i - 1) : f.deferred[j] > 0 /\ f.deferred[j] < f.deferred[i]
  BY <1>1 DEF DeferredInv
<1>3. \/ g.afters = <<>> /\ ~levels[f.level].after
      \/ Len(g.afters) = 1 /\ g.afters[1] = f.level
  <2>1. << >> \in Seq(Int) /\ Len(<< >>) = 0 /\ f.level \in Int
    BY <1>1
  <2>2. Len(Append(<< >>, f.level)) = 1 /\ Append(<< >>, f.level)[1] = f.level
    BY <2>1, HoldsAppend
  <2> QED BY <1>1, <2>2
<1>4. BracketInv(g)
  BY <1>1 DEF BracketInv
<1>5. DeferredInv(levels, g)
  <2>1. ASSUME NEW i \in 1..Len(g.afters)
        PROVE  i = 1 /\ g.afters[i] = f.level
    BY <1>3
  <2> QED BY <1>1, <1>2, <2>1 DEF DeferredInv
<1>6. PairInv(levels, g)
  <2>1. ASSUME NEW k \in f.befores
        PROVE  /\ k \in DOMAIN levels /\ levels[k].before # "none"
               /\ k < f.level /\ k > 0 /\ k \in Int
               /\ levels[k].after => Holds(f.deferred, k)
    BY <1>1 DEF PairInv, Holds
  <2>2. levels[f.level].after => Holds(g.afters, f.level)
    BY <1>3 DEF Holds
  <2> QED BY <1>1, <2>1, <2>2 DEF PairInv
<1>7. OutcomeInv(g)
  <2>1. ~Holds(f.deferred, Recover)
    BY <1>1, <1>2 DEF Holds, Recover
  <2>2. \A k \in f.befores : k < f.level
    BY DEF PairInv
  <2> QED BY <1>1, <2>1, <2>2 DEF OutcomeInv, Holds
<1> QED BY <1>4, <1>5, <1>6, <1>7

\* The body, or a bracket in it, defers one more call.
LEMMA BodyDefers ==
  ASSUME NEW levels, NEW f, FrameInv(levels, f), f.at \in {"jumps", "body"},
         f.level \notin DOMAIN levels \/ f.at = "body",
         NEW g \in Frame, g.level = f.level, g.at \in {"body", "bracket"}, 
         g.afters = f.afters, g.asked = f.asked, g.panicking = f.panicking, g.threw = f.threw,
         g.befores = f.befores, g.ran = 1,
         g.done <=> g.at = "body",
         \/ /\ f.at = "jumps" /\ g.at = "body"
            /\ \/ g.recovers /\ g.deferred = Append(f.deferred, Recover)
               \/ ~g.recovers /\ g.deferred = f.deferred
         \/ /\ f.at = "body" /\ g.at = "bracket" /\ g.recovers = f.recovers
            /\ g.deferred = Append(f.deferred, Fallback)
  PROVE  FrameInv(levels, g)
<1> USE DEF FrameInv
<1>1. /\ f.deferred \in Seq(Int) /\ f.level \in Nat \ {0} /\ f.befores \in SUBSET Int
      /\ f.afters = <<>> /\ f.asked = {} /\ ~f.panicking /\ ~f.threw /\ f.recovers \in BOOLEAN
  BY DEF Frame, DeferredInv, OutcomeInv
<1>2. PICK d \in {Fallback, Recover} :
        \/ g.deferred = Append(f.deferred, d)
        \/ g.deferred = f.deferred /\ f.at = "jumps" /\ ~g.recovers
  OBVIOUS
<1>3. d \in Int /\ d <= 0
  BY DEF Fallback, Recover
<1>4. /\ Append(f.deferred, d)[Len(f.deferred) + 1] = d
      /\ Len(Append(f.deferred, d)) = Len(f.deferred) + 1 /\ Len(f.deferred) \in Nat
      /\ \A i \in 1..Len(f.deferred) : Append(f.deferred, d)[i] = f.deferred[i]
      /\ \A x : Holds(Append(f.deferred, d), x) <=> Holds(f.deferred, x) \/ x = d
  BY <1>1, <1>3, HoldsAppend
<1>5. BracketInv(g)
  <2>1. Fallback \in Int
    BY DEF Fallback
  <2>2. Holds(Append(f.deferred, Fallback), Fallback)
    BY <1>1, <2>1, HoldsAppend
  <2> QED BY <2>2 DEF BracketInv
<1>6. DeferredInv(levels, g)
  <2>1. CASE g.deferred = f.deferred
    BY <1>1, <2>1 DEF DeferredInv
  <2>2. CASE g.deferred = Append(f.deferred, d)
    <3>1. ASSUME NEW i \in 1..Len(g.deferred)
          PROVE  \/ g.deferred[i] \in {Fallback, Recover}
                 \/ /\ g.deferred[i] > 0 /\ g.deferred[i] < g.level
                    /\ g.deferred[i] \in DOMAIN levels
                    /\ \A j \in 1..(i - 1) : g.deferred[j] > 0 /\ g.deferred[j] < g.deferred[i]
      <4>1. CASE i = Len(f.deferred) + 1
        BY <1>4, <2>2, <4>1
      <4>2. CASE i \in 1..Len(f.deferred)
        BY <1>1, <1>4, <2>2, <4>2 DEF DeferredInv
      <4> QED BY <1>4, <2>2, <4>1, <4>2
    <3> QED BY <1>1, <3>1 DEF DeferredInv
  <2> QED BY <1>2, <2>1, <2>2
<1>7. PairInv(levels, g)
  <2>1. \A x : Holds(f.deferred, x) => Holds(g.deferred, x)
    BY <1>2, <1>4
  <2>2. \A k \in f.befores : k <= f.level
    BY DEF PairInv
  <2> QED BY <2>1, <2>2 DEF PairInv
<1>8. OutcomeInv(g)
  <2>1. CASE f.at = "jumps"
    <3>1. ~Holds(f.deferred, Recover)
      BY <2>1 DEF DeferredInv, Holds, Recover
    <3>2. \/ g.recovers /\ g.deferred = Append(f.deferred, Recover)
          \/ ~g.recovers /\ g.deferred = f.deferred
      BY <2>1
    <3>3. Holds(g.deferred, Recover) <=> g.recovers
      <4>1. Recover \in Int
        BY DEF Recover
      <4>2. Holds(Append(f.deferred, Recover), Recover)
        BY <1>1, <4>1, HoldsAppend
      <4> QED BY <3>1, <3>2, <4>2
    <3>4. ASSUME NEW i \in 1..Len(g.deferred), g.deferred[i] = Recover
          PROVE  i = Len(f.deferred) + 1
      <4>1. i \notin 1..Len(f.deferred) \/ f.deferred[i] # Recover
        BY <3>1 DEF Holds
      <4>2. g.deferred = Append(f.deferred, Recover)
        BY <3>2, <3>3, <3>1, <3>4 DEF Holds
      <4>3. Len(g.deferred) = Len(f.deferred) + 1 /\ Len(f.deferred) \in Nat
            /\ \A j \in 1..Len(f.deferred) : g.deferred[j] = f.deferred[j]
        BY <1>1, <4>2, HoldsAppend DEF Recover
      <4> QED BY <3>4, <4>1, <4>3
    <3> QED BY <1>1, <2>1, <3>3, <3>4 DEF OutcomeInv
  <2>2. CASE f.at = "body"
    <3>1. g.deferred = Append(f.deferred, Fallback) /\ g.recovers = f.recovers
      BY <2>2
    <3>2. /\ Len(g.deferred) = Len(f.deferred) + 1 /\ Len(f.deferred) \in Nat
          /\ g.deferred[Len(f.deferred) + 1] # Recover
          /\ \A j \in 1..Len(f.deferred) : g.deferred[j] = f.deferred[j]
          /\ Holds(g.deferred, Recover) <=> Holds(f.deferred, Recover)
      BY <1>1, <3>1, HoldsAppend DEF Recover, Fallback
    <3>3. ASSUME NEW i \in 1..Len(g.deferred), g.deferred[i] = Recover
          PROVE  i \in 1..Len(f.deferred) /\ f.deferred[i] = Recover
      BY <3>2, <3>3
    <3> QED BY <1>1, <2>2, <3>1, <3>2, <3>3 DEF OutcomeInv
  <2> QED BY <2>1, <2>2
<1> QED BY <1>5, <1>6, <1>7, <1>8

\* A bracket ends, or the function is called again.
LEMMA BodyGoesOn ==
  ASSUME NEW levels, NEW f, FrameInv(levels, f), f.at \in {"body", "bracket"},
         NEW g \in Frame, g.level = f.level, g.deferred = f.deferred,
         g.afters = f.afters, g.asked = f.asked, g.panicking = f.panicking, g.threw = f.threw,
         g.befores = f.befores, g.ran = f.ran, g.recovers = f.recovers,
         \/ g.at = f.at /\ g.done = f.done
         \/ g.at = "body" /\ g.done
  PROVE  FrameInv(levels, g)
<1> USE DEF FrameInv
<1>1. BracketInv(g)
  BY DEF BracketInv, Holds
<1>2. DeferredInv(levels, g)
  BY DEF DeferredInv
<1>3. PairInv(levels, g)
  BY DEF PairInv, Holds
<1>4. OutcomeInv(g)
  BY DEF OutcomeInv, Holds
<1> QED BY <1>1, <1>2, <1>3, <1>4

\* The body returns or panics, or a panic of the function it called arrives.
LEMMA BodyEnds ==
  ASSUME NEW levels, NEW f, FrameInv(levels, f), f.at \in {"body", "bracket"},
         NEW g \in Frame, g.at = "unwind", g.level = f.level, g.deferred = f.deferred,
         g.afters = f.afters, g.asked = f.asked, g.done = f.done,
         g.befores = f.befores, g.ran = f.ran, g.recovers = f.recovers, g.panicking = g.threw
  PROVE  FrameInv(levels, g)
<1> USE DEF FrameInv
<1>1. BracketInv(g)
  BY DEF BracketInv, Holds
<1>2. DeferredInv(levels, g)
  BY DEF DeferredInv
<1>3. PairInv(levels, g)
  BY DEF PairInv, Holds
<1>4. OutcomeInv(g)
  BY DEF OutcomeInv, Holds
<1> QED BY <1>1, <1>2, <1>3, <1>4

\* The last deferred call has run: the end of a bracket, a recover() of the
\* application, or an After trampoline, whose hook ran or not.
LEMMA DeferredRuns ==
  ASSUME NEW levels, NEW f, FrameInv(levels, f), f.at = "unwind", f.deferred # <<>>,
         NEW d, d = f.deferred[Len(f.deferred)],
         NEW g \in Frame, g.at = f.at, g.level = f.level, g.asked = f.asked,
         g.deferred = SubSeq(f.deferred, 1, Len(f.deferred) - 1),
         g.befores = f.befores, g.ran = f.ran, g.recovers = f.recovers, g.threw = f.threw,
         d = Recover => ~g.panicking,
         d # Recover => g.panicking = f.panicking,
         d = Fallback => g.done,
         d # Fallback => g.done = f.done,
         \/ d \in {Fallback, Recover} /\ g.afters = f.afters
         \/ d > 0 /\ g.afters = f.afters /\ d \notin f.befores
         \/ /\ d > 0 /\ g.afters = Append(f.afters, d)
            /\ levels[d].before # "none" => d \in f.befores
  PROVE  FrameInv(levels, g)
<1> USE DEF FrameInv
<1>1. f.deferred \in Seq(Int) /\ f.afters \in Seq(Int) /\ f.befores \in SUBSET Int
  BY DEF Frame
<1>2. /\ Len(g.deferred) = Len(f.deferred) - 1 /\ Len(f.deferred) \in Nat \ {0}
      /\ d \in Int /\ g.deferred \in Seq(Int)
      /\ \A i \in 1..(Len(f.deferred) - 1) : g.deferred[i] = f.deferred[i]
  BY <1>1, FrontOf
<1>3. \A x : Holds(f.deferred, x) <=> Holds(g.deferred, x) \/ x = d
  BY <1>1, HoldsFront
<1>a. /\ Len(Append(f.afters, d)) = Len(f.afters) + 1 /\ Len(f.afters) \in Nat
      /\ Append(f.afters, d)[Len(f.afters) + 1] = d
      /\ \A i \in 1..Len(f.afters) : Append(f.afters, d)[i] = f.afters[i]
      /\ \A x : Holds(Append(f.afters, d), x) <=> Holds(f.afters, x) \/ x = d
  <2>1. f.afters \in Seq(Int) /\ d \in Int
    BY <1>1, <1>2
  <2> QED BY <2>1, HoldsAppend
<1>4. \/ g.afters = f.afters /\ (d > 0 => d \notin f.befores)
      \/ /\ Len(g.afters) = Len(f.afters) + 1 /\ Len(f.afters) \in Nat
         /\ g.afters[Len(f.afters) + 1] = d
         /\ \A i \in 1..Len(f.afters) : g.afters[i] = f.afters[i]
         /\ \A x : Holds(g.afters, x) <=> Holds(f.afters, x) \/ x = d
         /\ d > 0 /\ levels[d].before # "none" => d \in f.befores
  <2>1. CASE d \in {Fallback, Recover} /\ g.afters = f.afters
    BY <2>1 DEF Fallback, Recover
  <2>2. CASE d > 0 /\ g.afters = f.afters /\ d \notin f.befores
    BY <2>2
  <2>3. CASE /\ d > 0 /\ g.afters = Append(f.afters, d)
             /\ levels[d].before # "none" => d \in f.befores
    BY <1>a, <2>3
  <2> QED BY <2>1, <2>2, <2>3
<1>5. Fallback \in Int /\ Recover \in Int /\ Fallback <= 0 /\ Recover <= 0
      /\ Fallback # Recover
  BY DEF Fallback, Recover
<1>6. BracketInv(g)
  BY <1>3 DEF BracketInv
<1>7. d > 0 =>
        /\ d \in DOMAIN levels
        /\ \A i \in 1..Len(g.deferred) : g.deferred[i] > 0 /\ g.deferred[i] < d
  <2>1. Len(f.deferred) \in 1..Len(f.deferred)
    BY <1>2
  <2>2. d \in {Fallback, Recover} \/
        /\ d \in DOMAIN levels
        /\ \A j \in 1..(Len(f.deferred) - 1) : f.deferred[j] > 0 /\ f.deferred[j] < d
    BY <2>1 DEF DeferredInv
  <2> QED BY <1>2, <1>5, <2>2
<1>8. DeferredInv(levels, g)
  <2>1. ASSUME NEW i \in 1..Len(g.deferred)
        PROVE  \/ g.deferred[i] \in {Fallback, Recover}
               \/ /\ g.deferred[i] > 0 /\ g.deferred[i] < g.level
                  /\ g.deferred[i] \in DOMAIN levels
                  /\ \A j \in 1..(i - 1) : g.deferred[j] > 0 /\ g.deferred[j] < g.deferred[i]
    BY <1>2 DEF DeferredInv
  <2>2. ASSUME NEW i \in 1..Len(f.afters)
        PROVE  /\ f.afters[i] \in DOMAIN levels /\ f.afters[i] > d /\ f.afters[i] \in Int
               /\ \A j \in 1..Len(g.deferred) : f.afters[i] > g.deferred[j]
               /\ \A j \in 1..(i - 1) : f.afters[j] > f.afters[i]
               /\ levels[f.afters[i]].before # "none" => f.afters[i] \in f.befores
    <3>1. /\ f.afters[i] \in DOMAIN levels
          /\ \A j \in 1..Len(f.deferred) : f.afters[i] > f.deferred[j]
          /\ \A j \in 1..(i - 1) : f.afters[j] > f.afters[i]
          /\ levels[f.afters[i]].before # "none" => f.afters[i] \in f.befores
      BY DEF DeferredInv
    <3>2. f.afters[i] \in Int
      BY <1>1
    <3>3. f.afters[i] > d
      <4>1. Len(f.deferred) \in 1..Len(f.deferred)
        BY <1>2
      <4> QED BY <3>1, <4>1
    <3>4. \A j \in 1..Len(g.deferred) : f.afters[i] > g.deferred[j]
      <4>1. \A j \in 1..Len(g.deferred) : j \in 1..Len(f.deferred) /\ g.deferred[j] = f.deferred[j]
        BY <1>2
      <4> QED BY <3>1, <4>1
    <3> QED BY <3>1, <3>2, <3>3, <3>4
  <2>3. CASE g.afters = f.afters
    BY <2>1, <2>2, <2>3 DEF DeferredInv
  <2>4. CASE g.afters # f.afters
    <3>1. ASSUME NEW i \in 1..Len(g.afters)
          PROVE  /\ g.afters[i] \in DOMAIN levels
                 /\ \A j \in 1..Len(g.deferred) : g.afters[i] > g.deferred[j]
                 /\ \A j \in 1..(i - 1) : g.afters[j] > g.afters[i]
                 /\ levels[g.afters[i]].before # "none" => g.afters[i] \in g.befores
      <4>1. CASE i \in 1..Len(f.afters)
        <5>1. g.afters[i] = f.afters[i] /\ \A j \in 1..(i - 1) : g.afters[j] = f.afters[j]
          BY <1>4, <2>4, <4>1
        <5> QED BY <2>2, <4>1, <5>1
      <4>2. CASE i = Len(f.afters) + 1
        BY <1>2, <1>4, <1>7, <2>2, <2>4, <4>2, SMTT(20)
      <4> QED BY <1>4, <2>4, <4>1, <4>2
    <3> QED BY <2>1, <3>1 DEF DeferredInv
  <2> QED BY <2>3, <2>4
<1>9. PairInv(levels, g)
  <2>1. \A x : Holds(f.afters, x) => Holds(g.afters, x)
    BY <1>4
  <2>2. ASSUME NEW k \in f.befores, levels[k].after
        PROVE  Holds(g.deferred, k) \/ Holds(g.afters, k)
    <3>1. k > 0 /\ (Holds(f.deferred, k) \/ Holds(f.afters, k))
      BY <2>2 DEF PairInv
    <3>2. CASE k = d
      <4>1. g.afters # f.afters
        BY <1>4, <3>1, <3>2
      <4> QED BY <1>4, <3>2, <4>1
    <3>3. CASE k # d
      BY <1>3, <2>1, <3>1, <3>3
    <3> QED BY <3>2, <3>3
  <2> QED BY <2>2 DEF PairInv
<1>10. OutcomeInv(g)
  <2>1. ASSUME d = Recover PROVE ~Holds(g.deferred, Recover)
    <3>1. \A i \in 1..Len(f.deferred) : f.deferred[i] = Recover => i = Len(f.deferred)
      <4>1. Len(f.deferred) \in 1..Len(f.deferred) /\ f.deferred[Len(f.deferred)] = Recover
        BY <1>2, <2>1
      <4> QED BY <4>1 DEF OutcomeInv
    <3> QED BY <1>2, <3>1 DEF Holds
  <2>2. Holds(g.deferred, Recover) => Holds(f.deferred, Recover)
    BY <1>3
  <2>3. d # Recover => (Holds(g.deferred, Recover) <=> Holds(f.deferred, Recover))
    BY <1>3
  <2>4. \A i, j \in 1..Len(g.deferred) :
          g.deferred[i] = Recover /\ g.deferred[j] = Recover => i = j
    <3>1. \A i \in 1..Len(g.deferred) : i \in 1..Len(f.deferred) /\ g.deferred[i] = f.deferred[i]
      BY <1>2
    <3> QED BY <3>1 DEF OutcomeInv
  <2>5. g.panicking <=> g.threw /\ (g.recovers => Holds(g.deferred, Recover))
    <3>1. CASE d = Recover
      <4>1. f.recovers
        BY <1>3, <3>1 DEF OutcomeInv
      <4> QED BY <2>1, <3>1, <4>1
    <3>2. CASE d # Recover
      BY <2>3, <3>2 DEF OutcomeInv
    <3> QED BY <3>1, <3>2
  <2> QED BY <2>2, <2>4, <2>5 DEF OutcomeInv
<1> QED BY <1>6, <1>8, <1>9, <1>10
-----------------------------------------------------------------------------
(* Stacks: a frame is replaced, pushed or taken off.                         *)

\* Only finitely many frames have a bracket open, so that they can be counted.
LEMMA OpenFinite ==
  ASSUME NEW s \in Seq(Frame)
  PROVE  IsFiniteSet(Open(s))
<1>1. Len(s) \in Nat
  OBVIOUS
<1>2. IsFiniteSet(1..Len(s))
  BY <1>1, FS_Interval
<1>3. Open(s) \in SUBSET (1..Len(s))
  BY DEF Open
<1> QED BY <1>2, <1>3, FS_Subset

\* The count tells the running frame, when it has no bracket open, whether its
\* hooks run.
LEMMA CountTells ==
  ASSUME NEW w, NEW s, NEW n, StackInv(w, s, n), s # <<>>, s[Len(s)].done
  PROVE  (~w.guard \/ n = 0) <=> Hears(w.guard, s, Len(s))
<1>1. s \in Seq(Frame) /\ n = Cardinality(Open(s)) /\ Len(s) \in Nat
  BY DEF StackInv
<1>2. n = 0 <=> Open(s) = {}
  BY <1>1, OpenFinite, FS_EmptySet
<1>3. Open(s) = {} <=> \A j \in 1..(Len(s) - 1) : s[j].done
  BY <1>1 DEF Open
<1> QED BY <1>2, <1>3 DEF Hears

\* The running frame is replaced: the count follows its bracket.
LEMMA ReplaceTop ==
  ASSUME NEW w, NEW s, NEW n, StackInv(w, s, n), s # <<>>,
         NEW g, FrameInv(w.levels, g), Heard(w.levels, g, Hears(w.guard, s, Len(s)))
  PROVE  StackInv(w, [s EXCEPT ![Len(s)] = g],
                  IF s[Len(s)].done /\ ~g.done THEN n + 1
                  ELSE IF ~s[Len(s)].done /\ g.done THEN n - 1 ELSE n)
<1> DEFINE t == [s EXCEPT ![Len(s)] = g]
           f == s[Len(s)]
           m == IF f.done /\ ~g.done THEN n + 1 ELSE IF ~f.done /\ g.done THEN n - 1 ELSE n
<1>1. s \in Seq(Frame) /\ n \in Int /\ n = Cardinality(Open(s)) /\ g \in Frame
  BY DEF StackInv, FrameInv
<1>2. Len(s) \in Nat \ {0} /\ Len(s) \in 1..Len(s)
  BY <1>1
<1>3. /\ t \in Seq(Frame) /\ Len(t) = Len(s) /\ t[Len(s)] = g
      /\ \A i \in 1..(Len(s) - 1) : t[i] = s[i]
  BY <1>1, <1>2
<1>4. f.done \in BOOLEAN /\ g.done \in BOOLEAN
  <2>1. f \in Frame
    BY <1>1, <1>2
  <2> QED BY <1>1, <2>1 DEF Frame
<1> HIDE DEF t
<1>5. m \in Int /\ m = Cardinality(Open(t))
  <2>1. CASE f.done /\ ~g.done
    <3>1. Open(t) = Open(s) \cup {Len(s)} /\ Len(s) \notin Open(s)
      BY <1>2, <1>3, <2>1 DEF Open
    <3>2. Cardinality(Open(s) \cup {Len(s)}) = Cardinality(Open(s)) + 1
      BY <1>1, <3>1, OpenFinite, FS_AddElement
    <3> QED BY <1>1, <2>1, <3>1, <3>2
  <2>2. CASE ~f.done /\ g.done
    <3>1. Open(t) = Open(s) \ {Len(s)} /\ Len(s) \in Open(s)
      BY <1>2, <1>3, <2>2 DEF Open
    <3>2. Cardinality(Open(s) \ {Len(s)}) = Cardinality(Open(s)) - 1
      BY <1>1, <3>1, OpenFinite, FS_RemoveElement
    <3> QED BY <1>1, <2>2, <3>1, <3>2
  <2>3. CASE f.done <=> g.done
    <3>1. Open(t) = Open(s)
      BY <1>2, <1>3, <2>3 DEF Open
    <3> QED BY <1>1, <1>4, <2>3, <3>1
  <2> QED BY <1>4, <2>1, <2>2, <2>3
<1>6. ASSUME NEW i \in 1..Len(t)
      PROVE  /\ FrameInv(w.levels, t[i])
             /\ Heard(w.levels, t[i], Hears(w.guard, t, i))
             /\ i < Len(t) => t[i].at \in {"body", "bracket"}
  <2>1. Hears(w.guard, t, i) <=> Hears(w.guard, s, i)
    BY <1>2, <1>3, SMTT(20) DEF Hears
  <2>2. CASE i = Len(s)
    BY <1>3, <2>1, <2>2 DEF Heard
  <2>3. CASE i # Len(s)
    <3>1. i \in 1..(Len(s) - 1) /\ i \in 1..Len(s) /\ i < Len(s) /\ t[i] = s[i]
      BY <1>2, <1>3, <2>3
    <3> QED BY <2>1, <3>1 DEF StackInv, Heard
  <2> QED BY <2>2, <2>3
<1> QED BY <1>3, <1>5, <1>6 DEF StackInv, t

\* The function is called: a new frame is pushed.
LEMMA PushNew ==
  ASSUME NEW w, NEW s, NEW n, StackInv(w, s, n),
         s = <<>> \/ s[Len(s)].at \in {"body", "bracket"}
  PROVE  StackInv(w, Append(s, NewFrame), n)
<1> DEFINE t == Append(s, NewFrame)
<1>1. s \in Seq(Frame) /\ n \in Int /\ n = Cardinality(Open(s)) /\ Len(s) \in Nat
  BY DEF StackInv
<1>2. FrameInv(w.levels, NewFrame) /\ NewFrame \in Frame /\ NewFrame.done /\ NewFrame.level = 1
  BY NewFrameInv DEF FrameInv, NewFrame
<1>3. /\ t \in Seq(Frame) /\ Len(t) = Len(s) + 1 /\ t[Len(s) + 1] = NewFrame
      /\ \A i \in 1..Len(s) : t[i] = s[i]
  BY <1>1, <1>2
<1> HIDE DEF t
<1>4. Open(t) = Open(s)
  BY <1>1, <1>2, <1>3 DEF Open
<1>5. ASSUME NEW i \in 1..Len(t)
      PROVE  /\ FrameInv(w.levels, t[i])
             /\ Heard(w.levels, t[i], Hears(w.guard, t, i))
             /\ i < Len(t) => t[i].at \in {"body", "bracket"}
  <2>1. CASE i = Len(s) + 1
    BY <1>1, <1>2, <1>3, <2>1 DEF Heard
  <2>2. CASE i \in 1..Len(s)
    <3>1. Hears(w.guard, t, i) <=> Hears(w.guard, s, i)
      BY <1>1, <1>3, <2>2, SMTT(20) DEF Hears
    <3>2. t[i] = s[i] /\ (i < Len(s) \/ (i = Len(s) /\ s # <<>>))
      BY <1>1, <1>3, <2>2
    <3> QED BY <2>2, <3>1, <3>2 DEF StackInv, Heard
  <2> QED BY <1>1, <1>3, <2>1, <2>2
<1> QED BY <1>1, <1>3, <1>4, <1>5 DEF StackInv, t

\* A call without an open bracket ends: its frame is taken off.
LEMMA PopDone ==
  ASSUME NEW w, NEW s, NEW n, StackInv(w, s, n), s # <<>>, s[Len(s)].done
  PROVE  LET r == SubSeq(s, 1, Len(s) - 1)
         IN StackInv(w, r, n) /\ Len(r) = Len(s) - 1
            /\ (r # <<>> => r[Len(r)].at \in {"body", "bracket"})
<1> DEFINE r == SubSeq(s, 1, Len(s) - 1)
<1>1. s \in Seq(Frame) /\ n \in Int /\ n = Cardinality(Open(s))
  BY DEF StackInv
<1>2. /\ r \in Seq(Frame) /\ Len(r) = Len(s) - 1 /\ Len(s) \in Nat \ {0}
      /\ \A i \in 1..(Len(s) - 1) : r[i] = s[i]
  BY <1>1, FrontOf
<1> HIDE DEF r
<1>3. Open(r) = Open(s)
  BY <1>2 DEF Open
<1>4. ASSUME NEW i \in 1..Len(r)
      PROVE  /\ FrameInv(w.levels, r[i])
             /\ Heard(w.levels, r[i], Hears(w.guard, r, i))
             /\ r[i].at \in {"body", "bracket"}
  <2>1. Hears(w.guard, r, i) <=> Hears(w.guard, s, i)
    BY <1>2 DEF Hears
  <2>2. r[i] = s[i] /\ i < Len(s) /\ i \in 1..Len(s)
    BY <1>2
  <2> QED BY <2>1, <2>2 DEF StackInv, Heard
<1>5. StackInv(w, r, n)
  BY <1>1, <1>2, <1>3, <1>4 DEF StackInv
<1>6. r # <<>> => Len(r) \in 1..Len(r)
  BY <1>2
<1> QED BY <1>2, <1>4, <1>5, <1>6 DEF r
-----------------------------------------------------------------------------
(* The invariant                                                             *)

\* A function that is not woven has no levels.
LEMMA NoLevels == LevelsInv(<< >>)
<1>1. DOMAIN << >> = 1..Len(<< >>) /\ Len(<< >>) = 0
  OBVIOUS
<1>2. DOMAIN << >> = {}
  BY <1>1
<1> QED BY <1>2 DEF LevelsInv

\* The invariant holds when the function has been woven and no call has started.
LEMMA InitInv == TrampolineInit => TrampolineInv
<1> SUFFICES ASSUME TrampolineInit PROVE TrampolineInv
  OBVIOUS
<1>1. LevelsInv(woven.levels)
  <2>1. PICK rs \in RuleLists, marks \in SUBSET {"file ignore", "instrument", "ignore"},
             slot \in Slots, guard \in BOOLEAN :
               woven = [levels |-> Levels(rs, marks), slot |-> slot, guard |-> guard]
    BY DEF TrampolineInit
  <2>2. woven.levels = <<>> \/ woven.levels = Jumps(rs)
    BY <2>1 DEF Levels
  <2>3. CASE woven.levels = <<>>
    BY <2>3, NoLevels
  <2>4. CASE woven.levels = Jumps(rs)
    <3>1. PICK kept : Jumps(rs) = [k \in 1..Len(kept) |-> Level(rs[kept[k]])]
      BY DEF Jumps
    <3>2. ASSUME NEW r
          PROVE  /\ Level(r).form = "deferred only" <=> Level(r).before = "none"
                 /\ Level(r).before = "skips" => Level(r).form = "jump"
      BY DEF Level, Form
    <3>3. ASSUME NEW k \in DOMAIN woven.levels
          PROVE  /\ woven.levels[k].form = "deferred only" <=> woven.levels[k].before = "none"
                 /\ woven.levels[k].before = "skips" => woven.levels[k].form = "jump"
      <4>1. woven.levels[k] = Level(rs[kept[k]])
        BY <2>4, <3>1
      <4> QED BY <3>2, <4>1, Zenon
    <3> QED BY <3>3 DEF LevelsInv
  <2> QED BY <2>2, <2>3, <2>4
<1>2. StackInv(woven, calls, suppressed)
  <2>1. calls = <<>> /\ suppressed = 0
    BY DEF TrampolineInit
  <2>2. Open(calls) = {} /\ Len(calls) = 0 /\ calls \in Seq(Frame)
    BY <2>1 DEF Open
  <2>3. Cardinality(Open(calls)) = 0
    BY <2>2, FS_EmptySet
  <2> QED BY <2>1, <2>2, <2>3 DEF StackInv
<1>3. ReturnedInv
  BY DEF TrampolineInit, ReturnedInv
<1> QED BY <1>1, <1>2, <1>3 DEF TrampolineInv

\* What the invariant says of the running frame.
LEMMA TopFacts ==
  ASSUME TrampolineInv, calls # <<>>
  PROVE  /\ Top = calls[Len(calls)] /\ Depth = Len(calls) /\ Depth \in Nat \ {0}
         /\ FrameInv(woven.levels, Top) /\ Top \in Frame
         /\ Heard(woven.levels, Top, Hears(woven.guard, calls, Len(calls)))
         /\ Top.done => (HooksRun <=> Hears(woven.guard, calls, Len(calls)))
<1>1. StackInv(woven, calls, suppressed)
  BY DEF TrampolineInv
<1>2. Top = calls[Len(calls)] /\ Depth = Len(calls)
  BY DEF Top, Depth
<1>3. Len(calls) \in Nat \ {0} /\ Len(calls) \in 1..Len(calls)
  BY <1>1 DEF StackInv
<1>4. /\ FrameInv(woven.levels, Top)
      /\ Heard(woven.levels, Top, Hears(woven.guard, calls, Len(calls)))
  BY <1>1, <1>2, <1>3 DEF StackInv
<1>5. Top.done => (HooksRun <=> Hears(woven.guard, calls, Len(calls)))
  BY <1>1, <1>2, CountTells DEF HooksRun
<1> QED BY <1>2, <1>3, <1>4, <1>5 DEF FrameInv

\* A step of the running frame keeps the invariant if the frame keeps its own.
LEMMA TopStep ==
  ASSUME TrampolineInv, calls # <<>>, NEW g, FrameInv(woven.levels, g),
         Heard(woven.levels, g, Hears(woven.guard, calls, Len(calls))),
         calls' = Replace(g), UNCHANGED <<woven, returned>>,
         suppressed' = IF Top.done /\ ~g.done THEN suppressed + 1
                       ELSE IF ~Top.done /\ g.done THEN suppressed - 1 ELSE suppressed
  PROVE  TrampolineInv'
<1>1. StackInv(woven, calls, suppressed) /\ LevelsInv(woven.levels) /\ ReturnedInv
  BY DEF TrampolineInv
<1>2. Top = calls[Len(calls)] /\ calls' = [calls EXCEPT ![Len(calls)] = g]
  BY DEF Top, Depth, Replace
<1>3. StackInv(woven, calls', suppressed')
  <2>1. StackInv(woven, [calls EXCEPT ![Len(calls)] = g],
                 IF calls[Len(calls)].done /\ ~g.done THEN suppressed + 1
                 ELSE IF ~calls[Len(calls)].done /\ g.done THEN suppressed - 1 ELSE suppressed)
    BY <1>1, ReplaceTop
  <2> QED BY <1>2, <2>1
<1>4. LevelsInv(woven'.levels) /\ StackInv(woven', calls', suppressed')
  BY <1>1, <1>3
<1>5. ReturnedInv'
  BY <1>1 DEF ReturnedInv
<1> QED BY <1>4, <1>5 DEF TrampolineInv

\* What an After trampoline does to a frame.
LEMMA AfterRuns ==
  ASSUME NEW f \in Frame, NEW k \in Int, NEW g \in AfterTrampoline(f, k)
  PROVE  /\ g \in Frame
         /\ g.at = f.at /\ g.level = f.level /\ g.deferred = f.deferred /\ g.done = f.done
         /\ g.panicking = f.panicking /\ g.recovers = f.recovers /\ g.befores = f.befores
         /\ g.ran = f.ran /\ g.threw = f.threw /\ g.asked = f.asked
         /\ HooksRun => g.afters = Append(f.afters, k)
         /\ ~HooksRun => g.afters = f.afters
<1>1. CASE ~HooksRun
  BY <1>1 DEF AfterTrampoline
<1>2. CASE HooksRun
  <2>1. DEFINE h == [f EXCEPT !.afters = Append(@, k)]
  <2>2. h \in Frame /\ h.afters = Append(f.afters, k)
    <3>1. Append(f.afters, k) \in Seq(Int)
      BY HoldsAppend DEF Frame
    <3> QED BY <3>1 DEF Frame
  <2>3. CASE g = h
    BY <1>2, <2>2, <2>3 DEF Frame
  <2>4. CASE g = SetReturnVal(h, k)
    <3>1. \/ g = [h EXCEPT !.result = k, !.set = k]
          \/ g = [h EXCEPT !.set = k]
      BY <2>4 DEF SetReturnVal
    <3>2. /\ h.at = f.at /\ h.level = f.level /\ h.deferred = f.deferred /\ h.done = f.done
          /\ h.panicking = f.panicking /\ h.recovers = f.recovers /\ h.befores = f.befores
          /\ h.ran = f.ran /\ h.threw = f.threw /\ h.asked = f.asked
      BY DEF Frame
    <3> HIDE DEF h
    <3> QED BY <1>2, <2>2, <3>1, <3>2, ZenonT(40) DEF Frame
  <2> QED BY <1>2, <2>3, <2>4 DEF AfterTrampoline
<1> QED BY <1>1, <1>2

\* PassJump defers the After call of a level without a Before call.
LEMMA PassJumpInv == TrampolineInv /\ PassJump => TrampolineInv'
<1> SUFFICES ASSUME TrampolineInv, PassJump PROVE TrampolineInv'
  OBVIOUS
<1> DEFINE g == [Top EXCEPT !.level = @ + 1, !.deferred = Append(@, Top.level)]
<1>1. /\ calls # <<>> /\ Top.at = "jumps" /\ Top.level \in DOMAIN woven.levels
      /\ woven.levels[Top.level].form = "deferred only" /\ calls' = Replace(g)
      /\ UNCHANGED <<woven, suppressed, returned>>
  BY DEF PassJump, Hooked
<1>2. /\ FrameInv(woven.levels, Top) /\ Top \in Frame
      /\ Heard(woven.levels, Top, Hears(woven.guard, calls, Len(calls)))
  BY <1>1, TopFacts
<1>3. Append(Top.deferred, Top.level) \in Seq(Int) /\ Top.level \in Nat \ {0}
  BY <1>2, HoldsAppend DEF Frame
<1>4. /\ g \in Frame /\ g.level = Top.level + 1 /\ g.deferred = Append(Top.deferred, Top.level)
      /\ g.at = Top.at /\ g.done = Top.done /\ g.afters = Top.afters /\ g.asked = Top.asked
      /\ g.ran = Top.ran /\ g.panicking = Top.panicking /\ g.threw = Top.threw
      /\ g.recovers = Top.recovers /\ g.befores = Top.befores
  <2> DEFINE l == Top.level + 1
             d == Append(Top.deferred, Top.level)
  <2>1. l \in Nat \ {0} /\ d \in Seq(Int)
    BY <1>3
  <2>2. g = [Top EXCEPT !.level = l, !.deferred = d]
    OBVIOUS
  <2> HIDE DEF l, d, g
  <2>3. /\ g \in Frame /\ g.level = l /\ g.deferred = d
        /\ g.at = Top.at /\ g.done = Top.done /\ g.afters = Top.afters /\ g.asked = Top.asked
        /\ g.ran = Top.ran /\ g.panicking = Top.panicking /\ g.threw = Top.threw
        /\ g.recovers = Top.recovers /\ g.befores = Top.befores
    BY <1>2, <2>1, <2>2 DEF Frame
  <2> QED BY <2>3 DEF l, d
<1> HIDE DEF g
<1>5. FrameInv(woven.levels, g)
  BY <1>1, <1>2, <1>4, LevelPassed
<1>6. Heard(woven.levels, g, Hears(woven.guard, calls, Len(calls)))
  <2>1. woven.levels[Top.level].before = "none"
    BY <1>1 DEF TrampolineInv, LevelsInv
  <2>2. \A k \in 1..(g.level - 1) : k = Top.level \/ k \in 1..(Top.level - 1)
    BY <1>3, <1>4
  <2> QED BY <1>2, <1>4, <2>1, <2>2 DEF Heard
<1> QED BY <1>1, <1>4, <1>5, <1>6, TopStep

\* BeforeTrampoline skips the rest or passes the level, its After call deferred.
LEMMA BeforeTrampolineInv == TrampolineInv /\ BeforeTrampoline => TrampolineInv'
<1> SUFFICES ASSUME TrampolineInv, BeforeTrampoline PROVE TrampolineInv'
  OBVIOUS
<1> DEFINE k == Top.level
           hears == Hears(woven.guard, calls, Len(calls))
<1>1. PICK asks \in BOOLEAN, panics \in BOOLEAN :
        /\ asks => HooksRun /\ woven.levels[k].before = "skips"
        /\ panics => HooksRun
        /\ LET skip == asks /\ ~panics /\ woven.levels[k].form = "jump"
               f == [Top EXCEPT !.befores = IF HooksRun THEN @ \cup {k} ELSE @,
                                !.asked = IF asks /\ ~panics THEN @ \cup {k} ELSE @]
           IN IF skip
              THEN \E g \in IF woven.levels[k].after THEN AfterTrampoline(f, k) ELSE {f} :
                     calls' = Replace([g EXCEPT !.at = "unwind"])
              ELSE calls' = Replace([f EXCEPT !.level = @ + 1,
                             !.deferred = IF woven.levels[k].after THEN Append(@, k) ELSE @])
  BY ZenonT(40) DEF BeforeTrampoline, Hooked, HasAfter
<1>2. /\ calls # <<>> /\ Top.at = "jumps" /\ k \in DOMAIN woven.levels
      /\ woven.levels[k].form # "deferred only"
      /\ UNCHANGED <<woven, suppressed, returned>>
  BY DEF BeforeTrampoline, Hooked
<1>3. /\ FrameInv(woven.levels, Top) /\ Top \in Frame /\ Heard(woven.levels, Top, hears)
      /\ Top.done /\ (HooksRun <=> hears)
  BY <1>2, TopFacts DEF FrameInv, BracketInv
<1>4. /\ woven.levels[k].before # "none"
      /\ woven.levels[k].before = "skips" => woven.levels[k].form = "jump"
  BY <1>2 DEF TrampolineInv, LevelsInv
<1>5. /\ k \in Nat \ {0} /\ Top.deferred \in Seq(Int) /\ Append(Top.deferred, k) \in Seq(Int)
      /\ Top.befores \in SUBSET Int /\ Top.asked \in SUBSET Int
  BY <1>3, HoldsAppend DEF Frame
<1> DEFINE f == [Top EXCEPT !.befores = IF HooksRun THEN @ \cup {k} ELSE @,
                            !.asked = IF asks /\ ~panics THEN @ \cup {k} ELSE @]
<1>6. /\ f \in Frame /\ f.at = Top.at /\ f.level = k /\ f.deferred = Top.deferred
      /\ f.done = Top.done /\ f.afters = Top.afters /\ f.ran = Top.ran
      /\ f.panicking = Top.panicking /\ f.threw = Top.threw /\ f.recovers = Top.recovers
      /\ f.befores = (IF HooksRun THEN Top.befores \cup {k} ELSE Top.befores)
      /\ f.asked = (IF asks /\ ~panics THEN Top.asked \cup {k} ELSE Top.asked)
  <2> DEFINE b == IF HooksRun THEN Top.befores \cup {k} ELSE Top.befores
             a == IF asks /\ ~panics THEN Top.asked \cup {k} ELSE Top.asked
  <2>1. b \in SUBSET Int /\ a \in SUBSET Int
    BY <1>5
  <2>2. f = [Top EXCEPT !.befores = b, !.asked = a]
    OBVIOUS
  <2> HIDE DEF f, a, b
  <2>3. f.befores = b /\ f.asked = a /\ f \in Frame /\ f.at = Top.at /\ f.level = Top.level
        /\ f.deferred = Top.deferred
        /\ f.done = Top.done /\ f.afters = Top.afters /\ f.ran = Top.ran
        /\ f.panicking = Top.panicking /\ f.threw = Top.threw /\ f.recovers = Top.recovers
    BY <1>3, <2>1, <2>2 DEF Frame
  <2> QED BY <2>3 DEF a, b
<1>7. CASE asks /\ ~panics
  <2>1. HooksRun /\ woven.levels[k].form = "jump"
    BY <1>1, <1>4, <1>7
  <2>2. PICK h \in IF woven.levels[k].after THEN AfterTrampoline(f, k) ELSE {f} :
          calls' = Replace([h EXCEPT !.at = "unwind"])
    BY <1>1, <1>7, <2>1
  <2> HIDE DEF f
  <2>3. /\ h \in Frame /\ h.level = f.level /\ h.deferred = f.deferred /\ h.done = f.done
        /\ h.panicking = f.panicking /\ h.recovers = f.recovers /\ h.befores = f.befores
        /\ h.ran = f.ran /\ h.threw = f.threw /\ h.asked = f.asked
        /\ \/ h.afters = Append(f.afters, k)
           \/ h.afters = f.afters /\ ~woven.levels[k].after
    <3>1. CASE woven.levels[k].after
      <4>1. h \in AfterTrampoline(f, k) /\ k \in Int
        BY <1>5, <2>2, <3>1
      <4> QED BY <1>6, <2>1, <4>1, AfterRuns
    <3>2. CASE ~woven.levels[k].after
      BY <1>6, <2>2, <3>2
    <3> QED BY <3>1, <3>2
  <2> DEFINE g == [h EXCEPT !.at = "unwind"]
  <2>4. /\ g \in Frame /\ g.at = "unwind" /\ g.level = k /\ g.deferred = Top.deferred
        /\ g.done = Top.done /\ g.panicking = Top.panicking /\ g.recovers = Top.recovers
        /\ g.ran = Top.ran /\ g.threw = Top.threw /\ g.befores = Top.befores \cup {k}
        /\ g.asked = Top.asked \cup {k}
        /\ \/ g.afters = Append(Top.afters, k)
           \/ g.afters = Top.afters /\ ~woven.levels[k].after
    BY <1>6, <1>7, <2>1, <2>3 DEF Frame
  <2>5. calls' = Replace(g)
    BY <2>2
  <2> HIDE DEF g
  <2>6. FrameInv(woven.levels, g)
    BY <1>2, <1>3, <1>4, <2>4, LevelSkips
  <2>7. Heard(woven.levels, g, hears)
    BY <1>3, <1>5, <2>4 DEF Heard
  <2> QED BY <1>2, <2>4, <2>5, <2>6, <2>7, TopStep
<1>8. CASE ~(asks /\ ~panics)
  <2> DEFINE g == [f EXCEPT !.level = @ + 1,
                            !.deferred = IF woven.levels[k].after THEN Append(@, k) ELSE @]
  <2>1. calls' = Replace(g)
    BY <1>1, <1>8
  <2> HIDE DEF f
  <2>2. /\ g \in Frame /\ g.at = Top.at /\ g.level = k + 1 /\ g.done = Top.done
        /\ g.afters = Top.afters /\ g.ran = Top.ran /\ g.panicking = Top.panicking
        /\ g.threw = Top.threw /\ g.recovers = Top.recovers /\ g.asked = Top.asked
        /\ g.befores = (IF HooksRun THEN Top.befores \cup {k} ELSE Top.befores)
        /\ \/ g.deferred = Append(Top.deferred, k)
           \/ g.deferred = Top.deferred /\ ~woven.levels[k].after
    <3> DEFINE d == IF woven.levels[k].after THEN Append(f.deferred, k) ELSE f.deferred
           l == f.level + 1
    <3>1. d \in Seq(Int) /\ l \in Nat \ {0} /\ l = k + 1
      BY <1>5, <1>6
    <3>2. g = [f EXCEPT !.level = l, !.deferred = d]
      OBVIOUS
    <3> HIDE DEF d, g, l
    <3>3. /\ g \in Frame /\ g.level = l /\ g.deferred = d
          /\ g.at = f.at /\ g.done = f.done /\ g.afters = f.afters /\ g.asked = f.asked
          /\ g.ran = f.ran /\ g.panicking = f.panicking /\ g.threw = f.threw
          /\ g.recovers = f.recovers /\ g.befores = f.befores
      BY <1>6, <3>1, <3>2 DEF Frame
    <3>4. \/ g.deferred = Append(Top.deferred, k)
          \/ g.deferred = Top.deferred /\ ~woven.levels[k].after
      BY <1>6, <3>3 DEF d
    <3> QED BY <1>6, <1>8, <3>1, <3>3, <3>4
  <2> HIDE DEF g
  <2>3. FrameInv(woven.levels, g)
    BY <1>2, <1>3, <1>4, <2>2, LevelPassed
  <2>4. Heard(woven.levels, g, hears)
    <3> HIDE DEF k
    <3>1. g.level = k + 1 /\ k \in Nat
      BY <1>5, <2>2
    <3>2. \A j \in 1..(g.level - 1) : j = k \/ j \in 1..(k - 1)
      <4>1. g.level - 1 = k
        BY <3>1
      <4>2. \A j \in 1..k : j = k \/ j \in 1..(k - 1)
        BY <3>1
      <4> QED BY <4>1, <4>2
    <3>3. \A j \in Top.befores : j < k
      BY <1>2, <1>3 DEF FrameInv, PairInv, k
    <3>4. k \notin Top.befores
      BY <3>1, <3>3
    <3>5. Top.level = k
      BY DEF k
    <3> QED BY <1>3, <2>2, <3>2, <3>4, <3>5 DEF Heard
  <2> QED BY <1>2, <2>1, <2>2, <2>3, <2>4, TopStep
<1> QED BY <1>7, <1>8

\* EnterBody puts the calls of the body after those of the levels.
LEMMA EnterBodyInv == TrampolineInv /\ EnterBody => TrampolineInv'
<1> SUFFICES ASSUME TrampolineInv, EnterBody PROVE TrampolineInv'
  OBVIOUS
<1>1. PICK recovers \in BOOLEAN :
        calls' = Replace([Top EXCEPT !.at = "body", !.ran = @ + 1, !.recovers = recovers,
                                     !.deferred = IF recovers THEN Append(@, Recover) ELSE @])
  BY DEF EnterBody
<1>2. /\ calls # <<>> /\ Top.at = "jumps" /\ Top.level \notin DOMAIN woven.levels
      /\ UNCHANGED <<woven, suppressed, returned>>
  BY DEF EnterBody
<1>3. /\ FrameInv(woven.levels, Top) /\ Top \in Frame
      /\ Heard(woven.levels, Top, Hears(woven.guard, calls, Len(calls)))
      /\ Top.done /\ Top.ran = 0
  BY <1>2, TopFacts DEF FrameInv, BracketInv, OutcomeInv
<1> DEFINE d == IF recovers THEN Append(Top.deferred, Recover) ELSE Top.deferred
           n == Top.ran + 1
           g == [Top EXCEPT !.at = "body", !.ran = n, !.recovers = recovers, !.deferred = d]
<1>4. d \in Seq(Int) /\ n \in Nat /\ n = 1
  <2>1. Recover \in Int /\ Top.deferred \in Seq(Int)
    BY <1>3 DEF Recover, Frame
  <2> QED BY <1>3, <2>1, HoldsAppend
<1>5. calls' = Replace(g)
  BY <1>1
<1>6. \/ recovers /\ d = Append(Top.deferred, Recover)
      \/ ~recovers /\ d = Top.deferred
  OBVIOUS
<1> HIDE DEF d, n
<1>7. /\ g \in Frame /\ g.level = Top.level /\ g.deferred = d /\ g.at = "body"
      /\ g.done = Top.done /\ g.afters = Top.afters /\ g.asked = Top.asked
      /\ g.ran = 1 /\ g.panicking = Top.panicking /\ g.threw = Top.threw
      /\ g.recovers = recovers /\ g.befores = Top.befores
  BY <1>3, <1>4 DEF Frame
<1> HIDE DEF g
<1>8. FrameInv(woven.levels, g)
  BY <1>2, <1>3, <1>6, <1>7, BodyDefers
<1>9. Heard(woven.levels, g, Hears(woven.guard, calls, Len(calls)))
  BY <1>3, <1>7 DEF Heard
<1> QED BY <1>2, <1>3, <1>5, <1>7, <1>8, <1>9, TopStep

\* BeginIgnored opens a bracket together with its deferred end.
LEMMA BeginIgnoredInv == TrampolineInv /\ BeginIgnored => TrampolineInv'
<1> SUFFICES ASSUME TrampolineInv, BeginIgnored PROVE TrampolineInv'
  OBVIOUS
<1> DEFINE d == Append(Top.deferred, Fallback)
           g == [Top EXCEPT !.at = "bracket", !.done = FALSE, !.deferred = d]
<1>1. /\ calls # <<>> /\ Top.at = "body" /\ calls' = Replace(g)
      /\ suppressed' = suppressed + 1 /\ UNCHANGED <<woven, returned>>
  BY DEF BeginIgnored
<1>2. /\ FrameInv(woven.levels, Top) /\ Top \in Frame
      /\ Heard(woven.levels, Top, Hears(woven.guard, calls, Len(calls)))
      /\ Top.done /\ Top.ran = 1
  BY <1>1, TopFacts DEF FrameInv, BracketInv, OutcomeInv
<1>3. d \in Seq(Int) /\ d = Append(Top.deferred, Fallback)
  <2>1. Fallback \in Int /\ Top.deferred \in Seq(Int)
    BY <1>2 DEF Fallback, Frame
  <2> QED BY <2>1, HoldsAppend
<1> HIDE DEF d
<1>4. /\ g \in Frame /\ g.level = Top.level /\ g.deferred = d /\ g.at = "bracket"
      /\ ~g.done /\ g.afters = Top.afters /\ g.asked = Top.asked
      /\ g.ran = Top.ran /\ g.panicking = Top.panicking /\ g.threw = Top.threw
      /\ g.recovers = Top.recovers /\ g.befores = Top.befores
  BY <1>2, <1>3 DEF Frame
<1> HIDE DEF g
<1>5. FrameInv(woven.levels, g)
  BY <1>1, <1>2, <1>3, <1>4, BodyDefers
<1>6. Heard(woven.levels, g, Hears(woven.guard, calls, Len(calls)))
  BY <1>2, <1>4 DEF Heard
<1> QED BY <1>1, <1>2, <1>4, <1>5, <1>6, TopStep

\* EndIgnored closes the bracket; its deferred end finds it closed.
LEMMA EndIgnoredInv == TrampolineInv /\ EndIgnored => TrampolineInv'
<1> SUFFICES ASSUME TrampolineInv, EndIgnored PROVE TrampolineInv'
  OBVIOUS
<1> DEFINE g == [Top EXCEPT !.at = "body", !.done = TRUE, !.called = TRUE]
<1>1. /\ calls # <<>> /\ Top.at = "bracket" /\ calls' = Replace(g)
      /\ suppressed' = suppressed - 1 /\ UNCHANGED <<woven, returned>>
  BY DEF EndIgnored
<1>2. /\ FrameInv(woven.levels, Top) /\ Top \in Frame
      /\ Heard(woven.levels, Top, Hears(woven.guard, calls, Len(calls)))
      /\ ~Top.done
  BY <1>1, TopFacts DEF FrameInv, BracketInv
<1>3. /\ g \in Frame /\ g.level = Top.level /\ g.deferred = Top.deferred /\ g.at = "body"
      /\ g.done /\ g.afters = Top.afters /\ g.asked = Top.asked
      /\ g.ran = Top.ran /\ g.panicking = Top.panicking /\ g.threw = Top.threw
      /\ g.recovers = Top.recovers /\ g.befores = Top.befores
  BY <1>2 DEF Frame
<1> HIDE DEF g
<1>4. FrameInv(woven.levels, g)
  BY <1>1, <1>2, <1>3, BodyGoesOn
<1>5. Heard(woven.levels, g, Hears(woven.guard, calls, Len(calls)))
  BY <1>2, <1>3 DEF Heard
<1> QED BY <1>1, <1>2, <1>3, <1>4, <1>5, TopStep

\* StartCall pushes the first frame.
LEMMA StartCallInv == TrampolineInv /\ StartCall => TrampolineInv'
<1> SUFFICES ASSUME TrampolineInv, StartCall PROVE TrampolineInv'
  OBVIOUS
<1>1. calls = <<>> /\ calls' = <<NewFrame>> /\ UNCHANGED <<woven, suppressed, returned>>
  BY DEF StartCall
<1>2. StackInv(woven, calls, suppressed) /\ LevelsInv(woven.levels) /\ ReturnedInv
  BY DEF TrampolineInv
<1>3. calls' = Append(calls, NewFrame)
  BY <1>1
<1>4. StackInv(woven, Append(calls, NewFrame), suppressed)
  BY <1>1, <1>2, PushNew
<1> QED BY <1>1, <1>2, <1>3, <1>4 DEF TrampolineInv, ReturnedInv

\* CallAgain pushes a frame on one that stays in its body.
LEMMA CallAgainInv == TrampolineInv /\ CallAgain => TrampolineInv'
<1> SUFFICES ASSUME TrampolineInv, CallAgain PROVE TrampolineInv'
  OBVIOUS
<1> DEFINE g == [Top EXCEPT !.called = TRUE]
           s == Replace(g)
<1>1. /\ calls # <<>> /\ Top.at \in {"body", "bracket"} /\ calls' = Append(s, NewFrame)
      /\ UNCHANGED <<woven, suppressed, returned>>
  BY DEF CallAgain
<1>2. /\ FrameInv(woven.levels, Top) /\ Top \in Frame /\ Top = calls[Len(calls)]
      /\ Heard(woven.levels, Top, Hears(woven.guard, calls, Len(calls)))
      /\ Depth = Len(calls) /\ Depth \in Nat \ {0}
  BY <1>1, TopFacts
<1>3. StackInv(woven, calls, suppressed) /\ LevelsInv(woven.levels) /\ ReturnedInv
  BY DEF TrampolineInv
<1>4. /\ g \in Frame /\ g.level = Top.level /\ g.deferred = Top.deferred /\ g.at = Top.at
      /\ g.done = Top.done /\ g.afters = Top.afters /\ g.asked = Top.asked
      /\ g.ran = Top.ran /\ g.panicking = Top.panicking /\ g.threw = Top.threw
      /\ g.recovers = Top.recovers /\ g.befores = Top.befores
  BY <1>2 DEF Frame
<1>5. s = [calls EXCEPT ![Len(calls)] = g]
  BY <1>2 DEF Replace
<1> HIDE DEF g
<1>6. FrameInv(woven.levels, g)
  BY <1>1, <1>2, <1>4, BodyGoesOn
<1>7. Heard(woven.levels, g, Hears(woven.guard, calls, Len(calls)))
  BY <1>2, <1>4 DEF Heard
<1>8. StackInv(woven, s, suppressed)
  <2>1. StackInv(woven, [calls EXCEPT ![Len(calls)] = g],
                 IF calls[Len(calls)].done /\ ~g.done THEN suppressed + 1
                 ELSE IF ~calls[Len(calls)].done /\ g.done THEN suppressed - 1 ELSE suppressed)
    BY <1>1, <1>3, <1>6, <1>7, ReplaceTop
  <2> QED BY <1>2, <1>4, <1>5, <2>1
<1>9. s[Len(s)].at \in {"body", "bracket"}
  <2>1. calls \in Seq(Frame)
    BY <1>3 DEF StackInv
  <2>2. Len(s) = Len(calls) /\ s[Len(calls)] = g
    BY <1>2, <1>5, <2>1
  <2> QED BY <1>1, <1>4, <2>2
<1> HIDE DEF s
<1>10. StackInv(woven, Append(s, NewFrame), suppressed)
  BY <1>8, <1>9, PushNew
<1> QED BY <1>1, <1>3, <1>10 DEF TrampolineInv, ReturnedInv

\* BodyReturns leaves the deferred calls to run.
LEMMA BodyReturnsInv == TrampolineInv /\ BodyReturns => TrampolineInv'
<1> SUFFICES ASSUME TrampolineInv, BodyReturns PROVE TrampolineInv'
  OBVIOUS
<1> DEFINE g == [Top EXCEPT !.at = "unwind", !.result = Original]
<1>1. /\ calls # <<>> /\ Top.at = "body" /\ calls' = Replace(g)
      /\ UNCHANGED <<woven, suppressed, returned>>
  BY DEF BodyReturns
<1>2. /\ FrameInv(woven.levels, Top) /\ Top \in Frame
      /\ Heard(woven.levels, Top, Hears(woven.guard, calls, Len(calls)))
      /\ ~Top.panicking /\ ~Top.threw
  BY <1>1, TopFacts DEF FrameInv, OutcomeInv
<1>3. /\ g \in Frame /\ g.level = Top.level /\ g.deferred = Top.deferred /\ g.at = "unwind"
      /\ g.done = Top.done /\ g.afters = Top.afters /\ g.asked = Top.asked
      /\ g.ran = Top.ran /\ g.panicking = g.threw
      /\ g.recovers = Top.recovers /\ g.befores = Top.befores
  <2>1. Original \in Int
    BY DEF Original
  <2> QED BY <1>2, <2>1 DEF Frame
<1> HIDE DEF g
<1>4. FrameInv(woven.levels, g)
  BY <1>1, <1>2, <1>3, BodyEnds
<1>5. Heard(woven.levels, g, Hears(woven.guard, calls, Len(calls)))
  BY <1>2, <1>3 DEF Heard
<1> QED BY <1>1, <1>2, <1>3, <1>4, <1>5, TopStep

\* BodyPanics leaves the deferred calls to run while the panic is on.
LEMMA BodyPanicsInv == TrampolineInv /\ BodyPanics => TrampolineInv'
<1> SUFFICES ASSUME TrampolineInv, BodyPanics PROVE TrampolineInv'
  OBVIOUS
<1> DEFINE g == [Top EXCEPT !.at = "unwind", !.panicking = TRUE, !.threw = TRUE]
<1>1. /\ calls # <<>> /\ Top.at \in {"body", "bracket"} /\ calls' = Replace(g)
      /\ UNCHANGED <<woven, suppressed, returned>>
  BY DEF BodyPanics
<1>2. /\ FrameInv(woven.levels, Top) /\ Top \in Frame
      /\ Heard(woven.levels, Top, Hears(woven.guard, calls, Len(calls)))
  BY <1>1, TopFacts
<1>3. /\ g \in Frame /\ g.level = Top.level /\ g.deferred = Top.deferred /\ g.at = "unwind"
      /\ g.done = Top.done /\ g.afters = Top.afters /\ g.asked = Top.asked
      /\ g.ran = Top.ran /\ g.panicking = g.threw
      /\ g.recovers = Top.recovers /\ g.befores = Top.befores
  BY <1>2 DEF Frame
<1> HIDE DEF g
<1>4. FrameInv(woven.levels, g)
  BY <1>1, <1>2, <1>3, BodyEnds
<1>5. Heard(woven.levels, g, Hears(woven.guard, calls, Len(calls)))
  BY <1>2, <1>3 DEF Heard
<1> QED BY <1>1, <1>2, <1>3, <1>4, <1>5, TopStep

\* RunDeferred takes off one deferred call and does what it does.
LEMMA RunDeferredInv == TrampolineInv /\ RunDeferred => TrampolineInv'
<1> SUFFICES ASSUME TrampolineInv, RunDeferred PROVE TrampolineInv'
  OBVIOUS
<1> DEFINE d == Top.deferred[Len(Top.deferred)]
           r == SubSeq(Top.deferred, 1, Len(Top.deferred) - 1)
           f == [Top EXCEPT !.deferred = r]
           hears == Hears(woven.guard, calls, Len(calls))
<1>1. /\ calls # <<>> /\ Top.at = "unwind" /\ Top.deferred # <<>>
      /\ UNCHANGED <<woven, returned>>
  BY DEF RunDeferred
<1>2. /\ FrameInv(woven.levels, Top) /\ Top \in Frame /\ Heard(woven.levels, Top, hears)
      /\ Top.done => (HooksRun <=> hears)
      /\ BracketInv(Top) /\ DeferredInv(woven.levels, Top) /\ PairInv(woven.levels, Top)
  BY <1>1, TopFacts DEF FrameInv
<1>3. /\ r \in Seq(Int) /\ d \in Int /\ Len(Top.deferred) \in Nat \ {0}
      /\ Top.done \in BOOLEAN /\ Top.level \in Nat \ {0}
  <2>1. Top.deferred \in Seq(Int) /\ Top.done \in BOOLEAN /\ Top.level \in Nat \ {0}
    BY <1>2 DEF Frame
  <2> QED BY <1>1, <2>1, FrontOf
<1>4. /\ f \in Frame /\ f.level = Top.level /\ f.deferred = r /\ f.at = Top.at
      /\ f.done = Top.done /\ f.afters = Top.afters /\ f.asked = Top.asked
      /\ f.ran = Top.ran /\ f.panicking = Top.panicking /\ f.threw = Top.threw
      /\ f.recovers = Top.recovers /\ f.befores = Top.befores
  <2> HIDE DEF r
  <2> QED BY <1>2, <1>3 DEF Frame
<1>5. Fallback # Recover /\ Fallback <= 0 /\ Recover <= 0
  BY DEF Fallback, Recover
<1>6. CASE d = Fallback
  <2> DEFINE g == [f EXCEPT !.done = TRUE]
  <2>1. /\ calls' = Replace(g)
        /\ suppressed' = IF f.done THEN suppressed ELSE suppressed - 1
    BY <1>5, <1>6 DEF RunDeferred
  <2> HIDE DEF f
  <2>2. /\ g \in Frame /\ g.level = f.level /\ g.deferred = f.deferred /\ g.at = f.at
        /\ g.done /\ g.afters = f.afters /\ g.asked = f.asked
        /\ g.ran = f.ran /\ g.panicking = f.panicking /\ g.threw = f.threw
        /\ g.recovers = f.recovers /\ g.befores = f.befores
    BY <1>4 DEF Frame
  <2> HIDE DEF g
  <2>3. FrameInv(woven.levels, g)
    BY <1>1, <1>2, <1>4, <1>5, <1>6, <2>2, DeferredRuns
  <2>4. Heard(woven.levels, g, hears)
    BY <1>2, <1>4, <2>2 DEF Heard
  <2> QED BY <1>1, <1>4, <2>1, <2>2, <2>3, <2>4, TopStep
<1>7. CASE d = Recover
  <2> DEFINE g == [f EXCEPT !.panicking = FALSE]
  <2>1. calls' = Replace(g) /\ suppressed' = suppressed
    BY <1>5, <1>7 DEF RunDeferred
  <2> HIDE DEF f
  <2>2. /\ g \in Frame /\ g.level = f.level /\ g.deferred = f.deferred /\ g.at = f.at
        /\ g.done = f.done /\ g.afters = f.afters /\ g.asked = f.asked
        /\ g.ran = f.ran /\ ~g.panicking /\ g.threw = f.threw
        /\ g.recovers = f.recovers /\ g.befores = f.befores
    BY <1>4 DEF Frame
  <2> HIDE DEF g
  <2>3. FrameInv(woven.levels, g)
    BY <1>1, <1>2, <1>4, <1>5, <1>7, <2>2, DeferredRuns
  <2>4. Heard(woven.levels, g, hears)
    BY <1>2, <1>4, <2>2 DEF Heard
  <2> QED BY <1>1, <1>3, <1>4, <2>1, <2>2, <2>3, <2>4, TopStep
<1>8. CASE d # Fallback /\ d # Recover
  <2>1. PICK g \in AfterTrampoline(f, d) : calls' = Replace(g) /\ suppressed' = suppressed
    BY <1>8 DEF RunDeferred
  <2>2. /\ d > 0 /\ d < Top.level /\ d \in DOMAIN woven.levels
        /\ \A j \in 1..(Len(Top.deferred) - 1) : Top.deferred[j] > 0
    <3>1. Len(Top.deferred) \in 1..Len(Top.deferred)
      BY <1>3
    <3> QED BY <1>2, <1>8, <3>1 DEF DeferredInv
  <2>3. Top.done
    <3>1. ASSUME NEW j \in 1..Len(Top.deferred) PROVE Top.deferred[j] # Fallback
      <4>1. j = Len(Top.deferred) \/ j \in 1..(Len(Top.deferred) - 1)
        BY <1>3, <3>1
      <4>2. CASE j = Len(Top.deferred)
        BY <1>8, <4>2
      <4>3. CASE j \in 1..(Len(Top.deferred) - 1)
        BY <2>2, <4>3 DEF Fallback
      <4> QED BY <4>1, <4>2, <4>3
    <3> QED BY <1>2, <3>1 DEF BracketInv, Holds
  <2>4. woven.levels[d].before # "none" => (d \in Top.befores <=> HooksRun)
    <3>1. d \in 1..(Top.level - 1)
      BY <1>3, <2>2
    <3> QED BY <1>2, <2>2, <2>3, <3>1 DEF Heard
  <2>5. ~HooksRun => d \notin Top.befores
    BY <1>2, <2>4 DEF PairInv
  <2> HIDE DEF f
  <2>6. /\ g \in Frame
        /\ g.at = f.at /\ g.level = f.level /\ g.deferred = f.deferred /\ g.done = f.done
        /\ g.panicking = f.panicking /\ g.recovers = f.recovers /\ g.befores = f.befores
        /\ g.ran = f.ran /\ g.threw = f.threw /\ g.asked = f.asked
        /\ HooksRun => g.afters = Append(f.afters, d)
        /\ ~HooksRun => g.afters = f.afters
    BY <1>3, <1>4, AfterRuns
  <2>7. FrameInv(woven.levels, g)
    <3>1. \/ d > 0 /\ g.afters = Top.afters /\ d \notin Top.befores
          \/ /\ d > 0 /\ g.afters = Append(Top.afters, d)
             /\ woven.levels[d].before # "none" => d \in Top.befores
      BY <1>4, <2>2, <2>4, <2>5, <2>6
    <3> QED BY <1>1, <1>2, <1>4, <1>8, <2>6, <3>1, DeferredRuns
  <2>8. Heard(woven.levels, g, hears)
    BY <1>2, <1>4, <2>6 DEF Heard
  <2> QED BY <1>1, <1>4, <2>1, <2>3, <2>6, <2>7, <2>8, TopStep
<1> QED BY <1>6, <1>7, <1>8

\* LeaveCall ends a frame that has nothing deferred, hence no open bracket, and
\* hands its panic to the caller.
LEMMA LeaveCallInv == TrampolineInv /\ LeaveCall => TrampolineInv'
<1> SUFFICES ASSUME TrampolineInv, LeaveCall PROVE TrampolineInv'
  OBVIOUS
<1> DEFINE rest == SubSeq(calls, 1, Len(calls) - 1)
<1>1. /\ calls # <<>> /\ Top.at = "unwind" /\ Top.deferred = <<>> /\ returned' = Top
      /\ UNCHANGED <<woven, suppressed>>
  BY DEF LeaveCall
<1>2. /\ FrameInv(woven.levels, Top) /\ Top = calls[Len(calls)] /\ Depth = Len(calls)
      /\ Depth \in Nat \ {0} /\ Top.done
  <2>1. /\ FrameInv(woven.levels, Top) /\ Top = calls[Len(calls)] /\ Depth = Len(calls)
        /\ Depth \in Nat \ {0}
    BY <1>1, TopFacts
  <2>2. ~Holds(<<>>, Fallback)
    BY DEF Holds
  <2> QED BY <1>1, <2>1, <2>2 DEF FrameInv, BracketInv
<1>3. StackInv(woven, calls, suppressed) /\ LevelsInv(woven.levels)
  BY DEF TrampolineInv
<1>4. calls' = IF rest # <<>> /\ Top.panicking
               THEN [rest EXCEPT ![Len(calls) - 1] =
                       [@ EXCEPT !.at = "unwind", !.panicking = TRUE, !.threw = TRUE]]
               ELSE rest
  BY <1>2 DEF LeaveCall
<1>5. /\ StackInv(woven, rest, suppressed) /\ Len(rest) = Len(calls) - 1
      /\ rest # <<>> => rest[Len(rest)].at \in {"body", "bracket"}
  BY <1>1, <1>2, <1>3, PopDone
<1> HIDE DEF rest
<1>6. StackInv(woven, calls', suppressed)
  <2>1. CASE ~(rest # <<>> /\ Top.panicking)
    <3>1. calls' = rest
      BY <1>4, <2>1
    <3> QED BY <1>5, <3>1
  <2>2. CASE rest # <<>> /\ Top.panicking
    <3> DEFINE f == rest[Len(rest)]
               g == [f EXCEPT !.at = "unwind", !.panicking = TRUE, !.threw = TRUE]
               hears == Hears(woven.guard, rest, Len(rest))
    <3>1. calls' = [rest EXCEPT ![Len(rest)] = g]
      BY <1>4, <1>5, <2>2
    <3>2. FrameInv(woven.levels, f) /\ Heard(woven.levels, f, hears) /\ f \in Frame
      <4>1. rest \in Seq(Frame)
        BY <1>5 DEF StackInv
      <4>2. Len(rest) \in 1..Len(rest)
        BY <2>2, <4>1
      <4> QED BY <1>5, <4>1, <4>2 DEF StackInv
    <3>3. f.at \in {"body", "bracket"}
      BY <1>5, <2>2
    <3> HIDE DEF f
    <3>4. /\ g \in Frame /\ g.level = f.level /\ g.deferred = f.deferred /\ g.at = "unwind"
          /\ g.done = f.done /\ g.afters = f.afters /\ g.asked = f.asked
          /\ g.ran = f.ran /\ g.panicking = g.threw
          /\ g.recovers = f.recovers /\ g.befores = f.befores
      BY <3>2 DEF Frame
    <3> HIDE DEF g
    <3>5. FrameInv(woven.levels, g)
      BY <3>2, <3>3, <3>4, BodyEnds
    <3>6. Heard(woven.levels, g, hears)
      BY <3>2, <3>4 DEF Heard
    <3>7. StackInv(woven, [rest EXCEPT ![Len(rest)] = g],
                   IF rest[Len(rest)].done /\ ~g.done THEN suppressed + 1
                   ELSE IF ~rest[Len(rest)].done /\ g.done THEN suppressed - 1
                   ELSE suppressed)
      BY <1>5, <2>2, <3>5, <3>6, ReplaceTop
    <3>8. rest[Len(rest)].done = g.done
      BY <3>4 DEF f
    <3> QED BY <3>1, <3>7, <3>8
  <2> QED BY <2>1, <2>2
<1>7. ReturnedInv'
  <2>1. returned'.at = "unwind" /\ returned'.deferred = <<>> /\ FrameInv(woven'.levels, returned')
    BY <1>1, <1>2
  <2> QED BY <2>1 DEF ReturnedInv
<1> QED BY <1>1, <1>3, <1>6, <1>7 DEF TrampolineInv
-----------------------------------------------------------------------------
(* Theorems                                                                  *)

\* The levels, the frames, their deferred calls and the count of suppression
\* agree in every state of a goroutine that runs a woven function.
THEOREM TrampolineInvariant == TrampolineSpec => []TrampolineInv
<1>1. TrampolineInit => TrampolineInv
  BY InitInv
<1>2. TrampolineInv /\ [TrampolineNext]_trampolineVars => TrampolineInv'
  <2>1. ASSUME TrampolineInv, UNCHANGED trampolineVars PROVE TrampolineInv'
    BY <2>1 DEF trampolineVars, TrampolineInv, ReturnedInv
  <2>2. ASSUME TrampolineInv, TrampolineNext PROVE TrampolineInv'
    BY <2>2, StartCallInv, PassJumpInv, BeforeTrampolineInv, EnterBodyInv, BeginIgnoredInv,
       EndIgnoredInv, CallAgainInv, BodyReturnsInv, BodyPanicsInv, RunDeferredInv, LeaveCallInv
       DEF TrampolineNext
  <2> QED BY <2>1, <2>2
<1> QED BY <1>1, <1>2, PTL DEF TrampolineSpec

\* SuppressHooks and UnsuppressHooks are balanced, however deep the calls are and
\* whatever panics: the count is the number of brackets open on the stack.
THEOREM SuppressionBalancedHolds == TrampolineSpec => []SuppressionBalanced
<1>1. TrampolineInv => SuppressionBalanced
  BY DEF TrampolineInv, StackInv, SuppressionBalanced, Open
<1> QED BY <1>1, TrampolineInvariant, PTL

\* The trampolines of a level run both hooks or neither, in reverse order after
\* the call: for any number of rules, with hooks that skip or panic.
THEOREM HooksPairedHolds == TrampolineSpec => []HooksPaired
<1>1. TrampolineInv => HooksPaired
  <2> SUFFICES ASSUME TrampolineInv, returned # NoFrame PROVE HooksPaired
    BY DEF HooksPaired
  <2>1. /\ returned.deferred = <<>> /\ returned \in Frame
        /\ DeferredInv(woven.levels, returned) /\ PairInv(woven.levels, returned)
    BY DEF TrampolineInv, ReturnedInv, FrameInv
  <2>2. returned.afters \in Seq(Int) /\ Len(returned.afters) \in Nat
    BY <2>1 DEF Frame
  <2>3. ASSUME NEW i \in 1..Len(returned.afters), NEW j \in 1..Len(returned.afters), i < j
        PROVE  returned.afters[i] > returned.afters[j]
    <3>1. i \in 1..(j - 1)
      BY <2>2, <2>3
    <3> QED BY <2>1, <3>1 DEF DeferredInv
  <2>4. \A k \in returned.befores :
          HasAfter(k) => \E i \in 1..Len(returned.afters) : returned.afters[i] = k
    <3>1. \A k : ~Holds(returned.deferred, k)
      BY <2>1 DEF Holds
    <3> QED BY <2>1, <3>1 DEF PairInv, HasAfter, Hooked, Holds
  <2>5. \A i \in 1..Len(returned.afters) :
          Hooked(returned.afters[i]).before # "none" => returned.afters[i] \in returned.befores
    BY <2>1 DEF DeferredInv, Hooked
  <2> QED BY <2>3, <2>4, <2>5 DEF HooksPaired, Decreasing
<1> QED BY <1>1, TrampolineInvariant, PTL

\* The body runs once or is skipped as a Before hook asked, and only its own
\* panics reach the caller, for any list of rules.
THEOREM CallOutcomeHolds == TrampolineSpec => []CallOutcome
<1>1. TrampolineInv => CallOutcome
  <2> SUFFICES ASSUME TrampolineInv, returned # NoFrame PROVE CallOutcome
    BY DEF CallOutcome
  <2>1. /\ returned.deferred = <<>> /\ returned.at = "unwind" /\ returned \in Frame
        /\ OutcomeInv(returned)
    BY DEF TrampolineInv, ReturnedInv, FrameInv
  <2>2. ~Holds(returned.deferred, Recover)
    BY <2>1 DEF Holds
  <2>3. SkipIsHonoured
    BY <2>1 DEF OutcomeInv, SkipIsHonoured
  <2>4. PanicsAreTheBodys
    BY <2>1, <2>2 DEF OutcomeInv, PanicsAreTheBodys
  <2> QED BY <2>3, <2>4 DEF CallOutcome
<1> QED BY <1>1, TrampolineInvariant, PTL
=============================================================================
