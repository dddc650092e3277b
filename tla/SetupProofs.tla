---------------------------- MODULE SetupProofs ----------------------------
(***************************************************************************)
(* Proofs about what setup does before the build, for every value of the   *)
(* constants: Pinning, RuleMatching and RuleFiles.                         *)
(***************************************************************************)
EXTENDS Pinning, RuleMatching, RuleFiles, SequenceTheorems, TLAPS

-----------------------------------------------------------------------------
(* Pinning.  What the packages in planned are, relative to the rules that   *)
(* matched them, is kept from pass to pass; that pin settles needs to know, *)
(* of each file that was written, that writing it again changes nothing.    *)

LEMMA ProjectFacts ==
  ASSUME project \in Projects
  PROVE  LET packages == DOMAIN project.imports
         IN  /\ \A q \in packages : project.imports[q] \subseteq packages
             /\ project.plan \subseteq packages
             /\ \A q \in project.plan : project.imports[q] \subseteq project.plan
             /\ project.builds \subseteq project.plan /\ project.builds # {}
             /\ Roots # {} /\ Roots \subseteq DOMAIN project.required
             /\ \A r \in DOMAIN project.required : project.required[r] \in Nat \cup {NoVersion}
             /\ project.version \in Nat /\ project.tidied \in BOOLEAN
             /\ project.file \in [DOMAIN project.file -> SUBSET Known]
             /\ \A i \in Known :
                  /\ project.about[i].builtin => IsValid(i)
                  /\ project.about[i].nested \in DOMAIN project.file \cup {NoFile}
                  /\ \A r \in project.about[i].rules : r.hook \in packages \cup {NoFile}
  <1>1. IsProject(project)
    BY PinningAssumption DEF PinningAssumption
  <1>2. Roots # {}
    <2>1. project.roots \in Seq(Range(project.roots)) \ {<<>>}
      BY <1>1 DEF IsProject
    <2>2. 1 \in DOMAIN project.roots
      BY <2>1
    <2> QED BY <2>2 DEF Roots, Range
  <1> QED BY <1>1, <1>2 DEF IsProject, Known, Roots, IsValid, IsInstrumentation

ClosedUnderImports(c) == \A p \in c : project.imports[p] \subseteq c

LEMMA ClosureFacts ==
  ASSUME project \in Projects, NEW S \in SUBSET DOMAIN project.imports
  PROVE  /\ S \subseteq Closure(S) /\ Closure(S) \subseteq DOMAIN project.imports
         /\ ClosedUnderImports(Closure(S))
         /\ \A c \in SUBSET DOMAIN project.imports :
              S \subseteq c /\ ClosedUnderImports(c) => Closure(S) \subseteq c
  <1> DEFINE packages == DOMAIN project.imports
             closed == {c \in SUBSET packages : S \subseteq c /\ \A p \in c : project.imports[p] \subseteq c}
  <1>1. Closure(S) = {q \in packages : \A c \in closed : q \in c}
    BY DEF Closure
  <1>2. \A q \in packages : project.imports[q] \subseteq packages
    BY ProjectFacts
  <1>3. ASSUME NEW p \in Closure(S), NEW q \in project.imports[p] PROVE q \in Closure(S)
    BY <1>1, <1>2, <1>3
  <1>4. \A c \in SUBSET packages : S \subseteq c /\ ClosedUnderImports(c) => c \in closed
    BY DEF ClosedUnderImports
  <1> QED BY <1>1, <1>3, <1>4 DEF ClosedUnderImports

LEMMA ClosureGrows ==
  ASSUME project \in Projects, NEW T \in SUBSET DOMAIN project.imports, NEW S \in SUBSET T
  PROVE  Closure(S) \subseteq Closure(T)
  BY ClosureFacts

LEMMA MatchingOfTwo ==
  ASSUME NEW rules, NEW S, NEW T
  PROVE  Matching(rules, S \cup T) = Matching(rules, S) \cup Matching(rules, T)
  BY DEF Matching

\* What go.mod says of otelc.
Modules == Shared \cup Known \cup UNION {project.about[i].needs : i \in Known}
Requirement ==
  [tool : BOOLEAN, required : Nat \cup {NoVersion}, replaced : SUBSET Modules, tidy : BOOLEAN]

PinTypeInv ==
  /\ project \in Projects
  /\ DOMAIN project.file \subseteq DOMAIN toolFile
  /\ toolFile \in [DOMAIN toolFile -> SUBSET Known]
  /\ DOMAIN pruned = DOMAIN toolFile
  /\ goMod \in [Roots -> Requirement]
  /\ pinPhase \in {"pin", "writing", "load", "inject", "generate", "unresolved", "done", "partial",
                   "failed"}
  /\ pinTodo \subseteq Roots /\ fresh \subseteq Known
  /\ again \in BOOLEAN

\* What the passes have matched is what the packages met so far call for, and
\* those are packages of the build.
PassesInv ==
  /\ planned \subseteq DOMAIN project.imports
  /\ \A r \in rulesLoaded : r.hook \in DOMAIN project.imports \cup {NoFile}
  /\ applied \in Seq(SUBSET rulesLoaded)
  /\ pinPhase \in {"inject", "generate", "done"} =>
       /\ applied # <<>>
       /\ project.plan \subseteq planned /\ ClosedUnderImports(planned)
       /\ AllApplied = Matching(rulesLoaded, planned)
       /\ planned \subseteq Closure(project.plan \cup HookPackages(AllApplied))
       /\ \A k \in 1..(Len(applied) - 1) : HookPackages(applied[k]) \subseteq planned
       /\ pinPhase # "inject" => HookPackages(AllApplied) \subseteq planned
       /\ pinPhase = "done" =>
            generated = [p \in project.builds |-> HookPackages(AllApplied) \ {p}]

\* Writing a file again, or its go.mod, changes nothing.
Settled(r) ==
  /\ EnsureOtelcRequire(goMod[r]) = goMod[r] /\ goMod[r].tidy
  /\ \A i \in toolFile[r] : IsValid(i)

\* Files that are written are settled, and so are all once pin is done; in one
\* that is to be written, what is not valid is to be removed.
SettledInv ==
  /\ pinPhase \notin {"writing", "failed"} => pinTodo = {} /\ fresh = {}
  /\ pinPhase = "pin" /\ ~again =>
       toolFile = project.file
  /\ pinPhase = "writing" /\ fresh = {} =>
       /\ pinTodo \subseteq ToolFiles /\ ToolFiles # {}
       /\ \A r \in pinTodo : pruned[r] = {i \in toolFile[r] : ~IsValid(i)}
       /\ \A r \in ToolFiles \ pinTodo : Settled(r)
  /\ pinPhase = "writing" /\ fresh # {} =>
       /\ \A i \in fresh : IsValid(i)
       /\ ~again /\ ToolFiles = Roots \ pinTodo
       /\ \A r \in ToolFiles : Settled(r)
  /\ (again /\ pinPhase # "failed") \/ pinPhase \notin {"pin", "writing", "failed"} =>
       /\ \A r \in ToolFiles : Settled(r)
       /\ ToolFiles = {} => MatchInstrumentationImports = {}

PinInv == PinTypeInv /\ PassesInv /\ (DeadImportsOnce => SettledInv)

\* After Tidied, ensureOtelcRequire has nothing to change.
LEMMA RequirementFacts ==
  ASSUME project \in Projects, fresh \subseteq Known, NEW m \in Requirement
  PROVE  LET e == EnsureOtelcRequire(m)
             t == Tidied(SyncDeps(e))
         IN  /\ e \in Requirement /\ SyncDeps(e) \in Requirement
             /\ Tidied(e) \in Requirement /\ t \in Requirement
             /\ EnsureOtelcRequire(Tidied(e)) = Tidied(e) /\ Tidied(e).tidy
             /\ e.tidy => EnsureOtelcRequire(e) = e
             /\ EnsureOtelcRequire(t) = t /\ t.tidy
  <1> DEFINE Least(n) == IF project.version > n /\ project.version # 0 THEN project.version ELSE n
             Resolved(n) == IF n = NoVersion THEN 1 ELSE n
             e == EnsureOtelcRequire(m)
  <1>1. project.version \in Nat
    BY ProjectFacts
  <1>2. \A n \in Nat \cup {NoVersion} :
          /\ Least(n) \in Nat \cup {NoVersion} /\ Least(Least(n)) = Least(n)
          /\ Resolved(n) \in Nat /\ Resolved(n) # NoVersion
          /\ Least(Resolved(Least(n))) = Resolved(Least(n))
    BY <1>1 DEF NoVersion
  <1>3. ASSUME NEW x \in Requirement
        PROVE  LET y == EnsureOtelcRequire(x)
                   fixed == Least(x.required) = x.required /\ x.required # NoVersion
               IN  /\ y \in Requirement
                   /\ y.tool /\ y.required = Least(x.required)
                   /\ y.tidy => x.tidy /\ x.tool /\ fixed
                   /\ x.tidy /\ x.tool /\ fixed => y = x
    BY <1>2 DEF Requirement, EnsureOtelcRequire
  <1>4. ASSUME NEW x \in Requirement
        PROVE  LET y == SyncDeps(x)
               IN  y \in Requirement /\ y.tool = x.tool /\ y.required = x.required
    BY DEF Requirement, SyncDeps, Modules
  <1>5. ASSUME NEW x \in Requirement
        PROVE  LET y == Tidied(x)
               IN  /\ y \in Requirement /\ y.tool = x.tool /\ y.required = Resolved(x.required)
                   /\ y.tidy
    BY <1>2 DEF Requirement, Tidied
  <1>6. m.required \in Nat \cup {NoVersion}
    BY DEF Requirement
  <1> HIDE DEF Least, Resolved, e
  <1>7. e \in Requirement /\ e.tool /\ e.required = Least(m.required)
    BY <1>3 DEF e
  <1>8. SyncDeps(e) \in Requirement /\ SyncDeps(e).tool /\ SyncDeps(e).required = e.required
    BY <1>4, <1>7
  <1>9. ASSUME NEW x \in Requirement, x.tool, x.required = Least(m.required)
        PROVE  /\ Tidied(x) \in Requirement /\ Tidied(x).tidy
               /\ EnsureOtelcRequire(Tidied(x)) = Tidied(x)
    <2>1. /\ Tidied(x) \in Requirement /\ Tidied(x).tool /\ Tidied(x).tidy
          /\ Tidied(x).required = Resolved(Least(m.required))
      BY <1>5, <1>9
    <2> QED BY <2>1, <1>2, <1>3, <1>6
  <1>10. e.tidy => EnsureOtelcRequire(e) = e
    BY <1>2, <1>3, <1>6, <1>7 DEF e
  <1> QED BY <1>7, <1>8, <1>9, <1>10 DEF e

LEMMA PinStarts == PinInit => PinInv
  <1> SUFFICES ASSUME PinInit PROVE PinInv
    OBVIOUS
  <1> USE DEF PinInit
  <1>1. PinTypeInv
    <2>1. goMod \in [Roots -> Requirement]
      BY ProjectFacts DEF Requirement
    <2> QED BY <2>1, ProjectFacts DEF PinTypeInv
  <1>2. PassesInv
    BY DEF PassesInv
  <1>3. SettledInv
    BY DEF SettledInv
  <1> QED BY <1>1, <1>2, <1>3 DEF PinInv

LEMMA PinTypesKeep ==
  ASSUME PinTypeInv, [PinNext]_pinVars
  PROVE  PinTypeInv'
  <1> USE DEF PinTypeInv
  <1>1. project' = project /\ Known' = Known /\ Roots' = Roots /\ Requirement' = Requirement
    <2>1. project' = project
      BY DEF PinNext, UpdatePinnedProjects, GeneratePinnedProjects, UpdateToolFile, WriteToolFile,
             PinDone, LoadAndMatch, InjectionPass, AddDeps, BuildAgain, pinVars
    <2> QED BY <2>1 DEF Known, Roots, Requirement, Modules
  <1>2. CASE UpdatePinnedProjects
    BY <1>1, <1>2 DEF UpdatePinnedProjects, ToolFiles
  <1>3. CASE GeneratePinnedProjects
    BY <1>1, <1>3 DEF GeneratePinnedProjects, MatchInstrumentationImports
  <1>4. CASE PinDone
    BY <1>1, <1>4 DEF PinDone
  <1>5. ASSUME NEW r \in Roots, UpdateToolFile(r) PROVE PinTypeInv'
    <2> DEFINE m == EnsureOtelcRequire(goMod[r])
    <2>1. goMod[r] \in Requirement
      OBVIOUS
    <2>2. m \in Requirement /\ Tidied(m) \in Requirement
      BY <2>1, RequirementFacts
    <2>3. goMod' \in [Roots -> Requirement]
      <3> HIDE DEF m
      <3> QED BY <1>5, <2>2 DEF UpdateToolFile, m
    <2>4. DOMAIN toolFile' = DOMAIN toolFile /\ toolFile' \in [DOMAIN toolFile -> SUBSET Known]
      BY <1>5 DEF UpdateToolFile
    <2>5. /\ UNCHANGED <<project, pruned, fresh, again>> /\ pinTodo' \subseteq Roots
          /\ pinPhase' \in {"writing", "failed"}
      BY <1>5 DEF UpdateToolFile
    <2> QED BY <1>1, <2>3, <2>4, <2>5
  <1>6. ASSUME NEW r \in Roots, WriteToolFile(r) PROVE PinTypeInv'
    <2> DEFINE m == SyncDeps(EnsureOtelcRequire(goMod[r]))
    <2>1. goMod[r] \in Requirement
      OBVIOUS
    <2>2. m \in Requirement /\ Tidied(m) \in Requirement
      BY <2>1, RequirementFacts
    <2>3. goMod' \in [Roots -> Requirement]
      <3> HIDE DEF m
      <3> QED BY <1>6, <2>2 DEF WriteToolFile, m
    <2>4. /\ DOMAIN toolFile' = DOMAIN toolFile \cup {r} /\ DOMAIN pruned' = DOMAIN toolFile \cup {r}
          /\ toolFile' \in [DOMAIN toolFile' -> SUBSET Known]
      BY <1>6 DEF WriteToolFile
    <2>5. /\ UNCHANGED <<project, fresh, again>> /\ pinTodo' \subseteq Roots
          /\ pinPhase' \in {"writing", "failed"}
      BY <1>6 DEF WriteToolFile
    <2> QED BY <1>1, <2>3, <2>4, <2>5
  <1>7. CASE LoadAndMatch
    BY <1>1, <1>7 DEF LoadAndMatch
  <1>8. CASE InjectionPass
    BY <1>1, <1>8 DEF InjectionPass
  <1>9. CASE AddDeps
    BY <1>1, <1>9 DEF AddDeps
  <1>10. CASE BuildAgain
    BY <1>1, <1>10 DEF BuildAgain
  <1>11. CASE UNCHANGED pinVars
    BY <1>1, <1>11 DEF pinVars
  <1> QED BY <1>2, <1>3, <1>4, <1>5, <1>6, <1>7, <1>8, <1>9, <1>10, <1>11 DEF PinNext

LEMMA HooksAreHooks ==
  ASSUME PassesInv, NEW rules \in SUBSET rulesLoaded
  PROVE  HookPackages(rules) \subseteq DOMAIN project.imports
  BY DEF PassesInv, HookPackages

LEMMA AllAppliedGrows ==
  ASSUME applied \in Seq(SUBSET rulesLoaded), NEW more \in SUBSET rulesLoaded
  PROVE  /\ UNION Range(Append(applied, more)) = AllApplied \cup more
         /\ AllApplied \subseteq rulesLoaded
         /\ AllApplied = UNION {applied[k] : k \in 1..Len(applied)}
  <1>1. Range(applied) = {applied[k] : k \in 1..Len(applied)}
    BY DEF Range
  <1>2. /\ Append(applied, more) \in Seq(SUBSET rulesLoaded)
        /\ Len(Append(applied, more)) = Len(applied) + 1
        /\ Append(applied, more)[Len(applied) + 1] = more
        /\ \A k \in 1..Len(applied) : Append(applied, more)[k] = applied[k]
    BY AppendProperties
  <1>3. Range(Append(applied, more)) = Range(applied) \cup {more}
    <2>1. DOMAIN Append(applied, more) = (1..Len(applied)) \cup {Len(applied) + 1}
      BY <1>2, LenProperties
    <2> QED BY <1>1, <1>2, <2>1 DEF Range
  <1>4. \A k \in 1..Len(applied) : applied[k] \subseteq rulesLoaded
    OBVIOUS
  <1> QED BY <1>1, <1>3, <1>4 DEF AllApplied

LEMMA HookPackagesOfTwo ==
  ASSUME NEW S, NEW T
  PROVE  HookPackages(S \cup T) = HookPackages(S) \cup HookPackages(T)
  BY DEF HookPackages

\* The passes: what a pass adds to planned is closed under imports, is matched in
\* the same pass, and is the closure of the hooks of the pass before.
LEMMA PassesKeep ==
  ASSUME PinTypeInv, PassesInv, [PinNext]_pinVars
  PROVE  PassesInv'
  <1> DEFINE packages == DOMAIN project.imports
  <1>1. /\ project \in Projects /\ project' = project
        /\ \A q \in packages : project.imports[q] \subseteq packages
        /\ project.plan \subseteq packages /\ ClosedUnderImports(project.plan)
        /\ \A S : Closure(S)' = Closure(S) /\ HookPackages(S)' = HookPackages(S)
                 /\ ClosedUnderImports(S)' = ClosedUnderImports(S)
        /\ \A R, S : Matching(R, S)' = Matching(R, S) /\ Matching(R, S) \subseteq R
    <2>1. project' = project
      BY DEF PinNext, UpdatePinnedProjects, GeneratePinnedProjects, UpdateToolFile, WriteToolFile,
             PinDone, LoadAndMatch, InjectionPass, AddDeps, BuildAgain, pinVars
    <2> QED BY <2>1, ProjectFacts DEF PinTypeInv, ClosedUnderImports, Closure, HookPackages,
          Matching, RuleMatches, VersionMatches
  <1>2. ASSUME UNCHANGED <<rulesLoaded, planned, applied>>,
               pinPhase' \notin {"inject", "generate", "done"}
        PROVE  PassesInv'
    BY <1>1, <1>2 DEF PassesInv
  <1>3. CASE UpdatePinnedProjects
    BY <1>2, <1>3 DEF UpdatePinnedProjects
  <1>4. CASE GeneratePinnedProjects
    BY <1>2, <1>4 DEF GeneratePinnedProjects
  <1>5. CASE PinDone
    BY <1>2, <1>5 DEF PinDone
  <1>6. ASSUME NEW r \in Roots, UpdateToolFile(r) PROVE PassesInv'
    BY <1>2, <1>6 DEF UpdateToolFile
  <1>7. ASSUME NEW r \in Roots, WriteToolFile(r) PROVE PassesInv'
    BY <1>2, <1>7 DEF WriteToolFile
  <1>8. CASE BuildAgain
    BY <1>1, <1>8 DEF BuildAgain, PassesInv
  <1>9. CASE LoadAndMatch
    <2>1. CASE pinPhase' = "failed"
      <3>1. UNCHANGED <<rulesLoaded, planned, applied>>
        BY <1>9, <2>1 DEF LoadAndMatch
      <3> QED BY <1>2, <2>1, <3>1
    <2>2. CASE pinPhase' # "failed"
      <3> DEFINE M == Matching(rulesLoaded', project.plan)
      <3>1. /\ pinPhase' = "inject" /\ planned' = project.plan /\ applied' = <<M>>
            /\ \A r \in rulesLoaded' : \E i \in Known : r \in project.about[i].rules
        BY <1>9, <2>2 DEF LoadAndMatch, WalkInstrumentation
      <3>2. \A r \in rulesLoaded' : r.hook \in packages \cup {NoFile}
        BY <1>1, <3>1, ProjectFacts
      <3>3. M \subseteq rulesLoaded'
        BY <1>1
      <3>4. AllApplied' = M
        <4> HIDE DEF M
        <4>1. Range(<<M>>) = {M}
          BY DEF Range
        <4> QED BY <3>1, <4>1 DEF AllApplied
      <3>5. HookPackages(M) \subseteq packages
        BY <3>2, <3>3 DEF HookPackages
      <3>6. project.plan \subseteq Closure(project.plan \cup HookPackages(M))
        BY <1>1, <3>5, ClosureFacts
      <3> HIDE DEF M
      <3>7. applied' \in Seq(SUBSET rulesLoaded') /\ applied' # <<>> /\ Len(applied') = 1
        BY <3>1, <3>3
      <3>8. AllApplied' = Matching(rulesLoaded', planned')
        BY <3>1, <3>4 DEF M
      <3>9. planned' \subseteq Closure(project.plan \cup HookPackages(AllApplied))'
        <4>1. (project.plan \cup HookPackages(AllApplied))' = project.plan \cup HookPackages(M)
          BY <1>1, <3>4 DEF HookPackages
        <4> QED BY <1>1, <3>1, <3>6, <4>1 DEF Closure
      <3>10. 1..(Len(applied') - 1) = {}
        BY <3>7
      <3>11. planned' \subseteq DOMAIN project'.imports /\ project'.plan \subseteq planned'
             /\ ClosedUnderImports(planned)'
        BY <1>1, <3>1 DEF ClosedUnderImports
      <3>12. AllApplied' = Matching(rulesLoaded, planned)'
        BY <1>1, <3>8 DEF Matching, RuleMatches, VersionMatches
      <3> QED BY <1>1, <3>1, <3>2, <3>7, <3>9, <3>10, <3>11, <3>12 DEF PassesInv
    <2> QED BY <2>1, <2>2
  <1>10. CASE InjectionPass
    <2> DEFINE H == HookPackages(applied[Len(applied)])
               injected == InjectedDeps(applied[Len(applied)])
               more == Matching(rulesLoaded, injected)
    <2>1. pinPhase = "inject" /\ rulesLoaded' = rulesLoaded
      BY <1>10 DEF InjectionPass
    <2>2. CASE pinPhase' = "unresolved"
      <3>1. UNCHANGED <<planned, applied>>
        BY <1>10, <2>2 DEF InjectionPass
      <3> QED BY <1>2, <2>1, <2>2, <3>1
    <2>3. CASE pinPhase' # "unresolved"
      <3>1. /\ planned' = planned \cup injected
            /\ IF more = {} THEN pinPhase' = "generate" /\ applied' = applied
               ELSE pinPhase' = "inject" /\ applied' = Append(applied, more)
        BY <1>10, <2>1, <2>3 DEF InjectionPass
      <3>2. /\ applied \in Seq(SUBSET rulesLoaded) /\ Len(applied) \in Nat \ {0}
            /\ applied[Len(applied)] \subseteq rulesLoaded
            /\ applied[Len(applied)] \subseteq AllApplied /\ AllApplied \subseteq rulesLoaded
        <4>1. applied \in Seq(SUBSET rulesLoaded) /\ applied # <<>>
          BY <2>1 DEF PassesInv
        <4>2. Len(applied) \in Nat \ {0} /\ applied[Len(applied)] \in SUBSET rulesLoaded
          BY <4>1, EmptySeq, LenProperties
        <4>3. AllApplied = UNION {applied[k] : k \in 1..Len(applied)} /\ AllApplied \subseteq rulesLoaded
          BY <4>1, AllAppliedGrows
        <4> QED BY <4>1, <4>2, <4>3
      <3>3. H \subseteq packages /\ HookPackages(AllApplied) \subseteq packages
        BY <3>2, HooksAreHooks
      <3>4. planned' = planned \cup Closure(H)
        BY <3>1 DEF InjectedDeps
      <3>5. planned' \subseteq packages /\ project.plan \subseteq planned' /\ H \subseteq planned'
        BY <1>1, <2>1, <3>3, <3>4, ClosureFacts DEF PassesInv
      <3>6. ClosedUnderImports(planned')
        <4>1. ClosedUnderImports(planned) /\ ClosedUnderImports(Closure(H))
          BY <1>1, <2>1, <3>3, ClosureFacts DEF PassesInv
        <4> QED BY <3>4, <4>1 DEF ClosedUnderImports
      <3>7. Matching(rulesLoaded, planned') = AllApplied \cup more
        BY <2>1, <3>1, MatchingOfTwo DEF PassesInv
      <3>8. more \subseteq rulesLoaded
        BY <1>1
      <3>9. AllApplied' = AllApplied \cup more
        BY <3>1, <3>2, <3>8, AllAppliedGrows DEF AllApplied
      <3>10. planned' \subseteq Closure(project.plan \cup HookPackages(AllApplied'))
        <4> DEFINE before == project.plan \cup HookPackages(AllApplied)
                   after == project.plan \cup HookPackages(AllApplied \cup more)
        <4>1. before \subseteq after /\ H \subseteq after
          BY <3>2, HookPackagesOfTwo DEF HookPackages
        <4>2. after \subseteq packages
          BY <1>1, <3>2, <3>8, HooksAreHooks
        <4>3. Closure(before) \subseteq Closure(after) /\ Closure(H) \subseteq Closure(after)
          BY <1>1, <4>1, <4>2, ClosureGrows
        <4>4. planned \subseteq Closure(before)
          BY <2>1 DEF PassesInv
        <4> QED BY <3>4, <3>9, <4>3, <4>4
      <3>11. \A k \in 1..Len(applied) : HookPackages(applied[k]) \subseteq planned'
        BY <2>1, <3>2, <3>4, <3>5 DEF PassesInv
      <3> HIDE DEF H, more, injected
      <3>12. CASE more = {}
        <4>1. pinPhase' = "generate" /\ applied' = applied
          BY <3>1, <3>12
        <4>2. HookPackages(AllApplied) \subseteq planned'
          <5>1. AllApplied = UNION {applied[k] : k \in 1..Len(applied)}
            BY <3>2, AllAppliedGrows
          <5> QED BY <3>11, <5>1 DEF HookPackages
        <4>3. applied' # <<>> /\ \A r \in rulesLoaded : r.hook \in packages \cup {NoFile}
          BY <2>1, <4>1 DEF PassesInv
        <4>4. AllApplied' = AllApplied /\ HookPackages(AllApplied)' = HookPackages(AllApplied)
          BY <4>1 DEF AllApplied, HookPackages
        <4>5. \A k \in 1..(Len(applied') - 1) : HookPackages(applied'[k]) \subseteq planned'
          BY <3>2, <3>11, <4>1
        <4>6. applied' \in Seq(SUBSET rulesLoaded')
          BY <2>1, <3>2, <4>1
        <4>7. AllApplied' = Matching(rulesLoaded, planned)'
          BY <1>1, <2>1, <3>7, <3>12, <4>4
        <4>8. planned' \subseteq Closure(project.plan \cup HookPackages(AllApplied))'
          BY <1>1, <3>10, <4>4
        <4> QED BY <1>1, <2>1, <3>5, <3>6, <4>1, <4>2, <4>3, <4>4, <4>5, <4>6, <4>7, <4>8
                DEF PassesInv
      <3>13. CASE more # {}
        <4>1. pinPhase' = "inject" /\ applied' = Append(applied, more)
          BY <3>1, <3>13
        <4>2. /\ applied' \in Seq(SUBSET rulesLoaded) /\ Len(applied') = Len(applied) + 1
              /\ \A k \in 1..Len(applied) : applied'[k] = applied[k]
          BY <3>2, <3>8, <4>1, AppendProperties
        <4>3. applied' # <<>> /\ \A r \in rulesLoaded : r.hook \in packages \cup {NoFile}
          BY <3>2, <4>2 DEF PassesInv
        <4>4. \A k \in 1..(Len(applied') - 1) : HookPackages(applied'[k]) \subseteq planned'
          BY <3>2, <3>11, <4>2
        <4> QED BY <1>1, <2>1, <3>5, <3>6, <3>7, <3>9, <3>10, <4>1, <4>2, <4>3, <4>4 DEF PassesInv
      <3> QED BY <3>12, <3>13
    <2> QED BY <2>2, <2>3
  <1>11. CASE AddDeps
    <2>1. /\ UNCHANGED <<rulesLoaded, planned, applied>> /\ AllApplied' = AllApplied
          /\ generated' = [p \in project.builds |-> HookPackages(AllApplied) \ {p}]
          /\ \/ pinPhase' = "partial"
             \/ pinPhase = "generate" /\ pinPhase' = "done"
      <3>1. CASE pinPhase = "generate"
        BY <1>11, <3>1 DEF AddDeps, AllApplied
      <3>2. CASE pinPhase = "unresolved"
        BY <1>11, <3>2 DEF AddDeps, AllApplied
      <3> QED BY <1>11, <3>1, <3>2 DEF AddDeps
    <2> QED BY <1>1, <1>2, <2>1 DEF PassesInv
  <1>12. CASE UNCHANGED pinVars
    BY <1>1, <1>12 DEF pinVars, PassesInv, AllApplied
  <1> QED BY <1>3, <1>4, <1>5, <1>6, <1>7, <1>8, <1>9, <1>10, <1>11, <1>12 DEF PinNext

\* Pin: a file of the build's modules is settled once it is written, whether it
\* was there or is generated, and no later step touches it.
LEMMA SettledKeeps ==
  ASSUME PinTypeInv, DeadImportsOnce, SettledInv, [PinNext]_pinVars
  PROVE  SettledInv'
  <1>1. /\ project \in Projects /\ project' = project /\ Roots' = Roots /\ Known' = Known
        /\ \A i : IsValid(i)' = IsValid(i)
        /\ MatchInstrumentationImports' = MatchInstrumentationImports
        /\ \A m : EnsureOtelcRequire(m)' = EnsureOtelcRequire(m)
    <2>1. project' = project
      BY DEF PinNext, UpdatePinnedProjects, GeneratePinnedProjects, UpdateToolFile, WriteToolFile,
             PinDone, LoadAndMatch, InjectionPass, AddDeps, BuildAgain, pinVars
    <2> QED BY <2>1 DEF PinTypeInv, Roots, Known, IsValid, IsInstrumentation, EnsureOtelcRequire,
          MatchInstrumentationImports, RuleMatches, VersionMatches
  <1>2. /\ Roots # {}
        /\ \A i \in MatchInstrumentationImports : IsValid(i)
        /\ \A r \in Roots : Before(r, r)
    <2>1. ASSUME NEW r \in Roots PROVE Before(r, r)
      <3>1. PICK k \in DOMAIN project.roots : project.roots[k] = r
        BY DEF Roots, Range
      <3>2. k \in 1..k
        <4>1. project.roots \in Seq(Range(project.roots))
          BY <1>1, PinningAssumption DEF PinningAssumption, IsProject
        <4>2. k \in Nat /\ k >= 1
          BY <4>1, LenProperties
        <4> QED BY <4>2
      <3> QED BY <3>1, <3>2 DEF Before
    <2> QED BY <1>1, <2>1, ProjectFacts DEF MatchInstrumentationImports
  <1>3. ASSUME UNCHANGED <<toolFile, goMod>>
        PROVE  ToolFiles' = ToolFiles /\ \A r : Settled(r)' = Settled(r)
    BY <1>1, <1>3 DEF ToolFiles, Settled
  <1>4. ASSUME pinPhase' = "failed" PROVE SettledInv'
    BY <1>4 DEF SettledInv
  <1>5. CASE UpdatePinnedProjects
    <2>1. CASE pinPhase' # "failed"
      <3>1. /\ pinPhase = "pin" /\ ToolFiles # {} /\ UNCHANGED <<toolFile, goMod, fresh, again>>
            /\ pinPhase' = "writing" /\ pinTodo' = ToolFiles
            /\ pruned' = [f \in DOMAIN toolFile |->
                            {i \in toolFile[f] : FoundIn(i, f) /\ ~IsValid(i)}]
        BY <1>5, <2>1 DEF UpdatePinnedProjects
      <3>2. fresh = {}
        BY <3>1 DEF SettledInv
      <3>3. ASSUME NEW r \in ToolFiles, NEW i \in toolFile[r], ~IsValid(i)
            PROVE  FoundIn(i, r)
        <4>1. toolFile = project.file
          BY <3>1, <3>3 DEF SettledInv, Settled
        <4>2. \A g \in ToolFiles : i \in toolFile[g] => g = r
          BY <3>3, <4>1 DEF DeadImportsOnce, ToolFiles
        <4> QED BY <1>2, <4>2 DEF FoundIn, ToolFiles
      <3>4. \A r \in pinTodo' : pruned'[r] = {i \in toolFile'[r] : ~IsValid(i)'}
        BY <1>1, <3>1, <3>3 DEF ToolFiles
      <3> QED BY <1>1, <1>3, <3>1, <3>2, <3>4 DEF SettledInv
    <2> QED BY <1>4, <2>1
  <1>6. CASE GeneratePinnedProjects
    <2>1. /\ pinPhase = "pin" /\ ToolFiles = {} /\ UNCHANGED <<toolFile, goMod, again>>
          /\ fresh' = MatchInstrumentationImports
      BY <1>6 DEF GeneratePinnedProjects
    <2>2. CASE fresh' = {}
      <3>1. pinPhase' = "load" /\ pinTodo' = {}
        BY <1>6, <2>1, <2>2 DEF GeneratePinnedProjects, SettledInv
      <3> QED BY <1>1, <1>3, <2>1, <2>2, <3>1 DEF SettledInv
    <2>3. CASE fresh' # {}
      <3>1. pinPhase' = "writing" /\ pinTodo' = Roots
        BY <1>6, <2>3 DEF GeneratePinnedProjects
      <3>2. ~again
        BY <2>1, <2>3 DEF SettledInv
      <3> QED BY <1>1, <1>2, <1>3, <2>1, <2>3, <3>1, <3>2 DEF SettledInv
    <2> QED BY <2>2, <2>3
  <1>7. CASE PinDone
    <2>1. /\ pinPhase = "writing" /\ pinTodo = {} /\ pinPhase' = "load" /\ fresh' = {}
          /\ UNCHANGED <<toolFile, goMod, pinTodo, again>>
      BY <1>7 DEF PinDone
    <2>2. ToolFiles # {} /\ \A r \in ToolFiles : Settled(r)
      BY <1>2, <2>1 DEF SettledInv
    <2> QED BY <1>1, <1>3, <2>1, <2>2 DEF SettledInv
  <1>8. ASSUME NEW r \in Roots, UpdateToolFile(r), pinPhase' # "failed" PROVE SettledInv'
    <2> DEFINE m == EnsureOtelcRequire(goMod[r])
               dirty == pruned[r] # {} \/ ~m.tidy
    <2>1. /\ pinPhase = "writing" /\ fresh = {} /\ r \in pinTodo
          /\ toolFile' = [toolFile EXCEPT ![r] = @ \ pruned[r]]
          /\ goMod' = [goMod EXCEPT ![r] = IF dirty THEN Tidied(m) ELSE m]
          /\ pinTodo' = pinTodo \ {r} /\ pinPhase' = "writing"
          /\ UNCHANGED <<pruned, fresh, again>>
      BY <1>8 DEF UpdateToolFile, FirstToDo
    <2>2. /\ pinTodo \subseteq ToolFiles /\ ToolFiles' = ToolFiles
          /\ \A q \in pinTodo : pruned[q] = {i \in toolFile[q] : ~IsValid(i)}
          /\ \A q \in ToolFiles \ pinTodo : Settled(q)
      BY <1>1, <2>1 DEF SettledInv, ToolFiles
    <2>3. \A q \in ToolFiles \ {r} :
            toolFile'[q] = toolFile[q] /\ goMod'[q] = goMod[q] /\ Settled(q)' = Settled(q)
      <3> HIDE DEF dirty, m
      <3>1. \A q \in ToolFiles \ {r} : toolFile'[q] = toolFile[q] /\ goMod'[q] = goMod[q]
        BY <2>1 DEF ToolFiles, PinTypeInv
      <3> QED BY <1>1, <3>1 DEF Settled
    <2>4. Settled(r)'
      <3>1. goMod[r] \in Requirement
        BY DEF PinTypeInv
      <3>2. /\ EnsureOtelcRequire(Tidied(m)) = Tidied(m) /\ Tidied(m).tidy
            /\ m.tidy => EnsureOtelcRequire(m) = m
        BY <1>1, <3>1, RequirementFacts DEF PinTypeInv
      <3>3. r \in DOMAIN goMod /\ r \in DOMAIN toolFile
        BY <2>1, <2>2 DEF PinTypeInv, ToolFiles
      <3> HIDE DEF m
      <3>4. EnsureOtelcRequire(goMod'[r]) = goMod'[r] /\ goMod'[r].tidy
        BY <2>1, <3>2, <3>3
      <3>5. \A i \in toolFile'[r] : IsValid(i)
        BY <2>1, <2>2, <3>3
      <3> QED BY <1>1, <3>4, <3>5 DEF Settled
    <2>5. \A q \in ToolFiles' \ pinTodo' : Settled(q)'
      BY <2>1, <2>2, <2>3, <2>4
    <2>6. again => \A q \in ToolFiles : Settled(q)
      BY <2>1 DEF SettledInv
    <2>7. \A q \in pinTodo' : pruned'[q] = {i \in toolFile'[q] : ~IsValid(i)'}
      BY <1>1, <2>1, <2>2, <2>3
    <2>8. again' => \A q \in ToolFiles' : Settled(q)'
      BY <2>1, <2>2, <2>3, <2>4, <2>6
    <2>9. pinPhase' = "writing" /\ fresh' = {} /\ pinTodo' \subseteq ToolFiles' /\ ToolFiles' # {}
      BY <2>1, <2>2
    <2> HIDE DEF dirty, m
    <2> QED BY <2>5, <2>7, <2>8, <2>9 DEF SettledInv
  <1>9. ASSUME NEW r \in Roots, WriteToolFile(r), pinPhase' # "failed" PROVE SettledInv'
    <2> DEFINE m == SyncDeps(EnsureOtelcRequire(goMod[r]))
    <2>1. /\ pinPhase = "writing" /\ fresh # {} /\ r \in pinTodo
          /\ toolFile' = [f \in DOMAIN toolFile \cup {r} |-> IF f = r THEN fresh ELSE toolFile[f]]
          /\ goMod' = [goMod EXCEPT ![r] = Tidied(m)]
          /\ pinTodo' = pinTodo \ {r} /\ pinPhase' = "writing"
          /\ UNCHANGED <<fresh, again>>
      BY <1>9 DEF WriteToolFile, FirstToDo
    <2>2. /\ \A i \in fresh : IsValid(i)
          /\ ~again /\ ToolFiles = Roots \ pinTodo
          /\ \A q \in ToolFiles : Settled(q)
      BY <2>1 DEF SettledInv
    <2> HIDE DEF m
    <2>3. ToolFiles' = Roots \ pinTodo'
      <3>1. ToolFiles' = ToolFiles \cup {r}
        BY <1>1, <2>1 DEF ToolFiles
      <3> QED BY <2>1, <2>2, <3>1
    <2>4. \A q \in ToolFiles : Settled(q)' = Settled(q)
      <3>1. \A q \in ToolFiles : toolFile'[q] = toolFile[q] /\ goMod'[q] = goMod[q]
        BY <2>1, <2>2 DEF ToolFiles, PinTypeInv
      <3> QED BY <1>1, <3>1 DEF Settled
    <2>5. Settled(r)'
      <3>1. goMod[r] \in Requirement /\ r \in DOMAIN goMod
        BY DEF PinTypeInv
      <3>2. EnsureOtelcRequire(Tidied(m)) = Tidied(m) /\ Tidied(m).tidy
        BY <1>1, <3>1, RequirementFacts DEF PinTypeInv, m
      <3>3. goMod'[r] = Tidied(m) /\ toolFile'[r] = fresh
        BY <2>1, <3>1
      <3> QED BY <1>1, <2>2, <3>2, <3>3 DEF Settled
    <2> QED BY <1>1, <2>1, <2>2, <2>3, <2>4, <2>5 DEF SettledInv
  <1>10. ASSUME UNCHANGED <<toolFile, goMod, pinTodo, fresh>>,
                pinPhase \notin {"pin", "writing", "failed"},
                pinPhase' \notin {"writing", "failed"},
                pinPhase' = "pin" => again'
         PROVE  SettledInv'
    BY <1>1, <1>3, <1>10 DEF SettledInv
  <1>11. CASE LoadAndMatch
    BY <1>4, <1>10, <1>11 DEF LoadAndMatch
  <1>12. CASE InjectionPass
    BY <1>10, <1>12 DEF InjectionPass
  <1>13. CASE AddDeps
    BY <1>10, <1>13 DEF AddDeps
  <1>14. CASE BuildAgain
    BY <1>10, <1>14 DEF BuildAgain
  <1>15. CASE UNCHANGED pinVars
    BY <1>1, <1>3, <1>15 DEF pinVars, SettledInv
  <1> QED BY <1>4, <1>5, <1>6, <1>7, <1>8, <1>9, <1>11, <1>12, <1>13, <1>14, <1>15 DEF PinNext

\* The inductive invariant holds of every build of every project, pin, setup and
\* the build that follows.
THEOREM PinInvariant == PinSpec => []PinInv
  <1>1. PinInv /\ [PinNext]_pinVars => PinInv'
    <2> SUFFICES ASSUME PinInv, [PinNext]_pinVars PROVE PinInv'
      OBVIOUS
    <2>1. PinTypeInv' /\ PassesInv'
      BY PinTypesKeep, PassesKeep DEF PinInv
    <2>2. DeadImportsOnce' = DeadImportsOnce
      <3>1. project' = project
        BY DEF PinNext, UpdatePinnedProjects, GeneratePinnedProjects, UpdateToolFile, WriteToolFile,
               PinDone, LoadAndMatch, InjectionPass, AddDeps, BuildAgain, pinVars
      <3> QED BY <3>1 DEF DeadImportsOnce, Roots, IsValid, IsInstrumentation
    <2> QED BY <2>1, <2>2, SettledKeeps DEF PinInv
  <1> QED BY PinStarts, <1>1, PTL DEF PinSpec

\* runInjectionPasses and addDeps: once setup is done, the rules applied are those
\* the build calls for with all the packages that the hooks bring along.
THEOREM InjectedCodeIsMatchedHolds == PinSpec => []InjectedCodeIsMatched
  <1>1. PinInv => InjectedCodeIsMatched
    <2> SUFFICES ASSUME PinInv, pinPhase = "done"
                 PROVE  AllApplied = Matching(rulesLoaded, Closure(project.plan \cup UNION {generated[p] : p \in project.builds}))
      BY DEF InjectedCodeIsMatched
    <2> DEFINE hooks == HookPackages(AllApplied)
               build == project.plan \cup UNION {generated[p] : p \in project.builds}
    <2>1. /\ planned \subseteq DOMAIN project.imports
          /\ project.plan \subseteq planned /\ ClosedUnderImports(planned)
          /\ AllApplied = Matching(rulesLoaded, planned)
          /\ planned \subseteq Closure(project.plan \cup hooks) /\ hooks \subseteq planned
          /\ generated = [p \in project.builds |-> hooks \ {p}]
      BY DEF PinInv, PassesInv
    <2>2. project \in Projects /\ project.builds \subseteq project.plan /\ project.builds # {}
      BY ProjectFacts DEF PinInv, PinTypeInv
    <2> HIDE DEF hooks
    <2>3. build = project.plan \cup hooks
      BY <2>1, <2>2
    <2>4. Closure(build) = planned
      BY <2>1, <2>2, <2>3, ClosureFacts, ZenonT(40)
    <2> QED BY <2>1, <2>4
  <1> QED BY <1>1, PinInvariant, PTL

\* updatePinnedProjects and generatePinnedProjects: the second build changes
\* nothing, and setup loads what pin has let pass.
THEOREM PinSettlesHolds == PinSpec => PinSettles
  <1> DEFINE A == DeadImportsOnce =>
                    /\ again => toolFile' = toolFile /\ goMod' = goMod
                    /\ pinPhase = "load" => \A f \in ToolFiles : \A i \in toolFile[f] : IsValid(i)
  <1>1. PinInv /\ [PinNext]_pinVars => [A]_pinVars
    <2> SUFFICES ASSUME PinInv, PinNext, DeadImportsOnce
                 PROVE  /\ again => toolFile' = toolFile /\ goMod' = goMod
                        /\ pinPhase = "load" => \A f \in ToolFiles : \A i \in toolFile[f] : IsValid(i)
      OBVIOUS
    <2>1. PinTypeInv /\ SettledInv
      BY DEF PinInv
    <2>2. pinPhase = "load" => \A f \in ToolFiles : \A i \in toolFile[f] : IsValid(i)
      BY <2>1 DEF SettledInv, Settled
    <2>3. ASSUME again, NEW r \in Roots, UpdateToolFile(r)
          PROVE  toolFile' = toolFile /\ goMod' = goMod
      <3>1. pinPhase = "writing" /\ fresh = {} /\ r \in pinTodo
        BY <2>3 DEF UpdateToolFile, FirstToDo
      <3>2. /\ r \in ToolFiles /\ Settled(r)
            /\ pruned[r] = {i \in toolFile[r] : ~IsValid(i)}
        BY <2>1, <2>3, <3>1 DEF SettledInv
      <3>3. pruned[r] = {} /\ EnsureOtelcRequire(goMod[r]) = goMod[r] /\ goMod[r].tidy
        BY <3>2 DEF Settled
      <3>4. toolFile' = [toolFile EXCEPT ![r] = toolFile[r]]
        BY <2>3, <3>3 DEF UpdateToolFile
      <3>5. goMod' = [goMod EXCEPT ![r] = goMod[r]]
        BY <2>3, <3>3 DEF UpdateToolFile
      <3> QED BY <2>1, <3>2, <3>4, <3>5 DEF PinTypeInv
    <2>4. ASSUME again, NEW r \in Roots, WriteToolFile(r) PROVE FALSE
      BY <2>1, <2>4 DEF WriteToolFile, SettledInv
    <2>5. again => toolFile' = toolFile /\ goMod' = goMod
      BY <2>3, <2>4 DEF PinNext, UpdatePinnedProjects, GeneratePinnedProjects, PinDone, LoadAndMatch,
           InjectionPass, AddDeps, BuildAgain
    <2> QED BY <2>2, <2>5
  <1> QED BY <1>1, PinInvariant, PTL DEF PinSpec, PinSettles

-----------------------------------------------------------------------------
(* RuleMatching.  A rule set in the list is the one of a compile that has   *)
(* been matched; when paths are not shared there is one at most for a path, *)
(* so the first of a path is its own, wherever it stands.                   *)

\* cgo's originals are files of the directory the compile runs in.
LEMMA CgoRunsInTheDirectory ==
  ASSUME plan \in Plans, NEW i \in Compiles, plan[i].generated # {}
  PROVE  CgoSourceDir(i) = {plan[i].dir}
  <1> DEFINE obj == plan[i].obj
             moves == {m \in DOMAIN plan : plan[m].cmd = "cd"}
             runs == {g \in DOMAIN plan : plan[g].cmd = "cgo" /\ plan[g].obj = obj}
  <1>1. IsDryRun(plan) /\ i \in DOMAIN plan /\ plan[i].cmd = "compile"
    BY MatchAssumption DEF MatchAssumption, Compiles
  <1>2. DOMAIN plan \subseteq Nat /\ i \in Nat
    <2>1. plan \in Seq(Range(plan))
      BY <1>1 DEF IsDryRun
    <2> QED BY <1>1, <2>1, LenProperties
  <1>3. PICK j \in DOMAIN plan, k \in DOMAIN plan :
               /\ j < i /\ j \in runs /\ \A l \in (j + 1)..(i - 1) : (plan[l].cmd = "cgo" => plan[l].obj # obj)
               /\ k < j /\ k \in moves /\ \A l \in (k + 1)..(j - 1) : plan[l].cmd # "cd"
               /\ plan[k].dir = plan[i].dir
    BY <1>1 DEF IsDryRun, CgoRan
  <1>4. LastBefore(i, runs) = {j}
    <2>1. ASSUME NEW g \in runs, g < i PROVE g <= j
      BY <1>2, <1>3, <2>1
    <2> QED BY <1>2, <1>3, <2>1 DEF LastBefore
  <1>5. LastBefore(j, moves) = {k}
    <2>1. ASSUME NEW g \in moves, g < j PROVE g <= k
      BY <1>2, <1>3, <2>1
    <2> QED BY <1>2, <1>3, <2>1 DEF LastBefore
  <1>6. CgoSourceDir(i) = UNION {{plan[m].dir : m \in LastBefore(g, moves)} : g \in LastBefore(i, runs)}
    BY DEF CgoSourceDir
  <1> HIDE DEF moves, runs
  <1> QED BY <1>3, <1>4, <1>5, <1>6

FilesOf(i) ==
  ({plan[i].dir} \X (plan[i].sources \cup plan[i].generated)) \cap DOMAIN FileOf

LEMMA SourcesAreFound ==
  ASSUME plan \in Plans, NEW i \in Compiles
  PROVE  LET dep == FindGoSources(i)
         IN  /\ dep.path = plan[i].path /\ dep.version = plan[i].version /\ dep.files = FilesOf(i)
             /\ dep.generated = ({plan[i].dir} \X plan[i].generated) \cap DOMAIN FileOf
  <1>1. {plan[i].dir} \X plan[i].sources \subseteq DOMAIN FileOf
    BY MatchAssumption DEF MatchAssumption, IsDryRun, Compiles
  <1>2. CgoSourceDir(i) \X plan[i].generated = {plan[i].dir} \X plan[i].generated
    BY CgoRunsInTheDirectory
  <1> QED BY <1>1, <1>2 DEF FindGoSources, FilesOf

\* The two ways a rule is looked up, by path or by pattern, agree with its target.
LEMMA RelevantAreTargeted ==
  ASSUME ruleList \in RuleSets, NEW dep
  PROVE  RelevantRules(dep) = {r \in ruleList : TargetMatches(r.target, dep.path)}
  <1>1. ASSUME NEW r \in ruleList, Exact(r.target)
        PROVE  TargetMatches(r.target, dep.path) <=> r.target.include[1].paths = {dep.path}
    <2>1. r.target.include \in Seq(Range(r.target.include))
      BY MatchAssumption DEF MatchAssumption
    <2>2. Range(r.target.include) = {r.target.include[1]}
      <3>1. DOMAIN r.target.include = 1..1
        BY <1>1, <2>1, LenProperties DEF Exact
      <3> QED BY <3>1 DEF Range
    <2> QED BY <1>1, <2>2 DEF TargetMatches, PatternMatches, Exact
  <1> QED BY <1>1 DEF RelevantRules, ExactRules, GlobRules

SetOf(i) == RunMatch(FindGoSources(i))

\* A compile that applies its own rule set applies what is wanted, and finds each
\* file it changed among its arguments.
LEMMA OwnSetIsWanted ==
  ASSUME plan \in Plans, ruleList \in RuleSets, NEW i \in Compiles
  PROVE  /\ SetOf(i).modulePath = plan[i].path
         /\ WhatApplies(SetOf(i), i) = Wanted(i)
         /\ IsEmpty(SetOf(i)) => Wanted(i) = {}
  <1> DEFINE dep == FindGoSources(i)
             set == SetOf(i)
             c == TheCompile(i)
             IsFor(r) == TargetMatches(r.target, plan[i].path) /\ VersionInRange(plan[i].version, r)
             selected == {x \in {r \in ruleList : IsFor(r) /\ r.kind # "file"} \X FilesOf(i) :
                            Passes(x[1].where, x[2], IsTestBuild(c)) /\ MatchOneRule(x[1], x[2])}
  <1>1. /\ dep.path = plan[i].path /\ dep.version = plan[i].version /\ dep.files = FilesOf(i)
        /\ dep.generated = ({plan[i].dir} \X plan[i].generated) \cap DOMAIN FileOf
    BY SourcesAreFound
  <1>2. IsTestBuild(dep) = IsTestBuild(c)
    BY <1>1 DEF IsTestBuild, TheCompile, FilesOf
  <1>3. Filtered(dep) = {r \in ruleList : IsFor(r)}
    BY <1>1, RelevantAreTargeted DEF Filtered
  <1>4. PreciseRules(dep) = {r \in ruleList : IsFor(r) /\ r.kind # "file"}
    BY <1>3 DEF PreciseRules
  <1>5. /\ set.modulePath = plan[i].path /\ set.cgoFiles = dep.generated /\ set.rules = selected
        /\ set.files = {r \in ruleList : IsFor(r) /\ r.kind = "file"} /\ set.ignores \subseteq FilesOf(i)
    <2> HIDE DEF dep, c, IsFor
    <2> QED BY <1>1, <1>2, <1>3, <1>4 DEF RunMatch, SetOf, dep
  <1> HIDE DEF dep, set, c
  <1>6. \A f \in FilesOf(i) : CompileName(f, set.cgoFiles) \in Arguments(i)
    <2>1. ASSUME NEW f \in FilesOf(i), f \in set.cgoFiles PROVE CompileName(f, set.cgoFiles) \in Arguments(i)
      BY <1>1, <1>5, <2>1 DEF CompileName, Arguments
    <2>2. ASSUME NEW f \in FilesOf(i), f \notin set.cgoFiles PROVE CompileName(f, set.cgoFiles) \in Arguments(i)
      BY <1>1, <1>5, <2>2 DEF CompileName, Arguments, FilesOf
    <2> QED BY <2>1, <2>2
  <1>7. AppliedBySet(set) = {x \in selected : Applies(x[1], x[2])}
    BY <1>5 DEF AppliedBySet
  <1>8. Unreplaced(set, i) = {}
    BY <1>5, <1>6, <1>7 DEF Unreplaced
  <1> DEFINE applied1 == {<<x[1].id, x[2]>> : x \in AppliedBySet(set)}
             added == {<<r.id, "new">> : r \in set.files}
  <1> DEFINE said == {<<x[1].id, x[2]>> : x \in {y \in ruleList \X c.files : SaysFor(y[1], y[2], c)}}
             new == {<<r.id, "new">> : r \in {q \in ruleList :
                        /\ q.kind = "file" /\ TargetMatches(q.target, c.path)
                        /\ VersionInRange(c.version, q)}}
  <1>9. Wanted(i) = said \cup new
    BY DEF Wanted, c
  <1>10. c.files = FilesOf(i) /\ c.path = plan[i].path /\ c.version = plan[i].version
    BY DEF c, TheCompile, FilesOf
  <1>11. \A r \in ruleList, f \in FilesOf(i) : <<r, f>> \in AppliedBySet(set) <=> SaysFor(r, f, c)
    BY <1>7, <1>10 DEF SaysFor
  <1>12. AppliedBySet(set) \subseteq ruleList \X FilesOf(i)
    BY <1>7
  <1>13. set.files = {q \in ruleList : /\ q.kind = "file" /\ TargetMatches(q.target, c.path)
                                     /\ VersionInRange(c.version, q)}
    BY <1>5, <1>10
  <1> HIDE DEF selected, IsFor
  <1>14. Wanted(i) = applied1 \cup added
    <2>1. said = applied1
      <3>1. {y \in ruleList \X c.files : SaysFor(y[1], y[2], c)} = AppliedBySet(set)
        BY <1>11, <1>12, <1>10
      <3> QED BY <3>1
    <2>2. new = added
      BY <1>13
    <2> HIDE DEF applied1, added, said, new
    <2> QED BY <1>9, <2>1, <2>2
  <1>15. WhatApplies(set, i) = Wanted(i)
    BY <1>8, <1>14 DEF WhatApplies
  <1>16. IsEmpty(set) => Wanted(i) = {}
    BY <1>14 DEF IsEmpty, AppliedBySet
  <1> QED BY <1>5, <1>15, <1>16 DEF set

PathsAreTheirOwn == \A i, j \in Compiles : plan[i].path = plan[j].path => i = j

\* Each set in the list is that of a compile that has been matched, in any order;
\* a compile without one has nothing to apply.
MatchInv ==
  /\ plan \in Plans /\ ruleList \in RuleSets
  /\ todo \subseteq Compiles
  /\ setupStage \in {"matching", "stored", "failed"} /\ (setupStage = "stored" => todo = {})
  /\ matched \in Seq({SetOf(i) : i \in Compiles})
  /\ \A k \in DOMAIN matched : \E i \in Compiles \ todo : matched[k] = SetOf(i)
  /\ \A i \in Compiles \ todo : IsEmpty(SetOf(i)) \/ \E k \in DOMAIN matched : matched[k] = SetOf(i)
  /\ PathsAreTheirOwn =>
       /\ \A k, l \in DOMAIN matched : matched[k].modulePath = matched[l].modulePath => k = l
       /\ \A x \in compiled : x[1] \in Compiles /\ x[2] = Wanted(x[1])

\* matchDeps: a goroutine appends the rule set of its own compile and no other.
LEMMA MatchSteps ==
  ASSUME MatchInv, [MatchNext]_matchVars
  PROVE  MatchInv'
  <1> DEFINE sets == {SetOf(i) : i \in Compiles}
  <1>1. /\ plan \in Plans /\ ruleList \in RuleSets
        /\ plan' = plan /\ ruleList' = ruleList /\ Compiles' = Compiles
        /\ \A i : SetOf(i)' = SetOf(i) /\ Wanted(i)' = Wanted(i)
        /\ PathsAreTheirOwn' = PathsAreTheirOwn
    <2>1. plan' = plan /\ ruleList' = ruleList
      BY DEF MatchNext, MatchDep, MatchFails, CompilePackage, StoreMatched, matchVars
    <2>2. Compiles' = Compiles
      BY <2>1 DEF Compiles
    <2>3. \A i : FindGoSources(i)' = FindGoSources(i) /\ TheCompile(i)' = TheCompile(i)
      BY <2>1 DEF FindGoSources, CgoSourceDir, TheCompile
    <2>4. \A dep : RunMatch(dep)' = RunMatch(dep)
      BY <2>1 DEF RunMatch, Filtered, PreciseRules, RelevantRules, ExactRules, GlobRules
    <2>5. \A i : SetOf(i)' = SetOf(i)
      BY <2>3, <2>4 DEF SetOf
    <2>6. \A i : Wanted(i)' = Wanted(i)
      BY <2>1, <2>3 DEF Wanted
    <2> QED BY <2>1, <2>2, <2>5, <2>6 DEF MatchInv, PathsAreTheirOwn
  <1>2. ASSUME NEW i \in Compiles, MatchDep(i) PROVE MatchInv'
    <2> DEFINE set == SetOf(i)
    <2>1. /\ setupStage = "matching" /\ i \in todo /\ todo' = todo \ {i}
          /\ matched' = IF IsEmpty(set) THEN matched ELSE Append(matched, set)
          /\ UNCHANGED <<setupStage, compiled>>
      BY <1>2 DEF MatchDep, SetOf
    <2>2. matched \in Seq(sets) /\ set \in sets
      BY DEF MatchInv
    <2>3. CASE IsEmpty(set)
      <3>1. matched' = matched
        BY <2>1, <2>3
      <3> HIDE DEF sets
      <3> QED BY <1>1, <2>1, <2>3, <3>1 DEF MatchInv
    <2>4. CASE ~IsEmpty(set)
      <3>1. matched' = Append(matched, set)
        BY <2>1, <2>4
      <3> HIDE DEF sets, set
      <3>2. /\ matched' \in Seq(sets) /\ Len(matched') = Len(matched) + 1
            /\ \A k \in 1..Len(matched) : matched'[k] = matched[k]
            /\ matched'[Len(matched) + 1] = set
        BY <2>2, <3>1, AppendProperties
      <3>3. DOMAIN matched = 1..Len(matched) /\ DOMAIN matched' = DOMAIN matched \cup {Len(matched) + 1}
        BY <2>2, <3>2, LenProperties
      <3>4. \A k \in DOMAIN matched' : \E j \in Compiles \ todo' : matched'[k] = SetOf(j)
        BY <2>1, <3>2, <3>3 DEF MatchInv, set
      <3>5. \A j \in Compiles \ todo' :
              IsEmpty(SetOf(j)) \/ \E k \in DOMAIN matched' : matched'[k] = SetOf(j)
        BY <2>1, <3>2, <3>3 DEF MatchInv, set
      <3>6. ASSUME PathsAreTheirOwn, NEW k \in DOMAIN matched', NEW l \in DOMAIN matched',
                   matched'[k].modulePath = matched'[l].modulePath
            PROVE  k = l
        <4>1. set.modulePath = plan[i].path
          BY <1>1, OwnSetIsWanted DEF set
        <4>2. \A n \in DOMAIN matched : matched[n].modulePath # set.modulePath
          <5> SUFFICES ASSUME NEW n \in DOMAIN matched PROVE matched[n].modulePath # set.modulePath
            OBVIOUS
          <5>1. PICK j \in Compiles \ todo : matched[n] = SetOf(j)
            BY DEF MatchInv
          <5>2. matched[n].modulePath = plan[j].path
            BY <1>1, <5>1, OwnSetIsWanted
          <5> QED BY <2>1, <3>6, <4>1, <5>1, <5>2 DEF PathsAreTheirOwn
        <4> QED BY <3>2, <3>3, <3>6, <4>2 DEF MatchInv
      <3>7. matched' \in Seq({SetOf(j) : j \in Compiles})'
        <4>1. {SetOf(j) : j \in Compiles}' = sets
          BY <1>1 DEF sets
        <4> QED BY <3>2, <4>1
      <3>8. todo' \subseteq Compiles /\ setupStage' = "matching" /\ compiled' = compiled
        BY <2>1 DEF MatchInv
      <3>9. PathsAreTheirOwn => \A x \in compiled' : x[1] \in Compiles /\ x[2] = Wanted(x[1])
        BY <3>8 DEF MatchInv
      <3> QED BY <1>1, <3>4, <3>5, <3>6, <3>7, <3>8, <3>9 DEF MatchInv
    <2> QED BY <2>3, <2>4
  <1>3. ASSUME NEW i \in Compiles, MatchFails(i) PROVE MatchInv'
    BY <1>1, <1>3 DEF MatchFails, MatchInv
  <1>4. CASE StoreMatched
    BY <1>1, <1>4 DEF StoreMatched, MatchInv
  <1>5. ASSUME NEW i \in Compiles, CompilePackage(i) PROVE MatchInv'
    <2> DEFINE k == FirstSet(plan[i].path)
               answer == IF k = 0 THEN {} ELSE WhatApplies(matched[k], i)
    <2>1. /\ setupStage = "stored" /\ compiled' = compiled \cup {<<i, answer>>}
          /\ UNCHANGED <<todo, matched, setupStage>>
      BY <1>5 DEF CompilePackage
    <2>2. PathsAreTheirOwn => answer = Wanted(i)
      <3> SUFFICES ASSUME PathsAreTheirOwn PROVE answer = Wanted(i)
        OBVIOUS
      <3>1. DOMAIN matched = 1..Len(matched) /\ Len(matched) \in Nat
        <4>1. matched \in Seq(sets)
          BY DEF MatchInv
        <4> QED BY <4>1, LenProperties
      <3>2. \A l \in DOMAIN matched : matched[l].modulePath = plan[i].path => matched[l] = SetOf(i)
        <4> SUFFICES ASSUME NEW l \in DOMAIN matched, matched[l].modulePath = plan[i].path
                     PROVE  matched[l] = SetOf(i)
          OBVIOUS
        <4>1. PICK j \in Compiles : matched[l] = SetOf(j)
          BY DEF MatchInv
        <4>2. plan[j].path = plan[i].path
          BY <1>1, <4>1, OwnSetIsWanted
        <4> QED BY <4>1, <4>2 DEF PathsAreTheirOwn
      <3>3. CASE \E l \in DOMAIN matched : matched[l].modulePath = plan[i].path
        <4>1. PICK l \in DOMAIN matched : matched[l].modulePath = plan[i].path
          BY <3>3
        <4>2. /\ l > 0 /\ l \in 0..Len(matched)
              /\ \A n \in 1..(l - 1) : matched[n].modulePath # plan[i].path
          BY <3>1, <4>1 DEF MatchInv
        <4>3. k > 0 /\ k \in DOMAIN matched /\ matched[k].modulePath = plan[i].path
          BY <3>1, <4>1, <4>2 DEF FirstSet
        <4>4. matched[k] = SetOf(i)
          BY <3>2, <4>3
        <4> HIDE DEF k
        <4> QED BY <1>1, <4>3, <4>4, OwnSetIsWanted
      <3>4. CASE \A l \in DOMAIN matched : matched[l].modulePath # plan[i].path
        <4>1. k = 0
          BY <3>1, <3>4 DEF FirstSet
        <4>2. IsEmpty(SetOf(i))
          <5>1. i \in Compiles \ todo
            BY <2>1 DEF MatchInv
          <5>2. \A l \in DOMAIN matched : matched[l] # SetOf(i)
            BY <1>1, <3>4, OwnSetIsWanted
          <5> QED BY <5>1, <5>2 DEF MatchInv
        <4> QED BY <1>1, <4>1, <4>2, OwnSetIsWanted
      <3> QED BY <3>3, <3>4
    <2> HIDE DEF answer
    <2>3. PathsAreTheirOwn => \A x \in compiled' : x[1] \in Compiles /\ x[2] = Wanted(x[1])
      BY <2>1, <2>2 DEF MatchInv
    <2> QED BY <1>1, <2>1, <2>3 DEF MatchInv
  <1>6. CASE UNCHANGED matchVars
    BY <1>1, <1>6 DEF matchVars, MatchInv
  <1> QED BY <1>2, <1>3, <1>4, <1>5, <1>6 DEF MatchNext

\* The list of rule sets is right in every reachable state.
THEOREM MatchInvariant == MatchSpec => []MatchInv
  <1>1. MatchInit => MatchInv
    <2> SUFFICES ASSUME MatchInit PROVE MatchInv
      OBVIOUS
    <2>1. matched = <<>> /\ compiled = {} /\ todo = Compiles
      BY DEF MatchInit
    <2>2. setupStage \in {"matching", "stored", "failed"} /\ setupStage # "stored"
      BY DEF MatchInit
    <2> QED BY <2>1, <2>2 DEF MatchInit, MatchInv
  <1> QED BY <1>1, MatchSteps, PTL DEF MatchSpec

\* match, store, load and instrument: whatever the order in which the goroutines
\* of matchDeps ended, a compile with a path of its own applies what the rules
\* want for its files.
THEOREM RulesReachTheirCompileHolds == MatchSpec => []RulesReachTheirCompile
  <1>1. MatchInv => RulesReachTheirCompile
    BY DEF MatchInv, PathsAreTheirOwn, RulesReachTheirCompile
  <1> QED BY <1>1, MatchInvariant, PTL

-----------------------------------------------------------------------------
(* RuleFiles.  What the files read so far have said of a name.              *)

Kinds == {"struct", "file", "directive", "raw", "func", "call", "lit", "decl", "none"}
Stood == [file : DOMAIN RuleFile, kind : Kinds]

LEMMA GroupsOfAFile ==
  ASSUME NEW f \in DOMAIN RuleFile
  PROVE  /\ DOMAIN Grouped(f) = Names(f)
         /\ \A n \in Names(f) : /\ Grouped(f)[n] \in Seq(Stood)
                                /\ \A k \in DOMAIN Grouped(f)[n] : Grouped(f)[n][k].file = f
  <1> DEFINE entries == RuleFile[f].entries
             Entry(n) == CHOOSE i \in DOMAIN entries : entries[i].name = n
             Group(n) == [k \in DOMAIN Normalize(entries[Entry(n)]) |->
                            [file |-> f, kind |-> KindOf(Normalize(entries[Entry(n)])[k].fields)]]
  <1>1. Grouped(f) = [n \in Names(f) |-> Group(n)]
    BY DEF Grouped, Names
  <1>2. ASSUME NEW n \in Names(f) PROVE Entry(n) \in DOMAIN entries
    BY DEF Names
  <1>3. ASSUME NEW i \in DOMAIN entries
        PROVE  \E len \in Nat : DOMAIN Normalize(entries[i]) = 1..len
    <2>1. CASE ~entries[i].structured
      <3>1. Normalize(entries[i]) = <<[name |-> entries[i].name, fields |-> entries[i].top]>>
        BY <2>1 DEF Normalize
      <3> QED BY <3>1
    <2>2. CASE entries[i].structured
      <3>1. entries[i].do \in Seq(Range(entries[i].do))
        BY ListsAssumption DEF ListsAssumption
      <3>2. DOMAIN Normalize(entries[i]) = DOMAIN entries[i].do
        BY <2>2 DEF Normalize
      <3> QED BY <3>1, <3>2, LenProperties
    <2> QED BY <2>1, <2>2
  <1>4. \A fields : KindOf(fields) \in Kinds
    BY DEF KindOf, Kinds
  <1> HIDE DEF Entry, entries
  <1>5. ASSUME NEW n \in Names(f)
        PROVE  Group(n) \in Seq(Stood) /\ \A k \in DOMAIN Group(n) : Group(n)[k].file = f
    <2>1. PICK len \in Nat : DOMAIN Normalize(entries[Entry(n)]) = 1..len
      BY <1>2, <1>3
    <2>2. Group(n) \in [1..len -> Stood]
      BY <1>4, <2>1 DEF Stood
    <2> QED BY <2>2
  <1> HIDE DEF Group
  <1> QED BY <1>1, <1>5

LEMMA OthersFollow ==
  ASSUME NEW rules \in Seq(Stood), NEW more \in Seq(Stood), NEW group \in Seq(Stood), NEW f,
         HoldsOnce(rules, f, group), \A m \in DOMAIN more : more[m].file # f
  PROVE  HoldsOnce(rules \o more, f, group)
  <1>1. PICK before \in 0..(Len(rules) - Len(group)) : \A m \in DOMAIN rules :
          IF m - before \in DOMAIN group THEN rules[m] = group[m - before] ELSE rules[m].file # f
    BY DEF HoldsOnce
  <1>2. /\ Len(rules) \in Nat /\ Len(more) \in Nat /\ Len(group) \in Nat
        /\ DOMAIN rules = 1..Len(rules) /\ DOMAIN more = 1..Len(more)
        /\ DOMAIN group = 1..Len(group)
        /\ DOMAIN (rules \o more) = 1..Len(rules \o more)
    BY LenProperties, ConcatProperties
  <1>3. /\ Len(rules \o more) = Len(rules) + Len(more)
        /\ \A m \in 1..(Len(rules) + Len(more)) :
             (rules \o more)[m] = IF m <= Len(rules) THEN rules[m] ELSE more[m - Len(rules)]
    BY ConcatProperties
  <1>4. before \in 0..(Len(rules \o more) - Len(group))
    BY <1>2, <1>3
  <1>5. ASSUME NEW m \in DOMAIN (rules \o more)
        PROVE  IF m - before \in DOMAIN group THEN (rules \o more)[m] = group[m - before]
               ELSE (rules \o more)[m].file # f
    <2>1. CASE m <= Len(rules)
      <3>1. m \in DOMAIN rules /\ (rules \o more)[m] = rules[m]
        BY <1>2, <1>3, <2>1
      <3> QED BY <1>1, <3>1
    <2>2. CASE m > Len(rules)
      <3>1. /\ m - Len(rules) \in DOMAIN more /\ (rules \o more)[m] = more[m - Len(rules)]
            /\ m - before \notin DOMAIN group
        BY <1>2, <1>3, <2>2
      <3> QED BY <3>1
    <2> QED BY <1>2, <2>1, <2>2
  <1> QED BY <1>4, <1>5 DEF HoldsOnce

LEMMA GroupIsAdded ==
  ASSUME NEW rules \in Seq(Stood), NEW group \in Seq(Stood), NEW f,
         \A m \in DOMAIN rules : rules[m].file # f
  PROVE  HoldsOnce(rules \o group, f, group)
  <1>1. /\ Len(rules) \in Nat /\ Len(group) \in Nat
        /\ DOMAIN rules = 1..Len(rules) /\ DOMAIN group = 1..Len(group)
        /\ DOMAIN (rules \o group) = 1..Len(rules \o group)
    BY LenProperties, ConcatProperties
  <1>2. /\ Len(rules \o group) = Len(rules) + Len(group)
        /\ \A m \in 1..(Len(rules) + Len(group)) :
             (rules \o group)[m] = IF m <= Len(rules) THEN rules[m] ELSE group[m - Len(rules)]
    BY ConcatProperties
  <1>3. Len(rules) \in 0..(Len(rules \o group) - Len(group))
    BY <1>1, <1>2
  <1>4. ASSUME NEW m \in DOMAIN (rules \o group)
        PROVE  IF m - Len(rules) \in DOMAIN group THEN (rules \o group)[m] = group[m - Len(rules)]
               ELSE (rules \o group)[m].file # f
    BY <1>1, <1>2
  <1> QED BY <1>3, <1>4 DEF HoldsOnce

\* The last file that names n, unless rules add up, has the word.
LoadInv ==
  /\ remaining \in Seq(DOMAIN RuleFile) /\ loaded \in Seq(DOMAIN RuleFile)
  /\ loadStage # "failed" =>
       /\ DOMAIN ruleOf = UNION {Names(loaded[k]) : k \in DOMAIN loaded}
       /\ \A n \in DOMAIN ruleOf :
            /\ ruleOf[n] \in Seq(Stood)
            /\ \A m \in DOMAIN ruleOf[n] : ruleOf[n][m].file \in Range(loaded)
       /\ \A k \in DOMAIN loaded : \A n \in Names(loaded[k]) :
            IF source = "tools" THEN HoldsOnce(ruleOf[n], loaded[k], Grouped(loaded[k])[n])
            ELSE (\A j \in (k + 1)..Len(loaded) : n \notin Names(loaded[j]))
                    => ruleOf[n] = Grouped(loaded[k])[n]

\* A file that is read adds its groups, or puts them in the place of others.
LEMMA LoadFileKeeps ==
  ASSUME LoadInv, LoadFile
  PROVE  LoadInv'
  <1> DEFINE f == Head(remaining)
             mine == Grouped(f)
  <1>1. /\ loadStage = "loading" /\ loadStage' = "loading" /\ source' = source
        /\ ruleOf' = IF source = "tools" THEN AddUp(f) ELSE Override(f)
        /\ loaded' = Append(loaded, f) /\ remaining # <<>> /\ remaining' = Tail(remaining)
    BY DEF LoadFile
  <1>2. f \in DOMAIN RuleFile /\ remaining' \in Seq(DOMAIN RuleFile)
    BY <1>1, HeadTailProperties DEF LoadInv
  <1> HIDE DEF f
  <1>3. /\ DOMAIN mine = Names(f)
        /\ \A n \in Names(f) : mine[n] \in Seq(Stood) /\ \A m \in DOMAIN mine[n] : mine[n][m].file = f
    BY <1>2, GroupsOfAFile
  <1> HIDE DEF mine
  <1>4. /\ loaded' \in Seq(DOMAIN RuleFile) /\ Len(loaded) \in Nat /\ DOMAIN loaded = 1..Len(loaded)
        /\ Len(loaded') = Len(loaded) + 1
        /\ \A k \in DOMAIN loaded : loaded'[k] = loaded[k]
        /\ loaded'[Len(loaded) + 1] = f
        /\ DOMAIN loaded' = DOMAIN loaded \cup {Len(loaded) + 1}
    <2>1. loaded \in Seq(DOMAIN RuleFile)
      BY DEF LoadInv
    <2>2. loaded' \in Seq(DOMAIN RuleFile) /\ Len(loaded') = Len(loaded) + 1
      BY <1>1, <1>2, <2>1, AppendProperties
    <2> QED BY <1>1, <1>2, <2>1, <2>2, AppendProperties, LenProperties
  <1>5. Range(loaded') = Range(loaded) \cup {f}
    BY <1>4 DEF Range
  <1>6. /\ DOMAIN ruleOf = UNION {Names(loaded[k]) : k \in DOMAIN loaded}
        /\ \A n \in DOMAIN ruleOf :
             ruleOf[n] \in Seq(Stood) /\ \A m \in DOMAIN ruleOf[n] : ruleOf[n][m].file \in Range(loaded)
    BY <1>1 DEF LoadInv
  <1>7. UNION {Names(loaded'[k]) : k \in DOMAIN loaded'} = DOMAIN ruleOf \cup Names(f)
    BY <1>4, <1>6
  <1>8. CASE source # "tools"
    <2>1. ruleOf' = [n \in DOMAIN ruleOf \cup Names(f) |-> IF n \in Names(f) THEN mine[n] ELSE ruleOf[n]]
      BY <1>1, <1>3, <1>8 DEF Override, mine
    <2>2. \A n \in DOMAIN ruleOf' :
            ruleOf'[n] \in Seq(Stood) /\ \A m \in DOMAIN ruleOf'[n] : ruleOf'[n][m].file \in Range(loaded')
      BY <1>3, <1>5, <1>6, <2>1
    <2>3. ASSUME NEW k \in DOMAIN loaded', NEW n \in Names(loaded'[k]),
                 \A j \in (k + 1)..Len(loaded') : n \notin Names(loaded'[j])
          PROVE  ruleOf'[n] = Grouped(loaded'[k])[n]
      <3>1. CASE k = Len(loaded) + 1
        BY <1>4, <2>1, <2>3, <3>1 DEF mine
      <3>2. CASE k # Len(loaded) + 1
        <4>1. k \in DOMAIN loaded /\ n \in Names(loaded[k]) /\ n \notin Names(f)
          BY <1>4, <2>3, <3>2
        <4>2. \A j \in (k + 1)..Len(loaded) : n \notin Names(loaded[j])
          BY <1>4, <2>3
        <4>3. ruleOf[n] = Grouped(loaded[k])[n]
          BY <1>1, <1>8, <4>1, <4>2 DEF LoadInv
        <4> QED BY <1>4, <1>6, <2>1, <4>1, <4>3
      <3> QED BY <3>1, <3>2
    <2>4. DOMAIN ruleOf' = DOMAIN ruleOf \cup Names(f)
      BY <2>1
    <2> QED BY <1>1, <1>2, <1>4, <1>7, <1>8, <2>2, <2>3, <2>4, ZenonT(40) DEF LoadInv
  <1>9. CASE source = "tools" /\ f \in Range(loaded)
    <2>1. ruleOf' = ruleOf
      BY <1>1, <1>9 DEF AddUp
    <2>2. PICK l \in DOMAIN loaded : loaded[l] = f
      BY <1>9 DEF Range
    <2>3. \A k \in DOMAIN loaded' : \E l0 \in DOMAIN loaded : loaded'[k] = loaded[l0]
      BY <1>4, <2>2
    <2>4. \A k \in DOMAIN loaded' : \A n \in Names(loaded'[k]) :
            HoldsOnce(ruleOf'[n], loaded'[k], Grouped(loaded'[k])[n])
      BY <1>1, <1>9, <2>1, <2>3 DEF LoadInv
    <2>5. DOMAIN ruleOf = DOMAIN ruleOf \cup Names(f)
      BY <1>6, <2>2
    <2> QED BY <1>1, <1>2, <1>4, <1>5, <1>6, <1>7, <1>9, <2>1, <2>4, <2>5 DEF LoadInv
  <1>10. CASE source = "tools" /\ f \notin Range(loaded)
    <2> DEFINE old(n) == IF n \in DOMAIN ruleOf THEN ruleOf[n] ELSE <<>>
               new(n) == IF n \in Names(f) THEN mine[n] ELSE <<>>
    <2>1. ruleOf' = [n \in DOMAIN ruleOf \cup Names(f) |-> old(n) \o new(n)]
      BY <1>1, <1>3, <1>10 DEF AddUp, mine
    <2>2. \A n : /\ old(n) \in Seq(Stood) /\ new(n) \in Seq(Stood)
                 /\ \A m \in DOMAIN old(n) : old(n)[m].file \in Range(loaded) /\ old(n)[m].file # f
                 /\ \A m \in DOMAIN new(n) : new(n)[m].file = f
      BY <1>3, <1>6, <1>10
    <2> HIDE DEF old, new
    <2>3. ASSUME NEW n \in DOMAIN ruleOf'
          PROVE  ruleOf'[n] \in Seq(Stood) /\ \A m \in DOMAIN ruleOf'[n] : ruleOf'[n][m].file \in Range(loaded')
      <3>1. ruleOf'[n] = old(n) \o new(n)
        BY <2>1
      <3>2. old(n) \in Seq(Stood) /\ new(n) \in Seq(Stood)
        BY <2>2
      <3>3. /\ old(n) \o new(n) \in Seq(Stood)
            /\ \A m \in DOMAIN (old(n) \o new(n)) :
                 \/ m \in DOMAIN old(n) /\ (old(n) \o new(n))[m] = old(n)[m]
                 \/ m - Len(old(n)) \in DOMAIN new(n) /\ (old(n) \o new(n))[m] = new(n)[m - Len(old(n))]
        BY <3>2, ConcatProperties, LenProperties
      <3> QED BY <1>5, <2>2, <3>1, <3>3
    <2>4. ASSUME NEW k \in DOMAIN loaded', NEW n \in Names(loaded'[k])
          PROVE  HoldsOnce(ruleOf'[n], loaded'[k], Grouped(loaded'[k])[n])
      <3>1. CASE k = Len(loaded) + 1
        <4>1. loaded'[k] = f /\ n \in Names(f) /\ new(n) = Grouped(f)[n]
          BY <1>4, <2>4, <3>1 DEF new, mine
        <4>2. ruleOf'[n] = old(n) \o new(n)
          BY <2>1, <4>1
        <4> QED BY <2>2, <4>1, <4>2, GroupIsAdded
      <3>2. CASE k # Len(loaded) + 1
        <4>1. k \in DOMAIN loaded /\ loaded'[k] = loaded[k] /\ n \in Names(loaded[k]) /\ loaded[k] # f
          BY <1>4, <1>10, <2>4, <3>2 DEF Range
        <4>2. n \in DOMAIN ruleOf /\ ruleOf'[n] = old(n) \o new(n) /\ old(n) = ruleOf[n]
          BY <1>6, <2>1, <4>1 DEF old
        <4>3. HoldsOnce(old(n), loaded[k], Grouped(loaded[k])[n])
          BY <1>1, <1>10, <4>1, <4>2 DEF LoadInv
        <4>4. loaded[k] \in DOMAIN RuleFile /\ Grouped(loaded[k])[n] \in Seq(Stood)
          BY <4>1, GroupsOfAFile DEF LoadInv
        <4>5. \A m \in DOMAIN new(n) : new(n)[m].file # loaded[k]
          BY <2>2, <4>1
        <4> QED BY <2>2, <4>1, <4>2, <4>3, <4>4, <4>5, OthersFollow
      <3> QED BY <3>1, <3>2
    <2>5. DOMAIN ruleOf' = DOMAIN ruleOf \cup Names(f)
      BY <2>1
    <2> QED BY <1>1, <1>2, <1>4, <1>7, <1>10, <2>3, <2>4, <2>5 DEF LoadInv
  <1> QED BY <1>8, <1>9, <1>10

\* What is read is what the list says, in every reachable state.
THEOREM LoadInvariant == LoadSpec => []LoadInv
  <1>1. LoadInit => LoadInv
    <2> SUFFICES ASSUME LoadInit PROVE LoadInv
      OBVIOUS
    <2>1. remaining \in Seq(DOMAIN RuleFile)
      BY ListsAssumption DEF LoadInit, ListsAssumption
    <2> QED BY <2>1 DEF LoadInit, LoadInv
  <1>2. LoadInv /\ [LoadNext]_fileVars => LoadInv'
    <2> SUFFICES ASSUME LoadInv, [LoadNext]_fileVars PROVE LoadInv'
      OBVIOUS
    <2>1. CASE LoadFails
      BY <2>1 DEF LoadFails, LoadInv
    <2>2. CASE LoadDone
      BY <2>2 DEF LoadDone, LoadInv
    <2>3. CASE UNCHANGED fileVars
      BY <2>3 DEF fileVars, LoadInv
    <2> QED BY <2>1, <2>2, <2>3, LoadFileKeeps DEF LoadNext
  <1> QED BY <1>1, <1>2, PTL DEF LoadSpec

\* loadCustomRules and loadRulesFromToolFiles: for a list of any length, the last
\* file that names a rule has the word, and the rules of the tool files add up.
THEOREM FilesApplyAsListedHolds == LoadSpec => []FilesApplyAsListed
  <1>1. LoadInv => FilesApplyAsListed
    BY DEF LoadInv, FilesApplyAsListed
  <1> QED BY <1>1, LoadInvariant, PTL

=============================================================================
