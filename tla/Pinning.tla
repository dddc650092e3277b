-------------------------------- MODULE Pinning -------------------------------
(* Which instrumentation a project gets.  Pin writes otel.instrumentation.go,   *)
(* or checks and prunes the one that is there, and brings go.mod in line        *)
(* (setup/pin.go, sync.go); setup then walks the tool files to the rules        *)
(* (config.go), matches them against the packages of the build and against what *)
(* the hook packages bring along (inject.go), and generates the runtime file of *)
(* every build package (add.go).                                                *)
EXTENDS Integers, Sequences, Functions

CONSTANT Projects    \* what a project may look like, see below

(* A project is a record of                                                     *)
(*   roots       its modules, in the order of their directories;                *)
(*   file        tool file -> the imports in it, for every tool file there is;  *)
(*   about       instrumentation package -> [kind |-> "rules", "nothing" (it is *)
(*               no instrumentation) or "lost" (the module system fails),       *)
(*               valid |-> its rule files parse, nested |-> the tool file of    *)
(*               its module or NoFile, rules |-> a set of [target, hook,        *)
(*               since], needs |-> modules replaced with it when it is builtin, *)
(*               builtin |-> it is embedded in otelc];                          *)
(*   version     of otelc, 0 for a development build;                           *)
(*   required    root -> the version go.mod requires, or NoVersion;             *)
(*   tidied      go.sum exists, and go.mod needs no change;                     *)
(*   validate    pin also parses the rule files;                                *)
(*   imports     package -> the packages it imports;                            *)
(*   dep         package -> its version, 0 when no path tells it;               *)
(*   plan        the packages the dry run compiles;                             *)
(*   builds      the packages the user builds.                                  *)

VARIABLES
    project,     \* the project, as its user left it
    toolFile,    \* tool file -> its imports, now
    goMod,       \* root -> [tool, required, replaced, tidy]
    pinPhase,    \* "pin", "writing", "load", "inject", "generate", "done", "failed"
    pinTodo,     \* the set of roots whose files are still to be written
    pruned,      \* tool file -> the imports to remove
    fresh,       \* the tool files are generated, with these imports
    rulesLoaded, \* the rules of the walk
    planned,     \* the packages rules have been matched against
    applied,     \* the rules matched, pass by pass
    generated,   \* build package -> the hook packages of its runtime file
    again        \* history: a build has ended and this one follows it

pinVars == <<project, toolFile, goMod, pinPhase, pinTodo, pruned, fresh, rulesLoaded, planned,
             applied, generated, again>>

NoFile == "none"
NoVersion == -1
Root == "$root"
Shared == {"pkg", "pkg/runtime", "instrumentation"}    \* always replaced

\* The dry run compiles what its packages import, among them the packages that
\* are built; the instrumentation that is embedded in otelc loads.
IsProject(p) ==
    LET packages == DOMAIN p.imports
        known == DOMAIN p.about
    IN  /\ \A q \in packages : p.imports[q] \subseteq packages
        /\ p.plan \subseteq packages /\ \A q \in p.plan : p.imports[q] \subseteq p.plan
        /\ p.builds \subseteq p.plan /\ p.builds # {}
        /\ p.roots \in Seq(Range(p.roots)) \ {<<>>} /\ Range(p.roots) \subseteq DOMAIN p.required
        /\ \A r \in DOMAIN p.required : p.required[r] \in Nat \cup {NoVersion}
        /\ p.version \in Nat /\ p.tidied \in BOOLEAN
        /\ p.file \in [DOMAIN p.file -> SUBSET known]
        /\ \A i \in known :
             /\ p.about[i].builtin => p.about[i].kind = "rules" /\ p.about[i].valid
             /\ p.about[i].nested \in DOMAIN p.file \cup {NoFile}
             /\ \A r \in p.about[i].rules : r.hook \in packages \cup {NoFile}

PinningAssumption == \A p \in Projects : IsProject(p)
ASSUME PinningAssumption

-----------------------------------------------------------------------------
(* The walk.                                                                    *)

Known == DOMAIN project.about
IsInstrumentation(i) == project.about[i].kind = "rules"
IsLost(i) == project.about[i].kind = "lost"
IsValid(i) == IsInstrumentation(i) /\ (project.validate => project.about[i].valid)

Roots == Range(project.roots)
ToolFiles == Roots \cap DOMAIN toolFile

\* A set of imports with which the walk is over: those of the tool files of the
\* build's modules, and of the tool files that the imports in entered lead to.
IsWalked(visits, entered) ==
    /\ \A f \in ToolFiles : toolFile[f] \subseteq visits
    /\ \A i \in visits \cap entered :
         project.about[i].nested # NoFile => toolFile[project.about[i].nested] \subseteq visits

WalkInstrumentation(entered) ==
    {i \in Known : \A visits \in SUBSET Known : IsWalked(visits, entered) => i \in visits}

\* The order of the module directories.
Before(r, q) ==
    \E k \in DOMAIN project.roots : /\ project.roots[k] = q
                                    /\ \E j \in 1..k : project.roots[j] = r

\* The walk meets an import once, and the tool files of the build's modules
\* before all others.
FoundIn(i, f) ==
    /\ f \in ToolFiles /\ i \in toolFile[f]
    /\ \A g \in ToolFiles : i \in toolFile[g] => Before(f, g)

-----------------------------------------------------------------------------
(* Pin.                                                                         *)

PinInit ==
    /\ project \in Projects
    /\ toolFile = project.file
    /\ goMod = [r \in Roots |->
                  [tool |-> FALSE, required |-> project.required[r], replaced |-> {},
                   tidy |-> project.tidied]]
    /\ pinPhase = "pin" /\ pinTodo = {} /\ fresh = {}
    /\ pruned = [f \in DOMAIN project.file |-> {}]
    /\ rulesLoaded = {} /\ planned = {} /\ applied = <<>> /\ again = FALSE
    /\ generated = [p \in project.builds |-> {}]

\* The imports that are no instrumentation, or whose rule files do not parse, go,
\* but only from the tool files of the build's own modules.
UpdatePinnedProjects ==
    LET visits == WalkInstrumentation({i \in Known : IsValid(i)})
    IN  /\ pinPhase = "pin" /\ ToolFiles # {}
        /\ IF \E i \in visits : IsLost(i)
           THEN /\ pinPhase' = "failed"
                /\ UNCHANGED <<pinTodo, pruned>>
           ELSE /\ pinPhase' = "writing" /\ pinTodo' = ToolFiles
                /\ pruned' = [f \in DOMAIN toolFile |->
                                {i \in toolFile[f] : FoundIn(i, f) /\ ~IsValid(i)}]
        /\ UNCHANGED <<project, toolFile, goMod, fresh, rulesLoaded, planned, applied, generated,
                       again>>

\* A dependency whose version is not known is in no range.
VersionMatches(p, since) == since = 0 \/ (project.dep[p] > 0 /\ project.dep[p] >= since)
RuleMatches(p, r) == r.target = p /\ VersionMatches(p, r.since)

\* The builtin instrumentation some dependency asks for; a rule for the root
\* module always does.
MatchInstrumentationImports ==
    {i \in Known :
       /\ project.about[i].builtin
       /\ \E r \in project.about[i].rules :
            r.target = Root \/ \E p \in project.plan : RuleMatches(p, r)}

GeneratePinnedProjects ==
    /\ pinPhase = "pin" /\ ToolFiles = {}
    /\ fresh' = MatchInstrumentationImports
    /\ IF fresh' = {} THEN pinPhase' = "load" /\ UNCHANGED pinTodo
       ELSE pinPhase' = "writing" /\ pinTodo' = Roots
    /\ UNCHANGED <<project, toolFile, goMod, pruned, rulesLoaded, planned, applied, generated,
                   again>>

\* Mutant: the version is required again although go.mod has it.
RequireAlways(m) ==
    [m EXCEPT !.tool = TRUE, !.required = IF project.version = 0 THEN @ ELSE project.version,
              !.tidy = FALSE]

\* The tool directive, and at least the version of this otelc; a development
\* build cannot name its own.
EnsureOtelcRequire(m) ==
    LET required == IF project.version > m.required /\ project.version # 0 THEN project.version
                    ELSE m.required
    IN  [m EXCEPT !.tool = TRUE, !.required = required,
                  !.tidy = @ /\ m.tool /\ required = m.required /\ m.required # NoVersion]

\* go mod tidy (external) finds a version for what is required without one.
Tidied(m) == [m EXCEPT !.tidy = TRUE, !.required = IF @ = NoVersion THEN 1 ELSE @]

FirstToDo(r) == r \in pinTodo /\ \A q \in pinTodo : Before(r, q)

\* One tool file and its go.mod.  Without a change to either, tidy is skipped.
UpdateToolFile(r) ==
    /\ pinPhase = "writing" /\ fresh = {} /\ FirstToDo(r)
    /\ LET m == EnsureOtelcRequire(goMod[r])
           dirty == pruned[r] # {} \/ ~m.tidy
       IN  /\ toolFile' = [toolFile EXCEPT ![r] = @ \ pruned[r]]
           /\ \/ /\ goMod' = [goMod EXCEPT ![r] = IF dirty THEN Tidied(m) ELSE m]
                 /\ pinTodo' = pinTodo \ {r} /\ UNCHANGED pinPhase
              \/ /\ dirty    \* tidy fails
                 /\ goMod' = [goMod EXCEPT ![r] = m]
                 /\ pinPhase' = "failed" /\ UNCHANGED pinTodo
    /\ UNCHANGED <<project, pruned, fresh, rulesLoaded, planned, applied, generated, again>>

\* The modules of the bundle: those pinned, those under their directories and
\* their siblings', and the shared ones.  A replace the user has stays.
SyncDeps(m) ==
    [m EXCEPT !.replaced = @ \cup Shared \cup fresh
                             \cup UNION {project.about[i].needs : i \in fresh}]

WriteToolFile(r) ==
    /\ pinPhase = "writing" /\ fresh # {} /\ FirstToDo(r)
    /\ LET m == SyncDeps(EnsureOtelcRequire(goMod[r]))
           files == DOMAIN toolFile \cup {r}
       IN  /\ toolFile' = [f \in files |-> IF f = r THEN fresh ELSE toolFile[f]]
           /\ pruned' = [f \in files |-> IF f = r THEN {} ELSE pruned[f]]
           /\ \/ /\ goMod' = [goMod EXCEPT ![r] = Tidied(m)]
                 /\ pinTodo' = pinTodo \ {r} /\ UNCHANGED pinPhase
              \/ /\ goMod' = [goMod EXCEPT ![r] = m]
                 /\ pinPhase' = "failed" /\ UNCHANGED pinTodo
    /\ UNCHANGED <<project, fresh, rulesLoaded, planned, applied, generated, again>>

PinDone ==
    /\ pinPhase = "writing" /\ pinTodo = {}
    /\ pinPhase' = "load" /\ fresh' = {}
    /\ UNCHANGED <<project, toolFile, goMod, pinTodo, pruned, rulesLoaded, planned, applied,
                   generated, again>>

-----------------------------------------------------------------------------
(* Setup.                                                                       *)

WalkFails(visits) == \E i \in visits : ~IsInstrumentation(i) \/ ~project.about[i].valid

\* The rules the packages of the plan, and only those, call for.
Matching(rules, packages) ==
    {r \in rules : \E p \in packages :
                     RuleMatches(p, r) \/ (r.target = Root /\ p \in project.builds)}

LoadAndMatch ==
    LET visits == WalkInstrumentation({i \in Known : IsInstrumentation(i)})
    IN  /\ pinPhase = "load"
        /\ IF WalkFails(visits)
           THEN /\ pinPhase' = "failed"
                /\ UNCHANGED <<rulesLoaded, planned, applied>>
           ELSE /\ pinPhase' = "inject"
                /\ rulesLoaded' = UNION {project.about[i].rules : i \in visits}
                /\ planned' = project.plan
                /\ applied' = <<Matching(rulesLoaded', project.plan)>>
        /\ UNCHANGED <<project, toolFile, goMod, pinTodo, pruned, fresh, generated, again>>

\* The packages and all that they import.
Closure(packages) ==
    LET closed == {c \in SUBSET DOMAIN project.imports :
                     packages \subseteq c /\ \A p \in c : project.imports[p] \subseteq c}
    IN  {q \in DOMAIN project.imports : \A c \in closed : q \in c}

\* Only function and file rules have one.
HookPackages(rules) == {r.hook : r \in rules} \ {NoFile}
AllApplied == UNION Range(applied)

\* Mutant: one pass is enough.
InjectedOnce(rules) == IF Len(applied) > 1 THEN {} ELSE Closure(HookPackages(rules)) \ planned

InjectedDeps(rules) == Closure(HookPackages(rules)) \ planned

\* One pass: the packages that the hook packages of the rules just found bring
\* in are matched too, until nothing new turns up.  A closure that does not
\* resolve ends it, with a warning.
InjectionPass ==
    LET injected == InjectedDeps(applied[Len(applied)])
        more == Matching(rulesLoaded, injected)
    IN  /\ pinPhase = "inject"
        /\ \/ /\ planned' = planned \cup injected
              /\ IF more = {} THEN pinPhase' = "generate" /\ UNCHANGED applied
                 ELSE applied' = Append(applied, more) /\ UNCHANGED pinPhase
           \/ /\ pinPhase' = "unresolved" /\ UNCHANGED <<planned, applied>>
        /\ UNCHANGED <<project, toolFile, goMod, pinTodo, pruned, fresh, rulesLoaded, generated,
                       again>>

\* A runtime file cannot import its own package; one without rules is removed.
AddDeps ==
    /\ pinPhase \in {"generate", "unresolved"}
    /\ generated' = [p \in project.builds |-> HookPackages(AllApplied) \ {p}]
    /\ pinPhase' = IF pinPhase = "generate" THEN "done" ELSE "partial"
    /\ UNCHANGED <<project, toolFile, goMod, pinTodo, pruned, fresh, rulesLoaded, planned, applied,
                   again>>

\* The user commits what pin wrote, and builds again.
BuildAgain ==
    /\ pinPhase \in {"done", "partial"} /\ ~again
    /\ again' = TRUE /\ pinPhase' = "pin"
    /\ pruned' = [f \in DOMAIN toolFile |-> {}]
    /\ rulesLoaded' = {} /\ planned' = {} /\ applied' = <<>>
    /\ UNCHANGED <<project, toolFile, goMod, pinTodo, fresh, generated>>

PinNext ==
    \/ UpdatePinnedProjects \/ GeneratePinnedProjects \/ PinDone
    \/ \E r \in Roots : UpdateToolFile(r) \/ WriteToolFile(r)
    \/ LoadAndMatch \/ InjectionPass \/ AddDeps \/ BuildAgain

PinSpec == PinInit /\ [][PinNext]_pinVars

-----------------------------------------------------------------------------
(* Properties.                                                                  *)

\* Once setup has looked for injected packages to the end, every rule that was
\* loaded and has its target in the build is applied: in the build as it will be,
\* with the hook packages of all the rules applied and everything they import,
\* however many passes it takes to find them.
InjectedCodeIsMatched ==
    pinPhase = "done" =>
      LET build == Closure(project.plan \cup UNION {generated[p] : p \in project.builds})
      IN  AllApplied = Matching(rulesLoaded, build)

\* The tool files of different modules name no dead import twice.
DeadImportsOnce ==
    \A f, g \in Roots \cap DOMAIN project.file :
      f # g => \A i \in project.file[f] \cap project.file[g] : IsValid(i)

\* Pin settles: what one build pinned the next takes as it is, changing no tool
\* file and no go.mod and with no go mod tidy that may fail; and whatever pin has
\* let pass in the tool files of the build, setup can load.
PinSettles ==
    [][DeadImportsOnce =>
         /\ again => toolFile' = toolFile /\ goMod' = goMod
         /\ pinPhase = "load" => \A f \in ToolFiles : \A i \in toolFile[f] : IsValid(i)]_pinVars

=============================================================================
