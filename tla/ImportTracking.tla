--------------------------- MODULE ImportTracking ---------------------------
(***************************************************************************)
(* tool/internal/instrument/toolexec.go: packages a rule imports into a    *)
(* package that did not import them.                                       *)
(*                                                                         *)
(* `go build -toolexec=otelc` runs an otelc process per compile and per    *)
(* link.  A compile to which the rules add an import resolves its archive  *)
(* with a nested `go list -export`, whose compiles are otelc processes as  *)
(* well and may nest further; the chain of compiles that wait on each      *)
(* other travels in the environment.  The link learns of the added         *)
(* packages from one tracking file per compile.  All go commands share     *)
(* GOCACHE, whose keys hold what otelc answers to `-V=full`.               *)
(***************************************************************************)
EXTENDS Naturals, Sequences

CONSTANTS
  Packages,
  Mains,        \* the main packages the build links
  Imports,      \* what the source of each package imports
  Rules,        \* the rule sets a build may have
  Adds,         \* the imports each rule set adds to each package
  Plain,        \* compiled, or asked for, without otelc
  MaxChain,     \* maxResolutionChain, 32 in the code
  MaxBuilds,    \* bounds the number of builds
  Faults        \* what may go wrong

ASSUME ImportTrackingAssumption ==
  /\ Mains \subseteq Packages
  /\ Imports \in [Packages -> SUBSET Packages]
  \* go refuses sources that import each other in a cycle.
  /\ \A S \in SUBSET Packages : S # {} => \E p \in S : Imports[p] \cap S = {}
  /\ Adds \in [Rules -> [Packages -> SUBSET Packages]]
  /\ Plain \notin Rules
  /\ MaxChain \in Nat \ {0} /\ MaxBuilds \in Nat
  /\ Faults \subseteq {"kill", "tracking", "pid reuse"}

VARIABLES
  phase,        \* "idle" or "building"
  count,        \* builds started so far
  matched,      \* the rules of the current build, matched.json
  cache,        \* GOCACHE: archives with their keys
  commands,     \* the running go commands, by chain: packages built and failed
  running,      \* the compile processes
  files,        \* added_imports.<pid>.json
  linked,       \* the main packages the current build has linked
  cold,         \* history: the current build began with an empty GOCACHE
  lost          \* history: a tracking file of the current build was lost

build == <<phase, count, matched, cold>>
vars == <<build, cache, commands, running, files, linked, lost>>
-----------------------------------------------------------------------------
\* The packages reachable from p: the least set with p that edges do not leave.
Reach(edges, p) ==
  {q \in Packages : \A S \in SUBSET Packages :
     (p \in S /\ \A r \in S : edges[r] \subseteq S) => q \in S}

Closure == [p \in Packages |-> Reach(Imports, p)]

Archive == [pkg : Packages, by : Rules \cup {Plain}]

Names(archives) == {a.pkg : a \in archives}

Waits == [pkg : Packages, added : Packages]

\* The chain of a nested go command names the compile that waits for it.
Waiting(c, k) == Len(c) = Len(k.chain) + 1 /\ SubSeq(c, 1, Len(k.chain)) = k.chain
                 /\ c[Len(c)].pkg = k.pkg

Nested(k) == {c \in DOMAIN commands : Waiting(c, k)}

TypeOK ==
  /\ phase \in {"idle", "building"}
  /\ count \in 0..MaxBuilds
  /\ matched \in Rules
  /\ cache \subseteq [pkg : Packages, by : Rules \cup {Plain}, key : Rules \cup {Plain}]
  /\ \A c \in DOMAIN commands :
       /\ c \in Seq(Waits) /\ Len(c) <= MaxChain
       /\ commands[c].built \subseteq Archive /\ commands[c].failed \subseteq Packages
       /\ c # <<>> => \E k \in running : Waiting(c, k)
  /\ \A k \in running :
       /\ k.chain \in DOMAIN commands /\ k.pkg \in Packages
       /\ k.by \in Rules \cup {Plain} /\ k.cfg \subseteq Archive
       /\ k.todo \subseteq Packages /\ k.updated \in BOOLEAN
       /\ k.stage \in {"instrument", "tracking"}
  /\ \A f \in files :
       f.chain \in Seq(Waits) /\ f.pkg \in Packages /\ f.archives \subseteq Archive
  /\ \A l \in linked : l.main \in Mains /\ l.cfg \subseteq Archive
  /\ cold \in BOOLEAN /\ lost \in BOOLEAN

Init ==
  /\ phase = "idle" /\ count = 0
  /\ matched \in Rules
  /\ cache = {} /\ commands = <<>> /\ running = {}
  /\ files = {} /\ linked = {}
  /\ cold = FALSE /\ lost = FALSE
-----------------------------------------------------------------------------
NewCommand == [built |-> {}, failed |-> {}]

\* Mutant: the answer has no hash.
NoHash(rules) == CHOOSE r \in Rules : TRUE

\* What otelc answers to `-V=full`, beside the tool's own version: the marker
\* and the hash of matched.json.  The answer is part of every key.
ToolVersion(rules) == rules

\* Mutant: nested compiles are not instrumented.
NestedPlain(c) == IF c = <<>> THEN matched ELSE Plain

\* The rules a compile of the go command c applies; a nested one instruments too.
AppliedBy(c) == matched

\* What the rules that compiled an archive added to its imports.
Added(by, p) == IF by = Plain THEN {} ELSE Adds[by][p]

Wanted(c) == IF c = <<>> THEN UNION {Closure[m] : m \in Mains}
             ELSE Closure[c[Len(c)].added]

\* A go command starts a package once all its imports are built, and goes on
\* with the others when one has failed.
Ready(c) ==
  LET built == Names(commands[c].built) IN
  {p \in Wanted(c) \ (built \cup commands[c].failed) :
     /\ Imports[p] \subseteq built
     /\ \A k \in running : ~ (k.chain = c /\ k.pkg = p)}

Finished(c) == Ready(c) = {} /\ \A k \in running : k.chain # c
-----------------------------------------------------------------------------
\* Mutant: the tracking files of the previous build stay.
StartBuildKeepsFiles(rules, clean) ==
  /\ phase = "idle" /\ count < MaxBuilds
  /\ phase' = "building" /\ count' = count + 1
  /\ matched' = rules
  /\ cache' = IF clean THEN {} ELSE cache
  /\ cold' = (cache' = {}) /\ lost' = FALSE
  /\ commands' = [c \in {<<>>} |-> NewCommand]
  /\ UNCHANGED <<running, files, linked>>

\* runGoBuild, for rules the user may have changed, perhaps over a new GOCACHE:
\* remove the tracking files of the previous build, set up, run go build.
StartBuild(rules, clean) ==
  /\ phase = "idle" /\ count < MaxBuilds
  /\ phase' = "building" /\ count' = count + 1
  /\ matched' = rules
  /\ files' = {}
  /\ cache' = IF clean THEN {} ELSE cache
  /\ cold' = (cache' = {}) /\ lost' = FALSE
  /\ commands' = [c \in {<<>>} |-> NewCommand]
  /\ UNCHANGED <<running, linked>>

\* The user runs go build without otelc, over the same GOCACHE.
PlainBuild ==
  /\ phase = "idle"
  /\ cache' = cache \cup {[pkg |-> p, by |-> Plain, key |-> Plain] : p \in Wanted(<<>>)}
  /\ UNCHANGED <<phase, count, matched, cold, commands, running, files, linked, lost>>

\* The go command finds the package under its key and runs no compile.
Hit(c, p) ==
  /\ p \in Ready(c)
  /\ \E a \in cache :
       /\ a.pkg = p /\ a.key = ToolVersion(matched)
       /\ commands' = [commands EXCEPT ![c].built = @ \cup {[pkg |-> p, by |-> a.by]}]
  /\ UNCHANGED <<build, cache, running, files, linked, lost>>

\* interceptCompile reads the importcfg and the matched rules.
StartCompile(c, p) ==
  /\ p \in Ready(c)
  /\ \A a \in cache : ~ (a.pkg = p /\ a.key = ToolVersion(matched))
  /\ running' = running \cup
       {[chain |-> c, pkg |-> p, by |-> AppliedBy(c),
         cfg |-> {a \in commands[c].built : a.pkg \in Imports[p]},
         todo |-> Added(AppliedBy(c), p) \ Imports[p],
         updated |-> FALSE, stage |-> "instrument"]}
  /\ UNCHANGED <<build, cache, commands, files, linked, lost>>

Become(k, l) == running' = (running \ {k}) \cup {l}

\* The compile process exits with an error.
Fail(k) ==
  /\ running' = running \ {k}
  /\ commands' = [c \in DOMAIN commands \ Nested(k) |->
       IF c = k.chain THEN [commands[c] EXCEPT !.failed = @ \cup {k.pkg}] ELSE commands[c]]

\* Mutant: the limit is one less.
TooDeepSoon(chain) == Len(chain) >= MaxChain

\* enterNestedResolution: the new chain closes onto a package that waits, or is too long.
Closes(chain) == \E i \in DOMAIN chain : chain[i].pkg = chain[Len(chain)].added

TooDeep(chain) == Len(chain) > MaxChain

\* The chain of the command in which the compile k resolves q.
NestedChain(k, q) == Append(k.chain, [pkg |-> k.pkg, added |-> q])

\* updateImportConfig takes up an import that the importcfg lacks.
Resolve(k, q) ==
  /\ k.stage = "instrument" /\ Nested(k) = {} /\ q \in k.todo
  /\ ~ Closes(NestedChain(k, q)) /\ ~ TooDeep(NestedChain(k, q))
  /\ commands' = [c \in DOMAIN commands \cup {NestedChain(k, q)} |->
                    IF c = NestedChain(k, q) THEN NewCommand ELSE commands[c]]
  /\ UNCHANGED <<build, cache, running, files, linked, lost>>

\* Mutant: an import that is refused is left out.
RefusedSilently(k, q) ==
  /\ k.stage = "instrument" /\ Nested(k) = {} /\ q \in k.todo
  /\ Closes(NestedChain(k, q)) \/ TooDeep(NestedChain(k, q))
  /\ Become(k, [k EXCEPT !.todo = @ \ {q}])
  /\ UNCHANGED <<build, cache, commands, files, linked, lost>>

ResolveRefused(k, q) ==
  /\ k.stage = "instrument" /\ Nested(k) = {} /\ q \in k.todo
  /\ Closes(NestedChain(k, q)) \/ TooDeep(NestedChain(k, q))
  /\ Fail(k)
  /\ UNCHANGED <<build, cache, files, linked, lost>>

\* The nested command has ended: the archives of the import and of all it
\* imports enter the importcfg where it has none.
Resolved(k, c) ==
  /\ c \in Nested(k) /\ Finished(c) /\ commands[c].failed = {}
  /\ LET cfg == k.cfg \cup {a \in commands[c].built : a.pkg \notin Names(k.cfg)} IN
     Become(k, [k EXCEPT !.cfg = cfg, !.todo = @ \ Names(cfg), !.updated = TRUE])
  /\ commands' = [d \in DOMAIN commands \ {c} |-> commands[d]]
  /\ UNCHANGED <<build, cache, files, linked, lost>>

\* Mutant: the failure of a nested command is not noticed.
ResolvedHangs(k, c) == FALSE

ResolvedFails(k, c) ==
  /\ c \in Nested(k) /\ Finished(c) /\ commands[c].failed # {}
  /\ Fail(k)
  /\ UNCHANGED <<build, cache, files, linked, lost>>

\* trackAddedImports, after the imports of each rule: os.WriteFile truncates
\* the process's file.  Where the id of an ended process is given to a new one,
\* the file is the ended one's.
TrackBegin(k) ==
  /\ k.stage = "instrument" /\ Nested(k) = {} /\ k.updated
  /\ LET own == {f \in files : f.chain = k.chain /\ f.pkg = k.pkg}
         file == [chain |-> k.chain, pkg |-> k.pkg, archives |-> {}]
     IN  \/ files' = (files \ own) \cup {file} /\ UNCHANGED lost
         \/ /\ "pid reuse" \in Faults /\ own = {}
            /\ \E f \in files :
                 /\ \A l \in running : ~ (f.chain = l.chain /\ f.pkg = l.pkg)
                 /\ files' = (files \ {f}) \cup {file}
            /\ lost' = TRUE
  /\ Become(k, [k EXCEPT !.stage = "tracking", !.updated = FALSE])
  /\ UNCHANGED <<build, cache, commands, linked>>

TrackEnd(k) ==
  /\ k.stage = "tracking"
  /\ files' = {IF f.chain = k.chain /\ f.pkg = k.pkg THEN [f EXCEPT !.archives = k.cfg]
               ELSE f : f \in files}
  /\ Become(k, [k EXCEPT !.stage = "instrument"])
  /\ UNCHANGED <<build, cache, commands, linked, lost>>

\* The write fails; updateImportConfig only warns.
TrackFails(k) ==
  /\ k.stage = "tracking" /\ "tracking" \in Faults
  /\ Become(k, [k EXCEPT !.stage = "instrument"])
  /\ lost' = TRUE
  /\ UNCHANGED <<build, cache, commands, files, linked>>

\* Everything is added: the compiler runs, and go stores its output.
Compile(k) ==
  /\ k.stage = "instrument" /\ Nested(k) = {} /\ k.todo = {} /\ ~ k.updated
  /\ LET a == [pkg |-> k.pkg, by |-> k.by] IN
     /\ commands' = [commands EXCEPT ![k.chain].built = @ \cup {a}]
     /\ cache' = cache \cup {[pkg |-> k.pkg, by |-> k.by, key |-> ToolVersion(matched)]}
  /\ running' = running \ {k}
  /\ UNCHANGED <<build, files, linked, lost>>

\* Mutant: the link that used the tracking files removes them.
LinkCleansUp(m) ==
  LET own == {a \in commands[<<>>].built : a.pkg \in Closure[m]}
      tracked == UNION {f.archives : f \in files}
  IN
  /\ phase = "building" /\ \A l \in linked : l.main # m
  /\ Closure[m] = Names(own)
  /\ linked' = linked \cup
       {[main |-> m, cfg |-> own \cup {a \in tracked : a.pkg \notin Names(own)}]}
  /\ files' = {}
  /\ UNCHANGED <<build, cache, commands, running, lost>>

\* interceptLink adds what the tracking files hold and go did not list.  The
\* files stay for the other links.
Link(m) ==
  LET own == {a \in commands[<<>>].built : a.pkg \in Closure[m]}
      tracked == UNION {f.archives : f \in files}
  IN
  /\ phase = "building" /\ \A l \in linked : l.main # m
  /\ Closure[m] = Names(own)
  /\ linked' = linked \cup
       {[main |-> m, cfg |-> own \cup {a \in tracked : a.pkg \notin Names(own)}]}
  /\ UNCHANGED <<build, cache, commands, running, files, lost>>

\* The build ends when nothing is left to compile or to link.
Finish ==
  /\ phase = "building" /\ Finished(<<>>)
  /\ \A m \in Mains :
       Closure[m] \subseteq Names(commands[<<>>].built) => \E l \in linked : l.main = m
  /\ phase' = "idle" /\ commands' = <<>> /\ linked' = {}
  /\ UNCHANGED <<count, matched, cold, cache, running, files, lost>>

\* The build is killed with all its processes.
Kill ==
  /\ "kill" \in Faults /\ phase = "building"
  /\ phase' = "idle" /\ commands' = <<>> /\ running' = {} /\ linked' = {}
  /\ UNCHANGED <<count, matched, cold, cache, files, lost>>

BuildStep ==
  \/ \E c \in DOMAIN commands, p \in Packages : Hit(c, p) \/ StartCompile(c, p)
  \/ \E k \in running :
       \/ \E q \in k.todo : Resolve(k, q) \/ ResolveRefused(k, q)
       \/ \E c \in Nested(k) : Resolved(k, c) \/ ResolvedFails(k, c)
       \/ TrackBegin(k) \/ TrackEnd(k) \/ TrackFails(k)
       \/ Compile(k)
  \/ \E m \in Mains : Link(m)
  \/ Finish

Next == BuildStep \/ Kill \/ PlainBuild \/ \E rules \in Rules, clean \in BOOLEAN : StartBuild(rules, clean)

Spec == Init /\ [][Next]_vars

Fairness == WF_vars(BuildStep)

FairSpec == Spec /\ Fairness

-----------------------------------------------------------------------------
(* Properties.                                                             *)

Edges == [p \in Packages |-> Imports[p] \cup Adds[matched][p]]

\* Some of the packages import each other in a cycle.
Cyclic(packages) ==
  \E S \in SUBSET packages : S # {} /\ \A p \in S : Edges[p] \cap S # {}

\* What the linker loads: the program and, from each archive on, the packages
\* that its source imports or that a rule gave it.  (The importcfg may list more:
\* the tracking files of the other programs' compiles.)
ImportedBy(l) ==
  [p \in Packages |-> UNION {Imports[p] \cup Added(a.by, p) : a \in {b \in l.cfg : b.pkg = p}}]

\* The importcfg of a link has every package that the linker loads: what
\* Toolexec's comment says of every build.
LinkComplete == \A l \in linked : Reach(ImportedBy(l), l.main) \subseteq Names(l.cfg)

\* A link has them all, whichever process, outer or nested, compiled what and
\* wrote which file, and whatever was linked before, if every compile of the
\* build was run in this build and no file was lost.
ColdLinkComplete == cold /\ ~lost => LinkComplete

\* Every archive that is linked was compiled with the rules of this build: no
\* archive of a plain build, of other rules or of an earlier build's tracking
\* files gets in, over one GOCACHE for all of them.
ArchivesCurrent == \A l \in linked : \A a \in l.cfg : a.by = matched

\* A program whose packages import each other in a cycle, counting the imports
\* of the rules, is not linked: go cannot see the cycle, and its packages could
\* not be initialised in order.
CyclesFail == \A l \in linked : ~ Cyclic(Reach(Edges, l.main))

\* Rules that close no cycle fail no compile, however the nested commands and
\* the outer one interleave, if MaxChain lets every package wait once.
AcyclicBuilds ==
  (\E c \in DOMAIN commands : commands[c].failed # {}) => Cyclic(Packages)

\* Cycles of imports, and nothing else about them, make builds fail: interceptCompile
\* refuses exactly the rules that go could not have compiled without otelc.
CyclesDecide == CyclesFail /\ AcyclicBuilds

\* Every build that is not killed ends, also with rules whose imports form a cycle.
BuildEnds == (phase = "building") ~> (phase = "idle")
=============================================================================
