----------------------------- MODULE RuleMatching -----------------------------
(* How a loaded rule reaches a compile.  otelc setup lists the compile commands *)
(* of the dry run (find.go), matches every rule against every one of them in   *)
(* parallel (match.go, filter.go, rule/target.go) and stores the rule sets      *)
(* (store.go).  The build then runs otelc as -toolexec, once per compile, and   *)
(* each of these processes looks its rule set up by the value of -p and applies *)
(* it file by file (instrument/match.go, instrument/instrument.go).             *)
(* A source file is what the matcher asks of its syntax tree: its leading       *)
(* directives, its package clause, its declarations and its calls.              *)
EXTENDS Integers, Sequences, Functions

CONSTANTS
    Plans,       \* dry runs: sequences of cd, cgo and compile commands
    RuleSets,    \* sets of loaded rules
    Clauses,     \* the where clauses of the rules and all the clauses in them
    FileOf,      \* the syntax of each source file, <<directory, name>>
    RootModules, \* the import paths under the root modules of the build
    Resolvable   \* hook packages some module directory of the build resolves

NoWhere == [op |-> "none"]

\* The files generated for a compile are written by the cgo that ran last in its
\* object directory, after a cd to its directory.
CgoRan(p, i) ==
    \E j, k \in DOMAIN p :
      /\ j < i /\ p[j].cmd = "cgo" /\ p[j].obj = p[i].obj
      /\ \A l \in (j + 1)..(i - 1) : p[l].cmd = "cgo" => p[l].obj # p[i].obj
      /\ k < j /\ p[k].cmd = "cd" /\ p[k].dir = p[i].dir
      /\ \A l \in (k + 1)..(j - 1) : p[l].cmd # "cd"

\* The sources of a compile exist.
IsDryRun(p) ==
    /\ p \in Seq(Range(p))
    /\ \A i \in DOMAIN p : p[i].cmd = "compile" =>
         /\ {p[i].dir} \X p[i].sources \subseteq DOMAIN FileOf
         /\ p[i].generated # {} => CgoRan(p, i)

MatchAssumption ==
    /\ \A p \in Plans : IsDryRun(p)
    /\ \A rules \in RuleSets : \A r \in rules :
         r.target.include \in Seq(Range(r.target.include))
ASSUME MatchAssumption

VARIABLES
    plan, ruleList,  \* the dry run and the rules of this build
    todo,            \* dependencies whose goroutine has not ended
    matched,         \* the rule sets, in the order the goroutines appended them
    setupStage,      \* "matching", "stored" or "failed"
    compiled         \* what each finished compile applied to its files, or Broken
matchVars == <<plan, ruleList, todo, matched, setupStage, compiled>>

Broken == {<<"error", "error">>}

-----------------------------------------------------------------------------
(* The dependencies of the dry run, one for each compile command.  A compile     *)
(* names its directory's sources and the files cgo generated from others, which *)
(* do not exist yet and are traced back by the object directory.                *)

Compiles == {i \in DOMAIN plan : plan[i].cmd = "compile"}

LastBefore(i, lines) == {k \in lines : k < i /\ \A j \in lines : j < i => j <= k}

\* The directory the plan was in when cgo wrote to the compile's object directory.
CgoSourceDir(i) ==
    LET moves == {j \in DOMAIN plan : plan[j].cmd = "cd"}
        runs == {j \in DOMAIN plan : plan[j].cmd = "cgo" /\ plan[j].obj = plan[i].obj}
    IN  UNION {{plan[k].dir : k \in LastBefore(g, moves)} : g \in LastBefore(i, runs)}

\* A generated file without an original is left out.
FindGoSources(i) ==
    LET c == plan[i]
        originals == (CgoSourceDir(i) \X c.generated) \cap DOMAIN FileOf
    IN  [path |-> c.path, version |-> c.version, generated |-> originals,
         files |-> ({c.dir} \X c.sources) \cup originals]

-----------------------------------------------------------------------------
(* Targets.  A rule names packages by patterns: a path, a glob, $root.          *)

PatternMatches(p, path) ==
    CASE p.kind = "root" -> path \in RootModules
      [] p.kind = "glob" -> path \in p.paths
      [] OTHER           -> p.paths = {path}

TargetMatches(t, path) ==
    /\ \E p \in Range(t.include) : PatternMatches(p, path)
    /\ ~\E p \in t.exclude : PatternMatches(p, path)

\* Mutant: the index looks at the first included pattern only.
ExactFirst(t) == t.include[1].kind = "path" /\ t.exclude = {}

\* A single path is looked up by key, everything else is tested.
Exact(t) == Len(t.include) = 1 /\ t.include[1].kind = "path" /\ t.exclude = {}

UsesRoot(t) == \E p \in Range(t.include) \cup t.exclude : p.kind = "root"

ExactRules(path) ==
    {r \in ruleList : Exact(r.target) /\ r.target.include[1].paths = {path}}
GlobRules == {r \in ruleList : ~Exact(r.target)}

RelevantRules(dep) ==
    ExactRules(dep.path) \cup {r \in GlobRules : TargetMatches(r.target, dep.path)}

\* "" is all versions, "a" is a and later, "a,b" ends before b.  A version that no
\* compile path tells is 0, below every other.
VersionInRange(version, r) ==
    \/ r.from = 0 /\ r.before = 0
    \/ version >= r.from /\ (r.before = 0 \/ version < r.before)

-----------------------------------------------------------------------------
(* Filters: the where.file clause of a rule.                                    *)

FindFuncDecl(f, name, recv) ==
    {d \in FileOf[f].decls : d.kind = "func" /\ d.name = name /\ d.recv = recv}

FindStructType(f, name) ==
    {d \in FileOf[f].decls : d.kind = "struct" /\ d.name = name}

\* A combinator owns its node; a node without one has exactly one predicate, and
\* selectors beside where.file are refused.
Builds(where) ==
    LET built[w \in Clauses] ==
          IF w.op \in {"all-of", "one-of", "not"} THEN \A i \in DOMAIN w.of : built[w.of[i]]
          ELSE w.op \notin {"mixed", "outside"}
    IN  built[where]

\* One file of a package is a test file: the whole compile is a test build.
IsTestBuild(dep) == \E f \in dep.files : FileOf[f].test

Passes(where, f, testBuild) ==
    LET passed[w \in Clauses] ==
          CASE w.op = "none"          -> TRUE
            [] w.op = "all-of"        -> \A i \in DOMAIN w.of : passed[w.of[i]]
            [] w.op = "one-of"        -> \E i \in DOMAIN w.of : passed[w.of[i]]
            [] w.op = "not"           -> ~passed[w.of[1]]
            [] w.op = "has_func"      -> FindFuncDecl(f, w.name, w.recv) # {}
            [] w.op = "has_struct"    -> FindStructType(f, w.name) # {}
            [] w.op = "has_directive" -> w.name \in FileOf[f].lead
            [] w.op = "has_package"   -> w.name = FileOf[f].package
            [] OTHER -> w.op = "is_test" /\ w.value = testBuild
    IN  passed[where]

-----------------------------------------------------------------------------
(* Matching one dependency.                                                     *)

\* What matchOneRule finds in the tree; calls and literals need the imports of
\* the file and are left to the compile.
MatchOneRule(r, f) ==
    CASE r.kind \in {"call", "lit"} -> TRUE
      [] r.kind \in {"func", "raw"} -> FindFuncDecl(f, r.name, r.recv) # {}
      [] r.kind = "struct"          -> FindStructType(f, r.name) # {}
      [] r.kind = "directive"       -> \E d \in FileOf[f].decls : r.name \in d.lead
      [] r.kind = "decl"            -> \E d \in FileOf[f].decls : d.name = r.name /\ d.recv = ""

Filtered(dep) == {r \in RelevantRules(dep) : VersionInRange(dep.version, r)}
PreciseRules(dep) == {r \in Filtered(dep) : r.kind # "file"}

\* A where clause that does not build fails setup, if a package gets that far.
MatchErrors(dep) ==
    dep.files # {} /\ \E r \in PreciseRules(dep) : ~Builds(r.where)

\* The rules of a set with the file each is for; a file rule is for the package
\* and asks no filter.
RunMatch(dep) ==
    [modulePath |-> dep.path,
     cgoFiles   |-> dep.generated,
     ignores    |-> {f \in dep.files : FileOf[f].ignoresCall},
     files      |-> {r \in Filtered(dep) : r.kind = "file"},
     rules      |-> {x \in PreciseRules(dep) \X dep.files :
                        Passes(x[1].where, x[2], IsTestBuild(dep)) /\ MatchOneRule(x[1], x[2])}]

IsEmpty(set) == set.rules = {} /\ set.files = {} /\ set.ignores = {}

-----------------------------------------------------------------------------
(* Applying a rule set in the compile.                                          *)

\* A set names a file by its source; the compile of a cgo package is given the
\* generated one, in the directory the compile runs in.
CompileName(f, cgoFiles) == IF f \in cgoFiles THEN <<"generated", f[2]>> ELSE f

Arguments(i) == ({plan[i].dir} \X plan[i].sources) \cup ({"generated"} \X plan[i].generated)

\* A file-level ignore spares every rule but a function rule whose declaration
\* opts back in; an ignore on the declaration is the last word.
Applies(r, f) ==
    LET d == CHOOSE x \in FindFuncDecl(f, r.name, r.recv) : TRUE
        ignored == "ignore" \in FileOf[f].lead
    IN  CASE r.kind = "func" -> /\ ignored => "instrument" \in d.lead
                                /\ "ignore" \notin d.lead
          [] r.kind \in {"call", "lit"} -> ~ignored /\ r.name \in FileOf[f].calls
          [] OTHER -> ~ignored

AppliedBySet(set) == {x \in set.rules : Applies(x[1], x[2])}

\* Each changed file must replace its argument of the compile; a call below an
\* ignore directive is a change of its own.
Unreplaced(set, i) ==
    {f \in {x[2] : x \in AppliedBySet(set)} \cup set.ignores :
        CompileName(f, set.cgoFiles) \notin Arguments(i)}

WhatApplies(set, i) ==
    IF Unreplaced(set, i) # {} THEN Broken
    ELSE {<<x[1].id, x[2]>> : x \in AppliedBySet(set)} \cup {<<r.id, "new">> : r \in set.files}

\* The first rule set whose path is the compile's -p; 0 when there is none.
FirstSet(path) == CHOOSE i \in 0..Len(matched) :
    IF \E k \in DOMAIN matched : matched[k].modulePath = path
    THEN i > 0 /\ matched[i].modulePath = path
         /\ \A k \in 1..(i - 1) : matched[k].modulePath # path
    ELSE i = 0

-----------------------------------------------------------------------------

MatchInit ==
    /\ plan \in Plans /\ ruleList \in RuleSets
    /\ todo = Compiles /\ matched = <<>> /\ compiled = {}
    /\ setupStage = IF RootModules = {} /\ \E r \in ruleList : UsesRoot(r.target)
                    THEN "failed" ELSE "matching"

\* One goroutine of matchDeps; the first error stops setup.
MatchDep(i) ==
    /\ setupStage = "matching" /\ i \in todo /\ ~MatchErrors(FindGoSources(i))
    /\ todo' = todo \ {i}
    /\ LET set == RunMatch(FindGoSources(i))
       IN  matched' = IF IsEmpty(set) THEN matched ELSE Append(matched, set)
    /\ UNCHANGED <<plan, ruleList, setupStage, compiled>>

MatchFails(i) ==
    /\ setupStage = "matching" /\ i \in todo /\ MatchErrors(FindGoSources(i))
    /\ setupStage' = "failed"
    /\ UNCHANGED <<plan, ruleList, todo, matched, compiled>>

\* Every hook package of a matched function or file rule must resolve.
Unresolvable ==
    {r \in UNION {matched[k].files \cup {x[1] : x \in matched[k].rules} : k \in DOMAIN matched} :
        r.kind \in {"func", "file"} /\ r.hook \notin Resolvable}

StoreMatched ==
    /\ setupStage = "matching" /\ todo = {}
    /\ setupStage' = IF Unresolvable = {} THEN "stored" ELSE "failed"
    /\ UNCHANGED <<plan, ruleList, todo, matched, compiled>>

\* One compile of the build that follows, in a process of its own.
CompilePackage(i) ==
    /\ setupStage = "stored" /\ i \in Compiles \ {x[1] : x \in compiled}
    /\ LET k == FirstSet(plan[i].path)
       IN  compiled' = compiled \cup
               {<<i, IF k = 0 THEN {} ELSE WhatApplies(matched[k], i)>>}
    /\ UNCHANGED <<plan, ruleList, todo, matched, setupStage>>

MatchNext == \/ \E i \in Compiles : MatchDep(i) \/ MatchFails(i) \/ CompilePackage(i)
             \/ StoreMatched

MatchSpec == MatchInit /\ [][MatchNext]_matchVars

-----------------------------------------------------------------------------
(* What the rules say, without indexes, sets and look-ups: rule r is for file f *)
(* of a compile with these files.                                               *)

SaysFor(r, f, c) ==
    /\ TargetMatches(r.target, c.path) /\ VersionInRange(c.version, r)
    /\ r.kind # "file" /\ Passes(r.where, f, IsTestBuild(c)) /\ MatchOneRule(r, f) /\ Applies(r, f)

TheCompile(i) ==
    [path |-> plan[i].path, version |-> plan[i].version,
     files |-> ({plan[i].dir} \X (plan[i].sources \cup plan[i].generated)) \cap DOMAIN FileOf]

Wanted(i) ==
    LET c == TheCompile(i)
    IN  {<<x[1].id, x[2]>> : x \in {y \in ruleList \X c.files : SaysFor(y[1], y[2], c)}}
        \cup {<<r.id, "new">> : r \in {q \in ruleList :
                 /\ q.kind = "file" /\ TargetMatches(q.target, c.path)
                 /\ VersionInRange(c.version, q)}}

\* When the compiles of a build have import paths of their own, each applies to
\* its files the rules whose target, version, filter and selector say so, and no
\* other, whatever the order in which the goroutines of setup ended.
RulesReachTheirCompile ==
    (\A i, j \in Compiles : plan[i].path = plan[j].path => i = j)
        => \A x \in compiled : x[2] = Wanted(x[1])

\* "One package can only be matched with one rule set, so it's safe to return
\* the first matched rule set" (instrument/match.go): each compile of any build
\* applies the rules meant for it.
FirstSetIsItsOwn == \A x \in compiled : x[2] = Wanted(x[1])
=============================================================================
