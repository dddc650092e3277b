---------------------------- MODULE MCBuildTool ----------------------------
(* Small instances of the stages of the build tool.                           *)
EXTENDS MCParts, MCCodeRules, CommandLine, RuleFiles, RuleMatching, Pinning, HookSignature
-----------------------------------------------------------------------------
(* CommandLine                                                              *)

MCWords ==
  {Plain("./a"), Plain("main.go"), Plain("vendor"), Flag("-race"), Joined("-race", "false"),
   Flag("-tags"), Joined("-mod", "vendor"), Flag("-mod"), Flag("-run"), Flag("-custom"),
   Flag("--"), Flag("-C")}
ModuleProject == [project |-> "modules", goflags |-> <<>>]
VendoredProject ==
  [project |-> "vendored", goflags |-> <<Joined("-mod", "vendor"), Flag("-race")>>]
MCEnvironments == {ModuleProject, VendoredProject}
-----------------------------------------------------------------------------
(* RuleFiles                                                                *)

Does(m, p) == [modifier |-> m, payload |-> p]
HooksDo == Does("inject_hooks", {"before", "path"})
RawDo == Does("inject_code", {"raw"})
RuleEntry(name, where, do) ==
  [structured |-> TRUE, name |-> name, top |-> {"target", "version"}, where |-> where, do |-> do]
Versioned(v, entries) == [version |-> v, entries |-> entries]

MCRuleFile ==
  [f1 |-> Versioned(1, <<RuleEntry("A", {"func"}, <<HooksDo, RawDo>>),
             RuleEntry("B", {"struct"}, <<Does("add_struct_fields", {"new_field"})>>)>>),
   f2 |-> Versioned(2, <<RuleEntry("A", {"func", "recv", "file"}, <<HooksDo>>)>>),
   f3 |-> Versioned(1, <<RuleEntry("B", {"function_call"}, <<Does("wrap_call", {"replace"})>>),
             RuleEntry("C", {"identifier", "kind"},
                       <<Does("assign_value", {"wrap"}), Does("assign_value", {"replace"})>>)>>),
   f4 |-> Versioned(1, <<RuleEntry("D", {}, <<Does("add_file", {"file", "path"})>>),
             RuleEntry("C", {"struct_literal"}, <<Does("set_fields", {"field"})>>),
             RuleEntry("A", {"directive"}, <<Does("expand_directive", {"template"})>>)>>),
   noPath |-> Versioned(1, <<RuleEntry("A", {"func"}, <<Does("inject_hooks", {"before"})>>)>>),
   noDo |-> Versioned(1, <<RuleEntry("A", {"func"}, <<>>)>>),
   badWhere |-> Versioned(1, <<RuleEntry("A", {"target"}, <<HooksDo>>)>>),
   twoValues |-> Versioned(1, <<RuleEntry("E", {"identifier"},
                                          <<Does("assign_value", {"wrap", "replace"})>>)>>),
   flat |-> Versioned(1, <<[structured |-> FALSE, name |-> "A", top |-> {"target", "func", "raw"},
                            where |-> {}, do |-> <<>>]>>),
   late |-> Versioned(3, <<RuleEntry("A", {"func"}, <<HooksDo>>)>>)]

GoodFiles == {"f1", "f2", "f3", "f4"}
MCLists ==
  UNION {[1..k -> GoodFiles] : k \in 1..3}
    \cup {<<"f1", f, "f1">> : f \in DOMAIN MCRuleFile \ GoodFiles}
-----------------------------------------------------------------------------
(* RuleMatching                                                             *)

Declares(kind, name, recv, lead) == [kind |-> kind, name |-> name, recv |-> recv, lead |-> lead]
Source(lead, decls, calls, test, ignoresCall) ==
  [lead |-> lead, package |-> IF test THEN "pkg_test" ELSE "pkg", decls |-> decls,
   calls |-> calls, test |-> test, ignoresCall |-> ignoresCall]
SourceNamed ==
  [a |-> Source({}, {Declares("func", "F", "", {}), Declares("struct", "T", "", {}),
                     Declares("func", "G", "*T", {"span"})}, {"Get"}, FALSE, FALSE),
   b |-> Source({"ignore"}, {Declares("func", "F", "", {"instrument"}),
                             Declares("var", "V", "", {})}, {"Get"}, FALSE, FALSE),
   x |-> Source({"build"}, {Declares("func", "F", "", {"ignore"}),
                            Declares("func", "G", "", {})}, {}, FALSE, TRUE),
   t |-> Source({}, {Declares("func", "F", "", {})}, {}, TRUE, FALSE)]
MCFileOf == [f \in {<<"d", "a">>, <<"d", "b">>, <<"e", "x">>, <<"d", "t">>} |-> SourceNamed[f[2]]]

Cd(dir) == [cmd |-> "cd", dir |-> dir]
Cgo(obj) == [cmd |-> "cgo", obj |-> obj]
Compile(path, version, dir, obj, sources, cgo) ==
  [cmd |-> "compile", path |-> path, version |-> version, dir |-> dir, obj |-> obj,
   sources |-> sources, generated |-> cgo]

\* Dry runs that compile every package once, two of them with cgo.
OwnPaths ==
  {<<Cd("d"), Compile("p", 2, "d", "b1", {"a", "b"}, {}), Cd("e"), Cgo("b2"), Cd("w"),
     Compile("q", 0, "e", "b2", {}, {"x", "m"}), Compile("r", 1, "w", "b3", {}, {})>>,
   <<Cd("d"), Cgo("b1"), Cd("e"), Cgo("b2"), Compile("p", 3, "d", "b1", {"t"}, {"b"}),
     Compile("q", 1, "e", "b2", {"x"}, {})>>}

\* Dry runs that compile two packages under one path, as go test does with a
\* package and its test variant.
SharedPaths ==
  {<<Compile("p", 2, "d", "b1", {"a"}, {}), Compile("p", 2, "d", "b2", {"a", "t"}, {})>>,
   <<Compile("p", 0, "d", "b1", {"a"}, {}), Compile("p", 0, "e", "b2", {"x"}, {})>>}

OnPath(p) == [kind |-> "path", paths |-> {p}]
Glob == [kind |-> "glob", paths |-> {"p", "q"}]
RootPattern == [kind |-> "root", paths |-> {}]
Tgt(include, exclude) == [include |-> include, exclude |-> exclude]
MatchRule(id, target, kind, name, recv, from, upto, where) ==
  [id |-> id, target |-> target, kind |-> kind, name |-> name, recv |-> recv, from |-> from,
   before |-> upto, where |-> where, hook |-> IF id = "lost" THEN "gone" ELSE "hooks"]
TestFile(v) == [op |-> "is_test", value |-> v]
FileHas(op, name) == [op |-> op, name |-> name, recv |-> ""]
HasF == FileHas("has_func", "F")
Combines(op, of) == [op |-> op, of |-> of]

MatchRules ==
  {MatchRule("fP", Tgt(<<OnPath("p")>>, {}), "func", "F", "", 0, 0, NoWhere),
   MatchRule("fTest", Tgt(<<Glob>>, {}), "func", "F", "", 0, 0, TestFile(TRUE)),
   MatchRule("gNotP", Tgt(<<Glob>>, {OnPath("p")}), "raw", "G", "", 1, 3, NoWhere),
   MatchRule("gT", Tgt(<<OnPath("q"), OnPath("p")>>, {}), "func", "G", "*T", 2, 0,
             Combines("not", <<TestFile(TRUE)>>)),
   MatchRule("sT", Tgt(<<RootPattern>>, {OnPath("q")}), "struct", "T", "", 0, 3,
             Combines("all-of", <<HasF, FileHas("has_package", "pkg")>>)),
   MatchRule("vV", Tgt(<<RootPattern>>, {}), "decl", "V", "", 0, 0,
             Combines("one-of", <<TestFile(TRUE), HasF>>)),
   MatchRule("cG", Tgt(<<Glob>>, {}), "call", "Get", "", 1, 2, FileHas("has_directive", "ignore")),
   MatchRule("dS", Tgt(<<OnPath("p")>>, {}), "directive", "span", "", 0, 0, NoWhere),
   MatchRule("lL", Tgt(<<Glob>>, {}), "lit", "Get", "", 0, 0, NoWhere),
   MatchRule("file", Tgt(<<Glob>>, {OnPath("q")}), "file", "", "", 2, 3, TestFile(TRUE)),
   MatchRule("lost", Tgt(<<OnPath("q")>>, {}), "func", "F", "", 0, 0, NoWhere),
   MatchRule("bad", Tgt(<<OnPath("r"), OnPath("q")>>, {}), "func", "F", "", 1, 0,
             Combines("all-of", <<HasF, Combines("not", <<[op |-> "mixed"]>>)>>))}
MCRuleSets == {{r, s} : r, s \in MatchRules}
ClausesIn(ws) == ws \cup UNION {Range(w.of) : w \in {v \in ws : v.op \in {"all-of", "one-of", "not"}}}
MCClauses == ClausesIn(ClausesIn({r.where : r \in MatchRules}))
-----------------------------------------------------------------------------
(* Pinning                                                                  *)

Import(kind, valid, nested, rules, builtin) ==
  [kind |-> kind, valid |-> valid, nested |-> nested, rules |-> rules, builtin |-> builtin,
   needs |-> IF builtin THEN {"helper"} ELSE {}]
PinRule(t, hook, since) == [target |-> t, hook |-> hook, since |-> since]

MCAbout ==
  [http |-> Import("rules", TRUE, "none", {PinRule("net/http", "hooks/http", 0),
                                           PinRule("hooks/lib", "hooks/lib2", 0)}, TRUE),
   sql |-> Import("rules", TRUE, "none", {PinRule("sql", "hooks/sql", 2), PinRule("$root", "none", 0),
                                          PinRule("hooks/deep", "hooks/http", 0)}, TRUE),
   meta |-> Import("rules", TRUE, "metafile", {}, FALSE),
   bad |-> Import("rules", FALSE, "none", {}, FALSE),
   dead |-> Import("nothing", TRUE, "none", {}, FALSE)]
MCImports ==
  [p \in {"app", "net/http", "sql", "hooks/http", "hooks/lib", "hooks/lib2", "hooks/deep",
          "hooks/sql"} |->
     CASE p = "hooks/http" -> {"hooks/lib"}
       [] p = "hooks/lib2" -> {"hooks/deep"}
       [] OTHER -> {}]

\* Tool files: none of its own, one of a root that names a meta package, one in
\* each root.
ImportsIn(f, a, b, meta) == CASE f = "a" -> a [] f = "b" -> b [] OTHER -> meta
MCFiles ==
  {[f \in {"metafile"} |-> {"sql"}],
   [f \in {"metafile", "a"} |-> ImportsIn(f, {"meta", "http", "dead"}, {}, {"sql"})],
   [f \in {"metafile", "a", "b"} |-> ImportsIn(f, {"meta", "http", "bad"}, {"dead"}, {"sql", "dead"})],
   [f \in {"metafile", "a", "b"} |-> ImportsIn(f, {"http", "dead"}, {"http", "dead"}, {"sql"})],
   [f \in {"metafile", "b"} |-> ImportsIn(f, {}, {"meta"}, {"sql"})]}

MCProjects ==
  [roots : {<<"a", "b">>}, file : MCFiles, about : {MCAbout}, version : {0, 2},
   required : {[r \in {"a", "b"} |-> v] : v \in {-1, 1, 3}}, tidied : BOOLEAN,
   validate : BOOLEAN, imports : {MCImports},
   dep : {[p \in DOMAIN MCImports |-> IF p = "sql" THEN v ELSE 2] : v \in {0, 2}},
   plan : {{"app", "net/http", "sql"}}, builds : {{"app"}}]
-----------------------------------------------------------------------------
(* HookSignature                                                            *)

LeafTypes == {Named("p", "S"), Named("q", "S"), Named("", "T"), AnyType}
PtrToS == Ptr(Named("p", "S"))
ParamTypes ==
  LeafTypes \cup {Ptr(t) : t \in LeafTypes} \cup {Slice(t) : t \in LeafTypes}
    \cup {Variadic(t) : t \in LeafTypes} \cup {Slice(PtrToS), Variadic(PtrToS)}
MCSignatures ==
  [target : [params : {<<t>> : t \in ParamTypes}, typeParams : {{}, {"T"}}],
   hook : {<<t>> : t \in ParamTypes} \cup {<<>>}]

ArgNamed(name) == [id |-> Written(name), prefix |-> "ignoredParam"]
ResultNamed(name) ==
  [id |-> Written(name), prefix |-> IF name = Blank THEN "ignoredRetVal" ELSE "unnamedRetVal"]
\* A name the programmer wrote that looks like one of otelc's.
LooksTaken == [id |-> Synthetic("ignoredParam", "h", 0), prefix |-> "ignoredParam"]
MCDeclarations ==
  [decl : [args : {<<>>, <<ArgNamed("")>>, <<ArgNamed("_"), ArgNamed("a")>>,
                   <<ArgNamed("_"), ArgNamed("_")>>, <<ArgNamed("_"), LooksTaken>>,
                   <<ArgNamed("a"), ArgNamed("_"), LooksTaken, ArgNamed("_")>>},
           results : {<<>>, <<ResultNamed("")>>, <<ResultNamed("_"), ResultNamed("r")>>,
                      <<ResultNamed("_"), ResultNamed("_")>>,
                      <<ResultNamed(""), ResultNamed("")>>}],
   rules : {<<"h">>, <<"h", "k">>}]

TypeIdent(is, name) == [is |-> is, name |-> name]
BoundTypes ==
  {<<>>, <<TypeIdent("ref", "A")>>, <<TypeIdent("ref", "K"), TypeIdent("name", "A")>>,
   <<TypeIdent("name", "K"), TypeIdent("ref", "V")>>}
MCReceivers ==
  [declared : {<<"K", "V">>, <<"K", "A">>}, args : {<<"A", "B">>, <<"V", "K">>, <<"K", "V">>},
   constraints : BoundTypes \X BoundTypes, sameFile : BOOLEAN]
-----------------------------------------------------------------------------
Some(S) == CHOOSE x \in S : TRUE

ToolInit ==
  /\ LineInit /\ (part # "line" => environment = ModuleProject /\ command.sub = "build")
  /\ LoadInit /\ (part # "files" => source = "tools" /\ remaining = Some(ToolLists))
  /\ MatchInit /\ (part # "matching" => plan = Some(Plans) /\ ruleList = Some(RuleSets))
  /\ PinInit /\ (part # "pinning" => project = Some(Projects))
  /\ IF part = "signature" THEN SignatureInit
     ELSE fitting = [of |-> "signature", input |-> Some(Signatures), answer |-> "none"]
  /\ IF part = "code" THEN CodeInit
     ELSE /\ code = [before |-> Some(CodeFiles), now |-> Some(CodeFiles), rules |-> {}]
          /\ codeRules = <<>> /\ refusal = "none"

ToolVars == <<lineVars, fileVars, matchVars, pinVars, fitting, codeVars>>

ToolNext ==
  \/ /\ part = "line" /\ LineNext
     /\ UNCHANGED <<fileVars, matchVars, pinVars, fitting, codeVars>>
  \/ /\ part = "files" /\ LoadNext
     /\ UNCHANGED <<lineVars, matchVars, pinVars, fitting, codeVars>>
  \/ /\ part = "matching" /\ MatchNext
     /\ UNCHANGED <<lineVars, fileVars, pinVars, fitting, codeVars>>
  \/ /\ part = "pinning" /\ PinNext
     /\ UNCHANGED <<lineVars, fileVars, matchVars, fitting, codeVars>>
  \/ /\ part = "signature" /\ SignatureNext
     /\ UNCHANGED <<lineVars, fileVars, matchVars, pinVars, codeVars>>
  \/ /\ part = "code" /\ CodeNext
     /\ UNCHANGED <<lineVars, fileVars, matchVars, pinVars, fitting>>
=============================================================================
