------------------------------ MODULE CodeRules ------------------------------
(***************************************************************************)
(* The rules that edit one file's syntax tree: raw code, call sites,        *)
(* literals, directives and declarations, and the imports their code needs. *)
(*                                                                         *)
(* A tree is a node with its kids.  `is' tells calls ("call", "spread" for  *)
(* f(s...)), literals and their keys, "iife" (the function literal that     *)
(* appends to a spread argument), other uses, and, in templates, "hole"     *)
(* for {{ . }}, "arg" for {{ .CallArgument id }} and "param" for            *)
(* {{ .FuncArgument 0 }}.  `by' is "program" or the rule that wrote it;     *)
(* `qual' is the qualifier as written, `means' the import path (or "local") *)
(* its author meant; `id' tells the program's nodes apart, and a node a     *)
(* rule adds bears the id of the site it was added for.  A call of a method *)
(* has no qualifier and means its receiver's package.                       *)
(*                                                                         *)
(* A place is a statement of a function, or a package-level declaration     *)
(* (func = ""), with the names its function binds at its top level.         *)
(* In-scope bindings of nested blocks are left out.                         *)
(***************************************************************************)
EXTENDS Integers, Sequences, SequencesExt
CONSTANTS CodeFiles,     \* files to instrument
          CodeRuleLists, \* rules of such a file, grouped as groupRules does
          RealName,      \* import path |-> the name of its package
          GuessedName,   \* import path |-> the name its last segment suggests
          KnownNames     \* the paths whose name setup stored
VARIABLES code, codeRules, refusal

codeVars == <<code, codeRules, refusal>>

Node(is, by, id, qual, means, name, kids) ==
  [is |-> is, by |-> by, id |-> id, qual |-> qual, means |-> means, name |-> name, kids |-> kids]

RECURSIVE Nodes(_)
Nodes(e) == {e} \cup UNION {Nodes(e.kids[i]) : i \in DOMAIN e.kids}

CodeTypeOK ==
  /\ code.before \in CodeFiles
  /\ refusal \in {"none", "shadowed", "template", "spread", "no target", "arity", "import"}
-----------------------------------------------------------------------------
(* Imports                                                                  *)

LocalName(spec) == IF spec.name = "" THEN RealName[spec.path] ELSE spec.name

\* The parser's list is not extended by later additions; a file that had no
\* imports is looked up in its declarations.
ImportSpecs(f) == IF f.parsed # {} THEN f.parsed ELSE f.imports
Qualified(specs) == {s \in specs : s.name \notin {"_", "."}}

\* ImportAliasMap: to match the program's code, with a guess where need be.
AliasMap(f) ==
  {<<IF s.name = "" /\ s.path \notin KnownNames THEN GuessedName[s.path] ELSE LocalName(s),
     s.path>> : s \in Qualified(ImportSpecs(f))}
\* ResolvedImportAliasMap: to write new code.
ResolvedAliases(f) ==
  {<<LocalName(s), s.path>> :
     s \in {t \in Qualified(ImportSpecs(f)) : t.name # "" \/ t.path \in KnownNames}}

\* The alias to write instead of the rule's where the file has its own.
AliasOverrides(f, r) ==
  LET aliases(a) == {b[1] : b \in {c \in ResolvedAliases(f) : c[2] = r.imports[a]}}
  IN [a \in {b \in DOMAIN r.imports \ {"_", "."} :
               aliases(b) # {} /\ b \notin aliases(b)} |-> CHOOSE b \in aliases(a) : TRUE]

\* Mutant: no substituted alias is looked for among the function's names.
NeverShadowed(over, place) == FALSE
Shadowed(over, place) == place.func # "" /\ \E a \in DOMAIN over : over[a] \in place.locals

Selectors(f) == UNION {{n.qual : n \in Nodes(f.places[i].tree)} : i \in DOMAIN f.places}
UsedImports(f, r, over) ==
  {a \in DOMAIN r.imports \ DOMAIN over : a \in {"_", "."} \/ a \in Selectors(f)}

AliasesNow(f, path) == {LocalName(s) : s \in {t \in f.imports : t.path = path}}
ImportRefused(f, r, used) ==
  \E a \in used \ {"_"} :
    LET now == AliasesNow(f, r.imports[a])
    IN \/ now # {} /\ a \notin now
       \/ a # "." /\ now = {} /\ \E s \in f.imports : LocalName(s) = a
NewSpecs(f, r, used) ==
  {[name |-> IF RealName[r.imports[a]] = a THEN "" ELSE a, path |-> r.imports[a]] :
     a \in {b \in used : AliasesNow(f, r.imports[b]) = {}}}
-----------------------------------------------------------------------------
(* Templates                                                                *)

RECURSIVE Rewrite(_, _), Fill(_, _, _)
\* The rule's qualifiers become the file's.
Rewrite(t, over) ==
  [t EXCEPT !.qual = IF t.qual \in DOMAIN over THEN over[t.qual] ELSE @,
            !.kids = [i \in DOMAIN t.kids |-> Rewrite(t.kids[i], over)]]
\* What comes from the program is put in afterwards, so it is never rewritten:
\* names of the function are marked until then, expressions are placeholders.
Fill(t, e, place) ==
  CASE t.is = "hole" -> e
    [] t.is = "arg" -> e.kids[t.id]
    [] t.is = "param" -> [t EXCEPT !.is = "use", !.qual = place.param, !.means = "local"]
    [] OTHER -> [t EXCEPT !.kids = [i \in DOMAIN t.kids |-> Fill(t.kids[i], e, place)]]

CompileExpression(t, e, place, over, site) ==
  [Fill(Rewrite(t, over), e, place) EXCEPT !.id = site]
TemplateFails(t, e, place) ==
  \E n \in Nodes(t) : \/ n.is = "param" /\ place.func = ""
                      \/ n.is = "arg" /\ (e.is \notin {"call", "spread"} \/ n.id > Len(e.kids))
-----------------------------------------------------------------------------
(* Call sites and literals                                                  *)

IsCall(e) == e.is \in {"call", "spread"}
\* Calls of a method are found by their position in the type-checked source,
\* which no code of a rule has.
Matches(e, r, f) ==
  /\ e.name = r.name
  /\ IF r.kind = "lit" THEN e.is = "lit" ELSE IsCall(e)
  /\ IF r.method THEN e.by = "program" /\ e.qual = "" /\ e.means = r.path
                 ELSE <<e.qual, r.path>> \in AliasMap(f)
Sites(place, r, f) ==
  IF place.ignored /\ r.kind = "call" THEN {} ELSE {n \in Nodes(place.tree) : Matches(n, r, f)}

AppendFails(e, r) == e.is = "spread" /\ (r.variadic = "" \/ e.kids = <<>>)
Appended(e, r, over) ==
  LET new == [i \in DOMAIN r.append |-> [Rewrite(r.append[i], over) EXCEPT !.id = e.id]]
      iife(last) == Rewrite(Node("iife", r.rule, e.id, r.variadic, r.imports[r.variadic], "",
                                 <<>>), over)
  IN IF e.is = "call" THEN [e EXCEPT !.kids = @ \o new]
     ELSE [e EXCEPT !.kids[Len(e.kids)] = [iife(@) EXCEPT !.kids = <<e.kids[Len(e.kids)]>> \o new]]

\* Mutant: the arguments of a call that matches are not searched.
RECURSIVE AppendOutermost(_, _, _, _), AppendCalls(_, _, _, _)
AppendOutermost(e, r, f, over) ==
  IF Matches(e, r, f) THEN Appended(e, r, over)
  ELSE [e EXCEPT !.kids = [i \in DOMAIN @ |-> AppendOutermost(@[i], r, f, over)]]
AppendCalls(e, r, f, over) ==
  LET inner == [e EXCEPT !.kids = [i \in DOMAIN @ |-> AppendCalls(@[i], r, f, over)]]
  IN IF Matches(e, r, f) THEN Appended(inner, r, over) ELSE inner

\* The wrapper holds a clone of the call made before any call is replaced, and
\* the walk goes on below the replaced call itself, not below its wrapper.
RECURSIVE WrapCalls(_, _, _, _, _)
WrapCalls(e, r, f, place, over) ==
  IF Matches(e, r, f) THEN CompileExpression(r.wrap[1], e, place, over, e.id)
  ELSE [e EXCEPT !.kids = [i \in DOMAIN @ |-> WrapCalls(@[i], r, f, place, over)]]

Positional(e) == \E i \in DOMAIN e.kids : e.kids[i].is # "key"
KeyOf(e, r) == SelectInSeq(e.kids, LAMBDA k : k.name = r.field)
SetField(e, r, place, over) ==
  LET key == KeyOf(e, r)
      value == [i \in DOMAIN r.value |-> [Rewrite(r.value[i], over) EXCEPT !.id = e.id]]
  IN IF key = 0
     THEN [e EXCEPT !.kids = [i \in DOMAIN value |->
             Node("key", r.rule, e.id, "", "", r.field, <<value[i]>>)] \o @]
     ELSE [e EXCEPT !.kids[key].kids =
             IF r.wrap = <<>> THEN value
             ELSE <<CompileExpression(r.wrap[1], @[1], place, over, e.id)>>]

\* The innermost literal is edited first.
RECURSIVE SetLiterals(_, _, _, _, _)
SetLiterals(e, r, f, place, over) ==
  LET inner == [e EXCEPT !.kids = [i \in DOMAIN @ |-> SetLiterals(@[i], r, f, place, over)]]
  IN IF Matches(e, r, f) /\ ~Positional(e) THEN SetField(inner, r, place, over) ELSE inner
-----------------------------------------------------------------------------
(* Rules                                                                    *)

\* The file with its trees changed, and the imports that the rule's code uses.
Finish(f, r, over, places) ==
  LET done == [f EXCEPT !.places = places]
      used == UsedImports(done, r, over)
  IN IF ImportRefused(done, r, used) THEN [because |-> "import", file |-> f]
     ELSE [because |-> "none",
           file |-> [done EXCEPT !.imports = @ \cup NewSpecs(done, r, used)]]
Refuse(f, why) == [because |-> why, file |-> f]
Leave(f) == [because |-> "none", file |-> f]

Edited(f, edit(_)) == [i \in DOMAIN f.places |-> edit(f.places[i])]

ApplyCallRule(f, r) ==
  LET over == AliasOverrides(f, r)
      appended ==
        Edited(f, LAMBDA p : IF p.ignored \/ r.append = <<>> THEN p
                             ELSE [p EXCEPT !.tree = AppendCalls(@, r, f, over)])
      g == [f EXCEPT !.places = appended]
      places == {g.places[i] : i \in DOMAIN g.places}
      sites == {p \in places : Sites(p, r, g) # {}}
  IN IF r.append # <<>> /\ \E i \in DOMAIN f.places :
                             \E e \in Sites(f.places[i], r, f) : AppendFails(e, r)
     THEN Refuse(f, "spread")
     ELSE IF sites = {} THEN Leave(f)
     ELSE IF r.wrap = <<>> THEN Finish(f, r, over, appended)
     ELSE IF \E p \in sites : Shadowed(over, p) THEN Refuse(f, "shadowed")
     ELSE IF \E p \in sites : \E e \in Sites(p, r, g) : TemplateFails(r.wrap[1], e, p)
          THEN Refuse(f, "template")
     ELSE Finish(f, r, over,
                 Edited(g, LAMBDA p : IF p.ignored THEN p
                                      ELSE [p EXCEPT !.tree = WrapCalls(@, r, g, p, over)]))

ApplyLitRule(f, r) ==
  LET over == AliasOverrides(f, r)
      sites(p) == {e \in Sites(p, r, f) : ~Positional(e)}
      changed(e) == KeyOf(e, r) # 0 \/ r.value # <<>>
      places == {f.places[i] : i \in DOMAIN f.places}
  IN IF \E p \in places : sites(p) # {} /\ Shadowed(over, p) THEN Refuse(f, "shadowed")
     ELSE IF \E p \in places : \E e \in sites(p) :
               r.wrap # <<>> /\ KeyOf(e, r) # 0
                 /\ TemplateFails(r.wrap[1], e.kids[KeyOf(e, r)].kids[1], p)
          THEN Refuse(f, "template")
     ELSE IF \A p \in places : \A e \in sites(p) : ~changed(e) THEN Leave(f)
     ELSE Finish(f, r, over,
                 Edited(f, LAMBDA p : [p EXCEPT !.tree = SetLiterals(@, r, f, p, over)]))

\* A statement of the rule's code in the function of place p.
RuleStatement(r, p, over) ==
  [p EXCEPT !.ignored = FALSE, !.label = r.rule,
            !.tree = Fill(Rewrite(r.value[1], over), p.tree, p)]

InsertRaw(places, i, r, new) ==
  InsertAt(places, IF r.pattern # "" /\ r.placement = "after" THEN i + 1 ELSE i, new)
ApplyRawRule(f, r) ==
  LET over == AliasOverrides(f, r)
      at == SelectInSeq(f.places, LAMBDA p : p.func = r.func /\ r.pattern \in {"", p.label})
  IN IF ~\E i \in DOMAIN f.places : f.places[i].func = r.func THEN Refuse(f, "no target")
     ELSE IF \E i \in DOMAIN f.places :
               f.places[i].func = r.func /\ Shadowed(over, f.places[i])
          THEN Refuse(f, "shadowed")
     ELSE IF at = 0 THEN Refuse(f, "no target")
     ELSE Finish(f, r, over,
                 InsertRaw(f.places, at, r, RuleStatement(r, f.places[at], over)))

ApplyDirectiveRule(f, r) ==
  LET over == AliasOverrides(f, r)
      first(i) == /\ f.places[i].func # "" /\ r.name \in f.places[i].directives
                  /\ ~\E j \in 1..(i - 1) : f.places[j].func = f.places[i].func
      starts == {i \in DOMAIN f.places : first(i)}
  IN IF starts = {} THEN Leave(f)
     ELSE IF \E i \in starts : Shadowed(over, f.places[i]) THEN Refuse(f, "shadowed")
     ELSE Finish(f, r, over,
            FlattenSeq([i \in DOMAIN f.places |->
              IF i \in starts THEN <<RuleStatement(r, f.places[i], over), f.places[i]>>
              ELSE <<f.places[i]>>]))

ApplyDeclRule(f, r) ==
  LET over == AliasOverrides(f, r)
      at == SelectInSeq(f.places, LAMBDA p : p.func = "" /\ p.label = r.name)
      value == f.places[at].tree
      new == IF r.wrap = <<>> THEN Rewrite(r.value[1], over)
             ELSE CompileExpression(r.wrap[1], value, f.places[at], over, value.id)
  IN IF at = 0 THEN Refuse(f, "no target")
     ELSE IF f.places[at].tuple THEN Refuse(f, "arity")
     ELSE IF r.wrap # <<>> /\ TemplateFails(r.wrap[1], value, f.places[at])
          THEN Refuse(f, "template")
     ELSE Finish(f, r, over, [f.places EXCEPT ![at].tree = new])

\* A field's type stands at the package level.
ApplyStructRule(f, r) ==
  LET over == AliasOverrides(f, r)
      at == SelectInSeq(f.places, LAMBDA p : p.func = "" /\ p.label = r.name)
  IN IF at = 0 THEN Refuse(f, "no target")
     ELSE Finish(f, r, over, Append(f.places,
                                    [f.places[at] EXCEPT !.label = r.rule,
                                                         !.tree = Rewrite(r.value[1], over)]))
-----------------------------------------------------------------------------
CodeInit ==
  /\ codeRules \in CodeRuleLists
  /\ \E f \in CodeFiles : code = [before |-> f, now |-> f, rules |-> ToSet(codeRules)]
  /\ refusal = "none"

Applied(r) ==
  CASE r.kind = "struct" -> ApplyStructRule(code.now, r)
    [] r.kind = "raw" -> ApplyRawRule(code.now, r)
    [] r.kind = "call" -> ApplyCallRule(code.now, r)
    [] r.kind = "lit" -> ApplyLitRule(code.now, r)
    [] r.kind = "directive" -> ApplyDirectiveRule(code.now, r)
    [] r.kind = "decl" -> ApplyDeclRule(code.now, r)

\* The first rule that fails ends the compile.
Apply(kind) ==
  /\ refusal = "none" /\ codeRules # <<>> /\ Head(codeRules).kind = kind
  /\ LET result == Applied(Head(codeRules))
     IN refusal' = result.because /\ code' = [code EXCEPT !.now = result.file]
  /\ codeRules' = Tail(codeRules)

CodeNext ==
  \/ Apply("struct") \/ Apply("raw") \/ Apply("call")
  \/ Apply("lit") \/ Apply("directive") \/ Apply("decl")
-----------------------------------------------------------------------------
(* Properties                                                               *)

Compiled == codeRules = <<>> /\ refusal = "none"
NodesIn(f) == UNION {Nodes(f.places[i].tree) : i \in DOMAIN f.places}

\* What the compiler takes a qualifier for.
NamesImport(f, qual, path) == \E s \in f.imports : LocalName(s) = qual /\ s.path = path
Resolves(n, place) ==
  IF n.qual \in place.locals THEN n.means = "local" ELSE NamesImport(code.now, n.qual, n.means)

\* The qualifiers nothing checks against the function's names: a rule's own
\* alias, and the file's alias in an appended argument.
Unchecked(n, place) ==
  \E r \in code.rules : /\ r.rule = n.by /\ n.qual \in place.locals
                        /\ n.qual \in DOMAIN r.imports \/ r.append # <<>>

\* Once all rules of a file have been applied (instrumentFile), every qualifier
\* in it, the program's own and those of the rules' code, names what its author
\* meant, whichever names the file gives its imports and whatever earlier rules
\* imported; and an import a rule added is used, as Go demands, under a name no
\* other import has.
QualifiersResolve ==
  Compiled =>
    /\ \A i \in DOMAIN code.now.places : \A n \in Nodes(code.now.places[i].tree) :
         n.qual = "" \/ Unchecked(n, code.now.places[i]) \/ Resolves(n, code.now.places[i])
    /\ \A s \in code.now.imports \ code.before.imports :
         /\ \A t \in code.now.imports \ {s} : s.name \in {"_", "."} \/ LocalName(t) # LocalName(s)
         /\ s.name \in {"_", "."}
              \/ \E n \in NodesIn(code.now) : n.qual = LocalName(s) /\ n.means = s.path

SiteIds(r) ==
  UNION {{e.id : e \in {n \in Sites(code.before.places[i], r, code.before) :
                          ~(r.kind = "lit" /\ Positional(n))}} : i \in DOMAIN code.before.places}
ReachesEverySite(r) ==
  SiteIds(r) \cap {n.id : n \in {m \in NodesIn(code.now) : m.by = "program"}}
    \subseteq {n.id : n \in {m \in NodesIn(code.now) : m.by = r.rule}}

\* append_args and set_fields reach every call and literal of the rule that is
\* still in the file, however deep it is nested in other sites and whatever other
\* rules put around it (applyCallAppendArgs, applyLitRule's innermost-first
\* order); and call rules leave statements marked //otelc:ignore alone.
EditsReachNestedSites ==
  Compiled =>
    /\ \A r \in code.rules :
         (r.kind = "call" /\ r.append # <<>>) \/ (r.kind = "lit" /\ r.value # <<>>)
           => ReachesEverySite(r)
    /\ \A i \in DOMAIN code.now.places :
         code.now.places[i].ignored =>
           \A n \in Nodes(code.now.places[i].tree) :
             \A r \in code.rules : r.kind = "call" => n.by # r.rule

\* A call-site rule wraps every call it matches, except those marked
\* //otelc:ignore: the mark "opts that one call site out and leaves every other
\* matching call site wrapped" (applyCallReplace).
EverySiteWrapped ==
  Compiled => \A r \in code.rules : r.kind = "call" /\ r.wrap # <<>> => ReachesEverySite(r)
=============================================================================
