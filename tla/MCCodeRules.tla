---------------------------- MODULE MCCodeRules ----------------------------
(* Small files and rules for CodeRules.                                       *)
EXTENDS CodeRules
-----------------------------------------------------------------------------
UseAt(id, qual, means, name, kids) == Node("use", "program", id, qual, means, name, kids)
CallAt(id, qual, means, name, kids) == Node("call", "program", id, qual, means, name, kids)
GetAt(id, qual, kids) == CallAt(id, qual, "net/http", "Get", kids)
ClientAt(id, qual, kids) == Node("lit", "program", id, qual, "net/http", "Client", kids)
KeyAt(id, name, value) == Node("key", "program", id, "", "", name, <<value>>)
LeafAt(id) == UseAt(id, "", "", "x", <<>>)

\* A call within a call, and literals within literals, one of them positional.
NestedCalls ==
  GetAt(1, "http", <<GetAt(2, "http", <<LeafAt(3)>>), UseAt(4, "ctx", "local", "Done", <<>>)>>)
NestedClients(qual) ==
  ClientAt(5, qual, <<KeyAt(6, "Timeout", ClientAt(7, qual, <<KeyAt(8, "Jar", LeafAt(9))>>)),
                      KeyAt(10, "Jar", ClientAt(11, qual, <<LeafAt(12)>>))>>)
SpreadGet == [GetAt(13, "http", <<LeafAt(14)>>) EXCEPT !.is = "spread"]
QueryCall == CallAt(15, "", "db", "Query", <<GetAt(16, "http", <<>>)>>)

FuncPlace(func, locals, param, label, tree) ==
  [func |-> func, locals |-> locals, param |-> param, label |-> label, tree |-> tree,
   ignored |-> FALSE, tuple |-> FALSE, directives |-> IF func = "F" THEN {"span"} ELSE {}]
GlobalPlace(label, tuple, tree) == [FuncPlace("", {}, "", label, tree) EXCEPT !.tuple = tuple]
Imported(name, path) == [name |-> name, path |-> path]
CodeFile(specs, places) == [parsed |-> specs, imports |-> specs, places |-> places]
MCCodeFiles ==
  {CodeFile({Imported("", "net/http"), Imported("o", "otel")},
     <<FuncPlace("F", {"ctx"}, "ctx", "s1", NestedCalls),
       [FuncPlace("F", {"ctx"}, "ctx", "s2", GetAt(17, "http", <<>>)) EXCEPT !.ignored = TRUE],
       FuncPlace("G", {"o"}, "o", "s1", NestedClients("http")),
       GlobalPlace("V", FALSE, QueryCall), GlobalPlace("T", FALSE, LeafAt(18))>>),
   CodeFile({Imported("", "net/http"), Imported("otel", "other/otel2")},
     <<FuncPlace("F", {"ctx"}, "ctx", "s1", SpreadGet),
       FuncPlace("G", {"tel2"}, "tel2", "s1", QueryCall), GlobalPlace("V", TRUE, LeafAt(18))>>),
   CodeFile({Imported("", "redis/v9"), Imported("web", "net/http")},
     <<FuncPlace("F", {"tel"}, "tel", "s1",
                 CallAt(20, "redis", "redis/v9", "Get", <<NestedClients("web")>>)),
       GlobalPlace("V", FALSE, GetAt(21, "web", <<LeafAt(3)>>))>>),
   CodeFile({}, <<FuncPlace("F", {"tel"}, "tel", "s1", LeafAt(3)),
                  GlobalPlace("V", FALSE, LeafAt(18))>>)}
MCRealName ==
  [p \in {"net/http", "otel", "other/otel2", "redis/v9"} |->
     CASE p = "net/http" -> "http" [] p = "otel" -> "otel" [] p = "redis/v9" -> "redis"
       [] OTHER -> "otel2"]
MCGuessedName == [MCRealName EXCEPT !["redis/v9"] = "kv"]
-----------------------------------------------------------------------------
RuleNode(is, id, qual, means, name, kids) == Node(is, "rule", id, qual, means, name, kids)
TheHole == RuleNode("hole", 0, "", "", "", <<>>)
TheArg(i) == RuleNode("arg", i, "", "", "", <<>>)
TheParam == RuleNode("param", 0, "", "", "Value", <<>>)
OtelDo(alias, kids) == RuleNode("call", 0, alias, "otel", "Do", kids)

RECURSIVE SignedBy(_, _)
SignedBy(t, rule) ==
  [t EXCEPT !.by = rule, !.kids = [i \in DOMAIN @ |-> SignedBy(@[i], rule)]]
Telemetry == [a \in {"tel"} |-> "otel"]
\* A rule for calls of http.Get; `where' and `what' replace some of its fields.
CodeRule(name, kind, where, imports, what) ==
  LET rule == what @@ where @@
        [kind |-> kind, path |-> "net/http", name |-> "Get", method |-> FALSE, append |-> <<>>,
         variadic |-> "", wrap |-> <<>>, value |-> <<>>, field |-> "", func |-> "F",
         pattern |-> "", placement |-> "", imports |-> imports, rule |-> name]
      signed(ts) == [i \in DOMAIN ts |-> SignedBy(ts[i], name)]
  IN [rule EXCEPT !.append = signed(@), !.wrap = signed(@), !.value = signed(@)]
Everywhere == [path |-> "net/http"]
Wrap(t) == [wrap |-> <<t>>]
Value(t) == [value |-> <<t>>]

MCCodeRules ==
  {CodeRule("struct", "struct", [name |-> "T"], Telemetry, Value(OtelDo("tel", <<>>))),
   CodeRule("raw", "raw", Everywhere, Telemetry, Value(OtelDo("tel", <<TheParam>>))),
   CodeRule("rawG", "raw", [func |-> "G", pattern |-> "s1", placement |-> "after"], Telemetry,
            Value(OtelDo("tel", <<TheParam>>))),
   CodeRule("wrap", "call", Everywhere, Telemetry, Wrap(OtelDo("tel", <<TheHole, TheParam>>))),
   CodeRule("wrapArg", "call", Everywhere, ("otel" :> "otel") @@ ("web" :> "net/http"),
            Wrap(OtelDo("otel", <<TheHole, TheArg(1),
                                  RuleNode("use", 0, "web", "net/http", "Get", <<>>)>>))),
   CodeRule("append", "call", Everywhere, Telemetry,
            [append |-> <<OtelDo("tel", <<>>)>>, variadic |-> "tel"]),
   CodeRule("appendBare", "call", Everywhere, "o" :> "otel", [append |-> <<OtelDo("o", <<>>)>>]),
   CodeRule("method", "call", [method |-> TRUE, path |-> "db", name |-> "Query"], "_" :> "otel",
            Wrap(RuleNode("call", 0, "", "", "do", <<TheHole>>))),
   CodeRule("redis", "call", [path |-> "redis/v9"], Telemetry, Wrap(OtelDo("tel", <<TheHole>>))),
   CodeRule("lit", "lit", [name |-> "Client", field |-> "Timeout"], Telemetry,
            Value(OtelDo("tel", <<>>)) @@ Wrap(OtelDo("tel", <<TheHole>>))),
   CodeRule("litJar", "lit", [name |-> "Client", field |-> "Jar"],
            ("o" :> "otel") @@ ("." :> "otel"), Wrap(OtelDo("o", <<TheHole, TheParam>>))),
   CodeRule("span", "directive", [name |-> "span"], Telemetry,
            Value(OtelDo("tel", <<TheParam>>))),
   CodeRule("decl", "decl", [name |-> "V"], Telemetry, Wrap(OtelDo("tel", <<TheHole>>))),
   CodeRule("declNew", "decl", [name |-> "V"], "otel" :> "otel", Value(OtelDo("otel", <<>>)))}

GroupOf(rule) ==
  SelectInSeq(<<"struct", "raw", "call", "lit", "directive", "decl">>, LAMBDA k : k = rule.kind)
Ordered(rules) ==
  \A i, j \in DOMAIN rules :
    i < j => GroupOf(rules[i]) <= GroupOf(rules[j]) /\ rules[i].rule # rules[j].rule
MCCodeLists == UNION {{l \in [1..n -> MCCodeRules] : Ordered(l)} : n \in 1..3}
=============================================================================
