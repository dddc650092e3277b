------------------------------ MODULE RuleFiles -------------------------------
(* How rule files become rules: where the files are looked for and in which     *)
(* order (setup/match.go, loadRules), which otelc they accept and what their    *)
(* entries are (rule/file.go), how an entry is normalized to flat rules         *)
(* (rule/normalize.go, rule/schema.go) and which constructor takes each of them *)
(* (newRule and the validate methods of the rule types).  An entry is the set   *)
(* of its keys: those beside where and do, those under where, and one modifier  *)
(* with its payload's keys per item of do.                                      *)
EXTENDS Integers, FiniteSets, Sequences, Functions

CONSTANTS
    RuleFile,       \* the content of each rule file: [version, entries]
    Current,        \* the version of this otelc; 0 for a development build
    CustomLists,    \* sequences of files OTELC_RULES or -rules may name
    ToolLists       \* sequences of files the walk of the tool files may find

ListsAssumption ==
    /\ CustomLists \cup ToolLists \subseteq Seq(DOMAIN RuleFile)
    /\ \A f \in DOMAIN RuleFile :
         LET entries == RuleFile[f].entries
         IN  /\ entries \in Seq(Range(entries))
             /\ \A i \in DOMAIN entries : entries[i].do \in Seq(Range(entries[i].do))
ASSUME ListsAssumption

VARIABLES
    source,         \* "environment", "config" or "tools": the first that is set
    remaining,      \* the files still to be read
    loaded,         \* the files read so far, in the order of the list
    ruleOf,         \* entry name -> the rules it stands for, each with its file
    loadStage       \* "loading", "done" or "failed"
fileVars == <<source, remaining, loaded, ruleOf, loadStage>>

-----------------------------------------------------------------------------
(* The schema.                                                                  *)

PointSelectors == {"func", "recv", "struct", "struct_literal", "function_call",
                   "method_call", "directive", "kind", "identifier", "signature",
                   "signature_contains", "result", "last_result", "param", "pattern",
                   "placement"}
KeptInWhere == {"file", "all-of", "one-of", "not"}

Modifiers == {"inject_hooks", "inject_code", "add_struct_fields", "add_file",
              "wrap_call", "expand_directive", "assign_value", "set_fields"}

\* One flat rule per item of do, with the keys of the entry, the point selectors
\* hoisted out of where and the keys of the item's payload.  An entry with neither
\* where nor do is a flat rule already.
Normalize(e) ==
    IF ~e.structured THEN <<[name |-> e.name, fields |-> e.top]>>
    ELSE [i \in DOMAIN e.do |->
        [name |-> e.name, fields |->
            e.top \cup (e.where \cap PointSelectors) \cup e.do[i].payload]]

\* target and version are top-level, unknown keys and an empty do are errors.
NormalizeErrors(e) == e.structured /\
    \/ ~(e.where \subseteq PointSelectors \cup KeptInWhere)
    \/ e.do = <<>>
    \/ \E i \in DOMAIN e.do : e.do[i].modifier \notin Modifiers

\* The constructor is chosen by the keys, in this order, not by the modifier.
KindOf(fields) ==
    IF "struct" \in fields THEN "struct"
    ELSE IF "file" \in fields THEN "file"
    ELSE IF "directive" \in fields THEN "directive"
    ELSE IF "raw" \in fields THEN "raw"
    ELSE IF "func" \in fields THEN "func"
    ELSE IF {"function_call", "method_call"} \cap fields # {} THEN "call"
    ELSE IF "struct_literal" \in fields THEN "lit"
    ELSE IF "identifier" \in fields THEN "decl"
    ELSE "none"

\* The keys the validate method of each rule type asks for.
Validates(fields) ==
    LET k == KindOf(fields)
    IN  /\ k # "none" /\ "target" \in fields
        /\ k = "file" => "path" \in fields
        /\ k = "directive" => "template" \in fields
        /\ k = "func" => {"before", "after"} \cap fields # {} /\ "path" \in fields
        /\ k = "call" => /\ ~({"function_call", "method_call"} \subseteq fields)
                         /\ {"replace", "append_args"} \cap fields # {}
        /\ k = "lit" => "field" \in fields
        /\ k = "decl" => Cardinality({"replace", "wrap"} \cap fields) = 1

EntryErrors(e) == \/ NormalizeErrors(e)
                  \/ \E i \in DOMAIN Normalize(e) : ~Validates(Normalize(e)[i].fields)

\* A file without a version is one of LegacyVersion = 1; a development build
\* reads every file.
CheckVersion(f) == Current = 0 \/ Current >= RuleFile[f].version

FileErrors(f) == \/ ~CheckVersion(f)
                 \/ \E i \in DOMAIN RuleFile[f].entries : EntryErrors(RuleFile[f].entries[i])

\* The rules of a file, by entry name.  No entry has a name: at its top level, which
\* its rules would go by instead.
Grouped(f) ==
    LET entries == RuleFile[f].entries
        Entry(n) == CHOOSE i \in DOMAIN entries : entries[i].name = n
    IN  [n \in {entries[i].name : i \in DOMAIN entries} |->
            [k \in DOMAIN Normalize(entries[Entry(n)]) |->
                [file |-> f, kind |-> KindOf(Normalize(entries[Entry(n)])[k].fields)]]]

-----------------------------------------------------------------------------

\* The environment goes before the flag, the flag before the tool files.
LoadInit ==
    /\ source \in {"environment", "config", "tools"}
    /\ remaining \in (IF source = "tools" THEN ToolLists ELSE CustomLists)
    /\ loaded = <<>> /\ ruleOf = [n \in {} |-> <<>>] /\ loadStage = "loading"

\* Mutant: a file that was read before is not applied again.
OverrideOnce(f) ==
    IF f \in Range(loaded) THEN ruleOf
    ELSE [n \in DOMAIN ruleOf \cup DOMAIN Grouped(f) |->
            IF n \in DOMAIN Grouped(f) THEN Grouped(f)[n] ELSE ruleOf[n]]

\* A custom file replaces what earlier files say of its names, each time it is
\* in the list, though it is read only once.
Override(f) ==
    [n \in DOMAIN ruleOf \cup DOMAIN Grouped(f) |->
        IF n \in DOMAIN Grouped(f) THEN Grouped(f)[n] ELSE ruleOf[n]]

\* The tool files' rules add up; a file that was read is passed over.
AddUp(f) ==
    IF f \in Range(loaded) THEN ruleOf
    ELSE [n \in DOMAIN ruleOf \cup DOMAIN Grouped(f) |->
            (IF n \in DOMAIN ruleOf THEN ruleOf[n] ELSE <<>>)
            \o (IF n \in DOMAIN Grouped(f) THEN Grouped(f)[n] ELSE <<>>)]

LoadFile ==
    /\ loadStage = "loading" /\ remaining # <<>>
    /\ LET f == Head(remaining)
       IN  /\ ~FileErrors(f)
           /\ ruleOf' = IF source = "tools" THEN AddUp(f) ELSE Override(f)
           /\ loaded' = Append(loaded, f)
    /\ remaining' = Tail(remaining)
    /\ UNCHANGED <<source, loadStage>>

\* One file that does not parse, asks for a later otelc or holds a bad rule ends
\* setup: no rule of the others is used.
LoadFails ==
    /\ loadStage = "loading" /\ remaining # <<>> /\ FileErrors(Head(remaining))
    /\ loadStage' = "failed" /\ ruleOf' = [n \in {} |-> <<>>]
    /\ UNCHANGED <<source, remaining, loaded>>

LoadDone ==
    /\ loadStage = "loading" /\ remaining = <<>>
    /\ loadStage' = "done"
    /\ UNCHANGED <<source, remaining, loaded, ruleOf>>

LoadNext == LoadFile \/ LoadFails \/ LoadDone

LoadSpec == LoadInit /\ [][LoadNext]_fileVars

-----------------------------------------------------------------------------

\* Names(f) are the entry names of file f.
Names(f) == {RuleFile[f].entries[i].name : i \in DOMAIN RuleFile[f].entries}

\* The rules of f are there once, side by side and in their order: the group.
HoldsOnce(rules, f, group) ==
    \E before \in 0..(Len(rules) - Len(group)) : \A m \in DOMAIN rules :
      IF m - before \in DOMAIN group THEN rules[m] = group[m - before] ELSE rules[m].file # f

\* "When two files define the same name, the last file in the list wins, and its
\* group replaces the earlier group as a unit", a file that is listed again
\* included (setup/match.go, loadCustomRules); of the tool files each rule is
\* there once, however many imports lead to its file.  No name is lost.
FilesApplyAsListed ==
    loadStage = "done" =>
      /\ DOMAIN ruleOf = UNION {Names(loaded[k]) : k \in DOMAIN loaded}
      /\ \A k \in DOMAIN loaded : \A n \in Names(loaded[k]) :
           IF source = "tools" THEN HoldsOnce(ruleOf[n], loaded[k], Grouped(loaded[k])[n])
           ELSE (\A j \in (k + 1)..Len(loaded) : n \notin Names(loaded[j]))
                   => ruleOf[n] = Grouped(loaded[k])[n]
=============================================================================
