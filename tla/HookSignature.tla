--------------------------- MODULE HookSignature ---------------------------
(***************************************************************************)
(* tool/internal/instrument: fitting a hook to the function it is for.     *)
(*                                                                         *)
(* The tool reads source, not types: it compares the parameters of a hook  *)
(* with those of the target by their names, declares the hook in the       *)
(* target's package with the target's types and links it by name, names    *)
(* every parameter and result of the target that has no usable name, and   *)
(* repeats the constraints of the target's type parameters in the names    *)
(* that the receiver gives them.  Each is a function of its input; a       *)
(* behaviour picks an input and computes the answer.                       *)
(***************************************************************************)
EXTENDS Integers, Sequences, FiniteSets

CONSTANTS
  Signatures,     \* pairs of a target's parameter types and a hook's
  Declarations,   \* parameter and result names of a target
  Receivers       \* generic types with the names a receiver gives their parameters

VARIABLES fitting   \* what is computed, from which input, with which answer

\* Type expressions.
Named(pkg, name) == [kind |-> "name", pkg |-> pkg, name |-> name]
Ptr(t) == [kind |-> "ptr", of |-> t]
Slice(t) == [kind |-> "slice", of |-> t]
Variadic(t) == [kind |-> "variadic", of |-> t]
AnyType == [kind |-> "any"]

IsComposite(t) == t.kind \in {"ptr", "slice", "variadic"}
-----------------------------------------------------------------------------
(* The signature of a hook                                                 *)

\* baseTypeName: package qualifiers and pointers, at any depth, are dropped.
RECURSIVE BaseType(_)
BaseType(t) ==
  CASE t.kind = "any" -> AnyType
    [] t.kind = "name" -> Named("", t.name)
    [] t.kind = "ptr" -> BaseType(t.of)
    [] OTHER -> [t EXCEPT !.of = BaseType(@)]

Listy(t) == t.kind \in {"slice", "variadic"}

\* A slice and a variadic parameter match, and ...any matches any of them.
MatchBaseType(tramp, hook) ==
  \/ hook = AnyType
  \/ tramp = hook
  \/ Listy(tramp) /\ Listy(hook) /\ (tramp.of = hook.of \/ hook.of = AnyType)

RECURSIVE ContainsTypeParameter(_, _)
ContainsTypeParameter(t, typeParams) ==
  \/ t.kind = "name" /\ t.pkg = "" /\ t.name \in typeParams
  \/ IsComposite(t) /\ ContainsTypeParameter(t.of, typeParams)

\* A variadic parameter is a slice inside the function.
Desugar(t) == IF t.kind = "variadic" THEN Slice(t.of) ELSE t

\* The Before trampoline takes the address of every argument.
TrampolineParams(target) == [i \in 1..Len(target.params) |-> Ptr(Desugar(target.params[i]))]

CheckHookDecl(target, hook) ==
  /\ Len(hook) = Len(target.params)
  /\ \A i \in 1..Len(hook) :
       MatchBaseType(BaseType(TrampolineParams(target)[i]), BaseType(hook[i]))

\* The type parameter i has in the declaration that is linked to the hook.
Declared(target, hook, i) ==
  IF hook[i] = AnyType \/ ContainsTypeParameter(target.params[i], target.typeParams)
  THEN AnyType ELSE target.params[i]

\* Mutant: also a list of type parameters is spread.
SpreadsAll(target, i) == target.params[i].kind = "variadic"

\* The trampoline passes *param, and *param... for a variadic parameter.
Spreads(target, i) ==
  /\ target.params[i].kind = "variadic"
  /\ ~ContainsTypeParameter(target.params[i], target.typeParams)

\* The Go compiler on that call: an argument is spread iff the parameter is
\* variadic, and has the type of the parameter or becomes an interface value.
CallCompiles(target, hook) ==
  \A i \in 1..Len(hook) :
    LET d == Declared(target, hook, i)
    IN /\ Spreads(target, i) <=> d.kind = "variadic"
       /\ d = AnyType \/ Desugar(d) = Desugar(target.params[i])

\* go:linkname joins the declaration to the hook without looking at either.
SeesArguments(target, hook) ==
  \A i \in 1..Len(hook) : Desugar(Declared(target, hook, i)) = Desugar(hook[i])

\* The hook that repeats the target's types, `any` where they are generic.
ExactHook(target) ==
  [i \in 1..Len(target.params) |->
     IF ContainsTypeParameter(target.params[i], target.typeParams) THEN AnyType ELSE target.params[i]]

Verdict(s) ==
  [accepted |-> CheckHookDecl(s.target, s.hook),
   compiles |-> Len(s.hook) = Len(s.target.params) /\ CallCompiles(s.target, s.hook),
   sees |-> Len(s.hook) = Len(s.target.params) /\ SeesArguments(s.target, s.hook)]
-----------------------------------------------------------------------------
(* The names of a target                                                   *)

Blank == "_"
Unnamed == ""
Synthetic(prefix, rule, n) == <<prefix, rule, n>>
Written(name) == <<name>>       \* a name the programmer wrote
Usable(id) == id \notin {Written(Blank), Written(Unnamed)}

\* Mutant: a taken name is handed out again.
NextAny(taken, prefix, rule, n) == n

\* The next number whose name is not taken in this function.
NextFree(taken, prefix, rule, n) ==
  CHOOSE m \in n..(n + Cardinality(taken)) :
    /\ Synthetic(prefix, rule, m) \notin taken
    /\ \A k \in n..(m - 1) : Synthetic(prefix, rule, k) \in taken

\* Names in order of declaration; acc = [ids, taken, next].
RECURSIVE NameAll(_, _, _, _)
NameAll(ids, i, rule, acc) ==
  IF i > Len(ids) THEN acc.ids
  ELSE IF Usable(ids[i].id) THEN NameAll(ids, i + 1, rule, [acc EXCEPT !.ids = Append(@, ids[i])])
  ELSE LET n == NextFree(acc.taken, ids[i].prefix, rule, acc.next)
           id == Synthetic(ids[i].prefix, rule, n)
       IN NameAll(ids, i + 1, rule,
                  [ids |-> Append(acc.ids, [ids[i] EXCEPT !.id = id]),
                   taken |-> acc.taken \cup {id}, next |-> n + 1])

Taken(decl) == {decl.results[i].id : i \in 1..Len(decl.results)}
               \cup {decl.args[i].id : i \in 1..Len(decl.args)}

\* collectReturnValues names the results, then collectArguments the receiver
\* and the parameters; each numbers its names from zero.
NameTarget(decl, rule) ==
  LET start(d) == [ids |-> <<>>, taken |-> Taken(d), next |-> 0]
      named == [decl EXCEPT !.results = NameAll(decl.results, 1, rule, start(decl))]
  IN [named EXCEPT !.args = NameAll(named.args, 1, rule, start(named))]

\* Every func rule of the target names what the ones before have left unnamed.
NameForRules(decl, rules) ==
  LET f[i \in 0..Len(rules)] == IF i = 0 THEN decl ELSE NameTarget(f[i - 1], rules[i])
  IN f[Len(rules)]
-----------------------------------------------------------------------------
(* The type parameters of a receiver                                       *)

\* A constraint is a list of identifiers: a "ref" may name a type parameter,
\* a "name" (a package, a selected symbol, a method or a field) does not.

\* receiverNameMap: what the receiver calls the declaration's parameters.
NameMap(declared, args) ==
  LET renamed == {j \in 1..Len(args) : j <= Len(declared) /\ declared[j] # args[j]}
  IN [n \in {declared[i] : i \in renamed} |-> args[CHOOSE i \in 1..Len(args) : declared[i] = n]]

\* Mutant: every identifier is renamed.
RenameBlindly(ident, map) ==
  IF ident.name \in DOMAIN map THEN [ident EXCEPT !.name = map[@]] ELSE ident

RemapIdent(ident, map) ==
  IF ident.is = "ref" /\ ident.name \in DOMAIN map THEN [ident EXCEPT !.name = map[@]] ELSE ident

AnyConstraint == <<[is |-> "name", name |-> "any"]>>

\* A declaration in another file of the package is not found: any.
ReceiverTypeParams(g) ==
  [i \in 1..Len(g.args) |->
     [name |-> g.args[i],
      constraint |->
        IF ~g.sameFile THEN AnyConstraint
        ELSE [k \in 1..Len(g.constraints[i]) |->
                RemapIdent(g.constraints[i][k], NameMap(g.declared, g.args))]]]
-----------------------------------------------------------------------------
SignatureInit ==
  fitting \in [of : {"signature"}, input : Signatures, answer : {"none"}]
         \cup [of : {"names"}, input : Declarations, answer : {"none"}]
         \cup [of : {"receiver"}, input : Receivers, answer : {"none"}]

Fit(what, answer) ==
  /\ fitting.of = what /\ fitting.answer = "none"
  /\ fitting' = [fitting EXCEPT !.of = what \o " done", !.answer = answer]

FitSignature == Fit("signature", Verdict(fitting.input))
FitNames == Fit("names", NameForRules(fitting.input.decl, fitting.input.rules))
FitReceiver == Fit("receiver", ReceiverTypeParams(fitting.input))

SignatureNext == FitSignature \/ FitNames \/ FitReceiver
-----------------------------------------------------------------------------
ExactHooksFit ==
  fitting.of = "signature done" /\ fitting.input.hook = ExactHook(fitting.input.target) =>
    fitting.answer.accepted /\ fitting.answer.compiles /\ fitting.answer.sees

NamesFit ==
  fitting.of = "names done" =>
    LET before == fitting.input.decl.results \o fitting.input.decl.args
        after == fitting.answer.results \o fitting.answer.args
    IN /\ \A i \in 1..Len(after) : Usable(after[i].id)
       /\ \A i, j \in 1..Len(after) : after[i].id = after[j].id => i = j
       /\ \A i \in 1..Len(before) : Usable(before[i].id) => after[i].id = before[i].id

ConstraintsFit ==
  fitting.of = "receiver done" /\ fitting.input.sameFile =>
    LET g == fitting.input
        position(names, n) == {i \in 1..Len(names) : names[i] = n}
    IN \A i \in 1..Len(g.args) : \A k \in 1..Len(g.constraints[i]) :
         LET was == g.constraints[i][k]
             is == fitting.answer[i].constraint[k]
         IN IF was.is = "ref" /\ position(g.declared, was.name) # {}
            THEN position(g.declared, was.name) \subseteq position(g.args, is.name)
            ELSE is = was

\* The code the trampolines add compiles and sees its target.  A hook that repeats
\* the types of its target is accepted, the call of it compiles, and it sees the
\* arguments, also of variadic and generic targets (checkHookDecl, desugarType).
\* However many rules name a target, its receiver, parameters and results end up
\* with distinct names whose address can be taken, and keep the names its body
\* uses (collectArguments, collectReturnValues).  A constraint that mentions a
\* type parameter mentions the same one, by the name the receiver gives it, and
\* whatever else it mentions is unchanged (extractReceiverTypeParams).
FitsTarget == ExactHooksFit /\ NamesFit /\ ConstraintsFit
=============================================================================
