------------------------ MODULE ImportTrackingProofs ------------------------
(***************************************************************************)
(* Proofs about ImportTracking for every set of packages, every import     *)
(* graph go accepts, every rules and any number of builds over one cache:  *)
(* what is linked was compiled with the rules of the build, a build that   *)
(* starts from an empty cache links all that its packages need, and builds *)
(* fail for cycles of imports and for nothing else.                        *)
(***************************************************************************)
EXTENDS ImportTracking, FiniteSetTheorems, SequenceTheorems, TLAPS

-----------------------------------------------------------------------------
(* Reachability.                                                           *)

LEMMA ReachSelf ==
  ASSUME NEW e, NEW p \in Packages
  PROVE  p \in Reach(e, p)
  BY DEF Reach

LEMMA ReachClosed ==
  ASSUME NEW e, \A x \in Packages : e[x] \subseteq Packages,
         NEW p \in Packages, NEW q \in Reach(e, p)
  PROVE  e[q] \subseteq Reach(e, p)
  BY DEF Reach

LEMMA ReachLeast ==
  ASSUME NEW e, NEW p \in Packages, NEW S \in SUBSET Packages,
         p \in S, \A x \in S : e[x] \subseteq S
  PROVE  Reach(e, p) \subseteq S
  BY DEF Reach

LEMMA ReachOn ==
  ASSUME NEW e, \A x \in Packages : e[x] \subseteq Packages,
         NEW p \in Packages, NEW q \in Reach(e, p)
  PROVE  Reach(e, q) \subseteq Reach(e, p)
  <1>1. Reach(e, p) \in SUBSET Packages /\ q \in Packages
    BY DEF Reach
  <1>2. \A x \in Reach(e, p) : e[x] \subseteq Reach(e, p)
    BY ReachClosed
  <1> QED BY <1>1, <1>2, ReachLeast

LEMMA PackageFacts ==
  /\ Mains \subseteq Packages /\ Plain \notin Rules
  /\ \A p \in Packages : Imports[p] \subseteq Packages
  /\ \A r \in Rules : \A p \in Packages : Adds[r][p] \subseteq Packages
  <1>1. /\ Mains \subseteq Packages /\ Plain \notin Rules
        /\ Imports \in [Packages -> SUBSET Packages]
        /\ Adds \in [Rules -> [Packages -> SUBSET Packages]]
    BY ImportTrackingAssumption, Zenon
  <1> QED BY <1>1

LEMMA ClosureFacts ==
  ASSUME NEW p \in Packages
  PROVE  /\ p \in Closure[p] /\ Closure[p] \subseteq Packages
         /\ \A q \in Closure[p] : Imports[q] \subseteq Closure[p] /\ Closure[q] \subseteq Closure[p]
  <1>1. \A x \in Packages : Imports[x] \subseteq Packages
    BY ImportTrackingAssumption
  <1>2. \A x \in Packages : Closure[x] = Reach(Imports, x)
    BY DEF Closure
  <1>3. Reach(Imports, p) \subseteq Packages
    BY DEF Reach
  <1> QED BY <1>1, <1>2, <1>3, ReachSelf, ReachClosed, ReachOn

-----------------------------------------------------------------------------
(* The inductive invariant.                                                *)

CommandRecord == [built : SUBSET Archive, failed : SUBSET Packages]

CompileRecord ==
  [chain : Seq(Waits), pkg : Packages, by : Rules \cup {Plain}, cfg : SUBSET Archive,
   todo : SUBSET Packages, updated : BOOLEAN, stage : {"instrument", "tracking"}]

FileRecord == [chain : Seq(Waits), pkg : Packages, archives : SUBSET Archive]

CachedRecord == [pkg : Packages, by : Rules \cup {Plain}, key : Rules \cup {Plain}]

LinkRecord == [main : Mains, cfg : SUBSET Archive]

Shapes ==
  /\ phase \in {"idle", "building"} /\ count \in 0..MaxBuilds /\ matched \in Rules
  /\ cache \subseteq CachedRecord
  /\ \A c \in DOMAIN commands :
       c \in Seq(Waits) /\ Len(c) <= MaxChain /\ commands[c] \in CommandRecord
  /\ running \subseteq CompileRecord
  /\ files \subseteq FileRecord
  /\ linked \subseteq LinkRecord
  /\ cold \in BOOLEAN /\ lost \in BOOLEAN

\* The go commands and the compiles of a build form a tree: a nested command
\* has a compile that waits for it, a compile has the command that started it,
\* and neither has two of the same name.
ProcessTree ==
  /\ phase = "idle" => running = {} /\ DOMAIN commands = {} /\ linked = {}
  /\ phase = "building" => <<>> \in DOMAIN commands
  /\ \A c \in DOMAIN commands : c # <<>> => \E k \in running : Waiting(c, k)
  /\ \A k \in running :
       /\ k.chain \in DOMAIN commands /\ k.pkg \in Wanted(k.chain)
       /\ k.stage = "tracking" => Nested(k) = {}
       /\ \A c \in DOMAIN commands : \A d \in DOMAIN commands :
            Waiting(c, k) /\ Waiting(d, k) => c = d
       /\ \A l \in running : l.chain = k.chain /\ l.pkg = k.pkg => l = k
  /\ \A c \in DOMAIN commands : Names(commands[c].built) \subseteq Wanted(c)

\* The packages in the cache under the key of some rules.
Stored(r) == {a.pkg : a \in {b \in cache : b.key = r}}

EdgesOf(r, p) == Imports[p] \cup Adds[r][p]

\* An archive enters the cache after all that its package imports or was given:
\* under no key the cache holds a cycle of packages.
CacheAcyclic ==
  /\ \A a \in cache : a.key # Plain =>
       a.by = a.key /\ EdgesOf(a.key, a.pkg) \subseteq Stored(a.key)
  /\ \A r \in Rules : \A S \in SUBSET Stored(r) :
       S # {} => \E p \in S : EdgesOf(r, p) \cap S = {}

\* The archives are in the cache, under the key of this build's rules.
Current(archives) ==
  \A a \in archives : [pkg |-> a.pkg, by |-> a.by, key |-> matched] \in cache

AllCurrent ==
  /\ \A c \in DOMAIN commands : Current(commands[c].built)
  /\ \A k \in running : Current(k.cfg)
  /\ \A f \in files : Current(f.archives)
  /\ \A l \in linked : Current(l.cfg) /\ l.main \in Names(l.cfg)

\* What a compile has still to add, and that what it has added is complete: all
\* that an added package imports came with it.
Compiling ==
  \A k \in running :
    /\ k.by = matched /\ Imports[k.pkg] \subseteq Names(k.cfg)
    /\ k.todo \subseteq Adds[matched][k.pkg] /\ k.todo \cap Names(k.cfg) = {}
    /\ \A q \in Adds[matched][k.pkg] :
         q \in Imports[k.pkg] \cup k.todo \/ Closure[q] \subseteq Names(k.cfg)

OwnFile(f, k) == f.chain = k.chain /\ f.pkg = k.pkg

\* The archives have what the rules added to p, and all that it imports.
Covers(archives, p) ==
  \A q \in Adds[matched][p] : q \in Imports[p] \/ Closure[q] \subseteq Names(archives)

\* A compile that has updated its importcfg has a file that says the same before
\* it ends; and once its archive is in the cache no process has that file's name.
FilesTell ==
  /\ ~lost => \A k \in running :
       /\ k.stage = "tracking" => \E f \in files : OwnFile(f, k)
       /\ k.stage = "instrument" /\ ~k.updated =>
            \/ \A q \in Adds[matched][k.pkg] : q \in Imports[k.pkg] \cup k.todo
            \/ \E f \in files : OwnFile(f, k) /\ f.archives = k.cfg
  /\ cold /\ ~lost => \A a \in cache : a.key = matched =>
       \/ \A q \in Adds[matched][a.pkg] : q \in Imports[a.pkg]
       \/ \E f \in files : /\ f.pkg = a.pkg /\ Covers(f.archives, a.pkg)
                           /\ \A k \in running : ~OwnFile(f, k)

\* A chain follows added imports and, below each, imports.
Follows(c) ==
  \A i \in 1..Len(c) :
    /\ c[i].added \in Adds[matched][c[i].pkg]
    /\ i > 1 => c[i].pkg \in Closure[c[i - 1].added]

Chains == \A c \in DOMAIN commands : Follows(c)

ImportInv ==
  /\ Shapes /\ ProcessTree /\ CacheAcyclic /\ AllCurrent /\ Compiling
  /\ FilesTell /\ Chains /\ ColdLinkComplete

-----------------------------------------------------------------------------
(* Chains.                                                                 *)

LEMMA WaitingNames ==
  ASSUME NEW c \in Seq(Waits), NEW k \in CompileRecord, NEW l \in CompileRecord,
         Waiting(c, k), Waiting(c, l)
  PROVE  k.chain = l.chain /\ k.pkg = l.pkg
  <1>1. k.chain \in Seq(Waits) /\ l.chain \in Seq(Waits)
    BY DEF CompileRecord
  <1>2. Len(k.chain) = Len(l.chain)
    BY <1>1 DEF Waiting
  <1> QED BY <1>2 DEF Waiting

LEMMA AppendWaits ==
  ASSUME NEW k \in CompileRecord, NEW q \in Packages
  PROVE  LET c == NestedChain(k, q) IN
         /\ c \in Seq(Waits) /\ Len(c) = Len(k.chain) + 1 /\ Len(k.chain) \in Nat
         /\ c # <<>> /\ Waiting(c, k)
         /\ c[Len(c)].pkg = k.pkg /\ c[Len(c)].added = q
         /\ \A i \in 1..Len(k.chain) : c[i] = k.chain[i]
  <1> DEFINE w == [pkg |-> k.pkg, added |-> q]
             c == NestedChain(k, q)
  <1>0. c = Append(k.chain, w)
    BY DEF NestedChain
  <1>1. k.chain \in Seq(Waits) /\ Len(k.chain) \in Nat /\ k.pkg \in Packages
    BY DEF CompileRecord
  <1>2. w \in Waits /\ w.pkg = k.pkg /\ w.added = q
    BY <1>1 DEF Waits
  <1> HIDE DEF w, c
  <1>3. /\ c \in Seq(Waits) /\ c # <<>> /\ Len(c) = Len(k.chain) + 1
        /\ \A i \in 1..Len(k.chain) : c[i] = k.chain[i]
        /\ c[Len(k.chain) + 1] = w
    BY <1>0, <1>1, <1>2, AppendProperties
  <1>4. SubSeq(c, 1, Len(k.chain)) = k.chain
    <2>1. \A i \in 1..Len(k.chain) : c[i] \in Waits
      BY <1>1, <1>3, ElementOfSeq
    <2>2. /\ SubSeq(c, 1, Len(k.chain)) \in Seq(Waits)
          /\ Len(SubSeq(c, 1, Len(k.chain))) = Len(k.chain)
          /\ \A i \in 1..Len(k.chain) : SubSeq(c, 1, Len(k.chain))[i] = c[i]
      BY <1>1, <2>1, SubSeqProperties
    <2> QED BY <1>1, <1>3, <2>2, SeqEqual
  <1> QED BY <1>1, <1>2, <1>3, <1>4 DEF Waiting, c

LEMMA ImportsStart == Init => ImportInv
  <1> SUFFICES ASSUME Init PROVE ImportInv
    OBVIOUS
  <1> USE DEF Init
  <1>1. DOMAIN commands = {}
    OBVIOUS
  <1>2. Shapes
    <2>0. MaxBuilds \in Nat
      BY ImportTrackingAssumption, Zenon
    <2>1. count \in 0..MaxBuilds
      BY <2>0
    <2> QED BY <1>1, <2>1 DEF Shapes
  <1>3. ProcessTree
    BY <1>1 DEF ProcessTree
  <1>4. CacheAcyclic
    BY DEF CacheAcyclic, Stored
  <1>5. AllCurrent /\ Compiling /\ FilesTell /\ Chains
    BY <1>1 DEF AllCurrent, Compiling, FilesTell, Chains, Follows
  <1>6. ColdLinkComplete
    BY DEF ColdLinkComplete, LinkComplete
  <1> QED BY <1>2, <1>3, <1>4, <1>5, <1>6 DEF ImportInv

-----------------------------------------------------------------------------
(* The process tree.                                                       *)

\* A compile goes on, and a command it waited for may end.
LEMMA TreeGoesOn ==
  ASSUME Shapes, ProcessTree, NEW k \in running, NEW l \in CompileRecord,
         l.chain = k.chain, l.pkg = k.pkg, running' = (running \ {k}) \cup {l},
         UNCHANGED phase, linked' = linked,
         DOMAIN commands' \subseteq DOMAIN commands,
         \A c \in DOMAIN commands' : commands'[c] = commands[c],
         \A c \in DOMAIN commands \ DOMAIN commands' :
           Waiting(c, k) /\ \A m \in running : m.chain # c,
         l.stage = "tracking" => Nested(k) = {}
  PROVE  ProcessTree'
  <1>1. k \in CompileRecord /\ running \subseteq CompileRecord
    BY DEF Shapes
  <1>2. \A c : Waiting(c, l) <=> Waiting(c, k)
    BY DEF Waiting
  <1>3. ASSUME NEW m \in running'
        PROVE  \E n \in running : m.chain = n.chain /\ m.pkg = n.pkg /\ (m # l => m = n)
    BY <1>3
  <1>4. phase' = "idle" => running' = {} /\ DOMAIN commands' = {} /\ linked' = {}
    BY DEF ProcessTree
  <1>5. phase' = "building" => <<>> \in DOMAIN commands'
    <2>1. ~Waiting(<<>>, k)
      <3>1. Len(k.chain) \in Nat
        BY <1>1 DEF CompileRecord
      <3> QED BY <3>1 DEF Waiting
    <2> QED BY <2>1 DEF ProcessTree
  <1>6. ASSUME NEW c \in DOMAIN commands', c # <<>>
        PROVE  \E m \in running' : Waiting(c, m)
    <2>1. PICK m \in running : Waiting(c, m)
      BY <1>6 DEF ProcessTree
    <2>2. CASE m = k
      BY <1>2, <2>1, <2>2
    <2>3. CASE m # k
      BY <2>1, <2>3
    <2> QED BY <2>2, <2>3
  <1>7. ASSUME NEW m \in running'
        PROVE  /\ m.chain \in DOMAIN commands' /\ m.pkg \in Wanted(m.chain)
               /\ \A c \in DOMAIN commands' : \A d \in DOMAIN commands' :
                    Waiting(c, m) /\ Waiting(d, m) => c = d
               /\ \A n \in running' : n.chain = m.chain /\ n.pkg = m.pkg => n = m
    <2>1. PICK n \in running : m.chain = n.chain /\ m.pkg = n.pkg /\ (m # l => m = n)
      BY <1>3
    <2>2. m.chain \in DOMAIN commands' /\ m.pkg \in Wanted(m.chain)
      BY <2>1 DEF ProcessTree
    <2>3. \A c : Waiting(c, m) <=> Waiting(c, n)
      BY <2>1 DEF Waiting
    <2>4. ASSUME NEW o \in running', o.chain = m.chain, o.pkg = m.pkg
          PROVE  o = m
      <3>1. PICK r \in running : o.chain = r.chain /\ o.pkg = r.pkg /\ (o # l => o = r)
        BY <1>3
      <3>2. r = n
        <4>1. \A x \in running : \A y \in running :
                x.chain = y.chain /\ x.pkg = y.pkg => x = y
          BY Zenon DEF ProcessTree
        <4> QED BY <2>1, <2>4, <3>1, <4>1
      <3>3. l \notin running \/ l = k
        BY DEF ProcessTree
      <3>4. CASE r = k
        BY <2>1, <2>4, <3>1, <3>2, <3>3, <3>4
      <3>5. CASE r # k
        <4>1. o # l /\ m # l
          BY <2>1, <2>4, <3>1, <3>2, <3>5 DEF ProcessTree
        <4> QED BY <2>1, <3>1, <3>2, <4>1
      <3> QED BY <3>4, <3>5
    <2> QED BY <2>2, <2>3, <2>4 DEF ProcessTree
  <1>8. ASSUME NEW m \in running', m.stage = "tracking"
        PROVE  Nested(m)' = {}
    <2>1. CASE m = l
      BY <1>2, <1>8, <2>1 DEF Nested
    <2>2. CASE m # l
      BY <1>8, <2>2 DEF Nested, ProcessTree
    <2> QED BY <2>1, <2>2
  <1>9. \A c \in DOMAIN commands' : Names(commands'[c].built) \subseteq Wanted(c)
    BY DEF ProcessTree
  <1> QED BY <1>4, <1>5, <1>6, <1>7, <1>8, <1>9 DEF ProcessTree, Wanted

\* A compile ends, and no command waits for it.
LEMMA TreeLoses ==
  ASSUME Shapes, ProcessTree, NEW k \in running, running' = running \ {k},
         UNCHANGED phase, linked' = linked,
         DOMAIN commands' = DOMAIN commands \ Nested(k),
         \A c \in DOMAIN commands' : Names(commands'[c].built) \subseteq Wanted(c),
         \A c \in Nested(k) : \A m \in running : m.chain # c
  PROVE  ProcessTree'
  <1>1. k \in CompileRecord
    BY DEF Shapes
  <1>2. phase' = "idle" => running' = {} /\ DOMAIN commands' = {} /\ linked' = {}
    BY DEF ProcessTree
  <1>3. phase' = "building" => <<>> \in DOMAIN commands'
    <2>1. ~Waiting(<<>>, k)
      <3>1. Len(k.chain) \in Nat
        BY <1>1 DEF CompileRecord
      <3> QED BY <3>1 DEF Waiting
    <2> QED BY <2>1 DEF ProcessTree, Nested
  <1>4. ASSUME NEW c \in DOMAIN commands', c # <<>>
        PROVE  \E m \in running' : Waiting(c, m)
    <2>1. PICK m \in running : Waiting(c, m)
      BY <1>4 DEF ProcessTree
    <2>2. m # k
      BY <1>4, <2>1 DEF Nested
    <2> QED BY <2>1, <2>2
  <1>5. ASSUME NEW m \in running'
        PROVE  /\ m.chain \in DOMAIN commands' /\ m.pkg \in Wanted(m.chain)
               /\ m.stage = "tracking" => Nested(m)' = {}
               /\ \A c \in DOMAIN commands' : \A d \in DOMAIN commands' :
                    Waiting(c, m) /\ Waiting(d, m) => c = d
               /\ \A n \in running' : n.chain = m.chain /\ n.pkg = m.pkg => n = m
    <2>1. m.chain \in DOMAIN commands'
      BY <1>5 DEF ProcessTree
    <2>2. m.stage = "tracking" => Nested(m)' = {}
      BY <1>5 DEF ProcessTree, Nested
    <2> QED BY <2>1, <2>2 DEF ProcessTree
  <1> QED BY <1>2, <1>3, <1>4, <1>5 DEF ProcessTree, Wanted

\* When the outer go command has nothing left to do, no process is left: a
\* nested one would wait, over ever shorter chains, for one of the outer command's.
LEMMA NothingRuns ==
  ASSUME Shapes, ProcessTree, Finished(<<>>)
  PROVE  running = {}
  <1> SUFFICES ASSUME running # {} PROVE FALSE
    OBVIOUS
  <1> DEFINE depths == {Len(k.chain) : k \in running}
  <1>1. \A k \in running : k.chain \in Seq(Waits) /\ Len(k.chain) \in Nat
    BY DEF Shapes, CompileRecord
  <1>2. depths \in SUBSET Nat /\ depths # {}
    BY <1>1
  <1>3. PICK n \in depths : \A j \in depths : n <= j
    <2> HIDE DEF depths
    <2>1. \E i \in depths : \A j \in depths : <<j, i>> \notin OpToRel(<, Nat)
      BY <1>2, NatLessThanWellFounded, WFMin
    <2>2. PICK i \in depths : \A j \in depths : <<j, i>> \notin OpToRel(<, Nat)
      BY <2>1
    <2>3. \A j \in depths : ~(j < i)
      BY <1>2, <2>2 DEF OpToRel
    <2> QED BY <1>2, <2>3
  <1>4. PICK k \in running : n = Len(k.chain)
    BY <1>3
  <1>5. k.chain # <<>>
    BY DEF Finished
  <1>6. PICK l \in running : Waiting(k.chain, l)
    BY <1>5 DEF ProcessTree
  <1>7. Len(k.chain) = Len(l.chain) + 1 /\ Len(l.chain) \in depths
    BY <1>6 DEF Waiting
  <1> QED BY <1>1, <1>3, <1>4, <1>7, SMTT(20)

-----------------------------------------------------------------------------
(* The cache.                                                              *)

LEMMA StoredUnder ==
  ASSUME NEW r
  PROVE  \A p : p \in Stored(r) <=> \E a \in cache : a.pkg = p /\ a.key = r
  BY DEF Stored

\* A package enters the cache after all that it imports or was given.
LEMMA CacheGrows ==
  ASSUME Shapes, CacheAcyclic, NEW p \in Packages, NEW r \in Rules,
         cache' = cache \cup {[pkg |-> p, by |-> r, key |-> r]},
         EdgesOf(r, p) \subseteq Stored(r)
  PROVE  CacheAcyclic'
  <1> DEFINE x == [pkg |-> p, by |-> r, key |-> r]
  <1>1. x.pkg = p /\ x.by = r /\ x.key = r /\ cache' = cache \cup {x}
    OBVIOUS
  <1> HIDE DEF x
  <1>2. \A s : Stored(s)' = IF s = r THEN Stored(s) \cup {p} ELSE Stored(s)
    BY <1>1 DEF Stored
  <1>3. ASSUME NEW a \in cache', a.key # Plain
        PROVE  a.by = a.key /\ EdgesOf(a.key, a.pkg) \subseteq Stored(a.key)'
    BY <1>1, <1>2, <1>3 DEF CacheAcyclic
  <1>4. ASSUME NEW s \in Rules, NEW S \in SUBSET Stored(s)', S # {}
        PROVE  \E y \in S : EdgesOf(s, y) \cap S = {}
    <2>1. CASE S \subseteq Stored(s)
      BY <1>4, <2>1 DEF CacheAcyclic
    <2>2. CASE ~(S \subseteq Stored(s))
      <3>1. s = r /\ p \in S /\ p \notin Stored(r) /\ S \ {p} \subseteq Stored(r)
        BY <1>2, <1>4, <2>2
      <3>2. CASE S \ {p} = {}
        BY <3>1, <3>2
      <3>3. CASE S \ {p} # {}
        <4>1. PICK y \in S \ {p} : EdgesOf(r, y) \cap (S \ {p}) = {}
          BY <3>1, <3>3 DEF CacheAcyclic
        <4>2. EdgesOf(r, y) \subseteq Stored(r)
          <5>1. PICK a \in cache : a.pkg = y /\ a.key = r
            BY <3>1, <4>1, StoredUnder
          <5>2. r # Plain
            BY ImportTrackingAssumption
          <5> QED BY <5>1, <5>2 DEF CacheAcyclic
        <4> QED BY <3>1, <4>1, <4>2
      <3> QED BY <3>2, <3>3
    <2> QED BY <2>1, <2>2
  <1> QED BY <1>3, <1>4 DEF CacheAcyclic, EdgesOf

-----------------------------------------------------------------------------
(* Builds begin and end.                                                   *)

LEMMA StartBuildKeeps ==
  ASSUME ImportInv, NEW rules \in Rules, NEW clean \in BOOLEAN, StartBuild(rules, clean)
  PROVE  ImportInv'
  <1>1. /\ phase = "idle" /\ phase' = "building" /\ count < MaxBuilds /\ count' = count + 1
        /\ matched' = rules /\ files' = {} /\ cache' = IF clean THEN {} ELSE cache
        /\ (cold' <=> cache' = {}) /\ cold' \in BOOLEAN /\ lost' = FALSE
        /\ commands' = [c \in {<<>>} |-> NewCommand]
        /\ running' = running /\ linked' = linked
    BY DEF StartBuild
  <1>2. Shapes /\ ProcessTree /\ CacheAcyclic
    BY DEF ImportInv
  <1>3. running' = {} /\ linked' = {}
    BY <1>1, <1>2 DEF ProcessTree
  <1>4. /\ DOMAIN commands' = {<<>>} /\ commands'[<<>>] = NewCommand
        /\ NewCommand \in CommandRecord /\ NewCommand.built = {}
    BY <1>1 DEF NewCommand, CommandRecord
  <1>5. Shapes'
    <2>1. count + 1 \in 0..MaxBuilds
      <3>1. MaxBuilds \in Nat
        BY ImportTrackingAssumption, Zenon
      <3> QED BY <1>1, <1>2, <3>1 DEF Shapes
    <2>2. <<>> \in Seq(Waits) /\ Len(<<>>) <= MaxChain
      <3>1. MaxChain \in Nat
        BY ImportTrackingAssumption, Zenon
      <3> QED BY <3>1, EmptySeq
    <2>3. cache' \subseteq CachedRecord
      BY <1>1, <1>2 DEF Shapes
    <2> QED BY <1>1, <1>3, <1>4, <2>1, <2>2, <2>3 DEF Shapes
  <1>6. ProcessTree'
    BY <1>1, <1>3, <1>4 DEF ProcessTree, Names
  <1>7. CacheAcyclic'
    <2>1. CASE clean
      BY <1>1, <2>1 DEF CacheAcyclic, Stored
    <2>2. CASE ~clean
      BY <1>1, <1>2, <2>2 DEF CacheAcyclic, Stored
    <2> QED BY <2>1, <2>2
  <1>8. AllCurrent' /\ Compiling'
    BY <1>1, <1>3, <1>4 DEF AllCurrent, Compiling, Current
  <1>9. FilesTell'
    BY <1>1, <1>3 DEF FilesTell
  <1>10. Chains'
    BY <1>4, EmptySeq DEF Chains, Follows
  <1>11. ColdLinkComplete'
    BY <1>3 DEF ColdLinkComplete, LinkComplete
  <1> QED BY <1>5, <1>6, <1>7, <1>8, <1>9, <1>10, <1>11 DEF ImportInv

LEMMA PlainBuildKeeps ==
  ASSUME ImportInv, PlainBuild
  PROVE  ImportInv'
  <1> DEFINE plain == {[pkg |-> p, by |-> Plain, key |-> Plain] : p \in Wanted(<<>>)}
  <1>1. /\ phase = "idle" /\ cache' = cache \cup plain
        /\ UNCHANGED <<phase, count, matched, cold, commands, running, files, linked, lost>>
    BY DEF PlainBuild
  <1>2. /\ Shapes /\ ProcessTree /\ CacheAcyclic /\ AllCurrent /\ Compiling /\ FilesTell /\ Chains
    BY DEF ImportInv
  <1>3. running = {} /\ DOMAIN commands = {} /\ linked = {} /\ matched \in Rules
    BY <1>1, <1>2 DEF ProcessTree, Shapes
  <1>4. plain \subseteq CachedRecord /\ \A a \in plain : a.key = Plain
    <2>1. Mains \subseteq Packages
      BY ImportTrackingAssumption
    <2>2. Wanted(<<>>) \subseteq Packages
      BY <2>1, ClosureFacts DEF Wanted
    <2> QED BY <2>2 DEF CachedRecord
  <1> HIDE DEF plain
  <1>5. Plain \notin Rules
    BY ImportTrackingAssumption
  <1>6. Shapes'
    BY <1>1, <1>2, <1>4 DEF Shapes
  <1>7. ProcessTree' /\ Compiling' /\ Chains'
    BY <1>1, <1>3 DEF ProcessTree, Compiling, Chains, Follows
  <1>8. \A r \in Rules : Stored(r)' = Stored(r)
    BY <1>1, <1>4, <1>5 DEF Stored
  <1>9. CacheAcyclic'
    <2>1. ASSUME NEW a \in cache', a.key # Plain
          PROVE  a.by = a.key /\ EdgesOf(a.key, a.pkg) \subseteq Stored(a.key)'
      <3>1. a \in cache /\ a.key \in Rules
        BY <1>1, <1>2, <1>4, <2>1 DEF Shapes, CachedRecord
      <3>2. a.by = a.key /\ EdgesOf(a.key, a.pkg) \subseteq Stored(a.key)
        BY <1>2, <2>1, <3>1 DEF CacheAcyclic
      <3>3. Stored(a.key)' = Stored(a.key)
        BY <1>8, <3>1
      <3> QED BY <3>2, <3>3
    <2> QED BY <1>2, <1>8, <2>1 DEF CacheAcyclic, EdgesOf
  <1>10. AllCurrent'
    BY <1>1, <1>2, <1>3 DEF AllCurrent, Current
  <1>11. FilesTell'
    <2>1. \A a \in cache' : a.key = matched => a \in cache
      BY <1>1, <1>3, <1>4, <1>5
    <2> QED BY <1>1, <1>2, <1>3, <2>1 DEF FilesTell, Covers, OwnFile
  <1>12. ColdLinkComplete'
    BY <1>1, <1>3 DEF ColdLinkComplete, LinkComplete
  <1> QED BY <1>6, <1>7, <1>9, <1>10, <1>11, <1>12 DEF ImportInv

LEMMA EndBuildKeeps ==
  ASSUME ImportInv, Finish \/ Kill
  PROVE  ImportInv'
  <1>1. /\ phase' = "idle" /\ commands' = <<>> /\ linked' = {}
        /\ UNCHANGED <<count, matched, cold, cache, files, lost>>
    BY DEF Finish, Kill
  <1>2. /\ Shapes /\ ProcessTree /\ CacheAcyclic /\ AllCurrent /\ Compiling /\ FilesTell /\ Chains
    BY DEF ImportInv
  <1>3. running' = {}
    BY <1>2, NothingRuns DEF Finish, Kill
  <1>4. DOMAIN commands' = {}
    BY <1>1
  <1>5. Shapes' /\ ProcessTree'
    BY <1>1, <1>2, <1>3, <1>4 DEF Shapes, ProcessTree
  <1>6. CacheAcyclic'
    BY <1>1, <1>2 DEF CacheAcyclic, Stored
  <1>7. AllCurrent' /\ Compiling' /\ Chains'
    BY <1>1, <1>2, <1>3, <1>4 DEF AllCurrent, Compiling, Chains, Follows, Current
  <1>8. FilesTell'
    BY <1>1, <1>2, <1>3 DEF FilesTell, Covers
  <1>9. ColdLinkComplete'
    BY <1>1 DEF ColdLinkComplete, LinkComplete
  <1> QED BY <1>5, <1>6, <1>7, <1>8, <1>9 DEF ImportInv

-----------------------------------------------------------------------------
(* The go commands start packages.                                         *)

LEMMA BuiltGrows ==
  ASSUME Shapes, NEW c \in DOMAIN commands, NEW x \in Archive,
         commands' = [commands EXCEPT ![c].built = @ \cup {x}]
  PROVE  /\ DOMAIN commands' = DOMAIN commands
         /\ \A d \in DOMAIN commands : d # c => commands'[d] = commands[d]
         /\ commands'[c].built = commands[c].built \cup {x}
         /\ commands'[c].failed = commands[c].failed
         /\ commands'[c] \in CommandRecord
  <1>1. commands[c] \in CommandRecord
    BY DEF Shapes
  <1>2. commands'[c] = [commands[c] EXCEPT !.built = @ \cup {x}]
    OBVIOUS
  <1>3. commands'[c] \in CommandRecord
    BY <1>1, <1>2 DEF CommandRecord
  <1> QED BY <1>1, <1>2, <1>3 DEF CommandRecord

LEMMA HitKeeps ==
  ASSUME ImportInv, NEW c \in DOMAIN commands, NEW p \in Packages, Hit(c, p)
  PROVE  ImportInv'
  <1>1. PICK a \in cache : /\ a.pkg = p /\ a.key = matched
                           /\ commands' = [commands EXCEPT ![c].built =
                                             @ \cup {[pkg |-> p, by |-> a.by]}]
    BY DEF Hit, ToolVersion
  <1>2. /\ p \in Wanted(c)
        /\ UNCHANGED <<phase, count, matched, cold, cache, running, files, linked, lost>>
    BY DEF Hit, Ready, build
  <1>3. /\ Shapes /\ ProcessTree /\ CacheAcyclic /\ AllCurrent /\ Compiling /\ FilesTell
        /\ Chains /\ ColdLinkComplete
    BY DEF ImportInv
  <1> DEFINE x == [pkg |-> p, by |-> a.by]
  <1>4. a \in CachedRecord
    BY <1>3 DEF Shapes
  <1>5. /\ x \in Archive /\ x.pkg = p
        /\ [pkg |-> x.pkg, by |-> x.by, key |-> matched] \in cache
    <2>1. [pkg |-> x.pkg, by |-> x.by, key |-> matched] = a
      BY <1>1, <1>4 DEF CachedRecord
    <2> QED BY <1>4, <2>1 DEF CachedRecord, Archive
  <1>6. commands' = [commands EXCEPT ![c].built = @ \cup {x}]
    BY <1>1
  <1> HIDE DEF x
  <1>7. /\ DOMAIN commands' = DOMAIN commands
        /\ \A d \in DOMAIN commands : d # c => commands'[d] = commands[d]
        /\ commands'[c].built = commands[c].built \cup {x}
        /\ commands'[c] \in CommandRecord
    BY <1>3, <1>5, <1>6, BuiltGrows
  <1>8. Shapes'
    BY <1>2, <1>3, <1>7 DEF Shapes
  <1>9. ProcessTree'
    <2>1. \A d \in DOMAIN commands' : Names(commands'[d].built) \subseteq Wanted(d)
      BY <1>2, <1>3, <1>5, <1>7 DEF ProcessTree, Names
    <2>2. \A k : Nested(k)' = Nested(k)
      BY <1>7 DEF Nested
    <2> QED BY <1>2, <1>3, <1>7, <2>1, <2>2 DEF ProcessTree, Wanted
  <1>10. CacheAcyclic' /\ Compiling' /\ FilesTell' /\ Chains'
    BY <1>2, <1>3, <1>7 DEF CacheAcyclic, Stored, EdgesOf, Compiling, FilesTell, Covers, Chains, Follows
  <1>11. AllCurrent'
    BY <1>2, <1>3, <1>5, <1>7 DEF AllCurrent, Current
  <1>12. ColdLinkComplete'
    BY <1>2, <1>3 DEF ColdLinkComplete, LinkComplete, ImportedBy
  <1> QED BY <1>8, <1>9, <1>10, <1>11, <1>12 DEF ImportInv

LEMMA StartCompileKeeps ==
  ASSUME ImportInv, NEW c \in DOMAIN commands, NEW p \in Packages, StartCompile(c, p)
  PROVE  ImportInv'
  <1> DEFINE imported == {a \in commands[c].built : a.pkg \in Imports[p]}
             added == Adds[matched][p] \ Imports[p]
             k == [chain |-> c, pkg |-> p, by |-> matched, cfg |-> imported, todo |-> added,
                   updated |-> FALSE, stage |-> "instrument"]
  <1>1. /\ Shapes /\ ProcessTree /\ CacheAcyclic /\ AllCurrent /\ Compiling /\ FilesTell
        /\ Chains /\ ColdLinkComplete
    BY DEF ImportInv
  <1>2. matched # Plain /\ Imports[p] \subseteq Packages /\ Adds[matched][p] \subseteq Packages
    BY <1>1, PackageFacts DEF Shapes
  <1>3. /\ running' = running \cup {k} /\ p \in Wanted(c)
        /\ Imports[p] \subseteq Names(commands[c].built)
        /\ \A m \in running : ~(m.chain = c /\ m.pkg = p)
        /\ \A a \in cache : ~(a.pkg = p /\ a.key = matched)
        /\ UNCHANGED <<phase, count, matched, cold, cache, commands, files, linked, lost>>
    BY <1>2 DEF StartCompile, Ready, build, ToolVersion, AppliedBy, Added
  <1>4. /\ k.chain = c /\ k.pkg = p /\ k.by = matched /\ k.cfg = imported /\ k.todo = added
        /\ k.updated = FALSE /\ k.stage = "instrument"
    OBVIOUS
  <1>5. c \in Seq(Waits) /\ imported \subseteq Archive /\ added \subseteq Packages
    BY <1>1, <1>2 DEF Shapes, CommandRecord
  <1>6. /\ Names(imported) = Imports[p] /\ Current(imported)
        /\ Current(commands[c].built)
    BY <1>1, <1>3 DEF Names, AllCurrent, Current
  <1>7. k \in CompileRecord
    BY <1>1, <1>5 DEF CompileRecord, Shapes
  <1>8. added \cap Imports[p] = {} /\ \A q \in Adds[matched][p] : q \in Imports[p] \cup added
    OBVIOUS
  <1> HIDE DEF k, imported, added
  <1>9. Shapes'
    BY <1>1, <1>3, <1>7 DEF Shapes
  <1>10. ProcessTree'
    <2>1. ASSUME NEW d \in DOMAIN commands, Waiting(d, k)
          PROVE  FALSE
      <3>1. d \in Seq(Waits) /\ Len(d) \in Nat /\ Len(c) \in Nat
        BY <1>1, <1>5 DEF Shapes
      <3>2. Len(d) = Len(c) + 1
        BY <1>4, <2>1 DEF Waiting
      <3>3. d # <<>>
        BY <3>1, <3>2, EmptySeq
      <3>4. PICK m \in running : Waiting(d, m)
        BY <1>1, <3>3 DEF ProcessTree
      <3>5. m.chain = c /\ m.pkg = p
        BY <1>1, <1>4, <1>7, <2>1, <3>1, <3>4, WaitingNames DEF Shapes
      <3> QED BY <1>3, <3>5
    <2>2. \A m : Nested(m)' = Nested(m)
      BY <1>3 DEF Nested
    <2>3. ASSUME NEW m \in running', NEW n \in running', m.chain = n.chain, m.pkg = n.pkg
          PROVE  m = n
      <3>1. \A x \in running : \A y \in running :
              x.chain = y.chain /\ x.pkg = y.pkg => x = y
        BY <1>1, Zenon DEF ProcessTree
      <3> QED BY <1>3, <1>4, <2>3, <3>1
    <2>4. ASSUME NEW m \in running'
          PROVE  /\ m.chain \in DOMAIN commands' /\ m.pkg \in Wanted(m.chain)
                 /\ m.stage = "tracking" => Nested(m)' = {}
                 /\ \A d \in DOMAIN commands' : \A e \in DOMAIN commands' :
                      Waiting(d, m) /\ Waiting(e, m) => d = e
      <3>1. CASE m = k
        BY <1>3, <1>4, <2>1, <3>1
      <3>2. CASE m # k
        BY <1>1, <1>3, <2>2, <3>2 DEF ProcessTree
      <3> QED BY <3>1, <3>2
    <2>5. phase = "building"
      BY <1>1 DEF ProcessTree, Shapes
    <2> QED BY <1>1, <1>3, <2>3, <2>4, <2>5 DEF ProcessTree, Wanted
  <1>11. CacheAcyclic' /\ Chains'
    BY <1>1, <1>3 DEF CacheAcyclic, Stored, EdgesOf, Chains, Follows
  <1>12. AllCurrent'
    BY <1>1, <1>3, <1>4, <1>6 DEF AllCurrent, Current
  <1>13. Compiling'
    <2>1. added \subseteq Adds[matched][p]
      BY DEF added
    <2> QED BY <1>1, <1>3, <1>4, <1>6, <1>8, <2>1 DEF Compiling
  <1>14. FilesTell'
    <2>1. ~lost => \A m \in running' :
            /\ m.stage = "tracking" => \E f \in files : OwnFile(f, m)
            /\ m.stage = "instrument" /\ ~m.updated =>
                 \/ \A q \in Adds[matched][m.pkg] : q \in Imports[m.pkg] \cup m.todo
                 \/ \E f \in files : OwnFile(f, m) /\ f.archives = m.cfg
      BY <1>1, <1>3, <1>4, <1>8 DEF FilesTell
    <2>2. cold /\ ~lost => \A a \in cache : a.key = matched =>
            \/ \A q \in Adds[matched][a.pkg] : q \in Imports[a.pkg]
            \/ \E f \in files : /\ f.pkg = a.pkg /\ Covers(f.archives, a.pkg)
                                /\ \A m \in running' : ~OwnFile(f, m)
      <3>1. \A a \in cache : a.key = matched => a.pkg # p
        BY <1>3
      <3>2. \A f : OwnFile(f, k) => f.pkg = p
        BY <1>4 DEF OwnFile
      <3> QED BY <1>1, <1>3, <3>1, <3>2 DEF FilesTell
    <2> QED BY <1>3, <2>1, <2>2 DEF FilesTell, Covers
  <1>15. ColdLinkComplete'
    BY <1>1, <1>3 DEF ColdLinkComplete, LinkComplete, ImportedBy
  <1> QED BY <1>9, <1>10, <1>11, <1>12, <1>13, <1>14, <1>15 DEF ImportInv

-----------------------------------------------------------------------------
(* A compile resolves its added imports.                                   *)

\* The chain that a compile hands to a nested command goes on with an added import.
LEMMA NestedFollows ==
  ASSUME ImportInv, NEW k \in running, NEW q \in k.todo
  PROVE  Follows(NestedChain(k, q))
  <1> DEFINE chain == NestedChain(k, q)
  <1>1. Shapes /\ ProcessTree /\ Compiling /\ Chains
    BY DEF ImportInv
  <1>2. k \in CompileRecord /\ q \in Packages
    BY <1>1 DEF Shapes, CompileRecord
  <1>3. /\ chain \in Seq(Waits) /\ Len(chain) = Len(k.chain) + 1 /\ Len(k.chain) \in Nat
        /\ chain[Len(chain)].pkg = k.pkg /\ chain[Len(chain)].added = q
        /\ \A i \in 1..Len(k.chain) : chain[i] = k.chain[i]
    BY <1>2, AppendWaits
  <1> HIDE DEF chain
  <1>4. ASSUME NEW i \in 1..Len(chain)
        PROVE  /\ chain[i].added \in Adds[matched][chain[i].pkg]
               /\ i > 1 => chain[i].pkg \in Closure[chain[i - 1].added]
    <2>1. CASE i = Len(chain)
      <3>1. q \in Adds[matched][k.pkg]
        BY <1>1 DEF Compiling
      <3>2. ASSUME i > 1
            PROVE  k.pkg \in Closure[chain[i - 1].added]
        <4>1. i - 1 = Len(k.chain) /\ i - 1 \in 1..Len(k.chain) /\ k.chain # <<>>
          BY <1>3, <2>1, <3>2
        <4>2. k.pkg \in Closure[k.chain[Len(k.chain)].added]
          BY <1>1, <4>1 DEF ProcessTree, Wanted
        <4> QED BY <1>3, <4>1, <4>2
      <3> QED BY <1>3, <2>1, <3>1, <3>2
    <2>2. CASE i # Len(chain)
      <3>1. i \in 1..Len(k.chain) /\ chain[i] = k.chain[i]
        BY <1>3, <2>2
      <3>2. i > 1 => i - 1 \in 1..Len(k.chain) /\ chain[i - 1] = k.chain[i - 1]
        BY <1>3, <3>1
      <3>3. k.chain \in DOMAIN commands
        BY <1>1 DEF ProcessTree
      <3> QED BY <1>1, <3>1, <3>2, <3>3 DEF Chains, Follows
    <2> QED BY <2>1, <2>2
  <1>5. Follows(chain)
    BY <1>4 DEF Follows
  <1> QED BY <1>5 DEF chain

LEMMA ResolveKeeps ==
  ASSUME ImportInv, NEW k \in running, NEW q \in k.todo, Resolve(k, q)
  PROVE  ImportInv'
  <1> DEFINE chain == NestedChain(k, q)
  <1>1. /\ Shapes /\ ProcessTree /\ CacheAcyclic /\ AllCurrent /\ Compiling /\ FilesTell
        /\ Chains /\ ColdLinkComplete
    BY DEF ImportInv
  <1>2. /\ k.stage = "instrument" /\ Nested(k) = {} /\ ~TooDeep(chain)
        /\ commands' = [c \in DOMAIN commands \cup {chain} |->
                          IF c = chain THEN NewCommand ELSE commands[c]]
        /\ UNCHANGED <<phase, count, matched, cold, cache, running, files, linked, lost>>
    BY DEF Resolve, build
  <1>3. k \in CompileRecord /\ q \in Packages
    BY <1>1 DEF Shapes, CompileRecord
  <1>4. /\ chain \in Seq(Waits) /\ Len(chain) = Len(k.chain) + 1 /\ Len(k.chain) \in Nat
        /\ chain # <<>> /\ Waiting(chain, k)
        /\ chain[Len(chain)].pkg = k.pkg /\ chain[Len(chain)].added = q
        /\ \A i \in 1..Len(k.chain) : chain[i] = k.chain[i]
    BY <1>3, AppendWaits
  <1> HIDE DEF chain
  <1>5. chain \notin DOMAIN commands
    BY <1>2, <1>4 DEF Nested
  <1>6. /\ DOMAIN commands' = DOMAIN commands \cup {chain} /\ commands'[chain] = NewCommand
        /\ \A c \in DOMAIN commands : commands'[c] = commands[c]
        /\ NewCommand \in CommandRecord /\ NewCommand.built = {}
    BY <1>2, <1>5 DEF NewCommand, CommandRecord
  <1>7. Shapes'
    <2>1. Len(chain) <= MaxChain
      <3>1. MaxChain \in Nat
        BY ImportTrackingAssumption, Zenon
      <3> QED BY <1>2, <1>4, <3>1 DEF TooDeep
    <2> QED BY <1>1, <1>2, <1>4, <1>6, <2>1 DEF Shapes
  <1>8. ProcessTree'
    <2>1. ASSUME NEW m \in running, Waiting(chain, m)
          PROVE  m = k
      <3>1. m.chain = k.chain /\ m.pkg = k.pkg
        BY <1>1, <1>3, <1>4, <2>1, WaitingNames DEF Shapes
      <3> QED BY <1>1, <3>1 DEF ProcessTree
    <2>2. ASSUME NEW m \in running
          PROVE  /\ m.chain \in DOMAIN commands' /\ m.pkg \in Wanted(m.chain)
                 /\ m.stage = "tracking" => Nested(m)' = {}
                 /\ \A c \in DOMAIN commands' : \A d \in DOMAIN commands' :
                      Waiting(c, m) /\ Waiting(d, m) => c = d
                 /\ \A l \in running : l.chain = m.chain /\ l.pkg = m.pkg => l = m
      <3>1. CASE m = k
        <4>1. \A c \in DOMAIN commands : ~Waiting(c, k)
          BY <1>2 DEF Nested
        <4> QED BY <1>1, <1>2, <1>6, <3>1, <4>1 DEF ProcessTree
      <3>2. CASE m # k
        <4>1. ~Waiting(chain, m)
          BY <2>1, <3>2
        <4>2. Nested(m)' = Nested(m)
          BY <1>6, <4>1 DEF Nested
        <4> QED BY <1>1, <1>6, <4>1, <4>2 DEF ProcessTree
      <3> QED BY <3>1, <3>2
    <2>3. \A c \in DOMAIN commands' : c # <<>> => \E m \in running : Waiting(c, m)
      BY <1>1, <1>4, <1>6 DEF ProcessTree
    <2>4. \A c \in DOMAIN commands' : Names(commands'[c].built) \subseteq Wanted(c)
      BY <1>1, <1>6 DEF ProcessTree, Names
    <2>5. phase = "building"
      BY <1>1 DEF ProcessTree, Shapes
    <2> QED BY <1>1, <1>2, <1>6, <2>2, <2>3, <2>4, <2>5 DEF ProcessTree, Wanted
  <1>9. CacheAcyclic' /\ Compiling' /\ FilesTell'
    BY <1>1, <1>2 DEF CacheAcyclic, Stored, EdgesOf, Compiling, FilesTell, Covers
  <1>10. AllCurrent'
    BY <1>1, <1>2, <1>6 DEF AllCurrent, Current
  <1>11. Chains'
    <2>1. Follows(chain)
      BY NestedFollows DEF chain
    <2> QED BY <1>1, <1>2, <1>6, <2>1 DEF Chains, Follows
  <1>12. ColdLinkComplete'
    BY <1>1, <1>2 DEF ColdLinkComplete, LinkComplete, ImportedBy
  <1> QED BY <1>7, <1>8, <1>9, <1>10, <1>11, <1>12 DEF ImportInv

\* The command's compile and the commands that wait for it end.
LEMMA FailKeeps ==
  ASSUME ImportInv, NEW k \in running, Fail(k),
         \A c \in Nested(k) : \A m \in running : m.chain # c,
         UNCHANGED <<build, cache, files, linked, lost>>
  PROVE  ImportInv'
  <1>1. /\ Shapes /\ ProcessTree /\ CacheAcyclic /\ AllCurrent /\ Compiling /\ FilesTell
        /\ Chains /\ ColdLinkComplete
    BY DEF ImportInv
  <1>2. /\ running' = running \ {k}
        /\ UNCHANGED <<phase, count, matched, cold, cache, files, linked, lost>>
    BY DEF Fail, build
  <1>3. /\ DOMAIN commands' = DOMAIN commands \ Nested(k)
        /\ \A c \in DOMAIN commands' : /\ commands'[c].built = commands[c].built
                                       /\ commands'[c] \in CommandRecord
    <2>1. DOMAIN commands' = DOMAIN commands \ Nested(k)
      BY DEF Fail
    <2>2. ASSUME NEW c \in DOMAIN commands'
          PROVE  commands'[c].built = commands[c].built /\ commands'[c] \in CommandRecord
      <3>1. commands[c] \in CommandRecord /\ k.pkg \in Packages
        BY <1>1, <2>1 DEF Shapes, CompileRecord
      <3>2. commands'[c] = IF c = k.chain THEN [commands[c] EXCEPT !.failed = @ \cup {k.pkg}]
                           ELSE commands[c]
        BY <2>1 DEF Fail
      <3> QED BY <3>1, <3>2 DEF CommandRecord
    <2> QED BY <2>1, <2>2
  <1>4. Shapes'
    BY <1>1, <1>2, <1>3 DEF Shapes
  <1>5. ProcessTree'
    <2>1. \A c \in DOMAIN commands' : Names(commands'[c].built) \subseteq Wanted(c)
      BY <1>1, <1>3 DEF ProcessTree
    <2> QED BY <1>1, <1>2, <1>3, <2>1, TreeLoses
  <1>6. CacheAcyclic' /\ Compiling' /\ Chains'
    BY <1>1, <1>2, <1>3 DEF CacheAcyclic, Stored, EdgesOf, Compiling, Chains, Follows
  <1>7. AllCurrent'
    BY <1>1, <1>2, <1>3 DEF AllCurrent, Current
  <1>8. FilesTell'
    BY <1>1, <1>2 DEF FilesTell, Covers
  <1>9. ColdLinkComplete'
    BY <1>1, <1>2 DEF ColdLinkComplete, LinkComplete, ImportedBy
  <1> QED BY <1>4, <1>5, <1>6, <1>7, <1>8, <1>9 DEF ImportInv

LEMMA ResolveFailsKeeps ==
  ASSUME ImportInv, NEW k \in running,
         \/ \E q \in k.todo : ResolveRefused(k, q)
         \/ \E c \in Nested(k) : ResolvedFails(k, c)
  PROVE  ImportInv'
  <1>1. CASE \E q \in k.todo : ResolveRefused(k, q)
    <2>1. Nested(k) = {} /\ Fail(k) /\ UNCHANGED <<build, cache, files, linked, lost>>
      BY <1>1 DEF ResolveRefused
    <2> QED BY <2>1, FailKeeps
  <1>2. CASE \E c \in Nested(k) : ResolvedFails(k, c)
    <2>1. PICK c \in Nested(k) : ResolvedFails(k, c)
      BY <1>2
    <2>2. /\ Fail(k) /\ UNCHANGED <<build, cache, files, linked, lost>>
          /\ \A m \in running : m.chain # c
      BY <2>1 DEF ResolvedFails, Finished
    <2>3. \A d \in Nested(k) : d = c
      BY <2>1 DEF Nested, ImportInv, ProcessTree
    <2> QED BY <2>2, <2>3, FailKeeps
  <1> QED BY <1>1, <1>2

\* A go command that has ended without a failure has built all it was asked for.
LEMMA FinishedBuilt ==
  ASSUME Shapes, ProcessTree, NEW c \in DOMAIN commands, Finished(c), commands[c].failed = {}
  PROVE  Names(commands[c].built) = Wanted(c)
  <1> DEFINE missing == Wanted(c) \ Names(commands[c].built)
  <1>1. Wanted(c) \subseteq Packages /\ \A p \in Wanted(c) : Imports[p] \subseteq Wanted(c)
    <2>1. CASE c = <<>>
      BY <2>1, PackageFacts, ClosureFacts DEF Wanted
    <2>2. CASE c # <<>>
      <3>1. c \in Seq(Waits) /\ Len(c) \in 1..Len(c)
        BY <2>2, EmptySeq DEF Shapes
      <3>2. c[Len(c)] \in Waits
        BY <3>1, ElementOfSeq
      <3>3. c[Len(c)].added \in Packages
        BY <3>2 DEF Waits
      <3>4. Wanted(c) = Closure[c[Len(c)].added]
        BY <2>2 DEF Wanted
      <3> QED BY <3>3, <3>4, ClosureFacts
    <2> QED BY <2>1, <2>2
  <1>2. CASE missing # {}
    <2>1. missing \in SUBSET Packages
      BY <1>1
    <2>2. \A S \in SUBSET Packages : S # {} => \E p \in S : Imports[p] \cap S = {}
      BY ImportTrackingAssumption, Zenon
    <2>3. PICK p \in missing : Imports[p] \cap missing = {}
      BY <1>2, <2>1, <2>2
    <2>4. Imports[p] \subseteq Names(commands[c].built)
      BY <1>1, <2>3
    <2>5. p \in Ready(c)
      BY <2>3, <2>4 DEF Ready, Finished
    <2> QED BY <2>5 DEF Finished
  <1>3. CASE missing = {}
    BY <1>3 DEF ProcessTree
  <1> QED BY <1>2, <1>3

\* A compile becomes one of the same name; only it and the files change.
LEMMA BecomeKeeps ==
  ASSUME ImportInv, NEW k \in running, NEW l \in CompileRecord,
         l.chain = k.chain, l.pkg = k.pkg, running' = (running \ {k}) \cup {l},
         UNCHANGED <<phase, count, matched, cold, cache, linked>>,
         DOMAIN commands' \subseteq DOMAIN commands,
         \A c \in DOMAIN commands' : commands'[c] = commands[c],
         \A c \in DOMAIN commands \ DOMAIN commands' :
           Waiting(c, k) /\ \A m \in running : m.chain # c,
         l.stage = "tracking" => Nested(k) = {},
         files' \subseteq FileRecord, lost' \in BOOLEAN, lost => lost',
         l.by = k.by, Imports[k.pkg] \subseteq Names(l.cfg), Current(l.cfg),
         l.todo \subseteq k.todo, l.todo \cap Names(l.cfg) = {},
         \A q \in Adds[matched][k.pkg] :
           q \in Imports[k.pkg] \cup l.todo \/ Closure[q] \subseteq Names(l.cfg),
         \A f \in files' : Current(f.archives)
  PROVE  /\ Shapes' /\ ProcessTree' /\ CacheAcyclic' /\ AllCurrent' /\ Compiling' /\ Chains'
         /\ ColdLinkComplete'
  <1>1. /\ Shapes /\ ProcessTree /\ CacheAcyclic /\ AllCurrent /\ Compiling /\ FilesTell
        /\ Chains /\ ColdLinkComplete
    BY DEF ImportInv
  <1>2. Shapes'
    BY <1>1 DEF Shapes
  <1>3. ProcessTree'
    BY <1>1, TreeGoesOn
  <1>4. CacheAcyclic' /\ Chains'
    BY <1>1 DEF CacheAcyclic, Stored, EdgesOf, Chains, Follows
  <1>5. AllCurrent'
    BY <1>1 DEF AllCurrent, Current
  <1>6. Compiling'
    BY <1>1 DEF Compiling
  <1>7. ColdLinkComplete'
    BY <1>1 DEF ColdLinkComplete, LinkComplete, ImportedBy
  <1> QED BY <1>2, <1>3, <1>4, <1>5, <1>6, <1>7

LEMMA ResolvedKeeps ==
  ASSUME ImportInv, NEW k \in running, NEW c \in Nested(k), Resolved(k, c)
  PROVE  ImportInv'
  <1> DEFINE new == {a \in commands[c].built : a.pkg \notin Names(k.cfg)}
             cfg == k.cfg \cup new
             todo == k.todo \ Names(cfg)
             l == [k EXCEPT !.cfg = cfg, !.todo = todo, !.updated = TRUE]
  <1>1. /\ Shapes /\ ProcessTree /\ CacheAcyclic /\ AllCurrent /\ Compiling /\ FilesTell
        /\ Chains /\ ColdLinkComplete
    BY DEF ImportInv
  <1>2. /\ Finished(c) /\ commands[c].failed = {} /\ running' = (running \ {k}) \cup {l}
        /\ commands' = [d \in DOMAIN commands \ {c} |-> commands[d]]
        /\ UNCHANGED <<phase, count, matched, cold, cache, files, linked, lost>>
    BY DEF Resolved, Become, build
  <1>3. k \in CompileRecord /\ c \in DOMAIN commands /\ Waiting(c, k)
    BY <1>1 DEF Shapes, Nested
  <1>4. c \in Seq(Waits) /\ commands[c] \in CommandRecord
    BY <1>1, <1>3 DEF Shapes
  <1>5. cfg \subseteq Archive /\ todo \subseteq Packages
    BY <1>3, <1>4 DEF CompileRecord, CommandRecord
  <1>6. /\ Names(cfg) = Names(k.cfg) \cup Names(commands[c].built)
        /\ k.cfg \subseteq cfg /\ Current(cfg)
    BY <1>1, <1>3 DEF Names, AllCurrent, Current
  <1>7. todo \subseteq k.todo /\ todo \cap Names(cfg) = {}
    OBVIOUS
  <1>8. \A q \in k.todo : q \notin todo => q \in Names(cfg)
    OBVIOUS
  <1> HIDE DEF new, cfg, todo
  <1>9. /\ l.chain = k.chain /\ l.pkg = k.pkg /\ l.by = k.by /\ l.cfg = cfg /\ l.todo = todo
        /\ l.updated = TRUE /\ l.stage = k.stage
    BY <1>3 DEF CompileRecord
  <1>10. l \in CompileRecord
    <2> DEFINE m == [k EXCEPT !.cfg = cfg]
               n == [m EXCEPT !.todo = todo]
    <2>1. m \in CompileRecord
      BY <1>3, <1>5 DEF CompileRecord
    <2>2. l = [n EXCEPT !.updated = TRUE]
      OBVIOUS
    <2> HIDE DEF m, l
    <2>3. n \in CompileRecord
      BY <1>5, <2>1 DEF CompileRecord
    <2> HIDE DEF n
    <2> QED BY <2>2, <2>3 DEF CompileRecord
  <1> HIDE DEF l
  <1>11. /\ DOMAIN commands' = DOMAIN commands \ {c}
         /\ \A d \in DOMAIN commands' : commands'[d] = commands[d]
         /\ \A m \in running : m.chain # c
    BY <1>2 DEF Finished
  <1>12. /\ Names(commands[c].built) = Wanted(c) /\ Wanted(c) = Closure[c[Len(c)].added]
         /\ c[Len(c)].added \in Packages
    <2>1. Len(k.chain) \in Nat /\ Len(c) = Len(k.chain) + 1
      BY <1>3 DEF CompileRecord, Waiting
    <2>2. c # <<>> /\ Len(c) \in 1..Len(c)
      BY <1>4, <2>1, EmptySeq
    <2>3. c[Len(c)] \in Waits
      BY <1>4, <2>2, ElementOfSeq
    <2> QED BY <1>1, <1>2, <1>3, <2>2, <2>3, FinishedBuilt DEF Wanted, Waits
  <1>13. \A q \in Adds[matched][k.pkg] :
           q \in Imports[k.pkg] \cup todo \/ Closure[q] \subseteq Names(cfg)
    <2>1. ASSUME NEW q \in k.todo, q \notin todo
          PROVE  Closure[q] \subseteq Names(cfg)
      <3>1. q \notin Names(k.cfg)
        BY <1>1 DEF Compiling
      <3>2. q \in Names(commands[c].built)
        BY <1>6, <1>8, <2>1, <3>1
      <3> QED BY <1>6, <1>12, <3>2, ClosureFacts
    <2> QED BY <1>1, <1>6, <2>1 DEF Compiling
  <1>14. Imports[k.pkg] \subseteq Names(cfg)
    BY <1>1, <1>6 DEF Compiling
  <1>15. k.stage = "instrument"
    BY <1>1, <1>3 DEF ProcessTree, Nested, CompileRecord
  <1>16. /\ Shapes' /\ ProcessTree' /\ CacheAcyclic' /\ AllCurrent' /\ Compiling' /\ Chains'
         /\ ColdLinkComplete'
    <2>1. /\ files' \subseteq FileRecord /\ lost' \in BOOLEAN
          /\ \A f \in files' : Current(f.archives)
      BY <1>1, <1>2 DEF Shapes, AllCurrent
    <2> QED BY <1>2, <1>3, <1>6, <1>7, <1>9, <1>10, <1>11, <1>13, <1>14, <1>15, <2>1,
               BecomeKeeps
  <1>17. FilesTell'
    <2>1. \A f : OwnFile(f, l) <=> OwnFile(f, k)
      BY <1>9 DEF OwnFile
    <2> QED BY <1>1, <1>2, <1>9, <1>15, <2>1 DEF FilesTell, Covers
  <1> QED BY <1>16, <1>17 DEF ImportInv

-----------------------------------------------------------------------------
(* The tracking files.                                                     *)

LEMMA TrackBeginKeeps ==
  ASSUME ImportInv, NEW k \in running, TrackBegin(k)
  PROVE  ImportInv'
  <1> DEFINE l == [k EXCEPT !.stage = "tracking", !.updated = FALSE]
             own == {f \in files : OwnFile(f, k)}
             file == [chain |-> k.chain, pkg |-> k.pkg, archives |-> {}]
  <1>1. /\ Shapes /\ ProcessTree /\ CacheAcyclic /\ AllCurrent /\ Compiling /\ FilesTell
        /\ Chains /\ ColdLinkComplete
    BY DEF ImportInv
  <1>2. /\ Nested(k) = {} /\ running' = (running \ {k}) \cup {l}
        /\ UNCHANGED <<phase, count, matched, cold, cache, commands, linked>>
        /\ \/ files' = (files \ own) \cup {file} /\ lost' = lost
           \/ files' \subseteq files \cup {file} /\ lost' = TRUE
    BY DEF TrackBegin, Become, build, OwnFile
  <1>3. k \in CompileRecord
    BY <1>1 DEF Shapes
  <1>4. l \in CompileRecord
    <2> DEFINE m == [k EXCEPT !.stage = "tracking"]
    <2>1. m \in CompileRecord /\ l = [m EXCEPT !.updated = FALSE]
      BY <1>3 DEF CompileRecord
    <2> HIDE DEF m, l
    <2> QED BY <2>1 DEF CompileRecord
  <1>5. /\ l.chain = k.chain /\ l.pkg = k.pkg /\ l.by = k.by /\ l.cfg = k.cfg
        /\ l.todo = k.todo /\ l.stage = "tracking"
    BY <1>3 DEF CompileRecord
  <1>6. /\ file \in FileRecord /\ Current(file.archives) /\ OwnFile(file, k)
    BY <1>3 DEF CompileRecord, FileRecord, Current, OwnFile
  <1> HIDE DEF l, file, own
  <1>7. /\ Shapes' /\ ProcessTree' /\ CacheAcyclic' /\ AllCurrent' /\ Compiling' /\ Chains'
         /\ ColdLinkComplete'
    <2>1. files' \subseteq files \cup {file} /\ lost' \in BOOLEAN /\ (lost => lost')
      BY <1>1, <1>2 DEF Shapes
    <2>2. files' \subseteq FileRecord /\ \A f \in files' : Current(f.archives)
      BY <1>1, <1>6, <2>1 DEF Shapes, AllCurrent
    <2>3. /\ Imports[k.pkg] \subseteq Names(k.cfg) /\ Current(k.cfg)
          /\ k.todo \cap Names(k.cfg) = {}
          /\ \A q \in Adds[matched][k.pkg] :
               q \in Imports[k.pkg] \cup k.todo \/ Closure[q] \subseteq Names(k.cfg)
      BY <1>1 DEF Compiling, AllCurrent
    <2> QED BY <1>2, <1>4, <1>5, <2>1, <2>2, <2>3, BecomeKeeps
  <1>8. FilesTell'
    <2>1. CASE files' = (files \ own) \cup {file} /\ lost' = lost
      <3>1. \A f : OwnFile(f, l) <=> OwnFile(f, k)
        BY <1>5 DEF OwnFile
      <3>2. ASSUME NEW m \in running, m # k, NEW f \in files, OwnFile(f, m)
            PROVE  f \in files'
        <4>1. ~OwnFile(f, k)
          BY <1>1, <3>2 DEF OwnFile, ProcessTree
        <4> QED BY <2>1, <4>1 DEF own
      <3>3. ~lost => \A m \in running' :
              /\ m.stage = "tracking" => \E f \in files' : OwnFile(f, m)
              /\ m.stage = "instrument" /\ ~m.updated =>
                   \/ \A q \in Adds[matched][m.pkg] : q \in Imports[m.pkg] \cup m.todo
                   \/ \E f \in files' : OwnFile(f, m) /\ f.archives = m.cfg
        <4> SUFFICES ASSUME ~lost, NEW m \in running'
                     PROVE  /\ m.stage = "tracking" => \E f \in files' : OwnFile(f, m)
                            /\ m.stage = "instrument" /\ ~m.updated =>
                                 \/ \A q \in Adds[matched][m.pkg] :
                                      q \in Imports[m.pkg] \cup m.todo
                                 \/ \E f \in files' : OwnFile(f, m) /\ f.archives = m.cfg
          OBVIOUS
        <4>1. CASE m = l
          BY <1>5, <1>6, <2>1, <3>1, <4>1
        <4>2. CASE m # l
          <5>1. m \in running /\ m # k
            BY <1>2, <4>2
          <5> QED BY <1>1, <3>2, <5>1 DEF FilesTell
        <4> QED BY <4>1, <4>2
      <3>4. cold /\ ~lost => \A a \in cache : a.key = matched =>
              \/ \A q \in Adds[matched][a.pkg] : q \in Imports[a.pkg]
              \/ \E f \in files' : /\ f.pkg = a.pkg /\ Covers(f.archives, a.pkg)
                                   /\ \A m \in running' : ~OwnFile(f, m)
        <4>1. \A f \in files : ~OwnFile(f, k) => f \in files'
          BY <2>1 DEF own
        <4> QED BY <1>1, <1>2, <3>1, <4>1 DEF FilesTell
      <3> QED BY <1>2, <2>1, <3>3, <3>4 DEF FilesTell, Covers
    <2>2. CASE lost' = TRUE
      BY <2>2 DEF FilesTell
    <2> QED BY <1>2, <2>1, <2>2
  <1> QED BY <1>7, <1>8 DEF ImportInv

LEMMA TrackEndKeeps ==
  ASSUME ImportInv, NEW k \in running, TrackEnd(k) \/ TrackFails(k)
  PROVE  ImportInv'
  <1> DEFINE l == [k EXCEPT !.stage = "instrument"]
             Now(f) == IF OwnFile(f, k) THEN [f EXCEPT !.archives = k.cfg] ELSE f
  <1>1. /\ Shapes /\ ProcessTree /\ CacheAcyclic /\ AllCurrent /\ Compiling /\ FilesTell
        /\ Chains /\ ColdLinkComplete
    BY DEF ImportInv
  <1>2. /\ k.stage = "tracking" /\ running' = (running \ {k}) \cup {l}
        /\ UNCHANGED <<phase, count, matched, cold, cache, commands, linked>>
        /\ \/ files' = {Now(f) : f \in files} /\ lost' = lost
           \/ files' = files /\ lost' = TRUE
    BY DEF TrackEnd, TrackFails, Become, build, OwnFile
  <1>3. k \in CompileRecord
    BY <1>1 DEF Shapes
  <1>4. /\ l \in CompileRecord
        /\ l.chain = k.chain /\ l.pkg = k.pkg /\ l.by = k.by /\ l.cfg = k.cfg
        /\ l.todo = k.todo /\ l.stage = "instrument"
    BY <1>3 DEF CompileRecord
  <1>5. ASSUME NEW f \in files
        PROVE  /\ Now(f) \in FileRecord /\ Now(f).chain = f.chain /\ Now(f).pkg = f.pkg
               /\ Now(f).archives = IF OwnFile(f, k) THEN k.cfg ELSE f.archives
    <2>1. f \in FileRecord /\ k.cfg \subseteq Archive
      BY <1>1, <1>3 DEF Shapes, CompileRecord
    <2>2. CASE OwnFile(f, k)
      BY <2>1, <2>2 DEF FileRecord
    <2>3. CASE ~OwnFile(f, k)
      BY <2>1, <2>3
    <2> QED BY <2>2, <2>3
  <1> HIDE DEF l, Now
  <1>6. /\ Shapes' /\ ProcessTree' /\ CacheAcyclic' /\ AllCurrent' /\ Compiling' /\ Chains'
         /\ ColdLinkComplete'
    <2>1. lost' \in BOOLEAN /\ (lost => lost')
      BY <1>1, <1>2 DEF Shapes
    <2>2. files' \subseteq FileRecord /\ \A f \in files' : Current(f.archives)
      BY <1>1, <1>2, <1>5 DEF Shapes, AllCurrent
    <2>3. /\ Imports[k.pkg] \subseteq Names(k.cfg) /\ Current(k.cfg)
          /\ k.todo \cap Names(k.cfg) = {}
          /\ \A q \in Adds[matched][k.pkg] :
               q \in Imports[k.pkg] \cup k.todo \/ Closure[q] \subseteq Names(k.cfg)
      BY <1>1 DEF Compiling, AllCurrent
    <2> QED BY <1>2, <1>4, <2>1, <2>2, <2>3, BecomeKeeps
  <1>7. FilesTell'
    <2>1. CASE files' = {Now(f) : f \in files} /\ lost' = lost
      <3>1. \A f : OwnFile(f, l) <=> OwnFile(f, k)
        BY <1>4 DEF OwnFile
      <3>2. \A f \in files : \A m : OwnFile(Now(f), m) <=> OwnFile(f, m)
        BY <1>5 DEF OwnFile
      <3>3. ASSUME NEW m \in running, m # k, NEW f \in files, OwnFile(f, m)
            PROVE  ~OwnFile(f, k)
        BY <1>1, <3>3 DEF OwnFile, ProcessTree
      <3>4. ~lost => \A m \in running' :
              /\ m.stage = "tracking" => \E f \in files' : OwnFile(f, m)
              /\ m.stage = "instrument" /\ ~m.updated =>
                   \/ \A q \in Adds[matched][m.pkg] : q \in Imports[m.pkg] \cup m.todo
                   \/ \E f \in files' : OwnFile(f, m) /\ f.archives = m.cfg
        <4> SUFFICES ASSUME ~lost, NEW m \in running'
                     PROVE  /\ m.stage = "tracking" => \E f \in files' : OwnFile(f, m)
                            /\ m.stage = "instrument" /\ ~m.updated =>
                                 \/ \A q \in Adds[matched][m.pkg] :
                                      q \in Imports[m.pkg] \cup m.todo
                                 \/ \E f \in files' : OwnFile(f, m) /\ f.archives = m.cfg
          OBVIOUS
        <4>1. CASE m = l
          <5>1. PICK f \in files : OwnFile(f, k)
            BY <1>1, <1>2 DEF FilesTell
          <5>2. Now(f) \in files' /\ OwnFile(Now(f), l) /\ Now(f).archives = l.cfg
            BY <1>4, <1>5, <2>1, <3>1, <3>2, <5>1
          <5> QED BY <4>1, <5>2
        <4>2. CASE m # l
          <5>1. m \in running /\ m # k
            BY <1>2, <4>2
          <5>2. \A f \in files : OwnFile(f, m) =>
                  /\ Now(f) \in files' /\ OwnFile(Now(f), m)
                  /\ Now(f).archives = f.archives
            BY <1>5, <2>1, <3>2, <3>3, <5>1
          <5> QED BY <1>1, <5>1, <5>2 DEF FilesTell
        <4> QED BY <4>1, <4>2
      <3>5. cold /\ ~lost => \A a \in cache : a.key = matched =>
              \/ \A q \in Adds[matched][a.pkg] : q \in Imports[a.pkg]
              \/ \E f \in files' : /\ f.pkg = a.pkg /\ Covers(f.archives, a.pkg)
                                   /\ \A m \in running' : ~OwnFile(f, m)
        <4>1. \A f \in files : ~OwnFile(f, k) =>
                /\ Now(f) \in files' /\ Now(f).archives = f.archives /\ Now(f).pkg = f.pkg
                /\ \A m : OwnFile(Now(f), m) <=> OwnFile(f, m)
          BY <1>5, <2>1, <3>2
        <4> QED BY <1>1, <1>2, <3>1, <4>1 DEF FilesTell
      <3> QED BY <1>2, <2>1, <3>4, <3>5 DEF FilesTell, Covers
    <2>2. CASE lost' = TRUE
      BY <2>2 DEF FilesTell
    <2> QED BY <1>2, <2>1, <2>2
  <1> QED BY <1>6, <1>7 DEF ImportInv

-----------------------------------------------------------------------------
(* The compiler and the linker.                                            *)

LEMMA CompileKeeps ==
  ASSUME ImportInv, NEW k \in running, Compile(k)
  PROVE  ImportInv'
  <1> DEFINE x == [pkg |-> k.pkg, by |-> k.by]
             entry == [pkg |-> k.pkg, by |-> matched, key |-> matched]
  <1>1. /\ Shapes /\ ProcessTree /\ CacheAcyclic /\ AllCurrent /\ Compiling /\ FilesTell
        /\ Chains /\ ColdLinkComplete
    BY DEF ImportInv
  <1>2. k.by = matched /\ matched \in Rules /\ k \in CompileRecord
    BY <1>1 DEF Compiling, Shapes
  <1>3. /\ k.stage = "instrument" /\ Nested(k) = {} /\ k.todo = {} /\ ~k.updated
        /\ running' = running \ {k} /\ cache' = cache \cup {entry}
        /\ commands' = [commands EXCEPT ![k.chain].built = @ \cup {x}]
        /\ UNCHANGED <<phase, count, matched, cold, files, linked, lost>>
    BY <1>2 DEF Compile, build, ToolVersion
  <1>4. /\ k.pkg \in Packages /\ k.chain \in DOMAIN commands /\ k.pkg \in Wanted(k.chain)
    BY <1>1, <1>2 DEF CompileRecord, ProcessTree
  <1>5. /\ x \in Archive /\ x.pkg = k.pkg /\ [pkg |-> x.pkg, by |-> x.by, key |-> matched] = entry
        /\ entry \in CachedRecord /\ entry.pkg = k.pkg /\ entry.key = matched
    BY <1>2, <1>4 DEF Archive, CachedRecord
  <1> HIDE DEF x, entry
  <1>6. /\ DOMAIN commands' = DOMAIN commands
        /\ \A d \in DOMAIN commands : d # k.chain => commands'[d] = commands[d]
        /\ commands'[k.chain].built = commands[k.chain].built \cup {x}
        /\ commands'[k.chain] \in CommandRecord
    BY <1>1, <1>3, <1>4, <1>5, BuiltGrows
  <1>7. /\ \A q \in Adds[matched][k.pkg] : q \in Imports[k.pkg] \/ Closure[q] \subseteq Names(k.cfg)
        /\ Imports[k.pkg] \subseteq Names(k.cfg)
    BY <1>1, <1>3 DEF Compiling
  <1>8. Shapes'
    BY <1>1, <1>3, <1>5, <1>6 DEF Shapes
  <1>9. ProcessTree'
    <2>1. \A d \in DOMAIN commands' : Names(commands'[d].built) \subseteq Wanted(d)
      BY <1>1, <1>4, <1>5, <1>6 DEF ProcessTree, Names
    <2> QED BY <1>1, <1>3, <1>6, <2>1, TreeLoses
  <1>10. CacheAcyclic'
    <2>1. Names(k.cfg) \subseteq Stored(matched)
      <3>1. ASSUME NEW a \in k.cfg
            PROVE  a.pkg \in Stored(matched)
        <4> DEFINE b == [pkg |-> a.pkg, by |-> a.by, key |-> matched]
        <4>1. b \in cache /\ b.pkg = a.pkg /\ b.key = matched
          BY <1>1 DEF AllCurrent, Current
        <4> HIDE DEF b
        <4> QED BY <4>1, StoredUnder
      <3> QED BY <3>1 DEF Names
    <2>2. \A q \in Adds[matched][k.pkg] : q \in Packages /\ q \in Closure[q]
      BY <1>2, <1>4, PackageFacts, ClosureFacts
    <2>3. EdgesOf(matched, k.pkg) \subseteq Stored(matched)
      BY <1>7, <2>1, <2>2 DEF EdgesOf
    <2>4. cache' = cache \cup {[pkg |-> k.pkg, by |-> matched, key |-> matched]}
      BY <1>3 DEF entry
    <2> QED BY <1>1, <1>2, <1>4, <2>3, <2>4, CacheGrows
  <1>11. AllCurrent'
    BY <1>1, <1>3, <1>5, <1>6 DEF AllCurrent, Current
  <1>12. Compiling' /\ Chains'
    BY <1>1, <1>3, <1>6 DEF Compiling, Chains, Follows
  <1>13. FilesTell'
    <2>1. ~lost => \/ \A q \in Adds[matched][k.pkg] : q \in Imports[k.pkg]
                   \/ \E f \in files : /\ f.pkg = k.pkg /\ Covers(f.archives, k.pkg)
                                       /\ \A m \in running' : ~OwnFile(f, m)
      <3> SUFFICES ASSUME ~lost, ~\A q \in Adds[matched][k.pkg] : q \in Imports[k.pkg]
                   PROVE  \E f \in files : /\ f.pkg = k.pkg /\ Covers(f.archives, k.pkg)
                                           /\ \A m \in running' : ~OwnFile(f, m)
        OBVIOUS
      <3>1. PICK f \in files : OwnFile(f, k) /\ f.archives = k.cfg
        BY <1>1, <1>3 DEF FilesTell
      <3>2. Covers(f.archives, k.pkg)
        BY <1>7, <3>1 DEF Covers
      <3>3. \A m \in running' : ~OwnFile(f, m)
        <4>1. \A y \in running : \A z \in running :
                y.chain = z.chain /\ y.pkg = z.pkg => y = z
          BY <1>1, Zenon DEF ProcessTree
        <4> QED BY <1>3, <3>1, <4>1 DEF OwnFile
      <3> QED BY <3>1, <3>2, <3>3 DEF OwnFile
    <2>2. \A f : (\A m \in running : ~OwnFile(f, m)) => \A m \in running' : ~OwnFile(f, m)
      BY <1>3
    <2>3. cold /\ ~lost => \A a \in cache' : a.key = matched =>
            \/ \A q \in Adds[matched][a.pkg] : q \in Imports[a.pkg]
            \/ \E f \in files : /\ f.pkg = a.pkg /\ Covers(f.archives, a.pkg)
                                /\ \A m \in running' : ~OwnFile(f, m)
      BY <1>1, <1>3, <1>5, <2>1, <2>2 DEF FilesTell
    <2>4. ~lost => \A m \in running' :
            /\ m.stage = "tracking" => \E f \in files : OwnFile(f, m)
            /\ m.stage = "instrument" /\ ~m.updated =>
                 \/ \A q \in Adds[matched][m.pkg] : q \in Imports[m.pkg] \cup m.todo
                 \/ \E f \in files : OwnFile(f, m) /\ f.archives = m.cfg
      BY <1>1, <1>3 DEF FilesTell
    <2> QED BY <1>3, <2>3, <2>4 DEF FilesTell, Covers
  <1>14. ColdLinkComplete'
    BY <1>1, <1>3 DEF ColdLinkComplete, LinkComplete, ImportedBy
  <1> QED BY <1>8, <1>9, <1>10, <1>11, <1>12, <1>13, <1>14 DEF ImportInv

LEMMA LinkKeeps ==
  ASSUME ImportInv, NEW m \in Mains, Link(m)
  PROVE  ImportInv'
  <1> DEFINE own == {a \in commands[<<>>].built : a.pkg \in Closure[m]}
             tracked == UNION {f.archives : f \in files}
             cfg == own \cup {a \in tracked : a.pkg \notin Names(own)}
             l == [main |-> m, cfg |-> cfg]
  <1>1. /\ Shapes /\ ProcessTree /\ CacheAcyclic /\ AllCurrent /\ Compiling /\ FilesTell
        /\ Chains /\ ColdLinkComplete
    BY DEF ImportInv
  <1>2. /\ phase = "building" /\ Closure[m] = Names(own) /\ linked' = linked \cup {l}
        /\ UNCHANGED <<phase, count, matched, cold, cache, commands, running, files, lost>>
    BY DEF Link, build
  <1>3. m \in Packages /\ <<>> \in DOMAIN commands /\ matched \in Rules
    BY <1>1, <1>2, PackageFacts DEF ProcessTree, Shapes
  <1>4. cfg \subseteq Archive
    BY <1>1, <1>3 DEF Shapes, CommandRecord, FileRecord
  <1>5. Current(cfg)
    BY <1>1, <1>3 DEF AllCurrent, Current
  <1>6. Names(cfg) = Names(own) \cup Names(tracked) /\ m \in Names(cfg)
    <2>1. m \in Closure[m]
      BY <1>3, ClosureFacts
    <2> QED BY <1>2, <2>1 DEF Names
  <1>7. \A f \in files : Names(f.archives) \subseteq Names(tracked)
    BY DEF Names
  <1> HIDE DEF own, tracked, cfg
  <1>8. l.main = m /\ l.cfg = cfg /\ l \in LinkRecord
    BY <1>4 DEF LinkRecord
  <1> HIDE DEF l
  <1>9. Shapes' /\ ProcessTree' /\ CacheAcyclic' /\ Compiling' /\ FilesTell' /\ Chains'
    BY <1>1, <1>2, <1>8 DEF Shapes, ProcessTree, Nested, Wanted, CacheAcyclic, Stored, EdgesOf,
                            Compiling, FilesTell, Covers, Chains, Follows
  <1>10. AllCurrent'
    BY <1>1, <1>2, <1>5, <1>6, <1>8 DEF AllCurrent, Current
  <1>11. ASSUME cold, ~lost
         PROVE  Reach(ImportedBy(l), m) \subseteq Names(cfg)
    \* The packages that are there with all they import.
    <2> DEFINE whole == {p \in Packages : Closure[p] \subseteq Names(cfg)}
    <2>1. \A p \in whole : p \in Names(cfg)
      BY ClosureFacts
    <2>2. m \in whole
      BY <1>2, <1>3, <1>6
    <2>3. ASSUME NEW a \in cfg
          PROVE  Added(a.by, a.pkg) \subseteq Imports[a.pkg] \cup whole
      <3> DEFINE b == [pkg |-> a.pkg, by |-> a.by, key |-> matched]
      <3>1. b \in cache /\ b.pkg = a.pkg /\ b.by = a.by /\ b.key = matched
        BY <1>5 DEF Current
      <3> HIDE DEF b
      <3>2. a.by = matched /\ matched # Plain /\ a.pkg \in Packages
        BY <1>1, <1>3, <1>4, <3>1, PackageFacts DEF CacheAcyclic, Archive
      <3>3. Added(a.by, a.pkg) = Adds[matched][a.pkg]
        BY <3>2 DEF Added
      <3>4. \/ \A q \in Adds[matched][a.pkg] : q \in Imports[a.pkg]
            \/ \E f \in files : Covers(f.archives, a.pkg)
        BY <1>1, <1>11, <3>1 DEF FilesTell
      <3>5. ASSUME NEW q \in Adds[matched][a.pkg], q \notin Imports[a.pkg]
            PROVE  q \in whole
        <4>1. PICK f \in files : Covers(f.archives, a.pkg)
          BY <3>4, <3>5
        <4>2. Closure[q] \subseteq Names(f.archives)
          BY <3>5, <4>1 DEF Covers
        <4>3. q \in Packages
          BY <1>3, <3>2, PackageFacts
        <4> QED BY <1>6, <1>7, <4>2, <4>3
      <3> QED BY <3>3, <3>5
    <2>4. ASSUME NEW p \in whole
          PROVE  Imports[p] \subseteq whole /\ ImportedBy(l)[p] \subseteq whole
      <3>1. Imports[p] \subseteq whole
        <4>1. \A q \in Closure[p] : q \in Packages /\ Closure[q] \subseteq Closure[p]
          BY ClosureFacts
        <4>2. Imports[p] \subseteq Closure[p]
          BY ClosureFacts
        <4> QED BY <4>1, <4>2
      <3>2. ImportedBy(l)[p] =
              UNION {Imports[p] \cup Added(a.by, p) : a \in {b \in cfg : b.pkg = p}}
        BY <1>8 DEF ImportedBy
      <3> QED BY <2>3, <3>1, <3>2
    <2>5. Reach(ImportedBy(l), m) \subseteq whole
      <3> HIDE DEF whole
      <3>1. whole \in SUBSET Packages
        BY DEF whole
      <3> QED BY <1>3, <2>2, <2>4, <3>1, ReachLeast
    <2> QED BY <2>1, <2>5
  <1>12. ColdLinkComplete'
    BY <1>1, <1>2, <1>8, <1>11 DEF ColdLinkComplete, LinkComplete, ImportedBy
  <1> QED BY <1>9, <1>10, <1>12 DEF ImportInv

-----------------------------------------------------------------------------
(* Cycles.                                                                 *)

LEMMA EdgesFacts ==
  ASSUME Shapes
  PROVE  /\ \A p \in Packages : Edges[p] = Imports[p] \cup Adds[matched][p]
         /\ \A p \in Packages : Edges[p] \subseteq Packages
  <1>1. \A p \in Packages : Edges[p] = Imports[p] \cup Adds[matched][p]
    BY DEF Edges
  <1>2. \A p \in Packages : Imports[p] \subseteq Packages /\ Adds[matched][p] \subseteq Packages
    BY PackageFacts DEF Shapes
  <1> QED BY <1>1, <1>2

\* What is reached from a package other than itself is reached by one of its edges.
LEMMA ReachStep ==
  ASSUME NEW e, \A x \in Packages : e[x] \subseteq Packages,
         NEW p \in Packages, NEW x \in Reach(e, p), x # p
  PROVE  \E r \in e[p] : x \in Reach(e, r)
  <1> DEFINE S == {y \in Packages : y = p \/ \E r \in e[p] : y \in Reach(e, r)}
  <1>1. p \in S /\ S \in SUBSET Packages
    OBVIOUS
  <1>2. ASSUME NEW y \in S
        PROVE  e[y] \subseteq S
    <2>1. CASE y = p
      <3>1. \A z \in e[p] : z \in Packages /\ z \in Reach(e, z)
        BY ReachSelf
      <3> QED BY <2>1, <3>1
    <2>2. CASE \E r \in e[p] : y \in Reach(e, r)
      <3>1. PICK r \in e[p] : y \in Reach(e, r)
        BY <2>2
      <3>2. r \in Packages /\ y \in Packages
        OBVIOUS
      <3>3. e[y] \subseteq Reach(e, r) /\ e[y] \subseteq Packages
        BY <3>1, <3>2, ReachClosed
      <3> QED BY <3>1, <3>3
    <2> QED BY <2>1, <2>2
  <1>3. Reach(e, p) \subseteq S
    <2> HIDE DEF S
    <2> QED BY <1>1, <1>2, ReachLeast
  <1> QED BY <1>3

\* A package that can be reached from one of its own edges lies on a cycle.
LEMMA BackMeansCyclic ==
  ASSUME Shapes, NEW x \in Packages, NEW y \in Edges[x], x \in Reach(Edges, y)
  PROVE  Cyclic(Packages)
  <1> DEFINE S == {p \in Packages : x \in Reach(Edges, p)}
  <1>1. x \in S /\ y \in S
    BY EdgesFacts, ReachSelf
  <1>2. ASSUME NEW p \in S
        PROVE  Edges[p] \cap S # {}
    <2>1. CASE p = x
      BY <1>1, <2>1
    <2>2. CASE p # x
      <3>1. PICK r \in Edges[p] : x \in Reach(Edges, r)
        BY <2>2, EdgesFacts, ReachStep
      <3>2. r \in S
        BY <3>1, EdgesFacts
      <3> QED BY <3>1, <3>2
    <2> QED BY <2>1, <2>2
  <1>3. S \in SUBSET Packages
    OBVIOUS
  <1> HIDE DEF S
  <1> QED BY <1>1, <1>2, <1>3 DEF Cyclic

\* Along a chain each waiting compile is reached from the imports added before it.
LEMMA ChainReaches ==
  ASSUME Shapes, NEW c \in Seq(Waits), Follows(c),
         NEW i \in 1..Len(c), NEW j \in 1..Len(c), i < j
  PROVE  c[j].pkg \in Reach(Edges, c[i].added)
  <1> DEFINE missed == {n \in 1..Len(c) : i < n /\ c[n].pkg \notin Reach(Edges, c[i].added)}
  <1>1. \A n \in 1..Len(c) : c[n].pkg \in Packages /\ c[n].added \in Packages
    <2>1. \A n \in 1..Len(c) : c[n] \in Waits
      BY ElementOfSeq
    <2> QED BY <2>1 DEF Waits
  <1>2. \A p \in Packages : Closure[p] \subseteq Reach(Edges, p)
    <2> TAKE p \in Packages
    <2>1. Closure[p] = Reach(Imports, p)
      BY DEF Closure
    <2>2. Reach(Edges, p) \in SUBSET Packages /\ p \in Reach(Edges, p)
      BY ReachSelf DEF Reach
    <2>3. \A q \in Reach(Edges, p) : Imports[q] \subseteq Reach(Edges, p)
      BY <2>2, EdgesFacts, ReachClosed
    <2> QED BY <2>1, <2>2, <2>3, ReachLeast
  <1>3. SUFFICES ASSUME missed # {} PROVE FALSE
    OBVIOUS
  <1>4. missed \in SUBSET Nat
    OBVIOUS
  <1>5. PICK n \in missed : \A m \in missed : ~(m < n)
    <2> HIDE DEF missed
    <2>1. \E n \in missed : \A m \in missed : <<m, n>> \notin OpToRel(<, Nat)
      BY <1>3, <1>4, NatLessThanWellFounded, WFMin
    <2> QED BY <1>4, <2>1 DEF OpToRel
  <1>6. n \in 1..Len(c) /\ n - 1 \in 1..Len(c) /\ i <= n - 1 /\ n > 1
    BY <1>5
  <1>7. /\ c[n].pkg \in Closure[c[n - 1].added]
        /\ c[n - 1].added \in Edges[c[n - 1].pkg]
    BY <1>1, <1>6, EdgesFacts DEF Follows
  <1>8. c[n].pkg \in Reach(Edges, c[n - 1].added)
    BY <1>1, <1>2, <1>6, <1>7
  <1>9. CASE i = n - 1
    BY <1>5, <1>8, <1>9
  <1>10. CASE i < n - 1
    <2>1. c[n - 1].pkg \in Reach(Edges, c[i].added)
      BY <1>5, <1>6, <1>10
    <2>2. c[n - 1].added \in Reach(Edges, c[i].added)
      BY <1>1, <1>7, <2>1, EdgesFacts, ReachClosed
    <2>3. c[n].pkg \in Reach(Edges, c[i].added)
      BY <1>1, <1>8, <2>2, EdgesFacts, ReachOn
    <2> QED BY <1>5, <2>3
  <1> QED BY <1>6, <1>9, <1>10

\* The packages that the rules of the build add to.
Extended(r) == {p \in Packages : Adds[r][p] # {}}

\* MaxChain lets every package that rules add imports to wait once.
RoomToWait ==
  \A r \in Rules : IsFiniteSet(Extended(r)) /\ Cardinality(Extended(r)) <= MaxChain

\* What enterNestedResolution refuses is a cycle.
LEMMA RefusedMeansCyclic ==
  ASSUME Shapes, RoomToWait, NEW c \in Seq(Waits), c # <<>>, Follows(c),
         Closes(c) \/ TooDeep(c)
  PROVE  Cyclic(Packages)
  <1>1. \A n \in 1..Len(c) : c[n].pkg \in Packages /\ c[n].added \in Packages
    <2>1. \A n \in 1..Len(c) : c[n] \in Waits
      BY ElementOfSeq
    <2> QED BY <2>1 DEF Waits
  <1>2. \A n \in 1..Len(c) : c[n].added \in Edges[c[n].pkg]
    BY <1>1, EdgesFacts DEF Follows
  <1>3. Len(c) \in 1..Len(c) /\ DOMAIN c = 1..Len(c) /\ Len(c) \in Nat
    BY EmptySeq, LenProperties
  <1>4. CASE Closes(c)
    <2>1. PICK i \in 1..Len(c) : c[i].pkg = c[Len(c)].added
      BY <1>3, <1>4 DEF Closes
    <2>2. c[i].pkg \in Edges[c[Len(c)].pkg]
      BY <1>2, <1>3, <2>1
    <2>3. CASE i = Len(c)
      <3>1. c[i].pkg \in Packages /\ c[i].pkg \in Edges[c[i].pkg]
        BY <1>1, <2>2, <2>3
      <3>2. c[i].pkg \in Reach(Edges, c[i].pkg)
        BY <3>1, ReachSelf
      <3> QED BY <3>1, <3>2, BackMeansCyclic
    <2>4. CASE i < Len(c)
      <3>1. c[Len(c)].pkg \in Reach(Edges, c[i].added)
        BY <1>3, <2>4, ChainReaches
      <3>2. c[i].pkg \in Reach(Edges, c[i].added)
        BY <1>1, <2>2, <3>1, EdgesFacts, ReachClosed
      <3> QED BY <1>1, <1>2, <3>2, BackMeansCyclic
    <2>5. i = Len(c) \/ i < Len(c)
      <3>1. Len(c) \in Nat /\ i \in 1..Len(c)
        BY <1>3, <2>1
      <3> HIDE DEF Closes
      <3> QED BY <3>1
    <2> QED BY <2>3, <2>4, <2>5
  <1>5. CASE TooDeep(c)
    <2> DEFINE W == Extended(matched)
               f == [n \in 1..Len(c) |-> c[n].pkg]
    <2>1. IsFiniteSet(W) /\ Cardinality(W) <= MaxChain /\ MaxChain \in Nat
      <3>1. MaxChain \in Nat
        BY ImportTrackingAssumption, Zenon
      <3> QED BY <3>1 DEF RoomToWait, Shapes
    <2>2. IsFiniteSet(1..Len(c)) /\ Cardinality(1..Len(c)) = Len(c)
      BY <1>3, FS_Interval
    <2>3. f \in [1..Len(c) -> W]
      BY <1>1 DEF Follows, Extended
    <2>4. Cardinality(W) < Cardinality(1..Len(c))
      <3>1. Cardinality(W) \in Nat
        BY <2>1, FS_CardinalityType
      <3> QED BY <1>3, <1>5, <2>1, <2>2, <3>1 DEF TooDeep
    <2>5. \E i, j \in 1..Len(c) : i # j /\ f[i] = f[j]
      <3> HIDE DEF W, f
      <3> QED BY <2>1, <2>2, <2>3, <2>4, FS_PigeonHole
    <2>6. \E i, j \in 1..Len(c) : i < j /\ c[i].pkg = c[j].pkg
      <3>1. PICK i \in 1..Len(c), j \in 1..Len(c) : i # j /\ c[i].pkg = c[j].pkg
        BY <2>5
      <3>2. i < j \/ j < i
        BY <3>1
      <3> QED BY <3>1, <3>2
    <2>7. PICK i \in 1..Len(c), j \in 1..Len(c) : i < j /\ c[i].pkg = c[j].pkg
      BY <2>6
    <2>8. c[i].pkg \in Reach(Edges, c[i].added)
      BY <2>7, ChainReaches
    <2> QED BY <1>1, <1>2, <2>8, BackMeansCyclic
  <1> QED BY <1>4, <1>5

-----------------------------------------------------------------------------
(* The theorems.                                                           *)

\* Processes, cache, importcfgs and tracking files agree in every reachable state.
THEOREM ImportTrackingInvariant == Spec => []ImportInv
  <1>1. ImportInv /\ [Next]_vars => ImportInv'
    <2> SUFFICES ASSUME ImportInv, [Next]_vars PROVE ImportInv'
      OBVIOUS
    <2>1. ASSUME NEW c \in DOMAIN commands, NEW p \in Packages, Hit(c, p) \/ StartCompile(c, p)
          PROVE  ImportInv'
      BY <2>1, HitKeeps, StartCompileKeeps
    <2>2. ASSUME NEW k \in running,
                 \/ \E q \in k.todo : Resolve(k, q) \/ ResolveRefused(k, q)
                 \/ \E c \in Nested(k) : Resolved(k, c) \/ ResolvedFails(k, c)
          PROVE  ImportInv'
      BY <2>2, ResolveKeeps, ResolveFailsKeeps, ResolvedKeeps
    <2>3. ASSUME NEW k \in running,
                 TrackBegin(k) \/ TrackEnd(k) \/ TrackFails(k) \/ Compile(k)
          PROVE  ImportInv'
      BY <2>3, TrackBeginKeeps, TrackEndKeeps, CompileKeeps
    <2>4. ASSUME NEW m \in Mains, Link(m)
          PROVE  ImportInv'
      BY <2>4, LinkKeeps
    <2>5. CASE Finish \/ Kill \/ PlainBuild
      BY <2>5, EndBuildKeeps, PlainBuildKeeps
    <2>6. ASSUME NEW rules \in Rules, NEW clean \in BOOLEAN, StartBuild(rules, clean)
          PROVE  ImportInv'
      BY <2>6, StartBuildKeeps
    <2>7. CASE UNCHANGED vars
      BY <2>7 DEF vars, build, ImportInv, Shapes, ProcessTree, Nested, Wanted, CacheAcyclic,
                  Stored, EdgesOf, AllCurrent, Current, Compiling, FilesTell, Covers, Chains, Follows,
                  ColdLinkComplete, LinkComplete, ImportedBy
    <2> QED BY <2>1, <2>2, <2>3, <2>4, <2>5, <2>6, <2>7 DEF Next, BuildStep
  <1> QED BY ImportsStart, <1>1, PTL DEF Spec

\* Shapes, and the tree of processes behind them, for every build.
THEOREM ImportTypes == Spec => []TypeOK
  <1>1. ImportInv => TypeOK
    <2> SUFFICES ASSUME ImportInv PROVE TypeOK
      OBVIOUS
    <2>1. Shapes /\ ProcessTree
      BY DEF ImportInv
    <2> QED BY <2>1 DEF Shapes, ProcessTree, TypeOK, CachedRecord, CommandRecord, CompileRecord,
                        FileRecord, LinkRecord
  <1> QED BY ImportTrackingInvariant, <1>1, PTL

\* With the answer to -V=full in every key, no archive of other rules is linked.
THEOREM ArchivesCurrentHolds == Spec => []ArchivesCurrent
  <1>1. ImportInv => ArchivesCurrent
    <2> SUFFICES ASSUME ImportInv, NEW l \in linked, NEW a \in l.cfg PROVE a.by = matched
      BY DEF ArchivesCurrent
    <2> DEFINE b == [pkg |-> a.pkg, by |-> a.by, key |-> matched]
    <2>1. b \in cache /\ b.by = a.by /\ b.key = matched /\ matched # Plain
      BY PackageFacts DEF ImportInv, AllCurrent, Current, Shapes
    <2> HIDE DEF b
    <2> QED BY <2>1 DEF ImportInv, CacheAcyclic
  <1> QED BY ImportTrackingInvariant, <1>1, PTL

\* interceptLink of a build over an empty cache has all that the linker loads.
THEOREM ColdLinkCompleteHolds == Spec => []ColdLinkComplete
  <1>1. ImportInv => ColdLinkComplete
    BY DEF ImportInv
  <1> QED BY ImportTrackingInvariant, <1>1, PTL

\* A program is linked only from archives in the cache, and no cycle gets into it.
THEOREM CyclesFailHolds == Spec => []CyclesFail
  <1>1. ImportInv => CyclesFail
    <2> SUFFICES ASSUME ImportInv, NEW l \in linked, Cyclic(Reach(Edges, l.main)) PROVE FALSE
      BY DEF CyclesFail
    <2>1. Shapes /\ CacheAcyclic /\ AllCurrent /\ matched \in Rules
      BY DEF ImportInv, Shapes
    <2>2. l.main \in Packages /\ l.main \in Stored(matched)
      <3>1. PICK a \in l.cfg : a.pkg = l.main
        BY <2>1 DEF AllCurrent, Names
      <3>2. [pkg |-> a.pkg, by |-> a.by, key |-> matched] \in cache
        BY <2>1 DEF AllCurrent, Current
      <3>3. l.main \in Stored(matched)
        BY <3>1, <3>2, StoredUnder
      <3> QED BY <2>1, <3>3, PackageFacts DEF Shapes, LinkRecord
    <2>3. Stored(matched) \in SUBSET Packages
      BY <2>1 DEF Stored, Shapes, CachedRecord
    <2>4. \A p \in Packages : Edges[p] = EdgesOf(matched, p)
      BY <2>1, EdgesFacts DEF EdgesOf
    <2>5. \A p \in Stored(matched) : Edges[p] \subseteq Stored(matched)
      <3>1. \A p \in Stored(matched) : EdgesOf(matched, p) \subseteq Stored(matched)
        <4> TAKE p \in Stored(matched)
        <4>1. PICK a \in cache : a.pkg = p /\ a.key = matched
          BY StoredUnder
        <4>2. matched # Plain
          BY <2>1, PackageFacts
        <4> QED BY <2>1, <4>1, <4>2 DEF CacheAcyclic
      <3> QED BY <2>3, <2>4, <3>1
    <2>6. Reach(Edges, l.main) \subseteq Stored(matched)
      BY <2>2, <2>3, <2>5, ReachLeast
    <2>7. PICK S \in SUBSET Reach(Edges, l.main) : S # {} /\ \A p \in S : Edges[p] \cap S # {}
      BY DEF Cyclic
    <2>8. PICK p \in S : EdgesOf(matched, p) \cap S = {}
      BY <2>1, <2>6, <2>7 DEF CacheAcyclic
    <2> QED BY <2>3, <2>4, <2>6, <2>7, <2>8
  <1> QED BY ImportTrackingInvariant, <1>1, PTL

\* A compile fails only where enterNestedResolution has found a cycle, and takes
\* down those that wait for it.
LEMMA FailuresFollowCycles ==
  ASSUME ImportInv, RoomToWait, AcyclicBuilds, [Next]_vars
  PROVE  AcyclicBuilds'
  <1>1. Shapes
    BY DEF ImportInv
  <1>2. ASSUME matched' = matched
        PROVE  Cyclic(Packages)' = Cyclic(Packages)
    BY <1>2 DEF Cyclic, Edges
  <1>3. ASSUME NEW c \in DOMAIN commands, NEW p \in Packages, Hit(c, p) \/ StartCompile(c, p)
        PROVE  AcyclicBuilds'
    <2>1. /\ matched' = matched /\ DOMAIN commands' = DOMAIN commands
          /\ \A d \in DOMAIN commands : commands'[d].failed = commands[d].failed
      BY <1>1, <1>3 DEF Hit, StartCompile, build, Shapes, CommandRecord
    <2> QED BY <1>2, <2>1 DEF AcyclicBuilds
  <1>4. ASSUME NEW k \in running, NEW q \in k.todo, ResolveRefused(k, q)
        PROVE  AcyclicBuilds'
    <2>1. Follows(NestedChain(k, q))
      BY NestedFollows
    <2>2. NestedChain(k, q) \in Seq(Waits) /\ NestedChain(k, q) # <<>>
      BY <1>1, AppendWaits DEF Shapes, CompileRecord
    <2>3. matched' = matched /\ (Closes(NestedChain(k, q)) \/ TooDeep(NestedChain(k, q)))
      BY <1>4 DEF ResolveRefused, build
    <2>4. Cyclic(Packages)
      BY <1>1, <2>1, <2>2, <2>3, RefusedMeansCyclic
    <2> QED BY <1>2, <2>3, <2>4 DEF AcyclicBuilds
  <1>5. ASSUME NEW k \in running, NEW c \in Nested(k), ResolvedFails(k, c)
        PROVE  AcyclicBuilds'
    <2>1. Cyclic(Packages)
      BY <1>5 DEF ResolvedFails, AcyclicBuilds, Nested
    <2>2. matched' = matched
      BY <1>5 DEF ResolvedFails, build
    <2> QED BY <1>2, <2>1, <2>2 DEF AcyclicBuilds
  <1>6. ASSUME NEW k \in running, NEW q \in k.todo, Resolve(k, q)
        PROVE  AcyclicBuilds'
    <2>1. /\ matched' = matched
          /\ \A c \in DOMAIN commands' :
               commands'[c].failed = {} \/ (c \in DOMAIN commands /\ commands'[c] = commands[c])
      <3> HIDE DEF NestedChain
      <3> QED BY <1>6 DEF Resolve, build, NewCommand
    <2> QED BY <1>2, <2>1 DEF AcyclicBuilds
  <1>7. ASSUME NEW k \in running, NEW c \in Nested(k), Resolved(k, c)
        PROVE  AcyclicBuilds'
    <2>1. /\ matched' = matched
          /\ \A d \in DOMAIN commands' : d \in DOMAIN commands /\ commands'[d] = commands[d]
      BY <1>7 DEF Resolved, build
    <2> QED BY <1>2, <2>1 DEF AcyclicBuilds
  <1>8. ASSUME NEW k \in running, TrackBegin(k) \/ TrackEnd(k) \/ TrackFails(k)
        PROVE  AcyclicBuilds'
    <2>1. matched' = matched /\ commands' = commands
      BY <1>8 DEF TrackBegin, TrackEnd, TrackFails, build
    <2> QED BY <1>2, <2>1 DEF AcyclicBuilds
  <1>9. ASSUME NEW k \in running, Compile(k)
        PROVE  AcyclicBuilds'
    <2>1. /\ matched' = matched /\ DOMAIN commands' = DOMAIN commands
          /\ \A d \in DOMAIN commands : commands'[d].failed = commands[d].failed
      BY <1>1, <1>9 DEF Compile, build, Shapes, CommandRecord
    <2> QED BY <1>2, <2>1 DEF AcyclicBuilds
  <1>10. CASE Finish \/ Kill \/ \E rules \in Rules, clean \in BOOLEAN : StartBuild(rules, clean)
    <2>1. \A c \in DOMAIN commands' : commands'[c].failed = {}
      BY <1>10 DEF Finish, Kill, StartBuild, NewCommand
    <2> QED BY <2>1 DEF AcyclicBuilds
  <1>11. CASE PlainBuild \/ (\E m \in Mains : Link(m)) \/ UNCHANGED vars
    <2>1. matched' = matched /\ commands' = commands
      BY <1>11 DEF PlainBuild, Link, build, vars
    <2> QED BY <1>2, <2>1 DEF AcyclicBuilds
  <1> QED BY <1>3, <1>4, <1>5, <1>6, <1>7, <1>8, <1>9, <1>10, <1>11 DEF Next, BuildStep

\* enterNestedResolution refuses the rules that go could not have compiled, and no
\* others, if every package that a rule adds imports to may wait once.
THEOREM CyclesDecideHolds ==
  ASSUME RoomToWait
  PROVE  Spec => []CyclesDecide
  <1>1. Init => AcyclicBuilds
    BY DEF Init, AcyclicBuilds
  <1>2. ImportInv /\ AcyclicBuilds /\ [Next]_vars => AcyclicBuilds'
    BY FailuresFollowCycles
  <1>3. CyclesFail /\ AcyclicBuilds => CyclesDecide
    BY DEF CyclesDecide
  <1> QED BY ImportTrackingInvariant, CyclesFailHolds, <1>1, <1>2, <1>3, PTL DEF Spec

=============================================================================
