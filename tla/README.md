# A verification project for otelc

otelc instruments Go programs with OpenTelemetry at compile time. `otelc go
build` edits the user's module (go.mod, go.sum, a tool file, a generated
`otelc.runtime.go` per package), runs `go build -toolexec=otelc` so that every
compile and link command passes through it, and puts the module back. The
program it builds carries hooks and a small runtime. This project models both:
the tool, from the command line to the edited syntax tree, and what the code it
weaves in does when the program runs.

## 1. The system

Paths are relative to `src/`; `setup/` is `tool/internal/setup/`, `instrument/`
is `tool/internal/instrument/`, `hooks/` is `instrumentation/`.

| Component | State | Operations | What is hard, what must hold |
|---|---|---|---|
| Build lock (`setup/lock.go`) | a lock file next to `.otelc-build`, an flock on its inode, a held marker in the context | acquire (poll every 200 ms), verify, release, nested calls | the holder unlinks the file, so a waiter may win a nameless inode; Windows cannot unlink an open file; crashes. One section at a time, no file left behind, no self-deadlock |
| Build session (`setup/state.go`, `cleanup.go`) | module files, snapshots, `state.json`, `stateManager.files` in memory | Track, TrackAll, Commit, Revert, Discard, Cleanup | kills between any two file operations, failing copies. The user's content is always in place or restorable, and restored at the end |
| Commands (`setup/setup.go`, `pin.go`, `add.go`, `sync.go`) | the module's files | go build, setup, pin, their phases | edits only after tracking; pin must settle: what it writes it must accept the next time |
| Command line (`setup/args.go`, `vendor.go`, `setup.go`) | none | classification of the user's words, the instrumented command | otelc must read a line as the go command does |
| Rule files (`setup/match.go`, `tool/internal/rule`) | rules by entry name | load, normalise, construct, override | order, duplicates, errors |
| Matching and injection (`setup/match.go`, `find.go`, `filter.go`, `inject.go`, `config.go`, `instrument/match.go`) | dependencies, rule sets in the order their goroutines end, `matched.json` | matchDeps, injection passes to a fixpoint, the walk over instrumentation modules, the look-up in each compile | each compile applies exactly the rules for it, and the rules of what they inject |
| Compiler wrapper (`instrument/toolexec.go`, `tool/internal/imports`) | importcfg files, import tracking files, the resolution chain in the environment | compile, nested `go list -export`, link | many processes at once; files written by compiles and read by the link; nested resolution must end |
| Code transformation (`instrument/trampoline.go`, `optimize.go`, `apply_*.go`, `imports.go`) | syntax trees | trampolines and their flattening, call, literal, raw, directive, declaration and struct rules, added imports | the woven code compiles, means what the rule's author meant, and keeps before / skip / after / panic in order |
| Goroutine-local trace context (`hooks/go.opentelemetry.io/otel/sdk/trace`, `hooks/runtime`) | a stack of spans per goroutine, a shared bounded map of spans in flight | add, del, tail, compact, clone at `go`, eviction | spans ended on other goroutines, clones that outlive their creator, full stack, full map |
| Runtime setup (`pkg/runtime`) | once-initialised providers, a configuration cache | SetupOTelSDK, Instrumented | the switch is asked again and again while the environment may change |
| Hooks of net/http, database/sql, OpenAI, AMQP, kafka-go and other libraries | spans, contexts in hook data, wrapped writers, bodies and callbacks | Before, After, and what the wrappers intercept | handles made from handles, calls inside calls, shared headers, partial failures, two goroutines on one stream |
| Tools, demo, tests | none | none | outside the product |

How they interact. Commands run under the build lock; a nested command (GoBuild
calls Setup, Setup calls Pin, GoBuild's deferred function calls Cleanup) finds
the marker in its context. Commands call Track on the session's state manager
before each edit; Cleanup consumes it or, in a new process, what the manifest
says. Setup reads the command line for the packages, asks the go command for a
dry run, matches the loaded rules against every compile in it and leaves
`matched.json` for the wrapper processes of the build. Each of those looks its
rule set up by `-p`, edits the files and calls the go command again for the
imports it added. In the instrumented program the trampolines call the hooks,
the hooks call the runtime, and the trace context hooks sit in the SDK's span
constructor, in `span.End`, in `trace.SpanFromContext` and in the scheduler's
`newproc1`.

## 2. The modules

| Module | Models | Checked in run |
|---|---|---|
| `Mutex` | what the build lock promises (abstract) | |
| `BuildLock` | `setup/lock.go`; implements `Mutex` | `lock` |
| `BuildSession` | `setup/state.go`, `cleanup.go`, the phases of `setup.go`, `pin.go`, `add.go`; takes the lock as `Mutex` has it | `session`, `next_build` |
| `ImportTracking` | `instrument/toolexec.go`: added imports, from compile to link, and the cache keys | `imports`, `shared_cache`, `warm_cache` |
| `SpanTracker` | `otel_trace_context.go`, `gls.go`, `runtime_gls.go`, `trace/hook.go` | `span_tracker` |
| `PendingAcks` | the spans of AMQP deliveries that wait for an ack, on one channel | `pending_acks`, `acks_late` |
| `CommandLine` | `setup/args.go`, `setup.go`, `vendor.go` | `instrumentation` |
| `RuleFiles` | `setup/match.go` (loading), `tool/internal/rule` | `instrumentation` |
| `RuleMatching` | `setup/find.go`, `match.go`, `filter.go`, `store.go`, `rule/target.go`, `instrument/match.go` | `instrumentation`, `shared_path` |
| `Pinning` | `setup/pin.go`, `sync.go`, `config.go`, `inject.go`, `add.go` | `instrumentation` |
| `HookSignature` | `instrument/trampoline.go`, `apply_func.go`: types and names of a hook and its target | `instrumentation` |
| `CodeRules` | `instrument/apply_*.go`, `imports.go`, `tool/internal/ast` | `instrumentation`, `nested_calls` |
| `Trampoline` | `instrument/trampoline.go`, `optimize.go`, `apply_func.go` and the ignore brackets, at run time | `instrumentation` |
| `SqlHooks`, `DsnParse` | `hooks/database/sql` | `instrumentation` |
| `HttpHooks` | `hooks/net/http` | `instrumentation` |
| `GenAIStream` | `hooks/github.com/openai/openai-go` | `instrumentation` |
| `ClientHooks` | `pkg/runtime` and the hooks of OpenSearch, Elasticsearch, Stripe, linodego, client-go, go-redis, kafka-go readers, gRPC and gin | `instrumentation` |
| `KafkaWriter` | `hooks/github.com/segmentio/kafka-go/producer` | `instrumentation` |
| `BuildLockProofs`, `BuildSessionProofs`, `ImportTrackingProofs`, `SpanTrackerProofs`, `PendingAcksProofs`, `TrampolineProofs` | proofs about the module they are named for | |
| `SetupProofs` | proofs about `Pinning`, `RuleMatching` and `RuleFiles` | |
| `HooksProofs` | proofs about `KafkaWriter`, `HttpHooks`, `SqlHooks`, `DsnParse`, `GenAIStream` and `ClientHooks` | |
| `MC*` | instances; `MCParts`, `MCBuildTool`, `MCHooks` and `MCInstrumentation` put the components of the run `instrumentation` together | |

A module is one component; its variables are the component's state, an action is
one handler, hook or system call with all it changes. What the prose below does
not mention of a module is said in its comments.

### The build: BuildLock, BuildSession, ImportTracking

`BuildLock`. An invocation's `pc` is a position in acquireBuildLock,
tryAcquire, the section or releaseFunc; each system call is a step of its own.
`path` is the inode the lock path names, `handle` the inode each open handle
refers to, `owner` the holder of each inode's flock, `depth` how many
withBuildLock calls are on the context chain. An inode is reused as soon as no
path and no handle refers to it, so that `os.SameFile` could be deceived if the
code let it. `Windows` selects the two platforms: there an open file cannot be
removed, and opening or statting one may fail transiently. Faults are crashes at
any point, Ctrl-C while waiting, and errors of the attempt. The work dir may be
missing (the lock is then skipped) and may be created by another command.
`littered` remembers that a fault may have left a lock file.

`BuildSession`. A file's content is one of the user's `Versions`, `Tool`
(something otelc wrote), `Torn` (a copy that was cut short) or `NoFile`.
`util.CopyFile` is two steps, truncation and completion; the manifest is
replaced in one (`WriteFileAtomic` renames). `mem` is `stateManager.files`,
`manifest` what state.json says; an entry is `untracked`, `absent` (the `-`
prefix) or `existed`. `Backup` files are those of `getBackupFiles`, tracked all
together before Pin edits them; `Runtime` files are the otelc.runtime.go files,
each tracked just before its own edit. `user` is a history variable: what the
user, or a standalone `otelc pin`, which edits for good and tracks nothing, last
put there. `Faults` names the file operations that may fail, `OverManifest`
whether a build, setup or pin may start while the manifest of an earlier
invocation is there: the code allows it, the docs ask for `otelc cleanup` first.
Revert iterates over a Go map, so its order is any order.

`ImportTracking`. The packages of a build, what they import and what each of a
set of numbered rule sets adds to them are constants. A go command is identified
by its resolution chain: `<<>>` is the build, and a nested `go list -export` has
the chain of the compile that waits for it with one more pair, which is what the
environment variable carries. `commands` holds what each has built and failed;
go's scheduling is external, as is the build cache, whose entries
`[pkg, by, key]` say which rules compiled the archive and which answer to
`-V=full` it is stored under. A compile takes up the imports it has `todo` one by
one, each resolved by a nested command or refused (`Closes`, `TooDeep`), and
writes its tracking file in two steps. `Link` joins go's importcfg with every
tracking file; it is complete (`LinkComplete`) when it has every package that the
linker loads, starting from the main package and following the imports of the
archives it finds there. Faults are kills, a tracking file that cannot be written (the code
only warns), and the id of an ended compile being given to a new one.

### From the rules to a compile: CommandLine, RuleFiles, RuleMatching, Pinning

`CommandLine`. A word is `-name`, `-name=value` or plain. `GoReads` is the go
command's own reading, which is external, and the reference; the classification
of args.go is translated word by word, with the flags it knows. One behaviour
types a line, which otelc rejects, or reads for its setup and turns into the
words after `go build` and OTELC_BUILD_FLAGS.

`RuleFiles`. An entry is the set of its keys and the items of `do`. A behaviour
reads a list of files, which comes from OTELC_RULES, -rules or the walk over the
tool files: each is normalised, validated and grouped by name, replaces the groups
of the same name (a rule list) or adds to them (tool files), or ends setup.

`RuleMatching`. A dry run is a sequence of `cd`, `cgo` and compile commands, a
source file what the matcher asks of its syntax tree. Each dependency is matched
by its own goroutine, whose end appends its rule set to `matched`; the sets are
stored, and each compile takes the first with its `-p` and applies it file by
file.

`Pinning`. A project is its modules, tool files, the instrumentation packages they
may name and the import graph. A build pins (or checks and prunes), brings go.mod
in line, walks the tool files to the rules, matches pass by pass until a pass
injects nothing new, and generates the runtime files; then a second build follows
on what the first has left.

### The edits of the source: HookSignature, CodeRules, Trampoline

`HookSignature` holds three functions of the weaving and compares each with what
Go demands: whether a hook is accepted, and its call compiles, for a target's
parameter types; the names that parameters and results get, rule after rule; the
constraints of type parameters in a receiver's names.

`CodeRules`. A tree is a node with its kids, marked by who wrote it (`by`), the
qualifier as written and the package its author `means`. An action applies the
next rule of the file with all its edits, in the order of instrumentFile: call
rules collect the matching calls, clone each into its template and let Apply
replace it; the imports a rule needs take the file's alias, keep their own or are
added. Templates are trees with holes.

`Trampoline`. A function with hooks is a sequence of levels, one per identity of
a rule; `Form` is what optimize.go makes of the level's jump. A goroutine's frames
of the function are `calls`; a frame knows its level, its deferred calls (After
trampolines by level, the fallback of an ignore bracket, a recover of the
application), its result, and histories of the hooks that ran. A Before hook may
ask to skip and may panic; the body may return, panic, call the function again and
open one bracket, within which no hook of the goroutine runs.

### The hooks

`SpanTracker`. `stack[g]` is the linked list of a goroutine's traceContext, the
newest span first; `n` and `lcs` are its counter and local root; `states` and
`order` are the shared map and its eviction list; `ended` is the flag a span's
wrappers share. A method of traceContext runs on its own goroutine and touches
shared state under the mutex or through an atomic flag, so `add`, `del`, `tail`
and `Clone` are one step each, except for `compact`, which reads one flag after the
other while other goroutines end spans. `End` may be called by any goroutine, and
again.

`PendingAcks`. The goroutines are the wrapper of each Consume call, those that
call Get, those that settle, and the one that runs `Channel.shutdown`; `at` is
where each of them is. `acks` holds the pendingAcks: one per Consume call, and the
channel's, of which 1 is the one channelAcks has until the hook of shutdown removes
it and 2 the one that a later registration creates. What a goroutine has taken out
under a lock is in `toEnd` until it ends those spans, one per step, while others go
on. The library is external. A delivery that was settled is not settled again,
which the broker would answer with a protocol error.

`SqlHooks`. `handles` are the DBs, Conns, Txs and Stmts made so far with the
fields that the instrumentation adds to them; a call is a Before and an After
hook which share their data, and `Open` has an `OpenDB` inside it. `DsnParse` has
for each dialect the forms its driver documents and the parser's code, over
sequences of words and separators.

`HttpHooks`. Goroutines send requests to an instrumented server; `wrapper` is the
writerWrapper, `sent` what the client is given. Requests may share a header map
and be of the application, below another instrumentation, or of the exporter.

`GenAIStream`. The network cuts a stream anywhere: a Read brings the rest of a
line, some lines and a piece of the next; another goroutine may Close the body
while a Read waits. `reader` has the fields of StreamingReader.

`ClientHooks` gives for each hooked function what its hooks do (which switch they
ask, where the span starts, whether they silence net/http's, whether After asks
again, what its body calls); any of them may be called inside another, and the
program may set the environment at any moment.

`KafkaWriter`. Goroutines share a Writer; the wrapper around `w.Completion` is
installed under a sync.Once in steps of their own, batches fail in part, and an
asynchronous writer's batches complete later. What `kafkaEnabler.Enable()` answers
is chosen anew in each call: a call made while it answers no, or with no messages,
has no spans and does not wait for the wrapper, and its batch is counted in `bare`
instead of `inFlight`.

## 3. What TLC checks

| Run | Instance | Properties |
|---|---|---|
| `lock` | 2 invocations, 3 inodes, nesting 3, POSIX and Windows, fair | `NoLitter`; `Implements`: the lock is a `Mutex`; `SectionEnds`: nested calls do not wait for themselves; `SomebodyRuns`: nobody waits while nobody runs |
| `session` | 2 invocations, 2 backed-up files, 1 runtime file; every fault but a failing Commit; no start over a manifest; fair | `AlwaysRecoverable`, `Restores`, `SnapshotsKept`, `SessionEnds` |
| `next_build` | 1 invocation, start over a manifest | violated, section 5 |
| `imports` | 2 programs over 7 packages, 9 rule sets, chains of 3, one build, fair | `ColdLinkComplete`, `CyclesDecide`, `BuildEnds` |
| `shared_cache` | 1 program, 3 rule sets, 2 builds over one cache; kills, lost files, plain builds between | `ArchivesCurrent` |
| `warm_cache` | 1 program, 2 builds, no fault | violated, section 5 |
| `span_tracker` | 3 goroutines, 4 spans, 2 per stack, 2 in the map | `NoStaleParent`, `LiveSpansKept`, `DropsOnlyLiveStack` |
| `pending_acks` | 1 Consume, 1 Get, 2 settlers, 2 deliveries | `SettledEnds`, `EndJustified`, `TeardownEnds` |
| `acks_late` | the same | violated, section 5 |
| `instrumentation` | the components of the table above that name it, one (`part`) in each behaviour | see below |
| `nested_calls` | the part `code` | violated, section 5 |
| `shared_path` | the part `matching`, two compiles under one `-p` | violated, section 5 |

The run `instrumentation` checks thirteen components that do not share state.
`MCInit` chooses a `part`; its component behaves as its module says and the others
stay as they start. Nothing is lost by it: each of them is an independent system,
and their product would only repeat the same steps in every order.

| Part | Instance | Properties |
|---|---|---|
| `line` | lines of up to 3 words of 12, two environments, vendored or not | `SameBuildAsAsked`: the packages setup loads and the build that runs are those of the line as go reads it |
| `files` | lists of up to 3 of four good files, and each of six odd ones between two | `FilesApplyAsListed` |
| `matching` | 2 dry runs with cgo and 2 or 3 compiles, 12 rules, one or two at a time | `RulesReachTheirCompile` |
| `pinning` | 240 projects of two modules, three instrumentation packages with nested tool files, two builds each | `InjectedCodeIsMatched`, `PinSettles` |
| `signature` | one parameter of 18 types against every hook; up to 4 names, one or two rules; receivers of two parameters | `FitsTarget` |
| `code` | small files and rule lists of `MCCodeRules` | `QualifiersResolve`, `EditsReachNestedSites` |
| `trampoline` | every one or two rules on a function, calls nested twice | `HooksPaired`, `CallOutcome`, `SuppressionBalanced` |
| `sql` | 1 data source, 4 handles, 2 spans | `SpansDescribeTheirHandle`, `CommitsJoinBegin` |
| `http` | 2 goroutines, 3 spans, every order of the writer's calls | `TraceContinues`, `HttpSpansTell` |
| `genai` | 3 lines cut anywhere, 2 choices, characters of 1 and 2 bytes, 2 bytes kept | `EndedOnce`, `StatusTellsOutcome`, `CaptureIgnoresChunks` |
| `dsn` | six dialects in all their forms, an IPv6 host, passwords with separators, no database | `DsnPartsFound` |
| `clients` | 5 environments, 4 hooked calls | `HooksStayBalanced`, `OneSpanPerOperation` |
| `kafka` | 2 goroutines, 4 calls, 2 messages each | `WritesTellTheirOutcome` |

Why the bounds are enough. Lock: the known bad interleaving takes a releaser, the
owner of a stale handle and a creator; a process may start over, so that two play
the three roles in turn, and the theorems have any number of each. One inode per
invocation plus one lets each have its own while another is free; three is the
depth of GoBuild > Setup > Pin, the deepest nesting of the code. Session: two
backed-up files are what it takes for one to succeed and another to fail, and a
second invocation for a cleanup after a kill; any number follow each other.
Imports: three packages can be given imports, so a chain of added imports has at
most three members, and `MaxChain` = 3 is the tightest limit that refuses none of
them; `px` is outside both programs and imports `pc`, which is inside, so that
outer and nested commands compile the same package. Spans: an entry in front, a
victim and a newcomer exceed a map of two; a stack of two holds a live span above
an ended one; three goroutines can start, end and inherit a span each. Acks: two
deliveries are an older and a newer one, which is what `multiple` tells apart; in
`MCSpec` calls with the same tag do not run at the same time, a bound the theorems
do not have. Command lines: three words are a flag, its value and a target, or a
flag in the place of a value. Rules on a function: two are an outer and an inner
level. Handles: four are DB, Conn, Tx and Stmt, the longest chain there is. Clients:
four calls are an operation, a nested one and two attempts. Kafka: four calls let
both goroutines call again after the wrapper is in place. Matching: two
compiles are enough for the second to end first; of the third nothing matches. Files:
three let a file come back after another that has its names. For all of these but
the command lines the theorems of section 4 have any number.

Some properties say where they do not apply, always because the code documents or
plainly accepts it: `RulesReachTheirCompile` to compiles that share `-p` (that is
`shared_path`); `PinSettles` to tool files of two modules that name the same dead
import; `HttpSpansTell` to a response begun by Flush or Hijack; `HooksStayBalanced`
to After hooks that ask the switch again; `SpansDescribeTheirHandle` and
`CommitsJoinBegin` to a switch that changes (`SqlHooks` chooses it once);
`WritesTellTheirOutcome` to the log of a batch written while the switch was off, of
which it says only that no failure is logged twice; `QualifiersResolve` to appended arguments
and to a rule's own alias hidden by a local name; `SpansDescribeTheirHandle` to the
statement text after Tx.StmtContext. Section 5 lists what the code does there.

`instrumentation`, `nested_calls`, `shared_path`, `pending_acks` and `acks_late` do
not check for deadlock: a tool ends, and once a channel is shut down and all is
settled nothing need happen. All others do.

Fairness. `BuildLock!Fairness`: the scheduler runs every process and timers fire
(weak fairness per step); opening and verifying are strongly fair, since a
transient Windows error interrupts an attempt but does not meet every attempt for
ever; a section that keeps being at some nesting level returns from it (strong, as
a nested call may disable the return for a while). Nobody must start an
invocation, and no fault must happen. The poll is not a queue, so a waiter can be
overtaken for ever; nothing is claimed for an individual waiter.
`BuildSession!Fairness`: a process that runs takes its next step, and Pin, which
may write again and again in the model, ends. `ImportTracking!Fairness`: as long as
some process of a build can take a step, one does; no build need be killed. The
components of `instrumentation` are checked for safety only: their hooks and stages
run to their end in the goroutine that calls them, and none waits for another.

## 4. What is proved

TLAPS proves the following for all values of the constants.

`BuildLockProofs`, for both platforms, from `BuildLockAssumption` only:

* `LockInvariant`: `LockInv` is inductive. Exclusion alone is not: it needs
  that an flock belongs to a process that has that inode open, that whoever is
  past the try owns the inode its handle names, and that, as long as a section
  runs, the path names the locked inode. The last holds because only the holder
  removes the file while it holds it, and on Windows nobody can remove it while
  it is open; `MutualExclusionHolds` then follows: two holders would both have
  the inode the path names, and an inode has one owner.
* `NoLitterHolds`, by `LitterInv`: unless a fault left it, an existing lock file
  is the business of an invocation that is still to open or to remove it.
* `LockImplementsMutex`: each step enters, leaves or stutters.
* `LockTypes`.

`BuildSessionProofs`, from `BuildSessionAssumption`, and assuming that Commit
does not fail and that no build starts over a manifest. The second cannot be
dropped, as `next_build` shows, nor can the first: Track has the file in memory
before it commits the manifest, and the deferred Revert after a failed Commit
copies over a file that no manifest names (`state.go:178`, `189`).

* `SessionInvariant`: `SessionInv` is inductive. `DiskInv` says what the files
  on disk tell a later cleanup (a snapshot may be missing only when its file is
  in order), `EditInv` what an invocation knows while it edits (the manifest is
  its memory, and only a tracked file is edited), `CleanInv` what it knows while
  it restores (whatever the loop has passed is in order, unless an error was
  recorded).
* From it `AlwaysRecoverableHolds`, `RestoresHolds`, `ConsumesHolds`,
  `SnapshotsKeptHolds` (an action property), `SessionUsesLock` and `SessionTypes`.

`SessionUsesLock` and `LockImplementsMutex` meet in `Mutex`: the sessions rely on
no more than the lock file protocol provides, for a work dir that exists; without
one the code takes no lock at all.

`PendingAcksProofs`, from `PendingAcksAssumption`, for any numbers of Consume calls,
Gets, settling goroutines and deliveries:

* `AcksInvariant`: `AcksInv` is inductive. That a registered span is ended or
  about to be says too little about the time before: `KeptInv` says where each
  span is until then (in the list that shutdown will take, or with a goroutine
  that is about to end it), `EntryInv` that until the hook of shutdown has run
  all deliveries share one list, and that channelAcks has it as soon as one of
  them does, `LocalInv` the same of a Consume call's list. `SettledInv` carries
  what the hook of a settle call has found through the rest of the call: between its
  look-up in channelAcks (`AcksLookup`) and its settle (`SettleHook`) shutdown may
  take the list away.
  `HoldsInv`, `ListsInv`, `TakersInv` and `CallsInv` tie the goroutines to the
  deliveries they work on; from the last two, a span is taken only by
  somebody with a reason to end it, hence `EndJustified`.
* From it `SettledEndsHolds`, `TeardownEndsHolds`, `WrapperLeavesNoneHolds`,
  `EndJustifiedHolds` and `AcksTypes`.

`TrampolineProofs`, for any lists of rules and any depth of nested calls:

* `TrampolineInvariant`: `TrampolineInv` is inductive. The three properties speak of
  calls that have ended, or only of the count, so each needs to know what is still
  deferred. `DeferredInv` says that the deferred calls are the After trampolines of
  the levels passed, in their order, and then those of the body, and that the After
  hooks that ran are of later levels; `PairInv` that a Before hook that ran waits
  there for its After hook or has met it; `BracketInv` that an open bracket has its
  deferred end; `OutcomeInv` whose panic is on its way and who will recover it.
  Hooks could be silenced between a Before and its After by a bracket opened in the
  meantime; `Heard` says that they are not: all levels of a frame ran their Before
  hooks exactly if no bracket is open in a frame below it, and a frame's own bracket
  is closed before its After trampolines run.
* From it `HooksPairedHolds`, `CallOutcomeHolds` and `SuppressionBalancedHolds`.

`ImportTrackingProofs`, for any packages and imports, any rule sets, any number of
builds over one cache and every fault. `ImportTrackingAssumption` has one thing that
the code does not do itself: go refuses packages that import each other in a cycle.

* `ImportTrackingInvariant`: `ImportInv` is inductive. `ProcessTree` says that the
  commands and compiles of a build form a tree, so that no two have one name.
  `AllCurrent` says that every archive a command, a compile or a tracking file knows
  is in the cache under the key of this build's rules, and `CacheAcyclic` that an
  archive enters the cache only after all that its package imports or was given:
  hence `ArchivesCurrentHolds`, and `CyclesFailHolds`, as a cycle of packages would
  have no last member to enter. For `ColdLinkCompleteHolds`, `Compiling` says that an
  added import comes with all it imports, and `FilesTell` that a compile which changed
  its importcfg has its tracking file before it ends, and that no running process
  will write a file of that name again.
* `CyclesDecideHolds`: what enterNestedResolution refuses is a cycle. By `Chains` a
  chain follows added imports and the imports below each. If the pair it ends in
  occurs twice, the packages between form a cycle; if it is too long, some package
  waits twice, by the pigeonhole principle. The second needs `RoomToWait`: no rule
  set adds imports to more than `MaxChain` packages. Without it the code does refuse
  rules that close no cycle; the run has it as tight as it can be.
* `ImportTypes`.

`SpanTrackerProofs`, for any goroutines, spans and limits:

* `SpanTrackerInvariant`: `SpanTrackerInv` is inductive. That the current span has not
  ended rests on `TrackedInv`: a span on some stack is in the map or its flag is
  raised, so that whoever meets it later, on whatever clone, skips it. That eviction
  spares spans in flight rests on `RoomInv`, which counts them, and on `StatesAgree`:
  map and list hold the same spans, none of them ended. `CompactInv` says that
  behind compact's cursor no span is left that had ended when it began, although
  flags are raised while it runs.
* From it `NoStaleParentHolds`, `LiveSpansKeptHolds`, `StatesAgreeHolds`,
  `StackAgreesHolds` and `DropsOnlyLiveStackHolds` (an action property).

`HooksProofs`, for any goroutines, calls, handles, spans and texts:

* `KafkaInvariant`, for every sequence of answers of the switch. `OnceInv`: the
  wrapper is on Completion exactly once before any batch of a call with spans is in
  flight on an asynchronous writer, and the goroutine that installs it has read an
  unwrapped Completion. `Told` counts what was logged of both kinds of batches. Hence
  `WritesTellTheirOutcomeHolds`.
* `HttpInvariant`. `SpansInv` says which spans a request has at each stage and that
  its headers carry its own, `OwnSpans` that no span belongs to two requests,
  `WrapperInv` what the wrapper knows of the response before and after it is
  sent. Hence `TraceContinuesHolds` and `HttpSpansTellHolds`.
* `SqlInvariant`. `SqlHandlesInv`: every handle but the one that an Open has made and
  not yet returned describes the source it goes back to; `CallsInv` ties the Open to
  the OpenDB inside it. Hence `SpansDescribeTheirHandleHolds` and
  `CommitsJoinBeginHolds`.
* `EndpointsComeApart`: what net.JoinHostPort and the parsers put into the endpoint,
  net.SplitHostPort takes apart again into the host and the port found, for every
  driver and any DSN in which they are found, if the host is a name or an IPv6
  address (no brackets, and no colon or several) and the port has neither a colon
  nor a bracket.
* `GenInvariant`. `GenStagesInv`: unless there was a hard error, the reader takes the
  stream for complete exactly if one of the lines that arrived says so, also while
  one goroutine reads and the other closes. Hence `EndedOnceHolds` and
  `StatusTellsOutcomeHolds`.
* `CaptureInvariant`. `CaptureInv` relates what is kept of a choice to all that the
  lines said of it: it is all of that as long as it fits, and once it does not, the
  longest front of whole characters that does, whatever comes after. A choice that
  is not captured has said nothing as long as there is room for one more. Hence
  `CaptureIgnoresChunksHolds`. The width of a text is a recursive function; that
  widths add up and that a cut stays where it is are proved by induction on the set
  of lengths for which they hold. `GenAssumption` says that a character has a width.
* `ClientInvariant`, for any environments and any depth of calls inside calls:
  `BalanceInv` is inductive: a span that is open is held by exactly one call in
  progress, unless its After hook asks the switch again, and gin's depth is the
  number of entered calls of Next. Hence `HooksStayBalancedHolds`, which needs no
  steady environment.
* `OperationInvariant`: `OperationInv` is inductive. While the environment is steady,
  `ShapeInv` says which calls may occur below the operation, `ContextInv` what their
  context tells them (silenced, fetching, the span above), and `CountInv` that the
  spans there are, and those that calls in progress will start when they return, are as
  many as the calls that count. `ConnInv` says that a connection has at most one
  stats handler, whichever of DialContext and NewClient put it there. Hence
  `OneSpanPerOperationHolds`.

`SetupProofs`, for any projects, dry runs, rules and rule files:

* `PinInvariant`, from `PinningAssumption`: the plan of a build has what its packages
  import, and the instrumentation embedded in otelc loads. `PassesInv` says of the
  injection passes that the packages planned so far are closed under imports, that
  the rules applied are those that match them, and that none is planned but for the
  build or a hook. When a pass injects nothing new, the packages of the hooks are
  therefore planned: `InjectedCodeIsMatchedHolds`. `SettledInv` says that a tool file
  which is written, or needs no writing, would not change if it was written again,
  nor its go.mod; for two modules that name one dead import it does not hold, and
  nothing is claimed of them. Hence `PinSettlesHolds` (an action property).
* `MatchInvariant`, from `MatchAssumption`, which is what a dry run looks like: sources
  exist, and the files generated for a compile come from the cgo that ran last in its
  object directory, after a `cd` to its sources. Each rule set in `matched` is that of
  one compile whose goroutine has ended, in whatever order they did, and a compile
  without a set has nothing to apply. Hence `RulesReachTheirCompileHolds`.
* `LoadInvariant`, from `ListsAssumption`: what is loaded after some files is, for each
  name, the group of the last file that has it or, for tool files, those of all of them,
  each once. Hence `FilesApplyAsListedHolds`.

Only model-checked:

* Liveness (`SectionEnds`, `SomebodyRuns`, `SessionEnds`, `BuildEnds`), which the
  prover does not reach under fairness.
* What a recursion over data computes, for which the prover has no induction:
  `CodeRules` recurses over trees (`QualifiersResolve`, `EditsReachNestedSites`),
  `HookSignature` over types and type parameters (`FitsTarget`), `CommandLine` folds
  over words (`SameBuildAsAsked`). Of `DsnPartsFound`, only what becomes of the host
  and the port is proved; that each dialect's parser finds them, and the database,
  is checked. The runs enumerate the inputs up to the bounds of section 3.

## 5. Findings

* `next_build`. runGoBuild starts with an empty state manager (`setup.go:712`)
  and nothing but `otelc cleanup` loads the manifest. The next build truncates
  the snapshot, copies the mutated file over it and replaces the manifest: the
  user's go.mod is gone. The comment on Track (`setup/state.go:160-162`) promises
  that a build killed at any point "leaves behind a manifest from which `otelc
  cleanup` or the next build can restore the tree".
* `warm_cache`. runGoBuild removes the tracking files of the previous build
  (`setup.go:717`) and only a compile that runs writes one. In a second build
  over the same cache the package to which a rule added an import is not
  compiled, its file is not written, and the link lacks an added package that
  the program does not import by itself. The comment on Toolexec
  (`toolexec.go:593-596`) gives it the task to "ensure the link command has all
  necessary dependencies", and setupGoCache (`setup.go:473-475`) keeps the cache
  for "allowing incremental builds to work properly".
* `acks_late`. A wrapper goroutine, or the caller of Get, that already has its
  delivery may register it only after the hook of shutdown has run; `acksFor`
  (`hook.go:108`) then creates the entry of the dead channel anew. Nothing deletes
  it, and the span of a Get that is not acked never ends. The package's README
  (line 14) says that such a delivery "has already failed or drained by the time
  the after hook fires", and the comment on
  TestShutdown_DeliveryDuringTeardownIsStillCleanedUp (`hook_test.go:550`) that the
  after hook "catches it regardless of when during teardown the delivery lands".
* `nested_calls`. applyCallReplace clones each matching call into its template and
  lets Apply replace it; Apply goes on below the original call, so a matching call
  in the arguments of a matching call is replaced where nobody looks. The comment
  (`instrument/apply_call.go:87-89`) says that an ignore comment "opts that one
  call site out and leaves every other matching call site wrapped".
* `shared_path`. A compile takes the first stored rule set with its `-p`
  (`instrument/match.go:70`), which a package shares with its test variant and every
  `main` with every other. The comment says "One package can only be matched with
  one rule set, so it's safe to return the first matched rule set."

Smaller disagreements met while modelling. The models do what the code does, and
the properties leave them out:

* The comment on AfterGet (`hooks/github.com/rabbitmq/amqp091-go/hook.go:258-260`) says
  that "an unacked Get process span stays open until the process exits. See README.md."
  AfterShutdown (`hook.go:395-399`) ends it with its channel, as that README says (line
  13). `TeardownEnds` covers the deliveries of Get and agrees with the code and the
  README, not with the comment.
* A statement run through Tx.StmtContext loses its text, and its DSN goes to a field
  nothing reads (`hooks/database/sql/client.go:547-575`).
* SetParam and SetReturnVal of an `any` slot replace the slot, not the value
  (`trampoline.go:899-944`); the accessors panic in generic functions.
* After Flush or Hijack the span of a handler has the status it had before, not the
  "Response status code" that `hooks/net/http/README.md:169` documents.
* checkHookDecl, which "checks if the hook function declaration is correct"
  (`trampoline.go:437`), accepts hooks whose types differ in package or pointer depth.
* `add_file` rules ignore `where.file`, and a bad `where` is reported only if some
  file gets as far as it (`setup/match.go`).
* Imports that one rule adds are invisible to the next rule's look-up of aliases
  (`instrument/imports.go:109`); a local variable named like an import is taken for
  the package; method calls in the copies a template makes are not matched again.
* A URL that names no database gives its authority, user included, as db.namespace:
  `ParseDbName` takes what follows the last slash (`hooks/database/sql/client.go:56`,
  `dsnparse/parse.go:164`), which is then the one of `://`. `DsnParse` does the same, and
  `DsnPartsFound` asks for db.namespace only of a DSN that names a database.
* MySQL passwords with `(` and Oracle passwords with `@` mislead the parsers.
* `-C` with file targets, and `--C dir`, send setup to another directory than the
  build (`tool/internal/pkgload`); a user's own later `-toolexec` wins over otelc's.
* After hooks of database/sql, linodego and client-go ask the switch again and leave
  their span open when the answer has changed; those of database/sql that make a
  handle leave its fields empty.
* "every concurrent caller for the same writer" of kafka-go is to wait until
  `w.Completion` is wrapped (`producer_hook.go:46-53`, `141-145`). A call made while
  the switch is off does not: a failure of its batch may go unlogged, and a later call
  made while it is on assigns the field while that batch is in flight.
* `Channel.Ack(0, true)`, which in AMQP acknowledges all that is outstanding, ends no
  span: settle takes the tags up to 0 (`hooks/github.com/rabbitmq/amqp091-go/hook.go:426`).

## 6. What is not modelled

The contents of files beyond the distinctions above; the text of the generated
code and its line directives; quoting in GOFLAGS; attribute names and values,
metrics; baggage; spans with invalid contexts. Beyond that, module by module:

* `BuildLock`: on POSIX the first removal of the lock file never fails
  (`lock.go:179`). If it did, the second, after the unlock, could remove the file of
  the next holder.
* `BuildSession`: errors of a copy before it truncates its target; a manifest that
  cannot be decoded.
* `RuleFiles`: an entry's own `name:`, which its rules then go by (`func_rule.go:71`,
  `match.go:460`).
* `RuleMatching`: which signatures, results and kinds of declarations a selector
  accepts; the order of the rules in a set.
* `Pinning`: a module with tool files of both names (findToolFile's error),
  errors of findDeps, extract and the loading of minimal rules, `--prune=false` and
  `--generate`.
* `HookSignature`: the check that a hook's first parameter is a HookContext
  (`trampoline.go:453`), the reuse of a declaration that is there (`587-590`), receivers
  with blank type arguments, interfaces with methods.
* `Trampoline`: two hooks with the same Before and After kinds count as one.
* `CodeRules`: scopes of nested blocks; more than one field of a literal rule;
  declarations without an initialiser, of another kind than asked for, and of several
  names.
* `ImportTracking`: vet's calls, edits to the source of packages between builds, nested
  commands that outlive a compile killed alone; errors of removing tracking files and
  of writing an importcfg, failures of the compiler itself.
* `SqlHooks`: a switch that changes.
* `PendingAcks`: deliveries that are acked automatically, the publish side, the enable
  switch, tag 0 with `multiple`.
* `GenAIStream`: Close on another goroutine in the middle of a Read's parsing. The two
  share the line buffer and the reader's other fields without a lock, and the outcome
  would be that of a data race.
* `KafkaWriter`: messages of one slice that two calls share, whose trace headers are
  appended in place; a nil Writer; a call whose messages go out in several batches.

Not modelled at all: the hooks of cassandra, anthropic, aws and mongo, which hand a
monitor or a middleware to a library that does the rest; the log bridges, which
start no span; linodego's generated methods, which all call the two hooks that
`ClientHooks` has; the providers and exporters of `pkg/runtime`, which are the
SDK's; extraction of the embedded packages, a copy of files that `BuildSession`
counts as one edit; tools, demo and tests.

With OTELC_WORK_DIR naming a missing directory a cleanup runs unlocked, which
`BuildLock` models (stage `unprotected`) and no property forbids: the code documents
it. `PROJECT.json` lists the hazards no property covers, each with the reason.
