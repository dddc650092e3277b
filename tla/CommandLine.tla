------------------------------ MODULE CommandLine -----------------------------
(* What otelc makes of the words after "otelc go": it must find the packages,   *)
(* the flags and the test binary's arguments where the go command will find     *)
(* them (setup/args.go, setup.go), run the same build under itself              *)
(* (toolexecBuildArgs), and build without the vendor directory it cannot keep   *)
(* consistent (vendor.go).  GoReads is the go command's own reading (cmd/go,    *)
(* external): the reference.                                                    *)
EXTENDS Integers, Sequences, SequencesExt

CONSTANTS
    Words,          \* what a user may type
    MaxWords,
    Environments    \* records [project, goflags]: GOFLAGS as a sequence of words

\* A word is -name=value, -name (value is ""), or plain (flag is "").  --name is
\* the same flag; a quoted GOFLAGS token is the word in the quotes.
Plain(v) == [flag |-> "", joined |-> FALSE, value |-> v]
Flag(f) == [flag |-> f, joined |-> FALSE, value |-> ""]
Joined(f, v) == [flag |-> f, joined |-> TRUE, value |-> v]

VARIABLES
    environment,    \* project is "modules", "vendored" or "workspace"; GOFLAGS
    command,        \* the subcommand, and the words typed after it
    cmdPhase,       \* "typing", "setup", "built" or "rejected"
    setupRead,      \* what setup took from the command line
    built           \* the words after "go build" that run, and OTELC_BUILD_FLAGS

lineVars == <<environment, command, cmdPhase, setupRead, built>>

-----------------------------------------------------------------------------
(* The flags otelc knows.                                                       *)

BuildFlagsWithValue ==
    {"-C", "-o", "-p", "-covermode", "-coverpkg", "-asmflags", "-buildmode", "-buildvcs",
     "-compiler", "-gccgoflags", "-gcflags", "-installsuffix", "-ldflags", "-mod", "-modfile",
     "-overlay", "-pgo", "-pkgdir", "-tags", "-toolexec"}

BuildBoolFlags ==
    {"-a", "-n", "-v", "-x", "-race", "-msan", "-asan", "-cover", "-trimpath", "-work",
     "-linkshared", "-json"}

TestFlagsWithValue ==
    {"-bench", "-benchtime", "-blockprofile", "-blockprofilerate", "-count", "-coverprofile",
     "-cpu", "-cpuprofile", "-exec", "-fuzz", "-fuzzminimizetime", "-fuzztime", "-list",
     "-memprofile", "-memprofilerate", "-mutexprofile", "-mutexprofilefraction", "-outputdir",
     "-parallel", "-run", "-shuffle", "-skip", "-timeout", "-trace", "-vet",
     "-test.run", "-test.count", "-test.timeout"}   \* and the other -test. aliases

TestBoolFlags == {"-artifacts", "-benchmem", "-c", "-failfast", "-fullpath", "-short", "-test.v"}

TakesValue == BuildFlagsWithValue \cup TestFlagsWithValue

ContextFlagsWithValue == {"-C", "-overlay", "-tags", "-mod", "-modfile"}
ContextBoolFlags == {"-race", "-msan", "-cover", "-asan", "-trimpath"}

-----------------------------------------------------------------------------
(* The classification, word by word: awaits is the kind the next word has as    *)
(* the value of the flag just read; started, closed and final are testArgState; *)
(* after says that an unknown flag without a value came just before.            *)

Unread == [kinds |-> <<>>, awaits |-> "none", started |-> FALSE, closed |-> FALSE,
           final |-> FALSE, after |-> FALSE]

BuildKind(r, w) ==
    IF r.awaits # "none" THEN r.awaits
    ELSE IF r.final THEN "target"
    ELSE IF w.flag = "--" THEN "terminator"
    ELSE IF w.flag # "" THEN "buildFlag"
    ELSE "target"

TestKind(r, w) ==
    IF r.awaits # "none" THEN r.awaits
    ELSE IF r.final THEN "binary"
    ELSE IF w.flag \in {"--", "-args"} THEN "delimiter"
    ELSE IF w.flag \in BuildFlagsWithValue \cup BuildBoolFlags THEN "buildFlag"
    ELSE IF w.flag \in TestFlagsWithValue \cup TestBoolFlags THEN "testFlag"
    ELSE IF w.flag # "" \/ r.closed THEN "binary"
    ELSE "target"

ReadWord(sub, r, w) ==
    LET kind == IF sub = "test" THEN TestKind(r, w) ELSE BuildKind(r, w)
        value == kind \in {"buildValue", "testValue"}
        unknown == sub = "test" /\ kind = "binary" /\ w.flag # "" /\ ~r.final
        takes == \/ kind = "buildFlag" /\ w.flag \in BuildFlagsWithValue
                 \/ kind = "testFlag" /\ w.flag \in TestFlagsWithValue
    IN  [kinds   |-> Append(r.kinds, kind),
         awaits  |-> IF ~takes \/ w.joined THEN "none"
                     ELSE IF kind = "buildFlag" THEN "buildValue" ELSE "testValue",
         started |-> r.started \/ kind = "target",
         closed  |-> r.closed \/ unknown \/ (r.started /\ w.flag # "" /\ ~value),
         final   |-> \/ r.final
                     \/ kind \in {"terminator", "delimiter"}
                     \/ kind = "binary" /\ w.flag = "" /\ ~r.after,
         after   |-> unknown /\ ~w.joined]

ClassifyArgs(sub, words) == FoldLeft(LAMBDA r, w : ReadWord(sub, r, w), Unread, words).kinds

Targets(sub, words) ==
    LET at == {i \in DOMAIN words : ClassifyArgs(sub, words)[i] = "target"}
    IN  [i \in 1..Cardinality(at) |-> words[SetToSortSeq(at, <)[i]]]

IsGoFile(w) ==
    /\ w.flag = ""
    /\ w.value \in {"main.go", "otelc.runtime.go", "sub/main.go", "sub/otelc.runtime.go"}
DirOf(w) == IF w.value \in {"sub/main.go", "sub/otelc.runtime.go"} THEN "sub" ELSE "."
FilesAmong(words) == {w \in Range(words) : IsGoFile(w)}

\* The files of a command line, unless it names packages or two directories too.
OneDirectory(words) ==
    /\ FilesAmong(words) \in {{}, Range(words)}
    /\ \A f, g \in FilesAmong(words) : DirOf(f) = DirOf(g)

SplitFails(sub, words) ==
    LET kinds == ClassifyArgs(sub, words)
    IN  \/ ~OneDirectory(Targets(sub, words))
        \/ \E i \in DOMAIN words :
             /\ kinds[i] \in {"buildFlag", "testFlag"}
             /\ ~words[i].joined /\ words[i].flag \in TakesValue
             /\ i < Len(words) => kinds[i + 1] \notin {"buildValue", "testValue"}

\* The flags go list needs to see the same build: every one with a value, in its
\* order, and the last state of every other.
ExtractBuildFlags(sub, words) ==
    LET kinds == ClassifyArgs(sub, words)
        context(i) == kinds[i] = "buildFlag" /\ words[i].flag \in ContextFlagsWithValue
        kept == {i \in DOMAIN words : \/ context(i) /\ (words[i].joined \/ i < Len(words))
                                      \/ i > 1 /\ kinds[i] = "buildValue" /\ context(i - 1)}
        parses(w) == ~w.joined \/ w.value \in {"true", "false"}
        bools == {i \in DOMAIN words : kinds[i] = "buildFlag" /\ words[i].flag \in ContextBoolFlags
                                       /\ parses(words[i])}
        last(f) == words[Max({i \in bools : words[i].flag = f})]
    IN  [i \in 1..Cardinality(kept) |-> words[SetToSortSeq(kept, <)[i]]]
        \o SetToSeq({IF last(f).value = "false" THEN last(f) ELSE Flag(f) :
                       f \in {words[i].flag : i \in bools}})

-----------------------------------------------------------------------------
(* Vendoring.                                                                   *)

\* A word of the command line beats GOFLAGS; the words of the test binary stay.
RewriteModVendor(sub, words) ==
    LET kinds == ClassifyArgs(sub, words)
    IN  [i \in DOMAIN words |->
           IF kinds[i] = "buildFlag" /\ words[i] = Joined("-mod", "vendor")
           THEN Joined("-mod", "mod")
           ELSE IF /\ i > 1 /\ words[i] = Plain("vendor") /\ kinds[i] = "buildValue"
                   /\ words[i - 1] = Flag("-mod")
                THEN Plain("mod")
           ELSE words[i]]

ForceModMod(words) ==
    LET forced == [i \in DOMAIN words |->
                     IF words[i] = Joined("-mod", "vendor") THEN Joined("-mod", "mod")
                     ELSE words[i]]
    IN  IF \E w \in Range(words) : w.flag = "-mod" THEN forced
        ELSE Append(forced, Joined("-mod", "mod"))

\* A workspace forbids -mod=mod: its vendor directory stays in use.
VendoringActive == environment.project = "vendored"

-----------------------------------------------------------------------------
(* The words of the instrumented build.                                         *)

RuntimeFile(dir) == Plain(IF dir = "." THEN "otelc.runtime.go" ELSE "sub/otelc.runtime.go")
ToolexecFlag == Joined("-toolexec", "otelc")

\* The go command wants -C before every other flag.
AddBuildFlags(words, flags) ==
    LET at == IF words = <<>> \/ words[1].flag # "-C" THEN 0
              ELSE IF words[1].joined THEN 1
              ELSE IF Len(words) > 1 THEN 2 ELSE 0
    IN  SubSeq(words, 1, at) \o flags \o SubSeq(words, at + 1, Len(words))

\* Mutant: the runtime file goes to the end of the line.
AppendRuntimeFile(sub, words) ==
    IF SplitFails(sub, words) \/ FilesAmong(Targets(sub, words)) = {} THEN words
    ELSE Append(words, RuntimeFile(DirOf(Targets(sub, words)[1])))

\* With file targets the runtime file is one too, right behind the last: behind
\* a flag, go test would hand it to the test binary.
AddRuntimeFile(sub, words) ==
    LET kinds == ClassifyArgs(sub, words)
        files == {i \in DOMAIN words : kinds[i] = "target" /\ IsGoFile(words[i])}
    IN  IF SplitFails(sub, words) \/ files = {} THEN words
        ELSE InsertAt(words, Max(files) + 1, RuntimeFile(DirOf(Targets(sub, words)[1])))

ChangesDirectory(words) == words # <<>> /\ words[1].flag = "-C"

\* PathExists looks from the working directory, where -C does not apply.
ToolexecBuildArgs(sub, words, runtime) ==
    LET rest == IF VendoringActive THEN RewriteModVendor(sub, words) ELSE words
        all == IF runtime /\ ~ChangesDirectory(words) THEN AddRuntimeFile(sub, rest) ELSE rest
    IN  AddBuildFlags(all, <<Flag("-work"), ToolexecFlag>>)

-----------------------------------------------------------------------------
(* The go command's reading (cmd/go: flag.Parse for build and install, testFlags *)
(* for test).                                                                   *)

GoKnows(sub, f) ==
    f \in BuildFlagsWithValue \cup BuildBoolFlags
          \cup (IF sub = "test" THEN TestFlagsWithValue \cup TestBoolFlags ELSE {})

GoUnread == [ok |-> TRUE, mode |-> "flags", needs |-> "", targets |-> <<>>,
             flags |-> [f \in {} |-> ""], binary |-> <<>>, list |-> FALSE, named |-> FALSE, after |-> FALSE, words |-> 0]

GoFlag(s, w) ==
    LET takes == w.flag \in TakesValue
    IN  [s EXCEPT !.needs = IF takes /\ ~w.joined THEN w.flag ELSE "",
                  !.ok = @ /\ (w.flag = "-C" => s.words = 0)
                           /\ (~takes /\ w.joined => w.value \in {"true", "false"}),
                  !.flags = IF takes /\ ~w.joined THEN @
                            ELSE (w.flag :> (IF w.joined THEN w.value ELSE "true")) @@ @,
                  !.list = FALSE, !.after = FALSE]

GoBuildWord(s, w) ==
    IF s.mode = "targets" \/ w.flag = ""
      THEN [s EXCEPT !.mode = "targets", !.ok = @ /\ w.flag = "", !.targets = Append(@, w)]
    ELSE IF w.flag = "--" THEN [s EXCEPT !.mode = "targets"]
    ELSE IF GoKnows("build", w.flag) THEN GoFlag(s, w)
    ELSE [s EXCEPT !.ok = FALSE]

GoTestWord(s, w) ==
    IF s.mode = "binary" THEN [s EXCEPT !.binary = Append(@, w)]
    ELSE IF w.flag = "--" THEN [s EXCEPT !.mode = "binary", !.binary = Append(@, w)]
    ELSE IF w.flag = "-args" THEN [s EXCEPT !.mode = "binary"]
    ELSE IF w.flag # "" /\ GoKnows("test", w.flag) THEN GoFlag(s, w)
    ELSE IF w.flag # ""
      THEN [s EXCEPT !.binary = Append(@, w), !.named = TRUE, !.list = FALSE, !.after = ~w.joined]
    ELSE IF s.list \/ ~s.named
      THEN [s EXCEPT !.targets = Append(@, w), !.list = TRUE, !.named = TRUE, !.after = FALSE]
    ELSE [s EXCEPT !.binary = Append(@, w), !.mode = IF s.after THEN @ ELSE "binary",
                   !.after = FALSE]

GoWord(sub, s, w) ==
    LET value == IF w.flag = "" THEN w.value ELSE w.flag    \* a flag's word, taken for a value
        read == IF s.needs # ""
                THEN [s EXCEPT !.needs = "", !.flags = (s.needs :> value) @@ @]
                ELSE IF sub = "test" THEN GoTestWord(s, w) ELSE GoBuildWord(s, w)
    IN  [read EXCEPT !.words = s.words + 1]

GoReads(sub, words) ==
    LET s == FoldLeft(LAMBDA t, w : GoWord(sub, t, w), GoUnread, words)
        known == "-mod" \in DOMAIN s.flags => s.flags["-mod"] \in {"mod", "readonly", "vendor"}
    IN  [ok |-> s.ok /\ s.needs = "" /\ known /\ OneDirectory(s.targets), targets |-> s.targets,
         flags |-> s.flags, binary |-> s.binary]

-----------------------------------------------------------------------------
(* One invocation.                                                              *)

NotRead == [targets |-> <<>>, flags |-> <<>>, runtime |-> FALSE]
NotBuilt == [argv |-> <<>>, forwarded |-> <<>>]

LineInit ==
    /\ environment \in Environments
    /\ command \in [sub : {"build", "test", "run"}, words : {<<>>}]
    /\ cmdPhase = "typing"
    /\ setupRead = NotRead
    /\ built = NotBuilt

TypeWord ==
    /\ cmdPhase = "typing" /\ Len(command.words) < MaxWords
    /\ \E w \in Words : command' = [command EXCEPT !.words = Append(@, w)]
    /\ UNCHANGED <<environment, cmdPhase, setupRead, built>>

\* GoBuild rejects a subcommand before it takes the lock, setup a line it cannot
\* split.
Reject ==
    /\ cmdPhase = "typing"
    /\ command.sub = "run" \/ SplitFails(command.sub, command.words)
    /\ cmdPhase' = "rejected"
    /\ UNCHANGED <<environment, command, setupRead, built>>

\* setupLocked; runtime says whether otelc.runtime.go came out of it.
SetupReadsLine ==
    /\ cmdPhase = "typing" /\ command.sub # "run"
    /\ LET words == IF VendoringActive THEN RewriteModVendor(command.sub, command.words)
                    ELSE command.words
       IN  /\ ~SplitFails(command.sub, words)
           /\ \E runtime \in BOOLEAN :
                setupRead' = [targets |-> Targets(command.sub, words),
                              flags |-> ExtractBuildFlags(command.sub, words),
                              runtime |-> runtime]
    /\ environment' = IF VendoringActive THEN [environment EXCEPT !.goflags = ForceModMod(@)]
                      ELSE environment
    /\ cmdPhase' = "setup"
    /\ UNCHANGED <<command, built>>

BuildWithToolexec ==
    /\ cmdPhase = "setup"
    /\ LET flags == ExtractBuildFlags(command.sub, command.words)
       IN  built' = [argv |-> ToolexecBuildArgs(command.sub, command.words, setupRead.runtime),
                     forwarded |-> IF VendoringActive THEN RewriteModVendor(command.sub, flags)
                                   ELSE flags]
    /\ cmdPhase' = "built"
    /\ UNCHANGED <<environment, command, setupRead>>

LineNext == TypeWord \/ Reject \/ SetupReadsLine \/ BuildWithToolexec

-----------------------------------------------------------------------------
(* Properties.                                                                  *)

Flags(words) == GoReads("build", words).flags    \* a list of flags alone
Effective(flags, env, f) ==
    IF f \in DOMAIN flags THEN flags[f] ELSE IF f \in DOMAIN env THEN env[f] ELSE ""
ContextFlags == ContextFlagsWithValue \cup ContextBoolFlags

\* otelc reads a command line as the go command does, for every line the go
\* command accepts: it rejects none of them; setup loads the packages the build
\* compiles, under the flags it compiles them with; the instrumented build is the
\* build asked for, its targets with the runtime file among them, its flags,
\* its test arguments, run through otelc; and a vendored project builds, and its
\* compiles' go list look things up, without the vendor directory.
SameBuildAsAsked ==
    LET sub == command.sub
        asked == GoReads(sub, command.words)
        run == GoReads(sub, built.argv)
        env == Flags(environment.goflags)
        added == IF /\ setupRead.runtime /\ FilesAmong(asked.targets) # {}
                    /\ ~ChangesDirectory(command.words)
                 THEN {RuntimeFile(DirOf(asked.targets[1]))} ELSE {}
        mod(flags) == IF VendoringActive /\ Effective(flags, env, "-mod") = "vendor" THEN "mod"
                      ELSE Effective(flags, env, "-mod")
    IN  asked.ok =>
          /\ cmdPhase = "rejected" => sub = "run"
          /\ cmdPhase \in {"setup", "built"} =>
               /\ setupRead.targets = asked.targets
               /\ \A f \in ContextFlags \ {"-mod"} :
                    Effective(Flags(setupRead.flags), env, f) = Effective(asked.flags, env, f)
               /\ Effective(Flags(setupRead.flags), env, "-mod") = mod(asked.flags)
          /\ cmdPhase = "built" =>
               /\ run.ok
               /\ Range(run.targets) = Range(asked.targets) \cup added
               /\ run.binary = asked.binary
               /\ \A f \in DOMAIN asked.flags \ {"-mod"} : run.flags[f] = asked.flags[f]
               /\ run.flags["-toolexec"] = "otelc"
               /\ Effective(run.flags, env, "-mod") = mod(asked.flags)
               /\ Effective(Flags(built.forwarded), env, "-mod") = mod(asked.flags)
               /\ VendoringActive => Effective(run.flags, env, "-mod") # "vendor"

=============================================================================
