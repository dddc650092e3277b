---------------------------- MODULE BuildSession ----------------------------
(***************************************************************************)
(* tool/internal/setup/{state,cleanup,setup,pin,add}.go: how `otelc go     *)
(* build`, `otelc setup`, `otelc pin` and `otelc cleanup` change the files *)
(* of the user's module and put them back.                                 *)
(*                                                                         *)
(* A file is snapshotted and recorded in the manifest before it is touched *)
(* (stateManager.Track), and restored afterwards (Revert, Discard).  Both  *)
(* copies are os.Create + io.Copy: a kill in between leaves a torn file.   *)
(* The manifest is replaced by a rename.  Invocations run one at a time,   *)
(* under the lock that BuildLock describes and Mutex abstracts.            *)
(***************************************************************************)
EXTENDS FiniteSets

CONSTANTS
  Procs,        \* otelc invocations
  Backup,       \* go.mod, go.sum, the tool file of each module; go.work.sum
  Runtime,      \* otelc.runtime.go of each build package
  Versions,     \* contents the user can give a file
  Tool,         \* content written by otelc
  Torn,         \* content of a file whose copy was cut short
  NoFile,       \* the file does not exist
  Faults,       \* the file operations that may fail, of FaultKinds
  OverManifest  \* TRUE: build, setup and pin may start while the manifest
                \* of an earlier invocation is still there

FaultKinds ==
  {"snapshot",  \* Track: CopyFile into the state directory
   "commit",    \* Track: WriteFileAtomic of the manifest
   "remove",    \* Revert: os.Remove of a generated file
   "restore",   \* Revert: CopyFile back into the module
   "discard"}   \* Discard, Cleanup: os.Remove / os.RemoveAll

ASSUME BuildSessionAssumption ==
  /\ Backup \cap Runtime = {}
  /\ {Tool, Torn, NoFile} \cap Versions = {}
  /\ Tool # Torn /\ Tool # NoFile /\ Torn # NoFile
  /\ Faults \subseteq FaultKinds
  /\ OverManifest \in BOOLEAN

Files == Backup \cup Runtime
Written == Versions \cup {Tool, Torn}
Contents == Written \cup {NoFile}
Original == Versions \cup {NoFile}

VARIABLES
  tree,         \* the module's files
  user,         \* history: the contents the user last left there
  snap,         \* .otelc-build/state/<name>.<hash>
  manifest,     \* .otelc-build/state.json; no entry at all: no manifest
  cmd,          \* per invocation, the command it runs
  stage,        \* per invocation, where it is
  mem,          \* per invocation, stateManager.files
  todo,         \* per invocation, files the current loop has left
  cur,          \* per invocation, the file being tracked or restored
  ok            \* per invocation, no error in the current loop

disk  == <<tree, snap, manifest>>
local == <<cmd, stage, mem, todo, cur, ok>>
vars  == <<tree, user, snap, manifest, cmd, stage, mem, todo, cur, ok>>

Entries == {"untracked", "absent", "existed"}
Empty == [f \in Files |-> "untracked"]
Tracked(files) == {f \in Files : files[f] # "untracked"}

Commands == {"build", "setup", "cleanup", "pin"}

Stages == {"idle",
           "plan",      \* setupLocked, before it touches a file
           "track",     \* autoPin: TrackAll(getBackupFiles)
           "snapshot",  \* Track: CopyFile into the state directory
           "commit",    \* Track: Commit
           "pin",       \* autoPin: Pin edits the backed-up files
           "runtime",   \* generateRuntimePerPackage, between two packages
           "write",     \* addDeps / removeRuntimeFile, file tracked
           "toolexec",  \* buildWithToolexec
           "pinning",   \* standalone `otelc pin`
           "load",      \* cleanupLocked: loadStateManager
           "revert",    \* Revert, between two files
           "restore",   \* Revert: CopyFile back into the module
           "discard",   \* Discard: remove the manifest
           "discardSnaps", \* Discard: remove the state directory
           "removeAll", \* cleanupLocked: remove .otelc-build
           "done"}      \* about to release the lock

TypeOK ==
  /\ tree \in [Files -> Contents]
  /\ user \in [Files -> Original]
  /\ snap \in [Files -> Contents]
  /\ manifest \in [Files -> Entries]
  /\ cmd \in [Procs -> Commands]
  /\ stage \in [Procs -> Stages]
  /\ mem \in [Procs -> [Files -> Entries]]
  /\ todo \in [Procs -> SUBSET Files]
  /\ cur \in [Procs -> Files \cup {NoFile}]
  /\ ok \in [Procs -> BOOLEAN]

Init ==
  /\ user \in [Files -> Original]
  /\ tree = user
  /\ snap = [f \in Files |-> NoFile]
  /\ manifest = Empty
  /\ cmd = [p \in Procs |-> "build"]
  /\ stage = [p \in Procs |-> "idle"]
  /\ mem = [p \in Procs |-> Empty]
  /\ todo = [p \in Procs |-> {}]
  /\ cur = [p \in Procs |-> NoFile]
  /\ ok = [p \in Procs |-> TRUE]

Running == {p \in Procs : stage[p] # "idle"}

At(p, s) == stage[p] = s
GoTo(p, s) == stage' = [stage EXCEPT ![p] = s]
SetTodo(p, S) == todo' = [todo EXCEPT ![p] = S]
Fail(p) == ok' = [ok EXCEPT ![p] = FALSE]

-----------------------------------------------------------------------------
(* Commands.  Each runs under the build lock from its first to its last     *)
(* step; the manager is new for build (runGoBuild) and for setup            *)
(* (stateManagerFromContext), and is what the manifest says for cleanup.    *)

LockFree == Running = {}

Enter(p, c) ==
  /\ LockFree
  /\ c # "cleanup" => OverManifest \/ manifest = Empty
  /\ cmd' = [cmd EXCEPT ![p] = c]
  /\ GoTo(p, CASE c = "cleanup" -> "load"
               [] c = "pin" -> "pinning"
               [] OTHER -> "plan")
  /\ UNCHANGED <<disk, user, mem, todo, cur, ok>>

\* The process is gone, and its variables with it.
Exit(p) ==
  /\ GoTo(p, "idle")
  /\ cmd' = [cmd EXCEPT ![p] = "build"]
  /\ mem' = [mem EXCEPT ![p] = Empty]
  /\ SetTodo(p, {})
  /\ cur' = [cur EXCEPT ![p] = NoFile]
  /\ ok' = [ok EXCEPT ![p] = TRUE]
  /\ UNCHANGED <<disk, user>>

Leave(p) == At(p, "done") /\ Exit(p)

\* SIGKILL, OOM or a power cut, at any point.
Crash(p) == ~At(p, "idle") /\ Exit(p)

\* The user edits the module while no invocation runs and none is pending.
UserEdit(f, v) ==
  /\ Running = {}
  /\ manifest = Empty
  /\ tree[f] # v
  /\ tree' = [tree EXCEPT ![f] = v]
  /\ user' = [user EXCEPT ![f] = v]
  /\ UNCHANGED <<snap, manifest, local>>

-----------------------------------------------------------------------------
(* Revert starts for a build when its body returns, with or without error:  *)
(* runGoBuild defers Cleanup(ctx, false).  A standalone setup has no such   *)
(* deferred call.                                                           *)

Finish(p) ==
  IF cmd[p] = "build"
    THEN /\ GoTo(p, "revert")
         /\ SetTodo(p, Tracked(mem[p]))
         /\ ok' = [ok EXCEPT ![p] = TRUE]
    ELSE GoTo(p, "done") /\ UNCHANGED <<todo, ok>>

\* getBuildPackages, findDeps, Pin, matching, code generation or the go build
\* itself fails.
Abort(p) ==
  /\ stage[p] \in {"plan", "pin", "runtime", "write", "toolexec"}
  /\ Finish(p)
  /\ UNCHANGED <<disk, user, cmd, mem, cur>>

\* setupLocked: auto-pin unless rules were given explicitly.
Plan(p) ==
  /\ At(p, "plan")
  /\ \/ GoTo(p, "track") /\ SetTodo(p, Backup)
     \/ GoTo(p, "runtime") /\ SetTodo(p, Runtime)
  /\ UNCHANGED <<disk, user, cmd, mem, cur, ok>>

-----------------------------------------------------------------------------
(* Track, Commit.                                                          *)

\* os.Create truncates whatever snapshot was there under the same name.
TrackBegin(p, f) ==
  /\ stage[p] \in {"track", "runtime"}
  /\ f \in todo[p]
  /\ cur' = [cur EXCEPT ![p] = f]
  /\ IF tree[f] = NoFile
       THEN /\ mem' = [mem EXCEPT ![p][f] = "absent"]
            /\ GoTo(p, "commit")
            /\ UNCHANGED snap
       ELSE /\ snap' = [snap EXCEPT ![f] = Torn]
            /\ GoTo(p, "snapshot")
            /\ UNCHANGED mem
  /\ UNCHANGED <<tree, manifest, user, cmd, todo, ok>>

SnapshotDone(p) ==
  /\ At(p, "snapshot")
  /\ snap' = [snap EXCEPT ![cur[p]] = tree[cur[p]]]
  /\ mem' = [mem EXCEPT ![p][cur[p]] = "existed"]
  /\ GoTo(p, "commit")
  /\ UNCHANGED <<tree, manifest, user, cmd, todo, cur, ok>>

\* TrackAll goes on with the next file and joins the errors; addDeps returns.
TrackFails(p) ==
  /\ stage[p] \in {"snapshot", "commit"} \cap Faults
  /\ IF cur[p] \in Backup
       THEN GoTo(p, "track") /\ SetTodo(p, todo[p] \ {cur[p]}) /\ Fail(p)
       ELSE Finish(p)
  /\ UNCHANGED <<disk, user, cmd, mem, cur>>

\* Mutant: Track leaves the manifest to be written at the end of the build.
CommitLater(p) ==
  /\ At(p, "commit")
  /\ GoTo(p, IF cur[p] \in Backup THEN "track" ELSE "write")
  /\ SetTodo(p, todo[p] \ {cur[p]})
  /\ UNCHANGED <<disk, user, cmd, mem, cur, ok>>

\* The whole manifest is replaced by what this manager tracks.
Commit(p) ==
  /\ At(p, "commit")
  /\ manifest' = mem[p]
  /\ GoTo(p, IF cur[p] \in Backup THEN "track" ELSE "write")
  /\ SetTodo(p, todo[p] \ {cur[p]})
  /\ UNCHANGED <<tree, snap, user, cmd, mem, cur, ok>>

TrackAllDone(p) ==
  /\ At(p, "track")
  /\ todo[p] = {}
  /\ IF ok[p] THEN GoTo(p, "pin") /\ UNCHANGED <<todo, ok>> ELSE Finish(p)
  /\ UNCHANGED <<disk, user, cmd, mem, cur>>

-----------------------------------------------------------------------------
(* The edits.                                                              *)

\* updateToolFile, writeGoMod, go mod tidy.
PinEdit(p, f) ==
  /\ At(p, "pin")
  /\ f \in Backup
  /\ tree[f] # Tool
  /\ tree' = [tree EXCEPT ![f] = Tool]
  /\ UNCHANGED <<snap, manifest, user, local>>

PinDone(p) ==
  /\ At(p, "pin")
  /\ GoTo(p, "runtime")
  /\ SetTodo(p, Runtime)
  /\ UNCHANGED <<disk, user, cmd, mem, cur, ok>>

\* A package without rules and without a stale runtime file is left alone.
RuntimeSkip(p, f) ==
  /\ At(p, "runtime")
  /\ f \in todo[p]
  /\ tree[f] = NoFile
  /\ SetTodo(p, todo[p] \ {f})
  /\ UNCHANGED <<disk, user, cmd, stage, mem, cur, ok>>

\* addDeps writes the file atomically; removeRuntimeFile deletes a stale one.
RuntimeEdit(p) ==
  /\ At(p, "write")
  /\ \/ tree' = [tree EXCEPT ![cur[p]] = Tool]
     \/ /\ tree[cur[p]] # NoFile
        /\ tree' = [tree EXCEPT ![cur[p]] = NoFile]
  /\ GoTo(p, "runtime")
  /\ UNCHANGED <<snap, manifest, user, cmd, mem, todo, cur, ok>>

RuntimeDone(p) ==
  /\ At(p, "runtime")
  /\ todo[p] = {}
  /\ IF cmd[p] = "build" THEN GoTo(p, "toolexec") ELSE GoTo(p, "done")
  /\ UNCHANGED <<disk, user, cmd, mem, todo, cur, ok>>

Toolexec(p) ==
  /\ At(p, "toolexec")
  /\ Finish(p)
  /\ UNCHANGED <<disk, user, cmd, mem, cur>>

\* `otelc pin` edits the same files for good and tracks nothing.
PinCommandEdit(p, f, v) ==
  /\ At(p, "pinning")
  /\ tree[f] # v
  /\ tree' = [tree EXCEPT ![f] = v]
  /\ user' = [user EXCEPT ![f] = v]
  /\ UNCHANGED <<snap, manifest, local>>

PinCommandDone(p) ==
  /\ At(p, "pinning")
  /\ GoTo(p, "done")
  /\ UNCHANGED <<disk, user, cmd, mem, todo, cur, ok>>

-----------------------------------------------------------------------------
(* cleanupLocked: Revert, then Discard if nothing failed, then, for `otelc  *)
(* cleanup`, remove .otelc-build unless something failed.                   *)

Load(p) ==
  /\ At(p, "load")
  /\ mem' = [mem EXCEPT ![p] = manifest]
  /\ SetTodo(p, Tracked(manifest))
  /\ GoTo(p, "revert")
  /\ UNCHANGED <<disk, user, cmd, cur, ok>>

\* Mutant: Revert leaves generated files where they are.
RevertKeepsGenerated(p, f) ==
  /\ At(p, "revert")
  /\ f \in todo[p]
  /\ mem[p][f] = "absent"
  /\ SetTodo(p, todo[p] \ {f})
  /\ UNCHANGED <<disk, user, cmd, stage, mem, cur, ok>>

RevertAbsent(p, f) ==
  /\ At(p, "revert")
  /\ f \in todo[p]
  /\ mem[p][f] = "absent"
  /\ SetTodo(p, todo[p] \ {f})
  /\ \/ tree' = [tree EXCEPT ![f] = NoFile] /\ UNCHANGED ok
     \/ "remove" \in Faults /\ tree[f] # NoFile /\ Fail(p) /\ UNCHANGED tree
  /\ UNCHANGED <<snap, manifest, user, cmd, stage, mem, cur>>

\* Mutant: a missing snapshot is tried again and again.
RestoreInsists(p, f) ==
  /\ At(p, "revert")
  /\ f \in todo[p]
  /\ mem[p][f] = "existed"
  /\ IF snap[f] = NoFile
       THEN Fail(p) /\ UNCHANGED <<tree, stage, todo, cur>>
       ELSE /\ tree' = [tree EXCEPT ![f] = Torn]
            /\ cur' = [cur EXCEPT ![p] = f]
            /\ SetTodo(p, todo[p] \ {f})
            /\ GoTo(p, "restore")
            /\ UNCHANGED ok
  /\ UNCHANGED <<snap, manifest, user, cmd, mem>>

RestoreBegin(p, f) ==
  /\ At(p, "revert")
  /\ f \in todo[p]
  /\ mem[p][f] = "existed"
  /\ SetTodo(p, todo[p] \ {f})
  /\ IF snap[f] = NoFile
       THEN Fail(p) /\ UNCHANGED <<tree, stage, cur>>
       ELSE /\ tree' = [tree EXCEPT ![f] = Torn]
            /\ cur' = [cur EXCEPT ![p] = f]
            /\ GoTo(p, "restore")
            /\ UNCHANGED ok
  /\ UNCHANGED <<snap, manifest, user, cmd, mem>>

RestoreEnd(p) ==
  /\ At(p, "restore")
  /\ GoTo(p, "revert")
  /\ \/ tree' = [tree EXCEPT ![cur[p]] = snap[cur[p]]] /\ UNCHANGED ok
     \/ "restore" \in Faults /\ Fail(p) /\ UNCHANGED tree
  /\ UNCHANGED <<snap, manifest, user, cmd, mem, todo, cur>>

\* Mutant: cleanupLocked discards the state whatever Revert reported.
DiscardAnyway(p) ==
  /\ At(p, "revert")
  /\ todo[p] = {}
  /\ GoTo(p, CASE Tracked(mem[p]) # {} -> "discard"
               [] Tracked(mem[p]) = {} /\ cmd[p] = "cleanup" -> "removeAll"
               [] OTHER -> "done")
  /\ UNCHANGED <<disk, user, cmd, mem, todo, cur, ok>>

RevertDone(p) ==
  /\ At(p, "revert")
  /\ todo[p] = {}
  /\ GoTo(p, CASE ok[p] /\ Tracked(mem[p]) # {} -> "discard"
               [] ok[p] /\ Tracked(mem[p]) = {} /\ cmd[p] = "cleanup" -> "removeAll"
               [] OTHER -> "done")
  /\ UNCHANGED <<disk, user, cmd, mem, todo, cur, ok>>

Discard(p) ==
  /\ At(p, "discard")
  /\ GoTo(p, "discardSnaps")
  /\ \/ manifest' = Empty /\ UNCHANGED ok
     \/ "discard" \in Faults /\ Fail(p) /\ UNCHANGED manifest
  /\ UNCHANGED <<tree, snap, user, cmd, mem, todo, cur>>

\* RemoveAll of the state directory, or of .otelc-build, one file at a time.
DiscardSnap(p, f) ==
  /\ stage[p] \in {"discardSnaps", "removeAll"}
  /\ snap[f] # NoFile
  /\ snap' = [snap EXCEPT ![f] = NoFile]
  /\ UNCHANGED <<tree, manifest, user, local>>

DiscardDone(p) ==
  /\ At(p, "discardSnaps")
  /\ \/ (\A f \in Files : snap[f] = NoFile) /\ UNCHANGED ok
     \/ "discard" \in Faults /\ Fail(p)
  /\ GoTo(p, IF cmd[p] = "cleanup" THEN "removeAll" ELSE "done")
  /\ UNCHANGED <<disk, user, cmd, mem, todo, cur>>

RemoveAll(p) ==
  /\ At(p, "removeAll")
  /\ \/ /\ manifest' = Empty
        /\ snap' = [f \in Files |-> NoFile]
        /\ UNCHANGED ok
     \/ /\ "discard" \in Faults
        /\ manifest' \in {manifest, Empty}
        /\ Fail(p)
        /\ UNCHANGED snap
  /\ GoTo(p, "done")
  /\ UNCHANGED <<tree, user, cmd, mem, todo, cur>>

-----------------------------------------------------------------------------
Setup(p) ==
  \/ Plan(p) \/ SnapshotDone(p) \/ Commit(p) \/ TrackAllDone(p)
  \/ PinDone(p) \/ RuntimeEdit(p) \/ RuntimeDone(p)
  \/ \E f \in Files : TrackBegin(p, f) \/ PinEdit(p, f) \/ RuntimeSkip(p, f)

Cleanup(p) ==
  \/ Load(p) \/ RestoreEnd(p) \/ RevertDone(p)
  \/ Discard(p) \/ DiscardDone(p) \/ RemoveAll(p)
  \/ \E f \in Files : RevertAbsent(p, f) \/ RestoreBegin(p, f) \/ DiscardSnap(p, f)

PinCommand(p) ==
  \/ PinCommandDone(p)
  \/ \E f \in Backup, v \in Original : PinCommandEdit(p, f, v)

Step(p) == Setup(p) \/ Toolexec(p) \/ Cleanup(p) \/ PinCommand(p) \/ Leave(p)

Next ==
  \/ \E p \in Procs :
       \/ \E c \in Commands : Enter(p, c)
       \/ Step(p) \/ Abort(p) \/ TrackFails(p) \/ Crash(p)
  \/ \E f \in Files, v \in Original : UserEdit(f, v)

Spec == Init /\ [][Next]_vars

\* A process that runs goes on to its next step, and Pin ends.  Nobody has to
\* start a command, and nothing has to fail.
Fairness ==
  \A p \in Procs :
    WF_vars(Step(p)) /\ WF_vars(PinDone(p)) /\ WF_vars(PinCommandDone(p))

FairSpec == Spec /\ Fairness

-----------------------------------------------------------------------------
(* Properties.                                                             *)

Recoverable(f) ==
  \/ tree[f] = user[f]
  \/ manifest[f] = "existed" /\ snap[f] = user[f] /\ snap[f] # NoFile
  \/ manifest[f] = "absent" /\ user[f] = NoFile

\* Track persists the state of a file before the file is touched, Revert copies
\* over files that it can copy again, and Discard comes after a successful
\* Revert: at every moment a kill leaves either the user's content in place or
\* a manifest and a whole snapshot to restore it from.
AlwaysRecoverable == \A f \in Files : Recoverable(f)

Succeeded(p) == At(p, "done") /\ cmd[p] \in {"build", "cleanup"} /\ ok[p]

\* A build whose revert reported no error, and a cleanup that reported none,
\* leave exactly the user's files -- also when the build itself failed, and
\* also when earlier invocations were killed at any point.
Restores == \A p \in Procs : Succeeded(p) => tree = user

\* They leave no manifest either: a later cleanup cannot re-apply a finished
\* build's snapshots over files the user has edited since.
Consumes == \A p \in Procs : Succeeded(p) => manifest = Empty

\* The inductive strengthening, part 1: what the files on disk say to a later
\* cleanup.  A snapshot may be gone only when its file is in order.
DiskInv ==
  \A f \in Files :
    /\ manifest[f] = "untracked" => tree[f] = user[f]
    /\ manifest[f] = "absent" => user[f] = NoFile
    /\ manifest[f] = "existed" =>
         /\ user[f] # NoFile
         /\ snap[f] = user[f] \/ (snap[f] = NoFile /\ tree[f] = user[f])

\* Part 2: what an invocation knows while it snapshots and edits.  Only a
\* tracked file is edited, and a file is snapshotted only before it is tracked.
InTrackAll(p) ==
  At(p, "track") \/ (stage[p] \in {"snapshot", "commit"} /\ cur[p] \in Backup)

InRuntime(p) ==
  \/ stage[p] \in {"runtime", "write"}
  \/ stage[p] \in {"snapshot", "commit"} /\ cur[p] \in Runtime

EditInv(p) ==
  /\ stage[p] \in {"plan", "track", "snapshot", "commit", "pin", "runtime", "write", "toolexec"} =>
       cmd[p] \in {"build", "setup"}
  /\ At(p, "pinning") => cmd[p] = "pin"
  /\ stage[p] \in {"idle", "plan", "load", "pinning"} => mem[p] = Empty /\ ok[p]
  /\ stage[p] \in {"plan", "pinning"} => manifest = Empty
  /\ stage[p] \in {"plan", "track", "snapshot", "pin", "runtime", "write", "toolexec",
                  "revert", "restore", "discard"} => manifest = mem[p]
  /\ stage[p] \in {"snapshot", "commit", "write", "restore"} => cur[p] \in Files
  /\ At(p, "snapshot") => mem[p][cur[p]] = "untracked" /\ tree[cur[p]] # NoFile
  /\ At(p, "commit") =>
       /\ \A f \in Files \ {cur[p]} : manifest[f] = mem[p][f]
       /\ manifest[cur[p]] = "untracked"
       /\ \/ mem[p][cur[p]] = "absent" /\ user[cur[p]] = NoFile
          \/ /\ mem[p][cur[p]] = "existed"
             /\ snap[cur[p]] = user[cur[p]] /\ user[cur[p]] # NoFile
  /\ At(p, "write") => mem[p][cur[p]] # "untracked"
  /\ InTrackAll(p) =>
       /\ todo[p] \subseteq Backup
       /\ \A f \in Runtime : mem[p][f] = "untracked"
       /\ ok[p] => \A f \in Backup \ todo[p] : mem[p][f] # "untracked"
  /\ InRuntime(p) => todo[p] \subseteq Runtime
  /\ InTrackAll(p) \/ InRuntime(p) =>
       \A f \in todo[p] : (f = cur[p] /\ At(p, "commit")) \/ mem[p][f] = "untracked"
  /\ At(p, "pin") =>
       /\ \A f \in Backup : mem[p][f] # "untracked"
       /\ \A f \in Runtime : mem[p][f] = "untracked"
  /\ stage[p] \in {"plan", "track", "snapshot", "commit", "pin", "runtime", "write", "toolexec"} =>
       \A f \in Files : manifest[f] = "existed" => snap[f] = user[f]

\* Part 3: what it knows while it cleans up.  Whatever the loop of Revert has
\* dealt with is in order, unless an error was recorded.
CleanInv(p) ==
  /\ stage[p] \in {"revert", "restore"} /\ ok[p] =>
       \A f \in Files \ todo[p] : (f = cur[p] /\ At(p, "restore")) \/ tree[f] = user[f]
  /\ At(p, "restore") =>
       /\ mem[p][cur[p]] = "existed" /\ cur[p] \notin todo[p]
       /\ snap[cur[p]] = user[cur[p]]
  /\ stage[p] \in {"discard", "discardSnaps", "removeAll"} => tree = user
  /\ stage[p] \in {"discardSnaps", "removeAll"} /\ ok[p] => manifest = Empty
  /\ Succeeded(p) => tree = user /\ manifest = Empty

SessionInv ==
  /\ TypeOK
  /\ \A p, q \in Running : p = q
  /\ DiskInv
  /\ \A p \in Procs : EditInv(p) /\ CleanInv(p)

\* No snapshot that the manifest names is lost or damaged as long as the file
\* it belongs to is not what the user left (a partial revert keeps them all).
SnapshotsKept ==
  [][\A f \in Files :
       manifest[f] = "existed" /\ tree'[f] # user'[f] =>
         manifest'[f] = "existed" /\ snap'[f] = snap[f]]_vars

\* The invocations take the build lock as Mutex describes it.
Lock == INSTANCE Mutex WITH inside <- Running

UsesLock == Lock!Spec

\* Every invocation that is not killed comes to an end.
SessionEnds == \A p \in Procs : stage[p] # "idle" ~> stage[p] = "idle"
=============================================================================
