----------------------------- MODULE BuildLock -----------------------------
(***************************************************************************)
(* tool/internal/setup/lock.go: the advisory lock that serializes otelc    *)
(* invocations.  The lock is an flock on a file next to .otelc-build.  The *)
(* holder removes the file when it releases, so an invocation can win the  *)
(* flock of a file that no longer has a name; tryAcquire re-checks, after  *)
(* the win, that the path still names the locked inode.                    *)
(*                                                                         *)
(* An inode is free for reuse once no path and no open handle names it.    *)
(* The kernel drops a dead process's flock and closes its handle, and      *)
(* leaves the file where it is.                                            *)
(***************************************************************************)
EXTENDS Integers

CONSTANTS
  Procs,        \* otelc invocations that use one work dir
  NoProc,
  Inodes,       \* inodes the lock file can get
  NoInode,      \* the path names nothing; the handle is closed
  Windows,      \* TRUE: a file with an open handle cannot be removed, and
                \* opening or statting one may fail transiently
  MaxDepth      \* nesting of withBuildLock: GoBuild > Setup > Pin is 3

ASSUME BuildLockAssumption ==
  /\ NoProc \notin Procs
  /\ NoInode \notin Inodes
  /\ Windows \in BOOLEAN
  /\ MaxDepth \in Nat \ {0}

VARIABLES
  workDir,      \* the work dir exists
  path,         \* the inode the lock path names
  handle,       \* per invocation, the inode its open handle refers to
  owner,        \* per inode, the invocation that holds its flock
  pc,           \* per invocation, where it is in acquire / section / release
  depth,        \* per invocation, withBuildLock calls on its context chain
  littered      \* history: an invocation was killed or gave up since Init

vars == <<workDir, path, handle, owner, pc, depth, littered>>

Stages == {"idle",        \* no withBuildLock call
           "open",        \* acquireBuildLock: about to open the lock path
           "flock",       \* handle open, about to try the flock
           "close",       \* another invocation holds the flock
           "verify",      \* flock won, about to compare inodes
           "wait",        \* between two ticks of the retry ticker
           "held",        \* fn runs under the lock
           "unprotected", \* fn runs without it: there was no work dir
           "remove",      \* releaseFunc: about to remove the file
           "unlock",      \* releaseFunc: removed it
           "unlockRetry", \* releaseFunc: could not remove it
           "removeAgain"} \* releaseFunc: unlocked, about to remove it again

TypeOK ==
  /\ workDir \in BOOLEAN
  /\ path \in Inodes \cup {NoInode}
  /\ handle \in [Procs -> Inodes \cup {NoInode}]
  /\ owner \in [Inodes -> Procs \cup {NoProc}]
  /\ pc \in [Procs -> Stages]
  /\ depth \in [Procs -> 0..MaxDepth]
  /\ littered \in BOOLEAN

Init ==
  /\ workDir \in BOOLEAN
  /\ path \in Inodes \cup {NoInode}       \* a crashed run may have left one
  /\ littered = (path # NoInode)
  /\ handle = [p \in Procs |-> NoInode]
  /\ owner = [i \in Inodes |-> NoProc]
  /\ pc = [p \in Procs |-> "idle"]
  /\ depth = [p \in Procs |-> 0]

-----------------------------------------------------------------------------
(* The kernel's side of the lock file.                                     *)

HandleOpen(i) == \E p \in Procs : handle[p] = i

Free(i) == i # path /\ ~HandleOpen(i)

Removable == path # NoInode /\ (Windows => ~HandleOpen(path))

CloseHandle(p) ==
  /\ handle' = [handle EXCEPT ![p] = NoInode]
  /\ owner' = [i \in Inodes |-> IF owner[i] = p THEN NoProc ELSE owner[i]]

GoTo(p, stage) == pc' = [pc EXCEPT ![p] = stage]

\* initLogger creates .otelc-build, and so the work dir, for every command
\* but version and cleanup.
CreateWorkDir ==
  /\ ~workDir
  /\ workDir' = TRUE
  /\ UNCHANGED <<path, handle, owner, pc, depth, littered>>

-----------------------------------------------------------------------------
(* withBuildLock.                                                          *)

\* Mutant: fn gets a fresh context, without the marker.
MarkerDropped(p) == FALSE

BuildLockHeld(p) == depth[p] > 0

\* The outermost call: there is nothing to lock without a work dir.
Call(p) ==
  /\ pc[p] = "idle"
  /\ IF workDir
       THEN GoTo(p, "open") /\ UNCHANGED depth
       ELSE GoTo(p, "unprotected") /\ depth' = [depth EXCEPT ![p] = @ + 1]
  /\ UNCHANGED <<workDir, path, handle, owner, littered>>

\* A nested call (GoBuild calls Setup, Setup calls Pin, GoBuild's deferred
\* function calls Cleanup) finds the marker in its context.
NestedCall(p) ==
  /\ pc[p] \in {"held", "unprotected"}
  /\ depth[p] < MaxDepth
  /\ IF BuildLockHeld(p)
       THEN depth' = [depth EXCEPT ![p] = @ + 1] /\ UNCHANGED pc
       ELSE GoTo(p, "open") /\ UNCHANGED depth
  /\ UNCHANGED <<workDir, path, handle, owner, littered>>

\* fn returns.  The deferred release of a nested call, and of a section that
\* took no lock, does nothing.
Return(p) ==
  /\ pc[p] \in {"held", "unprotected"}
  /\ depth' = [depth EXCEPT ![p] = @ - 1]
  /\ pc' = [pc EXCEPT ![p] = CASE depth[p] > 1 -> @
                               [] depth[p] = 1 /\ @ = "held" -> "remove"
                               [] OTHER -> "idle"]
  /\ UNCHANGED <<workDir, path, handle, owner, littered>>

-----------------------------------------------------------------------------
(* acquireBuildLock and tryAcquire.                                        *)

\* TryLock opens the path afresh and creates the file when there is none.
Open(p) ==
  /\ pc[p] = "open"
  /\ IF path = NoInode
       THEN \E i \in Inodes : Free(i) /\ path' = i
       ELSE UNCHANGED path
  /\ handle' = [handle EXCEPT ![p] = path']
  /\ GoTo(p, "flock")
  /\ UNCHANGED <<workDir, owner, depth, littered>>

\* isTransientLockFileError: the attempt counts as "not acquired".
OpenTransient(p) ==
  /\ Windows
  /\ pc[p] = "open"
  /\ GoTo(p, "wait")
  /\ UNCHANGED <<workDir, path, handle, owner, depth, littered>>

Flock(p) ==
  /\ pc[p] = "flock"
  /\ IF owner[handle[p]] = NoProc
       THEN owner' = [owner EXCEPT ![handle[p]] = p] /\ GoTo(p, "verify")
       ELSE UNCHANGED owner /\ GoTo(p, "close")
  /\ UNCHANGED <<workDir, path, handle, depth, littered>>

\* The losing attempt closes its handle and waits for the next tick.
CloseLosing(p) ==
  /\ pc[p] = "close"
  /\ handle' = [handle EXCEPT ![p] = NoInode]
  /\ GoTo(p, "wait")
  /\ UNCHANGED <<workDir, path, owner, depth, littered>>

\* Mutant: a win on an unlinked inode counts.
AnyWin(p) == TRUE

LockFileIsCurrent(p) == handle[p] = path

\* lockFileIsCurrent: win only if the path still names the locked inode.
Verify(p) ==
  /\ pc[p] = "verify"
  /\ IF LockFileIsCurrent(p)
       THEN /\ GoTo(p, "held")
            /\ depth' = [depth EXCEPT ![p] = @ + 1]
            /\ UNCHANGED <<handle, owner>>
       ELSE /\ CloseHandle(p)
            /\ GoTo(p, "wait")
            /\ UNCHANGED depth
  /\ UNCHANGED <<workDir, path, littered>>

\* The stat of the path fails transiently: unlock, close, retry.
VerifyTransient(p) ==
  /\ Windows
  /\ pc[p] = "verify"
  /\ CloseHandle(p)
  /\ GoTo(p, "wait")
  /\ UNCHANGED <<workDir, path, depth, littered>>

Tick(p) ==
  /\ pc[p] = "wait"
  /\ GoTo(p, "open")
  /\ UNCHANGED <<workDir, path, handle, owner, depth, littered>>

\* ctx.Done() while waiting: Ctrl-C or SIGTERM.
Cancel(p) ==
  /\ pc[p] = "wait"
  /\ GoTo(p, "idle")
  /\ littered' = TRUE
  /\ UNCHANGED <<workDir, path, handle, owner, depth>>

\* An error of TryLock or of the verification that is not transient.
AcquireError(p) ==
  /\ pc[p] \in {"open", "flock", "verify"}
  /\ CloseHandle(p)
  /\ GoTo(p, "idle")
  /\ littered' = TRUE
  /\ UNCHANGED <<workDir, path, depth>>

-----------------------------------------------------------------------------
(* releaseFunc: remove while holding, unlock, and remove again if the first *)
(* removal failed.                                                          *)

\* Mutant: only the lock is released, as in a plain defer lock.Unlock().
RemoveForgotten(p) ==
  /\ pc[p] = "remove"
  /\ GoTo(p, "unlock")
  /\ UNCHANGED <<workDir, path, handle, owner, depth, littered>>

Remove(p) ==
  /\ pc[p] = "remove"
  /\ IF Removable
       THEN path' = NoInode /\ GoTo(p, "unlock")
       ELSE UNCHANGED path /\ GoTo(p, "unlockRetry")
  /\ UNCHANGED <<workDir, handle, owner, depth, littered>>

\* Mutant: the file is removed and the handle forgotten.
UnlockForgotten(p) ==
  /\ pc[p] \in {"unlock", "unlockRetry"}
  /\ GoTo(p, IF pc[p] = "unlock" THEN "idle" ELSE "removeAgain")
  /\ UNCHANGED <<workDir, path, handle, owner, depth, littered>>

Unlock(p) ==
  /\ pc[p] \in {"unlock", "unlockRetry"}
  /\ CloseHandle(p)
  /\ GoTo(p, IF pc[p] = "unlock" THEN "idle" ELSE "removeAgain")
  /\ UNCHANGED <<workDir, path, depth, littered>>

\* Mutant: a first removal that fails is all there is.
RemoveOnce(p) ==
  /\ pc[p] = "removeAgain"
  /\ GoTo(p, "idle")
  /\ UNCHANGED <<workDir, path, handle, owner, depth, littered>>

RemoveAgain(p) ==
  /\ pc[p] = "removeAgain"
  /\ path' = IF Removable THEN NoInode ELSE path
  /\ GoTo(p, "idle")
  /\ UNCHANGED <<workDir, handle, owner, depth, littered>>

-----------------------------------------------------------------------------
\* SIGKILL, OOM, power: at any point of a call.
Crash(p) ==
  /\ pc[p] # "idle"
  /\ CloseHandle(p)
  /\ GoTo(p, "idle")
  /\ depth' = [depth EXCEPT ![p] = 0]
  /\ littered' = TRUE
  /\ UNCHANGED <<workDir, path>>

Step(p) ==
  \/ NestedCall(p) \/ Return(p)
  \/ Open(p) \/ Flock(p) \/ CloseLosing(p) \/ Verify(p) \/ Tick(p)
  \/ Remove(p) \/ Unlock(p) \/ RemoveAgain(p)

Fault(p) ==
  \/ OpenTransient(p) \/ VerifyTransient(p) \/ AcquireError(p)
  \/ Cancel(p) \/ Crash(p)

Next == CreateWorkDir \/ \E p \in Procs : Call(p) \/ Step(p) \/ Fault(p)

Spec == Init /\ [][Next]_vars

\* The scheduler runs every process, timers fire, and fn returns after finitely
\* many nested calls; nobody has to start an invocation, and faults need not
\* happen.  An attempt that comes round again and again is not met by a
\* transient error every time.
Fairness ==
  \A p \in Procs :
    /\ \A d \in 1..MaxDepth : SF_vars(depth[p] = d /\ Return(p))
    /\ WF_vars(Tick(p))
    /\ SF_vars(Open(p)) /\ WF_vars(Flock(p)) /\ WF_vars(CloseLosing(p))
    /\ SF_vars(Verify(p))
    /\ WF_vars(Remove(p)) /\ WF_vars(Unlock(p)) /\ WF_vars(RemoveAgain(p))

FairSpec == Spec /\ Fairness

-----------------------------------------------------------------------------
(* Properties.                                                             *)

Holders == {p \in Procs : pc[p] = "held"}

\* acquireBuildLock serializes the invocations that mutate the module: two
\* sections never run under the lock at once, whatever inode each one locked.
MutualExclusion == \A p, q \in Holders : p = q

\* The stages in which an invocation has the flock of the inode it opened.
Locked == {"verify", "held", "remove", "unlock", "unlockRetry"}

\* The inductive strengthening: an flock belongs to the invocation that has
\* the inode open and is past the try, and as long as fn runs the path names
\* the locked inode, so that no later attempt can create another one.
LockInv ==
  /\ TypeOK
  /\ \A i \in Inodes : owner[i] # NoProc =>
       handle[owner[i]] = i /\ pc[owner[i]] \in Locked
  /\ \A p \in Procs :
       /\ pc[p] \in Locked \cup {"flock", "close"} <=> handle[p] # NoInode
       /\ pc[p] \in Locked => owner[handle[p]] = p
       /\ pc[p] \in {"held", "remove", "unlockRetry"} => path = handle[p]
       /\ pc[p] \in {"held", "unprotected"} <=> depth[p] > 0
       /\ pc[p] \in {"unlockRetry", "removeAgain"} => Windows

\* A release leaves no lock file behind: once every invocation is done, the
\* path is free again unless one of them was killed, interrupted or failed.
\* On Windows this is what the second removal, and the waiter that inherits
\* the file, are for.
NoLitter == (\A p \in Procs : pc[p] = "idle") /\ ~littered => path = NoInode

\* The inductive strengthening: a lock file that no fault left behind is the
\* business of an invocation that will come to open or to remove it, and a
\* removed inode is not reused under a handle that still refers to it.
LitterInv ==
  /\ ~littered /\ path # NoInode =>
       \E p \in Procs : pc[p] \notin {"idle", "unprotected", "unlock"}
  /\ \A p \in Procs : pc[p] = "unlock" => handle[p] # path

\* The lock implements the abstract mutual exclusion.
Mutex == INSTANCE Mutex WITH inside <- Holders

Implements == Mutex!Spec

\* Every section ends: a nested withBuildLock reuses the outer lock instead
\* of waiting for it forever.
SectionEnds == \A p \in Procs : pc[p] = "held" ~> pc[p] = "idle"

\* The wait is never vacuous: while some invocation waits, a section runs
\* sooner or later, or that invocation gives up.  (The poll is not a queue:
\* one invocation may be overtaken forever.)
SomebodyRuns ==
  \A p \in Procs : pc[p] = "wait" ~> (Holders # {} \/ pc[p] = "idle")
=============================================================================
