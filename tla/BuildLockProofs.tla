-------------------------- MODULE BuildLockProofs --------------------------
(***************************************************************************)
(* Mutual exclusion of the build lock, for any number of invocations and   *)
(* inodes, on both kinds of platform, and its refinement of Mutex.         *)
(***************************************************************************)
EXTENDS BuildLock, TLAPS

\* Closing a handle releases exactly the flocks of the process that closes.
LEMMA CloseHandleFacts ==
  ASSUME TypeOK, NEW p \in Procs, CloseHandle(p)
  PROVE  /\ handle' \in [Procs -> Inodes \cup {NoInode}]
         /\ owner' \in [Inodes -> Procs \cup {NoProc}]
         /\ handle'[p] = NoInode
         /\ \A q \in Procs \ {p} : handle'[q] = handle[q]
         /\ \A i \in Inodes : owner'[i] = IF owner[i] = p THEN NoProc ELSE owner[i]
  BY BuildLockAssumption DEF CloseHandle, TypeOK

\* LockInv holds before the first call, with or without a file left by a crash.
THEOREM InitLockInv == Init => LockInv
  BY BuildLockAssumption DEF Init, LockInv, TypeOK, Stages, Locked

\* LockInv is inductive.
THEOREM StepLockInv == LockInv /\ [Next]_vars => LockInv'
<1> SUFFICES ASSUME LockInv, [Next]_vars
             PROVE  LockInv'
  OBVIOUS
<1> USE BuildLockAssumption DEF LockInv, TypeOK, Stages, Locked, GoTo
<1>1. CASE CreateWorkDir
  BY <1>1 DEF CreateWorkDir
<1>2. ASSUME NEW p \in Procs, Call(p)
      PROVE  LockInv'
  BY <1>2 DEF Call
<1>3. ASSUME NEW p \in Procs, NestedCall(p)
      PROVE  LockInv'
  BY <1>3 DEF NestedCall, BuildLockHeld
<1>4. ASSUME NEW p \in Procs, Return(p)
      PROVE  LockInv'
  BY <1>4 DEF Return
<1>5. ASSUME NEW p \in Procs, Open(p)
      PROVE  LockInv'
  BY <1>5 DEF Open, Free, HandleOpen
<1>6. ASSUME NEW p \in Procs, Flock(p)
      PROVE  LockInv'
  BY <1>6 DEF Flock
<1>7. ASSUME NEW p \in Procs, CloseLosing(p)
      PROVE  LockInv'
  BY <1>7 DEF CloseLosing
<1>8. ASSUME NEW p \in Procs, Verify(p)
      PROVE  LockInv'
  BY <1>8, CloseHandleFacts DEF Verify, LockFileIsCurrent
<1>9. ASSUME NEW p \in Procs, Tick(p)
      PROVE  LockInv'
  BY <1>9 DEF Tick
<1>10. ASSUME NEW p \in Procs, Remove(p)
       PROVE  LockInv'
  BY <1>10 DEF Remove, Removable, HandleOpen
<1>11. ASSUME NEW p \in Procs, Unlock(p)
       PROVE  LockInv'
  BY <1>11, CloseHandleFacts DEF Unlock
<1>12. ASSUME NEW p \in Procs, RemoveAgain(p)
       PROVE  LockInv'
  BY <1>12 DEF RemoveAgain, Removable, HandleOpen
<1>13. ASSUME NEW p \in Procs, OpenTransient(p)
       PROVE  LockInv'
  BY <1>13 DEF OpenTransient
<1>14. ASSUME NEW p \in Procs, VerifyTransient(p)
       PROVE  LockInv'
  BY <1>14, CloseHandleFacts DEF VerifyTransient
<1>15. ASSUME NEW p \in Procs, AcquireError(p)
       PROVE  LockInv'
  BY <1>15, CloseHandleFacts DEF AcquireError
<1>16. ASSUME NEW p \in Procs, Cancel(p)
       PROVE  LockInv'
  BY <1>16 DEF Cancel
<1>17. ASSUME NEW p \in Procs, Crash(p)
       PROVE  LockInv'
  BY <1>17, CloseHandleFacts DEF Crash
<1>18. CASE UNCHANGED vars
  BY <1>18 DEF vars
<1> QED
  BY <1>1, <1>2, <1>3, <1>4, <1>5, <1>6, <1>7, <1>8, <1>9, <1>10, <1>11, <1>12,
     <1>13, <1>14, <1>15, <1>16, <1>17, <1>18 DEF Next, Step, Fault

\* The inductive invariant holds in every reachable state.
THEOREM LockInvariant == Spec => []LockInv
  BY InitLockInv, StepLockInv, PTL DEF Spec

\* The variables keep their types; no nesting exceeds MaxDepth.
THEOREM LockTypes == Spec => []TypeOK
<1>1. LockInv => TypeOK
  BY DEF LockInv
<1> QED
  BY <1>1, LockInvariant, PTL

\* acquireBuildLock serializes invocations: two sections never run under the
\* lock at once.  Two holders would both have locked the inode the path names.
THEOREM MutualExclusionHolds == Spec => []MutualExclusion
<1>1. LockInv => MutualExclusion
  BY DEF LockInv, TypeOK, MutualExclusion, Holders, Locked
<1> QED
  BY <1>1, LockInvariant, PTL

-----------------------------------------------------------------------------
(* No litter.                                                              *)

\* LitterInv is inductive, given LockInv: a removal and a release leave the lock
\* file to nobody, or to a waiter that has it open.
THEOREM StepLitterInv == LockInv /\ LitterInv /\ [Next]_vars => LitterInv'
<1> SUFFICES ASSUME LockInv, LitterInv, [Next]_vars
             PROVE  LitterInv'
  OBVIOUS
<1> DEFINE Busy(p) == pc[p] \notin {"idle", "unprotected", "unlock"}
<1> USE BuildLockAssumption DEF LockInv, LitterInv, TypeOK, Stages, Locked, GoTo
<1>1. ASSUME CreateWorkDir \/ UNCHANGED vars
      PROVE  LitterInv'
  BY <1>1 DEF CreateWorkDir, vars
<1>2. ASSUME NEW p \in Procs, Busy(p)', UNCHANGED path, handle'[p] = handle[p],
             \A q \in Procs \ {p} : pc'[q] = pc[q] /\ handle'[q] = handle[q]
      PROVE  LitterInv'
  BY <1>2
<1>3. ASSUME NEW p \in Procs, Call(p)
      PROVE  LitterInv'
  BY <1>3 DEF Call
<1>4. ASSUME NEW p \in Procs, NestedCall(p)
      PROVE  LitterInv'
  BY <1>4 DEF NestedCall, BuildLockHeld
<1>5. ASSUME NEW p \in Procs, Return(p)
      PROVE  LitterInv'
  BY <1>5 DEF Return
<1>6. ASSUME NEW p \in Procs, Open(p)
      PROVE  LitterInv'
  BY <1>6 DEF Open, Free, HandleOpen
<1>7. ASSUME NEW p \in Procs, Flock(p) \/ Tick(p) \/ OpenTransient(p)
      PROVE  LitterInv'
  BY <1>7, <1>2 DEF Flock, Tick, OpenTransient
<1>8. ASSUME NEW p \in Procs, CloseLosing(p) \/ Verify(p) \/ VerifyTransient(p)
      PROVE  LitterInv'
  BY <1>8, CloseHandleFacts DEF CloseLosing, Verify, VerifyTransient
<1>9. ASSUME NEW p \in Procs, Remove(p)
      PROVE  LitterInv'
  BY <1>9 DEF Remove, Removable, HandleOpen
<1>10. ASSUME NEW p \in Procs, Unlock(p)
       PROVE  LitterInv'
  BY <1>10, CloseHandleFacts DEF Unlock
<1>11. ASSUME NEW p \in Procs, RemoveAgain(p)
       PROVE  LitterInv'
  BY <1>11 DEF RemoveAgain, Removable, HandleOpen
<1>12. ASSUME NEW p \in Procs, AcquireError(p) \/ Cancel(p) \/ Crash(p)
       PROVE  LitterInv'
  BY <1>12, CloseHandleFacts DEF AcquireError, Cancel, Crash
<1> QED
  BY <1>1, <1>3, <1>4, <1>5, <1>6, <1>7, <1>8, <1>9, <1>10, <1>11, <1>12
     DEF Next, Step, Fault

\* releaseFunc leaves no lock file behind, on POSIX and on Windows, however
\* the invocations interleave, unless one of them was killed or gave up.
THEOREM NoLitterHolds == Spec => []NoLitter
<1>1. Init => LitterInv
  BY DEF Init, LitterInv
<1>2. LitterInv => NoLitter
  BY DEF LitterInv, NoLitter
<1> QED
  BY <1>1, <1>2, StepLitterInv, LockInvariant, PTL DEF Spec

-----------------------------------------------------------------------------
(* Refinement.                                                             *)

\* A step that leaves every pc at, or away from, "held" is a stutter.
LEMMA OtherStages ==
  ASSUME \A q \in Procs : (pc[q] = "held") <=> (pc'[q] = "held")
  PROVE  UNCHANGED Holders
  BY DEF Holders

\* verify -> held enters, held -> remove and a crash leave, all else stutters.
THEOREM StepRefines == LockInv /\ LockInv' /\ [Next]_vars => [Mutex!Next]_Holders
<1> SUFFICES ASSUME LockInv, LockInv', [Next]_vars
             PROVE  Mutex!Next \/ UNCHANGED Holders
  BY DEF Mutex!Next
<1> USE DEF LockInv, TypeOK, GoTo
<1>single. /\ \A p, q \in Holders : p = q
           /\ \A p, q \in Holders' : p = q
  BY DEF Holders, Locked
<1>enter. ASSUME NEW p \in Procs, p \notin Holders, p \in Holders',
                 \A q \in Procs \ {p} : pc'[q] = pc[q]
          PROVE  Mutex!Next
  <2>1. Holders = {}
    BY <1>enter, <1>single DEF Holders
  <2>2. Holders' = {p}
    BY <1>enter, <1>single DEF Holders
  <2> QED
    BY <2>1, <2>2 DEF Mutex!Next, Mutex!Enter
<1>leave. ASSUME NEW p \in Procs, p \in Holders, p \notin Holders',
                 \A q \in Procs \ {p} : pc'[q] = pc[q]
          PROVE  Mutex!Next
  <2>1. Holders = {p}
    BY <1>leave, <1>single DEF Holders
  <2>2. Holders' = {}
    BY <1>leave, <2>1 DEF Holders
  <2> QED
    BY <2>1, <2>2 DEF Mutex!Next, Mutex!Leave
<1>one. ASSUME NEW p \in Procs, \A q \in Procs \ {p} : pc'[q] = pc[q]
        PROVE  Mutex!Next \/ UNCHANGED Holders
  <2>1. CASE (p \in Holders) <=> (p \in Holders')
    <3>1. \A q \in Procs : (pc[q] = "held") <=> (pc'[q] = "held")
      BY <1>one, <2>1 DEF Holders
    <3> QED
      BY <3>1, OtherStages
  <2>2. CASE p \notin Holders /\ p \in Holders'
    BY <1>one, <1>enter, <2>2
  <2>3. CASE p \in Holders /\ p \notin Holders'
    BY <1>one, <1>leave, <2>3
  <2> QED
    BY <2>1, <2>2, <2>3
<1>1. CASE CreateWorkDir
  BY <1>1 DEF CreateWorkDir, Holders
<1>2. ASSUME NEW p \in Procs, Call(p) \/ Step(p) \/ Fault(p)
      PROVE  \A q \in Procs \ {p} : pc'[q] = pc[q]
  BY <1>2 DEF Call, Step, Fault, NestedCall, Return, Open, Flock, CloseLosing,
     Verify, Tick, Remove, Unlock, RemoveAgain, OpenTransient, VerifyTransient,
     AcquireError, Cancel, Crash
<1>3. CASE UNCHANGED vars
  BY <1>3 DEF vars, Holders
<1> QED
  BY <1>1, <1>2, <1>3, <1>one DEF Next

\* The lock implements the abstract mutual exclusion: nobody is inside at the
\* start, and every step of lock.go enters, leaves or stutters.
THEOREM LockImplementsMutex == Spec => Implements
<1>1. Init => Mutex!Init
  BY DEF Init, Mutex!Init, Holders
<1> QED
  BY <1>1, StepRefines, LockInvariant, PTL DEF Spec, Mutex!Spec, Implements
=============================================================================
