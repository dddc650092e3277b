---------------------------- MODULE MCBuildLock ----------------------------
(* The lock on both kinds of system: BuildLock as it is for POSIX, where a    *)
(* file with an open handle can be removed, and once more for Windows.        *)
EXTENDS BuildLock

VARIABLE system

OnWindows == INSTANCE BuildLock WITH Windows <- TRUE

Either(onPosix, onWindows) ==
  system' = system /\ IF system = "posix" THEN onPosix ELSE onWindows

MCVars == <<vars, system>>
MCInit == Init /\ system \in {"posix", "windows"}
MCNext == Either(Next, OnWindows!Next)

MCFairness ==
  \A p \in Procs :
    /\ \A d \in 1..MaxDepth : SF_MCVars(depth[p] = d /\ Either(Return(p), OnWindows!Return(p)))
    /\ WF_MCVars(Either(Tick(p), OnWindows!Tick(p)))
    /\ SF_MCVars(Either(Open(p), OnWindows!Open(p)))
    /\ WF_MCVars(Either(Flock(p), OnWindows!Flock(p)))
    /\ WF_MCVars(Either(CloseLosing(p), OnWindows!CloseLosing(p)))
    /\ SF_MCVars(Either(Verify(p), OnWindows!Verify(p)))
    /\ WF_MCVars(Either(Remove(p), OnWindows!Remove(p)))
    /\ WF_MCVars(Either(Unlock(p), OnWindows!Unlock(p)))
    /\ WF_MCVars(Either(RemoveAgain(p), OnWindows!RemoveAgain(p)))

MCSpec == MCInit /\ [][MCNext]_MCVars /\ MCFairness
=============================================================================
