-------------------------- MODULE BuildSessionProofs --------------------------
(***************************************************************************)
(* What a kill can never take away: with manifest writes that do not fail, *)
(* and no build, setup or pin started over the manifest of another one,    *)
(* every file of the module is the user's or can be restored, at every     *)
(* moment, for any set of files, contents and invocations.                 *)
(***************************************************************************)
EXTENDS BuildSession, TLAPS

\* Only the invocation that runs takes a step; the others are idle before and
\* after it, and have nothing to say.
LEMMA OthersIdle ==
  ASSUME SessionInv, NEW p \in Procs, Running \subseteq {p},
         \A q \in Procs \ {p} :
           stage'[q] = stage[q] /\ mem'[q] = mem[q] /\ ok'[q] = ok[q]
  PROVE  /\ \A q, r \in Running' : q = r
         /\ \A q \in Procs \ {p} : EditInv(q)' /\ CleanInv(q)'
<1>1. \A q \in Procs \ {p} : stage'[q] = "idle" /\ mem'[q] = Empty /\ ok'[q]
  BY DEF SessionInv, EditInv, Running
<1>2. \A q \in Procs \ {p} : EditInv(q)'
  BY <1>1 DEF EditInv, InTrackAll, InRuntime, At
<1>3. \A q \in Procs \ {p} : CleanInv(q)'
  BY <1>1 DEF CleanInv, Succeeded, At
<1> QED
  BY <1>1, <1>2, <1>3 DEF Running

\* The invocation that takes a step is the only one that runs.
LEMMA Alone ==
  ASSUME SessionInv, NEW p \in Procs, stage[p] # "idle"
  PROVE  Running \subseteq {p}
  BY DEF SessionInv, Running

\* The types of what the actions write.
LEMMA Types ==
  /\ Backup \subseteq Files /\ Runtime \subseteq Files
  /\ Original \subseteq Contents
  /\ Tool \in Contents /\ Torn \in Contents /\ NoFile \in Contents /\ NoFile \in Original
  /\ Empty \in [Files -> Entries]
  /\ {"untracked", "absent", "existed"} = Entries
  /\ \A m \in [Files -> Entries] : Tracked(m) \in SUBSET Files
  /\ "build" \in Commands
  BY DEF Files, Contents, Written, Original, Empty, Entries, Tracked, Commands

\* The types of what Finish writes.
LEMMA FinishTypes ==
  ASSUME TypeOK, NEW p \in Procs, Finish(p)
  PROVE  /\ stage' \in [Procs -> Stages]
         /\ todo' \in [Procs -> SUBSET Files]
         /\ ok' \in [Procs -> BOOLEAN]
<1> USE DEF TypeOK, Finish, GoTo, SetTodo
<1>1. {"revert", "done"} \subseteq Stages
  BY DEF Stages
<1>2. Tracked(mem[p]) \in SUBSET Files
  BY Types
<1>3. CASE cmd[p] = "build"
  BY <1>1, <1>2, <1>3
<1>4. CASE cmd[p] # "build"
  BY <1>1, <1>4
<1> QED
  BY <1>3, <1>4

\* Before the first command the files are the user's and nothing is recorded.
THEOREM InitSessionInv == Init => SessionInv
<1> SUFFICES ASSUME Init
             PROVE  SessionInv
  OBVIOUS
<1>1. TypeOK
  BY BuildSessionAssumption DEF Init, TypeOK, Files, Contents, Written, Original, Empty,
     Entries, Commands, Stages
<1>2. DiskInv
  BY DEF Init, DiskInv, Empty
<1>3. \A p \in Procs : EditInv(p) /\ CleanInv(p)
  BY DEF Init, EditInv, CleanInv, InTrackAll, InRuntime, Succeeded, At, Empty
<1> QED
  BY <1>1, <1>2, <1>3 DEF SessionInv, Init, Running

\* Every step keeps the files recoverable and what the invocations know of them.
THEOREM StepSessionInv ==
  ASSUME "commit" \notin Faults, ~OverManifest
  PROVE  SessionInv /\ [Next]_vars => SessionInv'
<1> SUFFICES ASSUME SessionInv, [Next]_vars
             PROVE  SessionInv'
  OBVIOUS
<1> USE BuildSessionAssumption DEF GoTo, SetTodo, Fail, At, disk, local
<1>0. TypeOK
  BY DEF SessionInv
<1>1. ASSUME NEW p \in Procs, NEW c \in Commands, Enter(p, c)
     PROVE  SessionInv'
  <2>0. Running \subseteq {p}
    BY <1>1 DEF Enter, LockFree
  <2>1. TypeOK'
    BY <1>0, <1>1, Types DEF Enter, LockFree, TypeOK, Stages
  <2>2. /\ \A q, r \in Running' : q = r
        /\ \A q \in Procs \ {p} : EditInv(q)' /\ CleanInv(q)'
    BY <1>1, <2>0, OthersIdle DEF Enter, LockFree, SessionInv, TypeOK
  <2>3. DiskInv'
    BY <1>1 DEF Enter, LockFree, SessionInv, TypeOK, DiskInv, EditInv, CleanInv, Empty
  <2>4. EditInv(p)'
    <3>1. stage[p] = "idle" /\ mem[p] = Empty /\ ok[p]
      BY <1>1 DEF Enter, LockFree, Running, SessionInv, EditInv
    <3>2. CASE c = "cleanup"
      BY <1>0, <1>1, <3>1, <3>2 DEF Enter, TypeOK, EditInv, InTrackAll, InRuntime
    <3>3. CASE c = "pin"
      BY <1>0, <1>1, <3>1, <3>3 DEF Enter, TypeOK, EditInv, InTrackAll, InRuntime
    <3>4. CASE c \in {"build", "setup"}
      BY <1>0, <1>1, <3>1, <3>4 DEF Enter, TypeOK, EditInv, InTrackAll, InRuntime, Empty
    <3> QED
      BY <3>2, <3>3, <3>4 DEF Commands
  <2>5. CleanInv(p)'
    BY <1>1 DEF Enter, LockFree, SessionInv, TypeOK, DiskInv, EditInv, CleanInv, Succeeded, Tracked, Empty
  <2> QED
    BY <2>1, <2>2, <2>3, <2>4, <2>5 DEF SessionInv
<1>2. ASSUME NEW p \in Procs, Leave(p)
     PROVE  SessionInv'
  <2>0. Running \subseteq {p}
    BY <1>2, Alone DEF Leave, Exit
  <2>1. TypeOK'
    BY <1>0, <1>2, Types DEF Leave, Exit, TypeOK, Stages
  <2>2. /\ \A q, r \in Running' : q = r
        /\ \A q \in Procs \ {p} : EditInv(q)' /\ CleanInv(q)'
    BY <1>2, <2>0, OthersIdle DEF Leave, Exit, SessionInv, TypeOK
  <2>3. DiskInv'
    BY <1>2 DEF Leave, Exit, SessionInv, TypeOK, DiskInv, EditInv, CleanInv, Empty
  <2>4. EditInv(p)'
    BY <1>2 DEF Leave, Exit, SessionInv, TypeOK, DiskInv, EditInv, InTrackAll, InRuntime, Files, Empty
  <2>5. CleanInv(p)'
    BY <1>2 DEF Leave, Exit, SessionInv, TypeOK, DiskInv, EditInv, CleanInv, Succeeded, Tracked, Empty
  <2> QED
    BY <2>1, <2>2, <2>3, <2>4, <2>5 DEF SessionInv
<1>3. ASSUME NEW p \in Procs, Crash(p)
     PROVE  SessionInv'
  <2>0. Running \subseteq {p}
    BY <1>3, Alone DEF Crash, Exit
  <2>1. TypeOK'
    BY <1>0, <1>3, Types DEF Crash, Exit, TypeOK, Stages
  <2>2. /\ \A q, r \in Running' : q = r
        /\ \A q \in Procs \ {p} : EditInv(q)' /\ CleanInv(q)'
    BY <1>3, <2>0, OthersIdle DEF Crash, Exit, SessionInv, TypeOK
  <2>3. DiskInv'
    BY <1>3 DEF Crash, Exit, SessionInv, TypeOK, DiskInv, EditInv, CleanInv, Empty
  <2>4. EditInv(p)'
    BY <1>3 DEF Crash, Exit, SessionInv, TypeOK, DiskInv, EditInv, InTrackAll, InRuntime, Files, Empty
  <2>5. CleanInv(p)'
    BY <1>3 DEF Crash, Exit, SessionInv, TypeOK, DiskInv, EditInv, CleanInv, Succeeded, Tracked, Empty
  <2> QED
    BY <2>1, <2>2, <2>3, <2>4, <2>5 DEF SessionInv
<1>4. ASSUME NEW p \in Procs, Plan(p)
     PROVE  SessionInv'
  <2>0. Running \subseteq {p}
    BY <1>4, Alone DEF Plan
  <2>1. TypeOK'
    BY <1>0, <1>4, Types DEF Plan, TypeOK, Stages
  <2>2. /\ \A q, r \in Running' : q = r
        /\ \A q \in Procs \ {p} : EditInv(q)' /\ CleanInv(q)'
    BY <1>4, <2>0, OthersIdle DEF Plan, SessionInv, TypeOK
  <2>3. DiskInv'
    BY <1>4 DEF Plan, SessionInv, TypeOK, DiskInv, EditInv, CleanInv, Empty
  <2>4. EditInv(p)'
    BY <1>4 DEF Plan, SessionInv, TypeOK, DiskInv, EditInv, InTrackAll, InRuntime, Files, Empty
  <2>5. CleanInv(p)'
    BY <1>4 DEF Plan, SessionInv, TypeOK, DiskInv, EditInv, CleanInv, Succeeded, Tracked, Empty
  <2> QED
    BY <2>1, <2>2, <2>3, <2>4, <2>5 DEF SessionInv
<1>5. ASSUME NEW p \in Procs, NEW f \in Files, TrackBegin(p, f)
     PROVE  SessionInv'
  <2>0. Running \subseteq {p}
    BY <1>5, Alone DEF TrackBegin
  <2>1. TypeOK'
    <3>1. cur' \in [Procs -> Files \cup {NoFile}] /\ stage' \in [Procs -> Stages]
      BY <1>0, <1>5 DEF TrackBegin, TypeOK, Stages
    <3>2. CASE tree[f] = NoFile
      <4>1. mem' = [mem EXCEPT ![p] = [mem[p] EXCEPT ![f] = "absent"]]
        BY <1>0, <1>5, <3>2 DEF TrackBegin, TypeOK
      <4>2. mem' \in [Procs -> [Files -> Entries]]
        BY <1>0, <4>1, Types DEF TypeOK
      <4> QED
        BY <1>0, <1>5, <3>1, <3>2, <4>2 DEF TrackBegin, TypeOK
    <3>3. CASE tree[f] # NoFile
      BY <1>0, <1>5, <3>1, <3>3, Types DEF TrackBegin, TypeOK
    <3> QED
      BY <3>2, <3>3
  <2>2. /\ \A q, r \in Running' : q = r
        /\ \A q \in Procs \ {p} : EditInv(q)' /\ CleanInv(q)'
    BY <1>5, <2>0, OthersIdle DEF TrackBegin, SessionInv, TypeOK
  <2>3. DiskInv'
    <3>1. manifest[f] = "untracked"
      BY <1>5 DEF TrackBegin, SessionInv, EditInv, InTrackAll, InRuntime
    <3>2. CASE tree[f] = NoFile
      BY <1>5, <3>2 DEF TrackBegin, SessionInv, DiskInv
    <3>3. CASE tree[f] # NoFile
      BY <1>0, <1>5, <3>1, <3>3 DEF TrackBegin, SessionInv, TypeOK, DiskInv
    <3> QED
      BY <3>2, <3>3
  <2>4. EditInv(p)'
    BY <1>5 DEF TrackBegin, SessionInv, TypeOK, DiskInv, EditInv, InTrackAll, InRuntime, Files, Empty
  <2>5. CleanInv(p)'
    BY <1>5 DEF TrackBegin, SessionInv, TypeOK, DiskInv, EditInv, CleanInv, Succeeded, Tracked, Empty
  <2> QED
    BY <2>1, <2>2, <2>3, <2>4, <2>5 DEF SessionInv
<1>6. ASSUME NEW p \in Procs, SnapshotDone(p)
     PROVE  SessionInv'
  <2>0. Running \subseteq {p}
    BY <1>6, Alone DEF SnapshotDone
  <2>1. TypeOK'
    BY <1>0, <1>6, Types DEF SnapshotDone, TypeOK, Stages
  <2>2. /\ \A q, r \in Running' : q = r
        /\ \A q \in Procs \ {p} : EditInv(q)' /\ CleanInv(q)'
    BY <1>6, <2>0, OthersIdle DEF SnapshotDone, SessionInv, TypeOK
  <2>3. DiskInv'
    BY <1>6 DEF SnapshotDone, SessionInv, TypeOK, DiskInv, EditInv, CleanInv, Empty
  <2>4. EditInv(p)'
    BY <1>6 DEF SnapshotDone, SessionInv, TypeOK, DiskInv, EditInv, InTrackAll, InRuntime, Files, Empty
  <2>5. CleanInv(p)'
    BY <1>6 DEF SnapshotDone, SessionInv, TypeOK, DiskInv, EditInv, CleanInv, Succeeded, Tracked, Empty
  <2> QED
    BY <2>1, <2>2, <2>3, <2>4, <2>5 DEF SessionInv
<1>7. ASSUME NEW p \in Procs, TrackFails(p)
     PROVE  SessionInv'
  <2>0. Running \subseteq {p}
    BY <1>7, Alone DEF TrackFails, Finish
  <2>1. TypeOK'
    <3>1. CASE cur[p] \in Backup
      <4>1. stage' \in [Procs -> Stages] /\ ok' \in [Procs -> BOOLEAN]
        BY <1>0, <1>7, <3>1 DEF TrackFails, TypeOK, Stages
      <4>2. todo \in [Procs -> SUBSET Files]
        BY <1>0 DEF TypeOK
      <4>3. todo' = [todo EXCEPT ![p] = todo[p] \ {cur[p]}]
        BY <1>7, <3>1 DEF TrackFails, SetTodo
      <4>4. todo' \in [Procs -> SUBSET Files]
        BY <4>2, <4>3
      <4> QED
        BY <1>0, <1>7, <4>1, <4>4 DEF TrackFails, TypeOK
    <3>2. CASE cur[p] \notin Backup
      BY <1>0, <1>7, <3>2, FinishTypes DEF TrackFails, TypeOK
    <3> QED
      BY <3>1, <3>2
  <2>2. /\ \A q, r \in Running' : q = r
        /\ \A q \in Procs \ {p} : EditInv(q)' /\ CleanInv(q)'
    BY <1>7, <2>0, OthersIdle DEF TrackFails, Finish, SessionInv, TypeOK
  <2>3. DiskInv'
    BY <1>7 DEF TrackFails, Finish, SessionInv, TypeOK, DiskInv, EditInv, CleanInv, Empty
  <2>4. EditInv(p)'
    BY <1>7 DEF TrackFails, Finish, SessionInv, TypeOK, DiskInv, EditInv, InTrackAll, InRuntime, Files, Empty
  <2>5. CleanInv(p)'
    BY <1>7 DEF TrackFails, Finish, SessionInv, TypeOK, DiskInv, EditInv, CleanInv, Succeeded, Tracked, Empty
  <2> QED
    BY <2>1, <2>2, <2>3, <2>4, <2>5 DEF SessionInv
<1>8. ASSUME NEW p \in Procs, Commit(p)
     PROVE  SessionInv'
  <2>0. Running \subseteq {p}
    BY <1>8, Alone DEF Commit
  <2>1. TypeOK'
    BY <1>0, <1>8, Types DEF Commit, TypeOK, Stages
  <2>2. /\ \A q, r \in Running' : q = r
        /\ \A q \in Procs \ {p} : EditInv(q)' /\ CleanInv(q)'
    BY <1>8, <2>0, OthersIdle DEF Commit, SessionInv, TypeOK
  <2>3. DiskInv'
    BY <1>8 DEF Commit, SessionInv, TypeOK, DiskInv, EditInv, CleanInv, Empty
  <2>4. EditInv(p)'
    <3>1. /\ stage[p] = "commit" /\ cur[p] \in Files /\ manifest' = mem[p]
          /\ mem[p][cur[p]] # "untracked" /\ cmd[p] \in {"build", "setup"}
      BY <1>8 DEF Commit, SessionInv, EditInv
    <3>2. \A f \in Files : mem[p][f] = "existed" => snap[f] = user[f]
      BY <3>1 DEF SessionInv, EditInv
    <3>3. CASE cur[p] \in Backup
      BY <1>0, <1>8, <3>1, <3>2, <3>3
         DEF Commit, SessionInv, TypeOK, EditInv, InTrackAll, InRuntime
    <3>4. CASE cur[p] \in Runtime
      BY <1>0, <1>8, <3>1, <3>2, <3>4
         DEF Commit, SessionInv, TypeOK, EditInv, InTrackAll, InRuntime
    <3> QED
      BY <3>1, <3>3, <3>4 DEF Files
  <2>5. CleanInv(p)'
    BY <1>8 DEF Commit, SessionInv, TypeOK, DiskInv, EditInv, CleanInv, Succeeded, Tracked, Empty
  <2> QED
    BY <2>1, <2>2, <2>3, <2>4, <2>5 DEF SessionInv
<1>9. ASSUME NEW p \in Procs, TrackAllDone(p)
     PROVE  SessionInv'
  <2>0. Running \subseteq {p}
    BY <1>9, Alone DEF TrackAllDone, Finish
  <2>1. TypeOK'
    <3>1. CASE ok[p]
      BY <1>0, <1>9, <3>1 DEF TrackAllDone, TypeOK, Stages
    <3>2. CASE ~ok[p]
      BY <1>0, <1>9, <3>2, FinishTypes DEF TrackAllDone, TypeOK
    <3> QED
      BY <3>1, <3>2
  <2>2. /\ \A q, r \in Running' : q = r
        /\ \A q \in Procs \ {p} : EditInv(q)' /\ CleanInv(q)'
    BY <1>9, <2>0, OthersIdle DEF TrackAllDone, Finish, SessionInv, TypeOK
  <2>3. DiskInv'
    BY <1>9 DEF TrackAllDone, Finish, SessionInv, TypeOK, DiskInv, EditInv, CleanInv, Empty
  <2>4. EditInv(p)'
    BY <1>9 DEF TrackAllDone, Finish, SessionInv, TypeOK, DiskInv, EditInv, InTrackAll, InRuntime, Files, Empty
  <2>5. CleanInv(p)'
    BY <1>9 DEF TrackAllDone, Finish, SessionInv, TypeOK, DiskInv, EditInv, CleanInv, Succeeded, Tracked, Empty
  <2> QED
    BY <2>1, <2>2, <2>3, <2>4, <2>5 DEF SessionInv
<1>10. ASSUME NEW p \in Procs, NEW f \in Files, PinEdit(p, f)
     PROVE  SessionInv'
  <2>0. Running \subseteq {p}
    BY <1>10, Alone DEF PinEdit
  <2>1. TypeOK'
    BY <1>0, <1>10, Types DEF PinEdit, TypeOK, Stages
  <2>2. /\ \A q, r \in Running' : q = r
        /\ \A q \in Procs \ {p} : EditInv(q)' /\ CleanInv(q)'
    BY <1>10, <2>0, OthersIdle DEF PinEdit, SessionInv, TypeOK
  <2>3. DiskInv'
    BY <1>10 DEF PinEdit, SessionInv, TypeOK, DiskInv, EditInv, CleanInv, Empty
  <2>4. EditInv(p)'
    BY <1>10 DEF PinEdit, SessionInv, TypeOK, DiskInv, EditInv, InTrackAll, InRuntime, Files, Empty
  <2>5. CleanInv(p)'
    BY <1>10 DEF PinEdit, SessionInv, TypeOK, DiskInv, EditInv, CleanInv, Succeeded, Tracked, Empty
  <2> QED
    BY <2>1, <2>2, <2>3, <2>4, <2>5 DEF SessionInv
<1>11. ASSUME NEW p \in Procs, PinDone(p)
     PROVE  SessionInv'
  <2>0. Running \subseteq {p}
    BY <1>11, Alone DEF PinDone
  <2>1. TypeOK'
    BY <1>0, <1>11, Types DEF PinDone, TypeOK, Stages
  <2>2. /\ \A q, r \in Running' : q = r
        /\ \A q \in Procs \ {p} : EditInv(q)' /\ CleanInv(q)'
    BY <1>11, <2>0, OthersIdle DEF PinDone, SessionInv, TypeOK
  <2>3. DiskInv'
    BY <1>11 DEF PinDone, SessionInv, TypeOK, DiskInv, EditInv, CleanInv, Empty
  <2>4. EditInv(p)'
    BY <1>11 DEF PinDone, SessionInv, TypeOK, DiskInv, EditInv, InTrackAll, InRuntime, Files, Empty
  <2>5. CleanInv(p)'
    BY <1>11 DEF PinDone, SessionInv, TypeOK, DiskInv, EditInv, CleanInv, Succeeded, Tracked, Empty
  <2> QED
    BY <2>1, <2>2, <2>3, <2>4, <2>5 DEF SessionInv
<1>12. ASSUME NEW p \in Procs, NEW f \in Files, RuntimeSkip(p, f)
     PROVE  SessionInv'
  <2>0. Running \subseteq {p}
    BY <1>12, Alone DEF RuntimeSkip
  <2>1. TypeOK'
    BY <1>0, <1>12, Types DEF RuntimeSkip, TypeOK, Stages
  <2>2. /\ \A q, r \in Running' : q = r
        /\ \A q \in Procs \ {p} : EditInv(q)' /\ CleanInv(q)'
    BY <1>12, <2>0, OthersIdle DEF RuntimeSkip, SessionInv, TypeOK
  <2>3. DiskInv'
    BY <1>12 DEF RuntimeSkip, SessionInv, TypeOK, DiskInv, EditInv, CleanInv, Empty
  <2>4. EditInv(p)'
    BY <1>12 DEF RuntimeSkip, SessionInv, TypeOK, DiskInv, EditInv, InTrackAll, InRuntime, Files, Empty
  <2>5. CleanInv(p)'
    BY <1>12 DEF RuntimeSkip, SessionInv, TypeOK, DiskInv, EditInv, CleanInv, Succeeded, Tracked, Empty
  <2> QED
    BY <2>1, <2>2, <2>3, <2>4, <2>5 DEF SessionInv
<1>13. ASSUME NEW p \in Procs, RuntimeEdit(p)
     PROVE  SessionInv'
  <2>0. Running \subseteq {p}
    BY <1>13, Alone DEF RuntimeEdit
  <2>1. TypeOK'
    BY <1>0, <1>13, Types DEF RuntimeEdit, TypeOK, Stages
  <2>2. /\ \A q, r \in Running' : q = r
        /\ \A q \in Procs \ {p} : EditInv(q)' /\ CleanInv(q)'
    BY <1>13, <2>0, OthersIdle DEF RuntimeEdit, SessionInv, TypeOK
  <2>3. DiskInv'
    BY <1>13 DEF RuntimeEdit, SessionInv, TypeOK, DiskInv, EditInv, CleanInv, Empty
  <2>4. EditInv(p)'
    BY <1>13 DEF RuntimeEdit, SessionInv, TypeOK, DiskInv, EditInv, InTrackAll, InRuntime, Files, Empty
  <2>5. CleanInv(p)'
    BY <1>13 DEF RuntimeEdit, SessionInv, TypeOK, DiskInv, EditInv, CleanInv, Succeeded, Tracked, Empty
  <2> QED
    BY <2>1, <2>2, <2>3, <2>4, <2>5 DEF SessionInv
<1>14. ASSUME NEW p \in Procs, RuntimeDone(p)
     PROVE  SessionInv'
  <2>0. Running \subseteq {p}
    BY <1>14, Alone DEF RuntimeDone
  <2>1. TypeOK'
    BY <1>0, <1>14, Types DEF RuntimeDone, TypeOK, Stages
  <2>2. /\ \A q, r \in Running' : q = r
        /\ \A q \in Procs \ {p} : EditInv(q)' /\ CleanInv(q)'
    BY <1>14, <2>0, OthersIdle DEF RuntimeDone, SessionInv, TypeOK
  <2>3. DiskInv'
    BY <1>14 DEF RuntimeDone, SessionInv, TypeOK, DiskInv, EditInv, CleanInv, Empty
  <2>4. EditInv(p)'
    BY <1>14 DEF RuntimeDone, SessionInv, TypeOK, DiskInv, EditInv, InTrackAll, InRuntime, Files, Empty
  <2>5. CleanInv(p)'
    BY <1>14 DEF RuntimeDone, SessionInv, TypeOK, DiskInv, EditInv, CleanInv, Succeeded, Tracked, Empty
  <2> QED
    BY <2>1, <2>2, <2>3, <2>4, <2>5 DEF SessionInv
<1>15. ASSUME NEW p \in Procs, Toolexec(p)
     PROVE  SessionInv'
  <2>0. Running \subseteq {p}
    BY <1>15, Alone DEF Toolexec, Finish
  <2>1. TypeOK'
    BY <1>0, <1>15, FinishTypes DEF Toolexec, TypeOK
  <2>2. /\ \A q, r \in Running' : q = r
        /\ \A q \in Procs \ {p} : EditInv(q)' /\ CleanInv(q)'
    BY <1>15, <2>0, OthersIdle DEF Toolexec, Finish, SessionInv, TypeOK
  <2>3. DiskInv'
    BY <1>15 DEF Toolexec, Finish, SessionInv, TypeOK, DiskInv, EditInv, CleanInv, Empty
  <2>4. EditInv(p)'
    BY <1>15 DEF Toolexec, Finish, SessionInv, TypeOK, DiskInv, EditInv, InTrackAll, InRuntime, Files, Empty
  <2>5. CleanInv(p)'
    BY <1>15 DEF Toolexec, Finish, SessionInv, TypeOK, DiskInv, EditInv, CleanInv, Succeeded, Tracked, Empty
  <2> QED
    BY <2>1, <2>2, <2>3, <2>4, <2>5 DEF SessionInv
<1>16. ASSUME NEW p \in Procs, Abort(p)
     PROVE  SessionInv'
  <2>0. Running \subseteq {p}
    BY <1>16, Alone DEF Abort, Finish
  <2>1. TypeOK'
    BY <1>0, <1>16, FinishTypes DEF Abort, TypeOK
  <2>2. /\ \A q, r \in Running' : q = r
        /\ \A q \in Procs \ {p} : EditInv(q)' /\ CleanInv(q)'
    BY <1>16, <2>0, OthersIdle DEF Abort, Finish, SessionInv, TypeOK
  <2>3. DiskInv'
    BY <1>16 DEF Abort, Finish, SessionInv, TypeOK, DiskInv, EditInv, CleanInv, Empty
  <2>4. EditInv(p)'
    BY <1>16 DEF Abort, Finish, SessionInv, TypeOK, DiskInv, EditInv, InTrackAll, InRuntime, Files, Empty
  <2>5. CleanInv(p)'
    BY <1>16 DEF Abort, Finish, SessionInv, TypeOK, DiskInv, EditInv, CleanInv, Succeeded, Tracked, Empty
  <2> QED
    BY <2>1, <2>2, <2>3, <2>4, <2>5 DEF SessionInv
<1>17. ASSUME NEW p \in Procs, NEW f \in Backup, NEW v \in Original, PinCommandEdit(p, f, v)
     PROVE  SessionInv'
  <2>0. Running \subseteq {p}
    BY <1>17, Alone DEF PinCommandEdit
  <2>1. TypeOK'
    BY <1>0, <1>17, Types DEF PinCommandEdit, TypeOK, Stages
  <2>2. /\ \A q, r \in Running' : q = r
        /\ \A q \in Procs \ {p} : EditInv(q)' /\ CleanInv(q)'
    BY <1>17, <2>0, OthersIdle DEF PinCommandEdit, SessionInv, TypeOK
  <2>3. DiskInv'
    BY <1>17 DEF PinCommandEdit, SessionInv, TypeOK, DiskInv, EditInv, CleanInv, Empty
  <2>4. EditInv(p)'
    BY <1>17 DEF PinCommandEdit, SessionInv, TypeOK, DiskInv, EditInv, InTrackAll, InRuntime, Files, Empty
  <2>5. CleanInv(p)'
    BY <1>17 DEF PinCommandEdit, SessionInv, TypeOK, DiskInv, EditInv, CleanInv, Succeeded, Tracked, Empty
  <2> QED
    BY <2>1, <2>2, <2>3, <2>4, <2>5 DEF SessionInv
<1>18. ASSUME NEW p \in Procs, PinCommandDone(p)
     PROVE  SessionInv'
  <2>0. Running \subseteq {p}
    BY <1>18, Alone DEF PinCommandDone
  <2>1. TypeOK'
    BY <1>0, <1>18, Types DEF PinCommandDone, TypeOK, Stages
  <2>2. /\ \A q, r \in Running' : q = r
        /\ \A q \in Procs \ {p} : EditInv(q)' /\ CleanInv(q)'
    BY <1>18, <2>0, OthersIdle DEF PinCommandDone, SessionInv, TypeOK
  <2>3. DiskInv'
    BY <1>18 DEF PinCommandDone, SessionInv, TypeOK, DiskInv, EditInv, CleanInv, Empty
  <2>4. EditInv(p)'
    BY <1>18 DEF PinCommandDone, SessionInv, TypeOK, DiskInv, EditInv, InTrackAll, InRuntime, Files, Empty
  <2>5. CleanInv(p)'
    BY <1>18 DEF PinCommandDone, SessionInv, TypeOK, DiskInv, EditInv, CleanInv, Succeeded, Tracked, Empty
  <2> QED
    BY <2>1, <2>2, <2>3, <2>4, <2>5 DEF SessionInv
<1>19. ASSUME NEW p \in Procs, Load(p)
     PROVE  SessionInv'
  <2>0. Running \subseteq {p}
    BY <1>19, Alone DEF Load
  <2>1. TypeOK'
    BY <1>0, <1>19, Types DEF Load, TypeOK, Stages
  <2>2. /\ \A q, r \in Running' : q = r
        /\ \A q \in Procs \ {p} : EditInv(q)' /\ CleanInv(q)'
    BY <1>19, <2>0, OthersIdle DEF Load, SessionInv, TypeOK
  <2>3. DiskInv'
    BY <1>19 DEF Load, SessionInv, TypeOK, DiskInv, EditInv, CleanInv, Empty
  <2>4. EditInv(p)'
    BY <1>19 DEF Load, SessionInv, TypeOK, DiskInv, EditInv, InTrackAll, InRuntime, Files, Empty
  <2>5. CleanInv(p)'
    BY <1>19 DEF Load, SessionInv, TypeOK, DiskInv, EditInv, CleanInv, Succeeded, Tracked, Empty
  <2> QED
    BY <2>1, <2>2, <2>3, <2>4, <2>5 DEF SessionInv
<1>20. ASSUME NEW p \in Procs, NEW f \in Files, RevertAbsent(p, f)
     PROVE  SessionInv'
  <2>0. Running \subseteq {p}
    BY <1>20, Alone DEF RevertAbsent
  <2>1. TypeOK'
    <3>1. todo' \in [Procs -> SUBSET Files]
      BY <1>0, <1>20 DEF RevertAbsent, TypeOK
    <3>2. tree' \in [Files -> Contents]
      BY <1>0, <1>20, Types DEF RevertAbsent, TypeOK
    <3>3. ok' \in [Procs -> BOOLEAN]
      BY <1>0, <1>20 DEF RevertAbsent, TypeOK
    <3> QED
      BY <1>0, <1>20, <3>1, <3>2, <3>3 DEF RevertAbsent, TypeOK
  <2>2. /\ \A q, r \in Running' : q = r
        /\ \A q \in Procs \ {p} : EditInv(q)' /\ CleanInv(q)'
    BY <1>20, <2>0, OthersIdle DEF RevertAbsent, SessionInv, TypeOK
  <2>3. DiskInv'
    BY <1>20 DEF RevertAbsent, SessionInv, TypeOK, DiskInv, EditInv, CleanInv, Empty
  <2>4. EditInv(p)'
    BY <1>20 DEF RevertAbsent, SessionInv, TypeOK, DiskInv, EditInv, InTrackAll, InRuntime, Files, Empty
  <2>5. CleanInv(p)'
    BY <1>20 DEF RevertAbsent, SessionInv, TypeOK, DiskInv, EditInv, CleanInv, Succeeded, Tracked, Empty
  <2> QED
    BY <2>1, <2>2, <2>3, <2>4, <2>5 DEF SessionInv
<1>21. ASSUME NEW p \in Procs, NEW f \in Files, RestoreBegin(p, f)
     PROVE  SessionInv'
  <2>0. Running \subseteq {p}
    BY <1>21, Alone DEF RestoreBegin
  <2>1. TypeOK'
    <3>1. todo' \in [Procs -> SUBSET Files]
      BY <1>0, <1>21 DEF RestoreBegin, TypeOK
    <3>2. CASE snap[f] = NoFile
      BY <1>0, <1>21, <3>1, <3>2 DEF RestoreBegin, TypeOK
    <3>3. CASE snap[f] # NoFile
      <4>a. tree' = [tree EXCEPT ![f] = Torn] /\ stage' = [stage EXCEPT ![p] = "restore"]
        BY <1>21, <3>3 DEF RestoreBegin
      <4>b. Torn \in Contents /\ "restore" \in Stages
        BY Types DEF Stages
      <4>c. tree \in [Files -> Contents] /\ stage \in [Procs -> Stages]
        BY <1>0 DEF TypeOK
      <4>1. tree' \in [Files -> Contents] /\ stage' \in [Procs -> Stages]
        BY <4>a, <4>b, <4>c
      <4>2. cur' \in [Procs -> Files \cup {NoFile}]
        BY <1>0, <1>21, <3>3 DEF RestoreBegin, TypeOK
      <4> QED
        BY <1>0, <1>21, <3>1, <3>3, <4>1, <4>2 DEF RestoreBegin, TypeOK
    <3> QED
      BY <3>2, <3>3
  <2>2. /\ \A q, r \in Running' : q = r
        /\ \A q \in Procs \ {p} : EditInv(q)' /\ CleanInv(q)'
    BY <1>21, <2>0, OthersIdle DEF RestoreBegin, SessionInv, TypeOK
  <2>3. DiskInv'
    BY <1>21 DEF RestoreBegin, SessionInv, TypeOK, DiskInv, EditInv, CleanInv, Empty
  <2>4. EditInv(p)'
    BY <1>21 DEF RestoreBegin, SessionInv, TypeOK, DiskInv, EditInv, InTrackAll, InRuntime, Files, Empty
  <2>5. CleanInv(p)'
    BY <1>21 DEF RestoreBegin, SessionInv, TypeOK, DiskInv, EditInv, CleanInv, Succeeded, Tracked, Empty
  <2> QED
    BY <2>1, <2>2, <2>3, <2>4, <2>5 DEF SessionInv
<1>22. ASSUME NEW p \in Procs, RestoreEnd(p)
     PROVE  SessionInv'
  <2>0. Running \subseteq {p}
    BY <1>22, Alone DEF RestoreEnd
  <2>1. TypeOK'
    <3>1. cur[p] \in Files /\ tree \in [Files -> Contents] /\ snap[cur[p]] \in Contents
      BY <1>0, <1>22 DEF RestoreEnd, SessionInv, EditInv, TypeOK
    <3>2. tree' = tree \/ tree' = [tree EXCEPT ![cur[p]] = snap[cur[p]]]
      BY <1>22 DEF RestoreEnd
    <3>3. tree' \in [Files -> Contents]
      BY <3>1, <3>2
    <3>4. stage' \in [Procs -> Stages]
      BY <1>0, <1>22 DEF RestoreEnd, TypeOK, Stages
    <3>5. ok' \in [Procs -> BOOLEAN]
      BY <1>0, <1>22 DEF RestoreEnd, TypeOK
    <3> QED
      BY <1>0, <1>22, <3>3, <3>4, <3>5 DEF RestoreEnd, TypeOK
  <2>2. /\ \A q, r \in Running' : q = r
        /\ \A q \in Procs \ {p} : EditInv(q)' /\ CleanInv(q)'
    BY <1>22, <2>0, OthersIdle DEF RestoreEnd, SessionInv, TypeOK
  <2>3. DiskInv'
    BY <1>22 DEF RestoreEnd, SessionInv, TypeOK, DiskInv, EditInv, CleanInv, Empty
  <2>4. EditInv(p)'
    BY <1>22 DEF RestoreEnd, SessionInv, TypeOK, DiskInv, EditInv, InTrackAll, InRuntime, Files, Empty
  <2>5. CleanInv(p)'
    BY <1>22 DEF RestoreEnd, SessionInv, TypeOK, DiskInv, EditInv, CleanInv, Succeeded, Tracked, Empty
  <2> QED
    BY <2>1, <2>2, <2>3, <2>4, <2>5 DEF SessionInv
<1>23. ASSUME NEW p \in Procs, RevertDone(p)
     PROVE  SessionInv'
  <2>0. Running \subseteq {p}
    BY <1>23, Alone DEF RevertDone
  <2>1. TypeOK'
    BY <1>0, <1>23, Types DEF RevertDone, TypeOK, Stages
  <2>2. /\ \A q, r \in Running' : q = r
        /\ \A q \in Procs \ {p} : EditInv(q)' /\ CleanInv(q)'
    BY <1>23, <2>0, OthersIdle DEF RevertDone, SessionInv, TypeOK
  <2>3. DiskInv'
    BY <1>23 DEF RevertDone, SessionInv, TypeOK, DiskInv, EditInv, CleanInv, Empty
  <2>4. EditInv(p)'
    BY <1>23 DEF RevertDone, SessionInv, TypeOK, DiskInv, EditInv, InTrackAll, InRuntime, Files, Empty
  <2>5. CleanInv(p)'
    BY <1>23 DEF RevertDone, SessionInv, TypeOK, DiskInv, EditInv, CleanInv, Succeeded, Tracked, Empty
  <2> QED
    BY <2>1, <2>2, <2>3, <2>4, <2>5 DEF SessionInv
<1>24. ASSUME NEW p \in Procs, Discard(p)
     PROVE  SessionInv'
  <2>0. Running \subseteq {p}
    BY <1>24, Alone DEF Discard
  <2>1. TypeOK'
    BY <1>0, <1>24, Types DEF Discard, TypeOK, Stages
  <2>2. /\ \A q, r \in Running' : q = r
        /\ \A q \in Procs \ {p} : EditInv(q)' /\ CleanInv(q)'
    BY <1>24, <2>0, OthersIdle DEF Discard, SessionInv, TypeOK
  <2>3. DiskInv'
    BY <1>24 DEF Discard, SessionInv, TypeOK, DiskInv, EditInv, CleanInv, Empty
  <2>4. EditInv(p)'
    BY <1>24 DEF Discard, SessionInv, TypeOK, DiskInv, EditInv, InTrackAll, InRuntime, Files, Empty
  <2>5. CleanInv(p)'
    BY <1>24 DEF Discard, SessionInv, TypeOK, DiskInv, EditInv, CleanInv, Succeeded, Tracked, Empty
  <2> QED
    BY <2>1, <2>2, <2>3, <2>4, <2>5 DEF SessionInv
<1>25. ASSUME NEW p \in Procs, NEW f \in Files, DiscardSnap(p, f)
     PROVE  SessionInv'
  <2>0. Running \subseteq {p}
    BY <1>25, Alone DEF DiscardSnap
  <2>1. TypeOK'
    BY <1>0, <1>25, Types DEF DiscardSnap, TypeOK, Stages
  <2>2. /\ \A q, r \in Running' : q = r
        /\ \A q \in Procs \ {p} : EditInv(q)' /\ CleanInv(q)'
    BY <1>25, <2>0, OthersIdle DEF DiscardSnap, SessionInv, TypeOK
  <2>3. DiskInv'
    BY <1>25 DEF DiscardSnap, SessionInv, TypeOK, DiskInv, EditInv, CleanInv, Empty
  <2>4. EditInv(p)'
    BY <1>25 DEF DiscardSnap, SessionInv, TypeOK, DiskInv, EditInv, InTrackAll, InRuntime, Files, Empty
  <2>5. CleanInv(p)'
    BY <1>25 DEF DiscardSnap, SessionInv, TypeOK, DiskInv, EditInv, CleanInv, Succeeded, Tracked, Empty
  <2> QED
    BY <2>1, <2>2, <2>3, <2>4, <2>5 DEF SessionInv
<1>26. ASSUME NEW p \in Procs, DiscardDone(p)
     PROVE  SessionInv'
  <2>0. Running \subseteq {p}
    BY <1>26, Alone DEF DiscardDone
  <2>1. TypeOK'
    BY <1>0, <1>26, Types DEF DiscardDone, TypeOK, Stages
  <2>2. /\ \A q, r \in Running' : q = r
        /\ \A q \in Procs \ {p} : EditInv(q)' /\ CleanInv(q)'
    BY <1>26, <2>0, OthersIdle DEF DiscardDone, SessionInv, TypeOK
  <2>3. DiskInv'
    BY <1>26 DEF DiscardDone, SessionInv, TypeOK, DiskInv, EditInv, CleanInv, Empty
  <2>4. EditInv(p)'
    BY <1>26 DEF DiscardDone, SessionInv, TypeOK, DiskInv, EditInv, InTrackAll, InRuntime, Files, Empty
  <2>5. CleanInv(p)'
    BY <1>26 DEF DiscardDone, SessionInv, TypeOK, DiskInv, EditInv, CleanInv, Succeeded, Tracked, Empty
  <2> QED
    BY <2>1, <2>2, <2>3, <2>4, <2>5 DEF SessionInv
<1>27. ASSUME NEW p \in Procs, RemoveAll(p)
     PROVE  SessionInv'
  <2>0. Running \subseteq {p}
    BY <1>27, Alone DEF RemoveAll
  <2>1. TypeOK'
    BY <1>0, <1>27, Types DEF RemoveAll, TypeOK, Stages
  <2>2. /\ \A q, r \in Running' : q = r
        /\ \A q \in Procs \ {p} : EditInv(q)' /\ CleanInv(q)'
    BY <1>27, <2>0, OthersIdle DEF RemoveAll, SessionInv, TypeOK
  <2>3. DiskInv'
    BY <1>27 DEF RemoveAll, SessionInv, TypeOK, DiskInv, EditInv, CleanInv, Empty
  <2>4. EditInv(p)'
    BY <1>27 DEF RemoveAll, SessionInv, TypeOK, DiskInv, EditInv, InTrackAll, InRuntime, Files, Empty
  <2>5. CleanInv(p)'
    BY <1>27 DEF RemoveAll, SessionInv, TypeOK, DiskInv, EditInv, CleanInv, Succeeded, Tracked, Empty
  <2> QED
    BY <2>1, <2>2, <2>3, <2>4, <2>5 DEF SessionInv
<1>28. ASSUME NEW f \in Files, NEW v \in Original, UserEdit(f, v)
     PROVE  SessionInv'
  <2>1. TypeOK'
    BY <1>0, <1>28, Types DEF UserEdit, Files, Contents, Written, Original, TypeOK, Stages
  <2>2. \A p \in Procs : EditInv(p)' /\ CleanInv(p)'
    BY <1>28 DEF UserEdit, SessionInv, EditInv, CleanInv, Running, InTrackAll, InRuntime, Succeeded
  <2>3. DiskInv'
    BY <1>28 DEF UserEdit, SessionInv, TypeOK, DiskInv, Empty
  <2> QED
    BY <1>28, <2>1, <2>2, <2>3 DEF UserEdit, SessionInv, Running
<1>29. CASE UNCHANGED vars
  BY <1>29 DEF vars, SessionInv, TypeOK, DiskInv, EditInv, CleanInv, Running, InTrackAll,
     InRuntime, Succeeded
<1> QED
  BY <1>1, <1>2, <1>3, <1>4, <1>5, <1>6, <1>7, <1>8, <1>9, <1>10, <1>11, <1>12, <1>13, <1>14, <1>15, <1>16, <1>17, <1>18, <1>19, <1>20, <1>21, <1>22, <1>23, <1>24, <1>25, <1>26, <1>27, <1>28, <1>29
     DEF Next, Step, Setup, Cleanup, PinCommand

\* What every reachable state satisfies: the types, one invocation at a time,
\* and what the disk and each invocation know of the user's files.
THEOREM SessionInvariant ==
  ASSUME "commit" \notin Faults, ~OverManifest
  PROVE  Spec => []SessionInv
<1>1. Init => SessionInv
  BY InitSessionInv
<1>2. SessionInv /\ [Next]_vars => SessionInv'
  BY StepSessionInv
<1> QED
  BY <1>1, <1>2, PTL DEF Spec

\* The variables keep their types.
THEOREM SessionTypes ==
  ASSUME "commit" \notin Faults, ~OverManifest
  PROVE  Spec => []TypeOK
<1>1. SessionInv => TypeOK
  BY DEF SessionInv
<1> QED
  BY <1>1, SessionInvariant, PTL

\* Track before edit, Revert before Discard: whenever an invocation is killed,
\* each file is what the user left or can be restored from the manifest and
\* its snapshot.
THEOREM AlwaysRecoverableHolds ==
  ASSUME "commit" \notin Faults, ~OverManifest
  PROVE  Spec => []AlwaysRecoverable
<1>1. SessionInv => AlwaysRecoverable
  <2> SUFFICES ASSUME SessionInv, NEW f \in Files
               PROVE  Recoverable(f)
    BY DEF AlwaysRecoverable
  <2>1. manifest[f] \in Entries
    BY DEF SessionInv, TypeOK
  <2> QED
    BY <2>1 DEF SessionInv, DiskInv, Recoverable, Entries
<1> QED
  BY <1>1, SessionInvariant, PTL

\* A build or a cleanup that reports no error leaves exactly the user's files.
THEOREM RestoresHolds ==
  ASSUME "commit" \notin Faults, ~OverManifest
  PROVE  Spec => []Restores
<1>1. SessionInv => Restores
  BY DEF SessionInv, CleanInv, Restores
<1> QED
  BY <1>1, SessionInvariant, PTL

\* ... and no manifest for a later cleanup to apply again.
THEOREM ConsumesHolds ==
  ASSUME "commit" \notin Faults, ~OverManifest
  PROVE  Spec => []Consumes
<1>1. SessionInv => Consumes
  BY DEF SessionInv, CleanInv, Consumes
<1> QED
  BY <1>1, SessionInvariant, PTL

\* No step loses or overwrites a snapshot that is still needed.
THEOREM SnapshotsKeptHolds ==
  ASSUME "commit" \notin Faults, ~OverManifest
  PROVE  Spec => SnapshotsKept
<1> DEFINE Keeps(f) ==
      manifest[f] = "existed" /\ tree'[f] # user'[f] =>
        manifest'[f] = "existed" /\ snap'[f] = snap[f]
<1>1. ASSUME SessionInv, [Next]_vars, NEW f \in Files
      PROVE  Keeps(f)
  <2> USE DEF At, GoTo, disk, local
  <2>0. TypeOK
    BY <1>1 DEF SessionInv
  <2>1. CASE manifest' = manifest /\ snap' = snap
    BY <2>1
  <2>2. ASSUME NEW p \in Procs, NEW g \in Files, TrackBegin(p, g)
        PROVE  Keeps(f)
    <3>1. manifest[g] = "untracked"
      BY <1>1, <2>2 DEF TrackBegin, SessionInv, EditInv, InTrackAll, InRuntime
    <3> QED
      BY <2>0, <2>2, <3>1 DEF TrackBegin, TypeOK
  <2>3. ASSUME NEW p \in Procs, SnapshotDone(p)
        PROVE  Keeps(f)
    <3>1. manifest[cur[p]] = "untracked"
      BY <1>1, <2>3 DEF SnapshotDone, SessionInv, EditInv
    <3> QED
      BY <2>0, <2>3, <3>1 DEF SnapshotDone, TypeOK
  <2>4. ASSUME NEW p \in Procs, Commit(p)
        PROVE  Keeps(f)
    BY <1>1, <2>4 DEF Commit, SessionInv, EditInv
  <2>5. ASSUME NEW p \in Procs, stage[p] \in {"discard", "discardSnaps", "removeAll"},
               UNCHANGED <<tree, user>>
        PROVE  Keeps(f)
    BY <1>1, <2>5 DEF SessionInv, CleanInv
  <2>6. ASSUME NEW p \in Procs, Setup(p)
        PROVE  Keeps(f)
    BY <2>1, <2>2, <2>3, <2>4, <2>6
       DEF Setup, Plan, TrackAllDone, PinEdit, PinDone, RuntimeSkip, RuntimeEdit, RuntimeDone
  <2>7. ASSUME NEW p \in Procs, Cleanup(p)
        PROVE  Keeps(f)
    BY <2>1, <2>5, <2>7
       DEF Cleanup, Load, RevertAbsent, RestoreBegin, RestoreEnd, RevertDone,
           Discard, DiscardSnap, DiscardDone, RemoveAll
  <2>8. ASSUME NEW p \in Procs, Toolexec(p) \/ PinCommand(p) \/ Leave(p)
        PROVE  Keeps(f)
    BY <2>1, <2>8
       DEF Toolexec, PinCommand, PinCommandEdit, PinCommandDone, Leave, Exit
  <2>9. ASSUME NEW p \in Procs,
               (\E c \in Commands : Enter(p, c)) \/ Abort(p) \/ TrackFails(p) \/ Crash(p)
        PROVE  Keeps(f)
    BY <2>1, <2>9 DEF Enter, Abort, TrackFails, Crash, Exit
  <2>10. CASE (\E g \in Files, v \in Original : UserEdit(g, v)) \/ UNCHANGED vars
    BY <2>1, <2>10 DEF UserEdit, vars
  <2> QED
    BY <1>1, <2>6, <2>7, <2>8, <2>9, <2>10 DEF Next, Step
<1>2. SessionInv /\ [Next]_vars => [\A f \in Files : Keeps(f)]_vars
  BY <1>1
<1> QED
  BY <1>2, SessionInvariant, PTL DEF Spec, SnapshotsKept

\* A step that starts or ends an invocation starts or ends the only one.
LEMMA StepUsesLock ==
  ASSUME SessionInv, SessionInv', [Next]_vars
  PROVE  [Lock!Next]_Running
<1> USE DEF At, GoTo, Running
<1>single. /\ \A p, q \in Running : p = q
           /\ \A p, q \in Running' : p = q
           /\ stage \in [Procs -> Stages]
  BY DEF SessionInv, TypeOK
<1>1. ASSUME NEW p \in Procs, NEW c \in Commands, Enter(p, c)
      PROVE  Lock!Next
  <2>1. p \in Running'
    BY <1>1, <1>single DEF Enter
  <2>2. Running = {} /\ Running' = {p}
    BY <1>1, <1>single, <2>1 DEF Enter, LockFree
  <2> QED
    BY <2>2 DEF Lock!Next, Lock!Enter
<1>2. ASSUME NEW p \in Procs, Leave(p) \/ Crash(p)
      PROVE  Lock!Next
  <2>1. Running = {p}
    BY <1>2, <1>single DEF Leave, Crash
  <2>2. Running' = {}
    BY <1>2, <1>single, <2>1 DEF Leave, Crash, Exit
  <2> QED
    BY <2>1, <2>2 DEF Lock!Next, Lock!Leave
<1>3. ASSUME NEW p \in Procs, stage[p] # "idle",
             NEW s \in Stages \ {"idle"}, stage' = [stage EXCEPT ![p] = s]
      PROVE  Running' = Running
  BY <1>3, <1>single
<1>4. ASSUME UNCHANGED stage
      PROVE  Running' = Running
  BY <1>4
<1>5. ASSUME NEW p \in Procs, Setup(p) \/ Toolexec(p) \/ Abort(p) \/ TrackFails(p)
      PROVE  Running' = Running
  BY <1>3, <1>4, <1>5
     DEF Setup, Plan, SnapshotDone, Commit, TrackAllDone, PinDone, RuntimeEdit, RuntimeDone,
         TrackBegin, PinEdit, RuntimeSkip, Toolexec, Abort, TrackFails, Finish, Stages, local
<1>6. ASSUME NEW p \in Procs, Cleanup(p) \/ PinCommand(p)
      PROVE  Running' = Running
  BY <1>3, <1>4, <1>6
     DEF Cleanup, Load, RestoreEnd, RevertDone, Discard, DiscardDone, RemoveAll, RevertAbsent,
         RestoreBegin, DiscardSnap, PinCommand, PinCommandDone, PinCommandEdit, Stages, local
<1>7. ASSUME NEW f \in Files, NEW v \in Original, UserEdit(f, v)
      PROVE  Running' = Running
  BY <1>7 DEF UserEdit, local
<1> QED
  BY <1>1, <1>2, <1>4, <1>5, <1>6, <1>7 DEF Next, Step, vars

\* Invocations run one at a time, as Mutex says the build lock makes them.
THEOREM SessionUsesLock ==
  ASSUME "commit" \notin Faults, ~OverManifest
  PROVE  Spec => UsesLock
<1>1. Init => Lock!Init
  BY DEF Init, Lock!Init, Running
<1>2. SessionInv /\ SessionInv' /\ [Next]_vars => [Lock!Next]_Running
  BY StepUsesLock
<1> QED
  BY <1>1, <1>2, SessionInvariant, PTL DEF Spec, UsesLock, Lock!Spec
=============================================================================
