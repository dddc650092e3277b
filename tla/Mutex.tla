------------------------------- MODULE Mutex -------------------------------
(***************************************************************************)
(* What the build lock promises: at most one otelc invocation at a time is *)
(* inside a section that mutates the module (go.mod, go.sum, the tool file,*)
(* otelc.runtime.go and .otelc-build/).  A section may end at any moment:  *)
(* by finishing, by failing, or because its process was killed.            *)
(***************************************************************************)
CONSTANT Procs          \* otelc invocations

VARIABLE inside         \* those whose section runs under the lock

Init == inside = {}

Enter(p) == inside = {} /\ inside' = {p}

Leave(p) == inside = {p} /\ inside' = {}

Next == \E p \in Procs : Enter(p) \/ Leave(p)

Spec == Init /\ [][Next]_inside
=============================================================================
