---------------------------- MODULE MCPendingAcks ----------------------------
EXTENDS PendingAcks, TLC

Symmetry == Permutations(Settlers)

\* To keep the run small: calls on one tag follow each other, also when they
\* fail and are repeated; those that run at the same time overlap by multiple.
\* The theorems of PendingAcksProofs are about Spec, without this bound.
OneCallPerTag ==
  \A s, t \in Settlers :
    s # t /\ at[s] # "idle" /\ at[t] # "idle" => call[s].tag # call[t].tag

MCSpec == Init /\ [][Next /\ OneCallPerTag']_vars
=============================================================================
