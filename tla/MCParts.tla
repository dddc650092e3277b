------------------------------ MODULE MCParts ------------------------------
(* The components that share a run: a behaviour is one of `part', the others *)
(* stay as they start.                                                       *)
CONSTANT Parts
VARIABLE part
=============================================================================
