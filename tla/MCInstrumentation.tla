-------------------------- MODULE MCInstrumentation --------------------------
(* The stages of the build tool and the hooks of the application in one run.    *)
EXTENDS MCBuildTool, MCHooks

MCInit == part \in Parts /\ ToolInit /\ HooksInit

MCNext ==
  /\ \/ ToolNext /\ UNCHANGED HooksVars
     \/ HooksNext /\ UNCHANGED ToolVars
  /\ UNCHANGED part

MCSpec == MCInit /\ [][MCNext]_<<part, ToolVars, HooksVars>>
==============================================================================
