--------------------------- MODULE MCBuildSession ---------------------------
EXTENDS BuildSession, TLC
=============================================================================
