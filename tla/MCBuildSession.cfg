CONSTANTS
  Procs = {p1, p2}
  Backup = {mod, sum}
  Runtime = {rt}
  Versions = {v1}
  Tool = Tool
  Torn = Torn
  NoFile = NoFile
  Faults = {"snapshot", "remove", "restore", "discard"}
  OverManifest = FALSE
SPECIFICATION FairSpec
INVARIANTS AlwaysRecoverable Restores
PROPERTIES SnapshotsKept SessionEnds
