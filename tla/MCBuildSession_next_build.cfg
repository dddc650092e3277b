CONSTANTS
  Procs = {p1}
  Backup = {mod}
  Runtime = {rt}
  Versions = {v1}
  Tool = Tool
  Torn = Torn
  NoFile = NoFile
  Faults = {}
  OverManifest = TRUE
SPECIFICATION Spec
INVARIANT AlwaysRecoverable
