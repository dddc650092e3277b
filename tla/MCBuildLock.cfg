CONSTANTS
  Procs = {p1, p2}
  NoProc = NoProc
  Inodes = {i1, i2, i3}
  NoInode = NoInode
  Windows = FALSE
  MaxDepth = 3
SPECIFICATION MCSpec
INVARIANT NoLitter
PROPERTIES Implements SectionEnds SomebodyRuns
