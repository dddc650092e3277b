CONSTANTS
  app = app
  tool = tool
  pa = pa
  pb = pb
  pc = pc
  px = px
  py = py
  Packages = {app, tool, pa, pb, pc, px, py}
  Imports <- MCImports
  Plain = Plain
  MaxChain = 3
  Mains = {app, tool}
  Rules = {1, 2, 3, 4, 5, 6, 7, 8, 9}
  Adds <- AllAdds
  MaxBuilds = 1
  Faults = {}
SPECIFICATION FairSpec
INVARIANTS ColdLinkComplete CyclesDecide
PROPERTY BuildEnds
