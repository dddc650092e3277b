CONSTANTS
  app = app
  tool = tool
  pa = pa
  pb = pb
  pc = pc
  px = px
  py = py
  Packages = {app, tool, pa, pb, pc, px, py}
  Imports <- MCImports
  Plain = Plain
  MaxChain = 3
  Mains = {app}
  Rules = {1, 2, 3}
  Adds <- FewAdds
  MaxBuilds = 2
  Faults = {}
SPECIFICATION Spec
INVARIANT LinkComplete
