CONSTANTS
  Consumers = {c1}
  Getters = {g1}
  Settlers = {s1, s2}
  MaxTag = 2
SPECIFICATION MCSpec
INVARIANTS SettledEnds EndJustified TeardownEnds
CHECK_DEADLOCK FALSE
SYMMETRY Symmetry
