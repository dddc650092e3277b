CONSTANTS
  Consumers = {c1}
  Getters = {g1}
  Settlers = {s1, s2}
  MaxTag = 2
SPECIFICATION Spec
INVARIANT NoEntryAfterShutdown
CHECK_DEADLOCK FALSE
