CONSTANTS
  Goroutines = {g1, g2, g3}
  Spans = {s1, s2, s3, s4}
  NoSpan = NoSpan
  MaxSpans = 2
  MaxStates = 2
SPECIFICATION Spec
SYMMETRY Symmetry
INVARIANTS NoStaleParent LiveSpansKept
PROPERTY DropsOnlyLiveStack
