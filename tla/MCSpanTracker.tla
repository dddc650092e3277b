--------------------------- MODULE MCSpanTracker ---------------------------
EXTENDS SpanTracker

Symmetry == Permutations(Goroutines) \cup Permutations(Spans)
=============================================================================
