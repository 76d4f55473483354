--------------------------- MODULE MCReportCursor ---------------------------
(* TLC instances of ReportCursor: reporting goroutines and connection       *)
(* objects are interchangeable.                                             *)
EXTENDS ReportCursor, TLC

Symmetry == Permutations(Reporters) \cup Permutations(Links)

\* bound: goroutines report at the same time in the first two processes only
Budget == boot <= 2 \/ \A g, h \in Reporters : job[g] # Free /\ job[h] # Free => g = h
=============================================================================
