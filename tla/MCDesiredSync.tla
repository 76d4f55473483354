--------------------------- MODULE MCDesiredSync ---------------------------
(* TLC instances of DesiredSync: the Edge's goroutines are interchangeable, *)
(* and so are connection objects.                                           *)
EXTENDS DesiredSync, TLC

Symmetry == Permutations(Workers) \cup Permutations(Links)

\* bound: a reconcile request, or a crash and a failure, in one behaviour
Budget == reconciles = 0 \/ crashes + failures = 0
=============================================================================
