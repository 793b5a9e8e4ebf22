-------------------------- MODULE MCCoordinator ---------------------------
(* Coordinator on small instances.                                         *)
EXTENDS CoordinatorProperties, TLC

CONSTANTS t1, t2, c1, c2, k1, k2

MCSymmetry == Permutations(Tasks) \cup Permutations(Conns)

\* The data run looks at a coordinator that is not being shut down.
NotStopping == stop = "no"
=============================================================================
