--------------------------- MODULE MCPendingList ----------------------------
(* PendingList for TLC: four addresses, so that they are reused.           *)
EXTENDS PendingList, TLC

\* The addresses, and the threads of a kind, are interchangeable.
Symmetry == Permutations(Nodes) \cup Permutations(Takers)
=============================================================================
