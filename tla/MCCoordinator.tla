--------------------------- MODULE MCCoordinator ---------------------------
(* Instances of Coordinator for TLC. *)
EXTENDS Coordinator, TLC

\* The nodes the configuration does not name first are interchangeable, and so
\* are the clients.
Symmetric == Permutations(Nodes \ {First}) \cup Permutations(Requests \ {Old})
=============================================================================
