------------------------ MODULE MCContainerLifecycle ------------------------
(* Small instances of ContainerLifecycle for TLC. *)
EXTENDS ContainerLifecycle, TLC

\* Every session's container is charged the same.
UnitEst == [s \in Sessions |-> 1]

\* Sessions are interchangeable when every estimate is the same; names are not,
\* since NewName chooses one.
Symmetry == Permutations(Sessions)
=============================================================================
