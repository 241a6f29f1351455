--------------------------- MODULE MCSessionLink ---------------------------
(* Small instances of SessionLink for TLC. *)
EXTENDS SessionLink, TLC

\* Sockets are interchangeable: no action or property tells them apart.
Symmetry == Permutations(Conns)
=============================================================================
