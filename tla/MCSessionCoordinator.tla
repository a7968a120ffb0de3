------------------------ MODULE MCSessionCoordinator ------------------------
(* Small instances of SessionCoordinator.                                   *)
EXTENDS SessionCoordinator, TLC

CONSTANTS p1, p2, p3

MCProcs == {p1, p2, p3}
Symmetry == Permutations(MCProcs)
=============================================================================
