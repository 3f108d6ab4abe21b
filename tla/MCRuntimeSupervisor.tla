------------------------- MODULE MCRuntimeSupervisor -------------------------
(* Model values and symmetry for the TLC runs of RuntimeSupervisor. *)
EXTENDS RuntimeSupervisor, TLC

CONSTANTS o1, o2, r1, r2, q1, q2

Symmetry == Permutations({o1, o2}) \cup Permutations({r1, r2}) \cup Permutations({q1, q2})
=============================================================================
