------------------------------ MODULE MCEnvStore ------------------------------
(* Model values and symmetry for the TLC run of EnvStore. *)
EXTENDS EnvStore, TLC

CONSTANTS r1, r2, r3, k1, k2, v1, v2

Symmetry ==
    Permutations({r1, r2, r3}) \cup Permutations({k1, k2}) \cup Permutations({v1, v2})
=============================================================================
