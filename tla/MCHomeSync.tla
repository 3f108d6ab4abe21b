----------------------------- MODULE MCHomeSync -----------------------------
(* Model values and symmetry for the TLC runs of HomeSync. *)
EXTENDS HomeSync, TLC

CONSTANTS p, q, x, a, b

Symmetry == Permutations({p, q}) \cup Permutations({a, b})

=============================================================================
