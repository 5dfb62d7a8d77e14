------------------------------ MODULE MCEngine ------------------------------
(* Instances of LookupEngine for TLC. *)
EXTENDS LookupEngine, TLC

CONSTANTS t1, t2, k1, k2, m1

EngineSymmetry == Permutations({t1, t2}) \union Permutations({k1, k2})

=============================================================================
