------------------------------ MODULE MCCache -------------------------------
(* An instance of CacheHistory for TLC. *)
EXTENDS CacheHistory, TLC

CONSTANTS t1, t2, k1, k2, k3, v1, v2

CacheSymmetry == Permutations({t1, t2}) \union Permutations({k1, k2, k3})
                     \union Permutations({v1, v2})

=============================================================================
