----------------------------- MODULE MCBreaker ------------------------------
(* Instances of BreakerHistory for TLC. *)
EXTENDS BreakerHistory, TLC

CONSTANTS w1, w2, w3

WorkerSymmetry == Permutations({w1, w2, w3})

=============================================================================
