------------------------------- MODULE MCIDP ---------------------------------
(* An instance of OptimoGoIDP for TLC: two accounts of one email, one of    *)
(* them of another tenant, and a third of an email of its own.              *)
EXTENDS OptimoGoIDP, TLC

CONSTANTS home, abroad, other, e1, e2

MCEmailOf == [a \in Accounts |-> IF a = other THEN e2 ELSE e1]
Symmetry == Permutations(Threads)
=============================================================================
