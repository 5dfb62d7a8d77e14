------------------------- MODULE MCBreakerRecovery --------------------------
(* An instance of BreakerRecovery for TLC. *)
EXTENDS BreakerRecovery

CONSTANTS w1, w2, w3, w4

=============================================================================
