---------------------------- MODULE BreakerTimer ----------------------------
(***************************************************************************)
(* What the circuit breaker promises to the callers that share it, without *)
(* the fields of wazo_dird_optimogo/breaker.py: calls go on the wire freely *)
(* until Threshold failures were reported with no success between them;    *)
(* from then on one call goes out each time a timer of Cooldown ticks has  *)
(* run out, until a success is reported.                                   *)
(*                                                                         *)
(* Time appears only as the timer, which stops at Cooldown, so that the    *)
(* state space is finite with no bound on the length of a behaviour, and   *)
(* recovery from an outage can be stated as a liveness property            *)
(* (BreakerRecovery).                                                      *)
(***************************************************************************)
EXTENDS Integers

CONSTANTS Callers, Threshold, Cooldown

VARIABLES
    streak,      \* failures since the last success, up to Threshold
    elapsed,     \* ticks since the breaker opened or last let a probe out
    wire         \* callers with a call on the wire

timerVars == <<streak, elapsed, wire>>

Tripped == streak = Threshold

Init ==
    /\ streak = 0
    /\ elapsed = 0
    /\ wire = {}

(* Mutated forms. *)
SuccessDuringTripIgnored(c) ==      \* a probe's success does not close
    /\ c \in wire
    /\ wire' = wire \ {c}
    /\ streak' = IF Tripped THEN streak ELSE 0
    /\ elapsed' = 0

IssueWithoutProbe(c) ==      \* no probe after the cooldown
    /\ c \notin wire
    /\ ~Tripped
    /\ wire' = wire \union {c}
    /\ UNCHANGED <<elapsed, streak>>

Issue(c) ==
    /\ c \notin wire
    /\ \/ ~Tripped
       \/ elapsed = Cooldown
    /\ wire' = wire \union {c}
    /\ elapsed' = 0
    /\ UNCHANGED streak

Success(c) ==
    /\ c \in wire
    /\ wire' = wire \ {c}
    /\ streak' = 0
    /\ elapsed' = 0

Failure(c) ==
    /\ c \in wire
    /\ wire' = wire \ {c}
    /\ streak' = IF Tripped THEN streak ELSE streak + 1
    /\ UNCHANGED elapsed

Unreported(c) ==
    /\ c \in wire
    /\ wire' = wire \ {c}
    /\ UNCHANGED <<streak, elapsed>>

TimerTick ==
    /\ Tripped
    /\ elapsed < Cooldown
    /\ elapsed' = elapsed + 1
    /\ UNCHANGED <<streak, wire>>

Next ==
    \/ \E c \in Callers : Issue(c) \/ Success(c) \/ Failure(c) \/ Unreported(c)
    \/ TimerTick

Spec == Init /\ [][Next]_timerVars

=============================================================================
