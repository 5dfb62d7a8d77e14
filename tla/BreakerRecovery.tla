-------------------------- MODULE BreakerRecovery ---------------------------
(***************************************************************************)
(* The breaker of BreakerTimer with a server behind it that goes down and  *)
(* comes up.  What a call ends in depends on whether it met the server     *)
(* while it was down, which need not be when it is reported: a call sent   *)
(* into the outage may time out long after the server is back.             *)
(***************************************************************************)
EXTENDS BreakerTimer

VARIABLES
    up,      \* the server answers what is sent to it, and takes the key
    risky    \* callers whose call met the server while it was down

recoveryVars == <<streak, elapsed, wire, up, risky>>

RecoveryInit ==
    /\ Init
    /\ up \in BOOLEAN
    /\ risky = {}

Sends(c) ==
    /\ Issue(c)
    /\ risky' = IF up THEN risky ELSE risky \union {c}
    /\ UNCHANGED up

(* A call that never met a server that is down ends in an answer; any      *)
(* other in an answer, in a failure, or, with the key refused or the body  *)
(* broken, in nothing the breaker hears of (http_client.py:31-62).         *)
Ends(c) ==
    /\ \/ Success(c)
       \/ /\ c \in risky
          /\ Failure(c) \/ Unreported(c)
    /\ risky' = risky \ {c}
    /\ UNCHANGED up

TimePasses ==
    /\ TimerTick
    /\ UNCHANGED <<up, risky>>

GoesDown ==
    /\ up
    /\ up' = FALSE
    /\ risky' = wire
    /\ UNCHANGED timerVars

ComesUp ==
    /\ ~up
    /\ up' = TRUE
    /\ UNCHANGED <<streak, elapsed, wire, risky>>

RecoveryNext ==
    \/ \E c \in Callers : Sends(c) \/ Ends(c)
    \/ TimePasses
    \/ GoesDown
    \/ ComesUp

(***************************************************************************)
(* Time passes, an HTTP call ends (it has a timeout), and lookups keep     *)
(* arriving at every worker.  The server owes nothing: it may stay down,   *)
(* stay up, or change for ever.                                            *)
(***************************************************************************)
FairSpec ==
    /\ RecoveryInit
    /\ [][RecoveryNext]_recoveryVars
    /\ WF_recoveryVars(TimePasses)
    /\ \A c \in Callers :
        /\ WF_recoveryVars(Sends(c))
        /\ WF_recoveryVars(Ends(c))

(***************************************************************************)
(* Properties                                                              *)
(***************************************************************************)
(* If the server is up from some moment on, the breaker ends up closed for *)
(* good: however many outages went before, no order of late failures,      *)
(* unreported calls and probes can wedge it open (breaker.py:23-41).       *)
Recovers == <>[]up => <>[](~Tripped)

(* Whatever the server does, the breaker never shuts the source off for    *)
(* good: a call goes out again and again, also when every probe fails, is  *)
(* lost, or is answered with a refused key, which is never reported        *)
(* (breaker.py:27-29, engine.py:90-92).                                    *)
NeverShutForGood == []<>(wire # {})

=============================================================================
