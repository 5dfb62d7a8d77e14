--------------------------- MODULE CircuitBreaker ---------------------------
(***************************************************************************)
(* The circuit breaker of wazo_dird_optimogo/breaker.py, one object shared *)
(* by every worker thread of a process.  Each method body runs under the   *)
(* object's lock, so a call of a method is one step.                       *)
(*                                                                         *)
(* A caller asks allow(), performs an HTTP call if the answer is True, and *)
(* afterwards reports to the breaker: record_success, record_failure, or,  *)
(* for outcomes its client keeps from the breaker, nothing at all.  The    *)
(* callers are part of the model because the breaker's promises are about  *)
(* calls that overlap: wire is the set of callers whose call was allowed   *)
(* and has not been reported yet.                                          *)
(***************************************************************************)
EXTENDS Integers, FiniteSets

CONSTANTS
    Callers,     \* the worker threads sharing the breaker
    Threshold,   \* failure_threshold, at least 1 (schema.py:26)
    Cooldown,    \* cooldown, in clock ticks, at least 1 (schema.py:27)
    MaxTime      \* bound: the clock stops here

ASSUME BreakerAssumption ==
    /\ IsFiniteSet(Callers)
    /\ Threshold \in Nat \ {0}
    /\ Cooldown \in Nat \ {0}
    /\ MaxTime \in Nat

VARIABLES
    failures,    \* _failures
    openedAt,    \* _opened_at, NotOpen for None
    now,         \* what _time() returns
    wire         \* callers between allow() = True and their report

vars == <<failures, openedAt, now, wire>>

NotOpen == -1
IsOpen == openedAt # NotOpen
CooledDown == now - openedAt >= Cooldown

TypeOK ==
    /\ failures \in Nat
    /\ openedAt \in Nat \union {NotOpen}
    /\ now \in Nat
    /\ wire \in SUBSET Callers
    /\ openedAt <= now

Init ==
    /\ failures = 0
    /\ openedAt = NotOpen
    /\ now = 0
    /\ wire = {}

(***************************************************************************)
(* Mutated forms, used only to show that the properties can fail.          *)
(***************************************************************************)
AllowProbeUnarmed(c) ==      \* forgets to arm the next cooldown
    /\ c \notin wire
    /\ IsOpen
    /\ CooledDown
    /\ wire' = wire \union {c}
    /\ UNCHANGED <<failures, openedAt, now>>

RecordFailureRearms(c) ==      \* any failure while open re-arms the cooldown
    /\ c \in wire
    /\ failures' = failures + 1
    /\ openedAt' = IF failures' >= Threshold THEN now ELSE openedAt
    /\ wire' = wire \ {c}
    /\ UNCHANGED now

RecordFailureOffByOne(c) ==      \* opens only beyond the threshold
    /\ c \in wire
    /\ failures' = failures + 1
    /\ openedAt' = IF failures' > Threshold /\ ~IsOpen THEN now ELSE openedAt
    /\ wire' = wire \ {c}
    /\ UNCHANGED now

RecordSuccessKeepsCount(c) ==      \* closes without clearing the count
    /\ c \in wire
    /\ openedAt' = NotOpen
    /\ wire' = wire \ {c}
    /\ UNCHANGED <<failures, now>>

(***************************************************************************)
(* The methods.  allow() = False changes nothing: it is a stuttering step. *)
(* allow() reads the clock twice, for the test and for the new _opened_at; *)
(* the step happens at the second reading, when the test still holds.      *)
(***************************************************************************)
AllowClosed(c) ==
    /\ c \notin wire
    /\ ~IsOpen
    /\ wire' = wire \union {c}
    /\ UNCHANGED <<failures, openedAt, now>>

AllowProbe(c) ==
    /\ c \notin wire
    /\ IsOpen
    /\ CooledDown
    /\ openedAt' = now
    /\ wire' = wire \union {c}
    /\ UNCHANGED <<failures, now>>

RecordSuccess(c) ==
    /\ c \in wire
    /\ failures' = 0
    /\ openedAt' = NotOpen
    /\ wire' = wire \ {c}
    /\ UNCHANGED now

RecordFailure(c) ==
    /\ c \in wire
    /\ failures' = failures + 1
    /\ openedAt' = IF failures' >= Threshold /\ ~IsOpen THEN now ELSE openedAt
    /\ wire' = wire \ {c}
    /\ UNCHANGED now

(* The caller's call ends in an outcome that is not reported.              *)
Abandon(c) ==
    /\ c \in wire
    /\ wire' = wire \ {c}
    /\ UNCHANGED <<failures, openedAt, now>>

Tick ==
    /\ now < MaxTime
    /\ now' = now + 1
    /\ UNCHANGED <<failures, openedAt, wire>>

Next ==
    \/ \E c \in Callers :
        \/ AllowClosed(c)
        \/ AllowProbe(c)
        \/ RecordSuccess(c)
        \/ RecordFailure(c)
        \/ Abandon(c)
    \/ Tick

Spec == Init /\ [][Next]_vars

(***************************************************************************)
(* Properties                                                              *)
(***************************************************************************)
(* The two fields of the breaker agree: it is open exactly when the        *)
(* failures counted since the last success have reached the threshold, in  *)
(* whatever order overlapping calls report (breaker.py:32-41).             *)
OpenIffThresholdReached == IsOpen <=> failures >= Threshold

(* The breaker as its users may think of it: a streak of failures that     *)
(* stops counting at the threshold, and a timer that runs once it is there *)
(* (see BreakerTimer).  The separate flag _opened_at is gone.              *)
Timer == INSTANCE BreakerTimer WITH
    streak <- IF failures < Threshold THEN failures ELSE Threshold,
    elapsed <- IF ~IsOpen THEN 0
               ELSE IF CooledDown THEN Cooldown ELSE now - openedAt

(* Every behaviour of the breaker is one of the timer's.                   *)
ImplementsTimer == Timer!Spec

=============================================================================
