--------------------------- MODULE BreakerHistory ---------------------------
(***************************************************************************)
(* The circuit breaker together with what an observer of its callers would *)
(* write down: which calls were probes and when each went out, and since   *)
(* when the breaker has been open.  Its promises about the traffic of an   *)
(* outage are stated here.  A call may stay on the wire for any time: the  *)
(* read timeout of http_client.py:35 is per socket read.                   *)
(***************************************************************************)
EXTENDS CircuitBreaker

VARIABLES
    probing,     \* callers whose call was allowed by an open breaker
    probedAt,    \* when the last such call of each caller went out
    openSince,   \* when the breaker went from closed to open, or NotOpen
    probes       \* probes allowed since then

history == <<probing, probedAt, openSince, probes>>
hvars == <<vars, history>>

WatchInit ==
    /\ probing = {}
    /\ probedAt = [c \in Callers |-> 0]
    /\ openSince = NotOpen
    /\ probes = 0

(* The callers whose call an open breaker lets out in this step.           *)
Probed == IF IsOpen THEN wire' \ wire ELSE {}

(* What is written down at a step of the breaker, as the step shows it.    *)
Watch ==
    /\ probing' = (probing \intersect wire') \union Probed
    /\ probedAt' = [c \in Callers |-> IF c \in Probed THEN now ELSE probedAt[c]]
    /\ openSince' = IF ~IsOpen' THEN NotOpen ELSE IF IsOpen THEN openSince ELSE now
    /\ probes' = IF ~IsOpen' THEN 0 ELSE IF Probed = {} THEN probes ELSE probes + 1

HInit == Init /\ WatchInit
HNext == Next /\ Watch

HSpec == HInit /\ [][HNext]_hvars

(* The observer alone: it writes at the breaker's steps and at no other,   *)
(* and keeps nobody from any step.  So it can watch a breaker that is part *)
(* of a larger system.                                                     *)
Watching == WatchInit /\ [][vars' # vars /\ Watch]_hvars

(***************************************************************************)
(* What holds                                                              *)
(***************************************************************************)
(* An outage costs at most one probe for each cooldown that has passed     *)
(* since the breaker opened, however many threads ask and whatever their   *)
(* probes end in (breaker.py:27-29).                                       *)
ProbeRate ==
    IsOpen => probes * Cooldown <= openedAt - openSince

(* A flood of lookups into a dead server stops: once the breaker is open,  *)
(* the failures counted and the calls still on the wire are at most the    *)
(* Threshold - 1 it took, one call for each thread, and the probes         *)
(* (breaker.py:23-41 shared by the workers of engine.py:85-98).            *)
OutageBudget ==
    IsOpen =>
        failures + Cardinality(wire) <=
            Threshold - 1 + Cardinality(Callers) + probes

(* Two probes on the wire together went out a whole cooldown apart, also   *)
(* when a late success closed the breaker under the first and fresh        *)
(* failures opened it again: a probe that is back within the cooldown      *)
(* never has company (breaker.py:27-29, 40-41).                            *)
ProbesAreSpaced ==
    \A c, d \in probing :
        c = d \/ probedAt[c] - probedAt[d] >= Cooldown
              \/ probedAt[d] - probedAt[c] >= Cooldown

=============================================================================
