---------------------------- MODULE BreakerProofs ----------------------------
(***************************************************************************)
(* Proofs about the circuit breaker: for any number of callers, any        *)
(* threshold and any cooldown.                                             *)
(***************************************************************************)
EXTENDS BreakerHistory, FiniteSetTheorems, TLAPS

(***************************************************************************)
(* The breaker's own fields.                                               *)
(***************************************************************************)
Inv == TypeOK /\ OpenIffThresholdReached

LEMMA InvInit == Init => Inv
  BY BreakerAssumption DEF Init, Inv, TypeOK, OpenIffThresholdReached, IsOpen, NotOpen

LEMMA InvStep == Inv /\ [Next]_vars => Inv'
<1> SUFFICES ASSUME Inv, [Next]_vars PROVE Inv'
  OBVIOUS
<1> USE BreakerAssumption DEF Inv, TypeOK, OpenIffThresholdReached, IsOpen, NotOpen
<1>1. ASSUME NEW c \in Callers, AllowClosed(c) PROVE Inv'
  BY <1>1 DEF AllowClosed
<1>2. ASSUME NEW c \in Callers, AllowProbe(c) PROVE Inv'
  BY <1>2 DEF AllowProbe, CooledDown
<1>3. ASSUME NEW c \in Callers, RecordSuccess(c) PROVE Inv'
  BY <1>3 DEF RecordSuccess
<1>4. ASSUME NEW c \in Callers, RecordFailure(c) PROVE Inv'
  BY <1>4 DEF RecordFailure
<1>5. ASSUME NEW c \in Callers, Abandon(c) PROVE Inv'
  BY <1>5 DEF Abandon
<1>6. CASE Tick
  BY <1>6 DEF Tick
<1>7. CASE UNCHANGED vars
  BY <1>7 DEF vars
<1>8. QED
  BY <1>1, <1>2, <1>3, <1>4, <1>5, <1>6, <1>7 DEF Next

(* Type correctness of the breaker's fields, the clock never behind the    *)
(* time of opening (breaker.py:15-41).                                     *)
THEOREM TypeCorrect == Spec => []TypeOK
<1>1. Inv => TypeOK
  BY DEF Inv
<1>2. QED
  BY <1>1, InvInit, InvStep, PTL DEF Spec

(* The breaker is open exactly when the failures since the last success    *)
(* have reached the threshold, in every interleaving of overlapping calls  *)
(* (breaker.py:32-41).                                                     *)
THEOREM FieldsAgree == Spec => []OpenIffThresholdReached
<1>1. Inv => OpenIffThresholdReached
  BY DEF Inv
<1>2. QED
  BY <1>1, InvInit, InvStep, PTL DEF Spec

(***************************************************************************)
(* Refinement: the two fields and the clock implement one timer.           *)
(***************************************************************************)
LEMMA TimerInit == Init => Timer!Init
  BY BreakerAssumption DEF Init, Timer!Init, IsOpen, NotOpen

LEMMA TimerStep == Inv /\ [Next]_vars => [Timer!Next]_(Timer!timerVars)
<1> SUFFICES ASSUME Inv, [Next]_vars PROVE [Timer!Next]_(Timer!timerVars)
  OBVIOUS
<1> USE BreakerAssumption DEF Inv, TypeOK, OpenIffThresholdReached, IsOpen, NotOpen,
        CooledDown, Timer!Tripped
<1>1. ASSUME NEW c \in Callers, AllowClosed(c) PROVE Timer!Issue(c)
  BY <1>1 DEF AllowClosed, Timer!Issue
<1>2. ASSUME NEW c \in Callers, AllowProbe(c) PROVE Timer!Issue(c)
  BY <1>2 DEF AllowProbe, Timer!Issue
<1>3. ASSUME NEW c \in Callers, RecordSuccess(c) PROVE Timer!Success(c)
  BY <1>3 DEF RecordSuccess, Timer!Success
<1>4. ASSUME NEW c \in Callers, RecordFailure(c) PROVE Timer!Failure(c)
  BY <1>4 DEF RecordFailure, Timer!Failure
<1>5. ASSUME NEW c \in Callers, Abandon(c) PROVE Timer!Unreported(c)
  BY <1>5 DEF Abandon, Timer!Unreported
<1>6. CASE Tick
  <2>1. CASE IsOpen /\ ~CooledDown
    <3>1. Timer!TimerTick
      BY <1>6, <2>1 DEF Tick, Timer!TimerTick
    <3>2. QED
      BY <3>1 DEF Timer!Next
  <2>2. CASE ~(IsOpen /\ ~CooledDown)
    BY <1>6, <2>2 DEF Tick, Timer!timerVars
  <2>3. QED
    BY <2>1, <2>2
<1>7. CASE UNCHANGED vars
  BY <1>7 DEF vars, Timer!timerVars
<1>8. QED
  BY <1>1, <1>2, <1>3, <1>4, <1>5, <1>6, <1>7 DEF Next, Timer!Next

(* The breaker of the code implements the timer of BreakerTimer: its flag  *)
(* _opened_at and its counter hold nothing a caller could tell apart from  *)
(* a streak that stops at the threshold and one timer.                     *)
THEOREM BreakerImplementsTimer == Spec => ImplementsTimer
<1>1. QED
  BY InvInit, InvStep, TimerInit, TimerStep, PTL DEF Spec, ImplementsTimer, Timer!Spec

(***************************************************************************)
(* Outages.  The observer of BreakerHistory only watches: its behaviours   *)
(* are the breaker's, so the theorems above hold of them too.              *)
(***************************************************************************)
LEMMA HistoryInit == HInit => Init
  BY DEF HInit

LEMMA HistoryStep == [HNext]_hvars => [Next]_vars
  BY DEF HNext, hvars

THEOREM HistoryObserves == HSpec => Spec
  BY HistoryInit, HistoryStep, PTL DEF HSpec, Spec

(* A breaker that is watched behaves as HSpec says: the theorems below     *)
(* hold of every breaker of which CircuitBreaker's Spec holds.             *)
THEOREM WatchedBreaker == Spec /\ Watching => HSpec
<1>1. Init /\ WatchInit => HInit
  BY DEF HInit
<1>2. [Next]_vars /\ [vars' # vars /\ Watch]_hvars => [HNext]_hvars
  BY DEF HNext, hvars
<1>3. QED
  BY <1>1, <1>2, PTL DEF Spec, HSpec, Watching

HTypeOK ==
    /\ TypeOK
    /\ probing \in SUBSET wire
    /\ probedAt \in [Callers -> Nat]
    /\ openSince \in Nat \union {NotOpen}
    /\ probes \in Nat
    /\ ~IsOpen => openSince = NotOpen /\ probes = 0

(* What is written down at each kind of step.                              *)
HAllowClosed(c) == AllowClosed(c) /\ UNCHANGED history

HAllowProbe(c) ==
    /\ AllowProbe(c)
    /\ probing' = probing \union {c}
    /\ probedAt' = [probedAt EXCEPT ![c] = now]
    /\ probes' = probes + 1
    /\ UNCHANGED openSince

HRecordSuccess(c) ==
    /\ RecordSuccess(c)
    /\ probing' = probing \ {c}
    /\ openSince' = NotOpen
    /\ probes' = 0
    /\ UNCHANGED probedAt

HRecordFailure(c) ==
    /\ RecordFailure(c)
    /\ probing' = probing \ {c}
    /\ openSince' = IF ~IsOpen /\ IsOpen' THEN now ELSE openSince
    /\ UNCHANGED <<probedAt, probes>>

HAbandon(c) ==
    /\ Abandon(c)
    /\ probing' = probing \ {c}
    /\ UNCHANGED <<probedAt, openSince, probes>>

HTick == Tick /\ UNCHANGED history

LEMMA WatchedSteps ==
  ASSUME Inv, HTypeOK, HNext
  PROVE  \/ \E c \in Callers :
              \/ HAllowClosed(c)
              \/ HAllowProbe(c)
              \/ HRecordSuccess(c)
              \/ HRecordFailure(c)
              \/ HAbandon(c)
         \/ HTick
<1> USE BreakerAssumption DEF Inv, TypeOK, HTypeOK, IsOpen, NotOpen
<1>1. Watch /\ Next
  BY DEF HNext
<1>2. ASSUME NEW c \in Callers, AllowClosed(c) PROVE HAllowClosed(c)
  BY <1>1, <1>2 DEF AllowClosed, HAllowClosed, Watch, Probed, history
<1>3. ASSUME NEW c \in Callers, AllowProbe(c) PROVE HAllowProbe(c)
  <2>1. Probed = {c}
    BY <1>3 DEF AllowProbe, Probed
  <2>2. IsOpen /\ IsOpen'
    BY <1>3 DEF AllowProbe
  <2>3. probing' = probing \union {c}
    BY <1>1, <1>3, <2>1 DEF AllowProbe, Watch
  <2>4. probedAt' = [probedAt EXCEPT ![c] = now]
    BY <1>1, <2>1 DEF Watch
  <2>5. probes' = probes + 1 /\ openSince' = openSince
    BY <1>1, <2>1, <2>2 DEF Watch
  <2>6. QED
    BY <1>3, <2>3, <2>4, <2>5 DEF HAllowProbe
<1>4. ASSUME NEW c \in Callers, c \in wire, wire' = wire \ {c}
      PROVE  probing' = probing \ {c} /\ probedAt' = probedAt /\ Probed = {}
  BY <1>1, <1>4 DEF Watch, Probed
<1>5. ASSUME NEW c \in Callers, RecordSuccess(c) PROVE HRecordSuccess(c)
  BY <1>1, <1>4, <1>5 DEF RecordSuccess, HRecordSuccess, Watch
<1>6. ASSUME NEW c \in Callers, RecordFailure(c) PROVE HRecordFailure(c)
  BY <1>1, <1>4, <1>6 DEF RecordFailure, HRecordFailure, Watch
<1>7. ASSUME NEW c \in Callers, Abandon(c) PROVE HAbandon(c)
  BY <1>1, <1>4, <1>7 DEF Abandon, HAbandon, Watch
<1>8. CASE Tick
  BY <1>1, <1>8 DEF Tick, HTick, Watch, Probed, history
<1>9. QED
  BY <1>1, <1>2, <1>3, <1>5, <1>6, <1>7, <1>8 DEF Next

(* The history's types, by which a closed breaker has counted no probes,   *)
(* and what closes the induction for the two bounds on an outage: an open  *)
(* breaker knows since when it is open.                                    *)
OutageInv ==
    /\ HTypeOK
    /\ IsOpen => openSince \in Nat
    /\ ProbeRate
    /\ OutageBudget

LEMMA WireSize ==
  ASSUME NEW W \in SUBSET Callers
  PROVE  /\ IsFiniteSet(W)
         /\ Cardinality(W) \in Nat
         /\ Cardinality(Callers) \in Nat
         /\ Cardinality(W) <= Cardinality(Callers)
  BY FS_Subset, FS_CardinalityType, BreakerAssumption

LEMMA WireGrows ==
  ASSUME NEW W \in SUBSET Callers, NEW c \in Callers, c \notin W
  PROVE  Cardinality(W \union {c}) = Cardinality(W) + 1
  BY FS_AddElement, WireSize

LEMMA WireShrinks ==
  ASSUME NEW W \in SUBSET Callers, NEW c \in W
  PROVE  Cardinality(W \ {c}) = Cardinality(W) - 1
  BY FS_RemoveElement, WireSize

LEMMA OneMoreProbe ==
  ASSUME NEW p \in Nat, NEW k \in Nat PROVE (p + 1) * k = p * k + k
  OBVIOUS

LEMMA NoProbes == 0 * Cooldown = 0
  BY BreakerAssumption

LEMMA OutageInit == HInit => OutageInv
<1> SUFFICES ASSUME HInit PROVE OutageInv
  OBVIOUS
<1>1. TypeOK
  BY InvInit DEF HInit, Inv
<1>2. ~IsOpen
  BY DEF HInit, Init, IsOpen
<1>3. QED
  BY <1>1, <1>2, BreakerAssumption DEF OutageInv, HInit, WatchInit, Init, HTypeOK, ProbeRate, OutageBudget

LEMMA OutageStep == Inv /\ Inv' /\ OutageInv /\ [HNext]_hvars => OutageInv'
<1> SUFFICES ASSUME Inv, Inv', OutageInv, [HNext]_hvars PROVE OutageInv'
  OBVIOUS
<1> USE BreakerAssumption DEF Inv, OutageInv, TypeOK, HTypeOK, OpenIffThresholdReached,
        IsOpen, NotOpen
<1>1. ASSUME NEW c \in Callers, HAllowClosed(c) PROVE OutageInv'
  BY <1>1 DEF HAllowClosed, AllowClosed, history, ProbeRate, OutageBudget
<1>2. ASSUME NEW c \in Callers, HAllowProbe(c) PROVE OutageInv'
  <2>1. HTypeOK'
    BY <1>2 DEF HAllowProbe, AllowProbe
  <2>2. ProbeRate'
    <3>1. (probes + 1) * Cooldown = probes * Cooldown + Cooldown
      BY OneMoreProbe
    <3>2. probes * Cooldown \in Nat
      OBVIOUS
    <3>3. probes * Cooldown <= openedAt - openSince
      BY <1>2 DEF HAllowProbe, AllowProbe, ProbeRate
    <3>4. (probes + 1) * Cooldown <= now - openSince
      <4>1. openSince \in Int
        BY <1>2 DEF HAllowProbe, AllowProbe
      <4> DEFINE spent == probes * Cooldown
      <4>2. spent \in Nat /\ spent <= openedAt - openSince
        BY <3>2, <3>3
      <4>3. Cooldown <= now - openedAt
        BY <1>2 DEF HAllowProbe, AllowProbe, CooledDown
      <4> HIDE DEF spent
      <4>4. spent + Cooldown <= now - openSince
        BY <4>1, <4>2, <4>3
      <4>5. QED
        BY <3>1, <4>4 DEF spent
    <3>5. probes' = probes + 1 /\ openedAt' = now /\ openSince' = openSince
      BY <1>2 DEF HAllowProbe, AllowProbe
    <3>6. QED
      BY <3>4, <3>5 DEF ProbeRate
  <2>3. OutageBudget'
    <3>1. Cardinality(wire') = Cardinality(wire) + 1
      BY <1>2, WireGrows DEF HAllowProbe, AllowProbe
    <3>2. QED
      BY <1>2, <3>1, WireSize DEF HAllowProbe, AllowProbe, OutageBudget
  <2>4. QED
    BY <1>2, <2>1, <2>2, <2>3 DEF HAllowProbe, AllowProbe
<1>3. ASSUME NEW c \in Callers, HRecordSuccess(c) PROVE OutageInv'
  BY <1>3 DEF HRecordSuccess, RecordSuccess, ProbeRate, OutageBudget
<1>4. ASSUME NEW c \in Callers, HRecordFailure(c) PROVE OutageInv'
  <2>1. HTypeOK'
    BY <1>4 DEF HRecordFailure, RecordFailure
  <2>2. ProbeRate'
    <3>1. CASE IsOpen
      BY <1>4, <3>1 DEF HRecordFailure, RecordFailure, ProbeRate
    <3>2. CASE ~IsOpen
      BY <1>4, <3>2, NoProbes DEF HRecordFailure, RecordFailure, ProbeRate
    <3>3. QED
      BY <3>1, <3>2
  <2>3. OutageBudget'
    <3>1. Cardinality(wire') = Cardinality(wire) - 1
      BY <1>4, WireShrinks DEF HRecordFailure, RecordFailure
    <3>2. QED
      BY <1>4, <3>1, WireSize DEF HRecordFailure, RecordFailure, OutageBudget
  <2>4. QED
    BY <1>4, <2>1, <2>2, <2>3 DEF HRecordFailure, RecordFailure
<1>5. ASSUME NEW c \in Callers, HAbandon(c) PROVE OutageInv'
  <2>1. OutageBudget'
    <3>1. Cardinality(wire') = Cardinality(wire) - 1
      BY <1>5, WireShrinks DEF HAbandon, Abandon
    <3>2. QED
      BY <1>5, <3>1, WireSize DEF HAbandon, Abandon, OutageBudget
  <2>2. QED
    BY <1>5, <2>1 DEF HAbandon, Abandon, ProbeRate
<1>6. CASE HTick
  BY <1>6 DEF HTick, Tick, history, ProbeRate, OutageBudget
<1>7. CASE UNCHANGED hvars
  BY <1>7 DEF hvars, vars, history, ProbeRate, OutageBudget
<1>8. QED
  BY <1>1, <1>2, <1>3, <1>4, <1>5, <1>6, <1>7, WatchedSteps

LEMMA OutageInvariant == HSpec => [](Inv /\ OutageInv)
  BY InvInit, InvStep, HistoryInit, HistoryStep, OutageInit, OutageStep, PTL DEF HSpec

(* An open breaker has let out at most one probe per elapsed cooldown, for *)
(* any number of threads (breaker.py:27-29).                               *)
THEOREM ProbesAreRateLimited == HSpec => []ProbeRate
<1>1. OutageInv => ProbeRate
  BY DEF OutageInv
<1>2. QED
  BY <1>1, OutageInvariant, PTL

(* The number of calls an outage can cost is bounded by the threshold, the *)
(* number of threads and the probes (breaker.py:23-41).                    *)
THEOREM OutageCostIsBounded == HSpec => []OutageBudget
<1>1. OutageInv => OutageBudget
  BY DEF OutageInv
<1>2. QED
  BY <1>1, OutageInvariant, PTL

(***************************************************************************)
(* Probes.  What closes the induction: while the breaker is open every     *)
(* probe on the wire went out no later than the cooldown that runs now was *)
(* started, and none went out in the future.                               *)
(***************************************************************************)
ProbeInv ==
    /\ HTypeOK
    /\ \A c \in probing : probedAt[c] <= now /\ (IsOpen => probedAt[c] <= openedAt)
    /\ ProbesAreSpaced

LEMMA ProbeInit == HInit => ProbeInv
<1> SUFFICES ASSUME HInit PROVE ProbeInv
  OBVIOUS
<1>1. TypeOK
  BY InvInit DEF HInit, Inv
<1>2. QED
  BY <1>1 DEF HInit, WatchInit, Init, ProbeInv, HTypeOK, ProbesAreSpaced

LEMMA ProbeStep == Inv /\ Inv' /\ ProbeInv /\ [HNext]_hvars => ProbeInv'
<1> SUFFICES ASSUME Inv, Inv', ProbeInv, [HNext]_hvars PROVE ProbeInv'
  OBVIOUS
<1> USE BreakerAssumption DEF Inv, ProbeInv, TypeOK, HTypeOK, IsOpen, NotOpen,
        ProbesAreSpaced
<1>1. ASSUME NEW c \in Callers, HAllowClosed(c) PROVE ProbeInv'
  BY <1>1 DEF HAllowClosed, AllowClosed, history
<1>2. ASSUME NEW c \in Callers, HAllowProbe(c) PROVE ProbeInv'
  <2>1. now - openedAt >= Cooldown /\ IsOpen /\ c \notin probing
    BY <1>2 DEF HAllowProbe, AllowProbe, CooledDown
  <2>2. ASSUME NEW d \in probing PROVE now - probedAt[d] >= Cooldown
    BY <2>1, <2>2
  <2>3. openedAt' = now /\ now' = now /\ probedAt' = [probedAt EXCEPT ![c] = now]
          /\ probing' = probing \union {c}
    BY <1>2 DEF HAllowProbe, AllowProbe
  <2>4. ProbesAreSpaced'
    BY <2>1, <2>2, <2>3
  <2>5. HTypeOK'
    BY <1>2 DEF HAllowProbe, AllowProbe
  <2>6. QED
    BY <2>3, <2>4, <2>5
<1>3. ASSUME NEW c \in Callers, HRecordSuccess(c) PROVE ProbeInv'
  BY <1>3 DEF HRecordSuccess, RecordSuccess
<1>4. ASSUME NEW c \in Callers, HRecordFailure(c) PROVE ProbeInv'
  BY <1>4 DEF HRecordFailure, RecordFailure
<1>5. ASSUME NEW c \in Callers, HAbandon(c) PROVE ProbeInv'
  BY <1>5 DEF HAbandon, Abandon
<1>6. CASE HTick
  BY <1>6 DEF HTick, Tick, history
<1>7. CASE UNCHANGED hvars
  BY <1>7 DEF hvars, vars, history
<1>8. QED
  BY <1>1, <1>2, <1>3, <1>4, <1>5, <1>6, <1>7, WatchedSteps

(* Probes are spaced by the cooldown, even when late reports close and     *)
(* reopen the breaker under one of them (breaker.py:23-41).                *)
THEOREM ProbesNeverCrowd == HSpec => []ProbesAreSpaced
<1>1. ProbeInv => ProbesAreSpaced
  BY DEF ProbeInv
<1>2. QED
  BY <1>1, InvInit, InvStep, HistoryInit, HistoryStep, ProbeInit, ProbeStep, PTL DEF HSpec

=============================================================================
