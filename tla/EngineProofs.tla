---------------------------- MODULE EngineProofs ----------------------------
(***************************************************************************)
(* What is proved of LookupEngine for any threads, keys, answers, ttls,    *)
(* threshold and cooldown: it uses the cache and the breaker as they are   *)
(* meant to be used, and stores nothing but what replies said.             *)
(***************************************************************************)
EXTENDS LookupEngine, SequenceTheorems, TLAPS

(***************************************************************************)
(* The two protocols.  They need no more than where the threads are and    *)
(* that an answer to be stored is one for a key.                           *)
(***************************************************************************)
LocalInv ==
    /\ pc \in [Threads -> Places]
    /\ job \in [Threads -> Keys \union {Batch}]
    /\ answer \in [Threads -> Values]
    /\ \A t \in Threads : pc[t] \in {"reading", "mapped"} => job[t] # Batch

LEMMA LocalInit == Init => LocalInv
  BY EngineAssumption DEF Init, LocalInv, Places, Values

LEMMA LocalStep == LocalInv /\ [Next]_engineVars => LocalInv'
<1> SUFFICES ASSUME LocalInv, [Next]_engineVars PROVE LocalInv'
  OBVIOUS
<1> USE DEF LocalInv, Places, Values, Goto, Return, local
<1>1. ASSUME NEW t \in Threads, NEW k \in Keys, LookUp(t, k) PROVE LocalInv'
  BY <1>1, EngineAssumption DEF LookUp
<1>2. ASSUME NEW t \in Threads, MatchAll(t) PROVE LocalInv'
  BY <1>2 DEF MatchAll
<1>3. ASSUME NEW t \in Threads, AnswerFromCache(t) PROVE LocalInv'
  BY <1>3 DEF AnswerFromCache
<1>4. ASSUME NEW t \in Threads, NotInCache(t) PROVE LocalInv'
  BY <1>4 DEF NotInCache
<1>5. ASSUME NEW t \in Threads, Ask(t) PROVE LocalInv'
  BY <1>5 DEF Ask
<1>6. ASSUME NEW t \in Threads, Refuse(t) PROVE LocalInv'
  BY <1>6 DEF Refuse
<1>7. ASSUME NEW t \in Threads, NEW kind, NEW v \in Values, Mapped(t, kind, v)
      PROVE  LocalInv'
  BY <1>7 DEF Mapped
<1>8. ASSUME NEW t \in Threads, NEW v \in Values, Answered(t, v) PROVE LocalInv'
  BY <1>7, <1>8 DEF Answered
<1>9. ASSUME NEW t \in Threads, WrongShape(t) PROVE LocalInv'
  BY <1>7, <1>9 DEF WrongShape
<1>10. ASSUME NEW t \in Threads, WrongType(t) PROVE LocalInv'
  BY <1>10 DEF WrongType
<1>11. ASSUME NEW t \in Threads, KeyRefused(t) PROVE LocalInv'
  BY <1>11 DEF KeyRefused
<1>12. ASSUME NEW t \in Threads, Failed(t) PROVE LocalInv'
  BY <1>12 DEF Failed
<1>13. ASSUME NEW t \in Threads, ReadBroken(t) PROVE LocalInv'
  BY <1>13 DEF ReadBroken
<1>14. ASSUME NEW t \in Threads, Catch(t) PROVE LocalInv'
  BY <1>14 DEF Catch
<1>15. ASSUME NEW t \in Threads, BeginStore(t) PROVE LocalInv'
  BY <1>15 DEF BeginStore
<1>16. ASSUME NEW t \in Threads, DoNotStore(t) PROVE LocalInv'
  BY <1>16 DEF DoNotStore
<1>17. ASSUME NEW t \in Threads, Store(t) PROVE LocalInv'
  BY <1>17 DEF Store
<1>18. CASE Tick
  BY <1>18 DEF Tick
<1>19. CASE UNCHANGED engineVars
  BY <1>19 DEF engineVars
<1>20. QED
  BY <1>1, <1>2, <1>3, <1>4, <1>5, <1>6, <1>8, <1>9, <1>10, <1>11, <1>12, <1>13,
     <1>14, <1>15, <1>16, <1>17, <1>18, <1>19 DEF Next, Proceed

LEMMA LocalHolds == Spec => []LocalInv
  BY LocalInit, LocalStep, PTL DEF Spec

LEMMA BreakerStep == LocalInv /\ [Next]_engineVars => [Breaker!Next]_(Breaker!vars)
<1> SUFFICES ASSUME LocalInv, [Next]_engineVars PROVE [Breaker!Next]_(Breaker!vars)
  OBVIOUS
<1> USE DEF LocalInv, At, Goto, Return, breakerState, Breaker!Next, Breaker!vars
<1>1. ASSUME NEW t \in Threads, NEW k \in Keys, LookUp(t, k) PROVE UNCHANGED Breaker!vars
  BY <1>1 DEF LookUp, Cache!GetReadsClock
<1>2. ASSUME NEW t \in Threads, MatchAll(t) PROVE UNCHANGED Breaker!vars
  BY <1>2 DEF MatchAll
<1>3. ASSUME NEW t \in Threads, AnswerFromCache(t) PROVE UNCHANGED Breaker!vars
  BY <1>3 DEF AnswerFromCache, Cache!GetHit
<1>4. ASSUME NEW t \in Threads, NotInCache(t) PROVE UNCHANGED Breaker!vars
  BY <1>4 DEF NotInCache, Cache!GetMiss
<1>5. ASSUME NEW t \in Threads, Ask(t) PROVE Breaker!Next
  BY <1>5 DEF Ask
<1>6. ASSUME NEW t \in Threads, Refuse(t) PROVE UNCHANGED Breaker!vars
  BY <1>6 DEF Refuse
<1>7. ASSUME NEW t \in Threads, NEW v \in Values, Answered(t, v) PROVE Breaker!Next
  BY <1>7 DEF Answered
<1>8. ASSUME NEW t \in Threads, WrongShape(t) \/ WrongType(t) PROVE Breaker!Next
  BY <1>8 DEF WrongShape, WrongType
<1>9. ASSUME NEW t \in Threads, KeyRefused(t) \/ ReadBroken(t) PROVE Breaker!Next
  BY <1>9 DEF KeyRefused, ReadBroken
<1>10. ASSUME NEW t \in Threads, Failed(t) PROVE Breaker!Next
  BY <1>10 DEF Failed
<1>11. ASSUME NEW t \in Threads, Catch(t) \/ DoNotStore(t) PROVE UNCHANGED Breaker!vars
  BY <1>11 DEF Catch, DoNotStore
<1>12. ASSUME NEW t \in Threads, BeginStore(t) PROVE UNCHANGED Breaker!vars
  BY <1>12 DEF BeginStore, Cache!SetReadsClock
<1>13. ASSUME NEW t \in Threads, Store(t) PROVE UNCHANGED Breaker!vars
  BY <1>13 DEF Store, Cache!SetStores
<1>14. CASE Tick
  BY <1>14 DEF Tick, Breaker!Tick
<1>15. CASE UNCHANGED engineVars
  BY <1>15 DEF engineVars
<1>16. QED
  BY <1>1, <1>2, <1>3, <1>4, <1>5, <1>6, <1>7, <1>8, <1>9, <1>10, <1>11, <1>12,
     <1>13, <1>14, <1>15 DEF Next, Proceed

(* The engine is a user of the breaker as CircuitBreaker describes them,   *)
(* so that the theorems about the breaker hold inside it (engine.py:85-98).*)
THEOREM EngineUsesBreaker == Spec => UsesBreaker
<1>1. Init => Breaker!Init
  BY DEF Init, Cache!Init, Breaker!Init, At
<1>2. QED
  BY <1>1, LocalHolds, BreakerStep, PTL DEF Spec, UsesBreaker, Breaker!Spec

(* The breaker inside the engine, and the observer of BreakerHistory who   *)
(* watches it there.                                                       *)
VARIABLES probing, probedAt, openSince, probes

BP == INSTANCE BreakerProofs WITH Callers <- Threads, wire <- At("wire")

LEMMA BreakerAssumptionHolds == BP!BreakerAssumption
  BY EngineAssumption DEF BP!BreakerAssumption, BP!IsFiniteSet, IsFiniteSet

(* The engine's breaker and the one BreakerProofs is about are the same.   *)
LEMMA SameBreaker ==
  /\ Breaker!Init <=> BP!Init
  /\ [Breaker!Next]_(Breaker!vars) <=> [BP!Next]_(BP!vars)
  /\ Breaker!OpenIffThresholdReached <=> BP!OpenIffThresholdReached
<1>1. Breaker!Init <=> BP!Init
  BY DEF Breaker!Init, BP!Init, Breaker!NotOpen, BP!NotOpen
<1>2. Breaker!Next <=> BP!Next
  BY DEF Breaker!Next, BP!Next, Breaker!AllowClosed, BP!AllowClosed, Breaker!AllowProbe,
     BP!AllowProbe, Breaker!RecordSuccess, BP!RecordSuccess, Breaker!RecordFailure,
     BP!RecordFailure, Breaker!Abandon, BP!Abandon, Breaker!Tick, BP!Tick,
     Breaker!IsOpen, BP!IsOpen, Breaker!NotOpen, BP!NotOpen, Breaker!CooledDown, BP!CooledDown
<1>3. Breaker!OpenIffThresholdReached <=> BP!OpenIffThresholdReached
  BY DEF Breaker!OpenIffThresholdReached, BP!OpenIffThresholdReached,
     Breaker!IsOpen, BP!IsOpen, Breaker!NotOpen, BP!NotOpen
<1>4. QED
  BY <1>1, <1>2, <1>3 DEF Breaker!vars, BP!vars

LEMMA EngineHasBreaker == Spec => BP!Spec
  BY EngineUsesBreaker, SameBreaker, PTL DEF UsesBreaker, Breaker!Spec, BP!Spec

(* However lookups of all threads overlap, the breaker of the source is    *)
(* open exactly when the failures they reported since the last success     *)
(* have reached the threshold (engine.py:85-98 with breaker.py:32-41).     *)
THEOREM EngineBreakerAgrees == Spec => []Breaker!OpenIffThresholdReached
  BY EngineHasBreaker, BreakerAssumptionHolds, BP!FieldsAgree, SameBreaker, PTL

(* The requests of the engine's threads go out and are reported as         *)
(* BreakerTimer promises: freely up to the threshold, from then on one for *)
(* each cooldown (engine.py:85-98 with breaker.py:23-41).                  *)
THEOREM EngineImplementsTimer == Spec => BP!ImplementsTimer
  BY EngineHasBreaker, BreakerAssumptionHolds, BP!BreakerImplementsTimer

(* An outage of the server costs the engine's callers at most one probe    *)
(* for each cooldown, a bounded number of requests in all, and two probes  *)
(* at once only a cooldown apart, whatever the lookups, the cache and the  *)
(* replies do (engine.py:85-98 with breaker.py:23-41).                     *)
THEOREM EngineOutages ==
    Spec /\ BP!Watching => [](BP!ProbeRate /\ BP!OutageBudget /\ BP!ProbesAreSpaced)
<1>1. Spec /\ BP!Watching => BP!HSpec
  BY EngineHasBreaker, BreakerAssumptionHolds, BP!WatchedBreaker
<1>2. BP!HSpec => []BP!ProbeRate
  BY BreakerAssumptionHolds, BP!ProbesAreRateLimited
<1>3. BP!HSpec => []BP!OutageBudget
  BY BreakerAssumptionHolds, BP!OutageCostIsBounded
<1>4. BP!HSpec => []BP!ProbesAreSpaced
  BY BreakerAssumptionHolds, BP!ProbesNeverCrowd
<1>5. QED
  BY <1>1, <1>2, <1>3, <1>4, PTL

LEMMA CacheStep == LocalInv /\ [Next]_engineVars => [Cache!Next]_(Cache!cacheVars)
<1> SUFFICES ASSUME LocalInv, [Next]_engineVars
             PROVE  [Cache!Next]_(Cache!cacheVars)
  OBVIOUS
<1> USE DEF cacheState, Cache!Next, Cache!cacheVars
<1>1. ASSUME NEW t \in Threads, NEW k \in Keys, LookUp(t, k) PROVE Cache!Next
  BY <1>1 DEF LookUp
<1>2. ASSUME NEW t \in Threads, MatchAll(t) PROVE UNCHANGED Cache!cacheVars
  BY <1>2 DEF MatchAll
<1>3. ASSUME NEW t \in Threads, AnswerFromCache(t) \/ NotInCache(t) PROVE Cache!Next
  BY <1>3 DEF AnswerFromCache, NotInCache
<1>4. ASSUME NEW t \in Threads, Ask(t) PROVE UNCHANGED Cache!cacheVars
  BY <1>4 DEF Ask, Breaker!AllowClosed, Breaker!AllowProbe
<1>5. ASSUME NEW t \in Threads, Refuse(t) \/ Catch(t) \/ DoNotStore(t)
      PROVE  UNCHANGED Cache!cacheVars
  BY <1>5 DEF Refuse, Catch, DoNotStore
<1>6. ASSUME NEW t \in Threads, NEW v \in Values, Answered(t, v)
      PROVE  UNCHANGED Cache!cacheVars
  BY <1>6 DEF Answered, Breaker!RecordSuccess
<1>7. ASSUME NEW t \in Threads, WrongShape(t) \/ WrongType(t)
      PROVE  UNCHANGED Cache!cacheVars
  BY <1>7 DEF WrongShape, WrongType, Breaker!RecordSuccess
<1>8. ASSUME NEW t \in Threads, KeyRefused(t) \/ ReadBroken(t)
      PROVE  UNCHANGED Cache!cacheVars
  BY <1>8 DEF KeyRefused, ReadBroken, Breaker!Abandon
<1>9. ASSUME NEW t \in Threads, Failed(t) PROVE UNCHANGED Cache!cacheVars
  BY <1>9 DEF Failed, Breaker!RecordFailure
<1>10. ASSUME NEW t \in Threads, BeginStore(t) PROVE Cache!Next
  <2>1. job[t] \in Keys /\ answer[t] \in Values
    BY <1>10 DEF BeginStore, LocalInv
  <2>2. TtlOf(answer[t]) \in {CacheTtl, NegativeTtl}
    BY DEF TtlOf
  <2>3. QED
    BY <1>10, <2>1, <2>2 DEF BeginStore
<1>11. ASSUME NEW t \in Threads, Store(t) PROVE Cache!Next
  BY <1>11 DEF Store
<1>12. CASE Tick
  BY <1>12 DEF Tick, Cache!CacheTick
<1>13. CASE UNCHANGED engineVars
  BY <1>13 DEF engineVars
<1>14. QED
  BY <1>1, <1>2, <1>3, <1>4, <1>5, <1>6, <1>7, <1>8, <1>9, <1>10, <1>11, <1>12,
     <1>13 DEF Next, Proceed

(* Every get and set of the engine is one of TTLCache's, begun and ended   *)
(* by one thread with the ttl of its kind (engine.py:40-47, 59-66).        *)
THEOREM EngineUsesCache == Spec => UsesCache
<1>1. Init => Cache!Init
  BY DEF Init
<1>2. QED
  BY <1>1, LocalHolds, CacheStep, PTL DEF Spec, UsesCache, Cache!Spec

(***************************************************************************)
(* What the objects promise holds inside the engine                        *)
(***************************************************************************)
(* The cache inside the engine, and the observer of CacheHistory who       *)
(* watches it there.                                                       *)
VARIABLE since

CP == INSTANCE CacheProofs WITH Ttls <- {CacheTtl, NegativeTtl}

LEMMA CacheAssumptionsHold == CP!CacheAssumption /\ CP!IdleAssumption
<1>1. CP!CacheAssumption
  BY EngineAssumption DEF CP!CacheAssumption, CP!IsFiniteSet, IsFiniteSet
<1>2. CP!IdleAssumption
  BY EngineIdleAssumption DEF CP!IdleAssumption, Cache!Call, CP!Call, Cache!Entry, CP!Entry
<1>3. QED
  BY <1>1, <1>2

(* The engine's cache and the one CacheProofs is about are the same.       *)
LEMMA SameCache ==
  /\ Cache!Init <=> CP!Init
  /\ [Cache!Next]_(Cache!cacheVars) <=> [CP!Next]_(CP!cacheVars)
  /\ CP!TypeOK <=> Cache!TypeOK
<1>1. Cache!Init <=> CP!Init
  BY DEF Cache!Init, CP!Init
<1>2. Cache!Next <=> CP!Next
  <2>1. /\ \A s : Cache!KeysOf(s) = CP!KeysOf(s)
        /\ \A s, k : Cache!IndexOf(s, k) = CP!IndexOf(s, k)
        /\ \A s : Cache!KeepNewest(s) = CP!KeepNewest(s)
    BY DEF Cache!KeysOf, CP!KeysOf, Cache!IndexOf, CP!IndexOf, Cache!KeepNewest, CP!KeepNewest
  <2>2. \A s, k : Cache!EntryOf(s, k) = CP!EntryOf(s, k) /\ Cache!Without(s, k) = CP!Without(s, k)
    BY <2>1 DEF Cache!EntryOf, CP!EntryOf, Cache!Without, CP!Without
  <2>3. /\ \A s, k : Cache!AfterHit(s, k) = CP!AfterHit(s, k)
        /\ \A s, e : Cache!AfterSet(s, e) = CP!AfterSet(s, e)
    BY <2>1, <2>2 DEF Cache!AfterHit, CP!AfterHit, Cache!AfterSet, CP!AfterSet
  <2>4. ASSUME NEW t
        PROVE  /\ \A k : Cache!GetReadsClock(t, k) <=> CP!GetReadsClock(t, k)
               /\ \A k, v, ttl : Cache!SetReadsClock(t, k, v, ttl) <=> CP!SetReadsClock(t, k, v, ttl)
               /\ Cache!SetStores(t) <=> CP!SetStores(t)
    BY <2>3 DEF Cache!GetReadsClock, CP!GetReadsClock, Cache!SetReadsClock,
       CP!SetReadsClock, Cache!SetStores, CP!SetStores
  <2>5. ASSUME NEW t
        PROVE  (Cache!GetHit(t) <=> CP!GetHit(t)) /\ (Cache!GetMiss(t) <=> CP!GetMiss(t))
    BY <2>1, <2>2, <2>3 DEF Cache!Hits, CP!Hits, Cache!GetHit, CP!GetHit, Cache!GetMiss, CP!GetMiss
  <2>6. Cache!CacheTick <=> CP!CacheTick
    BY DEF Cache!CacheTick, CP!CacheTick
  <2>7. QED
    BY <2>4, <2>5, <2>6 DEF Cache!Next, CP!Next
<1>3. CP!TypeOK <=> Cache!TypeOK
  BY DEF CP!TypeOK, Cache!TypeOK, CP!Call, Cache!Call, CP!Entry, Cache!Entry
<1>4. QED
  BY <1>1, <1>2, <1>3 DEF Cache!cacheVars, CP!cacheVars

LEMMA EngineHasCache == Spec => CP!Spec
  BY EngineUsesCache, SameCache, PTL DEF UsesCache, Cache!Spec, CP!Spec

(* Inside the engine, too, the cache is a bounded map: a hit is what the   *)
(* last store of that key by any thread left, and nothing goes but by      *)
(* expiry or for a new key in a full cache (engine.py:37-47, 56-66 with    *)
(* cache.py:22-43).                                                        *)
THEOREM EngineCacheIsMap == Spec => CP!ImplementsMap
  BY EngineHasCache, CacheAssumptionsHold, CP!CacheImplementsMap

(* A lookup in use keeps its cached answer: whatever the threads of the    *)
(* engine do, it goes only when it has expired or when as many other keys  *)
(* as the cache holds were stored or hit after it (engine.py:37-47, 56-66  *)
(* with cache.py:22-43).                                                   *)
THEOREM EngineKeepsWhatIsInUse == Spec /\ CP!Watching => CP!KeepsWhatIsInUse
<1>1. Spec /\ CP!Watching => CP!USpec
  BY EngineHasCache, CacheAssumptionsHold, CP!WatchedCache
<1>2. CP!USpec => CP!KeepsWhatIsInUse
  BY CacheAssumptionsHold, CP!WhatIsInUseStays
<1>3. QED
  BY <1>1, <1>2

LEMMA CacheHolds == Spec => []CP!CacheInv
<1>1. Init => CP!CacheInv
  BY CP!InvHoldsInitially, CacheAssumptionsHold, SameCache DEF Init
<1>2. LocalInv /\ [Next]_engineVars => [CP!Next]_(CP!cacheVars)
  BY CacheStep, SameCache
<1>3. CP!CacheInv /\ [CP!Next]_(CP!cacheVars) => CP!CacheInv'
  BY CP!InvIsInductive, CacheAssumptionsHold
<1>4. LocalInv /\ CP!CacheInv /\ [Next]_engineVars => CP!CacheInv'
  BY <1>2, <1>3
<1>5. QED
  BY <1>1, <1>4, LocalHolds, PTL DEF Spec

(***************************************************************************)
(* Types, and how a thread's place tells what it carries to the cache      *)
(***************************************************************************)
Carries ==
    \A t \in Threads :
        /\ call[t] # Idle <=> pc[t] \in {"reading", "storing"}
        /\ pc[t] = "reading" => call[t].op = "get"
        /\ pc[t] = "storing" => call[t].op = "set"
        /\ pc[t] \in {"idle", "storing"} => job[t] = Batch /\ answer[t] = NoMatch

TypeInv ==
    /\ LocalInv
    /\ CP!CacheInv
    /\ Breaker!TypeOK
    /\ reply \in [Threads -> {"none", "answer", "shape", "type", "broken"}]
    /\ answered \in [Keys -> SUBSET Values]
    /\ Carries

LEMMA TypeInit == Init => TypeInv
<1> SUFFICES ASSUME Init PROVE TypeInv
  OBVIOUS
<1>1. LocalInv /\ CP!CacheInv
  BY LocalInit, CP!InvHoldsInitially, CacheAssumptionsHold, SameCache DEF Init
<1>2. Breaker!TypeOK
  BY DEF Init, Cache!Init, Breaker!TypeOK, Breaker!NotOpen, At
<1>3. QED
  BY <1>1, <1>2 DEF Init, Cache!Init, TypeInv, Carries

LEMMA BreakerTyped ==
  ASSUME Breaker!TypeOK, [Breaker!Next]_(Breaker!vars), pc' \in [Threads -> Places]
  PROVE  Breaker!TypeOK'
  BY DEF Breaker!TypeOK, Breaker!Next, Breaker!vars, Breaker!AllowClosed, Breaker!AllowProbe,
     Breaker!RecordSuccess, Breaker!RecordFailure, Breaker!Abandon, Breaker!Tick,
     Breaker!NotOpen, Breaker!IsOpen, Breaker!CooledDown, At

LEMMA TypeStep == TypeInv /\ [Next]_engineVars => TypeInv'
<1> SUFFICES ASSUME TypeInv, [Next]_engineVars PROVE TypeInv'
  OBVIOUS
<1>1. LocalInv' /\ CP!CacheInv'
  BY LocalStep, CacheStep, SameCache, CP!InvIsInductive, CacheAssumptionsHold DEF TypeInv
<1>2. Breaker!TypeOK'
  BY <1>1, BreakerStep, BreakerTyped DEF TypeInv, LocalInv
<1> DEFINE Rest == /\ reply \in [Threads -> {"none", "answer", "shape", "type", "broken"}]
                   /\ answered \in [Keys -> SUBSET Values]
                   /\ Carries
<1>3. call \in [Threads -> CP!Call \union {Idle}] /\ Idle \notin CP!Call
  BY CacheAssumptionsHold DEF TypeInv, CP!CacheInv, CP!IdleAssumption
<1> USE DEF TypeInv, LocalInv, Places, Values, Carries, Goto, Return, local, cacheState
<1>4. ASSUME NEW t \in Threads, NEW k \in Keys, LookUp(t, k) PROVE Rest'
  <2>1. [op |-> "get", key |-> k, at |-> now] \in CP!Call
    BY DEF CP!Call, CP!CacheInv
  <2>2. QED
    BY <1>3, <1>4, <2>1 DEF LookUp, Cache!GetReadsClock
<1>5. ASSUME NEW t \in Threads, MatchAll(t) PROVE Rest'
  BY <1>5 DEF MatchAll
<1>6. ASSUME NEW t \in Threads, AnswerFromCache(t) PROVE Rest'
  BY <1>3, <1>6 DEF AnswerFromCache, Cache!GetHit
<1>7. ASSUME NEW t \in Threads, NotInCache(t) PROVE Rest'
  BY <1>3, <1>7 DEF NotInCache, Cache!GetMiss
<1>8. ASSUME NEW t \in Threads, Ask(t) PROVE Rest'
  BY <1>8 DEF Ask
<1>9. ASSUME NEW t \in Threads, Refuse(t) PROVE Rest'
  BY <1>9 DEF Refuse
<1>10. ASSUME NEW t \in Threads, NEW kind \in {"answer", "shape"}, NEW v \in Values,
              pc[t] = "wire", Mapped(t, kind, v), UNCHANGED cacheState
       PROVE  Rest'
  BY <1>10 DEF Mapped
<1>11. ASSUME NEW t \in Threads, NEW v \in Values, Answered(t, v) PROVE Rest'
  BY <1>10, <1>11 DEF Answered
<1>12. ASSUME NEW t \in Threads, WrongShape(t) PROVE Rest'
  BY <1>10, <1>12 DEF WrongShape
<1>13. ASSUME NEW t \in Threads, WrongType(t) \/ ReadBroken(t) PROVE Rest'
  BY <1>13 DEF WrongType, ReadBroken
<1>14. ASSUME NEW t \in Threads, KeyRefused(t) \/ Failed(t) PROVE Rest'
  BY <1>14 DEF KeyRefused, Failed
<1>15. ASSUME NEW t \in Threads, Catch(t) PROVE Rest'
  BY <1>15 DEF Catch
<1>16. ASSUME NEW t \in Threads, BeginStore(t) PROVE Rest'
  <2> DEFINE c == [op |-> "set", entry |-> [key |-> job[t], value |-> answer[t],
                                            expiresAt |-> now + TtlOf(answer[t])]]
  <2>1. c \in CP!Call
    BY <1>16, EngineAssumption DEF BeginStore, TtlOf, CP!Call, CP!Entry, CP!CacheInv
  <2>2. call' = [call EXCEPT ![t] = c]
    BY <1>16 DEF BeginStore, Cache!SetReadsClock
  <2>3. c # Idle /\ c.op = "set"
    BY <1>3, <2>1
  <2> HIDE DEF c
  <2>4. QED
    BY <1>3, <1>16, <2>2, <2>3 DEF BeginStore
<1>17. ASSUME NEW t \in Threads, DoNotStore(t) PROVE Rest'
  BY <1>17 DEF DoNotStore
<1>18. ASSUME NEW t \in Threads, Store(t) PROVE Rest'
  BY <1>3, <1>18 DEF Store, Cache!SetStores
<1>19. ASSUME Tick PROVE Rest'
  BY <1>19 DEF Tick
<1>20. ASSUME UNCHANGED engineVars PROVE Rest'
  BY <1>20 DEF engineVars
<1>21. Rest'
  BY <1>4, <1>5, <1>6, <1>7, <1>8, <1>9, <1>11, <1>12, <1>13, <1>14, <1>15, <1>16,
     <1>17, <1>18, <1>19, <1>20 DEF Next, Proceed
<1>22. QED
  BY <1>1, <1>2, <1>21

LEMMA TypeHolds == Spec => []TypeInv
  BY TypeInit, TypeStep, PTL DEF Spec

(* The engine keeps its variables and those of the cache and the breaker   *)
(* well formed, and a thread's place tells what it carries.                *)
THEOREM EngineTypes == Spec => []TypeOK
<1>1. TypeInv => Cache!TypeOK
  BY SameCache DEF TypeInv, CP!CacheInv, CP!TypeOK, CP!Dict
<1>2. TypeInv => TypeOK
  BY <1>1 DEF TypeInv, TypeOK, LocalInv, Carries
<1>3. QED
  BY <1>2, TypeHolds, PTL

(***************************************************************************)
(* Where the entries come from, and how long they last                     *)
(***************************************************************************)
(* An entry some reply accounts for, with no more time left than its kind  *)
(* of answer is kept.                                                      *)
Accounted(e) ==
    /\ e.value \in answered[e.key]
    /\ e.expiresAt <= now + TtlOf(e.value)

AccountInv ==
    /\ \A i \in 1..Len(data) : Accounted(data[i])
    /\ \A t \in Threads : pc[t] = "storing" => Accounted(call[t].entry)
    /\ \A t \in Threads : pc[t] = "mapped" => answer[t] \in answered[job[t]]

LEMMA EntryTyped ==
  ASSUME TypeInv
  PROVE  /\ \A i \in 1..Len(data) : data[i] \in CP!Entry
         /\ \A t \in Threads : pc[t] = "storing" => call[t].entry \in CP!Entry
<1>1. \A i \in 1..Len(data) : data[i] \in CP!Entry
  BY DEF TypeInv, CP!CacheInv, CP!Dict
<1>2. ASSUME NEW t \in Threads, pc[t] = "storing" PROVE call[t].entry \in CP!Entry
  BY <1>2, CacheAssumptionsHold DEF TypeInv, CP!CacheInv, Carries, CP!Call, CP!IdleAssumption
<1>3. QED
  BY <1>1, <1>2

(* Accounts stay good: replies are not forgotten and time does not go back.*)
LEMMA StaysAccounted ==
  ASSUME TypeInv, NEW e \in CP!Entry, Accounted(e),
         answered' = answered \/ \E k \in Keys, v \in Values :
            answered' = [answered EXCEPT ![k] = @ \union {v}],
         now' = now \/ now' = now + 1
  PROVE  Accounted(e)'
<1>1. e.key \in Keys /\ e.expiresAt \in Nat /\ now \in Nat /\ TtlOf(e.value) \in Nat
  BY EngineAssumption DEF CP!Entry, TypeInv, CP!CacheInv, TtlOf
<1>2. e.value \in answered'[e.key]
  BY <1>1 DEF Accounted, TypeInv
<1>3. e.expiresAt <= now' + TtlOf(e.value)
  BY <1>1 DEF Accounted
<1>4. QED
  BY <1>2, <1>3 DEF Accounted, TtlOf

LEMMA RepliesKept ==
  ASSUME TypeInv, [Next]_engineVars
  PROVE  /\ answered' = answered \/ \E k \in Keys, v \in Values :
              answered' = [answered EXCEPT ![k] = @ \union {v}]
         /\ now' = now \/ now' = now + 1
<1> USE DEF TypeInv, LocalInv, Values
<1>1. ASSUME NEW t \in Threads, NEW kind, NEW v \in Values, Mapped(t, kind, v)
      PROVE  answered' = answered \/ \E k \in Keys, w \in Values :
               answered' = [answered EXCEPT ![k] = @ \union {w}]
  BY <1>1 DEF Mapped
<1>2. ASSUME NEW t \in Threads, Proceed(t)
      PROVE  answered' = answered \/ \E k \in Keys, w \in Values :
               answered' = [answered EXCEPT ![k] = @ \union {w}]
  BY <1>1, <1>2
     DEF Proceed, AnswerFromCache, NotInCache, Ask, Refuse, Answered, WrongShape,
         WrongType, KeyRefused, Failed, ReadBroken, Catch, BeginStore, DoNotStore, Store
<1>3. now' = now \/ now' = now + 1
  BY BreakerStep DEF Breaker!Next, Breaker!vars, Breaker!AllowClosed, Breaker!AllowProbe,
     Breaker!RecordSuccess, Breaker!RecordFailure, Breaker!Abandon, Breaker!Tick
<1>4. QED
  BY <1>2, <1>3 DEF Next, LookUp, MatchAll, Tick, engineVars

LEMMA AccountInit == Init => AccountInv
  BY DEF Init, Cache!Init, AccountInv

(* A thread comes to store only by BeginStore, and to have a mapped answer *)
(* only with a reply that says it.                                         *)
LEMMA Arrivals ==
  ASSUME TypeInv, [Next]_engineVars, NEW t \in Threads
  PROVE  /\ pc'[t] = "storing" =>
              (pc[t] = "storing" /\ call'[t] = call[t]) \/ BeginStore(t)
         /\ pc'[t] = "mapped" =>
              /\ job'[t] = job[t]
              /\ (pc[t] = "mapped" /\ answer'[t] = answer[t]) \/ answer'[t] \in answered'[job[t]]
<1> DEFINE Goal == /\ pc'[t] = "storing" =>
                        (pc[t] = "storing" /\ call'[t] = call[t]) \/ BeginStore(t)
                   /\ pc'[t] = "mapped" =>
                        /\ job'[t] = job[t]
                        /\ (pc[t] = "mapped" /\ answer'[t] = answer[t])
                           \/ answer'[t] \in answered'[job[t]]
<1> USE DEF TypeInv, LocalInv, Places, Values, Goto, Return, local, cacheState
<1>1. call \in [Threads -> CP!Call \union {Idle}]
  BY DEF CP!CacheInv
<1>2. ASSUME NEW u \in Threads, NEW k \in Keys, LookUp(u, k) PROVE Goal
  BY <1>1, <1>2 DEF LookUp, Cache!GetReadsClock
<1>3. ASSUME NEW u \in Threads, AnswerFromCache(u) \/ NotInCache(u) PROVE Goal
  BY <1>1, <1>3 DEF AnswerFromCache, NotInCache, Cache!GetHit, Cache!GetMiss
<1>4. ASSUME NEW u \in Threads, MatchAll(u) \/ Ask(u) \/ Refuse(u) PROVE Goal
  BY <1>4 DEF MatchAll, Ask, Refuse
<1>5. ASSUME NEW u \in Threads, NEW kind, NEW v \in Values, Mapped(u, kind, v),
             UNCHANGED cacheState
      PROVE  Goal
  BY <1>5 DEF Mapped
<1>6. ASSUME NEW u \in Threads, NEW v \in Values, Answered(u, v) PROVE Goal
  BY <1>5, <1>6 DEF Answered
<1>7. ASSUME NEW u \in Threads, WrongShape(u) PROVE Goal
  BY <1>5, <1>7 DEF WrongShape
<1>8. ASSUME NEW u \in Threads, WrongType(u) \/ ReadBroken(u) PROVE Goal
  BY <1>8 DEF WrongType, ReadBroken
<1>9. ASSUME NEW u \in Threads, KeyRefused(u) \/ Failed(u) PROVE Goal
  BY <1>9 DEF KeyRefused, Failed
<1>10. ASSUME NEW u \in Threads, Catch(u) \/ DoNotStore(u) PROVE Goal
  BY <1>10 DEF Catch, DoNotStore
<1>11. ASSUME NEW u \in Threads, BeginStore(u) PROVE Goal
  BY <1>1, <1>11 DEF BeginStore, Cache!SetReadsClock
<1>12. ASSUME NEW u \in Threads, Store(u) PROVE Goal
  BY <1>1, <1>12 DEF Store, Cache!SetStores
<1>13. ASSUME Tick \/ UNCHANGED engineVars PROVE Goal
  BY <1>13 DEF Tick, engineVars
<1>14. QED
  BY <1>2, <1>3, <1>4, <1>6, <1>7, <1>8, <1>9, <1>10, <1>11, <1>12, <1>13
     DEF Next, Proceed

LEMMA AccountStep == TypeInv /\ AccountInv /\ [Next]_engineVars => AccountInv'
<1> SUFFICES ASSUME TypeInv, AccountInv, [Next]_engineVars PROVE AccountInv'
  OBVIOUS
<1> DEFINE Kept(e) == /\ e.value \in answered'[e.key]
                      /\ e.expiresAt <= now' + TtlOf(e.value)
<1>1. ASSUME NEW e \in CP!Entry, Accounted(e) PROVE Kept(e)
  <2>1. Accounted(e)'
    BY <1>1, RepliesKept, StaysAccounted
  <2>2. QED
    BY <2>1 DEF Accounted, TtlOf
<1>2. ASSUME NEW i \in 1..Len(data') PROVE Kept(data'[i])
  <2>1. [CP!Next]_(CP!cacheVars) /\ CP!CacheInv
    BY CacheStep, SameCache DEF TypeInv
  <2>2. ASSUME NEW j \in 1..Len(data) PROVE Kept(data[j])
    BY <1>1, EntryTyped DEF AccountInv
  <2>3. ASSUME NEW t \in Threads, call[t] # Idle, call[t].op = "set"
        PROVE  Kept(call[t].entry)
    <3>1. pc[t] = "storing"
      BY <2>3 DEF TypeInv, Carries
    <3>2. QED
      BY <1>1, <3>1, EntryTyped DEF AccountInv
  <2> HIDE DEF Kept
  <2>4. QED
    BY <2>1, <2>2, <2>3, CP!EntriesAreStored, CacheAssumptionsHold
<1>3. ASSUME NEW t \in Threads, pc'[t] = "storing" PROVE Kept(call'[t].entry)
  <2>1. CASE pc[t] = "storing" /\ call'[t] = call[t]
    <3>1. Kept(call[t].entry)
      BY <1>1, <2>1, EntryTyped DEF AccountInv
    <3>2. QED
      BY <2>1, <3>1
  <2>2. CASE BeginStore(t)
    <3>1. answer[t] \in answered[job[t]] /\ now \in Nat
      BY <2>2 DEF BeginStore, AccountInv, TypeInv, CP!CacheInv
    <3>2. call'[t].entry = [key |-> job[t], value |-> answer[t],
                            expiresAt |-> now + TtlOf(answer[t])]
      BY <2>2 DEF BeginStore, Cache!SetReadsClock, TypeInv, CP!CacheInv
    <3>3. answered' = answered /\ now' = now
      BY <2>2 DEF BeginStore, Cache!SetReadsClock
    <3>4. TtlOf(answer[t]) \in Nat
      BY EngineAssumption DEF TtlOf
    <3>5. QED
      BY <3>1, <3>2, <3>3, <3>4
  <2>3. QED
    BY <1>3, <2>1, <2>2, Arrivals
<1>4. ASSUME NEW t \in Threads, pc'[t] = "mapped" PROVE answer'[t] \in answered'[job'[t]]
  <2>1. job'[t] = job[t]
    BY <1>4, Arrivals
  <2>2. CASE pc[t] = "mapped" /\ answer'[t] = answer[t]
    <3>1. job[t] \in Keys /\ answer[t] \in answered[job[t]]
      BY <2>2 DEF TypeInv, LocalInv, AccountInv
    <3>2. answered[job[t]] \subseteq answered'[job[t]]
      BY <3>1, RepliesKept DEF TypeInv
    <3>3. QED
      BY <2>1, <2>2, <3>1, <3>2
  <2>3. QED
    BY <1>4, <2>1, <2>2, Arrivals
<1>5. QED
  BY <1>2, <1>3, <1>4 DEF AccountInv, Accounted, TtlOf

LEMMA AccountHolds == Spec => [](TypeInv /\ AccountInv)
<1>1. TypeInv /\ AccountInv /\ [Next]_engineVars => (TypeInv /\ AccountInv)'
  BY TypeStep, AccountStep
<1>2. QED
  BY <1>1, TypeInit, AccountInit, PTL DEF Spec

(* The cache holds nothing but what replies for the key were taken to say, *)
(* however lookups of one key overlap (engine.py:40-47, 59-66).            *)
THEOREM AnswersHaveSources == Spec => []CacheProvenance
<1>1. TypeInv /\ AccountInv => CacheProvenance
  BY DEF AccountInv, Accounted, CacheProvenance, At
<1>2. QED
  BY <1>1, AccountHolds, PTL

(* No answer outlives the ttl of its kind (engine.py:45-46, 64-65).        *)
THEOREM TtlsAreKept == Spec => []TtlRespected
<1>1. TypeInv /\ AccountInv => TtlRespected
  BY DEF AccountInv, Accounted, TtlRespected, TtlOf
<1>2. QED
  BY <1>1, AccountHolds, PTL

=============================================================================
