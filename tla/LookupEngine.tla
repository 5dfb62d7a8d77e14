---------------------------- MODULE LookupEngine ----------------------------
(***************************************************************************)
(* A source of the wazo-dird plugin at work: the worker threads of the     *)
(* process run first_match, search and match_all of plugin.py, each of     *)
(* which goes skip -> cache -> breaker -> HTTP -> mapping -> cache through *)
(* the one LookupEngine of the source (engine.py).  The engine has no lock *)
(* of its own; what the threads share are the cache and the breaker, whose *)
(* actions are taken from TTLCache and CircuitBreaker.                     *)
(*                                                                         *)
(* reverse() and search() are one operation here, a lookup of a cache key: *)
(* they take the same steps, and their keys differ in the tag.  A number   *)
(* or term that is skipped returns at once and changes nothing, so it is   *)
(* no step.  The request carries what was typed, the key what              *)
(* inputs.py makes of it.                                                  *)
(*                                                                         *)
(* What the server does is one step with the report to the breaker that    *)
(* follows it in the same thread: nobody can see the reply before that.    *)
(***************************************************************************)
EXTENDS Integers, Sequences, FiniteSets

CONSTANTS
    Threads, Keys,
    Match,       \* mapped answers that name somebody
    NoMatch,     \* None or [], the mapped answer that names nobody
    Batch,       \* the job of a thread in match_all
    Idle,        \* (see TTLCache)
    MaxEntries, CacheTtl, NegativeTtl,
    Threshold, Cooldown, MaxTime

Values == Match \union {NoMatch}

ASSUME EngineAssumption ==
    /\ NoMatch \notin Match
    /\ Batch \notin Keys
    /\ CacheTtl \in Nat
    /\ NegativeTtl \in Nat
    /\ MaxEntries \in Nat \ {0}
    /\ Threshold \in Nat \ {0}
    /\ Cooldown \in Nat \ {0}
    /\ MaxTime \in Nat
    /\ IsFiniteSet(Keys)
    /\ IsFiniteSet(Threads)

VARIABLES
    data, call,                  \* the cache
    failures, openedAt,          \* the breaker
    now,                         \* the clock of both
    pc,          \* where each thread is
    job,         \* the key it looks up, or Batch
    answer,      \* the mapped answer it is about to store
    reply,       \* the kind of body it works on, if any
    answered     \* history: what replies for each key were taken to say

engineVars == <<data, call, failures, openedAt, now, pc, job, answer, reply, answered>>

cacheState == <<data, call>>
breakerState == <<failures, openedAt>>
local == <<job, answer, reply>>

At(place) == {t \in Threads : pc[t] = place}

Cache == INSTANCE TTLCache WITH Ttls <- {CacheTtl, NegativeTtl}
ASSUME EngineIdleAssumption == Idle \notin Cache!Call

Breaker == INSTANCE CircuitBreaker WITH Callers <- Threads, wire <- At("wire")

Places == {"idle", "reading", "asking", "wire", "mapped", "storing", "raised"}

TypeOK ==
    /\ Cache!TypeOK
    /\ Breaker!TypeOK
    /\ pc \in [Threads -> Places]
    /\ job \in [Threads -> Keys \union {Batch}]
    /\ answer \in [Threads -> Values]
    /\ reply \in [Threads -> {"none", "answer", "shape", "type", "broken"}]
    /\ answered \in [Keys -> SUBSET Values]
    /\ \A t \in Threads :
        /\ call[t] # Idle <=> pc[t] \in {"reading", "storing"}
        /\ pc[t] \in {"reading", "mapped"} => job[t] # Batch
        /\ pc[t] \in {"idle", "storing"} => job[t] = Batch /\ answer[t] = NoMatch

Init ==
    /\ Cache!Init
    /\ failures = 0
    /\ openedAt = Breaker!NotOpen
    /\ pc = [t \in Threads |-> "idle"]
    /\ job = [t \in Threads |-> Batch]
    /\ answer = [t \in Threads |-> NoMatch]
    /\ reply = [t \in Threads |-> "none"]
    /\ answered = [k \in Keys |-> {}]

Goto(t, place) == pc' = [pc EXCEPT ![t] = place]

ReturnKeepsAnswer(t) ==      \* mutated: shared instead of local variables
    /\ Goto(t, "idle")
    /\ UNCHANGED local

(* The lookup is over and its local variables are gone.                    *)
Return(t) ==
    /\ Goto(t, "idle")
    /\ job' = [job EXCEPT ![t] = Batch]
    /\ answer' = [answer EXCEPT ![t] = NoMatch]
    /\ reply' = [reply EXCEPT ![t] = "none"]

(* cache_ttl if the answer names somebody, negative_cache_ttl otherwise.   *)
TtlIgnoringMisses(v) == CacheTtl      \* mutated: one ttl for all
TtlOf(v) == IF v = NoMatch THEN NegativeTtl ELSE CacheTtl

(***************************************************************************)
(* Up to the request                                                       *)
(***************************************************************************)
(* The key is made and the cache asked.                                    *)
LookUp(t, k) ==
    /\ pc[t] = "idle"
    /\ Goto(t, "reading")
    /\ job' = [job EXCEPT ![t] = k]
    /\ Cache!GetReadsClock(t, k)
    /\ UNCHANGED <<breakerState, answer, reply, answered>>

(* match_all does not use the cache.                                       *)
MatchAll(t) ==
    /\ pc[t] = "idle"
    /\ Goto(t, "asking")
    /\ UNCHANGED <<cacheState, breakerState, now, local, answered>>

AnswerFromCache(t) ==
    /\ pc[t] = "reading"
    /\ Cache!GetHit(t)
    /\ Return(t)
    /\ UNCHANGED <<breakerState, answered>>

NotInCache(t) ==
    /\ pc[t] = "reading"
    /\ Cache!GetMiss(t)
    /\ Goto(t, "asking")
    /\ UNCHANGED <<breakerState, local, answered>>

Ask(t) ==
    /\ pc[t] = "asking"
    /\ Goto(t, "wire")
    /\ Breaker!AllowClosed(t) \/ Breaker!AllowProbe(t)
    /\ UNCHANGED <<cacheState, local, answered>>

RefuseUntilCooledDown(t) ==      \* mutated: waits for the cooldown
    /\ pc[t] = "asking"
    /\ Breaker!IsOpen /\ ~Breaker!CooledDown
    /\ UNCHANGED engineVars

(* allow() says no: the lookup fails open.                                 *)
Refuse(t) ==
    /\ pc[t] = "asking"
    /\ Breaker!IsOpen /\ ~Breaker!CooledDown
    /\ Return(t)
    /\ UNCHANGED <<cacheState, breakerState, now, answered>>

(***************************************************************************)
(* The reply                                                               *)
(***************************************************************************)
(* What follows a body: the mapped answer v is to be stored, except that   *)
(* match_all returns it as it is.                                          *)
Mapped(t, kind, v) ==
    IF job[t] = Batch
    THEN /\ Return(t)
         /\ UNCHANGED answered
    ELSE /\ Goto(t, "mapped")
         /\ answer' = [answer EXCEPT ![t] = v]
         /\ reply' = [reply EXCEPT ![t] = kind]
         /\ answered' = [answered EXCEPT ![job[t]] = @ \union {v}]
         /\ UNCHANGED job

(* A JSON object with an answer that can be mapped.                        *)
Answered(t, v) ==
    /\ pc[t] = "wire"
    /\ Mapped(t, "answer", v)
    /\ Breaker!RecordSuccess(t)
    /\ UNCHANGED cacheState

(* JSON that is no object: taken for an answer that names nobody.          *)
WrongShape(t) ==
    /\ pc[t] = "wire"
    /\ Mapped(t, "shape", NoMatch)
    /\ Breaker!RecordSuccess(t)
    /\ UNCHANGED cacheState

(* A JSON object whose answer has the wrong type: mapping.py raises.       *)
WrongType(t) ==
    /\ pc[t] = "wire"
    /\ Goto(t, "raised")
    /\ reply' = [reply EXCEPT ![t] = "type"]
    /\ Breaker!RecordSuccess(t)
    /\ UNCHANGED <<cacheState, job, answer, answered>>

(* 401 and 403: neither the breaker nor the cache hears of it.             *)
KeyRefused(t) ==
    /\ pc[t] = "wire"
    /\ Return(t)
    /\ Breaker!Abandon(t)
    /\ UNCHANGED <<cacheState, answered>>

FailedStoresMiss(t) ==      \* mutated: a failed request counts as no match
    /\ pc[t] = "wire"
    /\ IF job[t] = Batch THEN Return(t) ELSE Goto(t, "mapped") /\ UNCHANGED local
    /\ Breaker!RecordFailure(t)
    /\ UNCHANGED <<cacheState, answered>>

FailedReportsTwice(t) ==      \* mutated: reports before and after the retry
    /\ pc[t] = "wire"
    /\ Return(t)
    /\ failures' = failures + 2
    /\ openedAt' = IF failures' >= Threshold /\ openedAt = Breaker!NotOpen
                   THEN now ELSE openedAt
    /\ UNCHANGED <<cacheState, now, answered>>

(* Every other typed error of the client.                                  *)
Failed(t) ==
    /\ pc[t] = "wire"
    /\ Return(t)
    /\ Breaker!RecordFailure(t)
    /\ UNCHANGED <<cacheState, answered>>

(* The body cannot be read: resp.raw.read raises one of urllib3's own      *)
(* exceptions, which the client does not translate.                        *)
ReadBroken(t) ==
    /\ pc[t] = "wire"
    /\ Goto(t, "raised")
    /\ reply' = [reply EXCEPT ![t] = "broken"]
    /\ Breaker!Abandon(t)
    /\ UNCHANGED <<cacheState, job, answer, answered>>

(* The safety catch of plugin.py.                                          *)
Catch(t) ==
    /\ pc[t] = "raised"
    /\ Return(t)
    /\ UNCHANGED <<cacheState, breakerState, now, answered>>

(***************************************************************************)
(* Storing the answer                                                      *)
(***************************************************************************)
BeginStore(t) ==
    /\ pc[t] = "mapped"
    /\ Goto(t, "storing")
    /\ job' = [job EXCEPT ![t] = Batch]
    /\ answer' = [answer EXCEPT ![t] = NoMatch]
    /\ Cache!SetReadsClock(t, job[t], answer[t], TtlOf(answer[t]))
    /\ UNCHANGED <<breakerState, reply, answered>>

(* A ttl of 0 turns this kind of answer off.                               *)
DoNotStore(t) ==
    /\ pc[t] = "mapped"
    /\ TtlOf(answer[t]) = 0
    /\ Return(t)
    /\ UNCHANGED <<cacheState, breakerState, now, answered>>

StoreAgain(t) ==      \* mutated: renews the expiry after it has the lock
    /\ pc[t] = "storing"
    /\ Return(t)
    /\ data' = Cache!AfterSet(data, [call[t].entry EXCEPT !.expiresAt = @ + 1])
    /\ call' = [call EXCEPT ![t] = Idle]
    /\ UNCHANGED <<breakerState, now, answered>>

Store(t) ==
    /\ pc[t] = "storing"
    /\ Return(t)
    /\ Cache!SetStores(t)
    /\ UNCHANGED <<breakerState, answered>>

Tick ==
    /\ now < MaxTime
    /\ now' = now + 1
    /\ UNCHANGED <<cacheState, breakerState, pc, local, answered>>

(* What a thread that is in a lookup does next.                            *)
Proceed(t) ==
    \/ AnswerFromCache(t)
    \/ NotInCache(t)
    \/ Ask(t)
    \/ Refuse(t)
    \/ \E v \in Values : Answered(t, v)
    \/ WrongShape(t)
    \/ WrongType(t)
    \/ KeyRefused(t)
    \/ Failed(t)
    \/ ReadBroken(t)
    \/ Catch(t)
    \/ BeginStore(t)
    \/ DoNotStore(t)
    \/ Store(t)

Next ==
    \/ \E t \in Threads :
        \/ \E k \in Keys : LookUp(t, k)
        \/ MatchAll(t)
        \/ Proceed(t)
    \/ Tick

Spec == Init /\ [][Next]_engineVars

(* A running thread is scheduled, and the server answers or the request    *)
(* fails.  Nobody has to look anything up.                                 *)
FairSpec == Spec /\ \A t \in Threads : WF_engineVars(Proceed(t))

(***************************************************************************)
(* Properties                                                              *)
(***************************************************************************)
(* The engine uses the shared objects as they are meant to be used: each   *)
(* allowed request is reported at most once and by the thread it was       *)
(* allowed to, in any interleaving (engine.py:85-98), ...                  *)
UsesBreaker == Breaker!Spec

(* ... and every get and set is finished by the thread that began it.  So  *)
(* what is proved of the two objects holds inside the engine.              *)
UsesCache == Cache!Spec

(* Whatever is in the cache, or on its way there, is what some reply for   *)
(* that very key was taken to say: failures, refused keys and exceptions   *)
(* leave no trace, whatever other threads do meanwhile (engine.py:40-47,   *)
(* 59-66).                                                                 *)
CacheProvenance ==
    /\ \A i \in 1..Len(data) : data[i].value \in answered[data[i].key]
    /\ \A t \in At("storing") : call[t].entry.value \in answered[call[t].entry.key]
    /\ \A t \in At("mapped") : answer[t] \in answered[job[t]]

(* An answer that names nobody is gone after negative_cache_ttl, and one   *)
(* that names somebody after cache_ttl, though the replies of overlapping  *)
(* lookups overwrite each other's entries (engine.py:45-46, 64-65).        *)
TtlRespected ==
    \A i \in 1..Len(data) :
        data[i].expiresAt <= now + IF data[i].value = NoMatch THEN NegativeTtl ELSE CacheTtl

(* Every lookup comes back: no state of the breaker and no reply leaves a  *)
(* caller waiting (design spec 2026-06-16, line 249, "call never           *)
(* blocked").                                                              *)
EveryLookupReturns ==
    \A t \in Threads : (pc[t] # "idle") ~> (pc[t] = "idle")

(***************************************************************************)
(* What the documentation says and the code does not do                    *)
(***************************************************************************)
(* exceptions.py:10 and http_client.py:16: a read timeout is a typed       *)
(* exception and feeds the breaker.                                        *)
BrokenReadsFeedBreaker ==
    [][\A t \in Threads : reply[t] = "none" /\ reply'[t] = "broken"
          => failures' = failures + 1]_engineVars

=============================================================================
