------------------------------ MODULE TTLCache ------------------------------
(***************************************************************************)
(* The lookup cache of wazo_dird_optimogo/cache.py: one OrderedDict shared *)
(* by the worker threads, oldest entry first, bounded, expiring lazily.    *)
(*                                                                         *)
(* get() and set() both read the clock BEFORE they take the lock, so each  *)
(* is two steps: the first notes the clock in call[t], the second does the *)
(* work under the lock with a reading that may be old by then.             *)
(***************************************************************************)
EXTENDS Integers, Sequences, FiniteSets

CONSTANTS
    Threads, Keys, Values,
    MaxEntries,  \* cache_max_entries, at least 1 (schema.py:25)
    Ttls,        \* the ttl arguments, 0 means do not store
    Idle,        \* a thread outside the cache
    MaxTime      \* bound: the clock stops here

ASSUME CacheAssumption ==
    /\ MaxEntries \in Nat \ {0}
    /\ Ttls \subseteq Nat
    /\ MaxTime \in Nat
    /\ IsFiniteSet(Keys)

Entry == [key : Keys, value : Values, expiresAt : Nat]
Call == [op : {"get"}, key : Keys, at : Nat] \union
        [op : {"set"}, entry : Entry]

ASSUME IdleAssumption == Idle \notin Call

VARIABLES
    data,        \* _data, as the sequence of its entries
    now,         \* what _time() returns
    call         \* what each thread carries from its clock reading to the lock

cacheVars == <<data, now, call>>

KeysOf(s) == {s[i].key : i \in 1..Len(s)}
IndexOf(s, k) == CHOOSE i \in 1..Len(s) : s[i].key = k
EntryOf(s, k) == s[IndexOf(s, k)]

TypeOK ==
    /\ data \in Seq(Entry) /\ Len(data) <= MaxEntries
    /\ \A i, j \in 1..Len(data) : data[i].key = data[j].key => i = j
    /\ now \in Nat
    /\ call \in [Threads -> Call \union {Idle}]

Init ==
    /\ data = <<>>
    /\ now = 0
    /\ call = [t \in Threads |-> Idle]

(***************************************************************************)
(* Operations on the OrderedDict                                           *)
(***************************************************************************)
(* del _data[key], and half of move_to_end                                 *)
Without(s, k) ==
    IF k \in KeysOf(s)
    THEN SubSeq(s, 1, IndexOf(s, k) - 1) \o SubSeq(s, IndexOf(s, k) + 1, Len(s))
    ELSE s

(* Mutated forms of the operators below.                                   *)
KeepNewestOffByOne(s) ==      \* lets one entry too many stay
    IF Len(s) > MaxEntries + 1 THEN SubSeq(s, Len(s) - MaxEntries + 1, Len(s)) ELSE s

AfterHitInPlace(s, k) == s      \* a hit does not count as a use

AfterSetEvictsFirst(s, e) ==      \* makes room before it looks for the key
    Append(Without(IF Len(s) = MaxEntries THEN Tail(s) ELSE s, e.key), e)

(* the while loop of popitem(last=False)                                   *)
KeepNewest(s) ==
    IF Len(s) > MaxEntries THEN SubSeq(s, Len(s) - MaxEntries + 1, Len(s)) ELSE s

(* move_to_end(key)                                                        *)
AfterHit(s, k) == Append(Without(s, k), EntryOf(s, k))

(* _data[key] = (expires_at, value), move_to_end(key), and the while loop  *)
AfterSet(s, e) == KeepNewest(Append(Without(s, e.key), e))

(***************************************************************************)
(* The methods                                                             *)
(***************************************************************************)
GetReadsClock(t, k) ==
    /\ call[t] = Idle
    /\ call' = [call EXCEPT ![t] = [op |-> "get", key |-> k, at |-> now]]
    /\ UNCHANGED <<data, now>>

(* Whether the get in progress will find a live entry.                     *)
Hits(t) ==
    /\ call[t].key \in KeysOf(data)
    /\ EntryOf(data, call[t].key).expiresAt > call[t].at

GetHit(t) ==
    /\ call[t] # Idle /\ call[t].op = "get"
    /\ Hits(t)
    /\ data' = AfterHit(data, call[t].key)
    /\ call' = [call EXCEPT ![t] = Idle]
    /\ UNCHANGED now

(* Nothing there, or an expired entry, which goes.                         *)
GetMiss(t) ==
    /\ call[t] # Idle /\ call[t].op = "get"
    /\ ~Hits(t)
    /\ data' = Without(data, call[t].key)
    /\ call' = [call EXCEPT ![t] = Idle]
    /\ UNCHANGED now

(* ttl <= 0 returns at once and changes nothing.                           *)
SetReadsClock(t, k, v, ttl) ==
    /\ call[t] = Idle
    /\ ttl > 0
    /\ call' = [call EXCEPT ![t] =
          [op |-> "set", entry |-> [key |-> k, value |-> v, expiresAt |-> now + ttl]]]
    /\ UNCHANGED <<data, now>>

SetStores(t) ==
    /\ call[t] # Idle /\ call[t].op = "set"
    /\ data' = AfterSet(data, call[t].entry)
    /\ call' = [call EXCEPT ![t] = Idle]
    /\ UNCHANGED now

CacheTick ==
    /\ now < MaxTime
    /\ now' = now + 1
    /\ UNCHANGED <<data, call>>

Next ==
    \/ \E t \in Threads :
        \/ \E k \in Keys : GetReadsClock(t, k)
        \/ GetHit(t)
        \/ GetMiss(t)
        \/ \E k \in Keys, v \in Values, ttl \in Ttls : SetReadsClock(t, k, v, ttl)
        \/ SetStores(t)
    \/ CacheTick

Spec == Init /\ [][Next]_cacheVars

(***************************************************************************)
(* Properties                                                              *)
(***************************************************************************)
(* The cache as a map without an order (see BoundedMap).                   *)
Map == INSTANCE BoundedMap WITH
    stored <- [k \in KeysOf(data) |-> EntryOf(data, k)]

(* Every get and set answers as the map would: a hit returns what the last *)
(* set of the key stored, a miss means it is gone or had expired when the  *)
(* get read the clock, and nothing disappears but by eviction from a full  *)
(* cache, one entry for one new key (cache.py:22-43).                      *)
ImplementsMap == Map!Spec

=============================================================================
