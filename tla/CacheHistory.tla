---------------------------- MODULE CacheHistory ----------------------------
(***************************************************************************)
(* The lookup cache together with an observer of the order of its uses:    *)
(* since[k] is the set of keys stored or hit since key k last was.         *)
(***************************************************************************)
EXTENDS TTLCache

VARIABLE since

uvars == <<cacheVars, since>>

WatchInit == since = [k \in Keys |-> {}]

(* The key a thread uses when it gets its lock: that of a set or of a hit. *)
UsesKey(t, k) ==
    \/ call[t].op = "set" /\ k = call[t].entry.key
    \/ call[t].op = "get" /\ k = call[t].key /\ Hits(t)

UsedKeys ==
    {k \in Keys : \E t \in Threads : call[t] # Idle /\ call'[t] = Idle /\ UsesKey(t, k)}

(* What is written down at a step of the cache, as the step shows it.      *)
Watch ==
    since' = [k \in Keys |-> IF k \in UsedKeys THEN {} ELSE since[k] \union UsedKeys]

UInit == Init /\ WatchInit
UNext == Next /\ Watch

USpec == UInit /\ [][UNext]_uvars

(* The observer alone, who keeps nobody from any step (see BreakerHistory).*)
Watching == WatchInit /\ [][cacheVars' # cacheVars /\ Watch]_uvars

(* An answer leaves the cache only when it has expired or when as many     *)
(* other keys as the cache holds were used after it: no interleaving of    *)
(* readers and writers costs a caller in use its entry (cache.py:29-43).   *)
KeepsWhatIsInUse ==
    [][\A k \in KeysOf(data) \ KeysOf(data') :
          \/ EntryOf(data, k).expiresAt <= now
          \/ Cardinality(since'[k]) >= MaxEntries]_uvars

=============================================================================
