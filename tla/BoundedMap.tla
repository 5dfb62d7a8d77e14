----------------------------- MODULE BoundedMap -----------------------------
(***************************************************************************)
(* What the lookup cache promises, without the order of its entries: a map *)
(* that holds at most MaxEntries entries, answers a get with what the last *)
(* set of the key stored unless that had expired, and to take a new key    *)
(* when it is full gives up exactly one other entry, of its own choosing.  *)
(***************************************************************************)
EXTENDS Integers, FiniteSets

CONSTANTS Threads, Keys, Values, MaxEntries, Ttls, Idle

VARIABLES
    stored,      \* a function from the keys held to their entries
    now,
    call         \* the operation each thread is in, with its clock reading

mapVars == <<stored, now, call>>

Init ==
    /\ stored = << >>
    /\ now = 0
    /\ call = [t \in Threads |-> Idle]

Held == DOMAIN stored
Live(k, at) == k \in Held /\ stored[k].expiresAt > at

BeginGet(t, k) ==
    /\ call[t] = Idle
    /\ call' = [call EXCEPT ![t] = [op |-> "get", key |-> k, at |-> now]]
    /\ UNCHANGED <<stored, now>>

BeginSet(t, k, v, ttl) ==
    /\ call[t] = Idle
    /\ ttl > 0
    /\ call' = [call EXCEPT ![t] =
          [op |-> "set", entry |-> [key |-> k, value |-> v, expiresAt |-> now + ttl]]]
    /\ UNCHANGED <<stored, now>>

Hit(t) ==
    /\ call[t] # Idle /\ call[t].op = "get"
    /\ Live(call[t].key, call[t].at)
    /\ call' = [call EXCEPT ![t] = Idle]
    /\ UNCHANGED <<stored, now>>

Miss(t) ==
    /\ call[t] # Idle /\ call[t].op = "get"
    /\ ~Live(call[t].key, call[t].at)
    /\ stored' = [k \in Held \ {call[t].key} |-> stored[k]]
    /\ call' = [call EXCEPT ![t] = Idle]
    /\ UNCHANGED now

Store(t) ==
    /\ call[t] # Idle /\ call[t].op = "set"
    /\ LET e == call[t].entry
           With(kept) == [k \in kept \union {e.key} |-> IF k = e.key THEN e ELSE stored[k]]
       IN  IF e.key \in Held \/ Cardinality(Held) < MaxEntries
           THEN stored' = With(Held)
           ELSE \E victim \in Held : stored' = With(Held \ {victim})
    /\ call' = [call EXCEPT ![t] = Idle]
    /\ UNCHANGED now

MapTick ==
    /\ now' = now + 1
    /\ UNCHANGED <<stored, call>>

Next ==
    \/ \E t \in Threads :
        \/ \E k \in Keys : BeginGet(t, k)
        \/ \E k \in Keys, v \in Values, ttl \in Ttls : BeginSet(t, k, v, ttl)
        \/ Hit(t)
        \/ Miss(t)
        \/ Store(t)
    \/ MapTick

Spec == Init /\ [][Next]_mapVars

=============================================================================
