----------------------------- MODULE CacheProofs -----------------------------
(***************************************************************************)
(* What is proved of TTLCache for any threads, keys, values, ttls and      *)
(* bound: the OrderedDict is a bounded map, implements BoundedMap, and, as *)
(* the observer of CacheHistory sees it, gives up what is oldest in use.   *)
(***************************************************************************)
EXTENDS CacheHistory, FiniteSetTheorems, SequenceTheorems, TLAPS

(***************************************************************************)
(* Sequences of entries with distinct keys                                 *)
(***************************************************************************)
Dict(s) ==
    /\ s \in Seq(Entry)
    /\ \A i, j \in 1..Len(s) : s[i].key = s[j].key => i = j

LEMMA KeyHasIndex ==
  ASSUME NEW s \in Seq(Entry), NEW k \in KeysOf(s)
  PROVE  IndexOf(s, k) \in 1..Len(s) /\ s[IndexOf(s, k)].key = k
<1>1. \E i \in 1..Len(s) : s[i].key = k
  BY DEF KeysOf
<1>2. QED
  BY <1>1 DEF IndexOf

(* The entry of a key is the one element that has it.                      *)
LEMMA EntryAt ==
  ASSUME NEW s, Dict(s), NEW i \in 1..Len(s)
  PROVE  s[i].key \in KeysOf(s) /\ EntryOf(s, s[i].key) = s[i]
<1>1. s[i].key \in KeysOf(s)
  BY DEF KeysOf
<1>2. IndexOf(s, s[i].key) = i
  BY <1>1, KeyHasIndex DEF Dict
<1>3. QED
  BY <1>1, <1>2 DEF EntryOf

LEMMA EntryHasKey ==
  ASSUME NEW s, Dict(s), NEW k \in KeysOf(s)
  PROVE  EntryOf(s, k) \in Entry /\ EntryOf(s, k).key = k
  BY KeyHasIndex DEF Dict, EntryOf

LEMMA KeysAreKeys ==
  ASSUME NEW s \in Seq(Entry)
  PROVE  KeysOf(s) \subseteq Keys
<1>1. \A i \in 1..Len(s) : s[i] \in Entry
  OBVIOUS
<1>2. QED
  BY <1>1 DEF KeysOf, Entry

(* A dict has as many keys as entries.                                     *)
LEMMA KeysCount ==
  ASSUME NEW s, Dict(s)
  PROVE  IsFiniteSet(KeysOf(s)) /\ Cardinality(KeysOf(s)) = Len(s)
<1> DEFINE f == [i \in 1..Len(s) |-> s[i].key]
<1>1. Len(s) \in Nat
  BY DEF Dict
<1>2. IsFiniteSet(1..Len(s)) /\ Cardinality(1..Len(s)) = Len(s)
  <2>1. /\ IsFiniteSet(1..Len(s))
        /\ Cardinality(1..Len(s)) = IF 1 > Len(s) THEN 0 ELSE Len(s) - 1 + 1
    BY <1>1, FS_Interval
  <2>2. QED
    BY <1>1, <2>1
<1>3. f \in Bijection(1..Len(s), KeysOf(s))
  <2>1. f \in [1..Len(s) -> KeysOf(s)]
    BY DEF KeysOf
  <2>2. IsInjective(f)
    BY DEF IsInjective, Dict
  <2>3. f \in Surjection(1..Len(s), KeysOf(s))
    BY <2>1 DEF Surjection, KeysOf
  <2>4. QED
    BY <2>1, <2>2, <2>3 DEF Bijection, Injection
<1>4. ExistsBijection(1..Len(s), KeysOf(s))
  BY <1>3 DEF ExistsBijection
<1>5. QED
  BY <1>2, <1>4, FS_Bijection

(* Where the entries are when a key has been deleted.                      *)
LEMMA WithoutShifts ==
  ASSUME NEW s, Dict(s), NEW k \in KeysOf(s)
  PROVE  LET w == Without(s, k)
             i == IndexOf(s, k)
         IN /\ i \in 1..Len(s) /\ s[i].key = k
            /\ w \in Seq(Entry)
            /\ Len(w) = Len(s) - 1
            /\ \A j \in 1..(Len(s) - 1) : w[j] = IF j < i THEN s[j] ELSE s[j + 1]
<1> DEFINE w == Without(s, k)
           i == IndexOf(s, k)
<1>1. i \in 1..Len(s) /\ s[i].key = k
  BY KeyHasIndex DEF Dict
<1> HIDE DEF i
<1>2. w = SubSeq(s, 1, i - 1) \o SubSeq(s, i + 1, Len(s))
  BY DEF Without, i
<1>3. /\ w \in Seq(Entry)
      /\ Len(w) = Len(s) - 1
      /\ \A j \in 1..(Len(s) - 1) : w[j] = IF j < i THEN s[j] ELSE s[j + 1]
  <2> DEFINE p == SubSeq(s, 1, i - 1)
             q == SubSeq(s, i + 1, Len(s))
  <2>1. p \in Seq(Entry) /\ Len(p) = i - 1 /\ \A j \in 1..(i - 1) : p[j] = s[j]
    BY <1>1 DEF Dict
  <2>2. /\ q \in Seq(Entry) /\ Len(q) = Len(s) - i
        /\ \A j \in 1..(Len(s) - i) : q[j] = s[j + i]
    BY <1>1 DEF Dict
  <2>3. w = p \o q
    BY <1>2
  <2>4. i \in Int /\ Len(s) \in Nat /\ 1 <= i /\ i <= Len(s)
    BY <1>1 DEF Dict
  <2> HIDE DEF p, q, w
  <2>5. /\ w \in Seq(Entry)
        /\ Len(w) = Len(p) + Len(q)
        /\ \A j \in 1..(Len(p) + Len(q)) :
              w[j] = IF j <= Len(p) THEN p[j] ELSE q[j - Len(p)]
    BY <2>1, <2>2, <2>3, ConcatProperties
  <2>6. Len(w) = Len(s) - 1
    BY <2>1, <2>2, <2>4, <2>5
  <2>7. ASSUME NEW j \in 1..(Len(s) - 1)
        PROVE  w[j] = IF j < i THEN s[j] ELSE s[j + 1]
    <3>1. CASE j < i
      <4>1. w[j] = p[j]
        BY <3>1, <2>1, <2>2, <2>4, <2>5
      <4>2. j \in 1..(i - 1)
        BY <3>1, <2>4
      <4>3. QED
        BY <3>1, <4>1, <4>2, <2>1
    <3>2. CASE ~(j < i)
      <4>1. w[j] = q[j - (i - 1)]
        BY <3>2, <2>1, <2>2, <2>4, <2>5
      <4>2. j - (i - 1) \in 1..(Len(s) - i) /\ j - (i - 1) + i = j + 1
        BY <3>2, <2>4
      <4>3. q[j - (i - 1)] = s[j - (i - 1) + i]
        BY <4>2, <2>2
      <4>4. QED
        BY <3>2, <4>1, <4>2, <4>3
    <3>3. QED
      BY <3>1, <3>2
  <2>8. QED
    BY <2>5, <2>6, <2>7
<1>4. QED
  BY <1>1, <1>3 DEF i

(* Deleting a key loses that key and nothing else.                         *)
LEMMA WithoutLosesKey ==
  ASSUME NEW s, Dict(s), NEW k
  PROVE  LET w == Without(s, k) IN
         /\ Dict(w)
         /\ KeysOf(w) = KeysOf(s) \ {k}
         /\ \A q \in KeysOf(w) : EntryOf(w, q) = EntryOf(s, q)
         /\ Len(w) = IF k \in KeysOf(s) THEN Len(s) - 1 ELSE Len(s)
<1> DEFINE w == Without(s, k)
           i == IndexOf(s, k)
<1>1. CASE k \notin KeysOf(s)
  BY <1>1 DEF Without
<1>2. CASE k \in KeysOf(s)
  <2>3. /\ i \in 1..Len(s) /\ s[i].key = k
        /\ w \in Seq(Entry)
        /\ Len(w) = Len(s) - 1
        /\ \A j \in 1..(Len(s) - 1) : w[j] = IF j < i THEN s[j] ELSE s[j + 1]
    BY <1>2, WithoutShifts
  <2>1. i \in 1..Len(s) /\ s[i].key = k
    BY <2>3
  <2> HIDE DEF i
  <2> HIDE DEF w
  <2>4. Dict(w)
    <3> DEFINE at(x) == IF x < i THEN x ELSE x + 1
    <3>1. i \in Int /\ Len(s) \in Nat
      BY <2>1 DEF Dict
    <3>2. ASSUME NEW m \in 1..Len(w)
          PROVE  w[m] = s[at(m)] /\ at(m) \in 1..Len(s)
      <4>1. m \in 1..(Len(s) - 1)
        BY <2>3
      <4>2. at(m) \in 1..Len(s)
        BY <3>1, <4>1
      <4>3. w[m] = s[at(m)]
        BY <2>3, <4>1
      <4>4. QED
        BY <4>2, <4>3
    <3>3. ASSUME NEW m \in 1..Len(w), NEW n \in 1..Len(w), w[m].key = w[n].key
          PROVE  m = n
      <4>1. at(m) = at(n)
        BY <3>2, <3>3 DEF Dict
      <4>2. m \in Int /\ n \in Int
        OBVIOUS
      <4>3. QED
        BY <3>1, <4>1, <4>2
    <3>4. QED
      BY <2>3, <3>3 DEF Dict
  <2>5. KeysOf(w) = KeysOf(s) \ {k}
    <3>1. ASSUME NEW j \in 1..Len(w) PROVE w[j].key \in KeysOf(s) \ {k}
      <4>1. PICK n \in 1..Len(s) : w[j] = s[n] /\ n # i
        BY <2>1, <2>3 DEF Dict
      <4>2. s[n].key # k
        BY <2>1, <4>1 DEF Dict
      <4>3. QED
        BY <4>1, <4>2 DEF KeysOf
    <3>2. ASSUME NEW j \in 1..Len(s), j # i PROVE s[j].key \in KeysOf(w)
      <4>1. CASE j < i
        BY <4>1, <2>1, <2>3 DEF KeysOf, Dict
      <4>2. CASE j > i
        <5>1. j - 1 \in 1..Len(w) /\ w[j - 1] = s[j]
          BY <4>2, <2>1, <2>3 DEF Dict
        <5>2. QED
          BY <5>1 DEF KeysOf
      <4>3. QED
        BY <3>2, <4>1, <4>2, <2>1
    <3>3. QED
      BY <3>1, <3>2, <2>1 DEF KeysOf
  <2>6. ASSUME NEW q \in KeysOf(w) PROVE EntryOf(w, q) = EntryOf(s, q)
    <3>1. PICK j \in 1..Len(w) : w[j].key = q
      BY <2>6 DEF KeysOf
    <3>2. PICK n \in 1..Len(s) : s[n] = w[j]
      BY <2>1, <2>3 DEF Dict
    <3>3. EntryOf(w, q) = w[j] /\ EntryOf(s, q) = s[n]
      BY <3>1, <3>2, <2>4, EntryAt
    <3>4. QED
      BY <3>2, <3>3
  <2>7. QED
    BY <1>2, <2>3, <2>4, <2>5, <2>6 DEF w
<1>3. QED
  BY <1>1, <1>2

(* Storing an entry under a new key adds that entry and nothing else.      *)
LEMMA AppendAddsKey ==
  ASSUME NEW s, Dict(s), NEW e \in Entry, e.key \notin KeysOf(s)
  PROVE  LET a == Append(s, e) IN
         /\ Dict(a)
         /\ KeysOf(a) = KeysOf(s) \union {e.key}
         /\ \A q \in KeysOf(a) :
               EntryOf(a, q) = IF q = e.key THEN e ELSE EntryOf(s, q)
         /\ Len(a) = Len(s) + 1
<1> DEFINE a == Append(s, e)
<1>1. /\ a \in Seq(Entry) /\ Len(a) = Len(s) + 1 /\ a[Len(s) + 1] = e
      /\ \A j \in 1..Len(s) : a[j] = s[j]
      /\ Len(s) \in Nat
  BY DEF Dict
<1> HIDE DEF a
<1>2. Dict(a)
  <2>1. \A j \in 1..Len(s) : a[j].key # e.key
    BY <1>1 DEF KeysOf
  <2>2. QED
    BY <1>1, <2>1 DEF Dict
<1>3. KeysOf(a) = KeysOf(s) \union {e.key}
  <2>1. \A j \in 1..Len(a) : a[j].key \in KeysOf(s) \union {e.key}
    BY <1>1 DEF KeysOf
  <2>2. \A j \in 1..Len(s) : s[j].key \in KeysOf(a)
    BY <1>1 DEF KeysOf
  <2>3. e.key \in KeysOf(a)
    BY <1>1 DEF KeysOf
  <2>4. QED
    BY <2>1, <2>2, <2>3 DEF KeysOf
<1>4. EntryOf(a, e.key) = e
  <2>1. Len(s) + 1 \in 1..Len(a)
    BY <1>1
  <2>2. QED
    BY <2>1, <1>1, <1>2, EntryAt
<1>5. ASSUME NEW q \in KeysOf(s) PROVE EntryOf(a, q) = EntryOf(s, q)
  <2>1. PICK j \in 1..Len(s) : s[j].key = q
    BY <1>5 DEF KeysOf
  <2>2. j \in 1..Len(a) /\ a[j] = s[j]
    BY <1>1
  <2>3. QED
    BY <2>1, <2>2, <1>2, EntryAt
<1>6. QED
  BY <1>1, <1>2, <1>3, <1>4, <1>5 DEF a

LEMMA TailShifts ==
  ASSUME NEW s, Dict(s), Len(s) > 0
  PROVE  LET r == SubSeq(s, 2, Len(s)) IN
         /\ r \in Seq(Entry) /\ Len(r) = Len(s) - 1
         /\ \A j \in 1..(Len(s) - 1) : r[j] = s[j + 1]
         /\ Len(s) \in Nat
<1> DEFINE r == SubSeq(s, 2, Len(s))
<1>1. /\ r \in Seq(Entry) /\ Len(r) = Len(s) - 1
      /\ \A j \in 1..(Len(s) - 1) : r[j] = s[j + 1]
      /\ Len(s) \in Nat
  <2>1. s \in Seq(Entry) /\ Len(s) \in Nat /\ 1 <= Len(s)
    BY DEF Dict
  <2>2. \A j \in 2..Len(s) : s[j] \in Entry
    BY <2>1
  <2>3. /\ r \in Seq(Entry)
        /\ Len(r) = IF 2 <= Len(s) THEN Len(s) - 2 + 1 ELSE 0
        /\ \A j \in 1..(Len(s) - 2 + 1) : r[j] = s[2 + j - 1]
    BY <2>1, <2>2, SubSeqProperties
  <2> HIDE DEF r
  <2>4. Len(r) = Len(s) - 1
    <3>1. CASE 2 <= Len(s)
      BY <3>1, <2>1, <2>3
    <3>2. CASE ~(2 <= Len(s))
      <4>1. Len(s) = 1
        BY <3>2, <2>1
      <4>2. QED
        BY <3>2, <4>1, <2>3
    <3>3. QED
      BY <3>1, <3>2
  <2>5. ASSUME NEW j \in 1..(Len(s) - 1) PROVE r[j] = s[j + 1]
    <3>1. j \in 1..(Len(s) - 2 + 1) /\ 2 + j - 1 = j + 1
      BY <2>1
    <3>2. r[j] = s[2 + j - 1]
      BY <3>1, <2>3
    <3>3. QED
      BY <3>1, <3>2
  <2>6. QED
    BY <2>1, <2>3, <2>4, <2>5
<1>2. QED
  BY <1>1

(* Dropping the oldest entry loses its key and nothing else.               *)
LEMMA TailLosesOldest ==
  ASSUME NEW s, Dict(s), Len(s) > 0
  PROVE  LET r == SubSeq(s, 2, Len(s)) IN
         /\ Dict(r)
         /\ KeysOf(r) = KeysOf(s) \ {s[1].key}
         /\ \A q \in KeysOf(r) : EntryOf(r, q) = EntryOf(s, q)
         /\ Len(r) = Len(s) - 1
<1> DEFINE r == SubSeq(s, 2, Len(s))
<1>1. /\ r \in Seq(Entry) /\ Len(r) = Len(s) - 1
      /\ \A j \in 1..(Len(s) - 1) : r[j] = s[j + 1]
      /\ Len(s) \in Nat
  BY TailShifts
<1> HIDE DEF r
<1>2. Dict(r)
  <2>1. ASSUME NEW m \in 1..Len(r), NEW n \in 1..Len(r), r[m].key = r[n].key
        PROVE  m = n
    <3>1. /\ r[m] = s[m + 1] /\ m + 1 \in 1..Len(s)
          /\ r[n] = s[n + 1] /\ n + 1 \in 1..Len(s)
      BY <1>1
    <3>2. m + 1 = n + 1
      BY <2>1, <3>1 DEF Dict
    <3>3. QED
      BY <3>2
  <2>2. QED
    BY <1>1, <2>1 DEF Dict
<1>3. KeysOf(r) = KeysOf(s) \ {s[1].key}
  <2>1. ASSUME NEW j \in 1..Len(r) PROVE r[j].key \in KeysOf(s) \ {s[1].key}
    <3>1. r[j] = s[j + 1] /\ j + 1 \in 1..Len(s) /\ 1 \in 1..Len(s) /\ j + 1 # 1
      BY <1>1
    <3>2. s[j + 1].key # s[1].key
      BY <3>1 DEF Dict
    <3>3. QED
      BY <3>1, <3>2 DEF KeysOf
  <2>2. ASSUME NEW j \in 1..Len(s), j # 1 PROVE s[j].key \in KeysOf(r)
    <3>1. j - 1 \in 1..Len(r) /\ r[j - 1] = s[j]
      BY <2>2, <1>1
    <3>2. QED
      BY <3>1 DEF KeysOf
  <2>3. QED
    BY <2>1, <2>2 DEF KeysOf
<1>4. ASSUME NEW q \in KeysOf(r) PROVE EntryOf(r, q) = EntryOf(s, q)
  <2>1. PICK j \in 1..Len(r) : r[j].key = q
    BY <1>4 DEF KeysOf
  <2>2. j + 1 \in 1..Len(s) /\ s[j + 1] = r[j]
    BY <1>1
  <2>3. QED
    BY <2>1, <2>2, <1>2, EntryAt
<1>5. QED
  BY <1>1, <1>2, <1>3, <1>4 DEF r

(***************************************************************************)
(* What a hit and a set do to the dict                                     *)
(***************************************************************************)
(* A hit keeps every entry.                                                *)
LEMMA HitKeepsEntries ==
  ASSUME NEW s, Dict(s), NEW k \in KeysOf(s)
  PROVE  LET h == AfterHit(s, k) IN
         /\ Dict(h)
         /\ KeysOf(h) = KeysOf(s)
         /\ \A q \in KeysOf(h) : EntryOf(h, q) = EntryOf(s, q)
         /\ Len(h) = Len(s)
<1> DEFINE w == Without(s, k)
           e == EntryOf(s, k)
<1>1. e \in Entry /\ e.key = k
  BY EntryHasKey
<1>2. /\ Dict(w) /\ KeysOf(w) = KeysOf(s) \ {k} /\ Len(w) = Len(s) - 1
      /\ \A q \in KeysOf(w) : EntryOf(w, q) = EntryOf(s, q)
  BY WithoutLosesKey
<1>3. AfterHit(s, k) = Append(w, e)
  BY DEF AfterHit
<1>4. Len(s) \in Nat
  BY DEF Dict
<1> HIDE DEF w
<1> HIDE DEF e
<1>5. LET a == Append(w, e) IN
      /\ Dict(a) /\ KeysOf(a) = KeysOf(w) \union {e.key} /\ Len(a) = Len(w) + 1
      /\ \A q \in KeysOf(a) : EntryOf(a, q) = IF q = e.key THEN e ELSE EntryOf(w, q)
  BY <1>1, <1>2, AppendAddsKey
<1>6. ASSUME NEW q \in KeysOf(Append(w, e))
      PROVE  EntryOf(Append(w, e), q) = EntryOf(s, q)
  BY <1>1, <1>2, <1>5 DEF e
<1>7. Len(Append(w, e)) = Len(s)
  BY <1>2, <1>4, <1>5
<1>8. QED
  BY <1>1, <1>2, <1>3, <1>5, <1>6, <1>7

(* What a set makes of the keys it keeps.                                  *)
Holds(d, s, e, kept) ==
    /\ Dict(d)
    /\ KeysOf(d) = kept \union {e.key}
    /\ \A q \in KeysOf(d) : EntryOf(d, q) = IF q = e.key THEN e ELSE EntryOf(s, q)
    /\ Len(d) <= MaxEntries

(* A set that finds its key or room keeps every other entry.               *)
LEMMA SetKeepsOthers ==
  ASSUME NEW s, Dict(s), NEW e \in Entry, Len(s) <= MaxEntries,
         e.key \in KeysOf(s) \/ Len(s) < MaxEntries
  PROVE  Holds(AfterSet(s, e), s, e, KeysOf(s))
<1> DEFINE w == Without(s, e.key)
           a == Append(w, e)
<1>1. /\ Dict(w) /\ KeysOf(w) = KeysOf(s) \ {e.key}
      /\ \A q \in KeysOf(w) : EntryOf(w, q) = EntryOf(s, q)
      /\ Len(w) = IF e.key \in KeysOf(s) THEN Len(s) - 1 ELSE Len(s)
  BY WithoutLosesKey
<1>2. Len(s) \in Nat /\ MaxEntries \in Nat
  BY CacheAssumption DEF Dict
<1>3. AfterSet(s, e) = KeepNewest(a)
  BY DEF AfterSet
<1> HIDE DEF w
<1>4. /\ Dict(a) /\ KeysOf(a) = KeysOf(w) \union {e.key} /\ Len(a) = Len(w) + 1
      /\ \A q \in KeysOf(a) : EntryOf(a, q) = IF q = e.key THEN e ELSE EntryOf(w, q)
  BY <1>1, AppendAddsKey
<1> HIDE DEF a
<1>5. Len(a) <= MaxEntries
  BY <1>1, <1>2, <1>4
<1>6. KeepNewest(a) = a
  BY <1>2, <1>4, <1>5 DEF KeepNewest, Dict
<1>7. QED
  BY <1>1, <1>3, <1>4, <1>5, <1>6 DEF Holds

(* A set of a new key into a full dict costs the oldest entry.             *)
LEMMA SetEvictsOldest ==
  ASSUME NEW s, Dict(s), NEW e \in Entry, Len(s) = MaxEntries, e.key \notin KeysOf(s)
  PROVE  /\ s[1].key \in KeysOf(s)
         /\ Holds(AfterSet(s, e), s, e, KeysOf(s) \ {s[1].key})
<1> DEFINE a == Append(s, e)
           r == SubSeq(a, 2, Len(a))
<1>1. Len(s) \in Nat /\ Len(s) > 0 /\ s \in Seq(Entry) /\ MaxEntries \in Nat
  BY CacheAssumption DEF Dict
<1>2. /\ Dict(a) /\ KeysOf(a) = KeysOf(s) \union {e.key} /\ Len(a) = Len(s) + 1
      /\ \A q \in KeysOf(a) : EntryOf(a, q) = IF q = e.key THEN e ELSE EntryOf(s, q)
  BY AppendAddsKey
<1>3. AfterSet(s, e) = KeepNewest(a)
  BY DEF AfterSet, Without
<1>4. a[1] = s[1]
  BY <1>1
<1>5. s[1].key \in KeysOf(s)
  BY <1>1 DEF KeysOf
<1> HIDE DEF a
<1>6. KeepNewest(a) = r
  <2>1. Len(a) > MaxEntries /\ Len(a) - MaxEntries + 1 = 2
    BY <1>1, <1>2
  <2>2. QED
    BY <2>1 DEF KeepNewest
<1>7. /\ Dict(r) /\ KeysOf(r) = KeysOf(a) \ {a[1].key} /\ Len(r) = Len(a) - 1
      /\ \A q \in KeysOf(r) : EntryOf(r, q) = EntryOf(a, q)
  <2>1. Len(a) > 0
    BY <1>1, <1>2
  <2>2. QED
    BY <2>1, <1>2, TailLosesOldest
<1> HIDE DEF r
<1>8. KeysOf(r) = (KeysOf(s) \ {s[1].key}) \union {e.key}
  BY <1>2, <1>4, <1>5, <1>7
<1>9. Len(r) <= MaxEntries
  BY <1>1, <1>2, <1>7
<1>10. QED
  BY <1>2, <1>3, <1>5, <1>6, <1>7, <1>8, <1>9 DEF Holds

(***************************************************************************)
(* The invariant: the dict has distinct keys and is within its bound, and  *)
(* what a thread carries to the lock is a well-formed get or set.          *)
(***************************************************************************)
CacheInv ==
    /\ Dict(data) /\ Len(data) <= MaxEntries
    /\ now \in Nat
    /\ call \in [Threads -> Call \union {Idle}]

LEMMA InvHoldsInitially == Init => CacheInv
<1>1. <<>> \in Seq(Entry) /\ Len(<<>>) = 0
  OBVIOUS
<1>2. QED
  BY <1>1, CacheAssumption DEF Init, CacheInv, Dict

LEMMA GetCall ==
  ASSUME CacheInv, NEW t \in Threads, call[t] # Idle, call[t].op = "get"
  PROVE  call[t].key \in Keys /\ call[t].at \in Nat
  BY DEF CacheInv, Call

LEMMA SetCall ==
  ASSUME CacheInv, NEW t \in Threads, call[t] # Idle, call[t].op = "set"
  PROVE  call[t].entry \in Entry
  BY DEF CacheInv, Call

LEMMA FreedCalls ==
  ASSUME CacheInv, NEW t \in Threads
  PROVE  [call EXCEPT ![t] = Idle] \in [Threads -> Call \union {Idle}]
  BY DEF CacheInv

LEMMA InvIsInductive == CacheInv /\ [Next]_cacheVars => CacheInv'
<1> SUFFICES ASSUME CacheInv, [Next]_cacheVars PROVE CacheInv'
  OBVIOUS
<1>1. ASSUME NEW t \in Threads, NEW k \in Keys, GetReadsClock(t, k) PROVE CacheInv'
  <2>1. [op |-> "get", key |-> k, at |-> now] \in Call
    BY DEF Call, CacheInv
  <2>2. QED
    BY <1>1, <2>1 DEF GetReadsClock, CacheInv, Dict
<1>2. ASSUME NEW t \in Threads, GetHit(t) PROVE CacheInv'
  <2>1. call[t].key \in KeysOf(data)
    BY <1>2 DEF GetHit, Hits
  <2>2. Dict(data') /\ Len(data') <= MaxEntries
    BY <1>2, <2>1, HitKeepsEntries DEF GetHit, CacheInv
  <2>3. QED
    BY <1>2, <2>2, FreedCalls DEF GetHit, CacheInv, Dict
<1>3. ASSUME NEW t \in Threads, GetMiss(t) PROVE CacheInv'
  <2>1. Dict(data') /\ Len(data') = IF call[t].key \in KeysOf(data) THEN Len(data) - 1 ELSE Len(data)
    BY <1>3, WithoutLosesKey DEF GetMiss, CacheInv
  <2>2. Len(data') <= MaxEntries
    BY <2>1, CacheAssumption DEF CacheInv, Dict
  <2>3. QED
    BY <1>3, <2>1, <2>2, FreedCalls DEF GetMiss, CacheInv, Dict
<1>4. ASSUME NEW t \in Threads, NEW k \in Keys, NEW v \in Values, NEW ttl \in Ttls,
             SetReadsClock(t, k, v, ttl)
      PROVE  CacheInv'
  <2>1. now + ttl \in Nat
    BY CacheAssumption DEF CacheInv
  <2>2. [op |-> "set", entry |-> [key |-> k, value |-> v, expiresAt |-> now + ttl]] \in Call
    BY <2>1 DEF Call, Entry
  <2>3. QED
    BY <1>4, <2>2 DEF SetReadsClock, CacheInv, Dict
<1>5. ASSUME NEW t \in Threads, SetStores(t) PROVE CacheInv'
  <2>1. call[t].entry \in Entry
    BY <1>5, SetCall DEF SetStores
  <2>2. data' = AfterSet(data, call[t].entry)
    BY <1>5 DEF SetStores
  <2>3. Len(data) \in Nat /\ MaxEntries \in Nat /\ Len(data) <= MaxEntries /\ Dict(data)
    BY CacheAssumption DEF CacheInv, Dict
  <2>4. CASE call[t].entry.key \in KeysOf(data) \/ Len(data) < MaxEntries
    <3>1. Dict(data') /\ Len(data') <= MaxEntries
      BY <2>1, <2>2, <2>3, <2>4, SetKeepsOthers DEF Holds
    <3>2. QED
      BY <1>5, <3>1, FreedCalls DEF SetStores, CacheInv, Dict
  <2>5. CASE call[t].entry.key \notin KeysOf(data) /\ Len(data) = MaxEntries
    <3>1. Dict(data') /\ Len(data') <= MaxEntries
      BY <2>1, <2>2, <2>3, <2>5, SetEvictsOldest DEF Holds
    <3>2. QED
      BY <1>5, <3>1, FreedCalls DEF SetStores, CacheInv, Dict
  <2>6. QED
    BY <2>3, <2>4, <2>5
<1>6. CASE CacheTick
  BY <1>6 DEF CacheTick, CacheInv, Dict
<1>7. CASE UNCHANGED cacheVars
  BY <1>7 DEF cacheVars, CacheInv, Dict
<1>8. QED
  BY <1>1, <1>2, <1>3, <1>4, <1>5, <1>6, <1>7 DEF Next

THEOREM InvHolds == Spec => []CacheInv
<1>1. Init => CacheInv
  BY InvHoldsInitially
<1>2. CacheInv /\ [Next]_cacheVars => CacheInv'
  BY InvIsInductive
<1>3. QED
  BY <1>1, <1>2, PTL DEF Spec

(* The cache never exceeds its bound and never holds two entries of one    *)
(* key, whatever the interleaving of gets and sets (cache.py:29-43).       *)
THEOREM BoundIsKept == Spec => []TypeOK
<1>1. CacheInv => TypeOK
  BY DEF CacheInv, Dict, TypeOK
<1>2. QED
  BY <1>1, InvHolds, PTL

(* Whatever a step leaves in the cache was there before or is what some    *)
(* thread came to store.                                                   *)
LEMMA EntriesAreStored ==
  ASSUME CacheInv, [Next]_cacheVars, NEW i \in 1..Len(data')
  PROVE  \/ \E j \in 1..Len(data) : data'[i] = data[j]
         \/ \E t \in Threads : call[t] # Idle /\ call[t].op = "set" /\ data'[i] = call[t].entry
<1>1. Dict(data')
  BY InvIsInductive DEF CacheInv
<1>2. data'[i].key \in KeysOf(data') /\ EntryOf(data', data'[i].key) = data'[i]
  BY <1>1, EntryAt
<1>3. ASSUME NEW q \in KeysOf(data) PROVE \E j \in 1..Len(data) : EntryOf(data, q) = data[j]
  BY KeyHasIndex DEF EntryOf, CacheInv, Dict
<1>4. CASE UNCHANGED data
  BY <1>4
<1>5. ASSUME NEW t \in Threads, GetHit(t) PROVE \E j \in 1..Len(data) : data'[i] = data[j]
  <2>1. call[t].key \in KeysOf(data)
    BY <1>5 DEF GetHit, Hits
  <2>2. /\ KeysOf(data') = KeysOf(data)
        /\ \A q \in KeysOf(data') : EntryOf(data', q) = EntryOf(data, q)
    BY <1>5, <2>1, HitKeepsEntries DEF GetHit, CacheInv
  <2>3. QED
    BY <1>2, <1>3, <2>2
<1>6. ASSUME NEW t \in Threads, GetMiss(t) PROVE \E j \in 1..Len(data) : data'[i] = data[j]
  <2>1. /\ KeysOf(data') = KeysOf(data) \ {call[t].key}
        /\ \A q \in KeysOf(data') : EntryOf(data', q) = EntryOf(data, q)
    BY <1>6, WithoutLosesKey DEF GetMiss, CacheInv
  <2>2. QED
    BY <1>2, <1>3, <2>1
<1>7. ASSUME NEW t \in Threads, SetStores(t)
      PROVE  data'[i] = call[t].entry \/ \E j \in 1..Len(data) : data'[i] = data[j]
  <2> DEFINE e == call[t].entry
  <2>1. e \in Entry /\ Dict(data) /\ Len(data) <= MaxEntries /\ Len(data) \in Nat
        /\ MaxEntries \in Nat /\ data' = AfterSet(data, e)
    BY <1>7, SetCall, CacheAssumption DEF SetStores, CacheInv, Dict
  <2>2. PICK kept \in SUBSET KeysOf(data) : Holds(data', data, e, kept)
    <3>1. CASE e.key \in KeysOf(data) \/ Len(data) < MaxEntries
      BY <2>1, <3>1, SetKeepsOthers
    <3>2. CASE e.key \notin KeysOf(data) /\ Len(data) = MaxEntries
      BY <2>1, <3>2, SetEvictsOldest
    <3>3. QED
      BY <2>1, <3>1, <3>2
  <2>3. data'[i] = e \/ (data'[i].key \in kept /\ data'[i] = EntryOf(data, data'[i].key))
    BY <1>2, <2>2 DEF Holds
  <2>4. QED
    BY <1>3, <2>3
<1>8. QED
  BY <1>4, <1>5, <1>6, <1>7
     DEF Next, GetReadsClock, SetReadsClock, SetStores, CacheTick, cacheVars

(***************************************************************************)
(* The refinement: forgetting the order turns the dict into the map of     *)
(* BoundedMap, and each method into the operation of the same name.        *)
(***************************************************************************)
AsMap(s) == [k \in KeysOf(s) |-> EntryOf(s, k)]

LEMMA InitialMap == Init => Map!Init
<1> SUFFICES ASSUME Init PROVE Map!Init
  OBVIOUS
<1>1. KeysOf(data) = {}
  BY DEF Init, KeysOf
<1>2. [k \in KeysOf(data) |-> EntryOf(data, k)] = << >>
  BY <1>1
<1>3. QED
  BY <1>2 DEF Init, Map!Init

LEMMA StepMapsToStep == CacheInv /\ [Next]_cacheVars => [Map!Next]_(Map!mapVars)
<1> SUFFICES ASSUME CacheInv, [Next]_cacheVars PROVE [Map!Next]_(Map!mapVars)
  OBVIOUS
<1> USE DEF Map!Next, Map!mapVars
<1>0. AsMap(data)' = AsMap(data') /\ Map!Held = KeysOf(data)
  BY DEF AsMap, Map!Held
<1>card. \A S : Map!Cardinality(S) = Cardinality(S)
  BY DEF Map!Cardinality, Cardinality, Map!IsFiniteSet, IsFiniteSet
<1>1. ASSUME NEW t \in Threads, NEW k \in Keys, GetReadsClock(t, k)
      PROVE  Map!BeginGet(t, k)
  BY <1>1 DEF GetReadsClock, Map!BeginGet, KeysOf, EntryOf, IndexOf
<1>2. ASSUME NEW t \in Threads, GetHit(t) PROVE Map!Hit(t)
  <2>1. call[t].key \in KeysOf(data) /\ EntryOf(data, call[t].key).expiresAt > call[t].at
    BY <1>2 DEF GetHit, Hits
  <2>2. AsMap(data') = AsMap(data)
    BY <1>2, <2>1, HitKeepsEntries DEF GetHit, CacheInv, AsMap
  <2>3. Map!Live(call[t].key, call[t].at)
    BY <2>1 DEF Map!Live, Map!Held
  <2>4. QED
    BY <1>2, <2>2, <2>3 DEF GetHit, Map!Hit, AsMap
<1>3. ASSUME NEW t \in Threads, GetMiss(t) PROVE Map!Miss(t)
  <2>1. ~Map!Live(call[t].key, call[t].at)
    BY <1>3 DEF GetMiss, Hits, Map!Live, Map!Held
  <2>2. /\ KeysOf(data') = KeysOf(data) \ {call[t].key}
        /\ \A q \in KeysOf(data') : EntryOf(data', q) = EntryOf(data, q)
    BY <1>3, WithoutLosesKey DEF GetMiss, CacheInv
  <2>3. AsMap(data') = [k \in KeysOf(data) \ {call[t].key} |-> AsMap(data)[k]]
    BY <2>2 DEF AsMap
  <2>4. QED
    BY <1>3, <2>1, <2>3 DEF GetMiss, Map!Miss, Map!Held, AsMap
<1>4. ASSUME NEW t \in Threads, NEW k \in Keys, NEW v \in Values, NEW ttl \in Ttls,
             SetReadsClock(t, k, v, ttl)
      PROVE  Map!BeginSet(t, k, v, ttl)
  BY <1>4 DEF SetReadsClock, Map!BeginSet, KeysOf, EntryOf, IndexOf
<1>5. ASSUME NEW t \in Threads, SetStores(t) PROVE Map!Store(t)
  <2> DEFINE e == call[t].entry
             With(kept) == [k \in kept \union {e.key} |->
                              IF k = e.key THEN e ELSE AsMap(data)[k]]
  <2>1. e \in Entry /\ Dict(data) /\ Len(data) <= MaxEntries
    BY <1>5, SetCall DEF SetStores, CacheInv
  <2>2. data' = AfterSet(data, e)
    BY <1>5 DEF SetStores
  <2>3. Cardinality(KeysOf(data)) = Len(data) /\ Len(data) \in Nat /\ MaxEntries \in Nat
    BY <2>1, KeysCount, CacheAssumption DEF Dict
  <2>4. ASSUME NEW kept \in SUBSET KeysOf(data), Holds(data', data, e, kept)
        PROVE  AsMap(data') = With(kept)
    BY <2>4 DEF Holds, AsMap
  <2>8. /\ call[t] # Idle /\ call[t].op = "set"
        /\ IF e.key \in KeysOf(data) \/ Cardinality(KeysOf(data)) < MaxEntries
           THEN AsMap(data') = With(KeysOf(data))
           ELSE \E victim \in KeysOf(data) : AsMap(data') = With(KeysOf(data) \ {victim})
        /\ call' = [call EXCEPT ![t] = Idle]
        /\ UNCHANGED now
        => Map!Store(t)
    BY <1>0, <1>card DEF Map!Store, AsMap
  <2> HIDE DEF With
  <2>5. CASE e.key \in KeysOf(data) \/ Len(data) < MaxEntries
    <3>1. AsMap(data') = With(KeysOf(data))
      BY <2>1, <2>2, <2>4, <2>5, SetKeepsOthers
    <3>2. QED
      BY <1>5, <2>3, <2>5, <2>8, <3>1 DEF SetStores
  <2>6. CASE e.key \notin KeysOf(data) /\ Len(data) = MaxEntries
    <3>1. /\ data[1].key \in KeysOf(data)
          /\ AsMap(data') = With(KeysOf(data) \ {data[1].key})
      BY <2>1, <2>2, <2>4, <2>6, SetEvictsOldest
    <3>2. ~(e.key \in KeysOf(data) \/ Cardinality(KeysOf(data)) < MaxEntries)
      BY <2>3, <2>6
    <3>3. \E victim \in KeysOf(data) : AsMap(data') = With(KeysOf(data) \ {victim})
      BY <3>1
    <3>4. QED
      BY <1>5, <2>8, <3>2, <3>3 DEF SetStores
  <2>7. QED
    BY <2>1, <2>3, <2>5, <2>6
<1>6. CASE CacheTick
  BY <1>6 DEF CacheTick, Map!MapTick, KeysOf, EntryOf, IndexOf
<1>7. CASE UNCHANGED cacheVars
  BY <1>7 DEF cacheVars, KeysOf, EntryOf, IndexOf
<1>8. QED
  BY <1>1, <1>2, <1>3, <1>4, <1>5, <1>6, <1>7 DEF Next

(* The OrderedDict answers every get and set as an unordered bounded map   *)
(* would: a hit is what the last set of its key stored, a miss was missing *)
(* or expired, and only a new key in a full cache costs another its entry, *)
(* exactly one (cache.py:22-43).                                           *)
THEOREM CacheImplementsMap == Spec => ImplementsMap
<1>1. Init => Map!Init
  BY InitialMap
<1>2. CacheInv /\ [Next]_cacheVars => [Map!Next]_(Map!mapVars)
  BY StepMapsToStep
<1>3. QED
  BY <1>1, <1>2, InvHolds, PTL DEF Spec, ImplementsMap, Map!Spec

(***************************************************************************)
(* What is evicted                                                         *)
(***************************************************************************)
(* Key a comes before key b.                                               *)
Before(s, a, b) ==
    \E i, j \in 1..Len(s) : i < j /\ s[i].key = a /\ s[j].key = b

LEMMA WithoutKeepsOrder ==
  ASSUME NEW s, Dict(s), NEW k, NEW a, NEW b, Before(Without(s, k), a, b)
  PROVE  Before(s, a, b)
<1>1. CASE k \notin KeysOf(s)
  BY <1>1 DEF Without
<1>2. CASE k \in KeysOf(s)
  <2> DEFINE w == Without(s, k)
             n == IndexOf(s, k)
             at(x) == IF x < n THEN x ELSE x + 1
  <2>1. /\ n \in 1..Len(s) /\ Len(w) = Len(s) - 1
        /\ \A j \in 1..(Len(s) - 1) : w[j] = IF j < n THEN s[j] ELSE s[j + 1]
    BY <1>2, WithoutShifts
  <2>2. Len(s) \in Nat
    BY DEF Dict
  <2>3. PICK i, j \in 1..Len(w) : i < j /\ w[i].key = a /\ w[j].key = b
    BY DEF Before
  <2> HIDE DEF w, n
  <2>4. at(i) \in 1..Len(s) /\ at(j) \in 1..Len(s) /\ at(i) < at(j)
    BY <2>1, <2>2, <2>3
  <2>5. i \in 1..(Len(s) - 1) /\ j \in 1..(Len(s) - 1)
    BY <2>1, <2>3
  <2>6. w[i] = s[at(i)] /\ w[j] = s[at(j)]
    BY <2>1, <2>5
  <2>7. QED
    BY <2>3, <2>4, <2>6 DEF Before
<1>3. QED
  BY <1>1, <1>2

LEMMA AppendComesLast ==
  ASSUME NEW s, Dict(s), NEW e, NEW a, NEW b, Before(Append(s, e), a, b)
  PROVE  Before(s, a, b) \/ (a \in KeysOf(s) /\ b = e.key)
<1> DEFINE l == Append(s, e)
<1>1. Len(s) \in Nat /\ s \in Seq(Entry)
  BY DEF Dict
<1>2. /\ Len(l) = Len(s) + 1 /\ l[Len(s) + 1] = e
      /\ \A j \in 1..Len(s) : l[j] = s[j]
  BY <1>1
<1>3. PICK i, j \in 1..Len(l) : i < j /\ l[i].key = a /\ l[j].key = b
  BY DEF Before
<1> HIDE DEF l
<1>4. i \in 1..Len(s)
  BY <1>1, <1>2, <1>3
<1>5. CASE j \in 1..Len(s)
  BY <1>2, <1>3, <1>4, <1>5 DEF Before
<1>6. CASE j = Len(s) + 1
  BY <1>2, <1>3, <1>4, <1>6 DEF KeysOf
<1>7. QED
  BY <1>1, <1>2, <1>5, <1>6

LEMMA TailKeepsOrder ==
  ASSUME NEW s, Dict(s), Len(s) > 0, NEW a, NEW b, Before(SubSeq(s, 2, Len(s)), a, b)
  PROVE  Before(s, a, b)
<1> DEFINE r == SubSeq(s, 2, Len(s))
<1>1. /\ Len(r) = Len(s) - 1 /\ Len(s) \in Nat
      /\ \A j \in 1..(Len(s) - 1) : r[j] = s[j + 1]
  BY TailShifts
<1>2. PICK i, j \in 1..Len(r) : i < j /\ r[i].key = a /\ r[j].key = b
  BY DEF Before
<1> HIDE DEF r
<1>3. i + 1 \in 1..Len(s) /\ j + 1 \in 1..Len(s) /\ i + 1 < j + 1
  BY <1>1, <1>2
<1>4. r[i] = s[i + 1] /\ r[j] = s[j + 1]
  BY <1>1, <1>2
<1>5. QED
  BY <1>2, <1>3, <1>4 DEF Before

(* A set leaves the others in their order and puts its key behind them.    *)
LEMMA SetComesLast ==
  ASSUME NEW s, Dict(s), Len(s) <= MaxEntries, NEW e \in Entry,
         NEW a, NEW b, Before(AfterSet(s, e), a, b)
  PROVE  \/ Before(s, a, b) /\ a # e.key
         \/ a \in KeysOf(s) /\ a # e.key /\ b = e.key
<1> DEFINE w == Without(s, e.key)
           l == Append(w, e)
<1>1. /\ Dict(w) /\ KeysOf(w) = KeysOf(s) \ {e.key}
      /\ Len(w) = IF e.key \in KeysOf(s) THEN Len(s) - 1 ELSE Len(s)
  BY WithoutLosesKey
<1>2. Dict(l) /\ Len(l) = Len(w) + 1
  BY <1>1, AppendAddsKey
<1>3. Len(s) \in Nat /\ MaxEntries \in Nat
  BY CacheAssumption DEF Dict
<1>4. AfterSet(s, e) = KeepNewest(l)
  BY DEF AfterSet
<1>5. ASSUME NEW x, NEW y, Before(w, x, y) PROVE x \in KeysOf(w)
  BY <1>5 DEF Before, KeysOf
<1>6. Before(w, a, b) => Before(s, a, b)
  BY WithoutKeepsOrder
<1>7. Before(l, a, b) => Before(w, a, b) \/ (a \in KeysOf(w) /\ b = e.key)
  BY <1>1, AppendComesLast
<1> HIDE DEF w, l
<1>8. Before(l, a, b)
  <2>1. CASE Len(l) <= MaxEntries
    <3>1. KeepNewest(l) = l
      BY <1>2, <1>3, <2>1 DEF KeepNewest, Dict
    <3>2. QED
      BY <1>4, <3>1
  <2>2. CASE Len(l) > MaxEntries
    <3>1. Len(l) - MaxEntries + 1 = 2 /\ Len(l) > 0
      BY <1>1, <1>2, <1>3, <2>2
    <3>2. KeepNewest(l) = SubSeq(l, 2, Len(l))
      BY <2>2, <3>1 DEF KeepNewest
    <3>3. QED
      BY <1>2, <1>4, <3>1, <3>2, TailKeepsOrder
  <2>3. QED
    BY <1>1, <1>2, <1>3, <2>1, <2>2
<1>9. QED
  BY <1>1, <1>5, <1>6, <1>7, <1>8

(***************************************************************************)
(* The observer of uses only watches: a cache that is watched behaves as   *)
(* USpec says, so what follows holds of every cache of which Spec holds.   *)
(***************************************************************************)
THEOREM WatchedCache == Spec /\ Watching => USpec
<1>1. Init /\ WatchInit => UInit
  BY DEF UInit
<1>2. [Next]_cacheVars /\ [cacheVars' # cacheVars /\ Watch]_uvars => [UNext]_uvars
  BY DEF UNext, uvars
<1>3. QED
  BY <1>1, <1>2, PTL DEF Spec, USpec, Watching

(* What is written down at each kind of step.                              *)
Used(key) ==
    since' = [k \in Keys |-> IF k = key THEN {} ELSE since[k] \union {key}]

UGetReadsClock(t, k) == GetReadsClock(t, k) /\ UNCHANGED since
USetReadsClock(t, k, v, ttl) == SetReadsClock(t, k, v, ttl) /\ UNCHANGED since
UGetHit(t) == GetHit(t) /\ Used(call[t].key)
UGetMiss(t) == GetMiss(t) /\ UNCHANGED since
USetStores(t) == SetStores(t) /\ Used(call[t].entry.key)
UTick == CacheTick /\ UNCHANGED since

LEMMA WatchedSteps ==
  ASSUME CacheInv, since \in [Keys -> SUBSET Keys], UNext
  PROVE  \/ \E t \in Threads :
              \/ \E k \in Keys : UGetReadsClock(t, k)
              \/ UGetHit(t)
              \/ UGetMiss(t)
              \/ \E k \in Keys, v \in Values, ttl \in Ttls : USetReadsClock(t, k, v, ttl)
              \/ USetStores(t)
         \/ UTick
<1>1. Next /\ Watch
  BY DEF UNext
<1>2. ASSUME UsedKeys = {} PROVE since' = since
  BY <1>1, <1>2 DEF Watch
<1>3. ASSUME NEW k \in Keys, UsedKeys = {k} PROVE Used(k)
  BY <1>1, <1>3 DEF Watch, Used
<1>4. ASSUME NEW t \in Threads, call[t] = Idle, NEW c, call' = [call EXCEPT ![t] = c]
      PROVE  UsedKeys = {}
  BY <1>4 DEF UsedKeys, CacheInv
<1>5. ASSUME NEW t \in Threads, call[t] # Idle, call' = [call EXCEPT ![t] = Idle], NEW k \in Keys
      PROVE  k \in UsedKeys <=> UsesKey(t, k)
  <2>1. \A u \in Threads : (call[u] # Idle /\ call'[u] = Idle) <=> u = t
    BY <1>5 DEF CacheInv
  <2>2. QED
    BY <1>5, <2>1 DEF UsedKeys
<1>6. UsedKeys \subseteq Keys
  BY DEF UsedKeys
<1>7. ASSUME NEW t \in Threads, NEW k \in Keys, GetReadsClock(t, k) PROVE UGetReadsClock(t, k)
  BY <1>2, <1>4, <1>7 DEF GetReadsClock, UGetReadsClock
<1>8. ASSUME NEW t \in Threads, NEW k \in Keys, NEW v \in Values, NEW ttl \in Ttls,
             SetReadsClock(t, k, v, ttl)
      PROVE  USetReadsClock(t, k, v, ttl)
  BY <1>2, <1>4, <1>8 DEF SetReadsClock, USetReadsClock
<1>9. ASSUME NEW t \in Threads, GetHit(t) PROVE UGetHit(t)
  <2>1. call[t] # Idle /\ call[t].op = "get" /\ Hits(t) /\ call' = [call EXCEPT ![t] = Idle]
    BY <1>9 DEF GetHit
  <2>2. call[t].key \in Keys
    BY <2>1, GetCall
  <2>3. \A k \in Keys : UsesKey(t, k) <=> k = call[t].key
    BY <2>1 DEF UsesKey
  <2>4. UsedKeys = {call[t].key}
    BY <1>5, <1>6, <2>1, <2>2, <2>3
  <2>5. QED
    BY <1>3, <1>9, <2>2, <2>4 DEF UGetHit
<1>10. ASSUME NEW t \in Threads, GetMiss(t) PROVE UGetMiss(t)
  <2>1. call[t] # Idle /\ call[t].op = "get" /\ ~Hits(t) /\ call' = [call EXCEPT ![t] = Idle]
    BY <1>10 DEF GetMiss
  <2>2. \A k \in Keys : ~UsesKey(t, k)
    BY <2>1 DEF UsesKey
  <2>3. UsedKeys = {}
    BY <1>5, <1>6, <2>1, <2>2
  <2>4. QED
    BY <1>2, <1>10, <2>3 DEF UGetMiss
<1>11. ASSUME NEW t \in Threads, SetStores(t) PROVE USetStores(t)
  <2>1. call[t] # Idle /\ call[t].op = "set" /\ call' = [call EXCEPT ![t] = Idle]
    BY <1>11 DEF SetStores
  <2>2. call[t].entry.key \in Keys
    BY <2>1, SetCall DEF Entry
  <2>3. \A k \in Keys : UsesKey(t, k) <=> k = call[t].entry.key
    BY <2>1 DEF UsesKey
  <2>4. UsedKeys = {call[t].entry.key}
    BY <1>5, <1>6, <2>1, <2>2, <2>3
  <2>5. QED
    BY <1>3, <1>11, <2>2, <2>4 DEF USetStores
<1>12. CASE CacheTick
  BY <1>2, <1>12 DEF CacheTick, UTick, UsedKeys
<1>13. QED
  BY <1>1, <1>7, <1>8, <1>9, <1>10, <1>11, <1>12 DEF Next

(* The order of the entries is that of their last uses, and a get compares *)
(* with a time that has come.                                              *)
UseInv ==
    /\ CacheInv
    /\ since \in [Keys -> SUBSET Keys]
    /\ \A a, b \in Keys : Before(data, a, b) => b \in since[a]
    /\ \A t \in Threads : call[t] # Idle /\ call[t].op = "get" => call[t].at <= now

LEMMA UseInit == UInit => UseInv
<1>1. UInit => CacheInv
  BY InvHoldsInitially DEF UInit
<1>2. QED
  BY <1>1 DEF UInit, WatchInit, Init, UseInv, Before

(* When k has been used it may be behind every other key, and no key is    *)
(* required behind it.                                                     *)
LEMMA UsedLast ==
  ASSUME UseInv, NEW k \in Keys, Used(k), NEW a \in Keys, NEW b \in Keys,
         (Before(data, a, b) /\ a # k) \/ (a # k /\ b = k)
  PROVE  b \in since'[a]
  BY DEF UseInv, Used

LEMMA ObserverIsTyped ==
  ASSUME UseInv, NEW k \in Keys, Used(k)
  PROVE  since' \in [Keys -> SUBSET Keys]
  BY DEF UseInv, Used

LEMMA UseInductive == UseInv /\ [UNext]_uvars => UseInv'
<1> SUFFICES ASSUME UseInv, [UNext]_uvars PROVE UseInv'
  OBVIOUS
<1>1. CacheInv'
  <2>1. [Next]_cacheVars
    BY DEF UNext, uvars
  <2>2. QED
    BY <2>1, InvIsInductive DEF UseInv
<1>2. Dict(data) /\ Len(data) <= MaxEntries /\ now \in Nat
  BY DEF UseInv, CacheInv
<1>3. ASSUME NEW t \in Threads, NEW k \in Keys, UGetReadsClock(t, k) PROVE UseInv'
  <2>1. \A u \in Threads : call'[u] # Idle /\ call'[u].op = "get" => call'[u].at <= now'
    BY <1>2, <1>3 DEF UGetReadsClock, GetReadsClock, UseInv, CacheInv
  <2>2. QED
    BY <1>1, <1>3, <2>1 DEF UGetReadsClock, GetReadsClock, UseInv
<1>4. ASSUME NEW t \in Threads, UGetHit(t) PROVE UseInv'
  <2> DEFINE k == call[t].key
             w == Without(data, k)
  <2>1. k \in Keys /\ k \in KeysOf(data) /\ data' = Append(w, EntryOf(data, k)) /\ Used(k)
    BY <1>4, GetCall DEF UGetHit, GetHit, Hits, AfterHit, UseInv
  <2>2. Dict(w) /\ KeysOf(w) = KeysOf(data) \ {k}
    BY <1>2, WithoutLosesKey
  <2>3. EntryOf(data, k).key = k
    BY <1>2, <2>1, EntryHasKey
  <2>4. ASSUME NEW a \in Keys, NEW b \in Keys, Before(data', a, b) PROVE b \in since'[a]
    <3>1. Before(w, a, b) \/ (a \in KeysOf(w) /\ b = k)
      BY <2>1, <2>2, <2>3, <2>4, AppendComesLast
    <3>2. a \in KeysOf(w)
      BY <3>1 DEF Before, KeysOf
    <3>3. Before(w, a, b) => Before(data, a, b)
      BY <1>2, WithoutKeepsOrder
    <3>4. QED
      BY <2>1, <2>2, <3>1, <3>2, <3>3, UsedLast
  <2>5. \A u \in Threads : call'[u] # Idle /\ call'[u].op = "get" => call'[u].at <= now'
    BY <1>4 DEF UGetHit, GetHit, UseInv, CacheInv
  <2>6. QED
    BY <1>1, <2>1, <2>4, <2>5, ObserverIsTyped DEF UseInv
<1>5. ASSUME NEW t \in Threads, UGetMiss(t) PROVE UseInv'
  <2>1. data' = Without(data, call[t].key) /\ since' = since
    BY <1>5 DEF UGetMiss, GetMiss
  <2>2. \A a, b \in Keys : Before(data', a, b) => b \in since'[a]
    BY <1>2, <2>1, WithoutKeepsOrder DEF UseInv
  <2>3. \A u \in Threads : call'[u] # Idle /\ call'[u].op = "get" => call'[u].at <= now'
    BY <1>5 DEF UGetMiss, GetMiss, UseInv, CacheInv
  <2>4. QED
    BY <1>1, <2>1, <2>2, <2>3 DEF UseInv
<1>6. ASSUME NEW t \in Threads, NEW k \in Keys, NEW v \in Values, NEW ttl \in Ttls,
             USetReadsClock(t, k, v, ttl)
      PROVE  UseInv'
  <2>1. \A u \in Threads : call'[u] # Idle /\ call'[u].op = "get" => call'[u].at <= now'
    BY <1>6 DEF USetReadsClock, SetReadsClock, UseInv, CacheInv
  <2>2. QED
    BY <1>1, <1>6, <2>1 DEF USetReadsClock, SetReadsClock, UseInv
<1>7. ASSUME NEW t \in Threads, USetStores(t) PROVE UseInv'
  <2> DEFINE e == call[t].entry
  <2>1. e \in Entry /\ e.key \in Keys /\ data' = AfterSet(data, e) /\ Used(e.key)
    BY <1>7, SetCall DEF USetStores, SetStores, UseInv, Entry
  <2>2. ASSUME NEW a \in Keys, NEW b \in Keys, Before(data', a, b) PROVE b \in since'[a]
    <3>1. \/ Before(data, a, b) /\ a # e.key
          \/ a \in KeysOf(data) /\ a # e.key /\ b = e.key
      BY <1>2, <2>1, <2>2, SetComesLast
    <3>2. QED
      BY <2>1, <3>1, UsedLast
  <2>3. \A u \in Threads : call'[u] # Idle /\ call'[u].op = "get" => call'[u].at <= now'
    BY <1>7 DEF USetStores, SetStores, UseInv, CacheInv
  <2>4. QED
    BY <1>1, <2>1, <2>2, <2>3, ObserverIsTyped DEF UseInv
<1>8. CASE UTick
  <2>1. \A u \in Threads : call'[u] # Idle /\ call'[u].op = "get" => call'[u].at <= now'
    <3>1. ASSUME NEW u \in Threads, call[u] # Idle, call[u].op = "get" PROVE call[u].at <= now + 1
      <4>1. call[u].at \in Nat /\ call[u].at <= now
        BY <3>1, GetCall DEF UseInv
      <4>2. QED
        BY <1>2, <4>1
    <3>2. QED
      BY <1>8, <3>1 DEF UTick, CacheTick
  <2>2. QED
    BY <1>1, <1>8, <2>1 DEF UTick, CacheTick, UseInv
<1>9. CASE UNCHANGED uvars
  BY <1>1, <1>9 DEF uvars, cacheVars, UseInv
<1>10. QED
  BY <1>3, <1>4, <1>5, <1>6, <1>7, <1>8, <1>9, WatchedSteps DEF UseInv

(* Who comes after the oldest entry has been used since it was.            *)
LEMMA OldestIsUnused ==
  ASSUME UseInv, Len(data) > 0
  PROVE  KeysOf(data) \ {data[1].key} \subseteq since[data[1].key]
<1>1. Dict(data) /\ Len(data) \in Nat
  BY DEF UseInv, CacheInv, Dict
<1>2. KeysOf(data) \subseteq Keys
  BY <1>1, KeysAreKeys DEF Dict
<1>3. ASSUME NEW j \in 1..Len(data), data[j].key # data[1].key
      PROVE  data[j].key \in since[data[1].key]
  <2>1. 1 \in 1..Len(data) /\ 1 < j
    BY <1>1, <1>3
  <2>2. Before(data, data[1].key, data[j].key)
    BY <2>1 DEF Before
  <2>3. data[1].key \in Keys /\ data[j].key \in Keys
    BY <1>2, <2>1 DEF KeysOf
  <2>4. QED
    BY <2>2, <2>3 DEF UseInv
<1>4. QED
  BY <1>3 DEF KeysOf

(* What a step takes out of the cache.                                     *)
Spared(k) ==
    \/ EntryOf(data, k).expiresAt <= now
    \/ Cardinality(since'[k]) >= MaxEntries

LEMMA EvictedIsOld ==
  ASSUME UseInv, NEW t \in Threads, USetStores(t),
         NEW k \in KeysOf(data) \ KeysOf(data')
  PROVE  Cardinality(since'[k]) >= MaxEntries
<1> DEFINE e == call[t].entry
           rest == KeysOf(data) \ {k}
<1>1. /\ Dict(data) /\ Len(data) <= MaxEntries /\ Len(data) \in Nat
      /\ MaxEntries \in Nat \ {0} /\ IsFiniteSet(Keys)
  BY CacheAssumption DEF UseInv, CacheInv, Dict
<1>2. e \in Entry /\ e.key \in Keys /\ data' = AfterSet(data, e) /\ Used(e.key)
  BY SetCall DEF USetStores, SetStores, UseInv, Entry
<1>3. e.key \notin KeysOf(data) /\ Len(data) = MaxEntries
  <2>1. ASSUME e.key \in KeysOf(data) \/ Len(data) < MaxEntries PROVE FALSE
    BY <1>1, <1>2, <2>1, SetKeepsOthers DEF Holds
  <2>2. QED
    BY <1>1, <2>1
<1>4. k = data[1].key
  <2>1. KeysOf(data') = (KeysOf(data) \ {data[1].key}) \union {e.key}
    BY <1>1, <1>2, <1>3, SetEvictsOldest DEF Holds
  <2>2. QED
    BY <2>1
<1>5. rest \subseteq since[k]
  BY <1>1, <1>3, <1>4, OldestIsUnused
<1>6. k \in Keys /\ k # e.key
  BY <1>1, <1>3, KeysAreKeys DEF Dict
<1>7. since'[k] = since[k] \union {e.key} /\ since[k] \subseteq Keys
  BY <1>2, <1>6 DEF Used, UseInv
<1>8. /\ IsFiniteSet(KeysOf(data)) /\ Cardinality(KeysOf(data)) = MaxEntries
  BY <1>1, <1>3, KeysCount
<1>9. /\ IsFiniteSet(rest) /\ Cardinality(rest) = MaxEntries - 1
  BY <1>8, FS_RemoveElement
<1>10. e.key \notin rest
  BY <1>3
<1> HIDE DEF rest
<1>11. Cardinality(rest \union {e.key}) = MaxEntries
  <2>1. Cardinality(rest \union {e.key}) = Cardinality(rest) + 1
    BY <1>9, <1>10, FS_AddElement
  <2>2. QED
    BY <1>1, <1>9, <2>1
<1>12. IsFiniteSet(since'[k])
  BY <1>1, <1>2, <1>7, FS_Subset
<1>13. rest \union {e.key} \in SUBSET since'[k]
  BY <1>5, <1>7
<1>14. Cardinality(rest \union {e.key}) <= Cardinality(since'[k])
  BY <1>12, <1>13, FS_Subset
<1>15. Cardinality(since'[k]) \in Nat
  BY <1>12, FS_CardinalityType
<1>16. QED
  BY <1>1, <1>11, <1>14, <1>15

LEMMA StepSpares ==
  ASSUME UseInv, [UNext]_uvars, NEW k \in KeysOf(data) \ KeysOf(data')
  PROVE  Spared(k)
<1>1. Dict(data) /\ now \in Nat
  BY DEF UseInv, CacheInv
<1>2. ASSUME NEW t \in Threads, UGetHit(t) PROVE FALSE
  <2>1. call[t].key \in KeysOf(data) /\ data' = AfterHit(data, call[t].key)
    BY <1>2 DEF UGetHit, GetHit, Hits
  <2>2. QED
    BY <1>1, <2>1, HitKeepsEntries
<1>3. ASSUME NEW t \in Threads, UGetMiss(t) PROVE Spared(k)
  <2>1. call[t] # Idle /\ call[t].op = "get" /\ ~Hits(t) /\ data' = Without(data, call[t].key)
    BY <1>3 DEF UGetMiss, GetMiss
  <2>2. k = call[t].key
    BY <1>1, <2>1, WithoutLosesKey
  <2>3. ~(EntryOf(data, k).expiresAt > call[t].at)
    BY <2>1, <2>2 DEF Hits
  <2>4. EntryOf(data, k).expiresAt \in Nat
    BY <1>1, EntryHasKey DEF Entry
  <2>5. call[t].at \in Nat /\ call[t].at <= now
    BY <2>1, GetCall DEF UseInv
  <2>6. EntryOf(data, k).expiresAt <= now
    BY <1>1, <2>3, <2>4, <2>5
  <2>7. QED
    BY <2>6 DEF Spared
<1>4. ASSUME NEW t \in Threads, USetStores(t) PROVE Spared(k)
  BY <1>4, EvictedIsOld DEF Spared
<1>5. CASE UNCHANGED data
  BY <1>5
<1>6. QED
  BY <1>2, <1>3, <1>4, <1>5, WatchedSteps
     DEF UseInv, UGetReadsClock, GetReadsClock, USetReadsClock, SetReadsClock, UTick, CacheTick,
         uvars, cacheVars

(* For any threads, keys and bound, what leaves the cache has expired, or  *)
(* as many other keys as the cache holds were used after it                *)
(* (cache.py:29-43).                                                       *)
THEOREM WhatIsInUseStays == USpec => KeepsWhatIsInUse
<1>1. UInit => UseInv
  BY UseInit
<1>2. UseInv /\ [UNext]_uvars => UseInv'
  BY UseInductive
<1>3. UseInv /\ [UNext]_uvars =>
        [\A k \in KeysOf(data) \ KeysOf(data') :
            \/ EntryOf(data, k).expiresAt <= now
            \/ Cardinality(since'[k]) >= MaxEntries]_uvars
  BY StepSpares DEF Spared
<1>4. QED
  BY <1>1, <1>2, <1>3, PTL DEF USpec, KeepsWhatIsInUse

=============================================================================
