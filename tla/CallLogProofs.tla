---------------------------- MODULE CallLogProofs ----------------------------
(***************************************************************************)
(* What is proved of CallLogs for any users, calls, queues and limits.     *)
(***************************************************************************)
EXTENDS CallLogs, FiniteSetTheorems, WellFoundedInduction, TLAPS

Types ==
    /\ log \subseteq Calls
    /\ queues \in [Queues -> SUBSET Users]
    /\ pc \in [Phones -> {"idle", "own", "queues", "scan", "feeds"}]
    /\ status \in [Phones -> {"none", "personal", "shared", "500"}]
    /\ own \in [Phones -> SUBSET Calls]
    /\ scan \in [Phones -> SUBSET Queues]
    /\ comembers \in [Phones -> SUBSET Users]
    /\ left \in [Phones -> SUBSET Users]
    /\ heard \in [Phones -> SUBSET Calls]
    /\ missed \in [Phones -> SUBSET Calls]
    /\ before \in [Phones -> SUBSET Calls]
    /\ scanned \in [Phones -> SUBSET Queues]
    /\ mates \in [Phones -> SUBSET Users]
    /\ steady \in [Phones -> SUBSET (Queues \X Users)]

(* What a request has read is logged, and the members it has found share a *)
(* queue with its user.                                                    *)
Course(p) ==
    /\ own[p] \subseteq log /\ heard[p] \subseteq log /\ missed[p] \subseteq log
    /\ before[p] \subseteq log
    /\ scan[p] \subseteq scanned[p]
    /\ comembers[p] # {} => p \in comembers[p]
    /\ left[p] \subseteq comembers[p] \ {p}
    /\ comembers[p] \subseteq mates[p]
    /\ pc[p] = "feeds" => comembers[p] # {}
    /\ pc[p] \in {"idle", "own", "queues"} => comembers[p] = {} /\ scan[p] = {}
    /\ pc[p] = "idle" => heard[p] = {}
    /\ pc[p] # "idle" => status[p] = "none" /\ MatesOf(p, queues) \subseteq mates[p]

(* Whose calls it has.                                                     *)
Concern(p, c) == p \in c.to \/ c.to \intersect mates[p] # {}

Concerned(p) ==
    /\ \A c \in own[p] : PartyTo(p, c)
    /\ \A c \in heard[p] \union missed[p] : Concern(p, c)

(* What it has of the calls the list is about.                             *)
Kept(p, c, list) == c \in list \/ CutFromFeed(p, c)

Keeps(p) ==
    /\ pc[p] \in {"queues", "scan", "feeds"} =>
          \A c \in before[p] : PartyTo(p, c) => Kept(p, c, own[p])
    /\ status[p] = "personal" =>
          \A c \in before[p] :
             p \in c.to /\ c.from # p /\ ~c.answered => Kept(p, c, missed[p])
    /\ status[p] = "shared" => mates[p] # {}
    /\ status[p] = "none" /\ pc[p] = "idle" => before[p] = {}

(* What it will have of those it is to share: a colleague who is in a      *)
(* queue with its user all the while is found there, and a call for the    *)
(* colleague is in the list once the feed is read, unless it is cut off.   *)
IsShared(c) == c.from = Outside /\ ~c.answered

Gathers(p) ==
    /\ pc[p] # "idle" => \A s \in steady[p] : {p, s[2]} \subseteq queues[s[1]]
    /\ pc[p] \in {"own", "queues"} => scanned[p] = {}
    /\ \A s \in steady[p] : s[1] \in scanned[p] =>
        /\ pc[p] = "scan" => s[1] \in scan[p] \/ {p, s[2]} \subseteq comembers[p]
        /\ \A c \in before[p] : s[2] \in c.to /\ IsShared(c) =>
            /\ pc[p] = "feeds" => s[2] \in left[p] \/ Kept(s[2], c, heard[p])
            /\ status[p] = "shared" => \/ Kept(s[2], c, missed[p])
                                      \/ Cardinality(Later(c, missed[p])) >= Limit

PhoneInv(p) == Course(p) /\ Concerned(p) /\ Keeps(p) /\ Gathers(p)

CallInv == Types /\ \A p \in Phones : PhoneInv(p)

(***************************************************************************)
(* Feeds                                                                   *)
(***************************************************************************)
LEMMA FiniteLogs ==
  ASSUME NEW S \in SUBSET Calls
  PROVE  IsFiniteSet(S) /\ Cardinality(S) \in Nat
  BY CallsAssumption, FS_Subset, FS_CardinalityType

(* A feed holds the calls of its user that the limit has not cut off.      *)
LEMMA FeedProps ==
  ASSUME log \subseteq Calls, NEW u
  PROVE  /\ FeedOf(u) \subseteq log
         /\ \A c \in FeedOf(u) : PartyTo(u, c)
         /\ \A c \in log : PartyTo(u, c) => Kept(u, c, FeedOf(u))
<1>1. FeedOf(u) \subseteq log /\ \A c \in FeedOf(u) : PartyTo(u, c)
  BY DEF FeedOf
<1>2. ASSUME NEW c \in log, PartyTo(u, c) PROVE Kept(u, c, FeedOf(u))
  <2> DEFINE later == {d \in After(c, log) : PartyTo(u, d)}
             all == {d \in log : PartyTo(u, d)}
  <2>1. later = After(c, all)
    BY DEF After
  <2>2. Cardinality(later) \in Nat
    BY FiniteLogs DEF After
  <2>3. Cardinality(later) < Limit \/ Cardinality(later) >= Limit
    BY <2>2, CallsAssumption
  <2>4. FeedOf(u) = {d \in all : Cardinality(After(d, all)) < Limit}
    BY DEF FeedOf
  <2>5. c \in all
    BY <1>2
  <2>6. CutFromFeed(u, c) <=> Cardinality(later) >= Limit
    BY DEF CutFromFeed
  <2> HIDE DEF later, all
  <2> QED BY <2>1, <2>3, <2>4, <2>5, <2>6 DEF Kept
<1> QED BY <1>1, <1>2

(* A call that is cut off stays cut off.                                   *)
LEMMA CutStays ==
  ASSUME log \subseteq log', log' \subseteq Calls, NEW u, NEW c, CutFromFeed(u, c)
  PROVE  CutFromFeed(u, c)'
<1> DEFINE early == {d \in After(c, log) : PartyTo(u, d)}
           late == {d \in After(c, log') : PartyTo(u, d)}
<1>1. early \subseteq late /\ late \subseteq Calls
  BY DEF After
<1>2. Cardinality(early) \in Nat /\ Cardinality(late) \in Nat /\ IsFiniteSet(late)
  BY <1>1, FiniteLogs
<1>3. Cardinality(early) <= Cardinality(late)
  BY <1>1, <1>2, FS_Subset
<1>4. CutFromFeed(u, c) <=> (Cardinality(early) >= Limit)
  BY DEF CutFromFeed
<1>5. CutFromFeed(u, c)' <=> (Cardinality(late) >= Limit)
  BY DEF CutFromFeed, After, PartyTo
<1> HIDE DEF early, late
<1> QED BY <1>2, <1>3, <1>4, <1>5, CallsAssumption

LEMMA MatesTyped ==
  ASSUME NEW members \in [Queues -> SUBSET Users], NEW p
  PROVE  /\ MatesOf(p, members) \subseteq Users
         /\ \A q \in Queues : p \in members[q] => members[q] \subseteq MatesOf(p, members)
<1>1. ASSUME NEW q \in Queues, p \in members[q] PROVE members[q] \subseteq MatesOf(p, members)
  <2>1. members[q] \in {members[x] : x \in {y \in Queues : p \in members[y]}}
    BY <1>1
  <2> QED BY <2>1 DEF MatesOf
<1>2. MatesOf(p, members) \subseteq Users
  BY DEF MatesOf
<1> QED BY <1>1, <1>2

(* A call from outside that a user is a party to was for the user.         *)
LEMMA SharedWithPartyTo ==
  ASSUME NEW u \in Users, NEW S \in SUBSET Calls, NEW c \in SharedMisses(S), PartyTo(u, c)
  PROVE  u \in c.to
  BY CallsAssumption DEF SharedMisses, PartyTo

(***************************************************************************)
(* The cut                                                                 *)
(***************************************************************************)
LEMMA LeastNatural ==
  ASSUME NEW T \in SUBSET Nat, T # {}
  PROVE  \E n \in T : \A m \in T : n <= m
<1> DEFINE Less == {s \in Nat \X Nat : s[1] < s[2]}
<1>1. IsWellFoundedOn(Less, Nat)
  BY NatLessThanWellFounded DEF OpToRel
<1>2. PICK n \in T : \A m \in T : ~ (<<m, n>> \in Less)
  BY <1>1, WFMin
<1>3. \A m \in T : ~ (m < n)
  BY <1>2
<1> QED BY <1>3

(* The calls later than one of the later calls are fewer.                  *)
LEMMA LaterAreFewer ==
  ASSUME NEW S \in SUBSET Calls, NEW c \in S, NEW d \in Later(c, S)
  PROVE  /\ Later(d, S) \subseteq Later(c, S)
         /\ Cardinality(Later(d, S)) < Cardinality(Later(c, S))
<1>1. Later(d, S) \subseteq Later(c, S) /\ d \notin Later(d, S)
  BY CallsAssumption DEF Later
<1>2. /\ IsFiniteSet(Later(c, S)) /\ Later(d, S) # Later(c, S)
      /\ Cardinality(Later(c, S)) \in Nat /\ Cardinality(Later(d, S)) \in Nat
  BY <1>1, FiniteLogs DEF Later
<1>3. /\ Cardinality(Later(d, S)) <= Cardinality(Later(c, S))
      /\ Cardinality(Later(d, S)) # Cardinality(Later(c, S))
  BY <1>1, <1>2, FS_Subset
<1> QED BY <1>1, <1>2, <1>3

(* A call that a list is cut before has a full list of later ones before   *)
(* it, of those that are shown.                                            *)
LEMMA CutForLater ==
  ASSUME NEW S \in SUBSET Calls, NEW c \in S, c \notin Shown(S)
  PROVE  Cardinality(Later(c, Shown(S))) >= Limit
<1> DEFINE Rank(d) == Cardinality(Later(d, S))
           hidden == Later(c, S) \ Shown(S)
<1>1. Shown(S) \subseteq S /\ \A d \in S : Rank(d) \in Nat /\ (d \in Shown(S) <=> Rank(d) < Limit)
  BY FiniteLogs DEF Shown, Later
<1>2. hidden \subseteq S
  BY DEF Later
<1>3. CASE hidden = {}
  <2>1. Later(c, Shown(S)) = Later(c, S)
    BY <1>1, <1>3 DEF Later
  <2> QED BY <1>1, <2>1, CallsAssumption
<1>4. CASE hidden # {}
  <2>1. PICK d \in hidden : \A x \in hidden : Rank(d) <= Rank(x)
    <3> DEFINE ranks == {Rank(x) : x \in hidden}
    <3> HIDE DEF Rank, hidden
    <3>1. ranks \in SUBSET Nat /\ ranks # {}
      BY <1>1, <1>2, <1>4
    <3> HIDE DEF ranks
    <3>2. PICK n \in ranks : \A m \in ranks : n <= m
      BY <3>1, LeastNatural
    <3> QED BY <3>2 DEF ranks
  <2>2. d \in Later(c, S) /\ d \in S /\ Rank(d) >= Limit
    BY <1>1, CallsAssumption DEF Later
  <2>3. ASSUME NEW x \in Later(d, S) PROVE x \in Later(c, Shown(S))
    <3>1. x \in Later(c, S) /\ Rank(x) < Rank(d)
      BY <2>2, LaterAreFewer
    <3>2. x \notin hidden
      BY <1>1, <1>2, <2>1, <2>2, <3>1
    <3> QED BY <1>1, <3>1, <3>2 DEF Later
  <2>4. /\ Later(d, S) \subseteq Later(c, Shown(S))
        /\ IsFiniteSet(Later(c, Shown(S))) /\ Cardinality(Later(c, Shown(S))) \in Nat
    BY <1>1, <2>3, FiniteLogs DEF Later
  <2>5. Rank(d) <= Cardinality(Later(c, Shown(S)))
    BY <2>4, FS_Subset
  <2> QED BY <1>1, <2>2, <2>4, <2>5, CallsAssumption
<1> QED BY <1>3, <1>4

(* A list that is cut is no longer than the limit, if no two of its calls  *)
(* are of the same time.                                                   *)
LEMMA CutIsShort ==
  ASSUME NEW S \in SUBSET Calls, NEW time \in [S -> Nat],
         \A c, d \in S : time[c] = time[d] => c = d
  PROVE  Cardinality({c \in S : Cardinality({d \in S : time[d] > time[c]}) < Limit}) <= Limit
<1> DEFINE Above(c) == {d \in S : time[d] > time[c]}
           cut == {c \in S : Cardinality(Above(c)) < Limit}
<1> SUFFICES Cardinality(cut) <= Limit
  OBVIOUS
<1>1. /\ cut \subseteq S /\ IsFiniteSet(cut) /\ Cardinality(cut) \in Nat
      /\ \A c \in cut : Cardinality(Above(c)) < Limit
  BY FiniteLogs
<1>2. \A c \in S : IsFiniteSet(Above(c)) /\ Cardinality(Above(c)) \in Nat
  BY FiniteLogs
<1>3. \A c, d \in S : d \in Above(c) <=> time[d] > time[c]
  OBVIOUS
<1> HIDE DEF Above, cut
<1>4. CASE cut = {}
  BY <1>4, FS_EmptySet, CallsAssumption
<1>5. CASE cut # {}
  <2>1. PICK c \in cut : \A x \in cut : time[c] <= time[x]
    <3> DEFINE times == {time[x] : x \in cut}
    <3>1. times \in SUBSET Nat /\ times # {}
      BY <1>1, <1>5
    <3> HIDE DEF times
    <3>2. PICK n \in times : \A m \in times : n <= m
      BY <3>1, LeastNatural
    <3> QED BY <3>2 DEF times
  <2>2. ASSUME NEW x \in cut \ {c} PROVE x \in Above(c)
    BY <1>1, <1>3, <2>1
  <2>3. Cardinality(cut \ {c}) <= Cardinality(Above(c))
    BY <1>1, <1>2, <2>2, FS_Subset
  <2>4. Cardinality(cut \ {c}) = Cardinality(cut) - 1
    BY <1>1, FS_RemoveElement
  <2> QED BY <1>1, <1>2, <2>3, <2>4, CallsAssumption
<1> QED BY <1>4, <1>5

(***************************************************************************)
(* The invariant                                                           *)
(***************************************************************************)
LEMMA CallsInit == Init => CallInv
  BY DEF Init, CallInv, Types, PhoneInv, Course, Concerned, Keeps, Gathers

(* What the world and the other phones leave of a phone's request.         *)
Undisturbed(p) ==
    /\ log \subseteq log' /\ log' \subseteq Calls
    /\ pc'[p] = pc[p] /\ status'[p] = status[p]
    /\ own'[p] = own[p] /\ scan'[p] = scan[p] /\ comembers'[p] = comembers[p]
    /\ left'[p] = left[p] /\ heard'[p] = heard[p] /\ missed'[p] = missed[p]
    /\ before'[p] = before[p] /\ scanned'[p] = scanned[p]
    /\ mates[p] \subseteq mates'[p]
    /\ pc[p] # "idle" => MatesOf(p, queues') \subseteq mates'[p]
    /\ steady'[p] \subseteq steady[p]
    /\ pc[p] # "idle" => \A s \in steady'[p] : {p, s[2]} \subseteq queues'[s[1]]

LEMMA UndisturbedKeeps ==
  ASSUME NEW p \in Phones, PhoneInv(p), Undisturbed(p)
  PROVE  PhoneInv(p)'
<1>1. Course(p)'
  BY DEF PhoneInv, Undisturbed, Course, MatesOf
<1>2. Concerned(p)'
  BY DEF PhoneInv, Undisturbed, Concerned, Concern, PartyTo
<1>3. Keeps(p)'
  <2>1. \A c, list : Kept(p, c, list) => c \in list \/ CutFromFeed(p, c)'
    BY CutStays DEF Kept, Undisturbed
  <2> QED BY <2>1 DEF PhoneInv, Undisturbed, Keeps, Kept, PartyTo
<1>4. Gathers(p)'
  <2>1. \A u, c, list : Kept(u, c, list) => c \in list \/ CutFromFeed(u, c)'
    BY CutStays DEF Kept, Undisturbed
  <2> QED BY <2>1 DEF PhoneInv, Undisturbed, Gathers, Kept, IsShared, Later
<1> QED BY <1>1, <1>2, <1>3, <1>4 DEF PhoneInv

LEMMA OthersUndisturb ==
  ASSUME CallInv, NEW p \in Phones,
         \/ \E c \in Calls : Logged(c)
         \/ \E q \in Queues, u \in Users : MembershipChanges(q, u)
         \/ \E x \in Phones \ {p} : Get(x)
         \/ UNCHANGED vars
  PROVE  Undisturbed(p)
<1> USE DEF CallInv, Types, PhoneInv, Undisturbed
<1>0. pc[p] # "idle" => /\ MatesOf(p, queues) \subseteq mates[p]
                        /\ \A s \in steady[p] : {p, s[2]} \subseteq queues[s[1]]
  BY DEF Course, Gathers
<1>1. ASSUME NEW c \in Calls, Logged(c) PROVE Undisturbed(p)
  BY <1>0, <1>1 DEF Logged, watched
<1>2. ASSUME NEW q \in Queues, NEW u \in Users, MembershipChanges(q, u) PROVE Undisturbed(p)
  BY <1>2 DEF MembershipChanges
<1>3. ASSUME NEW x \in Phones \ {p}, Get(x) PROVE Undisturbed(p)
  <2> USE <1>0 DEF world, watched
  <2>1. ASSUME Begin(x) PROVE Undisturbed(p)
    BY <2>1 DEF Begin
  <2>2. ASSUME NEW how, NEW list, End(x, how, list), UNCHANGED <<world, watched>>
        PROVE  Undisturbed(p)
    BY <2>2 DEF End
  <2>3. ASSUME ReadOwnFeed(x) PROVE Undisturbed(p)
    BY <2>3 DEF ReadOwnFeed
  <2>4. ASSUME ListQueues(x) PROVE Undisturbed(p)
    BY <2>4 DEF ListQueues
  <2>5. ASSUME NEW q \in Queues, ReadQueue(x, q) PROVE Undisturbed(p)
    BY <2>5 DEF ReadQueue
  <2>6. ASSUME NoQueue(x) \/ QueuesFail(x) \/ Share(x) \/ FeedFails(x) PROVE Undisturbed(p)
    BY <2>2, <2>6 DEF NoQueue, QueuesFail, Share, FeedFails
  <2>7. ASSUME Reception(x) PROVE Undisturbed(p)
    BY <2>7 DEF Reception
  <2>8. ASSUME NEW u \in Users, ReadFeed(x, u) PROVE Undisturbed(p)
    BY <2>8 DEF ReadFeed
  <2> QED BY <1>3, <2>1, <2>3, <2>4, <2>5, <2>6, <2>7, <2>8 DEF Get
<1>4. CASE UNCHANGED vars
  BY <1>0, <1>4 DEF vars
<1> QED BY <1>1, <1>2, <1>3, <1>4

LEMMA TypesStep == Types /\ [Next]_vars => Types'
<1> SUFFICES ASSUME Types, [Next]_vars PROVE Types'
  OBVIOUS
<1> USE DEF Types, world, watched
<1>1. ASSUME NEW c \in Calls, Logged(c) PROVE Types'
  BY <1>1 DEF Logged
<1>2. ASSUME NEW q \in Queues, NEW u \in Users, MembershipChanges(q, u) PROVE Types'
  <2>1. queues' \in [Queues -> SUBSET Users]
    BY <1>2 DEF MembershipChanges
  <2>2. \A p : MatesOf(p, queues') \subseteq Users
    BY <2>1, MatesTyped
  <2> QED BY <1>2, <2>1, <2>2 DEF MembershipChanges
<1>3. ASSUME NEW p \in Phones, Begin(p) PROVE Types'
  BY <1>3, MatesTyped DEF Begin
<1>4. ASSUME NEW p \in Phones, NEW how \in {"personal", "shared", "500"}, NEW list \in SUBSET Calls,
             End(p, how, list), UNCHANGED <<world, watched>>
      PROVE  Types'
  BY <1>4 DEF End
<1>5. ASSUME NEW p \in Phones, ReadOwnFeed(p) PROVE Types'
  BY <1>5, FeedProps DEF ReadOwnFeed
<1>6. ASSUME NEW p \in Phones, ListQueues(p) PROVE Types'
  BY <1>6 DEF ListQueues
<1>7. ASSUME NEW p \in Phones, NEW q \in Queues, ReadQueue(p, q) PROVE Types'
  BY <1>7 DEF ReadQueue
<1>8. ASSUME NEW p \in Phones, NoQueue(p) \/ QueuesFail(p) PROVE Types'
  <2>1. PersonalMisses(p, own[p]) \subseteq Calls
    BY DEF PersonalMisses
  <2> QED BY <1>4, <1>8, <2>1 DEF NoQueue, QueuesFail
<1>9. ASSUME NEW p \in Phones, Share(p) \/ FeedFails(p) PROVE Types'
  <2>1. Shown(heard[p]) \subseteq Calls
    BY DEF Shown
  <2> QED BY <1>4, <1>9, <2>1 DEF Share, FeedFails
<1>10. ASSUME NEW p \in Phones, Reception(p) PROVE Types'
  BY <1>10 DEF Reception, SharedMisses
<1>11. ASSUME NEW p \in Phones, NEW u \in Users, ReadFeed(p, u) PROVE Types'
  <2>1. SharedMisses(FeedOf(u)) \subseteq Calls
    BY FeedProps DEF SharedMisses
  <2> QED BY <1>11, <2>1 DEF ReadFeed
<1>12. CASE UNCHANGED vars
  BY <1>12 DEF vars
<1> QED
  BY <1>1, <1>2, <1>3, <1>5, <1>6, <1>7, <1>8, <1>9, <1>10, <1>11, <1>12 DEF Next, Get

(* A request is answered: what it held goes.                               *)
LEMMA EndKeeps ==
  ASSUME CallInv, NEW p \in Phones, NEW how \in {"personal", "shared", "500"}, NEW list,
         End(p, how, list), UNCHANGED <<world, watched>>,
         list \subseteq log, \A c \in list : Concern(p, c),
         how = "shared" => mates[p] # {},
         how = "personal" =>
            \A c \in before[p] : p \in c.to /\ c.from # p /\ ~c.answered => Kept(p, c, list),
         how = "shared" =>
            \A s \in steady[p], c \in before[p] :
               s[1] \in scanned[p] /\ s[2] \in c.to /\ IsShared(c) =>
                  Kept(s[2], c, list) \/ Cardinality(Later(c, list)) >= Limit
  PROVE  PhoneInv(p)'
<1> USE DEF CallInv, Types, world, watched
<1>1. /\ pc'[p] = "idle" /\ status'[p] = how /\ missed'[p] = list
      /\ own'[p] = {} /\ scan'[p] = {} /\ comembers'[p] = {} /\ left'[p] = {} /\ heard'[p] = {}
      /\ UNCHANGED <<log, queues, before, scanned, mates, steady>>
  BY DEF End
<1>2. before[p] \subseteq log
  BY DEF PhoneInv, Course
<1>3. Course(p)'
  BY <1>1, <1>2 DEF Course
<1>4. Concerned(p)'
  BY <1>1 DEF Concerned, Concern
<1>5. Keeps(p)'
  BY <1>1 DEF Keeps, Kept, CutFromFeed, After, PartyTo
<1>6. Gathers(p)'
  BY <1>1 DEF Gathers, Kept, CutFromFeed, After, PartyTo, IsShared, Later
<1> QED BY <1>3, <1>4, <1>5, <1>6 DEF PhoneInv

LEMMA BeginKeeps ==
  ASSUME CallInv, NEW p \in Phones, Begin(p)
  PROVE  PhoneInv(p)'
<1> USE DEF CallInv, Types, world
<1>1. /\ pc[p] = "idle" /\ pc'[p] = "own" /\ status'[p] = "none" /\ missed'[p] = {}
      /\ before'[p] = log /\ scanned'[p] = {} /\ mates'[p] = MatesOf(p, queues)
      /\ UNCHANGED <<log, queues, own, scan, comembers, left, heard>>
  BY DEF Begin
<1>2. comembers[p] = {} /\ left[p] = {} /\ heard[p] = {} /\ own[p] \subseteq log
      /\ \A c \in own[p] : PartyTo(p, c)
  BY <1>1 DEF PhoneInv, Course, Concerned
<1>3. scan[p] = {}
  BY <1>1 DEF PhoneInv, Course
<1>4. Course(p)'
  BY <1>1, <1>2, <1>3 DEF Course, MatesOf
<1>5. Concerned(p)' /\ Keeps(p)'
  BY <1>1, <1>2 DEF Concerned, Keeps, PartyTo
<1>6. Gathers(p)'
  <2>1. steady'[p] = {s \in Queues \X Users : {p, s[2]} \subseteq queues[s[1]]}
    BY DEF Begin
  <2> QED BY <1>1, <2>1 DEF Gathers
<1> QED BY <1>4, <1>5, <1>6 DEF PhoneInv

(* The steps of a request before its answer.                               *)
LEMMA ReadsKeep ==
  ASSUME CallInv, NEW p \in Phones,
         \/ ReadOwnFeed(p) \/ ListQueues(p) \/ Reception(p)
         \/ \E q \in Queues : ReadQueue(p, q)
         \/ \E u \in Users : ReadFeed(p, u)
  PROVE  PhoneInv(p)'
<1> USE DEF CallInv, Types, world, watched
<1> USE CallsAssumption
<1>1. PhoneInv(p) /\ p \in Users
  OBVIOUS
<1>2. ASSUME UNCHANGED <<log, queues, status, missed, before, mates>>, pc[p] # "idle",
             pc[p] # "own" => pc'[p] # "own" /\ own'[p] = own[p], pc'[p] # "idle",
             pc[p] = "own" => \A c \in before[p] : PartyTo(p, c) => Kept(p, c, own'[p])
      PROVE  Keeps(p)'
  BY <1>1, <1>2 DEF PhoneInv, Course, Keeps, Kept, CutFromFeed, After, PartyTo
<1> DEFINE Due(s, c) == s[1] \in scanned'[p] /\ s[2] \in c.to /\ IsShared(c)
<1>0. ASSUME UNCHANGED <<log, queues, status, before, steady>>, pc[p] # "idle", pc'[p] # "idle",
             pc'[p] = "queues" => scanned'[p] = {},
             pc'[p] = "scan" => \A s \in steady[p] : s[1] \in scanned'[p] =>
                s[1] \in scan'[p] \/ {p, s[2]} \subseteq comembers'[p],
             pc'[p] = "feeds" => \A s \in steady[p], c \in before[p] : Due(s, c) =>
                s[2] \in left'[p] \/ Kept(s[2], c, heard'[p]),
             pc'[p] # "own"
      PROVE  Gathers(p)'
  <2>1. status'[p] # "shared"
    BY <1>0, <1>1 DEF PhoneInv, Course
  <2>2. \A u, c, list : Kept(u, c, list)' <=> c \in list' \/ CutFromFeed(u, c)
    BY <1>0 DEF Kept, CutFromFeed, After, PartyTo
  <2> QED BY <1>0, <1>1, <2>1, <2>2 DEF PhoneInv, Gathers, Kept, IsShared
<1>3. CASE ReadOwnFeed(p)
  <2>1. /\ pc[p] = "own" /\ pc'[p] = "queues" /\ own'[p] = FeedOf(p)
        /\ UNCHANGED <<log, queues, status, scan, comembers, left, heard, missed,
                       before, scanned, mates, steady>>
    BY <1>3 DEF ReadOwnFeed
  <2>2. /\ FeedOf(p) \subseteq log /\ \A c \in FeedOf(p) : PartyTo(p, c)
        /\ \A c \in log : PartyTo(p, c) => Kept(p, c, FeedOf(p))
    BY FeedProps
  <2>3. Keeps(p)'
    BY <1>1, <1>2, <2>1, <2>2 DEF PhoneInv, Course
  <2>4. Course(p)' /\ Concerned(p)'
    BY <1>1, <2>1, <2>2 DEF PhoneInv, Course, Concerned, Concern, MatesOf, PartyTo
  <2>5. Gathers(p)'
    BY <1>0, <1>1, <2>1 DEF PhoneInv, Gathers
  <2> QED BY <2>3, <2>4, <2>5 DEF PhoneInv
<1>4. CASE ListQueues(p)
  <2>1. /\ pc[p] = "queues" /\ pc'[p] = "scan" /\ scan'[p] = scanned'[p]
        /\ UNCHANGED <<log, queues, status, own, comembers, left, heard, missed, before, mates,
                       steady>>
    BY <1>4 DEF ListQueues
  <2>2. Keeps(p)'
    BY <1>2, <2>1
  <2>3. Course(p)' /\ Concerned(p)'
    BY <1>1, <2>1 DEF PhoneInv, Course, Concerned, Concern, MatesOf, PartyTo
  <2>4. Gathers(p)'
    BY <1>0, <2>1
  <2> QED BY <2>2, <2>3, <2>4 DEF PhoneInv
<1>5. ASSUME NEW q \in Queues, ReadQueue(p, q) PROVE PhoneInv(p)'
  <2>1. /\ pc[p] = "scan" /\ pc'[p] = pc[p] /\ scan'[p] = scan[p] \ {q}
        /\ comembers'[p] = IF p \in queues[q] THEN comembers[p] \union queues[q] ELSE comembers[p]
        /\ UNCHANGED <<log, queues, status, own, left, heard, missed, before, scanned, mates,
                       steady>>
    BY <1>5 DEF ReadQueue
  <2>2. Keeps(p)'
    BY <1>2, <2>1
  <2>3. p \in queues[q] => queues[q] \subseteq mates[p]
    BY <1>1, <2>1, MatesTyped DEF PhoneInv, Course
  <2>4. Course(p)' /\ Concerned(p)'
    BY <1>1, <2>1, <2>3 DEF PhoneInv, Course, Concerned, Concern, MatesOf, PartyTo
  <2>5. ASSUME NEW s \in steady[p], s[1] \in scanned[p]
        PROVE  s[1] \in scan'[p] \/ {p, s[2]} \subseteq comembers'[p]
    <3>1. s[1] \in scan[p] \/ {p, s[2]} \subseteq comembers[p]
      BY <1>1, <2>1, <2>5 DEF PhoneInv, Gathers
    <3>2. {p, s[2]} \subseteq queues[s[1]]
      BY <1>1, <2>1, <2>5 DEF PhoneInv, Gathers
    <3> QED BY <2>1, <3>1, <3>2
  <2>6. Gathers(p)'
    BY <1>0, <2>1, <2>5
  <2> QED BY <2>2, <2>4, <2>6 DEF PhoneInv
<1>6. CASE Reception(p)
  <2>1. /\ pc[p] = "scan" /\ pc'[p] = "feeds" /\ scan[p] = {} /\ comembers[p] # {}
        /\ left'[p] = comembers[p] \ {p} /\ heard'[p] = SharedMisses(own[p])
        /\ UNCHANGED <<log, queues, status, own, scan, comembers, missed, before, scanned, mates,
                       steady>>
    BY <1>6 DEF Reception
  <2>2. Keeps(p)'
    BY <1>2, <2>1
  <2>3. SharedMisses(own[p]) \subseteq own[p]
    BY DEF SharedMisses
  <2>4. \A c \in SharedMisses(own[p]) : Concern(p, c)
    BY <1>1, <2>3, SharedWithPartyTo DEF PhoneInv, Concerned, Concern
  <2>5. Course(p)' /\ Concerned(p)'
    BY <1>1, <2>1, <2>3, <2>4 DEF PhoneInv, Course, Concerned, Concern, MatesOf, PartyTo
  <2>6. ASSUME NEW s \in steady[p], NEW c \in before[p], Due(s, c)
        PROVE  s[2] \in left'[p] \/ Kept(s[2], c, heard'[p])
    <3>1. s[2] \in comembers[p]
      BY <1>1, <2>1, <2>6 DEF PhoneInv, Gathers
    <3>2. ASSUME s[2] = p PROVE Kept(p, c, heard'[p])
      <4>1. Kept(p, c, own[p])
        BY <1>1, <2>1, <2>6, <3>2 DEF PhoneInv, Keeps, PartyTo
      <4> QED BY <2>1, <2>6, <4>1 DEF Kept, SharedMisses, IsShared
    <3> QED BY <2>1, <3>1, <3>2
  <2>7. Gathers(p)'
    BY <1>0, <2>1, <2>6
  <2> QED BY <2>2, <2>5, <2>7 DEF PhoneInv
<1>7. ASSUME NEW u \in Users, ReadFeed(p, u) PROVE PhoneInv(p)'
  <2>1. /\ pc[p] = "feeds" /\ pc'[p] = pc[p] /\ left'[p] = left[p] \ {u} /\ u \in left[p]
        /\ heard'[p] = heard[p] \union SharedMisses(FeedOf(u))
        /\ UNCHANGED <<log, queues, status, own, scan, comembers, missed, before, scanned, mates,
                       steady>>
    BY <1>7 DEF ReadFeed
  <2>2. Keeps(p)'
    BY <1>2, <2>1
  <2>3. FeedOf(u) \subseteq log /\ FeedOf(u) \in SUBSET Calls
        /\ SharedMisses(FeedOf(u)) \subseteq FeedOf(u)
    BY FeedProps DEF SharedMisses
  <2>4. ASSUME NEW c \in SharedMisses(FeedOf(u)) PROVE Concern(p, c)
    <3>1. u \in c.to
      BY <2>3, FeedProps, SharedWithPartyTo
    <3> QED BY <1>1, <2>1, <3>1 DEF PhoneInv, Course, Concern
  <2>5. Course(p)' /\ Concerned(p)'
    BY <1>1, <2>1, <2>3, <2>4 DEF PhoneInv, Course, Concerned, Concern, MatesOf, PartyTo
  <2>6. ASSUME NEW s \in steady[p], NEW c \in before[p], Due(s, c)
        PROVE  s[2] \in left'[p] \/ Kept(s[2], c, heard'[p])
    <3>1. s[2] \in left[p] \/ Kept(s[2], c, heard[p])
      BY <1>1, <2>1, <2>6 DEF PhoneInv, Gathers
    <3>2. ASSUME s[2] = u PROVE Kept(u, c, heard'[p])
      <4>1. Kept(u, c, FeedOf(u))
        BY <1>1, <2>6, <3>2, FeedProps DEF PhoneInv, Course, PartyTo
      <4> QED BY <2>1, <2>6, <4>1 DEF Kept, SharedMisses, IsShared
    <3> QED BY <2>1, <3>1, <3>2 DEF Kept
  <2>7. Gathers(p)'
    BY <1>0, <2>1, <2>6
  <2> QED BY <2>2, <2>5, <2>7 DEF PhoneInv
<1> QED BY <1>3, <1>4, <1>5, <1>6, <1>7

LEMMA AnswersKeep ==
  ASSUME CallInv, NEW p \in Phones, NoQueue(p) \/ QueuesFail(p) \/ Share(p) \/ FeedFails(p)
  PROVE  PhoneInv(p)'
<1> USE DEF CallInv, Types
<1>1. PhoneInv(p)
  OBVIOUS
<1>2. ASSUME NoQueue(p) \/ QueuesFail(p) PROVE PhoneInv(p)'
  <2> DEFINE list == PersonalMisses(p, own[p])
  <2>1. pc[p] \in {"queues", "scan"} /\ End(p, "personal", list) /\ UNCHANGED <<world, watched>>
    BY <1>2 DEF NoQueue, QueuesFail
  <2>2. list \subseteq log /\ \A c \in list : Concern(p, c)
    BY <1>1 DEF PersonalMisses, PhoneInv, Course, Concern
  <2>3. \A c \in before[p] : p \in c.to /\ c.from # p /\ ~c.answered => Kept(p, c, list)
    BY <1>1, <2>1 DEF PersonalMisses, PhoneInv, Keeps, Kept, PartyTo
  <2> HIDE DEF list
  <2> QED BY <2>1, <2>2, <2>3, EndKeeps
<1>3. ASSUME Share(p) PROVE PhoneInv(p)'
  <2>1. pc[p] = "feeds" /\ End(p, "shared", Shown(heard[p])) /\ UNCHANGED <<world, watched>>
    BY <1>3 DEF Share
  <2>2. Shown(heard[p]) \subseteq heard[p]
    BY DEF Shown
  <2>3. mates[p] # {} /\ heard[p] \subseteq log /\ \A c \in heard[p] : Concern(p, c)
    BY <1>1, <2>1 DEF PhoneInv, Course, Concerned
  <2>4. ASSUME NEW s \in steady[p], NEW c \in before[p],
               s[1] \in scanned[p], s[2] \in c.to, IsShared(c)
        PROVE  \/ Kept(s[2], c, Shown(heard[p]))
               \/ Cardinality(Later(c, Shown(heard[p]))) >= Limit
    <3>1. Kept(s[2], c, heard[p]) /\ heard[p] \in SUBSET Calls
      BY <1>1, <1>3, <2>1, <2>4 DEF Share, PhoneInv, Gathers
    <3> QED BY <3>1, CutForLater DEF Kept
  <2> QED BY <2>1, <2>2, <2>3, <2>4, EndKeeps
<1>4. ASSUME FeedFails(p) PROVE PhoneInv(p)'
  BY <1>4, EndKeeps DEF FeedFails
<1> QED BY <1>2, <1>3, <1>4

LEMMA CallsStep == CallInv /\ [Next]_vars => CallInv'
<1> SUFFICES ASSUME CallInv, [Next]_vars PROVE CallInv'
  OBVIOUS
<1>1. Types'
  BY TypesStep DEF CallInv
<1>2. ASSUME NEW p \in Phones PROVE PhoneInv(p)'
  <2>1. CASE Get(p)
    BY <2>1, BeginKeeps, ReadsKeep, AnswersKeep DEF Get
  <2>2. CASE ~Get(p)
    <3>1. Undisturbed(p)
      BY <2>2, OthersUndisturb DEF Next
    <3> QED BY <3>1, UndisturbedKeeps DEF CallInv
  <2> QED BY <2>1, <2>2
<1> QED BY <1>1, <1>2 DEF CallInv

(* The invariant the theorems rest on.                                     *)
LEMMA CallInvHolds == Spec => []CallInv
  BY CallsInit, CallsStep, PTL DEF Spec

(***************************************************************************)
(* Theorems                                                                *)
(***************************************************************************)
(* Requests are well typed: the members a request has found shared a queue *)
(* with its user at some moment of it (queues.py:64-92).                   *)
THEOREM CallsWellTyped == Spec => []TypeOK
<1>1. ASSUME CallInv PROVE TypeOK
  BY <1>1 DEF CallInv, Types, PhoneInv, Course, TypeOK
<1> QED BY <1>1, CallInvHolds, PTL

(* Nobody is shown a missed call of somebody with whom they shared no      *)
(* queue since the request began, however the memberships change while     *)
(* they are read (http.py:87-105, queues.py:85-92).                        *)
THEOREM OnlyMatesCallsShown == Spec => []NobodyElsesCalls
<1>1. ASSUME CallInv PROVE NobodyElsesCalls
  BY <1>1 DEF CallInv, PhoneInv, Concerned, Concern, NobodyElsesCalls
<1> QED BY <1>1, CallInvHolds, PTL

(* Users without a queue, and users whose queues could not be read, keep   *)
(* the personal misses that the limit of the feed has left                 *)
(* (http.py:93-100, queues.py:14-16, call_logs.py:130-147).                *)
THEOREM PlainPhonesKeepTheirMisses == Spec => []PersonalMissesKept
<1>1. ASSUME CallInv PROVE PersonalMissesKept
  BY <1>1 DEF CallInv, Types, PhoneInv, Keeps, Kept, PersonalMissesKept
<1> QED BY <1>1, CallInvHolds, PTL

(* A call from outside that nobody answered is on the phone of everybody   *)
(* who shared a queue with one it was for while the request was made: it   *)
(* is in the shared list, or a limit has cut it off, the one of a feed or  *)
(* that of the list, which then is full of later calls (http.py:87-105,    *)
(* call_logs.py:150-169).                                                  *)
THEOREM SharedMissesHold == Spec => []SharedMissesAppear
<1>1. ASSUME CallInv PROVE SharedMissesAppear
  BY <1>1 DEF CallInv, PhoneInv, Gathers, Kept, IsShared, SharedMissesAppear
<1> QED BY <1>1, CallInvHolds, PTL

(***************************************************************************)
(* The limits                                                              *)
(***************************************************************************)
(* No Missed list a phone is sent is longer than the limit                 *)
(* (http.py:41, 79-81, 102-104).                                           *)
ListsFit == \A p \in Phones : Cardinality(missed[p]) <= Limit

(* No two calls of the log are of one time.                                *)
TimesDiffer == \A c, d \in log : c.start = d.start => c = d

FitsInv ==
    /\ CallInv
    /\ TimesDiffer
    /\ \A p \in Phones : Cardinality(own[p]) <= Limit /\ Cardinality(missed[p]) <= Limit

LEMMA FeedsFit ==
  ASSUME log \subseteq Calls, TimesDiffer, NEW u
  PROVE  Cardinality(FeedOf(u)) <= Limit
<1> DEFINE all == {c \in log : PartyTo(u, c)}
           time == [c \in all |-> c.start]
<1>1. /\ all \subseteq Calls /\ time \in [all -> Nat]
      /\ \A c, d \in all : time[c] = time[d] => c = d
  BY CallsAssumption DEF TimesDiffer
<1>2. \A c \in all : After(c, all) = {d \in all : time[d] > time[c]}
  BY DEF After
<1>3. FeedOf(u) = {c \in all : Cardinality({d \in all : time[d] > time[c]}) < Limit}
  <2>1. FeedOf(u) = {c \in all : Cardinality(After(c, all)) < Limit}
    BY DEF FeedOf
  <2> HIDE DEF all, time
  <2> QED BY <1>2, <2>1
<1> HIDE DEF all, time
<1> QED BY <1>1, <1>3, CutIsShort

LEMMA SharedListFits ==
  ASSUME log \subseteq Calls, TimesDiffer, NEW S \in SUBSET log
  PROVE  Cardinality(Shown(S)) <= Limit
<1> DEFINE time == [c \in S |-> Wall[c.start]]
<1>1. /\ S \subseteq Calls /\ time \in [S -> Nat]
      /\ \A c, d \in S : time[c] = time[d] => c = d
  BY CallsAssumption DEF TimesDiffer
<1>2. \A c \in S : Later(c, S) = {d \in S : time[d] > time[c]}
  BY DEF Later
<1>3. Shown(S) = {c \in S : Cardinality({d \in S : time[d] > time[c]}) < Limit}
  <2> HIDE DEF time
  <2> QED BY <1>2 DEF Shown
<1> HIDE DEF time
<1> QED BY <1>1, <1>3, CutIsShort

LEMMA NothingFits == Cardinality({}) <= Limit
  BY FS_EmptySet, CallsAssumption

(* A request that reads, or is answered, keeps to the limits.              *)
LEMMA StepsFit ==
  ASSUME FitsInv, NEW p \in Phones, Get(p)
  PROVE  Cardinality(own'[p]) <= Limit /\ Cardinality(missed'[p]) <= Limit
<1> USE DEF FitsInv, CallInv, Types
<1>1. /\ Cardinality(own[p]) <= Limit /\ Cardinality(missed[p]) <= Limit
      /\ log \subseteq Calls /\ heard[p] \subseteq log /\ own[p] \subseteq Calls
  BY DEF PhoneInv, Course
<1>2. CASE Begin(p)
  BY <1>1, <1>2, NothingFits DEF Begin
<1>3. CASE ReadOwnFeed(p)
  BY <1>1, <1>3, FeedsFit DEF ReadOwnFeed
<1>4. CASE \/ ListQueues(p) \/ Reception(p)
           \/ \E q \in Queues : ReadQueue(p, q)
           \/ \E u \in Users : ReadFeed(p, u)
  BY <1>1, <1>4 DEF ListQueues, Reception, ReadQueue, ReadFeed
<1>5. CASE NoQueue(p) \/ QueuesFail(p)
  <2>1. /\ PersonalMisses(p, own[p]) \subseteq own[p]
        /\ IsFiniteSet(own[p]) /\ Cardinality(own[p]) \in Nat
    BY <1>1, FiniteLogs DEF PersonalMisses
  <2>2. Cardinality(PersonalMisses(p, own[p])) <= Limit
    <3>1. /\ Cardinality(PersonalMisses(p, own[p])) <= Cardinality(own[p])
          /\ Cardinality(PersonalMisses(p, own[p])) \in Nat
      BY <2>1, FS_Subset, FS_CardinalityType
    <3> QED BY <1>1, <2>1, <3>1, CallsAssumption
  <2> QED BY <1>5, <2>2, NothingFits DEF NoQueue, QueuesFail, End
<1>6. CASE Share(p)
  BY <1>1, <1>6, SharedListFits, NothingFits DEF Share, End
<1>7. CASE FeedFails(p)
  BY <1>7, NothingFits DEF FeedFails, End
<1> QED BY <1>2, <1>3, <1>4, <1>5, <1>6, <1>7 DEF Get

LEMMA FitsStep == FitsInv /\ [Next]_vars => FitsInv'
<1> SUFFICES ASSUME FitsInv, [Next]_vars PROVE FitsInv'
  OBVIOUS
<1>1. CallInv'
  BY CallsStep DEF FitsInv
<1>2. TimesDiffer'
  <2>1. ASSUME NEW c \in Calls, Logged(c) PROVE TimesDiffer'
    BY <2>1 DEF FitsInv, TimesDiffer, Logged
  <2>2. CASE UNCHANGED log
    BY <2>2 DEF FitsInv, TimesDiffer
  <2>3. ASSUME NEW p \in Phones, Get(p) PROVE UNCHANGED log
    BY <2>3 DEF Get, Begin, ReadOwnFeed, ListQueues, ReadQueue, NoQueue, Reception,
                QueuesFail, ReadFeed, Share, FeedFails, world
  <2> QED BY <2>1, <2>2, <2>3 DEF Next, MembershipChanges, vars
<1>3. ASSUME NEW p \in Phones
      PROVE  Cardinality(own'[p]) <= Limit /\ Cardinality(missed'[p]) <= Limit
  <2>1. CASE Get(p)
    BY <2>1, StepsFit
  <2>2. CASE ~Get(p)
    <3>1. Undisturbed(p)
      BY <2>2, OthersUndisturb DEF FitsInv, CallInv, Next
    <3> QED BY <3>1 DEF Undisturbed, FitsInv
  <2> QED BY <2>1, <2>2
<1> QED BY <1>1, <1>2, <1>3 DEF FitsInv

(* No list is longer than the limit, however many feeds it is pieced       *)
(* together from and whatever is logged meanwhile: the personal one as its *)
(* feed is not, the shared one as it is cut after it is sorted             *)
(* (call_logs.py:130-169).                                                 *)
THEOREM ListsAreCut == Spec => []ListsFit
<1>1. Init => FitsInv
  BY CallsInit, NothingFits DEF Init, FitsInv, TimesDiffer
<1>2. FitsInv => ListsFit
  BY DEF FitsInv, ListsFit
<1> QED BY <1>1, <1>2, FitsStep, PTL DEF Spec

=============================================================================
