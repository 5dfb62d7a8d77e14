------------------------------ MODULE CallLogs ------------------------------
(***************************************************************************)
(* The call logs of wazo_phoned_optimogo: what a phone is shown as Placed, *)
(* Received and Missed (http.py, call_logs.py, queues.py).  Placed and     *)
(* Received are the rest of the user's own feed, with no more to them, so  *)
(* the list the model follows is Missed: it is shared by the members of a  *)
(* queue, and pieced together from the feeds of all of them.               *)
(*                                                                         *)
(* A request reads the user's own feed, then the queues one by one, then   *)
(* the feeds of the co-members one by one.  wazo-call-logd, which logs a   *)
(* call when it ends, and wazo-confd, which knows the queues, go on        *)
(* changing between those calls.  The code keeps no state.                 *)
(***************************************************************************)
EXTENDS Integers, FiniteSets

CONSTANTS
    Users, Outside,  \* the parties of calls
    Phones,          \* the users whose phones ask
    Calls,           \* [start, from, to, answered]: to holds the destination
                     \* and the requested user
    Wall,            \* what the clock on the wall shows at the start of a call
    Limit,           \* _CDR_LIMIT
    Queues,
    MaxScanned       \* _MAX_QUEUES_SCANNED

ASSUME CallsAssumption ==
    /\ Outside \notin Users
    /\ Phones \subseteq Users
    /\ \A c \in Calls :
        /\ c.start \in Nat /\ Wall[c.start] \in Nat
        /\ c.from \in Users \union {Outside}
        /\ c.to \subseteq Users
        /\ c.answered \in BOOLEAN
    /\ \A c, d \in Calls : Wall[c.start] = Wall[d.start] => c.start = d.start
    /\ IsFiniteSet(Calls) /\ IsFiniteSet(Queues)
    /\ Limit \in Nat \ {0}
    /\ MaxScanned \in Nat \ {0}

VARIABLES
    log,         \* wazo-call-logd: the calls that are over
    queues,      \* wazo-confd: the members of each queue
    pc, status,  \* where the request of each phone is, how the last one ended
    own,         \* the user's own feed
    scan,        \* the queues still to be looked at
    comembers,   \* the co-members found, and the user
    left,        \* those whose feed is still to be read
    heard,       \* the shared misses of the feeds read
    missed,      \* the Missed list of the answer
    before,      \* history: the calls logged when the request began
    scanned,     \* history: the queues it looks at
    mates,       \* history: who shared a queue with the user since then
    steady       \* history: queues and members that shared it all the while

vars == <<log, queues, pc, status, own, scan, comembers, left, heard, missed,
          before, scanned, mates, steady>>
world == <<log, queues>>
watched == <<before, scanned, mates, steady>>

TypeOK ==
    /\ log \subseteq Calls
    /\ queues \in [Queues -> SUBSET Users]
    /\ pc \in [Phones -> {"idle", "own", "queues", "scan", "feeds"}]
    /\ status \in [Phones -> {"none", "personal", "shared", "500"}]
    /\ \A p \in Phones :
        /\ own[p] \subseteq log /\ heard[p] \subseteq log /\ missed[p] \subseteq log
        /\ before[p] \subseteq log
        /\ scan[p] \subseteq scanned[p] /\ scanned[p] \subseteq Queues
        /\ comembers[p] # {} => p \in comembers[p]
        /\ left[p] \subseteq comembers[p] \ {p}
        /\ comembers[p] \subseteq mates[p] /\ mates[p] \subseteq Users
        /\ steady[p] \subseteq Queues \X Users
        /\ pc[p] = "feeds" => comembers[p] # {}

Init ==
    /\ log = {}
    /\ queues \in [Queues -> SUBSET Users]
    /\ pc = [p \in Phones |-> "idle"]
    /\ status = [p \in Phones |-> "none"]
    /\ own = [p \in Phones |-> {}]
    /\ scan = [p \in Phones |-> {}]
    /\ comembers = [p \in Phones |-> {}]
    /\ left = [p \in Phones |-> {}]
    /\ heard = [p \in Phones |-> {}]
    /\ missed = [p \in Phones |-> {}]
    /\ before = [p \in Phones |-> {}]
    /\ scanned = [p \in Phones |-> {}]
    /\ mates = [p \in Phones |-> {}]
    /\ steady = [p \in Phones |-> {}]

(***************************************************************************)
(* Calls and lists                                                         *)
(***************************************************************************)
PartyTo(u, c) == u = c.from \/ u \in c.to
After(c, S) == {d \in S : d.start > c.start}

(* What wazo-call-logd returns of a user: the newest calls, up to a limit. *)
FeedOf(u) ==
    LET all == {c \in log : PartyTo(u, c)}
    IN  {c \in all : Cardinality(After(c, all)) < Limit}

(* classify: a call is placed by its source, and otherwise received or     *)
(* missed by whom it was for.                                              *)
PersonalMisses(u, feed) == {c \in feed : c.from # u /\ u \in c.to /\ ~c.answered}

SharedMisses(feed) == {c \in feed : c.from = Outside /\ ~c.answered}

(* sorted(..., key=start, reverse=True)[:limit].  The timestamps are       *)
(* compared as strings, so what counts is the clock on the wall, which is  *)
(* not in the order of time when the offsets of two of them differ.        *)
Later(c, S) == {d \in S : Wall[d.start] > Wall[c.start]}
ShownOneShort(S) == {c \in S : Cardinality(Later(c, S)) + 1 < Limit}  \* mutated: [:limit - 1]
Shown(S) == {c \in S : Cardinality(Later(c, S)) < Limit}

(***************************************************************************)
(* The world around                                                        *)
(***************************************************************************)
MatesOf(p, members) == UNION {members[q] : q \in {x \in Queues : p \in members[x]}}

(* A call ends and is logged, perhaps after calls that began later.  No    *)
(* two begin at once, and each has a start.                                *)
Logged(c) ==
    /\ \A d \in log : d.start # c.start
    /\ log' = log \union {c}
    /\ UNCHANGED <<queues, pc, status, own, scan, comembers, left, heard, missed, watched>>

(* An administrator puts a user into a queue or takes them out of it.      *)
MembershipChanges(q, u) ==
    /\ queues' = [queues EXCEPT ![q] = IF u \in @ THEN @ \ {u} ELSE @ \union {u}]
    /\ mates' = [p \in Phones |->
          IF pc[p] = "idle" THEN mates[p] ELSE mates[p] \union MatesOf(p, queues')]
    /\ steady' = [p \in Phones |->
          IF pc[p] = "idle" THEN steady[p]
          ELSE {s \in steady[p] : {p, s[2]} \subseteq queues'[s[1]]}]
    /\ UNCHANGED <<log, pc, status, own, scan, comembers, left, heard, missed, before, scanned>>

(***************************************************************************)
(* A request                                                               *)
(***************************************************************************)
Begin(p) ==
    /\ pc[p] = "idle"
    /\ pc' = [pc EXCEPT ![p] = "own"]
    /\ status' = [status EXCEPT ![p] = "none"]
    /\ missed' = [missed EXCEPT ![p] = {}]
    /\ before' = [before EXCEPT ![p] = log]
    /\ scanned' = [scanned EXCEPT ![p] = {}]
    /\ mates' = [mates EXCEPT ![p] = MatesOf(p, queues)]
    /\ steady' = [steady EXCEPT ![p] =
          {s \in Queues \X Users : {p, s[2]} \subseteq queues[s[1]]}]
    /\ UNCHANGED <<world, own, scan, comembers, left, heard>>

(* The answer is made, and the request's local variables are gone.         *)
End(p, how, list) ==
    /\ pc' = [pc EXCEPT ![p] = "idle"]
    /\ status' = [status EXCEPT ![p] = how]
    /\ missed' = [missed EXCEPT ![p] = list]
    /\ own' = [own EXCEPT ![p] = {}]
    /\ scan' = [scan EXCEPT ![p] = {}]
    /\ comembers' = [comembers EXCEPT ![p] = {}]
    /\ left' = [left EXCEPT ![p] = {}]
    /\ heard' = [heard EXCEPT ![p] = {}]

ReadOwnFeed(p) ==
    /\ pc[p] = "own"
    /\ pc' = [pc EXCEPT ![p] = "queues"]
    /\ own' = [own EXCEPT ![p] = FeedOf(p)]
    /\ UNCHANGED <<world, status, scan, comembers, left, heard, missed, watched>>

(* The queues are listed, and cut to the first MaxScanned of them, in the  *)
(* order wazo-confd has.                                                   *)
ListQueues(p) ==
    /\ pc[p] = "queues"
    /\ \E first \in SUBSET Queues :
        /\ \/ Cardinality(first) = MaxScanned
           \/ first = Queues /\ Cardinality(Queues) < MaxScanned
        /\ scan' = [scan EXCEPT ![p] = first]
        /\ scanned' = [scanned EXCEPT ![p] = first]
    /\ pc' = [pc EXCEPT ![p] = "scan"]
    /\ UNCHANGED <<world, status, own, comembers, left, heard, missed, before, mates, steady>>

ReadQueueOfOthers(p, q) ==      \* mutated: collects the members of every queue
    /\ pc[p] = "scan"
    /\ q \in scan[p]
    /\ scan' = [scan EXCEPT ![p] = @ \ {q}]
    /\ comembers' = [comembers EXCEPT ![p] = @ \union queues[q]]
    /\ UNCHANGED <<world, pc, status, own, left, heard, missed, watched>>

(* The members of a queue count if the user is one of them.  When the      *)
(* summaries of the list carry the members, these steps follow each other  *)
(* at once.                                                                *)
ReadQueue(p, q) ==
    /\ pc[p] = "scan"
    /\ q \in scan[p]
    /\ scan' = [scan EXCEPT ![p] = @ \ {q}]
    /\ comembers' = [comembers EXCEPT ![p] =
          IF p \in queues[q] THEN @ \union queues[q] ELSE @]
    /\ UNCHANGED <<world, pc, status, own, left, heard, missed, watched>>

(* A user in no queue keeps the personal list, without another call.       *)
NoQueueSharesAnyway(p) ==      \* mutated: every phone is a reception phone
    /\ pc[p] = "scan"
    /\ scan[p] = {}
    /\ comembers[p] = {}
    /\ End(p, "personal", Shown(SharedMisses(own[p])))
    /\ UNCHANGED <<world, watched>>

NoQueue(p) ==
    /\ pc[p] = "scan"
    /\ scan[p] = {}
    /\ comembers[p] = {}
    /\ End(p, "personal", PersonalMisses(p, own[p]))
    /\ UNCHANGED <<world, watched>>

ReceptionWithSelf(p) ==      \* mutated: reads the own feed again
    /\ pc[p] = "scan"
    /\ scan[p] = {}
    /\ comembers[p] # {}
    /\ pc' = [pc EXCEPT ![p] = "feeds"]
    /\ left' = [left EXCEPT ![p] = comembers[p]]
    /\ heard' = [heard EXCEPT ![p] = SharedMisses(own[p])]
    /\ UNCHANGED <<world, status, own, scan, comembers, missed, watched>>

Reception(p) ==
    /\ pc[p] = "scan"
    /\ scan[p] = {}
    /\ comembers[p] # {}
    /\ pc' = [pc EXCEPT ![p] = "feeds"]
    /\ left' = [left EXCEPT ![p] = comembers[p] \ {p}]
    /\ heard' = [heard EXCEPT ![p] = SharedMisses(own[p])]
    /\ UNCHANGED <<world, status, own, scan, comembers, missed, watched>>

(* No grant, no connection, or a queue that went after the list: the list  *)
(* falls back to the personal one.                                         *)
QueuesFail(p) ==
    /\ pc[p] \in {"queues", "scan"}
    /\ pc[p] = "scan" => scan[p] # {}
    /\ End(p, "personal", PersonalMisses(p, own[p]))
    /\ UNCHANGED <<world, watched>>

ReadFeed(p, u) ==
    /\ pc[p] = "feeds"
    /\ u \in left[p]
    /\ left' = [left EXCEPT ![p] = @ \ {u}]
    /\ heard' = [heard EXCEPT ![p] = @ \union SharedMisses(FeedOf(u))]
    /\ UNCHANGED <<world, pc, status, own, scan, comembers, missed, watched>>

Share(p) ==
    /\ pc[p] = "feeds"
    /\ left[p] = {}
    /\ End(p, "shared", Shown(heard[p]))
    /\ UNCHANGED <<world, watched>>

(* A feed that fails has no fallback.                                      *)
FeedFails(p) ==
    /\ pc[p] = "own" \/ (pc[p] = "feeds" /\ left[p] # {})
    /\ End(p, "500", {})
    /\ UNCHANGED <<world, watched>>

Get(p) ==
    \/ Begin(p)
    \/ ReadOwnFeed(p) \/ ListQueues(p)
    \/ \E q \in Queues : ReadQueue(p, q)
    \/ NoQueue(p) \/ Reception(p) \/ QueuesFail(p)
    \/ \E u \in Users : ReadFeed(p, u)
    \/ Share(p) \/ FeedFails(p)

Next ==
    \/ \E c \in Calls : Logged(c)
    \/ \E q \in Queues, u \in Users : MembershipChanges(q, u)
    \/ \E p \in Phones : Get(p)

Spec == Init /\ [][Next]_vars

(***************************************************************************)
(* Properties                                                              *)
(***************************************************************************)
(* A call is missing from a list of a busy user: Limit later ones of the   *)
(* user were logged, and the feed was cut before anything was picked.      *)
CutFromFeed(u, c) == Cardinality({d \in After(c, log) : PartyTo(u, d)}) >= Limit

(* A call from outside that nobody answered is on the phone of everybody   *)
(* who shares a queue with one it was for: if it was logged before the     *)
(* request began and the two were in that queue all the while, it is in    *)
(* the shared list unless one of the two limits cut it off                 *)
(* (http.py:87-105, call_logs.py:150-169).                                 *)
SharedMissesAppear ==
    \A p \in Phones : status[p] = "shared" =>
        \A s \in steady[p], c \in before[p] :
            /\ s[1] \in scanned[p]
            /\ s[2] \in c.to /\ c.from = Outside /\ ~c.answered
            => \/ c \in missed[p]
               \/ CutFromFeed(s[2], c)
               \/ Cardinality(Later(c, missed[p])) >= Limit

(* Whatever the queues become while they are read, nobody is shown a call  *)
(* of somebody with whom they shared no queue since the request began      *)
(* (queues.py:85-92).                                                      *)
NobodyElsesCalls ==
    \A p \in Phones, c \in Calls :
        c \in missed[p] => p \in c.to \/ c.to \intersect mates[p] # {}

(* A plain desk phone is unaffected (queues.py:14-16): a user who was in   *)
(* no queue, or whose queues could not be read, keeps every miss of the    *)
(* own feed, calls of colleagues included.                                 *)
PersonalMissesKept ==
    \A p \in Phones :
        (pc[p] = "idle" /\ mates[p] = {} /\ status[p] # "500") \/ status[p] = "personal" =>
            \A c \in before[p] :
                p \in c.to /\ c.from # p /\ ~c.answered =>
                    c \in missed[p] \/ CutFromFeed(p, c)

=============================================================================
