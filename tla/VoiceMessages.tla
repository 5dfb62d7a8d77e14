---------------------------- MODULE VoiceMessages ----------------------------
(***************************************************************************)
(* The visual voicemail of wazo_phoned_optimogo: phones list, fetch, mark  *)
(* and delete messages through http.py and voicemail.py, which keep no     *)
(* state and no lock.  The boxes live in wazo-calld, the rights in         *)
(* wazo-confd; a request reads the personal box of its user, then the      *)
(* shared ones of the tenant, then one box after the other, then acts on   *)
(* what it read.  Between those calls other phones act, messages arrive,   *)
(* the webapp deletes and rights change.                                   *)
(*                                                                         *)
(* A request comes in by the rules of XsiRoutes.  One that is refused a    *)
(* user (401) or that no resource takes changes nothing and is no step.    *)
(***************************************************************************)
EXTENDS FiniteSets, XsiRoutes

CONSTANTS
    Phones,      \* each acting for the user its credential resolves to
    TenantOf,    \* of those users and of the boxes
    Folders,     \* the folder types each box has
    MaxMessages, \* bound on the messages left by callers
    None

(* The types the code tells apart; any other counts as read.               *)
FolderTypes == {"new", "urgent", "old", "other"}

ASSUME FoldersAssumption == Folders \in [Boxes -> SUBSET FolderTypes]
ASSUME FiniteAssumption == IsFiniteSet(Boxes) /\ IsFiniteSet(Keys)
ASSUME NoneAssumption == None \notin Boxes \union Requests

VARIABLES
    folder,      \* where each message is: a folder type, "unsent" or "gone"
    personal,    \* the box of each phone's user, None if it has none
    shared,      \* the boxes of access type global
    request, pc, \* what each phone asks, None if nothing, and where its request is
    reply,       \* how the last one ended
    left,        \* the boxes the request may read and has not read
    seen,        \* what it has read: messages with the folder they were in
    todo,        \* the messages it has still to move
    ever,        \* history: boxes its user could read while the rights were read
    always,      \* history: the rights that held all that while
    steady       \* history: messages nobody else touched since it began

vars == <<folder, personal, shared, request, pc, reply, left, seen, todo,
          ever, always, steady>>

Present(k) == folder[k] \notin {"unsent", "gone"}

(* Whom wazo-confd lets read which box.                                    *)
PersonalOf(p) == {personal[p]} \ {None}
SharedInAnyTenant(p) == shared      \* mutated: lists them recursively
SharedWith(p) == {b \in shared : TenantOf[b] = TenantOf[p]}
Rights(p) == ({"personal"} \X PersonalOf(p)) \union ({"shared"} \X SharedWith(p))
BoxesOf(granted) == {x[2] : x \in granted}

(* The messages nobody else touched since the request began, of boxes that *)
(* were its user's to read all the while the rights were read.             *)
Undisputed(p) == {k \in steady[p] :
                    pc[p] = "rights" => BoxOf(k) \in BoxesOf(always[p])}

TypeOK ==
    /\ folder \in [Keys -> FolderTypes \union {"unsent", "gone"}]
    /\ personal \in [Phones -> Boxes \union {None}]
    /\ shared \subseteq Boxes
    /\ request \in [Phones -> Requests \union {None}]
    /\ pc \in [Phones -> {"idle", "rights", "reading", "acting"}]
    /\ reply \in [Phones -> {"none", "200", "204", "404", "500", "503"}]
    /\ left \in [Phones -> SUBSET Boxes]
    /\ todo \in [Phones -> SUBSET Keys]
    /\ \A p \in Phones :
        /\ seen[p] \subseteq Keys \X FolderTypes
        /\ todo[p] \subseteq {s[1] : s \in seen[p]}
        /\ pc[p] = "acting" => todo[p] # {}
        /\ request[p] = None <=> pc[p] = "idle"

(* A personal box is in the tenant of its user.                            *)
MayOwn(p) == {b \in Boxes : TenantOf[b] = TenantOf[p]} \union {None}

Init ==
    /\ folder = [k \in Keys |-> "unsent"]
    /\ personal \in [Phones -> Boxes \union {None}]
    /\ \A p \in Phones : personal[p] \in MayOwn(p)
    /\ shared \in SUBSET Boxes
    /\ request = [p \in Phones |-> None]
    /\ pc = [p \in Phones |-> "idle"]
    /\ reply = [p \in Phones |-> "none"]
    /\ left = [p \in Phones |-> {}]
    /\ seen = [p \in Phones |-> {}]
    /\ todo = [p \in Phones |-> {}]
    /\ ever = [p \in Phones |-> {}]
    /\ always = [p \in Phones |-> {}]
    /\ steady = [p \in Phones |-> {}]

rights == <<personal, shared>>
requests == <<request, pc, reply, left, seen, todo, ever, always>>

ReadFolderOnlyNew(f) == f # "new"      \* mutated: forgets the urgent folder
ReadFolder(f) == f \notin {"new", "urgent"}

(* What p's request touches is steady for no other.                        *)
Touches(p, messages, kept) ==
    steady' = [q \in Phones |-> IF q = p THEN kept ELSE steady[q] \ messages]

(* The answer goes out and what the request held goes with it.             *)
End(p, status, messages) ==
    /\ pc' = [pc EXCEPT ![p] = "idle"]
    /\ reply' = [reply EXCEPT ![p] = status]
    /\ request' = [request EXCEPT ![p] = None]
    /\ left' = [left EXCEPT ![p] = {}]
    /\ seen' = [seen EXCEPT ![p] = {}]
    /\ todo' = [todo EXCEPT ![p] = {}]
    /\ ever' = [ever EXCEPT ![p] = {}]
    /\ always' = [always EXCEPT ![p] = {}]
    /\ Touches(p, messages, {})

(***************************************************************************)
(* The world around                                                        *)
(***************************************************************************)
(* A caller's message is new or urgent.                                    *)
Arrive(k) ==
    /\ folder[k] = "unsent"
    /\ Cardinality({x \in Keys : folder[x] # "unsent"}) < MaxMessages
    /\ \E f \in Folders[BoxOf(k)] \intersect {"new", "urgent"} : folder' = [folder EXCEPT ![k] = f]
    /\ UNCHANGED <<rights, requests, steady>>

DeletedElsewhere(k) ==
    /\ Present(k)
    /\ folder' = [folder EXCEPT ![k] = "gone"]
    /\ steady' = [p \in Phones |-> steady[p] \ {k}]
    /\ UNCHANGED <<rights, requests>>

MarkedElsewhere(k) ==
    /\ Present(k)
    /\ \E f \in Folders[BoxOf(k)] \ {folder[k]} : folder' = [folder EXCEPT ![k] = f]
    /\ steady' = [p \in Phones |-> steady[p] \ {k}]
    /\ UNCHANGED <<rights, requests>>

RightsWatched ==
    /\ UNCHANGED <<folder, request, pc, reply, left, seen, todo, steady>>
    /\ ever' = [p \in Phones |-> IF pc[p] = "rights"
                                 THEN ever[p] \union BoxesOf(Rights(p)') ELSE ever[p]]
    /\ always' = [p \in Phones |-> IF pc[p] = "rights"
                                   THEN always[p] \intersect Rights(p)' ELSE always[p]]

PersonalGoes(p, b) ==
    /\ personal' = [personal EXCEPT ![p] = b]
    /\ UNCHANGED shared
    /\ RightsWatched

SharedOrNot(b) ==
    /\ shared' = IF b \in shared THEN shared \ {b} ELSE shared \union {b}
    /\ UNCHANGED personal
    /\ RightsWatched

(***************************************************************************)
(* A request                                                               *)
(***************************************************************************)
(* It reads the personal box of its user.                                  *)
Begin(p, r) ==
    /\ pc[p] = "idle"
    /\ request' = [request EXCEPT ![p] = r]
    /\ pc' = [pc EXCEPT ![p] = "rights"]
    /\ reply' = [reply EXCEPT ![p] = "none"]
    /\ left' = [left EXCEPT ![p] = PersonalOf(p)]
    /\ ever' = [ever EXCEPT ![p] = BoxesOf(Rights(p))]
    /\ always' = [always EXCEPT ![p] = Rights(p)]
    /\ Touches(p, {}, {k \in Keys : Present(k)})
    /\ UNCHANGED <<folder, rights, seen, todo>>

Admitted(r, boxes) == IF Keyed(r) THEN {BoxOf(r.key)} \intersect boxes ELSE boxes

(* It reads the shared boxes of the tenant.  One that names a message goes *)
(* on to that message's box, if it is among them.                          *)
ReadShared(p) ==
    LET boxes == Admitted(request[p], left[p] \union SharedWith(p)) IN
    /\ pc[p] = "rights"
    /\ IF Keyed(request[p]) /\ boxes = {}
       THEN End(p, "404", {})
       ELSE /\ pc' = [pc EXCEPT ![p] = "reading"]
            /\ left' = [left EXCEPT ![p] = boxes]
            /\ ever' = [ever EXCEPT ![p] = @ \intersect boxes]
            /\ always' = [always EXCEPT ![p] = {}]
            /\ Touches(p, {}, Undisputed(p))
            /\ UNCHANGED <<request, reply, seen, todo>>
    /\ UNCHANGED <<folder, rights>>

ContentsOfUnread(b) ==      \* mutated: reads the unread folders only
    {<<k, folder[k]>> : k \in {x \in Keys : BoxOf(x) = b /\ folder[x] \in {"new", "urgent"}}}
Contents(b) == {<<k, folder[k]>> : k \in {x \in Keys : BoxOf(x) = b /\ Present(x)}}

UnreadOnly(r, contents) ==      \* mutated: finds unread messages only
    {r.key} \intersect {s[1] : s \in {x \in contents : ~ReadFolder(x[2])}}
Found(r, contents) == {r.key} \intersect {s[1] : s \in contents}

AnyState(r, f) == TRUE      \* mutated: moves every message
OtherState(r, f) == ReadFolder(f) # (r.to = "old")

(* What of a box's contents the request acts on.                           *)
Wanted(r, contents) ==
    IF r.op = "list" THEN {}
    ELSE IF r.op = "markall"
    THEN {s[1] : s \in {x \in contents : OtherState(r, x[2])}}
    ELSE Found(r, contents)

HasWorkAlways(messages) == TRUE      \* mutated: acts on a box with nothing to do
HasWork(messages) == messages # {}

(* It reads a box.  A message that is not in it is answered 404.           *)
ReadBox(p, b) ==
    LET found == Wanted(request[p], Contents(b)) IN
    /\ pc[p] = "reading" /\ b \in left[p]
    /\ IF Keyed(request[p]) /\ found = {}
       THEN End(p, "404", {})
       ELSE /\ left' = [left EXCEPT ![p] = @ \ {b}]
            /\ seen' = [seen EXCEPT ![p] = @ \union Contents(b)]
            /\ todo' = [todo EXCEPT ![p] = found]
            /\ pc' = [pc EXCEPT ![p] = IF HasWork(found) THEN "acting" ELSE "reading"]
            /\ UNCHANGED <<request, reply, ever, always, steady>>
    /\ UNCHANGED <<folder, rights>>

(* No box is left.                                                         *)
Finish(p) ==
    /\ pc[p] = "reading"
    /\ left[p] = {}
    /\ End(p, IF request[p].op = "list" THEN "200" ELSE "204", {})
    /\ UNCHANGED <<folder, rights>>

Acts(p, k, ops) ==
    /\ pc[p] = "acting" /\ k \in todo[p]
    /\ request[p].op \in ops
    /\ UNCHANGED rights

Play(p, k) ==
    /\ Acts(p, k, {"play"})
    /\ Present(k)
    /\ End(p, "200", {})
    /\ UNCHANGED folder

Delete(p, k) ==
    /\ Acts(p, k, {"delete"})
    /\ Present(k)
    /\ folder' = [folder EXCEPT ![k] = "gone"]
    /\ End(p, "204", {k})

NoFolder(p, k) ==
    /\ request[p].op \in {"mark", "markall"}
    /\ request[p].to \notin Folders[BoxOf(k)]

(* mark and mark-all move the message to the folder of its box.            *)
Mark(p, k) ==
    /\ Acts(p, k, {"mark"})
    /\ ~NoFolder(p, k) /\ Present(k)
    /\ folder' = [folder EXCEPT ![k] = request[p].to]
    /\ End(p, "204", {k})

MarkNext(p, k) ==
    /\ Acts(p, k, {"markall"})
    /\ ~NoFolder(p, k) /\ Present(k)
    /\ folder' = [folder EXCEPT ![k] = request[p].to]
    /\ todo' = [todo EXCEPT ![p] = @ \ {k}]
    /\ pc' = [pc EXCEPT ![p] = IF todo'[p] = {} THEN "reading" ELSE "acting"]
    /\ Touches(p, {k}, steady[p])
    /\ UNCHANGED <<request, reply, left, seen, ever, always>>

(* The box has no such folder: 503, with whatever a mark-all has moved.    *)
NoSuchFolder(p, k) ==
    /\ Acts(p, k, {"mark", "markall"})
    /\ NoFolder(p, k)
    /\ End(p, "503", {})
    /\ UNCHANGED folder

(* The message went since the box was read: wazo-calld answers 404, the    *)
(* client raises, and nothing catches it.                                  *)
WentMeanwhile(p, k) ==
    /\ Acts(p, k, {"play", "delete", "mark", "markall"})
    /\ ~Present(k) /\ ~NoFolder(p, k)
    /\ End(p, "500", {})
    /\ UNCHANGED folder

(* A call to wazo-confd or wazo-calld fails.                               *)
BackendFails(p) ==
    /\ pc[p] = "rights" \/ left[p] # {} \/ todo[p] # {}
    /\ End(p, "500", {})
    /\ UNCHANGED <<folder, rights>>

(* The call deletes or moves the message and its answer is lost.           *)
AnswerLost(p, k) ==
    /\ Acts(p, k, {"delete", "mark", "markall"})
    /\ ~NoFolder(p, k) /\ Present(k)
    /\ folder' = [folder EXCEPT ![k] = IF request[p].op = "delete" THEN "gone" ELSE request[p].to]
    /\ End(p, "500", {k})

Serve(p) ==
    \/ ReadShared(p)
    \/ \E b \in Boxes : ReadBox(p, b)
    \/ Finish(p)
    \/ \E k \in Keys : Play(p, k) \/ Delete(p, k) \/ Mark(p, k) \/ MarkNext(p, k)
                       \/ NoSuchFolder(p, k) \/ WentMeanwhile(p, k) \/ AnswerLost(p, k)

(* What of it all a phone asks of its voicemail.                           *)
AskedOfVoicemail == Requests \intersect Askable

Next ==
    \/ \E k \in Keys : Arrive(k) \/ DeletedElsewhere(k) \/ MarkedElsewhere(k)
    \/ \E b \in Boxes : SharedOrNot(b)
    \/ \E p \in Phones :
        \/ \E b \in MayOwn(p) : PersonalGoes(p, b)
        \/ \E r \in AskedOfVoicemail : Begin(p, r)
        \/ Serve(p) \/ BackendFails(p)

Spec == Init /\ [][Next]_vars

(***************************************************************************)
(* Properties                                                              *)
(***************************************************************************)
Answers(p, op, status) ==
    pc[p] # "idle" /\ request[p].op \in op /\ pc'[p] = "idle" /\ reply'[p] = status

(* The links of a list lead back to its messages, though the phone lists   *)
(* under another spelling than the link's, and the place of the key is     *)
(* also that of the mark-all actions (routes.py:29-36, 65-67,              *)
(* xml.py:39-44, 88-90, voicemail.py:66-85).                               *)
LinksLeadBack ==
    \A p \in Phones : \A s \in seen[p] : s[1] \in LeadBack

(* Whether a message is read, as the phone shows it.                       *)
Heard(f) == f \in {"old", "other"}

(* A list shows every message that sat untouched in a readable box while   *)
(* it was made, with the read marker the message has, though rights and    *)
(* boxes are read one after the other (http.py:177-194).                   *)
ListIsComplete ==
    [][\A p \in Phones : Answers(p, {"list"}, "200") =>
          \A k \in Undisputed(p) : <<k, folder[k]>> \in seen[p]]_vars

(* A mark-all that is answered 204 has reached every message that sat      *)
(* untouched in a readable box, urgent ones too, and a mark its message:   *)
(* each is read or unread as was asked, so that the phone never shows a    *)
(* state the server did not apply (http.py:227-240, 354-363,               *)
(* voicemail.py:127).                                                      *)
MarksAreApplied ==
    [][\A p \in Phones : Answers(p, {"mark", "markall"}, "204") =>
          \A k \in Undisputed(p) :
             request[p].op = "markall" \/ request[p].key = k =>
                Heard(folder'[k]) <=> request[p].to = "old"]_vars

(* A message that sat untouched in a readable box is never said to be      *)
(* missing, and only requests for one are answered so (http.py:196-216).   *)
NeverFalselyMissing ==
    [][\A p \in Phones : pc[p] # "idle" /\ reply'[p] = "404" =>
          Keyed(request[p]) /\ request[p].key \notin Undisputed(p)]_vars

(* Whatever a request sees is of a box its user could read at some moment  *)
(* while the rights were read, and of the user's tenant (http.py:172-187,  *)
(* 201-211).                                                               *)
NobodyElsesBoxes ==
    \A p \in Phones : \A s \in seen[p] :
        BoxOf(s[1]) \in ever[p] /\ TenantOf[BoxOf(s[1])] = TenantOf[p]

(* A request changes the message it names and nothing else, a mark-all     *)
(* only what was unread, or read, and should not be, when the box was      *)
(* read, and both only what they have seen (http.py:201-216, 237-240).     *)
OnlyWhatWasAsked ==
    [][\A p \in Phones, k \in Keys :
          folder'[k] # folder[k] /\ <<pc[p], todo[p]>>' # <<pc[p], todo[p]>> =>
              /\ Keyed(request[p]) => request[p].key = k
              /\ \E s \in seen[p] :
                    /\ s[1] = k
                    /\ request[p].op = "markall" =>
                          Heard(s[2]) # (request[p].to = "old")]_vars

=============================================================================
