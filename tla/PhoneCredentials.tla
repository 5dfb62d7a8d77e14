-------------------------- MODULE PhoneCredentials --------------------------
(***************************************************************************)
(* For whom a phone asks: auth.py of wazo_phoned_optimogo.  Every request  *)
(* for a call log or a voicemail carries the SIP credential of the phone.  *)
(* Three reads of wazo-confd lead from it to a user: the endpoint of that  *)
(* name, the whole of that endpoint, and the line it is on.  Nothing is    *)
(* kept from one request to the next.                                      *)
(*                                                                         *)
(* Between two reads administrators replace and rename endpoints, change   *)
(* passwords, and give lines to other endpoints and other users.           *)
(*                                                                         *)
(* A text in which colons matter is the sequence of its words between      *)
(* them: a password without a colon is one word.                           *)
(***************************************************************************)
EXTENDS Integers, Sequences, FiniteSets

CONSTANTS
    Phones,
    Names, Words, Passwords,
    Ascii,       \* the words hmac.compare_digest can compare
    Headers,     \* what phones send in the Authorization header
    Endpoints,
    Settings,    \* the names and authentication settings endpoints are given
    Lines, Users,
    TenantOf,    \* of endpoints, lines and users
    None

ASSUME CredentialsAssumption ==
    /\ None \notin Names \union Passwords \union Endpoints \union Lines \union Users
    /\ \A w \in Passwords : w \in Seq(Words) /\ w # <<>>
    /\ Settings \subseteq
         [name : Names, username : Names \union {None}, password : Passwords \union {None}]
    /\ None \notin Settings
    /\ \A h \in Headers :
         h.sipUser \in Names \union {None} /\ h.password \in Passwords
         /\ h.xsiUser \in Seq(Words)

VARIABLES
    auth,        \* the settings of each endpoint, None if there is no such endpoint
    lineOf,      \* the line each endpoint is on
    userOf,      \* the first user of each line
    pc, reply,   \* where the request of each phone is, how the last one ended
    header,      \* what it carries
    at,          \* the endpoint it has found
    line,        \* the line it has found
    user, tenant,  \* whom it is served as, and where
    valid,       \* history: endpoints and lines the credential was good for
    linked,      \* history: lines and users that went together
    steady       \* history: the endpoint, line and user it led to all the while

vars == <<auth, lineOf, userOf, pc, reply, header, at, line, user, tenant,
          valid, linked, steady>>
directory == <<auth, lineOf, userOf>>
found == <<header, at, line>>
watched == <<valid, linked, steady>>

(* The header holds two values in base64: the endpoint's name, None if it  *)
(* is missing, empty or garbled, and <user>:<password>.  Both halves may   *)
(* hold colons of their own, and nothing tells which colon is the one in   *)
(* between: what follows the last one is taken for the password.           *)
Pieces(h) == h.xsiUser \o h.password
WellFormed(h) ==
    h.scheme = "BroadWorksSIP" /\ h.sipUser # None /\ Len(Pieces(h)) >= 2

PasswordAfterFirst(h) == Tail(Pieces(h))      \* mutated: split at the first colon
PasswordIn(h) == <<Pieces(h)[Len(Pieces(h))]>>

(* What was sent opens an endpoint if it can be read as a user, a colon    *)
(* and the password of that endpoint.                                      *)
Opens(e, h) ==
    /\ auth[e] # None
    /\ auth[e].username = h.sipUser
    /\ \E i \in 2 .. Len(Pieces(h)) :
         auth[e].password = SubSeq(Pieces(h), i, Len(Pieces(h)))

(* The phone's own endpoint: its name and the password as it was typed in. *)
IsItsOwn(e, h) ==
    auth[e] = [name |-> h.sipUser, username |-> h.sipUser, password |-> h.password]

(***************************************************************************)
(* What holds in the directory now.                                        *)
(***************************************************************************)
ValidFor(h) == {w \in Endpoints \X Lines : Opens(w[1], h) /\ lineOf[w[1]] = w[2]}
Linked == {w \in Lines \X Users : userOf[w[1]] = w[2]}
ChainsOf(h) == {w \in Endpoints \X Lines \X Users :
                  /\ IsItsOwn(w[1], h)
                  /\ lineOf[w[1]] = w[2] /\ userOf[w[2]] = w[3]}

TypeOK ==
    /\ auth \in [Endpoints -> Settings \union {None}]
    /\ lineOf \in [Endpoints -> Lines \union {None}]
    /\ userOf \in [Lines -> Users \union {None}]
    /\ pc \in [Phones -> {"idle", "found", "known"}]
    /\ reply \in [Phones -> {"none", "served", "401", "500"}]
    /\ header \in [Phones -> Headers]
    /\ at \in [Phones -> Endpoints \union {None}]
    /\ line \in [Phones -> Lines \union {None}]
    /\ user \in [Phones -> Users \union {None}]
    /\ \A p \in Phones :
        /\ pc[p] # "idle" => WellFormed(header[p]) /\ at[p] # None /\ reply[p] = "none"
        /\ pc[p] = "known" => line[p] # None
        /\ reply[p] = "served" <=> user[p] # None

(* wazo-confd's own rules: one endpoint for a name, one endpoint on a      *)
(* line, and all of one tenant.                                            *)
DirectoryOK ==
    /\ \A e, f \in Endpoints :
        /\ auth[e] # None /\ auth[f] # None /\ auth[e].name = auth[f].name => e = f
        /\ lineOf[e] # None /\ lineOf[e] = lineOf[f] => e = f
    /\ \A e \in Endpoints :
        lineOf[e] # None => auth[e] # None /\ TenantOf[lineOf[e]] = TenantOf[e]
    /\ \A l \in Lines : userOf[l] # None => TenantOf[userOf[l]] = TenantOf[l]

Init ==
    /\ auth \in [Endpoints -> Settings \union {None}]
    /\ lineOf \in [Endpoints -> Lines \union {None}]
    /\ userOf \in [Lines -> Users \union {None}]
    /\ DirectoryOK
    /\ pc = [p \in Phones |-> "idle"]
    /\ reply = [p \in Phones |-> "none"]
    /\ header \in [Phones -> Headers]
    /\ at = [p \in Phones |-> None]
    /\ line = [p \in Phones |-> None]
    /\ user = [p \in Phones |-> None]
    /\ tenant = [p \in Phones |-> None]
    /\ valid = [p \in Phones |-> {}]
    /\ linked = [p \in Phones |-> {}]
    /\ steady = [p \in Phones |-> {}]

(***************************************************************************)
(* The administrators                                                      *)
(***************************************************************************)
(* Any change of the directory that keeps its rules.                       *)
Changed ==
    /\ UNCHANGED <<pc, reply, found, user, tenant>>
    /\ DirectoryOK'
    /\ valid' = [p \in Phones |-> IF pc[p] = "idle" THEN valid[p]
                                  ELSE valid[p] \union ValidFor(header[p])']
    /\ linked' = [p \in Phones |-> IF pc[p] = "idle" THEN linked[p]
                                   ELSE linked[p] \union Linked']
    /\ steady' = [p \in Phones |-> IF pc[p] = "idle" THEN steady[p]
                                   ELSE steady[p] \intersect ChainsOf(header[p])']

(* An endpoint is created, deleted, renamed, or given other settings.      *)
EndpointChanges(e) ==
    /\ \E s \in Settings \union {None} : auth' = [auth EXCEPT ![e] = s]
    /\ lineOf' = [lineOf EXCEPT ![e] = IF auth'[e] = None THEN None ELSE @]
    /\ UNCHANGED userOf
    /\ Changed

LineGoesTo(e, l) ==
    /\ lineOf' = [lineOf EXCEPT ![e] = l]
    /\ UNCHANGED <<auth, userOf>>
    /\ Changed

UserGoesTo(l, u) ==
    /\ userOf' = [userOf EXCEPT ![l] = u]
    /\ UNCHANGED <<auth, lineOf>>
    /\ Changed

(***************************************************************************)
(* A request                                                               *)
(***************************************************************************)
End(p, status) ==
    /\ pc' = [pc EXCEPT ![p] = "idle"]
    /\ reply' = [reply EXCEPT ![p] = status]

Refuse(p) == End(p, "401") /\ UNCHANGED <<directory, found, user, tenant, watched>>
Fail(p) == End(p, "500") /\ UNCHANGED <<directory, found, user, tenant, watched>>

(* The header is parsed and the endpoints of that name are listed.         *)
Begin(p, h) ==
    /\ pc[p] = "idle"
    /\ header' = [header EXCEPT ![p] = h]
    /\ valid' = [valid EXCEPT ![p] = IF WellFormed(h) THEN ValidFor(h) ELSE {}]
    /\ linked' = [linked EXCEPT ![p] = Linked]
    /\ steady' = [steady EXCEPT ![p] = IF WellFormed(h) THEN ChainsOf(h) ELSE {}]
    /\ line' = [line EXCEPT ![p] = None]
    /\ user' = [user EXCEPT ![p] = None]
    /\ tenant' = [tenant EXCEPT ![p] = None]
    /\ LET named == {e \in Endpoints : auth[e] # None /\ auth[e].name = h.sipUser} IN
       \/ /\ WellFormed(h)
          /\ \E e \in named : at' = [at EXCEPT ![p] = e]
          /\ pc' = [pc EXCEPT ![p] = "found"]
          /\ reply' = [reply EXCEPT ![p] = "none"]
       \/ /\ WellFormed(h) => named = {}
          /\ at' = [at EXCEPT ![p] = None]
          /\ End(p, "401")
    /\ UNCHANGED directory

(* The endpoint is read.  It may have gone since it was listed; its        *)
(* settings may be those of another name or hold no password; a password   *)
(* that is not ASCII, here or there, cannot be compared and raises.        *)
Named(p) == auth[at[p]].username = header[p].sipUser /\ auth[at[p]].password # None
Comparable(p) ==
    \A password \in {auth[at[p]].password, PasswordIn(header[p])} :
        \A i \in DOMAIN password : password[i] \in Ascii

RightPasswordOnly(p) ==      \* mutated: takes the name for granted
    auth[at[p]].password # None /\ Comparable(p)
    /\ auth[at[p]].password = PasswordIn(header[p])
Right(p) == Named(p) /\ Comparable(p) /\ auth[at[p]].password = PasswordIn(header[p])

EndpointGone(p) ==
    /\ pc[p] = "found" /\ auth[at[p]] = None
    /\ Fail(p)

Incomparable(p) ==
    /\ pc[p] = "found" /\ auth[at[p]] # None
    /\ Named(p) /\ ~Comparable(p)
    /\ Fail(p)

WrongCredential(p) ==
    /\ pc[p] = "found" /\ auth[at[p]] # None
    /\ ~Right(p)
    /\ ~(Named(p) /\ ~Comparable(p))
    /\ Refuse(p)

NoLine(p) ==
    /\ pc[p] = "found" /\ auth[at[p]] # None
    /\ Right(p) /\ lineOf[at[p]] = None
    /\ Refuse(p)

LineKnownOrNot(p) ==      \* mutated: goes on without a line
    /\ pc[p] = "found" /\ auth[at[p]] # None
    /\ Right(p)
    /\ line' = [line EXCEPT ![p] = lineOf[at[p]]]
    /\ pc' = [pc EXCEPT ![p] = "known"]
    /\ UNCHANGED <<directory, reply, header, at, user, tenant, watched>>

LineKnown(p) ==
    /\ pc[p] = "found" /\ auth[at[p]] # None
    /\ Right(p) /\ lineOf[at[p]] # None
    /\ line' = [line EXCEPT ![p] = lineOf[at[p]]]
    /\ pc' = [pc EXCEPT ![p] = "known"]
    /\ UNCHANGED <<directory, reply, header, at, user, tenant, watched>>

(* The line is read: its first user, in the tenant of the endpoint.        *)
NoUser(p) ==
    /\ pc[p] = "known" /\ userOf[line[p]] = None
    /\ Refuse(p)

Resolved(p) ==
    /\ pc[p] = "known" /\ userOf[line[p]] # None
    /\ user' = [user EXCEPT ![p] = userOf[line[p]]]
    /\ tenant' = [tenant EXCEPT ![p] = TenantOf[at[p]]]
    /\ End(p, "served")
    /\ UNCHANGED <<directory, found, watched>>

(* wazo-confd cannot be reached, or has lost the line.                     *)
ConfdFails(p) ==
    /\ pc[p] # "idle"
    /\ Fail(p)

Resolve(p) ==
    \/ \E h \in Headers : Begin(p, h)
    \/ EndpointGone(p) \/ Incomparable(p) \/ WrongCredential(p)
    \/ NoLine(p) \/ LineKnown(p)
    \/ NoUser(p) \/ Resolved(p)
    \/ ConfdFails(p)

Next ==
    \/ \E e \in Endpoints : EndpointChanges(e)
    \/ \E e \in Endpoints, l \in Lines \union {None} : LineGoesTo(e, l)
    \/ \E l \in Lines, u \in Users \union {None} : UserGoesTo(l, u)
    \/ \E p \in Phones : Resolve(p)

Spec == Init /\ [][Next]_vars

(***************************************************************************)
(* Properties                                                              *)
(***************************************************************************)
(* A phone is served as a user who was on the line that an endpoint had    *)
(* when the credential it sent opened it, each at some moment of this      *)
(* request, and in the tenant the user lives in, though endpoint, line and *)
(* user are read one after the other and the tenant is taken from the      *)
(* first of them (auth.py:104-142).                                        *)
ServedByItsLine ==
    \A p \in Phones : reply[p] = "served" =>
        \E w \in valid[p] :
            /\ <<w[2], user[p]>> \in linked[p]
            /\ tenant[p] = TenantOf[w[1]]
            /\ tenant[p] = TenantOf[user[p]]

(* Whatever else administrators do meanwhile, a phone whose own endpoint   *)
(* leads to one user all the while is never asked for another credential,  *)
(* and is served as that user, if its password holds no colon; colons in   *)
(* the name it sends before the password do not matter (auth.py:92-97,     *)
(* 113-142).                                                               *)
NeverFalselyRefused ==
    \A p \in Phones : Len(header[p].password) = 1 =>
        \A w \in steady[p] :
            /\ reply[p] # "401"
            /\ reply[p] = "served" => user[p] = w[3]

=============================================================================
