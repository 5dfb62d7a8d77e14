-------------------------- MODULE CredentialProofs --------------------------
(***************************************************************************)
(* Proofs about PhoneCredentials, for any phones, endpoints, lines and     *)
(* users: whoever a request is served as was on the line of an endpoint    *)
(* its credential opened, and a good credential whose password holds no    *)
(* colon is not refused.                                                   *)
(***************************************************************************)
EXTENDS PhoneCredentials, SequenceTheorems, TLAPS

(* What the watched facts say of the directory while a request is on.      *)
Watches(p) ==
    pc[p] # "idle" =>
        /\ ValidFor(header[p]) \subseteq valid[p]
        /\ Linked \subseteq linked[p]
        /\ steady[p] \subseteq ChainsOf(header[p])

(* What the request has found belongs to its credential.                   *)
Course(p) ==
    /\ pc[p] = "found" =>
        \A w \in steady[p] : w[1] = at[p]
    /\ pc[p] = "known" =>
        /\ <<at[p], line[p]>> \in valid[p]
        /\ TenantOf[at[p]] = TenantOf[line[p]]
        /\ \A w \in steady[p] : w[2] = line[p]

Served(p) == reply[p] = "served" =>
    \E w \in valid[p] :
        /\ <<w[2], user[p]>> \in linked[p]
        /\ tenant[p] = TenantOf[w[1]]
        /\ tenant[p] = TenantOf[user[p]]

Kept(p) == Len(header[p].password) = 1 =>
    \A w \in steady[p] :
        /\ reply[p] # "401"
        /\ reply[p] = "served" => user[p] = w[3]

PhoneInv(p) == Watches(p) /\ Course(p) /\ Served(p) /\ Kept(p)

HistoryOK ==
    /\ tenant \in [Phones -> {TenantOf[e] : e \in Endpoints} \union {None}]
    /\ valid \in [Phones -> SUBSET (Endpoints \X Lines)]
    /\ linked \in [Phones -> SUBSET (Lines \X Users)]
    /\ steady \in [Phones -> SUBSET (Endpoints \X Lines \X Users)]

CredentialInv ==
    /\ TypeOK
    /\ HistoryOK
    /\ DirectoryOK
    /\ \A p \in Phones : PhoneInv(p)

-----------------------------------------------------------------------------
(* A header is a sequence of words that ends in the password.              *)
LEMMA PiecesOf ==
    ASSUME NEW h \in Headers
    PROVE  /\ h.xsiUser \in Seq(Words) /\ h.password \in Passwords
           /\ h.password \in Seq(Words) /\ h.password # <<>>
           /\ Pieces(h) \in Seq(Words)
           /\ Len(Pieces(h)) = Len(h.xsiUser) + Len(h.password)
           /\ Pieces(h)[Len(Pieces(h))] = h.password[Len(h.password)]
<1>1. /\ h.xsiUser \in Seq(Words) /\ h.password \in Passwords
      /\ h.password \in Seq(Words) /\ h.password # <<>>
    BY CredentialsAssumption
<1>2. Len(h.password) \in Nat \ {0} /\ Len(h.xsiUser) \in Nat
    BY <1>1, EmptySeq
<1> DEFINE all == h.xsiUser \o h.password
<1>3. /\ all \in Seq(Words) /\ Len(all) = Len(h.xsiUser) + Len(h.password)
      /\ \A i \in 1 .. Len(h.xsiUser) + Len(h.password) :
           all[i] = IF i <= Len(h.xsiUser) THEN h.xsiUser[i] ELSE h.password[i - Len(h.xsiUser)]
    BY <1>1, ConcatProperties
<1> HIDE DEF all
<1>4. all[Len(all)] = h.password[Len(h.password)]
    <2> DEFINE m == Len(h.xsiUser)
               n == Len(h.password)
    <2>1. m \in Nat /\ n \in Nat \ {0} /\ Len(all) = m + n
        BY <1>2, <1>3
    <2>2. \A i \in 1 .. m + n : all[i] = IF i <= m THEN h.xsiUser[i] ELSE h.password[i - m]
        BY <1>3
    <2> HIDE DEF m, n
    <2>3. m + n \in 1 .. m + n /\ ~(m + n <= m) /\ (m + n) - m = n
        BY <2>1
    <2>4. all[m + n] = h.password[n]
        BY <2>2, <2>3
    <2> QED BY <2>1, <2>4 DEF n
<1>5. Pieces(h) = all
    BY DEF Pieces, all
<1> QED BY <1>1, <1>3, <1>4, <1>5

(* The code takes what follows the last colon for the password, which is   *)
(* the whole of one that holds no colon, whatever precedes it.             *)
LEMMA PasswordIsLast ==
    ASSUME NEW h \in Headers, Len(h.password) = 1
    PROVE  PasswordIn(h) = h.password
<1>1. h.password \in Seq(Words) /\ PasswordIn(h) = <<h.password[1]>>
    BY PiecesOf DEF PasswordIn
<1> QED BY <1>1

(* What the code takes for the password ends what was sent.                *)
LEMMA LastIsAnEnd ==
    ASSUME NEW h \in Headers, WellFormed(h)
    PROVE  \E i \in 2 .. Len(Pieces(h)) :
              PasswordIn(h) = SubSeq(Pieces(h), i, Len(Pieces(h)))
<1> DEFINE n == Len(Pieces(h))
<1>1. Pieces(h) \in Seq(Words) /\ n \in Nat /\ n >= 2
    <2>1. Pieces(h) \in Seq(Words)
        BY PiecesOf
    <2>2. n \in Nat
        BY <2>1, LenProperties
    <2> QED BY <2>1, <2>2 DEF WellFormed
<1>2. n \in 2 .. n
    BY <1>1
<1>3. SubSeq(Pieces(h), n, n) = <<Pieces(h)[n]>>
    <2> DEFINE sent == Pieces(h)
    <2>1. sent \in Seq(Words) /\ Len(sent) = n
        BY <1>1
    <2> HIDE DEF sent
    <2>2. sent[n] \in Words
        BY <1>1, <2>1, ElementOfSeq
    <2> HIDE DEF n
    <2>3. n \in Int /\ \A j \in n .. n : sent[j] \in Words
        BY <1>1, <2>2
    <2>4. /\ SubSeq(sent, n, n) \in Seq(Words) /\ Len(SubSeq(sent, n, n)) = 1
          /\ SubSeq(sent, n, n)[1] = sent[n]
        <3>1. /\ SubSeq(sent, n, n) \in Seq(Words)
              /\ Len(SubSeq(sent, n, n)) = n - n + 1
              /\ \A i \in 1 .. n - n + 1 : SubSeq(sent, n, n)[i] = sent[n + i - 1]
            BY <2>3, SubSeqProperties
        <3> QED BY <1>1, <3>1
    <2> DEFINE end == SubSeq(sent, n, n)
    <2>5. end \in Seq(Words) /\ Len(end) = 1 /\ end[1] = sent[n]
        BY <2>4
    <2> HIDE DEF end
    <2>6. end = <<sent[n]>>
        BY <2>5
    <2> QED BY <2>6 DEF sent, end
<1> QED BY <1>2, <1>3 DEF PasswordIn

(* What the code compares opens the endpoint.                              *)
LEMMA RightOpens ==
    ASSUME TypeOK, NEW p \in Phones, pc[p] = "found", auth[at[p]] # None, Right(p)
    PROVE  Opens(at[p], header[p])
<1>1. header[p] \in Headers /\ WellFormed(header[p])
    BY DEF TypeOK
<1>2. PICK i \in 2 .. Len(Pieces(header[p])) :
        PasswordIn(header[p]) = SubSeq(Pieces(header[p]), i, Len(Pieces(header[p])))
    BY <1>1, LastIsAnEnd
<1> QED BY <1>2 DEF Right, Named, Opens

(* A phone's own endpoint has the name and the password compared.          *)
LEMMA OwnIsRight ==
    ASSUME TypeOK, NEW p \in Phones, pc[p] = "found", IsItsOwn(at[p], header[p]),
           Len(header[p].password) = 1
    PROVE  Named(p) /\ auth[at[p]].password = PasswordIn(header[p])
<1>1. header[p] \in Headers
    BY DEF TypeOK
<1>2. PasswordIn(header[p]) = header[p].password /\ header[p].password \in Passwords
    BY <1>1, PasswordIsLast, PiecesOf
<1>3. None \notin Passwords
    BY CredentialsAssumption
<1> QED BY <1>2, <1>3 DEF Named, IsItsOwn

-----------------------------------------------------------------------------
LEMMA CredInit == Init => CredentialInv
<1> SUFFICES ASSUME Init PROVE CredentialInv
    OBVIOUS
<1>1. TypeOK
    BY DEF Init, TypeOK
<1>2. HistoryOK
    BY DEF Init, HistoryOK
<1>3. \A p \in Phones : PhoneInv(p)
    BY DEF Init, PhoneInv, Watches, Course, Served, Kept
<1> QED BY <1>1, <1>2, <1>3 DEF Init, CredentialInv

(* Administrators only add to what was valid and take from what was steady. *)
LEMMA DirectoryChanges ==
    ASSUME CredentialInv, Changed,
           auth' \in [Endpoints -> Settings \union {None}],
           lineOf' \in [Endpoints -> Lines \union {None}],
           userOf' \in [Lines -> Users \union {None}]
    PROVE  CredentialInv'
<1>1. TypeOK'
    BY DEF CredentialInv, TypeOK, Changed, found
<1>2. HistoryOK'
    BY DEF CredentialInv, HistoryOK, Changed, ValidFor, Linked, ChainsOf
<1>3. ASSUME NEW p \in Phones PROVE PhoneInv(p)'
    <2>1. PhoneInv(p)
        BY DEF CredentialInv
    <2>2. /\ UNCHANGED <<pc, reply, header, at, line, user, tenant>>
          /\ valid[p] \subseteq valid'[p]
          /\ linked[p] \subseteq linked'[p]
          /\ steady'[p] \subseteq steady[p]
        BY DEF Changed, found
    <2>3. Watches(p)'
        BY DEF Changed, found, Watches
    <2>4. Course(p)'
        BY <2>1, <2>2 DEF PhoneInv, Course
    <2>5. Served(p)'
        BY <2>1, <2>2 DEF PhoneInv, Served
    <2>6. Kept(p)'
        BY <2>1, <2>2 DEF PhoneInv, Kept
    <2> QED BY <2>3, <2>4, <2>5, <2>6 DEF PhoneInv
<1> QED BY <1>1, <1>2, <1>3 DEF CredentialInv, Changed

(* What a request does leaves the other phones alone.                      *)
LEMMA Unmoved ==
    ASSUME NEW q \in Phones, PhoneInv(q), UNCHANGED directory,
           pc'[q] = pc[q], reply'[q] = reply[q], header'[q] = header[q],
           at'[q] = at[q], line'[q] = line[q], user'[q] = user[q],
           tenant'[q] = tenant[q], valid'[q] = valid[q],
           linked'[q] = linked[q], steady'[q] = steady[q]
    PROVE  PhoneInv(q)'
<1>1. Watches(q)'
    BY DEF PhoneInv, Watches, directory, ValidFor, Linked, ChainsOf, Opens, IsItsOwn
<1>2. Course(q)'
    BY DEF PhoneInv, Course
<1>3. Served(q)'
    BY DEF PhoneInv, Served
<1>4. Kept(q)'
    BY DEF PhoneInv, Kept
<1> QED BY <1>1, <1>2, <1>3, <1>4 DEF PhoneInv

(* A request may end unserved unless a good credential is refused.         *)
LEMMA Unserved ==
    ASSUME CredentialInv, NEW p \in Phones, pc[p] # "idle",
           NEW status \in {"401", "500"}, End(p, status),
           UNCHANGED <<directory, found, user, tenant, watched>>,
           status = "401" /\ Len(header[p].password) = 1 => steady[p] = {}
    PROVE  CredentialInv'
<1>1. TypeOK'
    BY DEF CredentialInv, TypeOK, End, directory, found
<1>2. HistoryOK' /\ DirectoryOK'
    BY DEF CredentialInv, HistoryOK, DirectoryOK, directory, watched
<1>3. ASSUME NEW q \in Phones PROVE PhoneInv(q)'
    <2>1. CASE q = p
        <3>1. /\ pc'[q] = "idle" /\ reply'[q] = status /\ steady'[q] = steady[q]
              /\ header'[q] = header[q]
            BY <2>1 DEF CredentialInv, TypeOK, End, found, watched
        <3> QED BY <2>1, <3>1 DEF PhoneInv, Watches, Course, Served, Kept
    <2>2. CASE q # p
        BY <2>2, Unmoved DEF CredentialInv, TypeOK, End, found, watched
    <2> QED BY <2>1, <2>2
<1> QED BY <1>1, <1>2, <1>3 DEF CredentialInv

(* Whoever the credential leads to all the while is the one being found.   *)
LEMMA SteadyOpens ==
    ASSUME CredentialInv, NEW p \in Phones, pc[p] # "idle", NEW w \in steady[p]
    PROVE  /\ w[1] \in Endpoints /\ w[2] \in Lines /\ w[3] \in Users
           /\ IsItsOwn(w[1], header[p])
           /\ lineOf[w[1]] = w[2] /\ userOf[w[2]] = w[3]
<1>1. w \in ChainsOf(header[p])
    BY DEF CredentialInv, PhoneInv, Watches
<1> QED BY <1>1 DEF ChainsOf

LEMMA GoneKeeps ==
    ASSUME CredentialInv, NEW p \in Phones,
           EndpointGone(p) \/ Incomparable(p) \/ ConfdFails(p)
    PROVE  CredentialInv'
<1>1. pc[p] # "idle" /\ Fail(p)
    BY DEF EndpointGone, Incomparable, ConfdFails
<1> QED BY <1>1, Unserved DEF Fail

LEMMA WrongCredentialKeeps ==
    ASSUME CredentialInv, NEW p \in Phones, WrongCredential(p)
    PROVE  CredentialInv'
<1>1. pc[p] = "found" /\ auth[at[p]] # None /\ Refuse(p)
    BY DEF WrongCredential
<1>2. ASSUME Len(header[p].password) = 1, NEW w \in steady[p] PROVE FALSE
    <2>1. w[1] = at[p]
        BY <1>1 DEF CredentialInv, PhoneInv, Course
    <2>2. IsItsOwn(at[p], header[p])
        BY <1>1, <2>1, SteadyOpens
    <2>3. Named(p) /\ auth[at[p]].password = PasswordIn(header[p])
        BY <1>1, <1>2, <2>2, OwnIsRight DEF CredentialInv
    <2> QED BY <2>3 DEF WrongCredential, Right
<1> QED BY <1>1, <1>2, Unserved DEF Refuse

LEMMA NoLineKeeps ==
    ASSUME CredentialInv, NEW p \in Phones, NoLine(p)
    PROVE  CredentialInv'
<1>1. pc[p] = "found" /\ lineOf[at[p]] = None /\ Refuse(p)
    BY DEF NoLine
<1>2. ASSUME NEW w \in steady[p] PROVE FALSE
    <2>1. w[1] = at[p]
        BY <1>1 DEF CredentialInv, PhoneInv, Course
    <2>2. lineOf[at[p]] \in Lines
        BY <1>1, <2>1, SteadyOpens
    <2> QED BY <1>1, <2>2, CredentialsAssumption
<1> QED BY <1>1, <1>2, Unserved DEF Refuse

LEMMA NoUserKeeps ==
    ASSUME CredentialInv, NEW p \in Phones, NoUser(p)
    PROVE  CredentialInv'
<1>1. pc[p] = "known" /\ userOf[line[p]] = None /\ Refuse(p)
    BY DEF NoUser
<1>2. ASSUME NEW w \in steady[p] PROVE FALSE
    <2>1. w[2] = line[p]
        BY <1>1 DEF CredentialInv, PhoneInv, Course
    <2>2. userOf[line[p]] \in Users
        BY <1>1, <2>1, SteadyOpens
    <2> QED BY <1>1, <2>2, CredentialsAssumption
<1> QED BY <1>1, <1>2, Unserved DEF Refuse

LEMMA LineKnownKeeps ==
    ASSUME CredentialInv, NEW p \in Phones, LineKnown(p)
    PROVE  CredentialInv'
<1>0. /\ pc[p] = "found" /\ auth[at[p]] # None /\ Right(p) /\ lineOf[at[p]] # None
      /\ at[p] \in Endpoints /\ header[p] \in Headers
    BY DEF LineKnown, CredentialInv, TypeOK
<1>1. TypeOK'
    BY <1>0 DEF CredentialInv, TypeOK, LineKnown, directory
<1>2. HistoryOK' /\ DirectoryOK'
    BY DEF CredentialInv, HistoryOK, DirectoryOK, LineKnown, directory, watched
<1>3. PhoneInv(p)
    BY DEF CredentialInv
<1>4. /\ pc'[p] = "known" /\ line'[p] = lineOf[at[p]] /\ at'[p] = at[p]
      /\ reply'[p] = "none" /\ header' = header
      /\ UNCHANGED <<auth, lineOf, userOf, valid, linked, steady>>
    BY <1>0 DEF LineKnown, CredentialInv, TypeOK, directory, watched
<1>5. Watches(p)'
    BY <1>0, <1>3, <1>4 DEF PhoneInv, Watches, ValidFor, Linked, ChainsOf, Opens, IsItsOwn
<1>6. Course(p)'
    <2>1. <<at[p], lineOf[at[p]]>> \in valid[p]
        <3>1. Opens(at[p], header[p])
            BY <1>0, RightOpens DEF CredentialInv
        <3>2. lineOf[at[p]] \in Lines
            BY <1>0 DEF CredentialInv, TypeOK
        <3>3. <<at[p], lineOf[at[p]]>> \in ValidFor(header[p])
            BY <1>0, <3>1, <3>2 DEF ValidFor
        <3> QED BY <1>0, <1>3, <3>3 DEF PhoneInv, Watches
    <2>2. TenantOf[at[p]] = TenantOf[lineOf[at[p]]]
        BY <1>0 DEF CredentialInv, DirectoryOK
    <2>3. ASSUME NEW w \in steady[p] PROVE w[2] = lineOf[at[p]]
        BY <1>0, <1>3, SteadyOpens DEF PhoneInv, Course
    <2> QED BY <1>4, <2>1, <2>2, <2>3 DEF Course
<1>7. Served(p)' /\ Kept(p)'
    BY <1>4 DEF Served, Kept
<1>8. ASSUME NEW q \in Phones, q # p PROVE PhoneInv(q)'
    BY <1>8, Unmoved DEF CredentialInv, TypeOK, LineKnown, watched
<1> QED BY <1>1, <1>2, <1>5, <1>6, <1>7, <1>8 DEF CredentialInv, PhoneInv

LEMMA ResolvedKeeps ==
    ASSUME CredentialInv, NEW p \in Phones, Resolved(p)
    PROVE  CredentialInv'
<1>0. /\ pc[p] = "known" /\ line[p] \in Lines /\ userOf[line[p]] \in Users
      /\ at[p] \in Endpoints
    BY DEF Resolved, CredentialInv, TypeOK
<1>1. TypeOK'
    BY <1>0, CredentialsAssumption
    DEF CredentialInv, TypeOK, Resolved, End, directory, found
<1>2. HistoryOK' /\ DirectoryOK'
    BY <1>0 DEF CredentialInv, HistoryOK, DirectoryOK, Resolved, directory, watched
<1>3. PhoneInv(p)
    BY DEF CredentialInv
<1>4. /\ pc'[p] = "idle" /\ reply'[p] = "served"
      /\ user'[p] = userOf[line[p]] /\ tenant'[p] = TenantOf[at[p]]
      /\ UNCHANGED <<valid, linked, steady>>
    BY <1>0 DEF Resolved, End, CredentialInv, TypeOK, HistoryOK, watched
<1>5. Served(p)'
    <2>1. <<at[p], line[p]>> \in valid[p] /\ TenantOf[at[p]] = TenantOf[line[p]]
        BY <1>0, <1>3 DEF PhoneInv, Course
    <2>2. <<line[p], userOf[line[p]]>> \in linked[p]
        BY <1>0, <1>3 DEF PhoneInv, Watches, Linked
    <2>3. TenantOf[userOf[line[p]]] = TenantOf[line[p]]
        BY <1>0, CredentialsAssumption DEF CredentialInv, DirectoryOK
    <2> QED BY <1>4, <2>1, <2>2, <2>3 DEF Served
<1>6. Kept(p)'
    <2>1. ASSUME NEW w \in steady[p] PROVE w[3] = userOf[line[p]]
        BY <1>0, <1>3, SteadyOpens DEF PhoneInv, Course
    <2> QED BY <1>4, <2>1 DEF Kept
<1>7. Watches(p)' /\ Course(p)'
    BY <1>4 DEF Watches, Course
<1>8. ASSUME NEW q \in Phones, q # p PROVE PhoneInv(q)'
    BY <1>8, Unmoved DEF CredentialInv, TypeOK, HistoryOK, Resolved, End, found, watched
<1> QED BY <1>1, <1>2, <1>5, <1>6, <1>7, <1>8 DEF CredentialInv, PhoneInv

(* Only one endpoint has the name, so a chain starts at the one listed.    *)
LEMMA BeginKeeps ==
    ASSUME CredentialInv, NEW p \in Phones, NEW h \in Headers, Begin(p, h)
    PROVE  CredentialInv'
<1> DEFINE named == {e \in Endpoints : auth[e] # None /\ auth[e].name = h.sipUser}
<1>0. /\ pc[p] = "idle" /\ header'[p] = h
      /\ valid'[p] = IF WellFormed(h) THEN ValidFor(h) ELSE {}
      /\ linked'[p] = Linked
      /\ steady'[p] = IF WellFormed(h) THEN ChainsOf(h) ELSE {}
      /\ UNCHANGED <<auth, lineOf, userOf>>
    BY DEF Begin, CredentialInv, TypeOK, HistoryOK, directory
<1>1. ASSUME WellFormed(h), NEW w \in ChainsOf(h) PROVE w[1] \in named
    <2>1. w[1] \in Endpoints /\ IsItsOwn(w[1], h) /\ lineOf[w[1]] \in Lines
        BY DEF ChainsOf
    <2>2. auth[w[1]] # None
        BY <2>1, CredentialsAssumption DEF CredentialInv, DirectoryOK
    <2> QED BY <2>1, <2>2 DEF IsItsOwn
<1>2. HistoryOK' /\ DirectoryOK'
    BY <1>0 DEF CredentialInv, HistoryOK, DirectoryOK, Begin, ValidFor, Linked, ChainsOf
<1>3. ASSUME NEW q \in Phones, q # p PROVE PhoneInv(q)'
    BY <1>3, Unmoved DEF CredentialInv, TypeOK, HistoryOK, Begin, End, directory
<1>4. user'[p] = None /\ line'[p] = None
    BY DEF Begin, CredentialInv, TypeOK
<1>5. CASE /\ WellFormed(h)
           /\ \E e \in named : at' = [at EXCEPT ![p] = e]
           /\ pc' = [pc EXCEPT ![p] = "found"]
           /\ reply' = [reply EXCEPT ![p] = "none"]
    <2>1. PICK e \in named : at' = [at EXCEPT ![p] = e]
        BY <1>5
    <2>2. at'[p] = e /\ pc'[p] = "found" /\ reply'[p] = "none"
        BY <1>5, <2>1 DEF CredentialInv, TypeOK
    <2>3. TypeOK'
        BY <1>0, <1>4, <1>5, <2>1, CredentialsAssumption DEF Begin, CredentialInv, TypeOK
    <2>4. Watches(p)'
        BY <1>0, <1>5 DEF Watches, ValidFor, Linked, ChainsOf, Opens, IsItsOwn
    <2>5. ASSUME NEW w \in ChainsOf(h) PROVE w[1] = e
        BY <1>1, <1>5 DEF CredentialInv, DirectoryOK
    <2>6. Course(p)'
        BY <1>0, <1>5, <2>2, <2>5 DEF Course
    <2>7. Served(p)' /\ Kept(p)'
        BY <2>2 DEF Served, Kept
    <2> QED BY <1>2, <1>3, <2>3, <2>4, <2>6, <2>7 DEF CredentialInv, PhoneInv
<1>6. CASE /\ WellFormed(h) => named = {}
           /\ at' = [at EXCEPT ![p] = None]
           /\ End(p, "401")
    <2>1. pc'[p] = "idle" /\ reply'[p] = "401"
        BY <1>6 DEF End, CredentialInv, TypeOK
    <2>2. TypeOK'
        BY <1>0, <1>4, <1>6 DEF Begin, End, CredentialInv, TypeOK
    <2>3. steady'[p] = {}
        BY <1>0, <1>1, <1>6
    <2>4. Watches(p)' /\ Course(p)' /\ Served(p)' /\ Kept(p)'
        BY <2>1, <2>3 DEF Watches, Course, Served, Kept
    <2> QED BY <1>2, <1>3, <2>2, <2>4 DEF CredentialInv, PhoneInv
<1> QED BY <1>5, <1>6 DEF Begin

-----------------------------------------------------------------------------
LEMMA CredStep == CredentialInv /\ [Next]_vars => CredentialInv'
<1> SUFFICES ASSUME CredentialInv, [Next]_vars PROVE CredentialInv'
    OBVIOUS
<1>1. ASSUME NEW e \in Endpoints, EndpointChanges(e) PROVE CredentialInv'
    BY <1>1, DirectoryChanges DEF EndpointChanges, CredentialInv, TypeOK
<1>2. ASSUME NEW e \in Endpoints, NEW l \in Lines \union {None}, LineGoesTo(e, l)
      PROVE  CredentialInv'
    BY <1>2, DirectoryChanges DEF LineGoesTo, CredentialInv, TypeOK
<1>3. ASSUME NEW l \in Lines, NEW u \in Users \union {None}, UserGoesTo(l, u)
      PROVE  CredentialInv'
    BY <1>3, DirectoryChanges DEF UserGoesTo, CredentialInv, TypeOK
<1>4. ASSUME NEW p \in Phones, Resolve(p) PROVE CredentialInv'
    BY <1>4, BeginKeeps, GoneKeeps, WrongCredentialKeeps, NoLineKeeps,
       LineKnownKeeps, NoUserKeeps, ResolvedKeeps DEF Resolve
<1>5. CASE UNCHANGED vars
    <2>1. TypeOK' /\ HistoryOK' /\ DirectoryOK'
        BY <1>5 DEF CredentialInv, TypeOK, HistoryOK, DirectoryOK, vars
    <2>2. ASSUME NEW q \in Phones PROVE PhoneInv(q)'
        BY <1>5, Unmoved DEF CredentialInv, vars, directory
    <2> QED BY <2>1, <2>2 DEF CredentialInv
<1> QED BY <1>1, <1>2, <1>3, <1>4, <1>5 DEF Next

LEMMA CredInvariant == Spec => []CredentialInv
BY CredInit, CredStep, PTL DEF Spec

(* A request that looks for more has found all it needs so far, and one is *)
(* served exactly when a user was found (auth.py:104-142).                 *)
THEOREM CredentialTypes == Spec => []TypeOK
<1>1. CredentialInv => TypeOK
    BY DEF CredentialInv
<1> QED BY <1>1, CredInvariant, PTL

(* Whoever a phone is served as had a line that its own credential opened, *)
(* in the tenant the request then works in.                                *)
THEOREM NobodyElseIsServed == Spec => []ServedByItsLine
<1>1. CredentialInv => ServedByItsLine
    BY DEF CredentialInv, PhoneInv, Served, ServedByItsLine
<1> QED BY <1>1, CredInvariant, PTL

(* No change elsewhere makes the service refuse a credential that is good  *)
(* all the while and whose password holds no colon, or serve somebody else *)
(* for it (auth.py:92-97, 113-142).                                        *)
THEOREM GoodCredentialsPass == Spec => []NeverFalselyRefused
<1>1. CredentialInv => NeverFalselyRefused
    BY DEF CredentialInv, PhoneInv, Kept, NeverFalselyRefused
<1> QED BY <1>1, CredInvariant, PTL
=============================================================================
