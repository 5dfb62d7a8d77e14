------------------------------ MODULE IDPProofs ------------------------------
(***************************************************************************)
(* What is proved of OptimoGoIDP for any number of threads and any finite  *)
(* set of accounts.                                                        *)
(***************************************************************************)
EXTENDS OptimoGoIDP, FiniteSetTheorems, TLAPS

(* What closes the induction: a call has evidence of OptimoGo's word from  *)
(* the moment it is vouched for, and is admitted only after the listing.   *)
IdpInv ==
    /\ TypeOK
    /\ \A t \in Threads : pc[t] = "wire" => evidence[t] = {}
    /\ \A t \in Threads : pc[t] = "vouched" => evidence[t] = {"vouched"}
    /\ FailClosed
    /\ DirectoryDecides
    /\ failures = unanswered
    /\ OnlyOutagesLockOut

LEMMA IdpInit == Init => IdpInv
<1> SUFFICES ASSUME Init PROVE IdpInv
  OBVIOUS
<1>1. (CHOOSE e \in Emails : TRUE) \in Emails
  BY AccountsAssumption
<1>2. QED
  BY <1>1, ProviderAssumption DEF Init, IdpInv, TypeOK, Breaker!TypeOK, Breaker!NotOpen, At, FailClosed, DirectoryDecides,
     OnlyOutagesLockOut, Breaker!IsOpen

(* What the listing decides is what the property says.                     *)
LEMMA OneUsable ==
  ASSUME TypeOK, NEW t \in Threads
  PROVE  Decides(t) <=>
           \E a \in {b \in Accounts : EmailOf[b] = email[t]} \ Foreign :
               {b \in Accounts : EmailOf[b] = email[t]} \intersect usable = {a}
<1>1. usable \subseteq Accounts
  BY DEF TypeOK
<1>2. Matches(t) = {b \in Accounts : EmailOf[b] = email[t]} \intersect usable
  BY <1>1 DEF Matches
<1>3. IsFiniteSet(Matches(t))
  BY <1>2, AccountsAssumption, FS_Subset
<1>4. Cardinality(Matches(t)) = 1 <=> \E a : Matches(t) = {a}
  BY <1>3, FS_Singleton
<1>5. QED
  BY <1>2, <1>4 DEF Decides

LEMMA IdpStep == IdpInv /\ [Next]_idpVars => IdpInv'
<1> SUFFICES ASSUME IdpInv, [Next]_idpVars PROVE IdpInv'
  OBVIOUS
<1> USE DEF IdpInv, TypeOK, Breaker!TypeOK, Breaker!NotOpen, Breaker!IsOpen, At,
        FailClosed, DirectoryDecides, OnlyOutagesLockOut, Goto, End, breakerState, historyState
<1>1. ASSUME NEW a \in Accounts, AccountChanges(a) PROVE IdpInv'
  BY <1>1 DEF AccountChanges
<1>2. ASSUME NEW t \in Threads, Ask(t) PROVE IdpInv'
  BY <1>2 DEF Ask, BeginHistory, Breaker!AllowClosed, Breaker!AllowProbe
<1>3. ASSUME NEW t \in Threads, RefuseUnasked(t) PROVE IdpInv'
  BY <1>3 DEF RefuseUnasked, BeginHistory
<1>4. ASSUME NEW t \in Threads, NEW e \in Emails, Vouched(t, e) PROVE IdpInv'
  BY <1>4, ProviderAssumption DEF Vouched, Breaker!RecordSuccess
<1>5. ASSUME NEW t \in Threads, NotVouched(t) PROVE IdpInv'
  BY <1>5, ProviderAssumption DEF NotVouched, Breaker!RecordSuccess
<1>6. ASSUME NEW t \in Threads, IntrospectFails(t) PROVE IdpInv'
  <2>1. failures' = unanswered' /\ OnlyOutagesLockOut'
    BY <1>6, ProviderAssumption DEF IntrospectFails, Breaker!RecordFailure
  <2>2. TypeOK'
    BY <1>6 DEF IntrospectFails, Breaker!RecordFailure
  <2>3. QED
    BY <1>6, <2>1, <2>2 DEF IntrospectFails
<1>7. ASSUME NEW t \in Threads, Unparsable(t) PROVE IdpInv'
  BY <1>7 DEF Unparsable, Breaker!Abandon
<1>8. ASSUME NEW t \in Threads, Resolve(t) PROVE IdpInv'
  BY <1>8, OneUsable DEF Resolve
<1>9. ASSUME NEW t \in Threads, ListFails(t) PROVE IdpInv'
  BY <1>9 DEF ListFails
<1>10. CASE Tick
  BY <1>10 DEF Tick, Breaker!Tick
<1>11. CASE UNCHANGED idpVars
  BY <1>11 DEF idpVars
<1>12. QED
  BY <1>1, <1>2, <1>3, <1>4, <1>5, <1>6, <1>7, <1>8, <1>9, <1>10, <1>11
     DEF Next, VerifyAuth

LEMMA IdpInvariant == Spec => []IdpInv
  BY IdpInit, IdpStep, PTL DEF Spec

(* The state is well typed; a call that is under way has no outcome, and   *)
(* has not listed the users yet (idp.py:76-114).                           *)
THEOREM LoginsWellTyped == Spec => []TypeOK
<1>1. IdpInv => TypeOK
  BY DEF IdpInv
<1>2. QED
  BY <1>1, IdpInvariant, PTL

(* Nobody is admitted without both backends' word, in any interleaving     *)
(* (idp.py:76-99).                                                         *)
THEOREM NobodyUnverified == Spec => []FailClosed
<1>1. IdpInv => FailClosed
  BY DEF IdpInv
<1>2. QED
  BY <1>1, IdpInvariant, PTL

(* The directory decides about the logins OptimoGo vouches for             *)
(* (idp.py:111-135).                                                       *)
THEOREM LoginsAreDecided == Spec => []DirectoryDecides
<1>1. IdpInv => DirectoryDecides
  BY DEF IdpInv
<1>2. QED
  BY <1>1, IdpInvariant, PTL

(* The breaker is open exactly while OptimoGo has left as many logins as   *)
(* the threshold without an answer, whatever else they end in              *)
(* (idp.py:76-119).                                                        *)
THEOREM LockOutsAreOutages == Spec => []OnlyOutagesLockOut
<1>1. IdpInv => OnlyOutagesLockOut
  BY DEF IdpInv
<1>2. QED
  BY <1>1, IdpInvariant, PTL

(* Each step of the provider is a step of the breaker's protocol, or none. *)
LEMMA BreakerStep == IdpInv /\ [Next]_idpVars => [Breaker!Next]_(Breaker!vars)
<1> SUFFICES ASSUME IdpInv, [Next]_idpVars PROVE [Breaker!Next]_(Breaker!vars)
  OBVIOUS
<1> USE DEF IdpInv, TypeOK, At, Goto, End, breakerState, Breaker!Next, Breaker!vars
<1>1. ASSUME NEW a \in Accounts, AccountChanges(a) PROVE UNCHANGED Breaker!vars
  BY <1>1 DEF AccountChanges
<1>2. ASSUME NEW t \in Threads, Ask(t) PROVE Breaker!Next
  BY <1>2 DEF Ask
<1>3. ASSUME NEW t \in Threads, RefuseUnasked(t) PROVE UNCHANGED Breaker!vars
  BY <1>3 DEF RefuseUnasked
<1>4. ASSUME NEW t \in Threads, NEW e \in Emails, Vouched(t, e) PROVE Breaker!Next
  BY <1>4 DEF Vouched
<1>5. ASSUME NEW t \in Threads, NotVouched(t) PROVE Breaker!Next
  BY <1>5 DEF NotVouched
<1>6. ASSUME NEW t \in Threads, IntrospectFails(t) PROVE Breaker!Next
  BY <1>6 DEF IntrospectFails
<1>7. ASSUME NEW t \in Threads, Unparsable(t) PROVE Breaker!Next
  BY <1>7 DEF Unparsable
<1>8. ASSUME NEW t \in Threads, Resolve(t) \/ ListFails(t) PROVE UNCHANGED Breaker!vars
  BY <1>8 DEF Resolve, ListFails
<1>9. CASE Tick
  BY <1>9 DEF Tick
<1>10. CASE UNCHANGED idpVars
  BY <1>10 DEF idpVars
<1>11. QED
  BY <1>1, <1>2, <1>3, <1>4, <1>5, <1>6, <1>7, <1>8, <1>9, <1>10 DEF Next, VerifyAuth

(* The provider is a user of the breaker as CircuitBreaker describes them, *)
(* so that the theorems about the breaker hold inside it (idp.py:76-85).   *)
THEOREM ProviderUsesBreaker == Spec => UsesBreaker
<1>1. Init => Breaker!Init
  BY DEF Init, Breaker!Init, At
<1>2. QED
  BY <1>1, IdpInvariant, BreakerStep, PTL DEF Spec, UsesBreaker, Breaker!Spec

(***************************************************************************)
(* What the breaker promises holds inside the provider.                    *)
(***************************************************************************)
(* The observer of BreakerHistory watches the provider's breaker.          *)
VARIABLES probing, probedAt, openSince, probes

BP == INSTANCE BreakerProofs WITH Callers <- Threads, wire <- At("wire")

LEMMA BreakerAssumptionHolds == BP!BreakerAssumption
  BY ProviderAssumption DEF BP!BreakerAssumption, BP!IsFiniteSet, IsFiniteSet

(* The provider's breaker and the one BreakerProofs is about are the same. *)
LEMMA SameBreaker ==
  /\ Breaker!Init <=> BP!Init
  /\ [Breaker!Next]_(Breaker!vars) <=> [BP!Next]_(BP!vars)
  /\ Breaker!OpenIffThresholdReached <=> BP!OpenIffThresholdReached
<1>1. Breaker!Init <=> BP!Init
  BY DEF Breaker!Init, BP!Init, Breaker!NotOpen, BP!NotOpen
<1>2. Breaker!Next <=> BP!Next
  BY DEF Breaker!Next, BP!Next, Breaker!AllowClosed, BP!AllowClosed, Breaker!AllowProbe,
     BP!AllowProbe, Breaker!RecordSuccess, BP!RecordSuccess, Breaker!RecordFailure,
     BP!RecordFailure, Breaker!Abandon, BP!Abandon, Breaker!Tick, BP!Tick,
     Breaker!IsOpen, BP!IsOpen, Breaker!NotOpen, BP!NotOpen, Breaker!CooledDown, BP!CooledDown
<1>3. Breaker!OpenIffThresholdReached <=> BP!OpenIffThresholdReached
  BY DEF Breaker!OpenIffThresholdReached, BP!OpenIffThresholdReached,
     Breaker!IsOpen, BP!IsOpen, Breaker!NotOpen, BP!NotOpen
<1>4. QED
  BY <1>1, <1>2, <1>3 DEF Breaker!vars, BP!vars

LEMMA ProviderHasBreaker == Spec => BP!Spec
  BY ProviderUsesBreaker, SameBreaker, PTL DEF UsesBreaker, Breaker!Spec, BP!Spec

(* However logins overlap, the provider's breaker is open exactly when the *)
(* failures they reported since OptimoGo last answered have reached the    *)
(* threshold (idp.py:76-85 with breaker.py:32-41).                         *)
THEOREM ProviderBreakerAgrees == Spec => []Breaker!OpenIffThresholdReached
  BY ProviderHasBreaker, BreakerAssumptionHolds, BP!FieldsAgree, SameBreaker, PTL

(* The introspections of all threads go out and are reported as            *)
(* BreakerTimer promises, whatever becomes of the logins (idp.py:76-99).   *)
THEOREM ProviderImplementsTimer == Spec => BP!ImplementsTimer
  BY ProviderHasBreaker, BreakerAssumptionHolds, BP!BreakerImplementsTimer

(* An outage of OptimoGo holds up logins at most once for each cooldown    *)
(* and a bounded number of times in all: every other login is refused at   *)
(* once (idp.py:76-85 with breaker.py:23-41).                              *)
THEOREM ProviderOutages ==
    Spec /\ BP!Watching => [](BP!ProbeRate /\ BP!OutageBudget /\ BP!ProbesAreSpaced)
<1>1. Spec /\ BP!Watching => BP!HSpec
  BY ProviderHasBreaker, BreakerAssumptionHolds, BP!WatchedBreaker
<1>2. BP!HSpec => []BP!ProbeRate
  BY BreakerAssumptionHolds, BP!ProbesAreRateLimited
<1>3. BP!HSpec => []BP!OutageBudget
  BY BreakerAssumptionHolds, BP!OutageCostIsBounded
<1>4. BP!HSpec => []BP!ProbesAreSpaced
  BY BreakerAssumptionHolds, BP!ProbesNeverCrowd
<1>5. QED
  BY <1>1, <1>2, <1>3, <1>4, PTL

=============================================================================
