----------------------------- MODULE OptimoGoIDP -----------------------------
(***************************************************************************)
(* The identity provider of wazo_auth_optimogo: the threads of wazo-auth   *)
(* run verify_auth, which asks the shared breaker, sends the token to      *)
(* OptimoGo's introspect endpoint, and looks the email of the answer up    *)
(* among wazo-auth's users, who come, go and are disabled all the while.   *)
(* What verify_auth cannot verify it refuses.                              *)
(*                                                                         *)
(* A reply is one step with the report to the breaker, as in LookupEngine. *)
(***************************************************************************)
EXTENDS Integers, FiniteSets

CONSTANTS
    Threads,
    Emails,
    Accounts, EmailOf, Foreign,  \* wazo-auth's users; Foreign: of other tenants
    Threshold, Cooldown, MaxTime

ASSUME AccountsAssumption ==
    /\ IsFiniteSet(Accounts)
    /\ EmailOf \in [Accounts -> Emails]
    /\ Foreign \subseteq Accounts
    /\ Emails # {}

(* The threshold and the cooldown are constants of idp.py (lines 21-22).   *)
ASSUME ProviderAssumption ==
    /\ IsFiniteSet(Threads)
    /\ Threshold \in Nat \ {0}
    /\ Cooldown \in Nat \ {0}
    /\ MaxTime \in Nat

VARIABLES
    failures, openedAt, now,     \* the breaker
    pc,          \* where the verify_auth of each thread is
    email,       \* what OptimoGo's answer says
    outcome,     \* how the last verify_auth of each thread ended
    usable,      \* accounts that are enabled and whose email is confirmed
    evidence,    \* history: OptimoGo vouched, the users were listed
    steady,      \* history: accounts that stayed as they were since it began
    unanswered   \* history: introspections that failed since one was answered

idpVars == <<failures, openedAt, now, pc, email, outcome, usable, evidence, steady,
             unanswered>>
breakerState == <<failures, openedAt, unanswered>>
historyState == <<evidence, steady>>

At(place) == {t \in Threads : pc[t] = place}
Breaker == INSTANCE CircuitBreaker WITH Callers <- Threads, wire <- At("wire")

TypeOK ==
    /\ Breaker!TypeOK
    /\ pc \in [Threads -> {"idle", "wire", "vouched"}]
    /\ email \in [Threads -> Emails]
    /\ outcome \in [Threads -> {"none", "admitted", "rejected", "raised"}]
    /\ usable \subseteq Accounts
    /\ evidence \in [Threads -> SUBSET {"vouched", "listed"}]
    /\ steady \in [Threads -> SUBSET Accounts]
    /\ unanswered \in Nat
    /\ \A t \in Threads :
        pc[t] # "idle" => outcome[t] = "none" /\ "listed" \notin evidence[t]

Init ==
    /\ failures = 0
    /\ openedAt = Breaker!NotOpen
    /\ now = 0
    /\ pc = [t \in Threads |-> "idle"]
    /\ email = [t \in Threads |-> CHOOSE e \in Emails : TRUE]
    /\ outcome = [t \in Threads |-> "none"]
    /\ usable \in SUBSET Accounts
    /\ evidence = [t \in Threads |-> {}]
    /\ steady = [t \in Threads |-> {}]
    /\ unanswered = 0

Goto(t, place) == pc' = [pc EXCEPT ![t] = place]

End(t, how) ==
    /\ Goto(t, "idle")
    /\ outcome' = [outcome EXCEPT ![t] = how]

(***************************************************************************)
(* The world around                                                        *)
(***************************************************************************)
(* An account is created, enabled, confirmed, or the reverse.              *)
AccountChanges(a) ==
    /\ usable' = IF a \in usable THEN usable \ {a} ELSE usable \union {a}
    /\ steady' = [t \in Threads |-> steady[t] \ {a}]
    /\ UNCHANGED <<breakerState, now, pc, email, outcome, evidence>>

Tick ==
    /\ UNCHANGED <<pc, email, outcome, usable, historyState, unanswered>>
    /\ Breaker!Tick

(***************************************************************************)
(* verify_auth                                                             *)
(***************************************************************************)
BeginHistory(t) ==
    /\ evidence' = [evidence EXCEPT ![t] = {}]
    /\ steady' = [steady EXCEPT ![t] = Accounts]

AskKeepsOutcome(t) ==      \* mutated: the last call's outcome is still there
    /\ pc[t] = "idle"
    /\ Goto(t, "wire")
    /\ Breaker!AllowClosed(t) \/ Breaker!AllowProbe(t)
    /\ BeginHistory(t)
    /\ UNCHANGED <<email, outcome, usable, unanswered>>

Ask(t) ==
    /\ pc[t] = "idle"
    /\ Goto(t, "wire")
    /\ Breaker!AllowClosed(t) \/ Breaker!AllowProbe(t)
    /\ outcome' = [outcome EXCEPT ![t] = "none"]
    /\ BeginHistory(t)
    /\ UNCHANGED <<email, usable, unanswered>>

(* The breaker is open: the login is refused, not let through.             *)
RefuseUnasked(t) ==
    /\ pc[t] = "idle"
    /\ Breaker!IsOpen /\ ~Breaker!CooledDown
    /\ End(t, "rejected")
    /\ BeginHistory(t)
    /\ UNCHANGED <<breakerState, now, email, usable>>

(* OptimoGo vouches for an email of this tenant.                           *)
Vouched(t, e) ==
    /\ pc[t] = "wire"
    /\ email' = [email EXCEPT ![t] = e]
    /\ Goto(t, "vouched")
    /\ Breaker!RecordSuccess(t)
    /\ evidence' = [evidence EXCEPT ![t] = {"vouched"}]
    /\ unanswered' = 0
    /\ UNCHANGED <<outcome, usable, steady>>

NotVouchedCounts(t) ==      \* mutated: a bad token is reported as a failure
    /\ pc[t] = "wire"
    /\ End(t, "rejected")
    /\ Breaker!RecordFailure(t)
    /\ unanswered' = 0
    /\ UNCHANGED <<email, usable, historyState>>

(* It answers, but the token is not active, of another tenant, or without  *)
(* an email.                                                               *)
NotVouched(t) ==
    /\ pc[t] = "wire"
    /\ End(t, "rejected")
    /\ Breaker!RecordSuccess(t)
    /\ unanswered' = 0
    /\ UNCHANGED <<email, usable, historyState>>

(* Every typed error of the client, a refused key included.                *)
IntrospectFails(t) ==
    /\ pc[t] = "wire"
    /\ End(t, "rejected")
    /\ Breaker!RecordFailure(t)
    /\ unanswered' = unanswered + 1
    /\ UNCHANGED <<email, usable, historyState>>

(* A 200 of type application/json whose body is no JSON: resp.json raises  *)
(* what neither introspect nor verify_auth catches.                        *)
Unparsable(t) ==
    /\ pc[t] = "wire"
    /\ End(t, "raised")
    /\ Breaker!Abandon(t)
    /\ UNCHANGED <<email, usable, historyState, unanswered>>

Matches(t) == {a \in usable : EmailOf[a] = email[t]}

AnyMatchDecides(t) == Matches(t) \ Foreign # {}      \* mutated: takes the match of its tenant
Decides(t) == Cardinality(Matches(t)) = 1 /\ Matches(t) \intersect Foreign = {}

(* The users are listed, and exactly one of them must match.               *)
Resolve(t) ==
    /\ pc[t] = "vouched"
    /\ evidence' = [evidence EXCEPT ![t] = @ \union {"listed"}]
    /\ End(t, IF Decides(t) THEN "admitted" ELSE "rejected")
    /\ UNCHANGED <<breakerState, now, email, usable, steady>>

ListFailsAdmits(t) ==      \* mutated: OptimoGo's word is enough
    /\ pc[t] = "vouched"
    /\ End(t, "admitted")
    /\ UNCHANGED <<breakerState, now, email, usable, historyState>>

ListFails(t) ==
    /\ pc[t] = "vouched"
    /\ End(t, "rejected")
    /\ UNCHANGED <<breakerState, now, email, usable, historyState>>

VerifyAuth(t) ==
    \/ Ask(t) \/ RefuseUnasked(t)
    \/ (\E e \in Emails : Vouched(t, e))
    \/ NotVouched(t) \/ IntrospectFails(t) \/ Unparsable(t)
    \/ Resolve(t) \/ ListFails(t)

Next ==
    \/ \E a \in Accounts : AccountChanges(a)
    \/ \E t \in Threads : VerifyAuth(t)
    \/ Tick

Spec == Init /\ [][Next]_idpVars

(***************************************************************************)
(* Properties                                                              *)
(***************************************************************************)
(* A login that OptimoGo vouched for is decided by the users of its email: *)
(* if none of them changed during the call, it is admitted exactly when    *)
(* one of them is usable and that one is of this tenant (idp.py:114-135).  *)
DirectoryDecides ==
    \A t \in Threads :
        LET same == {a \in Accounts : EmailOf[a] = email[t]} IN
        evidence[t] = {"vouched", "listed"} /\ same \subseteq steady[t] =>
            (outcome[t] = "admitted"
                <=> \E a \in same \ Foreign : same \intersect usable = {a})

(* Fail-closed: nobody is admitted unless in this very call OptimoGo       *)
(* vouched for the email and the users were listed, whatever failed or     *)
(* other threads were told (idp.py:76-99, 114-119).                        *)
FailClosed ==
    \A t \in Threads : outcome[t] = "admitted" => evidence[t] = {"vouched", "listed"}

(* Logins are refused unasked exactly while as many introspections as the  *)
(* threshold have failed since one was answered, in whatever order the     *)
(* threads report: bad tokens, tokens of other tenants, unknown users and  *)
(* a failing list of users never lock the others out (idp.py:76-119).      *)
OnlyOutagesLockOut == Breaker!IsOpen <=> unanswered >= Threshold

(* The threads of the provider use the breaker by its protocol: each asks, *)
(* and reports to it at most once, so that what is proved of the breaker   *)
(* holds here (idp.py:76-85).                                              *)
UsesBreaker == Breaker!Spec

(***************************************************************************)
(* What the documentation says and the code does not do                    *)
(***************************************************************************)
(* idp.py:71-74: verify_auth raises InvalidBridgeToken if the              *)
(* introspection call fails, and nothing else.                             *)
RefusalsAreTyped == \A t \in Threads : outcome[t] # "raised"

=============================================================================
