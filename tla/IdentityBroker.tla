-------------------------- MODULE IdentityBroker --------------------------
(***************************************************************************)
(* The sign-in broker of the gateway's identity package                    *)
(* (internal/identity/broker.go, repository.go, admin.go): the OAuth2      *)
(* authorization server that stands between the upstream and the corporate *)
(* identity provider.  Transactions, codes and tokens live in memory under *)
(* one mutex and are lost with the process; the identity row and the audit *)
(* trail are in the database.  Everything a handler does between two holds *)
(* of the mutex or two statements interleaves with other handlers.         *)
(*                                                                         *)
(* One employee is modelled, with one browser whose tabs share the login   *)
(* cookie; employees share no state.  An entry past its time to live is    *)
(* taken out of its map, which no handler can tell from finding it         *)
(* expired.  A sign-in is named by its random state; its name is used      *)
(* again when nothing of it is left.                                       *)
(***************************************************************************)
EXTENDS Naturals

CONSTANTS
  SignIns,     \* names of sign-ins in progress at once
  Callbacks,   \* slots for concurrent callback requests
  Exchanges,   \* slots for concurrent token requests
  NoSignIn     \* no cookie, an idle slot

ASSUME NoSignInAssumption == NoSignIn \notin SignIns

VARIABLES
  transactions,  \* sign-ins sent to the provider and not yet called back
  codes,         \* sign-ins with an authorization code to redeem
  tokens,        \* sign-ins with an access token
  cookie,        \* the sign-in the browser's cookie is bound to
  callback,      \* callback[h]: where callback request h is
  exchange,      \* exchange[x]: the sign-in whose code token request x took
  identity,      \* status of the employee's row, "absent" before the first
  admin,         \* the administrator's ChangeStatus: "idle" or "audit"
  recorded,      \* the last change of status by an administrator is audited
  audited,       \* sign-ins with a successful login event in the audit trail
  eligible,      \* provider: group and employee type are allowed
  signedIn,      \* history: the identity was handed to the upstream
  issued,        \* history: codes issued for each sign-in
  redeemed       \* history: tokens issued for each sign-in

memory == <<transactions, codes, tokens>>
rows == <<identity, audited>>
history == <<signedIn, issued, redeemed>>
vars == <<memory, cookie, callback, exchange, rows, admin, recorded, eligible,
          history>>

\* barred: the employee was suspended when this callback arrived and no
\* administrator has activated the identity since.
NoCallback == [pc |-> "idle", signIn |-> NoSignIn, barred |-> FALSE]

Points == {"idle", "authenticate", "denied", "suspend", "upsert", "audit", "issue"}

CallbackType ==
  callback \in [Callbacks -> [pc : Points, signIn : SignIns \cup {NoSignIn},
                              barred : BOOLEAN]]

TypeOK ==
  /\ CallbackType
  /\ transactions \subseteq SignIns /\ codes \subseteq SignIns
  /\ tokens \subseteq SignIns /\ audited \subseteq SignIns
  /\ cookie \in SignIns \cup {NoSignIn}
  /\ exchange \in [Exchanges -> SignIns \cup {NoSignIn}]
  /\ identity \in {"absent", "active", "suspended"}
  /\ admin \in {"idle", "audit"}
  /\ recorded \in BOOLEAN /\ eligible \in BOOLEAN /\ signedIn \in BOOLEAN
  /\ issued \in [SignIns -> Nat] /\ redeemed \in [SignIns -> Nat]

Init ==
  /\ transactions = {} /\ codes = {} /\ tokens = {} /\ audited = {}
  /\ cookie = NoSignIn
  /\ callback = [h \in Callbacks |-> NoCallback]
  /\ exchange = [x \in Exchanges |-> NoSignIn]
  /\ identity = "absent"
  /\ admin = "idle" /\ recorded = TRUE
  /\ eligible = TRUE /\ signedIn = FALSE
  /\ issued = [s \in SignIns |-> 0] /\ redeemed = [s \in SignIns |-> 0]
---------------------------------------------------------------------------
At(h, pc) == callback[h].pc = pc

Go(h, pc) == callback' = [callback EXCEPT ![h].pc = pc]

\* Every answer to a callback clears the cookie.
Finish(h) ==
  /\ callback' = [callback EXCEPT ![h] = NoCallback]
  /\ cookie' = NoSignIn

Elsewhere == UNCHANGED <<exchange, admin, recorded, eligible>>

\* Nothing is left of an earlier sign-in with this name.
Unused(s) ==
  /\ s \notin transactions \cup codes \cup tokens
  /\ \A h \in Callbacks : callback[h].signIn # s
  /\ \A x \in Exchanges : exchange[x] # s

\* authorize: a new transaction; the cookie of an earlier tab is replaced.
Authorize(s) ==
  /\ Unused(s)
  /\ transactions' = transactions \cup {s}
  /\ cookie' = s
  /\ issued' = [issued EXCEPT ![s] = 0]
  /\ redeemed' = [redeemed EXCEPT ![s] = 0]
  /\ audited' = audited \ {s}
  /\ UNCHANGED <<codes, tokens, callback, identity, signedIn>> /\ Elsewhere

Valid(s) == s \in transactions /\ cookie = s

\* A late tab, a replayed or an expired callback: refused, nothing consumed.
CallbackRefused(s) ==
  /\ ~Valid(s)
  /\ cookie' = NoSignIn
  /\ UNCHANGED <<memory, callback, rows, history>> /\ Elsewhere

\* A slip: the transaction is left to its time to live.
CallbackKept(h, s) ==
  /\ At(h, "idle")
  /\ Valid(s)
  /\ callback' = [callback EXCEPT ![h] =
       [pc |-> "authenticate", signIn |-> s, barred |-> identity = "suspended"]]
  /\ UNCHANGED <<memory, cookie, rows, history>> /\ Elsewhere

\* callback: the transaction is consumed before the provider is asked.
Callback(h, s) ==
  /\ At(h, "idle")
  /\ Valid(s)
  /\ transactions' = transactions \ {s}
  /\ callback' = [callback EXCEPT ![h] =
       [pc |-> "authenticate", signIn |-> s, barred |-> identity = "suspended"]]
  /\ UNCHANGED <<codes, tokens, cookie, rows, history>> /\ Elsewhere

\* The provider's answer: an eligible employee goes on to Upsert.
Authenticate(h) ==
  /\ At(h, "authenticate")
  /\ Go(h, IF eligible THEN "upsert" ELSE "denied")
  /\ UNCHANGED <<memory, cookie, rows, history>> /\ Elsewhere

\* A slip: the transaction is put back for another try.
FailWithCookie(h) ==
  /\ callback[h].pc # "idle"
  /\ callback' = [callback EXCEPT ![h] = NoCallback]
  /\ cookie' = callback[h].signIn
  /\ transactions' = transactions \cup {cookie}
  /\ UNCHANGED <<codes, tokens, rows, history>> /\ Elsewhere

\* An error of the provider, the store, the audit trail or the random source;
\* an error of the suspension of a denied employee is ignored.
Fail(h) ==
  /\ callback[h].pc # "idle"
  /\ Finish(h)
  /\ UNCHANGED <<memory, rows, history>> /\ Elsewhere

\* Denied employees with a row are suspended.
Denied(h) ==
  /\ At(h, "denied")
  /\ IF identity = "absent" THEN Finish(h) ELSE Go(h, "suspend") /\ cookie' = cookie
  /\ UNCHANGED <<memory, rows, history>> /\ Elsewhere

Suspend(h) ==
  /\ At(h, "suspend")
  /\ identity' = "suspended"
  /\ Finish(h)
  /\ UNCHANGED <<memory, audited, history>> /\ Elsewhere

\* A slip: signing in makes the row active.
UpsertActivates(h) ==
  /\ At(h, "upsert")
  /\ identity' = "active"
  /\ Go(h, "audit")
  /\ UNCHANGED <<memory, cookie, audited, history>> /\ Elsewhere

\* Upsert inserts an active row or refreshes one without touching its status,
\* which it returns.
Upsert(h) ==
  /\ At(h, "upsert")
  /\ identity' = IF identity = "absent" THEN "active" ELSE identity
  /\ IF identity = "suspended" THEN Finish(h) ELSE Go(h, "audit") /\ cookie' = cookie
  /\ UNCHANGED <<memory, audited, history>> /\ Elsewhere

\* A slip: an event that cannot be stored does not stop the sign-in.
AuditOrNot(h) ==
  /\ At(h, "audit")
  /\ audited' \in {audited, audited \cup {callback[h].signIn}}
  /\ Go(h, "issue")
  /\ UNCHANGED <<memory, cookie, identity, history>> /\ Elsewhere

Audit(h) ==
  /\ At(h, "audit")
  /\ audited' = audited \cup {callback[h].signIn}
  /\ Go(h, "issue")
  /\ UNCHANGED <<memory, cookie, identity, history>> /\ Elsewhere

Issue(h) ==
  /\ At(h, "issue")
  /\ codes' = codes \cup {callback[h].signIn}
  /\ issued' = [issued EXCEPT ![callback[h].signIn] = @ + 1]
  /\ Finish(h)
  /\ UNCHANGED <<transactions, tokens, rows, signedIn, redeemed>> /\ Elsewhere

CallbackStep(h) ==
  \/ Authenticate(h) \/ Denied(h) \/ Suspend(h) \/ Upsert(h)
  \/ Audit(h) \/ Issue(h)
---------------------------------------------------------------------------
\* token: the code is deleted when it is looked up.
Redeem(x, s) ==
  /\ exchange[x] = NoSignIn
  /\ s \in codes
  /\ codes' = codes \ {s}
  /\ exchange' = [exchange EXCEPT ![x] = s]
  /\ UNCHANGED <<transactions, tokens, cookie, callback, rows, history, admin,
                 recorded, eligible>>

\* and the token is stored in a second hold of the mutex.
StoreToken(x) ==
  /\ exchange[x] # NoSignIn
  /\ tokens' = tokens \cup {exchange[x]}
  /\ redeemed' = [redeemed EXCEPT ![exchange[x]] = @ + 1]
  /\ exchange' = [exchange EXCEPT ![x] = NoSignIn]
  /\ UNCHANGED <<transactions, codes, cookie, callback, rows, signedIn, issued,
                 admin, recorded, eligible>>

\* userInfo: the status is read again; the token stays until it expires.
UserInfo(s) ==
  /\ s \in tokens
  /\ identity = "active"
  /\ signedIn' = TRUE
  /\ UNCHANGED <<memory, cookie, callback, rows, issued, redeemed>> /\ Elsewhere

\* A time to live runs out.  A token request that is refused after it found the
\* code (another redirect URI, no random bytes) also costs just the code, and a
\* token whose id_token could not be signed reaches nobody and only runs out.
Expire(s) ==
  /\ \/ s \in transactions /\ transactions' = transactions \ {s}
        /\ UNCHANGED <<codes, tokens>>
     \/ s \in codes /\ codes' = codes \ {s} /\ UNCHANGED <<transactions, tokens>>
     \/ s \in tokens /\ tokens' = tokens \ {s} /\ UNCHANGED <<transactions, codes>>
  /\ UNCHANGED <<cookie, callback, rows, history>> /\ Elsewhere

\* The process stops and starts: NewBroker makes empty maps and a new key.
Restart ==
  /\ transactions' = {} /\ codes' = {} /\ tokens' = {}
  /\ callback' = [h \in Callbacks |-> NoCallback]
  /\ exchange' = [x \in Exchanges |-> NoSignIn]
  /\ admin' = "idle"
  /\ UNCHANGED <<cookie, rows, history, recorded, eligible>>
---------------------------------------------------------------------------
\* ChangeStatus: the status first, its audit event after.
SetStatus(status) ==
  /\ admin = "idle"
  /\ identity # "absent"
  /\ identity' = status
  /\ admin' = "audit"
  /\ recorded' = FALSE
  /\ callback' = [h \in Callbacks |->
       [callback[h] EXCEPT !.barred = @ /\ status = "suspended"]]
  /\ UNCHANGED <<memory, cookie, exchange, audited, eligible, history>>

RecordChange ==
  /\ admin = "audit"
  /\ admin' = "idle"
  /\ recorded' = TRUE
  /\ UNCHANGED <<memory, cookie, callback, exchange, rows, eligible, history>>

\* The audit event cannot be stored: an error answer, and the status stays.
RecordFails ==
  /\ admin = "audit"
  /\ admin' = "idle"
  /\ UNCHANGED <<memory, cookie, callback, exchange, rows, recorded, eligible,
                 history>>

\* The corporate directory, external.
ChangeEligibility ==
  /\ eligible' = ~eligible
  /\ UNCHANGED <<memory, cookie, callback, exchange, rows, admin, recorded, history>>

Next ==
  \/ \E s \in SignIns :
       \/ Authorize(s) \/ CallbackRefused(s) \/ UserInfo(s) \/ Expire(s)
       \/ \E h \in Callbacks : Callback(h, s)
       \/ \E x \in Exchanges : Redeem(x, s)
  \/ \E h \in Callbacks : CallbackStep(h) \/ Fail(h)
  \/ \E x \in Exchanges : StoreToken(x)
  \/ \E status \in {"active", "suspended"} : SetStatus(status)
  \/ RecordChange \/ RecordFails \/ ChangeEligibility \/ Restart

Spec == Init /\ [][Next]_vars
---------------------------------------------------------------------------
\* A sign-in yields at most one code and at most one token, however often its
\* callback or its code is presented, at once or late, across restarts.
OneTokenPerSignIn == \A s \in SignIns : issued[s] <= 1 /\ redeemed[s] <= 1

\* No code and no token without the login event in the audit trail.
CodesAreAudited ==
  /\ codes \cup tokens \subseteq audited
  /\ \A x \in Exchanges : exchange[x] # NoSignIn => exchange[x] \in audited

\* The maps, slots and audit trail as SignInStages sees them.
CalledBack == {callback[h].signIn : h \in Callbacks} \ {NoSignIn}
Exchanged == {exchange[x] : x \in Exchanges} \ {NoSignIn}

Stages == INSTANCE SignInStages WITH
  begun <- transactions, called <- CalledBack, granted <- codes,
  exchanging <- Exchanged, held <- tokens

\* A sign-in goes through transaction, callback, code, exchange and token in
\* this order, is never in two of them, and has no code before its login event,
\* whatever is replayed, expires or restarts meanwhile.
SignInsMoveForward == Stages!Spec

\* A callback that found the employee suspended ends without a code, whatever
\* other sign-ins of the same employee do meanwhile, until an administrator
\* activates the identity.
SuspendedGetsNoCode ==
  \A h \in Callbacks : callback[h].barred => callback[h].pc \notin {"audit", "issue"}

\* What the design says of corporate identity changes: they are recorded.  So
\* once ChangeStatus is over the change it made is in the audit trail.
ChangesAreRecorded == admin = "idle" => recorded
---------------------------------------------------------------------------
\* The inductive invariant behind the theorems of IdentityProofs: a
\* sign-in is in one place at a time, and what comes later is still untouched.

Unredeemed(s) == redeemed[s] = 0 /\ s \notin tokens

Untouched(s) ==
  /\ issued[s] = 0 /\ Unredeemed(s)
  /\ s \notin codes
  /\ \A x \in Exchanges : exchange[x] # s

TransactionIsFresh ==
  \A s \in transactions :
    Untouched(s) /\ \A h \in Callbacks : callback[h].signIn # s

CallbackIsSole ==
  \A h \in Callbacks :
    /\ callback[h].pc = "idle" <=> callback[h].signIn = NoSignIn
    /\ callback[h].pc # "idle" =>
         /\ Untouched(callback[h].signIn)
         /\ \A g \in Callbacks : callback[g].signIn = callback[h].signIn => g = h
    /\ callback[h].pc = "issue" => callback[h].signIn \in audited

CodeIsUnredeemed ==
  \A s \in codes : Unredeemed(s) /\ \A x \in Exchanges : exchange[x] # s

ExchangeIsSole ==
  \A x \in Exchanges :
    exchange[x] # NoSignIn =>
      /\ Unredeemed(exchange[x])
      /\ \A y \in Exchanges : exchange[y] = exchange[x] => y = x

\* Only an activation ends a suspension, and it lifts the bars.
BarredIsSuspended ==
  \A h \in Callbacks : callback[h].barred => identity = "suspended"

BInv ==
  /\ TypeOK
  /\ TransactionIsFresh /\ CallbackIsSole /\ CodeIsUnredeemed /\ ExchangeIsSole
  /\ BarredIsSuspended
  /\ OneTokenPerSignIn /\ CodesAreAudited /\ SuspendedGetsNoCode
===========================================================================
