--------------------------- MODULE IdentityProofs ---------------------------
(***************************************************************************)
(* Proofs about IdentityBroker, EmployeeGate and LoginLimiter, for any     *)
(* number of concurrent sign-ins, requests, identities, accounts and       *)
(* addresses.                                                              *)
(***************************************************************************)
EXTENDS MCIdentityBroker, SignInRecovery, OnboardingProofs, FiniteSetTheorems, TLAPS

(***************************************************************************)
(* The broker.  BInv says that a sign-in is in one place at a time         *)
(* (transaction, callback, code, exchange, token) and that nothing of the  *)
(* later places exists yet: that is why neither a replayed callback nor a  *)
(* replayed code yields a second token.                                    *)
(***************************************************************************)
LEMMA InitiallyOne == Init => BInv
PROOF
  <1> SUFFICES ASSUME Init PROVE BInv
    OBVIOUS
  <1>1. NoCallback \in [pc : Points, signIn : SignIns \cup {NoSignIn}, barred : BOOLEAN]
    BY DEF NoCallback, Points
  <1>2. CallbackType
    BY <1>1 DEF Init, CallbackType
  <1>3. TypeOK
    BY <1>2 DEF Init, TypeOK
  <1>4. \A h \in Callbacks : callback[h] = NoCallback
    BY DEF Init
  <1>5. /\ TransactionIsFresh /\ CallbackIsSole /\ CodeIsUnredeemed
        /\ ExchangeIsSole /\ BarredIsSuspended /\ OneTokenPerSignIn
        /\ CodesAreAudited /\ SuspendedGetsNoCode
    BY <1>4
    DEF Init, NoCallback, TransactionIsFresh, CallbackIsSole, CodeIsUnredeemed,
        ExchangeIsSole, BarredIsSuspended, OneTokenPerSignIn, CodesAreAudited,
        SuspendedGetsNoCode
  <1> QED BY <1>3, <1>5 DEF BInv

\* Where a callback goes, and what is left of it.
LEMMA GoEffect ==
  ASSUME CallbackType, NEW h \in Callbacks, NEW pc \in Points, Go(h, pc)
  PROVE  /\ CallbackType'
         /\ \A g \in Callbacks :
              /\ callback'[g].pc = IF g = h THEN pc ELSE callback[g].pc
              /\ callback'[g].signIn = callback[g].signIn
              /\ callback'[g].barred = callback[g].barred
PROOF
  <1> DEFINE next == [callback[h] EXCEPT !.pc = pc]
  <1>1. next \in [pc : Points, signIn : SignIns \cup {NoSignIn}, barred : BOOLEAN]
    BY DEF CallbackType
  <1>2. /\ next.pc = pc /\ next.signIn = callback[h].signIn
        /\ next.barred = callback[h].barred
    BY DEF CallbackType
  <1>3. callback' = [callback EXCEPT ![h] = next]
    BY DEF Go
  <1> HIDE DEF next
  <1>4. CallbackType'
    BY <1>1, <1>3 DEF CallbackType
  <1>5. \A g \in Callbacks : callback'[g] = IF g = h THEN next ELSE callback[g]
    BY <1>3 DEF CallbackType
  <1> QED BY <1>2, <1>4, <1>5

LEMMA FinishEffect ==
  ASSUME CallbackType, NEW h \in Callbacks, Finish(h)
  PROVE  /\ CallbackType' /\ cookie' = NoSignIn
         /\ \A g \in Callbacks :
              callback'[g] = IF g = h THEN NoCallback ELSE callback[g]
PROOF
  <1>1. NoCallback \in [pc : Points, signIn : SignIns \cup {NoSignIn}, barred : BOOLEAN]
    BY DEF NoCallback, Points
  <1> QED BY <1>1 DEF CallbackType, Finish
---------------------------------------------------------------------------
\* One lemma per action, with one step per conjunct of the invariant.

\* A new sign-in takes a name of which nothing is left.
LEMMA AuthorizeKeeps ==
  ASSUME BInv, NEW s \in SignIns, Authorize(s)
  PROVE  BInv'
PROOF
  <1> USE NoSignInAssumption DEF Authorize, Elsewhere, memory, rows, history, At, Go,
        Finish, NoCallback, Unused, Valid, Untouched, Unredeemed
  <1>1. TypeOK'
    BY DEF BInv, TypeOK, CallbackType
  <1>2. TransactionIsFresh'
    BY DEF BInv, TypeOK, CallbackType, TransactionIsFresh,
              CallbackIsSole, CodeIsUnredeemed, ExchangeIsSole
  <1>3. CallbackIsSole'
    BY DEF BInv, TypeOK, CallbackType, TransactionIsFresh,
              CallbackIsSole, CodeIsUnredeemed, ExchangeIsSole
  <1>4. CodeIsUnredeemed'
    BY DEF BInv, TypeOK, CallbackType, TransactionIsFresh,
              CallbackIsSole, CodeIsUnredeemed, ExchangeIsSole
  <1>5. ExchangeIsSole'
    BY DEF BInv, TypeOK, CallbackType, TransactionIsFresh,
              CallbackIsSole, CodeIsUnredeemed, ExchangeIsSole
  <1>6. BarredIsSuspended'
    BY DEF BInv, TypeOK, CallbackType, BarredIsSuspended
  <1>7. OneTokenPerSignIn'
    BY DEF BInv, TypeOK, CallbackType, OneTokenPerSignIn,
              CallbackIsSole, ExchangeIsSole
  <1>8. CodesAreAudited'
    BY DEF BInv, TypeOK, CallbackType, CodesAreAudited,
              CallbackIsSole
  <1>9. SuspendedGetsNoCode'
    BY DEF BInv, TypeOK, CallbackType, BarredIsSuspended,
              SuspendedGetsNoCode
  <1> QED BY <1>1, <1>2, <1>3, <1>4, <1>5, <1>6, <1>7, <1>8, <1>9 DEF BInv

\* The transaction becomes the callback, and is no longer a transaction.
LEMMA CallbackKeeps ==
  ASSUME BInv, NEW h \in Callbacks, NEW s \in SignIns, Callback(h, s)
  PROVE  BInv'
PROOF
  <1> USE NoSignInAssumption DEF Callback, Elsewhere, memory, rows, history, At, Go,
        Finish, NoCallback, Unused, Valid, Untouched, Unredeemed
  <1>1. TypeOK'
    BY DEF BInv, TypeOK, CallbackType, Points
  <1>2. TransactionIsFresh'
    BY DEF BInv, TypeOK, CallbackType, TransactionIsFresh,
              CallbackIsSole, CodeIsUnredeemed, ExchangeIsSole
  <1>3. CallbackIsSole'
    BY DEF BInv, TypeOK, CallbackType, TransactionIsFresh,
              CallbackIsSole, CodeIsUnredeemed, ExchangeIsSole
  <1>4. CodeIsUnredeemed'
    BY DEF BInv, TypeOK, CallbackType, TransactionIsFresh,
              CallbackIsSole, CodeIsUnredeemed, ExchangeIsSole
  <1>5. ExchangeIsSole'
    BY DEF BInv, TypeOK, CallbackType, TransactionIsFresh,
              CallbackIsSole, CodeIsUnredeemed, ExchangeIsSole
  <1>6. BarredIsSuspended'
    BY DEF BInv, TypeOK, CallbackType, BarredIsSuspended
  <1>7. OneTokenPerSignIn'
    BY DEF BInv, TypeOK, CallbackType, OneTokenPerSignIn,
              CallbackIsSole, ExchangeIsSole
  <1>8. CodesAreAudited'
    BY DEF BInv, TypeOK, CallbackType, CodesAreAudited,
              CallbackIsSole
  <1>9. SuspendedGetsNoCode'
    BY DEF BInv, TypeOK, CallbackType, BarredIsSuspended,
              SuspendedGetsNoCode
  <1> QED BY <1>1, <1>2, <1>3, <1>4, <1>5, <1>6, <1>7, <1>8, <1>9 DEF BInv

\* The callback moves on.
LEMMA AuthenticateKeeps ==
  ASSUME BInv, NEW h \in Callbacks, Authenticate(h)
  PROVE  BInv'
PROOF
  <1> USE NoSignInAssumption DEF Authenticate, Elsewhere, memory, rows, history, At
  <1>1. /\ CallbackType' /\ cookie' \in SignIns \cup {NoSignIn}
        /\ callback[h].pc = "authenticate"
        /\ \A g \in Callbacks \ {h} :
             /\ callback'[g].pc = callback[g].pc
             /\ callback'[g].signIn = callback[g].signIn
             /\ callback'[g].barred = callback[g].barred
        /\ callback'[h].pc \in {"upsert", "denied"}
        /\ callback'[h].signIn = callback[h].signIn
        /\ callback'[h].barred = callback[h].barred
    BY GoEffect DEF BInv, TypeOK, Points
  <1> USE DEF NoCallback, Untouched, Unredeemed
  <1>2. TypeOK'
    BY <1>1 DEF BInv, TypeOK
  <1>3. TransactionIsFresh'
    BY <1>1 DEF BInv, TypeOK, TransactionIsFresh, CallbackIsSole,
              CodeIsUnredeemed, ExchangeIsSole
  <1>4. CallbackIsSole'
    BY <1>1 DEF BInv, TypeOK, TransactionIsFresh, CallbackIsSole,
              CodeIsUnredeemed, ExchangeIsSole
  <1>5. CodeIsUnredeemed'
    BY <1>1 DEF BInv, TypeOK, TransactionIsFresh, CallbackIsSole,
              CodeIsUnredeemed, ExchangeIsSole
  <1>6. ExchangeIsSole'
    BY <1>1 DEF BInv, TypeOK, TransactionIsFresh, CallbackIsSole,
              CodeIsUnredeemed, ExchangeIsSole
  <1>7. BarredIsSuspended'
    BY <1>1 DEF BInv, TypeOK, BarredIsSuspended
  <1>8. OneTokenPerSignIn'
    BY <1>1 DEF BInv, TypeOK, OneTokenPerSignIn, CallbackIsSole,
              ExchangeIsSole
  <1>9. CodesAreAudited'
    BY <1>1 DEF BInv, TypeOK, CodesAreAudited, CallbackIsSole
  <1>10. SuspendedGetsNoCode'
    BY <1>1 DEF BInv, TypeOK, BarredIsSuspended, SuspendedGetsNoCode
  <1> QED BY <1>2, <1>3, <1>4, <1>5, <1>6, <1>7, <1>8, <1>9, <1>10 DEF BInv

\* The callback moves on or ends.
LEMMA DeniedKeeps ==
  ASSUME BInv, NEW h \in Callbacks, Denied(h)
  PROVE  BInv'
PROOF
  <1> USE NoSignInAssumption DEF Denied, Elsewhere, memory, rows, history, At
  <1>1. /\ CallbackType' /\ cookie' \in SignIns \cup {NoSignIn}
        /\ callback[h].pc = "denied"
        /\ \A g \in Callbacks \ {h} :
             /\ callback'[g].pc = callback[g].pc
             /\ callback'[g].signIn = callback[g].signIn
             /\ callback'[g].barred = callback[g].barred
        /\ \/ callback'[h] = NoCallback
           \/ /\ callback'[h].pc = "suspend"
              /\ callback'[h].signIn = callback[h].signIn
              /\ callback'[h].barred = callback[h].barred
    BY GoEffect, FinishEffect DEF BInv, TypeOK, Points
  <1> USE DEF NoCallback, Untouched, Unredeemed
  <1>2. TypeOK'
    BY <1>1 DEF BInv, TypeOK
  <1>3. TransactionIsFresh'
    BY <1>1 DEF BInv, TypeOK, TransactionIsFresh, CallbackIsSole,
              CodeIsUnredeemed, ExchangeIsSole
  <1>4. CallbackIsSole'
    BY <1>1 DEF BInv, TypeOK, TransactionIsFresh, CallbackIsSole,
              CodeIsUnredeemed, ExchangeIsSole
  <1>5. CodeIsUnredeemed'
    BY <1>1 DEF BInv, TypeOK, TransactionIsFresh, CallbackIsSole,
              CodeIsUnredeemed, ExchangeIsSole
  <1>6. ExchangeIsSole'
    BY <1>1 DEF BInv, TypeOK, TransactionIsFresh, CallbackIsSole,
              CodeIsUnredeemed, ExchangeIsSole
  <1>7. BarredIsSuspended'
    BY <1>1 DEF BInv, TypeOK, BarredIsSuspended
  <1>8. OneTokenPerSignIn'
    BY <1>1 DEF BInv, TypeOK, OneTokenPerSignIn, CallbackIsSole,
              ExchangeIsSole
  <1>9. CodesAreAudited'
    BY <1>1 DEF BInv, TypeOK, CodesAreAudited, CallbackIsSole
  <1>10. SuspendedGetsNoCode'
    BY <1>1 DEF BInv, TypeOK, BarredIsSuspended, SuspendedGetsNoCode
  <1> QED BY <1>2, <1>3, <1>4, <1>5, <1>6, <1>7, <1>8, <1>9, <1>10 DEF BInv

\* The callback ends; its sign-in is left nowhere.
LEMMA SuspendKeeps ==
  ASSUME BInv, NEW h \in Callbacks, Suspend(h)
  PROVE  BInv'
PROOF
  <1> USE NoSignInAssumption DEF Suspend, Elsewhere, memory, rows, history, At
  <1>1. /\ CallbackType' /\ cookie' \in SignIns \cup {NoSignIn}
        /\ callback[h].pc = "suspend"
        /\ \A g \in Callbacks \ {h} :
             /\ callback'[g].pc = callback[g].pc
             /\ callback'[g].signIn = callback[g].signIn
             /\ callback'[g].barred = callback[g].barred
        /\ callback'[h] = NoCallback
    BY FinishEffect DEF BInv, TypeOK, Points
  <1> USE DEF NoCallback, Untouched, Unredeemed
  <1>2. TypeOK'
    BY <1>1 DEF BInv, TypeOK
  <1>3. TransactionIsFresh'
    BY <1>1 DEF BInv, TypeOK, TransactionIsFresh, CallbackIsSole,
              CodeIsUnredeemed, ExchangeIsSole
  <1>4. CallbackIsSole'
    BY <1>1 DEF BInv, TypeOK, TransactionIsFresh, CallbackIsSole,
              CodeIsUnredeemed, ExchangeIsSole
  <1>5. CodeIsUnredeemed'
    BY <1>1 DEF BInv, TypeOK, TransactionIsFresh, CallbackIsSole,
              CodeIsUnredeemed, ExchangeIsSole
  <1>6. ExchangeIsSole'
    BY <1>1 DEF BInv, TypeOK, TransactionIsFresh, CallbackIsSole,
              CodeIsUnredeemed, ExchangeIsSole
  <1>7. BarredIsSuspended'
    BY <1>1 DEF BInv, TypeOK, BarredIsSuspended
  <1>8. OneTokenPerSignIn'
    BY <1>1 DEF BInv, TypeOK, OneTokenPerSignIn, CallbackIsSole,
              ExchangeIsSole
  <1>9. CodesAreAudited'
    BY <1>1 DEF BInv, TypeOK, CodesAreAudited, CallbackIsSole
  <1>10. SuspendedGetsNoCode'
    BY <1>1 DEF BInv, TypeOK, BarredIsSuspended, SuspendedGetsNoCode
  <1> QED BY <1>2, <1>3, <1>4, <1>5, <1>6, <1>7, <1>8, <1>9, <1>10 DEF BInv

\* The same, on an error.
LEMMA FailKeeps ==
  ASSUME BInv, NEW h \in Callbacks, Fail(h)
  PROVE  BInv'
PROOF
  <1> USE NoSignInAssumption DEF Fail, Elsewhere, memory, rows, history, At
  <1>1. /\ CallbackType' /\ cookie' \in SignIns \cup {NoSignIn}
        /\ callback[h].pc # "idle"
        /\ \A g \in Callbacks \ {h} :
             /\ callback'[g].pc = callback[g].pc
             /\ callback'[g].signIn = callback[g].signIn
             /\ callback'[g].barred = callback[g].barred
        /\ callback'[h] = NoCallback
    BY FinishEffect DEF BInv, TypeOK, Points
  <1> USE DEF NoCallback, Untouched, Unredeemed
  <1>2. TypeOK'
    BY <1>1 DEF BInv, TypeOK
  <1>3. TransactionIsFresh'
    BY <1>1 DEF BInv, TypeOK, TransactionIsFresh, CallbackIsSole,
              CodeIsUnredeemed, ExchangeIsSole
  <1>4. CallbackIsSole'
    BY <1>1 DEF BInv, TypeOK, TransactionIsFresh, CallbackIsSole,
              CodeIsUnredeemed, ExchangeIsSole
  <1>5. CodeIsUnredeemed'
    BY <1>1 DEF BInv, TypeOK, TransactionIsFresh, CallbackIsSole,
              CodeIsUnredeemed, ExchangeIsSole
  <1>6. ExchangeIsSole'
    BY <1>1 DEF BInv, TypeOK, TransactionIsFresh, CallbackIsSole,
              CodeIsUnredeemed, ExchangeIsSole
  <1>7. BarredIsSuspended'
    BY <1>1 DEF BInv, TypeOK, BarredIsSuspended
  <1>8. OneTokenPerSignIn'
    BY <1>1 DEF BInv, TypeOK, OneTokenPerSignIn, CallbackIsSole,
              ExchangeIsSole
  <1>9. CodesAreAudited'
    BY <1>1 DEF BInv, TypeOK, CodesAreAudited, CallbackIsSole
  <1>10. SuspendedGetsNoCode'
    BY <1>1 DEF BInv, TypeOK, BarredIsSuspended, SuspendedGetsNoCode
  <1> QED BY <1>2, <1>3, <1>4, <1>5, <1>6, <1>7, <1>8, <1>9, <1>10 DEF BInv

\* The status read under Upsert is the row's.
LEMMA UpsertKeeps ==
  ASSUME BInv, NEW h \in Callbacks, Upsert(h)
  PROVE  BInv'
PROOF
  <1> USE NoSignInAssumption DEF Upsert, Elsewhere, memory, rows, history, At
  <1>1. /\ CallbackType' /\ cookie' \in SignIns \cup {NoSignIn}
        /\ callback[h].pc = "upsert"
        /\ \A g \in Callbacks \ {h} :
             /\ callback'[g].pc = callback[g].pc
             /\ callback'[g].signIn = callback[g].signIn
             /\ callback'[g].barred = callback[g].barred
        /\ \/ callback'[h] = NoCallback
           \/ /\ callback'[h].pc = "audit" /\ identity # "suspended"
              /\ callback'[h].signIn = callback[h].signIn
              /\ callback'[h].barred = callback[h].barred
    BY GoEffect, FinishEffect DEF BInv, TypeOK, Points
  <1> USE DEF NoCallback, Untouched, Unredeemed
  <1>2. TypeOK'
    BY <1>1 DEF BInv, TypeOK
  <1>3. TransactionIsFresh'
    BY <1>1 DEF BInv, TypeOK, TransactionIsFresh, CallbackIsSole,
              CodeIsUnredeemed, ExchangeIsSole
  <1>4. CallbackIsSole'
    BY <1>1 DEF BInv, TypeOK, TransactionIsFresh, CallbackIsSole,
              CodeIsUnredeemed, ExchangeIsSole
  <1>5. CodeIsUnredeemed'
    BY <1>1 DEF BInv, TypeOK, TransactionIsFresh, CallbackIsSole,
              CodeIsUnredeemed, ExchangeIsSole
  <1>6. ExchangeIsSole'
    BY <1>1 DEF BInv, TypeOK, TransactionIsFresh, CallbackIsSole,
              CodeIsUnredeemed, ExchangeIsSole
  <1>7. BarredIsSuspended'
    BY <1>1 DEF BInv, TypeOK, BarredIsSuspended
  <1>8. OneTokenPerSignIn'
    BY <1>1 DEF BInv, TypeOK, OneTokenPerSignIn, CallbackIsSole,
              ExchangeIsSole
  <1>9. CodesAreAudited'
    BY <1>1 DEF BInv, TypeOK, CodesAreAudited, CallbackIsSole
  <1>10. SuspendedGetsNoCode'
    BY <1>1 DEF BInv, TypeOK, BarredIsSuspended, SuspendedGetsNoCode
  <1> QED BY <1>2, <1>3, <1>4, <1>5, <1>6, <1>7, <1>8, <1>9, <1>10 DEF BInv

\* The event is stored before the code is issued.
LEMMA AuditKeeps ==
  ASSUME BInv, NEW h \in Callbacks, Audit(h)
  PROVE  BInv'
PROOF
  <1> USE NoSignInAssumption DEF Audit, Elsewhere, memory, rows, history, At
  <1>1. /\ CallbackType' /\ cookie' \in SignIns \cup {NoSignIn}
        /\ callback[h].pc = "audit"
        /\ \A g \in Callbacks \ {h} :
             /\ callback'[g].pc = callback[g].pc
             /\ callback'[g].signIn = callback[g].signIn
             /\ callback'[g].barred = callback[g].barred
        /\ callback'[h].pc = "issue"
        /\ callback'[h].signIn = callback[h].signIn
        /\ callback'[h].barred = callback[h].barred
    BY GoEffect DEF BInv, TypeOK, Points
  <1> USE DEF NoCallback, Untouched, Unredeemed
  <1>2. TypeOK'
    BY <1>1 DEF BInv, TypeOK, CallbackType, CallbackIsSole
  <1>3. TransactionIsFresh'
    BY <1>1 DEF BInv, TypeOK, TransactionIsFresh, CallbackIsSole,
              CodeIsUnredeemed, ExchangeIsSole
  <1>4. CallbackIsSole'
    BY <1>1 DEF BInv, TypeOK, TransactionIsFresh, CallbackIsSole,
              CodeIsUnredeemed, ExchangeIsSole
  <1>5. CodeIsUnredeemed'
    BY <1>1 DEF BInv, TypeOK, TransactionIsFresh, CallbackIsSole,
              CodeIsUnredeemed, ExchangeIsSole
  <1>6. ExchangeIsSole'
    BY <1>1 DEF BInv, TypeOK, TransactionIsFresh, CallbackIsSole,
              CodeIsUnredeemed, ExchangeIsSole
  <1>7. BarredIsSuspended'
    BY <1>1 DEF BInv, TypeOK, BarredIsSuspended
  <1>8. OneTokenPerSignIn'
    BY <1>1 DEF BInv, TypeOK, OneTokenPerSignIn, CallbackIsSole,
              ExchangeIsSole
  <1>9. CodesAreAudited'
    BY <1>1 DEF BInv, TypeOK, CodesAreAudited, CallbackIsSole
  <1>10. SuspendedGetsNoCode'
    BY <1>1 DEF BInv, TypeOK, BarredIsSuspended, SuspendedGetsNoCode
  <1> QED BY <1>2, <1>3, <1>4, <1>5, <1>6, <1>7, <1>8, <1>9, <1>10 DEF BInv

\* The callback becomes the first code of its sign-in.
LEMMA IssueKeeps ==
  ASSUME BInv, NEW h \in Callbacks, Issue(h)
  PROVE  BInv'
PROOF
  <1> USE NoSignInAssumption DEF Issue, Elsewhere, memory, rows, history, At
  <1>1. /\ CallbackType' /\ cookie' \in SignIns \cup {NoSignIn}
        /\ callback[h].pc = "issue"
        /\ \A g \in Callbacks \ {h} :
             /\ callback'[g].pc = callback[g].pc
             /\ callback'[g].signIn = callback[g].signIn
             /\ callback'[g].barred = callback[g].barred
        /\ callback'[h] = NoCallback
    BY FinishEffect DEF BInv, TypeOK, Points
  <1> USE DEF NoCallback, Untouched, Unredeemed
  <1>2. TypeOK'
    BY <1>1 DEF BInv, TypeOK, CallbackType, CallbackIsSole
  <1>3. TransactionIsFresh'
    BY <1>1 DEF BInv, TypeOK, TransactionIsFresh, CallbackIsSole,
              CodeIsUnredeemed, ExchangeIsSole
  <1>4. CallbackIsSole'
    BY <1>1 DEF BInv, TypeOK, TransactionIsFresh, CallbackIsSole,
              CodeIsUnredeemed, ExchangeIsSole
  <1>5. CodeIsUnredeemed'
    BY <1>1 DEF BInv, TypeOK, TransactionIsFresh, CallbackIsSole,
              CodeIsUnredeemed, ExchangeIsSole
  <1>6. ExchangeIsSole'
    BY <1>1 DEF BInv, TypeOK, TransactionIsFresh, CallbackIsSole,
              CodeIsUnredeemed, ExchangeIsSole
  <1>7. BarredIsSuspended'
    BY <1>1 DEF BInv, TypeOK, BarredIsSuspended
  <1>8. OneTokenPerSignIn'
    BY <1>1 DEF BInv, TypeOK, OneTokenPerSignIn, CallbackIsSole,
              ExchangeIsSole
  <1>9. CodesAreAudited'
    BY <1>1 DEF BInv, TypeOK, CodesAreAudited, CallbackIsSole
  <1>10. SuspendedGetsNoCode'
    BY <1>1 DEF BInv, TypeOK, BarredIsSuspended, SuspendedGetsNoCode
  <1> QED BY <1>2, <1>3, <1>4, <1>5, <1>6, <1>7, <1>8, <1>9, <1>10 DEF BInv

\* The code becomes the only exchange of its sign-in.
LEMMA RedeemKeeps ==
  ASSUME BInv, NEW x \in Exchanges, NEW s \in SignIns, Redeem(x, s)
  PROVE  BInv'
PROOF
  <1> USE NoSignInAssumption DEF Redeem, Elsewhere, memory, rows, history, At, Go,
        Finish, NoCallback, Unused, Valid, Untouched, Unredeemed
  <1>1. TypeOK'
    BY DEF BInv, TypeOK, CallbackType
  <1>2. TransactionIsFresh'
    BY DEF BInv, TypeOK, CallbackType, TransactionIsFresh,
              CallbackIsSole, CodeIsUnredeemed, ExchangeIsSole
  <1>3. CallbackIsSole'
    BY DEF BInv, TypeOK, CallbackType, TransactionIsFresh,
              CallbackIsSole, CodeIsUnredeemed, ExchangeIsSole
  <1>4. CodeIsUnredeemed'
    BY DEF BInv, TypeOK, CallbackType, TransactionIsFresh,
              CallbackIsSole, CodeIsUnredeemed, ExchangeIsSole
  <1>5. ExchangeIsSole'
    BY DEF BInv, TypeOK, CallbackType, TransactionIsFresh,
              CallbackIsSole, CodeIsUnredeemed, ExchangeIsSole
  <1>6. BarredIsSuspended'
    BY DEF BInv, TypeOK, CallbackType, BarredIsSuspended
  <1>7. OneTokenPerSignIn'
    BY DEF BInv, TypeOK, CallbackType, OneTokenPerSignIn,
              CallbackIsSole, ExchangeIsSole
  <1>8. CodesAreAudited'
    BY DEF BInv, TypeOK, CallbackType, CodesAreAudited,
              CallbackIsSole
  <1>9. SuspendedGetsNoCode'
    BY DEF BInv, TypeOK, CallbackType, BarredIsSuspended,
              SuspendedGetsNoCode
  <1> QED BY <1>1, <1>2, <1>3, <1>4, <1>5, <1>6, <1>7, <1>8, <1>9 DEF BInv

\* The exchange becomes the first token of its sign-in.
LEMMA StoreTokenKeeps ==
  ASSUME BInv, NEW x \in Exchanges, StoreToken(x)
  PROVE  BInv'
PROOF
  <1> USE NoSignInAssumption DEF StoreToken, Elsewhere, memory, rows, history, At, Go,
        Finish, NoCallback, Unused, Valid, Untouched, Unredeemed
  <1>1. TypeOK'
    BY DEF BInv, TypeOK, CallbackType
  <1>2. TransactionIsFresh'
    BY DEF BInv, TypeOK, CallbackType, TransactionIsFresh,
              CallbackIsSole, CodeIsUnredeemed, ExchangeIsSole
  <1>3. CallbackIsSole'
    BY DEF BInv, TypeOK, CallbackType, TransactionIsFresh,
              CallbackIsSole, CodeIsUnredeemed, ExchangeIsSole
  <1>4. CodeIsUnredeemed'
    BY DEF BInv, TypeOK, CallbackType, TransactionIsFresh,
              CallbackIsSole, CodeIsUnredeemed, ExchangeIsSole
  <1>5. ExchangeIsSole'
    BY DEF BInv, TypeOK, CallbackType, TransactionIsFresh,
              CallbackIsSole, CodeIsUnredeemed, ExchangeIsSole
  <1>6. BarredIsSuspended'
    BY DEF BInv, TypeOK, CallbackType, BarredIsSuspended
  <1>7. OneTokenPerSignIn'
    BY DEF BInv, TypeOK, CallbackType, OneTokenPerSignIn,
              CallbackIsSole, ExchangeIsSole
  <1>8. CodesAreAudited'
    BY DEF BInv, TypeOK, CallbackType, CodesAreAudited,
              CallbackIsSole
  <1>9. SuspendedGetsNoCode'
    BY DEF BInv, TypeOK, CallbackType, BarredIsSuspended,
              SuspendedGetsNoCode
  <1> QED BY <1>1, <1>2, <1>3, <1>4, <1>5, <1>6, <1>7, <1>8, <1>9 DEF BInv

\* Entries only go.
LEMMA ExpireKeeps ==
  ASSUME BInv, NEW s \in SignIns, Expire(s)
  PROVE  BInv'
PROOF
  <1> USE NoSignInAssumption DEF Expire, Elsewhere, memory, rows, history, At, Go,
        Finish, NoCallback, Unused, Valid, Untouched, Unredeemed
  <1>1. TypeOK'
    BY DEF BInv, TypeOK, CallbackType
  <1>2. TransactionIsFresh'
    BY DEF BInv, TypeOK, CallbackType, TransactionIsFresh,
              CallbackIsSole, CodeIsUnredeemed, ExchangeIsSole
  <1>3. CallbackIsSole'
    BY DEF BInv, TypeOK, CallbackType, TransactionIsFresh,
              CallbackIsSole, CodeIsUnredeemed, ExchangeIsSole
  <1>4. CodeIsUnredeemed'
    BY DEF BInv, TypeOK, CallbackType, TransactionIsFresh,
              CallbackIsSole, CodeIsUnredeemed, ExchangeIsSole
  <1>5. ExchangeIsSole'
    BY DEF BInv, TypeOK, CallbackType, TransactionIsFresh,
              CallbackIsSole, CodeIsUnredeemed, ExchangeIsSole
  <1>6. BarredIsSuspended'
    BY DEF BInv, TypeOK, CallbackType, BarredIsSuspended
  <1>7. OneTokenPerSignIn'
    BY DEF BInv, TypeOK, CallbackType, OneTokenPerSignIn,
              CallbackIsSole, ExchangeIsSole
  <1>8. CodesAreAudited'
    BY DEF BInv, TypeOK, CallbackType, CodesAreAudited,
              CallbackIsSole
  <1>9. SuspendedGetsNoCode'
    BY DEF BInv, TypeOK, CallbackType, BarredIsSuspended,
              SuspendedGetsNoCode
  <1> QED BY <1>1, <1>2, <1>3, <1>4, <1>5, <1>6, <1>7, <1>8, <1>9 DEF BInv

\* Memory and handlers are empty; what is left is history.
LEMMA RestartKeeps ==
  ASSUME BInv, Restart
  PROVE  BInv'
PROOF
  <1> USE NoSignInAssumption DEF Restart, Elsewhere, memory, rows, history, At, Go,
        Finish, NoCallback, Unused, Valid, Untouched, Unredeemed
  <1>1. TypeOK'
    BY DEF BInv, TypeOK, CallbackType, Points
  <1>2. TransactionIsFresh'
    BY DEF BInv, TypeOK, CallbackType, TransactionIsFresh,
              CallbackIsSole, CodeIsUnredeemed, ExchangeIsSole
  <1>3. CallbackIsSole'
    BY DEF BInv, TypeOK, CallbackType, TransactionIsFresh,
              CallbackIsSole, CodeIsUnredeemed, ExchangeIsSole
  <1>4. CodeIsUnredeemed'
    BY DEF BInv, TypeOK, CallbackType, TransactionIsFresh,
              CallbackIsSole, CodeIsUnredeemed, ExchangeIsSole
  <1>5. ExchangeIsSole'
    BY DEF BInv, TypeOK, CallbackType, TransactionIsFresh,
              CallbackIsSole, CodeIsUnredeemed, ExchangeIsSole
  <1>6. BarredIsSuspended'
    BY DEF BInv, TypeOK, CallbackType, BarredIsSuspended
  <1>7. OneTokenPerSignIn'
    BY DEF BInv, TypeOK, CallbackType, OneTokenPerSignIn,
              CallbackIsSole, ExchangeIsSole
  <1>8. CodesAreAudited'
    BY DEF BInv, TypeOK, CallbackType, CodesAreAudited,
              CallbackIsSole
  <1>9. SuspendedGetsNoCode'
    BY DEF BInv, TypeOK, CallbackType, BarredIsSuspended,
              SuspendedGetsNoCode
  <1> QED BY <1>1, <1>2, <1>3, <1>4, <1>5, <1>6, <1>7, <1>8, <1>9 DEF BInv

\* A status change lifts bars and sets none.
LEMMA SetStatusKeeps ==
  ASSUME BInv, NEW status \in {"active", "suspended"}, SetStatus(status)
  PROVE  BInv'
PROOF
  <1> USE NoSignInAssumption DEF SetStatus, Elsewhere, memory, rows, history, At, Go,
        Finish, NoCallback, Unused, Valid, Untouched, Unredeemed
  <1>1. TypeOK'
    <2>1. CallbackType'
      <3>1. ASSUME NEW h \in Callbacks
            PROVE  callback'[h] \in [pc : Points, signIn : SignIns \cup {NoSignIn},
                                      barred : BOOLEAN]
        <4>1. callback[h] \in [pc : Points, signIn : SignIns \cup {NoSignIn}, barred : BOOLEAN]
          BY DEF BInv, TypeOK, CallbackType
        <4>2. callback'[h] = [callback[h] EXCEPT !.barred = @ /\ status = "suspended"]
          OBVIOUS
        <4> QED BY <4>1, <4>2
      <3>2. callback' = [h \in Callbacks |-> callback'[h]]
        OBVIOUS
      <3> QED BY <3>1, <3>2 DEF CallbackType
    <2>2. identity' \in {"absent", "active", "suspended"}
          /\ admin' \in {"idle", "audit"} /\ recorded' \in BOOLEAN
      OBVIOUS
    <2> HIDE DEF SetStatus
    <2>3. UNCHANGED <<transactions, codes, tokens, cookie, exchange, audited, eligible,
                      signedIn, issued, redeemed>>
      BY DEF SetStatus
    <2> QED BY <2>1, <2>2, <2>3 DEF BInv, TypeOK
  <1>2. TransactionIsFresh'
    BY DEF BInv, TypeOK, CallbackType, TransactionIsFresh,
              CallbackIsSole, CodeIsUnredeemed, ExchangeIsSole
  <1>3. CallbackIsSole'
    BY DEF BInv, TypeOK, CallbackType, TransactionIsFresh,
              CallbackIsSole, CodeIsUnredeemed, ExchangeIsSole
  <1>4. CodeIsUnredeemed'
    BY DEF BInv, TypeOK, CallbackType, TransactionIsFresh,
              CallbackIsSole, CodeIsUnredeemed, ExchangeIsSole
  <1>5. ExchangeIsSole'
    BY DEF BInv, TypeOK, CallbackType, TransactionIsFresh,
              CallbackIsSole, CodeIsUnredeemed, ExchangeIsSole
  <1>6. BarredIsSuspended'
    BY DEF BInv, TypeOK, CallbackType, BarredIsSuspended
  <1>7. OneTokenPerSignIn'
    BY DEF BInv, TypeOK, CallbackType, OneTokenPerSignIn,
              CallbackIsSole, ExchangeIsSole
  <1>8. CodesAreAudited'
    BY DEF BInv, TypeOK, CallbackType, CodesAreAudited,
              CallbackIsSole
  <1>9. SuspendedGetsNoCode'
    BY DEF BInv, TypeOK, CallbackType, BarredIsSuspended,
              SuspendedGetsNoCode
  <1> QED BY <1>1, <1>2, <1>3, <1>4, <1>5, <1>6, <1>7, <1>8, <1>9 DEF BInv

\* The other actions touch nothing BInv speaks of but the types.
LEMMA OthersKeep ==
  ASSUME BInv,
         \/ \E s \in SignIns : CallbackRefused(s) \/ UserInfo(s)
         \/ RecordChange \/ RecordFails \/ ChangeEligibility
  PROVE  BInv'
PROOF
  <1>1. /\ UNCHANGED <<memory, callback, exchange, audited, issued, redeemed>>
        /\ cookie' \in SignIns \cup {NoSignIn}
        /\ identity' = identity /\ admin' \in {"idle", "audit"}
        /\ recorded' \in BOOLEAN /\ eligible' \in BOOLEAN /\ signedIn' \in BOOLEAN
    BY DEF BInv, TypeOK, CallbackRefused, UserInfo, RecordChange, RecordFails,
           ChangeEligibility, Elsewhere, rows, history
  <1>2. TypeOK'
    BY <1>1 DEF BInv, TypeOK, CallbackType, memory
  <1>3. /\ TransactionIsFresh' /\ CallbackIsSole' /\ CodeIsUnredeemed'
        /\ ExchangeIsSole' /\ BarredIsSuspended' /\ OneTokenPerSignIn'
        /\ CodesAreAudited' /\ SuspendedGetsNoCode'
    BY <1>1
    DEF BInv, memory, TransactionIsFresh, CallbackIsSole, CodeIsUnredeemed,
        ExchangeIsSole, BarredIsSuspended, OneTokenPerSignIn, CodesAreAudited,
        SuspendedGetsNoCode,
        Untouched, Unredeemed
  <1> QED BY <1>2, <1>3 DEF BInv

LEMMA NextKeeps == BInv /\ [Next]_vars => BInv'
PROOF
  <1> SUFFICES ASSUME BInv, [Next]_vars PROVE BInv'
    OBVIOUS
  <1>1. CASE \E s \in SignIns : Authorize(s)
    BY <1>1, AuthorizeKeeps
  <1>2. CASE \E h \in Callbacks, s \in SignIns : Callback(h, s)
    BY <1>2, CallbackKeeps
  <1>3. CASE \E h \in Callbacks : Authenticate(h)
    BY <1>3, AuthenticateKeeps
  <1>4. CASE \E h \in Callbacks : Denied(h)
    BY <1>4, DeniedKeeps
  <1>5. CASE \E h \in Callbacks : Suspend(h)
    BY <1>5, SuspendKeeps
  <1>6. CASE \E h \in Callbacks : Fail(h)
    BY <1>6, FailKeeps
  <1>7. CASE \E h \in Callbacks : Upsert(h)
    BY <1>7, UpsertKeeps
  <1>8. CASE \E h \in Callbacks : Audit(h)
    BY <1>8, AuditKeeps
  <1>9. CASE \E h \in Callbacks : Issue(h)
    BY <1>9, IssueKeeps
  <1>10. CASE \E x \in Exchanges, s \in SignIns : Redeem(x, s)
    BY <1>10, RedeemKeeps
  <1>11. CASE \E x \in Exchanges : StoreToken(x)
    BY <1>11, StoreTokenKeeps
  <1>12. CASE \E s \in SignIns : Expire(s)
    BY <1>12, ExpireKeeps
  <1>13. CASE Restart
    BY <1>13, RestartKeeps
  <1>14. CASE \E status \in {"active", "suspended"} : SetStatus(status)
    BY <1>14, SetStatusKeeps
  <1>15. CASE \/ \E s \in SignIns : CallbackRefused(s) \/ UserInfo(s)
             \/ RecordChange \/ RecordFails \/ ChangeEligibility
    BY <1>15, OthersKeep
  <1>16. CASE UNCHANGED vars
    BY <1>16
    DEF vars, memory, rows, history, BInv, TypeOK, CallbackType,
        TransactionIsFresh, CallbackIsSole,
        CodeIsUnredeemed, ExchangeIsSole, BarredIsSuspended, OneTokenPerSignIn,
        CodesAreAudited, SuspendedGetsNoCode, Untouched, Unredeemed
  <1> QED
    BY <1>1, <1>2, <1>3, <1>4, <1>5, <1>6, <1>7, <1>8, <1>9,
       <1>10, <1>11, <1>12, <1>13, <1>14, <1>15, <1>16
    DEF Next, CallbackStep
---------------------------------------------------------------------------
\* The inductive invariant holds, for every set of sign-ins and requests.
THEOREM BrokerInvariant == Spec => []BInv
PROOF
  <1>1. Init => BInv
    BY InitiallyOne
  <1>2. BInv /\ [Next]_vars => BInv'
    BY NextKeeps
  <1> QED BY <1>1, <1>2, PTL DEF Spec

\* The maps hold sign-ins, and each callback request is at one of its points.
THEOREM BrokerTypeCorrect == Spec => []TypeOK
PROOF
  <1>1. BInv => TypeOK
    BY DEF BInv
  <1> QED BY <1>1, BrokerInvariant, PTL

\* Presenting the callback or the code again, at once or after a restart,
\* never yields a second code or token.
THEOREM NeverRedeemedTwice == Spec => []OneTokenPerSignIn
PROOF
  <1>1. BInv => OneTokenPerSignIn
    BY DEF BInv
  <1> QED BY <1>1, BrokerInvariant, PTL

\* The login event is in the audit trail before the code exists.
THEOREM NoCodeUnaudited == Spec => []CodesAreAudited
PROOF
  <1>1. BInv => CodesAreAudited
    BY DEF BInv
  <1> QED BY <1>1, BrokerInvariant, PTL

\* A suspended employee's callback gets no code from whatever else goes on.
THEOREM SuspensionStops == Spec => []SuspendedGetsNoCode
PROOF
  <1>1. BInv => SuspendedGetsNoCode
    BY DEF BInv
  <1> QED BY <1>1, BrokerInvariant, PTL
-----------------------------------------------------------------------------
(***************************************************************************)
(* The refinement of SignInStages: BInv keeps the stages apart, so a step  *)
(* that takes a sign-in out of one place leaves it in no other.            *)
(***************************************************************************)
LEMMA StagesAreApart ==
  ASSUME BInv
  PROVE  /\ CalledBack \subseteq SignIns /\ Exchanged \subseteq SignIns
         /\ transactions \cap (CalledBack \cup codes \cup Exchanged \cup tokens) = {}
         /\ CalledBack \cap (codes \cup Exchanged \cup tokens) = {}
         /\ codes \cap (Exchanged \cup tokens) = {}
         /\ Exchanged \cap tokens = {}
PROOF
  <1>1. CalledBack \subseteq SignIns /\ Exchanged \subseteq SignIns
    BY DEF CalledBack, Exchanged, BInv, TypeOK, CallbackType
  <1>2. \A s \in transactions : s \notin CalledBack \cup codes \cup Exchanged \cup tokens
    BY DEF CalledBack, Exchanged, BInv, TransactionIsFresh, Untouched, Unredeemed
  <1>3. \A s \in CalledBack : s \notin codes \cup Exchanged \cup tokens
    BY DEF CalledBack, Exchanged, BInv, CallbackIsSole, Untouched, Unredeemed
  <1>4. \A s \in codes : s \notin Exchanged \cup tokens
    BY DEF Exchanged, BInv, CodeIsUnredeemed, Unredeemed
  <1>5. \A s \in Exchanged : s \notin tokens
    BY DEF Exchanged, BInv, ExchangeIsSole, Unredeemed
  <1> QED BY <1>1, <1>2, <1>3, <1>4, <1>5

LEMMA SameCallbacks ==
  ASSUME \A h \in Callbacks : callback'[h].signIn = callback[h].signIn
  PROVE  CalledBack' = CalledBack
PROOF
  BY DEF CalledBack

\* A callback that ends takes its sign-in out of CalledBack.
LEMMA CallbackLeaves ==
  ASSUME BInv, NEW h \in Callbacks, callback[h].pc # "idle", Finish(h)
  PROVE  /\ callback[h].signIn \in CalledBack
         /\ CalledBack' = CalledBack \ {callback[h].signIn}
PROOF
  <1>1. callback[h].signIn # NoSignIn
    BY DEF BInv, CallbackIsSole
  <1>2. /\ callback'[h].signIn = NoSignIn
        /\ \A g \in Callbacks \ {h} : callback'[g].signIn = callback[g].signIn
    BY FinishEffect DEF BInv, TypeOK, NoCallback
  <1>3. \A g \in Callbacks \ {h} : callback[g].signIn # callback[h].signIn
    BY DEF BInv, CallbackIsSole
  <1> QED BY <1>1, <1>2, <1>3 DEF CalledBack

places == <<transactions, CalledBack, codes, Exchanged, tokens, audited>>

\* A sign-in that leaves its place for nowhere is lost.
LEMMA CallbackLost ==
  ASSUME BInv, NEW h \in Callbacks, callback[h].pc # "idle", Finish(h),
         UNCHANGED <<memory, exchange, audited>>
  PROVE  Stages!Next
PROOF
  <1> DEFINE s == callback[h].signIn
  <1>1. s \in CalledBack /\ CalledBack' = CalledBack \ {s}
    BY CallbackLeaves
  <1>2. UNCHANGED <<transactions, codes, Exchanged, tokens, audited>>
    BY DEF memory, Exchanged
  <1> HIDE DEF s
  <1>3. Stages!Lose({s})
    BY <1>1, <1>2, StagesAreApart DEF Stages!Lose
  <1>4. {s} \in SUBSET SignIns
    BY <1>1, StagesAreApart
  <1> QED BY <1>3, <1>4 DEF Stages!Next

\* Every step is a step of SignInStages or changes nothing that it sees.
LEMMA StagesMove ==
  ASSUME BInv, [Next]_vars
  PROVE  [Stages!Next]_places
PROOF
  <1> USE DEF Elsewhere, memory, rows, history
  <1>1. ASSUME NEW s \in SignIns, Authorize(s) PROVE Stages!Next
    <2>1. s \notin transactions \cup CalledBack \cup codes \cup Exchanged \cup tokens
      BY <1>1 DEF Authorize, Unused, CalledBack, Exchanged
    <2>2. Stages!Begin(s)
      BY <1>1, <2>1 DEF Authorize, Stages!Begin, CalledBack, Exchanged
    <2> QED BY <2>2 DEF Stages!Next
  <1>2. ASSUME NEW s \in SignIns, NEW h \in Callbacks, Callback(h, s) PROVE Stages!Next
    <2>1. /\ callback'[h].signIn = s /\ callback[h].signIn = NoSignIn /\ s # NoSignIn
          /\ \A g \in Callbacks \ {h} : callback'[g].signIn = callback[g].signIn
      BY <1>2, NoSignInAssumption DEF Callback, At, BInv, TypeOK, CallbackType, CallbackIsSole
    <2>2. CalledBack' = CalledBack \cup {s}
      BY <2>1 DEF CalledBack
    <2>3. Stages!CallBack(s)
      BY <1>2, <2>2 DEF Callback, Valid, Stages!CallBack, Exchanged
    <2> QED BY <2>3 DEF Stages!Next
  <1>3. ASSUME NEW h \in Callbacks, Authenticate(h) PROVE UNCHANGED places
    <2>1. CalledBack' = CalledBack
      <3>1. PICK pc \in Points : Go(h, pc)
        BY <1>3 DEF Authenticate, Points
      <3> QED BY <3>1, GoEffect, SameCallbacks DEF BInv, TypeOK
    <2> QED BY <1>3, <2>1 DEF Authenticate, places, Exchanged
  <1>4. ASSUME NEW h \in Callbacks, Denied(h) \/ Upsert(h) PROVE [Stages!Next]_places
    <2>1. callback[h].pc # "idle" /\ UNCHANGED <<memory, exchange, audited>>
      BY <1>4 DEF Denied, Upsert, At
    <2>2. CASE Finish(h)
      BY <2>1, <2>2, CallbackLost
    <2>3. ASSUME NEW pc \in Points, Go(h, pc) PROVE UNCHANGED places
      BY <2>1, <2>3, GoEffect, SameCallbacks DEF BInv, TypeOK, places, Exchanged
    <2> QED BY <1>4, <2>2, <2>3 DEF Denied, Upsert, Points
  <1>5. ASSUME NEW h \in Callbacks, Suspend(h) \/ Fail(h) PROVE Stages!Next
    <2>1. /\ callback[h].pc # "idle" /\ Finish(h)
          /\ UNCHANGED <<memory, exchange, audited>>
      BY <1>5 DEF Suspend, Fail, At
    <2> QED BY <2>1, CallbackLost
  <1>6. ASSUME NEW h \in Callbacks, Audit(h) PROVE Stages!Next
    <2> DEFINE s == callback[h].signIn
    <2>1. s \in CalledBack
      BY <1>6 DEF Audit, At, CalledBack, BInv, CallbackIsSole
    <2>2. CalledBack' = CalledBack
      BY <1>6, GoEffect, SameCallbacks DEF Audit, BInv, TypeOK, Points
    <2>3. Stages!Audit(s)
      BY <1>6, <2>1, <2>2 DEF Audit, Stages!Audit, Exchanged
    <2> QED BY <2>1, <2>3, StagesAreApart DEF Stages!Next
  <1>7. ASSUME NEW h \in Callbacks, Issue(h) PROVE Stages!Next
    <2> DEFINE s == callback[h].signIn
    <2>1. callback[h].pc = "issue" /\ Finish(h)
      BY <1>7 DEF Issue, At
    <2>2. s \in CalledBack /\ CalledBack' = CalledBack \ {s}
      BY <2>1, CallbackLeaves
    <2>3. s \in audited
      BY <2>1 DEF BInv, CallbackIsSole
    <2>4. Stages!Grant(s)
      BY <1>7, <2>2, <2>3 DEF Issue, Stages!Grant, Exchanged
    <2> QED BY <2>2, <2>4, StagesAreApart DEF Stages!Next
  <1>8. ASSUME NEW x \in Exchanges, NEW s \in SignIns, Redeem(x, s) PROVE Stages!Next
    <2>1. /\ exchange'[x] = s /\ exchange[x] = NoSignIn /\ s # NoSignIn
          /\ \A y \in Exchanges \ {x} : exchange'[y] = exchange[y]
      BY <1>8, NoSignInAssumption DEF Redeem, BInv, TypeOK
    <2>2. Exchanged' = Exchanged \cup {s}
      BY <2>1 DEF Exchanged
    <2>3. Stages!Exchange(s)
      BY <1>8, <2>2 DEF Redeem, Stages!Exchange, CalledBack
    <2> QED BY <2>3 DEF Stages!Next
  <1>9. ASSUME NEW x \in Exchanges, StoreToken(x) PROVE Stages!Next
    <2> DEFINE s == exchange[x]
    <2>1. /\ exchange'[x] = NoSignIn /\ s # NoSignIn
          /\ \A y \in Exchanges \ {x} : exchange'[y] = exchange[y] /\ exchange[y] # s
      BY <1>9 DEF StoreToken, BInv, TypeOK, ExchangeIsSole
    <2>2. s \in Exchanged /\ Exchanged' = Exchanged \ {s}
      BY <2>1 DEF Exchanged
    <2>3. Stages!Hold(s)
      BY <1>9, <2>2 DEF StoreToken, Stages!Hold, CalledBack
    <2> QED BY <2>2, <2>3, StagesAreApart DEF Stages!Next
  <1>10. ASSUME NEW s \in SignIns, Expire(s) PROVE Stages!Next
    <2>1. UNCHANGED <<CalledBack, Exchanged, audited>>
      BY <1>10 DEF Expire, CalledBack, Exchanged
    <2>2. s \notin CalledBack /\ s \notin Exchanged
      BY <1>10, StagesAreApart DEF Expire
    <2>3. Stages!Lose({s})
      BY <1>10, <2>1, <2>2, StagesAreApart DEF Expire, Stages!Lose
    <2> QED BY <2>3 DEF Stages!Next
  <1>11. ASSUME Restart PROVE Stages!Next
    <2>1. CalledBack' = {} /\ Exchanged' = {}
      BY <1>11 DEF Restart, CalledBack, Exchanged, NoCallback
    <2>2. Stages!Lose(SignIns)
      BY <1>11, <2>1, StagesAreApart DEF Restart, Stages!Lose, BInv, TypeOK
    <2> QED BY <2>2 DEF Stages!Next
  <1>12. ASSUME NEW status \in {"active", "suspended"}, SetStatus(status)
         PROVE  UNCHANGED places
    <2>1. \A h \in Callbacks : callback'[h].signIn = callback[h].signIn
      BY <1>12 DEF SetStatus, BInv, TypeOK, CallbackType
    <2> QED BY <1>12, <2>1, SameCallbacks DEF SetStatus, places, Exchanged
  <1>13. ASSUME \/ \E s \in SignIns : CallbackRefused(s) \/ UserInfo(s)
                \/ RecordChange \/ RecordFails \/ ChangeEligibility
         PROVE  UNCHANGED <<memory, callback, exchange, audited>>
    BY <1>13 DEF CallbackRefused, UserInfo, RecordChange, RecordFails, ChangeEligibility
  <1>14. UNCHANGED <<memory, callback, exchange, audited>> => UNCHANGED places
    BY DEF places, CalledBack, Exchanged
  <1>15. UNCHANGED vars => UNCHANGED <<memory, callback, exchange, audited>>
    BY DEF vars
  <1> QED
    BY <1>1, <1>2, <1>3, <1>4, <1>5, <1>6, <1>7, <1>8, <1>9,
       <1>10, <1>11, <1>12, <1>13, <1>14, <1>15
    DEF Next, CallbackStep

\* The broker implements the promise about the stages of a sign-in (Authorize to
\* StoreToken, with expiry, errors and restarts at any point).
THEOREM BrokerKeepsStages == Spec => SignInsMoveForward
PROOF
  <1>1. Init => Stages!Init
    BY NoSignInAssumption DEF Init, Stages!Init, CalledBack, Exchanged, NoCallback
  <1>2. BInv /\ [Next]_vars => [Stages!Next]_places
    BY StagesMove
  <1> QED
    BY <1>1, <1>2, BrokerInvariant, PTL DEF Spec, SignInsMoveForward, Stages!Spec, places
-----------------------------------------------------------------------------
(***************************************************************************)
(* The gate before every request.  GInv says that the account an identity  *)
(* is bound to, the accounts that came through for it and the one that     *)
(* completed its onboarding are one, and that a request past a check is of *)
(* that account and not barred.                                            *)
(***************************************************************************)
LEMMA InitiallyGated == GateInit => GInv
PROOF
  <1> SUFFICES ASSUME GateInit PROVE GInv
    OBVIOUS
  <1>1. NoRequest \in RequestType /\ NoRequest.pc = "idle" /\ ~NoRequest.barred
    BY DEF NoRequest, RequestType, GatePoints, Routes
  <1>2. [status |-> "absent", user |-> {}] \in RowType
    BY DEF RowType
  <1>3. GateTypeOK
    BY <1>1, <1>2 DEF GateInit, GateTypeOK
  <1>4. OneBound
    BY DEF GateInit, OneBound
  <1>5. AccountsAreIdentities
    BY DEF GateInit, AccountsAreIdentities
  <1>6. RequestsAreChecked
    BY <1>1 DEF GateInit, RequestsAreChecked, GateAt
  <1> QED BY <1>3, <1>4, <1>5, <1>6 DEF GInv

\* What moving or ending one request does to all of them.
LEMMA GateGoEffect ==
  ASSUME GateTypeOK, NEW r \in Requests, NEW pc \in GatePoints,
         req' = [req EXCEPT ![r].pc = pc]
  PROVE  /\ req' \in [Requests -> RequestType]
         /\ \A p \in Requests \ {r} : req'[p] = req[p]
         /\ req'[r].pc = pc /\ req'[r].route = req[r].route
         /\ req'[r].user = req[r].user /\ req'[r].barred = req[r].barred
PROOF
  <1> DEFINE q == [req[r] EXCEPT !.pc = pc]
  <1>1. req[r] \in RequestType
    BY DEF GateTypeOK
  <1>2. /\ q \in RequestType /\ q.pc = pc /\ q.route = req[r].route
        /\ q.user = req[r].user /\ q.barred = req[r].barred
    BY <1>1 DEF RequestType
  <1>3. req' = [req EXCEPT ![r] = q]
    OBVIOUS
  <1> HIDE DEF q
  <1> QED BY <1>2, <1>3 DEF GateTypeOK

LEMMA GateLeaveEffect ==
  ASSUME GateTypeOK, NEW r \in Requests, GateLeaves(r)
  PROVE  /\ req' \in [Requests -> RequestType]
         /\ \A p \in Requests \ {r} : req'[p] = req[p]
         /\ req'[r].pc = "idle" /\ ~req'[r].barred
PROOF
  <1>1. NoRequest \in RequestType /\ NoRequest.pc = "idle" /\ ~NoRequest.barred
    BY DEF NoRequest, RequestType, GatePoints, Routes
  <1> HIDE DEF NoRequest
  <1> QED BY <1>1 DEF GateTypeOK, GateLeaves

\* The identity of a request that is being checked exists.
LEMMA IdentityKnown ==
  ASSUME GInv, NEW r \in Requests, ~GateAt(r, "idle"), req[r].user \notin Exempt
  PROVE  req[r].user \in Users /\ IdentityOf(r) \in Identities
PROOF
  BY DEF GInv, RequestsAreChecked, AccountsAreIdentities, IdentityOf

\* A request that ends disturbs nothing else.
LEMMA GateLeaveKeeps ==
  ASSUME GInv, NEW r \in Requests, GateLeaves(r),
         UNCHANGED <<gate, employee, alias, account, onboarded, through>>
  PROVE  GInv'
PROOF
  <1>1. /\ req' \in [Requests -> RequestType]
        /\ \A p \in Requests \ {r} : req'[p] = req[p]
        /\ req'[r].pc = "idle" /\ ~req'[r].barred
    BY GateLeaveEffect DEF GInv
  <1>2. GateTypeOK'
    BY <1>1 DEF GInv, GateTypeOK
  <1>3. OneBound' /\ AccountsAreIdentities'
    BY DEF GInv, OneBound, AccountsAreIdentities
  <1>4. RequestsAreChecked'
    BY <1>1 DEF GInv, RequestsAreChecked, GateAt, IdentityOf
  <1> QED BY <1>2, <1>3, <1>4 DEF GInv

\* A request that goes on to a check it is fit for disturbs nothing else.
LEMMA GateGoKeeps ==
  ASSUME GInv, NEW r \in Requests, NEW pc \in GatePoints, req' = [req EXCEPT ![r].pc = pc],
         UNCHANGED <<gate, employee, alias, account, onboarded, through>>,
         ~GateAt(r, "idle"),
         pc \in {"identity", "bind", "onboarded", "again", "complete"} => req[r].user \notin Exempt,
         pc \in {"onboarded", "again", "complete"} => req[r].user \in employee[IdentityOf(r)].user,
         req[r].barred => pc \in {"principal", "identity"},
         pc = "forwarded" /\ gate = "enterprise" /\ req[r].route = "other"
           /\ req[r].user \notin Exempt => req[r].user \in onboarded[IdentityOf(r)]
  PROVE  GInv'
PROOF
  <1>1. /\ req' \in [Requests -> RequestType]
        /\ \A p \in Requests \ {r} : req'[p] = req[p]
        /\ req'[r].pc = pc /\ req'[r].route = req[r].route
        /\ req'[r].user = req[r].user /\ req'[r].barred = req[r].barred
    BY GateGoEffect DEF GInv
  <1>2. GateTypeOK'
    BY <1>1 DEF GInv, GateTypeOK
  <1>3. OneBound' /\ AccountsAreIdentities'
    BY DEF GInv, OneBound, AccountsAreIdentities
  <1>4. RequestsAreChecked'
    BY <1>1 DEF GInv, RequestsAreChecked, GateAt, IdentityOf
  <1> QED BY <1>2, <1>3, <1>4 DEF GInv

\* A request of the account its identity is bound to may go on, and come through.
LEMMA PassKeeps ==
  ASSUME GInv, NEW r \in Requests, NEW pc \in {"forwarded", "again", "onboarded"}, Pass(r, pc),
         UNCHANGED <<gate, employee, alias, account, onboarded>>,
         ~GateAt(r, "idle"), req[r].user \notin Exempt, ~req[r].barred,
         req[r].user \in employee[IdentityOf(r)].user,
         pc = "forwarded" /\ gate = "enterprise" /\ req[r].route = "other" =>
           req[r].user \in onboarded[IdentityOf(r)]
  PROVE  GInv'
PROOF
  <1>1. pc \in GatePoints
    BY DEF GatePoints
  <1>2. /\ req' \in [Requests -> RequestType]
        /\ \A p \in Requests \ {r} : req'[p] = req[p]
        /\ req'[r].pc = pc /\ req'[r].route = req[r].route
        /\ req'[r].user = req[r].user /\ req'[r].barred = req[r].barred
    BY <1>1, GateGoEffect DEF GInv, Pass
  <1>3. /\ through' \in [Identities -> SUBSET Users]
        /\ \A i \in Identities : through'[i] \subseteq through[i] \cup employee[i].user
    BY IdentityKnown DEF GInv, GateTypeOK, Pass
  <1>4. GateTypeOK'
    BY <1>2, <1>3 DEF GInv, GateTypeOK
  <1>5. OneBound'
    BY <1>3 DEF GInv, OneBound
  <1>6. AccountsAreIdentities'
    BY DEF GInv, AccountsAreIdentities
  <1>7. RequestsAreChecked'
    BY <1>2 DEF GInv, RequestsAreChecked, GateAt, IdentityOf
  <1> QED BY <1>4, <1>5, <1>6, <1>7 DEF GInv
---------------------------------------------------------------------------
\* One lemma per action that does more.

\* Nobody uses a new account yet, and a suspended identity cannot sign in.
LEMMA SignInKeeps ==
  ASSUME GInv, NEW i \in Identities, NEW u \in Users, SignIn(i, u)
  PROVE  GInv'
PROOF
  <1>1. /\ employee' \in [Identities -> RowType]
        /\ \A j \in Identities : employee'[j].user = employee[j].user
        /\ \A j \in Identities : employee[j].status = "suspended" => employee'[j].status = "suspended"
    BY DEF GInv, GateTypeOK, SignIn, RowType
  <1>2. alias' \in [Users -> Identities \cup {Nobody}] /\ alias'[u] = i
        /\ \A v \in Users \ {u} : alias'[v] = alias[v]
    BY DEF GInv, GateTypeOK, SignIn
  <1>3. account' \in [Users -> {"none", "live", "gone"}]
        /\ \A v \in Users \ {u} : account'[v] = account[v]
    BY DEF GInv, GateTypeOK, SignIn
  <1>4. GateTypeOK'
    BY <1>1, <1>2, <1>3 DEF GInv, GateTypeOK, SignIn
  <1>5. OneBound'
    BY <1>1 DEF GInv, OneBound, SignIn
  <1>6. AccountsAreIdentities'
    BY <1>2, <1>3 DEF GInv, AccountsAreIdentities
  <1>7. \A p \in Requests : ~GateAt(p, "idle") => req[p].user \in Users \ {u}
    BY DEF GInv, RequestsAreChecked, SignIn
  <1>8. ASSUME NEW p \in Requests, ~GateAt(p, "idle")
        PROVE  account'[req[p].user] = account[req[p].user] /\ IdentityOf(p)' = IdentityOf(p)
    BY <1>2, <1>3, <1>7, <1>8 DEF IdentityOf, SignIn
  <1>9. ASSUME NEW p \in Requests, ~GateAt(p, "idle"), req[p].user \notin Exempt
        PROVE  IdentityOf(p) \in Identities
    BY <1>9, IdentityKnown
  <1>10. RequestsAreChecked'
    BY <1>1, <1>8, <1>9 DEF GInv, RequestsAreChecked, GateAt, SignIn
  <1> QED BY <1>4, <1>5, <1>6, <1>10 DEF GInv

LEMMA RemoveKeeps ==
  ASSUME GInv, NEW u \in Users, RemoveAccount(u)
  PROVE  GInv'
PROOF
  <1>1. account' \in [Users -> {"none", "live", "gone"}]
        /\ \A v \in Users : account'[v] = "none" <=> account[v] = "none"
    BY DEF GInv, GateTypeOK, RemoveAccount
  <1>2. GateTypeOK' /\ OneBound' /\ AccountsAreIdentities'
    BY <1>1 DEF GInv, GateTypeOK, OneBound, AccountsAreIdentities, RemoveAccount
  <1>3. RequestsAreChecked'
    BY <1>1 DEF GInv, RequestsAreChecked, GateAt, IdentityOf, RemoveAccount
  <1> QED BY <1>2, <1>3 DEF GInv

\* A suspension bars nobody who came before; an activation lifts every bar.
LEMMA ChangeStatusKeeps ==
  ASSUME GInv, NEW i \in Identities, NEW status \in {"active", "suspended"},
         ChangeStatus(i, status)
  PROVE  GInv'
PROOF
  <1>1. /\ employee' \in [Identities -> RowType]
        /\ \A j \in Identities : employee'[j].user = employee[j].user
        /\ \A j \in Identities : employee'[j].status = IF j = i THEN status ELSE employee[j].status
    BY DEF GInv, GateTypeOK, ChangeStatus, RowType
  <1>2. ASSUME NEW p \in Requests
        PROVE  /\ req'[p] \in RequestType
               /\ req'[p].pc = req[p].pc /\ req'[p].user = req[p].user
               /\ req'[p].route = req[p].route
               /\ req'[p].barred => req[p].barred
               /\ req'[p].barred /\ ~GateAt(p, "idle") /\ IdentityOf(p) = i => status = "suspended"
    <2>1. CASE status = "suspended"
      BY <2>1 DEF GInv, GateTypeOK, ChangeStatus
    <2>2. CASE status # "suspended"
      <3>1. req'[p] = IF ~GateAt(p, "idle") /\ IdentityOf(p) = i
                        THEN [req[p] EXCEPT !.barred = FALSE] ELSE req[p]
        BY <2>2 DEF ChangeStatus
      <3>2. req[p] \in RequestType
        BY DEF GInv, GateTypeOK
      <3>3. CASE ~GateAt(p, "idle") /\ IdentityOf(p) = i
        BY <3>1, <3>2, <3>3 DEF RequestType
      <3>4. CASE ~(~GateAt(p, "idle") /\ IdentityOf(p) = i)
        BY <3>1, <3>2, <3>4
      <3> QED BY <3>3, <3>4
    <2> QED BY <2>1, <2>2
  <1>3. req' \in [Requests -> RequestType]
    <2>1. CASE status = "suspended"
      BY <2>1 DEF GInv, GateTypeOK, ChangeStatus
    <2>2. CASE status # "suspended"
      BY <1>2, <2>2 DEF ChangeStatus
    <2> QED BY <2>1, <2>2
  <1>4. GateTypeOK'
    BY <1>1, <1>3 DEF GInv, GateTypeOK, ChangeStatus
  <1>5. OneBound' /\ AccountsAreIdentities'
    BY <1>1 DEF GInv, OneBound, AccountsAreIdentities, ChangeStatus
  <1>6. ASSUME NEW p \in Requests, ~GateAt(p, "idle"), req[p].user \notin Exempt
        PROVE  IdentityOf(p) \in Identities
    BY <1>6, IdentityKnown
  <1>7. \A p \in Requests : IdentityOf(p)' = IdentityOf(p)
    BY <1>2 DEF IdentityOf, ChangeStatus
  <1>8. RequestsAreChecked'
    BY <1>1, <1>2, <1>6, <1>7 DEF GInv, RequestsAreChecked, GateAt, ChangeStatus
  <1> QED BY <1>4, <1>5, <1>8 DEF GInv

LEMMA ArriveKeeps ==
  ASSUME GInv, NEW r \in Requests, NEW u \in Users, NEW route \in Routes, Arrive(r, u, route)
  PROVE  GInv'
PROOF
  <1> DEFINE q == [pc |-> "principal", route |-> route, user |-> u,
                   barred |-> u \notin Exempt /\ employee[alias[u]].status = "suspended"]
  <1>1. q \in RequestType /\ q.pc = "principal" /\ q.user = u
        /\ (q.barred => u \notin Exempt /\ employee[alias[u]].status = "suspended")
    BY DEF RequestType, GatePoints
  <1>2. req' = [req EXCEPT ![r] = q]
    BY DEF Arrive
  <1> HIDE DEF q
  <1>3. /\ req' \in [Requests -> RequestType] /\ req'[r] = q
        /\ \A p \in Requests \ {r} : req'[p] = req[p]
    BY <1>1, <1>2 DEF GInv, GateTypeOK
  <1>4. GateTypeOK' /\ OneBound' /\ AccountsAreIdentities'
    BY <1>3 DEF GInv, GateTypeOK, OneBound, AccountsAreIdentities, Arrive
  <1>5. RequestsAreChecked'
    BY <1>1, <1>3 DEF GInv, RequestsAreChecked, GateAt, IdentityOf, Arrive
  <1> QED BY <1>4, <1>5 DEF GInv

LEMMA ReadPrincipalKeeps ==
  ASSUME GInv, NEW r \in Requests, ReadPrincipal(r)
  PROVE  GInv'
PROOF
  <1>1. CASE account[req[r].user] # "live"
    BY <1>1, GateLeaveKeeps DEF ReadPrincipal
  <1>2. CASE account[req[r].user] = "live" /\ req[r].user \in Exempt
    <2>1. GateGoes(r, "forwarded") /\ ~req[r].barred
      BY <1>2 DEF ReadPrincipal, GInv, RequestsAreChecked, GateAt
    <2> QED BY <1>2, <2>1, GateGoKeeps DEF ReadPrincipal, GateGoes, GatePoints, GateAt
  <1>3. CASE account[req[r].user] = "live" /\ req[r].user \notin Exempt
    BY <1>3, GateGoKeeps DEF ReadPrincipal, GateGoes, GatePoints, GateAt
  <1> QED BY <1>1, <1>2, <1>3

\* A request whose identity is active is not barred.
LEMMA ActiveIsUnbarred ==
  ASSUME GInv, NEW r \in Requests, ~GateAt(r, "idle"), employee[IdentityOf(r)].status = "active"
  PROVE  ~req[r].barred
PROOF
  BY DEF GInv, RequestsAreChecked

LEMMA CheckedPoint ==
  ASSUME GInv, NEW r \in Requests
  PROVE  /\ Checked(r) \in {"forwarded", "again", "onboarded"}
         /\ Checked(r) = "forwarded" /\ gate = "enterprise" => req[r].route # "other"
PROOF
  BY DEF Checked

LEMMA ReadIdentityKeeps ==
  ASSUME GInv, NEW r \in Requests, ReadIdentity(r)
  PROVE  GInv'
PROOF
  <1> DEFINE row == employee[IdentityOf(r)]
  <1>1. ~GateAt(r, "idle") /\ req[r].user \notin Exempt
    BY DEF ReadIdentity, GateAt, GInv, RequestsAreChecked
  <1>2. CASE row.status = "active" /\ row.user = {}
    <2>1. GateGoes(r, "bind") /\ UNCHANGED through
      BY <1>2 DEF ReadIdentity
    <2> QED BY <1>1, <1>2, <2>1, GateGoKeeps, ActiveIsUnbarred DEF ReadIdentity, GateGoes, GatePoints
  <1>3. CASE row.status = "active" /\ row.user # {} /\ req[r].user \in row.user
    <2>1. Pass(r, Checked(r))
      BY <1>3 DEF ReadIdentity
    <2> QED BY <1>1, <1>3, <2>1, PassKeeps, CheckedPoint, ActiveIsUnbarred DEF ReadIdentity
  <1>4. CASE ~(row.status = "active" /\ row.user = {})
             /\ ~(row.status = "active" /\ req[r].user \in row.user)
    BY <1>4, GateLeaveKeeps DEF ReadIdentity
  <1> QED BY <1>2, <1>3, <1>4

\* Only an unbound row is bound, or one that is bound to the account already.
LEMMA BindKeeps ==
  ASSUME GInv, NEW r \in Requests, Bind(r)
  PROVE  GInv'
PROOF
  <1>1. CASE ~Bindable(r)
    BY <1>1, GateLeaveKeeps DEF Bind
  <1>2. CASE Bindable(r)
    <2>1. /\ ~GateAt(r, "idle") /\ req[r].user \notin Exempt /\ ~req[r].barred
          /\ req[r].user \in Users /\ IdentityOf(r) \in Identities
      BY IdentityKnown DEF Bind, GateAt, GInv, RequestsAreChecked
    <2>2. Pass(r, Checked(r)) /\ UNCHANGED <<gate, alias, account, onboarded>>
      BY <1>2 DEF Bind
    <2>3. /\ employee' \in [Identities -> RowType]
          /\ employee'[IdentityOf(r)].user = {req[r].user}
          /\ \A i \in Identities : /\ employee'[i].status = employee[i].status
                                   /\ employee[i].user \subseteq employee'[i].user
                                   /\ \A u, v \in employee'[i].user : u = v
      <3> DEFINE i == IdentityOf(r)
                 row == [employee[i] EXCEPT !.user = {req[r].user}]
      <3>1. /\ row \in RowType /\ row.user = {req[r].user}
            /\ row.status = employee[i].status /\ employee[i].user \subseteq row.user
        BY <1>2, <2>1 DEF Bindable, GInv, GateTypeOK, RowType
      <3>2. employee' = [employee EXCEPT ![i] = row]
        BY <1>2 DEF Bind
      <3> HIDE DEF row
      <3> QED BY <2>1, <3>1, <3>2 DEF GInv, GateTypeOK, OneBound
    <2>4. Checked(r) \in GatePoints
      BY CheckedPoint DEF GatePoints
    <2>5. /\ req' \in [Requests -> RequestType]
          /\ \A p \in Requests \ {r} : req'[p] = req[p]
          /\ req'[r].pc = Checked(r) /\ req'[r].route = req[r].route
          /\ req'[r].user = req[r].user /\ req'[r].barred = req[r].barred
      BY <2>2, <2>4, GateGoEffect DEF GInv, Pass
    <2>6. /\ through' \in [Identities -> SUBSET Users]
          /\ \A i \in Identities : through'[i] \subseteq through[i] \cup employee'[i].user
      BY <2>1, <2>2, <2>3 DEF GInv, GateTypeOK, Pass
    <2>7. GateTypeOK'
      BY <2>2, <2>3, <2>5, <2>6 DEF GInv, GateTypeOK
    <2>8. OneBound'
      BY <2>2, <2>3, <2>6 DEF GInv, OneBound
    <2>9. AccountsAreIdentities'
      BY <2>2 DEF GInv, AccountsAreIdentities
    <2>10. \A p \in Requests : ~GateAt(p, "idle") /\ req[p].user \notin Exempt =>
             IdentityOf(p) \in Identities
      BY IdentityKnown
    <2>11. \A p \in Requests : IdentityOf(p)' = IdentityOf(p)
      BY <2>2, <2>5 DEF IdentityOf
    <2>12. RequestsAreChecked'
      BY <2>1, <2>2, <2>3, <2>5, <2>10, <2>11, CheckedPoint
         DEF GInv, RequestsAreChecked, GateAt
    <2> QED BY <2>7, <2>8, <2>9, <2>12 DEF GInv
  <1> QED BY <1>1, <1>2

\* The completion found is of the account the identity is bound to.
LEMMA ReadOnboardingKeeps ==
  ASSUME GInv, NEW r \in Requests, ReadOnboarding(r)
  PROVE  GInv'
PROOF
  <1>1. CASE onboarded[IdentityOf(r)] = {}
    BY <1>1, GateLeaveKeeps DEF ReadOnboarding
  <1>2. CASE onboarded[IdentityOf(r)] # {}
    <2>1. /\ ~GateAt(r, "idle") /\ req[r].user \notin Exempt /\ ~req[r].barred
          /\ req[r].user \in employee[IdentityOf(r)].user
      BY DEF ReadOnboarding, GateAt, GInv, RequestsAreChecked
    <2>2. req[r].user \in onboarded[IdentityOf(r)]
      BY <1>2, <2>1, IdentityKnown DEF GInv, OneBound
    <2> QED BY <1>2, <2>1, <2>2, PassKeeps DEF ReadOnboarding
  <1> QED BY <1>1, <1>2

LEMMA CheckAgainKeeps ==
  ASSUME GInv, NEW r \in Requests, CheckAgain(r)
  PROVE  GInv'
PROOF
  <1>1. ~GateAt(r, "idle") /\ req[r].user \notin Exempt /\ ~req[r].barred
    BY DEF CheckAgain, GateAt, GInv, RequestsAreChecked
  <1> QED BY <1>1, GateGoKeeps DEF CheckAgain, GateGoes, GatePoints

\* Who completes is who is bound.
LEMMA CompleteKeeps ==
  ASSUME GInv, NEW r \in Requests, Complete(r)
  PROVE  GInv'
PROOF
  <1>1. /\ req[r].user \in employee[IdentityOf(r)].user
        /\ req[r].user \in Users /\ IdentityOf(r) \in Identities
    BY IdentityKnown DEF Complete, GateAt, GInv, RequestsAreChecked
  <1>2. /\ onboarded' \in [Identities -> SUBSET Users]
        /\ \A i \in Identities : /\ onboarded[i] \subseteq onboarded'[i]
                                 /\ onboarded'[i] \subseteq employee[i].user
    BY <1>1 DEF Complete, GInv, GateTypeOK, OneBound
  <1>3. /\ req' \in [Requests -> RequestType]
        /\ \A p \in Requests \ {r} : req'[p] = req[p]
        /\ req'[r].pc = "idle" /\ ~req'[r].barred
    BY GateLeaveEffect DEF GInv, Complete
  <1>4. GateTypeOK' /\ OneBound' /\ AccountsAreIdentities'
    BY <1>2, <1>3 DEF GInv, GateTypeOK, OneBound, AccountsAreIdentities, Complete
  <1>5. \A p \in Requests : ~GateAt(p, "idle") /\ req[p].user \notin Exempt =>
          IdentityOf(p) \in Identities
    BY IdentityKnown
  <1>6. RequestsAreChecked'
    BY <1>2, <1>3, <1>5 DEF GInv, RequestsAreChecked, GateAt, IdentityOf, Complete
  <1> QED BY <1>4, <1>6 DEF GInv

LEMMA GatedStep == GInv /\ [GateNext]_gateVars => GInv'
PROOF
  <1> SUFFICES ASSUME GInv, [GateNext]_gateVars PROVE GInv'
    OBVIOUS
  <1>1. ASSUME NEW i \in Identities, NEW u \in Users, SignIn(i, u) PROVE GInv'
    BY <1>1, SignInKeeps
  <1>2. ASSUME NEW i \in Identities, NEW status \in {"active", "suspended"}, ChangeStatus(i, status)
        PROVE GInv'
    BY <1>2, ChangeStatusKeeps
  <1>3. ASSUME NEW u \in Users, RemoveAccount(u) PROVE GInv'
    BY <1>3, RemoveKeeps
  <1>4. ASSUME NEW r \in Requests, NEW u \in Users, NEW route \in Routes, Arrive(r, u, route)
        PROVE GInv'
    BY <1>4, ArriveKeeps
  <1>5. ASSUME NEW r \in Requests, ReadPrincipal(r) \/ ReadIdentity(r) \/ Bind(r)
        PROVE GInv'
    BY <1>5, ReadPrincipalKeeps, ReadIdentityKeeps, BindKeeps
  <1>6. ASSUME NEW r \in Requests, ReadOnboarding(r) \/ CheckAgain(r) \/ Complete(r)
        PROVE GInv'
    BY <1>6, ReadOnboardingKeeps, CheckAgainKeeps, CompleteKeeps
  <1>7. ASSUME NEW r \in Requests, Done(r) PROVE GInv'
    BY <1>7, GateLeaveKeeps DEF Done
  <1>8. CASE UNCHANGED gateVars
    BY <1>8 DEF gateVars, GInv, GateTypeOK, OneBound, AccountsAreIdentities, RequestsAreChecked,
       GateAt, IdentityOf
  <1> QED BY <1>1, <1>2, <1>3, <1>4, <1>5, <1>6, <1>7, <1>8 DEF GateNext
---------------------------------------------------------------------------
\* What the gate relies on holds in every state.
THEOREM GateInvariant == GateSpec => []GInv
PROOF
  BY InitiallyGated, GatedStep, PTL DEF GateSpec

\* Rows, accounts and requests keep their types.
THEOREM GateTypeCorrect == GateSpec => []GateTypeOK
PROOF
  <1>1. GInv => GateTypeOK
    BY DEF GInv
  <1> QED BY <1>1, GateInvariant, PTL

\* Of all accounts that ever carry an identity's alias one comes through the
\* gate for it (CheckEmployee with BindLocalAccount, Gate with
\* BindLocalPrincipal), for any number of first requests at once.
THEOREM OneAccountComesThrough == GateSpec => []OneAccountPerIdentity
PROOF
  <1>1. GInv => OneAccountPerIdentity
    BY DEF GInv, OneBound, OneAccountPerIdentity
  <1> QED BY <1>1, GateInvariant, PTL

\* The account that completed the onboarding is the bound one, and a request of
\* an ordinary route goes through for it alone (SaveOnboarding).
THEOREM OnboardingIsOfTheBoundAccount == GateSpec => []OnboardedAsBound
PROOF
  <1>1. GInv => OnboardedAsBound
    BY DEF GInv, OneBound, RequestsAreChecked, OnboardedAsBound
  <1> QED BY <1>1, GateInvariant, PTL

\* A request that came after a suspension is not forwarded before the next
\* activation (GetByUpstreamEmail and the checks on the row).
THEOREM SuspendedIsNotForwarded == GateSpec => []SuspensionReachesRequests
PROOF
  <1>1. GInv => SuspensionReachesRequests
    BY DEF GInv, RequestsAreChecked, SuspensionReachesRequests, GateAt
  <1> QED BY <1>1, GateInvariant, PTL

\* Both: an identity is one account's, at the gate and in what it completed.
THEOREM IdentityIsOneAccounts == GateSpec => []AccountsAreBound
PROOF
  <1>1. OneAccountPerIdentity /\ OnboardedAsBound => AccountsAreBound
    BY DEF AccountsAreBound
  <1> QED BY <1>1, OneAccountComesThrough, OnboardingIsOfTheBoundAccount, PTL

(***************************************************************************)
(* The login limiter.  LoginsInv says that a remote's windows never        *)
(* overlap, that they number their attempts and start with the first one,  *)
(* and that the table has the last of them for as long as it is not over.  *)
(***************************************************************************)
LEMMA InitiallyNoLogins == LoginsInit => LoginsInv
PROOF
  <1> SUFFICES ASSUME LoginsInit PROVE LoginsInv
    OBVIOUS
  <1> USE LoginsAssumption DEF LoginsInit
  <1>1. 0 \in Times /\ 0 \in Ends /\ 0 \in 0..Limit
    BY SMT DEF Times, Ends
  <1>2. LoginsTypeOK
    BY <1>1, SMT DEF LoginsTypeOK, NoEntry
  <1>3. Entries(attempts) = {}
    BY SMT DEF Entries, NoEntry
  <1>4. IsFiniteSet(Entries(attempts)) /\ TableBounded
    BY <1>3, FS_EmptySet, SMT DEF TableBounded
  <1> QED BY <1>2, <1>3, <1>4 DEF LoginsInv

\* What a sweep leaves: entries of windows that are not over.
LEMMA SweptEntries ==
  ASSUME LoginsInv, NEW x \in Remotes
  PROVE  /\ Swept \in [Remotes -> [count : 0..Limit, until : Ends]]
         /\ Swept[x] = attempts[x] \/ Swept[x] = NoEntry
         /\ x \in Entries(Swept) => Swept[x] = attempts[x] /\ now < Swept[x].until
         /\ x \notin Entries(Swept) =>
              \A p \in passed : p.remote = x => p.until <= now
PROOF
  <1> USE LoginsAssumption DEF LoginsInv, LoginsTypeOK
  <1>1. NoEntry \in [count : 0..Limit, until : Ends]
    BY SMT DEF NoEntry, Ends
  <1>2. Swept \in [Remotes -> [count : 0..Limit, until : Ends]]
    BY <1>1, SMT DEF Swept
  <1>3. Swept[x] = IF now < attempts[x].until THEN attempts[x] ELSE NoEntry
    BY DEF Swept
  <1>4. attempts[x].count \in 0..Limit /\ attempts[x].until \in Ends /\ now \in Int
    BY SMT DEF Times
  <1>5. x \in Entries(Swept) => Swept[x] = attempts[x] /\ now < Swept[x].until
    BY <1>3, <1>4, SMT DEF Entries, NoEntry
  <1>6. ASSUME x \notin Entries(Swept), NEW p \in passed, p.remote = x
        PROVE  p.until <= now
    <2>1. attempts[x].count = 0 \/ attempts[x].until <= now
      BY <1>3, <1>4, <1>6, SMT DEF Entries, Ends
    <2>2. LastWindow(p) /\ p.until \in Ends
      BY <1>6
    <2> QED BY <1>4, <1>6, <2>1, <2>2, SMT DEF LastWindow, Ends
  <1> QED BY <1>2, <1>3, <1>5, <1>6

LEMMA SweptIsSmaller ==
  ASSUME LoginsInv
  PROVE  /\ Entries(Swept) \subseteq Entries(attempts)
         /\ IsFiniteSet(Entries(Swept))
         /\ Cardinality(Entries(Swept)) \in Nat
         /\ Cardinality(Entries(Swept)) <= MaxEntries
PROOF
  <1>1. Entries(Swept) \subseteq Entries(attempts)
    BY SweptEntries DEF Entries
  <1>2. /\ IsFiniteSet(Entries(attempts)) /\ Cardinality(Entries(attempts)) <= MaxEntries
        /\ Cardinality(Entries(attempts)) \in Nat
    BY FS_CardinalityType DEF LoginsInv, TableBounded
  <1>3. /\ IsFiniteSet(Entries(Swept))
        /\ Cardinality(Entries(Swept)) <= Cardinality(Entries(attempts))
    BY <1>1, <1>2, FS_Subset
  <1> QED BY <1>1, <1>2, <1>3, FS_CardinalityType, LoginsAssumption, SMT

LEMMA TickKeepsLogins == LoginsInv /\ Tick => LoginsInv'
PROOF
  <1> SUFFICES ASSUME LoginsInv, Tick PROVE LoginsInv'
    OBVIOUS
  <1> USE LoginsAssumption DEF Tick
  <1>1. now \in Int /\ now' = now + 1 /\ now' \in Times /\ attempts' = attempts /\ passed' = passed
    BY SMT DEF LoginsInv, LoginsTypeOK, Times
  <1>2. LoginsTypeOK'
    BY <1>1 DEF LoginsInv, LoginsTypeOK
  <1>3. ASSUME NEW p \in passed' PROVE InWindow(p)' /\ LastWindow(p)'
    <2>1. InWindow(p) /\ LastWindow(p) /\ p.time \in Times /\ p.until \in Ends
      BY <1>1, <1>3 DEF LoginsInv, LoginsTypeOK
    <2> QED BY <1>1, <2>1, SMT DEF InWindow, LastWindow, Times, Ends
  <1>4. \A p, q \in passed' : Apart(p, q)'
    BY <1>1 DEF LoginsInv, Apart
  <1>5. \A x \in Entries(attempts)' : attempts'[x].until <= now' + Window
    <2> SUFFICES ASSUME NEW x \in Entries(attempts)
                 PROVE  attempts[x].until <= now' + Window
      BY <1>1 DEF Entries
    <2>1. attempts[x].until \in Ends /\ attempts[x].until <= now + Window
      BY DEF LoginsInv, LoginsTypeOK, Entries
    <2> QED BY <1>1, <2>1, SMT DEF Ends
  <1>6. Entries(attempts)' = Entries(attempts)
    BY <1>1 DEF Entries
  <1>7. IsFiniteSet(Entries(attempts))' /\ TableBounded'
    BY <1>6 DEF LoginsInv, TableBounded
  <1> QED BY <1>2, <1>3, <1>4, <1>5, <1>7 DEF LoginsInv

\* An attempt that is limited only sweeps.
LEMMA LimitedKeeps ==
  ASSUME LoginsInv, attempts' = Swept, UNCHANGED <<passed, now>>
  PROVE  LoginsInv'
PROOF
  <1> USE LoginsAssumption
  <1>1. /\ passed \subseteq [remote : Remotes, until : Ends, number : 1..Limit, time : Times]
        /\ now \in Times
    BY DEF LoginsInv, LoginsTypeOK
  <1>2. LoginsTypeOK'
    <2>1. Swept \in [Remotes -> [count : 0..Limit, until : Ends]]
      <3>1. CASE Remotes = {}
        BY <3>1, SMT DEF Swept
      <3>2. CASE Remotes # {}
        BY <3>2, SweptEntries
      <3> QED BY <3>1, <3>2
    <2> QED BY <1>1, <2>1 DEF LoginsTypeOK
  <1>3. ASSUME NEW p \in passed' PROVE InWindow(p)' /\ LastWindow(p)'
    <2> DEFINE x == p.remote
    <2>1. /\ InWindow(p) /\ LastWindow(p) /\ p.time \in Times /\ p.until \in Ends
          /\ x \in Remotes
      BY <1>1, <1>3 DEF LoginsInv
    <2>2. /\ Swept[x].count \in 0..Limit
          /\ x \in Entries(Swept) => Swept[x] = attempts[x]
          /\ x \notin Entries(Swept) => p.until <= now
      BY <1>3, <2>1, SweptEntries
    <2>3. Swept[x].count = 0 <=> x \notin Entries(Swept)
      BY <2>1, <2>2, SMT DEF Entries
    <2>4. LastWindow(p)'
      BY <2>1, <2>2, <2>3 DEF LastWindow
    <2> QED BY <2>1, <2>4 DEF InWindow
  <1>4. \A p, q \in passed' : Apart(p, q)'
    BY DEF LoginsInv, Apart
  <1>5. \A x \in Entries(attempts)' : attempts'[x].until <= now' + Window
    BY SweptEntries, SweptIsSmaller DEF LoginsInv, Entries
  <1>6. Entries(attempts)' = Entries(Swept)
    BY DEF Entries
  <1>7. IsFiniteSet(Entries(attempts))' /\ TableBounded'
    BY <1>6, SweptIsSmaller DEF TableBounded
  <1> QED BY <1>2, <1>3, <1>4, <1>5, <1>7 DEF LoginsInv

\* An attempt that is let through: the next of its window, or the first of a
\* new one.
LEMMA PassedKeeps ==
  ASSUME LoginsInv, NEW x \in Remotes, ~Limited(Swept, x),
         NEW number, number = Swept[x].count + 1,
         NEW until, until = Until(Swept[x]),
         attempts' = [Swept EXCEPT ![x] = [count |-> number, until |-> until]],
         passed' = passed \cup
           {[remote |-> x, until |-> until, number |-> number, time |-> now]},
         now' = now
  PROVE  LoginsInv'
PROOF
  <1> USE LoginsAssumption
  <1> DEFINE new == [remote |-> x, until |-> until, number |-> number, time |-> now]
             entry == [count |-> number, until |-> until]
  <1>1. /\ passed \subseteq [remote : Remotes, until : Ends, number : 1..Limit, time : Times]
        /\ now \in Times
    BY DEF LoginsInv, LoginsTypeOK
  <1>2. /\ Swept \in [Remotes -> [count : 0..Limit, until : Ends]]
        /\ Swept[x].count \in 0..Limit /\ Swept[x].until \in Ends
        /\ Swept[x].count > 0 <=> x \in Entries(Swept)
    BY SweptEntries DEF Entries
  <1>3. number \in 1..Limit
    BY <1>2, SMT DEF Limited
  <1>4. until \in Ends
    BY <1>1, <1>2, SMT DEF Until, Ends, Times
  <1>5. new \in [remote : Remotes, until : Ends, number : 1..Limit, time : Times]
    BY <1>1, <1>3, <1>4
  <1>6. entry \in [count : 0..Limit, until : Ends]
    BY <1>3, <1>4, SMT
  <1>7. /\ attempts' \in [Remotes -> [count : 0..Limit, until : Ends]]
        /\ attempts'[x] = entry
        /\ \A y \in Remotes : y # x => attempts'[y] = Swept[y]
    BY <1>2, <1>6
  <1>8. LoginsTypeOK'
    BY <1>1, <1>5, <1>7 DEF LoginsTypeOK
  <1>9. /\ now < until /\ until <= now + Window
        /\ number = 1 => until = now + Window
    <2>1. CASE Swept[x].count = 0
      BY <1>1, <2>1, SMT DEF Until, Times
    <2>2. CASE Swept[x].count # 0
      <3>1. x \in Entries(Swept) /\ until = Swept[x].until
        BY <1>2, <2>2, SMT DEF Until
      <3>2. Swept[x] = attempts[x] /\ now < Swept[x].until
        BY <3>1, SweptEntries
      <3>3. attempts[x].until <= now + Window
        BY <3>1, SweptIsSmaller DEF LoginsInv
      <3> QED BY <1>2, <2>2, <3>1, <3>2, <3>3, SMT
    <2> QED BY <2>1, <2>2
  <1>10. ASSUME NEW p \in passed, p.remote = x
         PROVE  (p.until = until /\ p.number < number) \/ p.until <= until - Window
    <2>1. p.until \in Ends /\ p.number \in 1..Limit
      BY <1>1, <1>10
    <2>2. CASE x \notin Entries(Swept)
      <3>1. p.until <= now
        BY <1>10, <2>2, SweptEntries
      <3>2. until = now + Window
        BY <1>2, <2>2, SMT DEF Until
      <3> QED BY <1>1, <2>1, <3>1, <3>2, SMT DEF Times, Ends
    <2>3. CASE x \in Entries(Swept)
      <3>1. Swept[x] = attempts[x] /\ LastWindow(p)
        BY <1>10, <2>3, SweptEntries DEF LoginsInv
      <3>2. until = attempts[x].until /\ Swept[x].count # 0
        BY <1>2, <2>3, <3>1, SMT DEF Until
      <3> QED BY <1>2, <1>10, <2>1, <3>1, <3>2, SMT DEF LastWindow
    <2> QED BY <2>2, <2>3
  <1>11. InWindow(new)' /\ LastWindow(new)'
    <2>1. InWindow(new)'
      BY <1>1, <1>3, <1>4, <1>9, SMT DEF InWindow, Times, Ends
    <2>2. LastWindow(new)'
      BY <1>3, <1>7, SMT DEF LastWindow
    <2> QED BY <2>1, <2>2
  <1>12. ASSUME NEW p \in passed PROVE InWindow(p)' /\ LastWindow(p)'
    <2>1. /\ InWindow(p) /\ LastWindow(p) /\ p.time \in Times /\ p.until \in Ends
          /\ p.remote \in Remotes /\ p.number \in 1..Limit
      BY <1>1 DEF LoginsInv
    <2>2. CASE p.remote = x
      BY <1>3, <1>4, <1>7, <1>10, <2>1, <2>2, SMT DEF LastWindow, InWindow
    <2>3. CASE p.remote # x
      <3> DEFINE y == p.remote
      <3>1. /\ Swept[y].count \in 0..Limit
            /\ y \in Entries(Swept) => Swept[y] = attempts[y]
            /\ y \notin Entries(Swept) => p.until <= now
        BY <2>1, SweptEntries
      <3>2. Swept[y].count = 0 <=> y \notin Entries(Swept)
        BY <2>1, <3>1, SMT DEF Entries
      <3>3. attempts'[y] = Swept[y]
        BY <1>7, <2>1, <2>3
      <3>4. LastWindow(p)'
        BY <2>1, <3>1, <3>2, <3>3 DEF LastWindow
      <3> QED BY <2>1, <3>4 DEF InWindow
    <2> QED BY <2>2, <2>3
  <1>13. \A p \in passed' : InWindow(p)' /\ LastWindow(p)'
    BY <1>11, <1>12
  <1>14. ASSUME NEW p \in passed', NEW q \in passed' PROVE Apart(p, q)
    <2>1. /\ \A a \in passed : /\ a.until \in Ends /\ a.number \in 1..Limit
                               /\ a.remote = x => \/ a.until = until /\ a.number < number
                                                  \/ a.until <= until - Window
      BY <1>1, <1>10
    <2>2. CASE p \in passed /\ q \in passed
      BY <2>2 DEF LoginsInv
    <2>3. CASE p \in passed /\ q = new
      BY <1>3, <1>4, <2>1, <2>3, SMT DEF Apart, Ends
    <2>4. CASE p = new /\ q \in passed
      BY <1>3, <1>4, <2>1, <2>4, SMT DEF Apart, Ends
    <2>5. CASE p = new /\ q = new
      BY <1>4, <2>5, SMT DEF Apart, Ends
    <2> QED BY <1>14, <2>2, <2>3, <2>4, <2>5
  <1>15. Entries(attempts)' = Entries(Swept) \cup {x}
    BY <1>3, <1>7, SMT DEF Entries
  <1>16. ASSUME NEW y \in Entries(attempts)' PROVE attempts'[y].until <= now' + Window
    <2>1. CASE y = x
      BY <1>7, <1>9, <2>1
    <2>2. CASE y # x
      <3>1. y \in Entries(Swept) /\ y \in Remotes
        BY <1>15, <1>16, <2>2 DEF Entries
      <3>2. attempts'[y] = attempts[y]
        BY <1>7, <2>2, <3>1, SweptEntries
      <3> QED BY <3>1, <3>2, SweptIsSmaller DEF LoginsInv
    <2> QED BY <2>1, <2>2
  <1>17. IsFiniteSet(Entries(attempts))' /\ TableBounded'
    <2>1. /\ IsFiniteSet(Entries(Swept) \cup {x})
          /\ Cardinality(Entries(Swept) \cup {x}) =
               IF x \in Entries(Swept) THEN Cardinality(Entries(Swept))
               ELSE Cardinality(Entries(Swept)) + 1
      BY SweptIsSmaller, FS_AddElement
    <2>2. Cardinality(Entries(Swept) \cup {x}) <= MaxEntries
      BY <2>1, SweptIsSmaller, SMT DEF Limited
    <2> QED BY <1>15, <2>1, <2>2 DEF TableBounded
  <1> QED BY <1>8, <1>13, <1>14, <1>16, <1>17 DEF LoginsInv, Apart

LEMMA LoginStep == LoginsInv /\ [LoginsNext]_loginVars => LoginsInv'
PROOF
  <1> SUFFICES ASSUME LoginsInv, [LoginsNext]_loginVars PROVE LoginsInv'
    OBVIOUS
  <1>1. CASE Tick
    BY <1>1, TickKeepsLogins
  <1>2. ASSUME NEW x \in Remotes, Attempt(x) PROVE LoginsInv'
    <2>1. CASE Limited(Swept, x)
      BY <1>2, <2>1, LimitedKeeps DEF Attempt
    <2>2. CASE ~Limited(Swept, x)
      BY <1>2, <2>2, PassedKeeps DEF Attempt
    <2> QED BY <2>1, <2>2
  <1>3. CASE UNCHANGED loginVars
    BY <1>3 DEF loginVars, LoginsInv, LoginsTypeOK, InWindow, LastWindow, Apart,
                Entries, TableBounded
  <1> QED BY <1>1, <1>2, <1>3 DEF LoginsNext

\* A remote's windows never overlap, number their attempts, and the last one is
\* in the table until it is over.
THEOREM LoginsInvariant == LoginsSpec => []LoginsInv
PROOF
  BY InitiallyNoLogins, LoginStep, PTL DEF LoginsSpec

\* Counts stay within the limit, ends within a window of the clock's bound.
THEOREM LoginsTypeCorrect == LoginsSpec => []LoginsTypeOK
PROOF
  <1>1. LoginsInv => LoginsTypeOK
    BY DEF LoginsInv
  <1> QED BY <1>1, LoginsInvariant, PTL

\* The attempts of a burst are of two windows at most: the later one's number
\* them from Limit on, the earlier one's, whose first is before the burst, below.
LEMMA BurstsAreBelowTwice ==
  ASSUME LoginsInv, Limit > 0, NEW x \in Remotes, NEW from \in Times
  PROVE  Cardinality(Burst(x, from)) < 2 * Limit
PROOF
  <1> USE LoginsAssumption
  <1> DEFINE B == Burst(x, from)
             early(p) == \E q \in B : p.until < q.until
             place(p) == IF early(p) THEN p.number - 1 ELSE Limit - 1 + p.number
             f == [p \in B |-> place(p)]
  <1>1. ASSUME NEW p \in B
        PROVE  /\ p \in passed /\ p.remote = x
               /\ p.until \in Int /\ p.number \in 1..Limit /\ p.time \in Int /\ from \in Int
               /\ from <= p.time /\ p.time <= from + Window - 1
               /\ p.until - Window <= p.time /\ p.time < p.until
               /\ p.number = 1 => p.time = p.until - Window
    <2>1. /\ p \in passed /\ p.remote = x /\ p.time \in from..from + Window - 1
          /\ p.until \in Ends /\ p.number \in 1..Limit /\ p.time \in Times /\ InWindow(p)
      BY <1>1 DEF Burst, LoginsInv, LoginsTypeOK
    <2> QED BY <2>1, SMT DEF InWindow, Times, Ends
  <1>2. \A p, q \in B : /\ p.until < q.until => p.until <= q.until - Window
                        /\ p.until = q.until /\ p.number = q.number => p = q
    BY <1>1 DEF LoginsInv, Apart
  <1>3. ASSUME NEW p \in B, early(p) PROVE p.number # 1 /\ p.until <= from + Window - 1
    <2>1. PICK q \in B : p.until < q.until
      BY <1>3
    <2>2. p.until <= q.until - Window
      BY <1>2, <2>1
    <2> QED BY <1>1, <2>2, SMT
  <1>4. ASSUME NEW p \in B PROVE f[p] \in 1..(2 * Limit - 1)
    <2>1. p.number \in 1..Limit /\ f[p] = place(p)
      BY <1>1
    <2>2. CASE early(p)
      BY <1>3, <2>1, <2>2, SMT
    <2>3. CASE ~early(p)
      BY <2>1, <2>3, SMT
    <2> QED BY <2>2, <2>3
  <1>5. ASSUME NEW p \in B, NEW q \in B, f[p] = f[q] PROVE p = q
    <2>1. p.number \in 1..Limit /\ q.number \in 1..Limit /\ place(p) = place(q)
      BY <1>1, <1>5
    <2>2. (early(p) <=> early(q)) /\ p.number = q.number
      BY <2>1, SMT
    <2>3. p.until = q.until
      <3>1. CASE ~early(p) /\ ~early(q)
        BY <1>1, <3>1, SMT
      <3>2. CASE early(p) /\ early(q)
        <4>1. ~(p.until < q.until) /\ ~(q.until < p.until)
          BY <1>1, <1>2, <1>3, <3>2, SMT
        <4> QED BY <1>1, <4>1, SMT
      <3> QED BY <2>2, <3>1, <3>2
    <2> QED BY <1>2, <2>2, <2>3
  <1>6. f \in Injection(B, 1..(2 * Limit - 1))
    BY <1>4, <1>5 DEF Injection, IsInjective
  <1>7. /\ IsFiniteSet(1..(2 * Limit - 1))
        /\ Cardinality(1..(2 * Limit - 1)) = 2 * Limit - 1
    BY FS_Interval, SMT
  <1>8. IsFiniteSet(B) /\ Cardinality(B) <= 2 * Limit - 1
    BY <1>6, <1>7, FS_Injection
  <1>9. Cardinality(B) \in Nat
    BY <1>8, FS_CardinalityType
  <1> HIDE DEF B
  <1>10. Cardinality(B) < 2 * Limit
    BY <1>8, <1>9, SMT
  <1> QED BY <1>10 DEF B

\* A remote gets fewer than twice its limit through in any minute, and the
\* table keeps to its bound whatever addresses come (the login handlers'
\* window and sweep), for any limit, window and size of the table.
THEOREM LoginsStayLimited == LoginsSpec => []LoginsAreLimited
PROOF
  <1>1. LoginsInv => LoginsAreLimited
    BY BurstsAreBelowTwice DEF LoginsAreLimited, BurstBelowTwice, LoginsInv
  <1> QED BY <1>1, LoginsInvariant, PTL
------------------------------------------------------------------------------
\* The behaviours of the run.

\* Whichever component a behaviour is about, it is a behaviour of each of them:
\* what is proved of the components holds in the run.
THEOREM ComponentsBehave == MCSpec => Spec /\ GateSpec /\ LoginsSpec /\ JoinSpec
PROOF
  <1>1. MCInit => Init /\ GateInit /\ LoginsInit /\ JoinInit
    BY DEF MCInit
  <1>2. [MCNext]_allVars => /\ [Next]_vars /\ [GateNext]_gateVars
                            /\ [LoginsNext]_loginVars /\ [JoinNext]_joinVars
    BY DEF MCNext, allVars
  <1> QED BY <1>1, <1>2, PTL
         DEF MCSpec, Spec, GateSpec, LoginsSpec, JoinSpec

\* What each component keeps is of its type, whichever a behaviour is about.
THEOREM AllTypesCorrect == MCSpec => []AllTypesOK
PROOF
  BY ComponentsBehave, BrokerTypeCorrect, GateTypeCorrect, LoginsTypeCorrect,
     OnboardingTypeCorrect, PTL
     DEF AllTypesOK
-----------------------------------------------------------------------------
(***************************************************************************)
(* The recovery of SignInRecovery: the employee's further tries, the       *)
(* administrator's activation and every fault are steps of IdentityBroker. *)
(***************************************************************************)
LEMMA RecoveryIsNext == BInv /\ RecoveryNext => Next
PROOF
  <1> SUFFICES ASSUME BInv, RecoveryNext PROVE Next
    OBVIOUS
  <1>1. CASE SignInAgain \/ ComeBack \/ Exchange
    BY <1>1 DEF SignInAgain, ComeBack, Exchange, Next
  <1>2. CASE \/ \E s \in SignIns : CallbackRefused(s) \/ UserInfo(s)
             \/ \E h \in Callbacks : CallbackStep(h)
             \/ \E x \in Exchanges : StoreToken(x)
    BY <1>2 DEF Next
  <1>3. CASE RecordChange \/ Activate \/ Restore
    BY <1>3 DEF Activate, Restore, Next
  <1>4. CASE Abandon
    <2>1. PICK s \in transactions : Expire(s)
      BY <1>4 DEF Abandon
    <2> QED BY <2>1 DEF Next, BInv, TypeOK
  <1>5. CASE Fault
    BY <1>5 DEF Fault, Next
  <1> QED BY <1>1, <1>2, <1>3, <1>4, <1>5 DEF RecoveryNext

\* An employee who tries again after whatever went wrong gets one code and one
\* token for each sign-in, audited, and none while suspended.
THEOREM RepeatedSignInIsSafe ==
  RecoverySpec =>
    /\ Spec /\ SignInsMoveForward
    /\ [](OneTokenPerSignIn /\ CodesAreAudited /\ SuspendedGetsNoCode)
PROOF
  <1>1. BInv /\ [RecoveryNext]_<<vars, faults>> => [Next]_vars
    BY RecoveryIsNext
  <1>2. RecoverySpec => Spec
    BY <1>1, NextKeeps, InitiallyOne, PTL DEF RecoverySpec, RecoveryInit, Spec
  <1> QED BY <1>2, BrokerKeepsStages, NeverRedeemedTwice, NoCodeUnaudited, SuspensionStops, PTL
=============================================================================
