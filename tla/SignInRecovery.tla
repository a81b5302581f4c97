-------------------------- MODULE SignInRecovery --------------------------
(***************************************************************************)
(* IdentityBroker with an employee who tries again, and an administrator   *)
(* who activates an identity that was suspended: everything that can go    *)
(* wrong does so at most MaxFaults times in all (errors, time to live run  *)
(* out, restarts, suspensions, loss of eligibility).  Tabs may still       *)
(* replace and clear one another's cookie at any time.                     *)
(***************************************************************************)
EXTENDS IdentityBroker

CONSTANT MaxFaults    \* bound: how many faults may happen

VARIABLE faults       \* faults so far

Fault ==
  \/ \E h \in Callbacks : Fail(h)
  \/ \E s \in SignIns : Expire(s)
  \/ Restart
  \/ RecordFails
  \/ SetStatus("suspended")
  \/ eligible /\ ChangeEligibility

SignInAgain == \E s \in SignIns : Authorize(s)
ComeBack == \E s \in SignIns, h \in Callbacks : Callback(h, s)
Exchange == \E s \in SignIns, x \in Exchanges : Redeem(x, s)

\* A transaction whose cookie is gone can only run out of time.
Abandon == \E s \in transactions : cookie # s /\ Expire(s)

Activate == identity = "suspended" /\ SetStatus("active")
Restore == ~eligible /\ ChangeEligibility

RecoveryNext ==
  \/ /\ \/ SignInAgain \/ ComeBack \/ Exchange
        \/ \E s \in SignIns : CallbackRefused(s) \/ UserInfo(s)
        \/ \E h \in Callbacks : CallbackStep(h)
        \/ \E x \in Exchanges : StoreToken(x)
        \/ RecordChange \/ Activate \/ Restore \/ Abandon
     /\ UNCHANGED faults
  \/ Fault /\ faults < MaxFaults /\ faults' = faults + 1

\* Handlers run to their end, the employee and the upstream carry on, and the
\* administrator answers.
RecoveryFairness ==
  /\ \A h \in Callbacks : WF_vars(CallbackStep(h))
  /\ \A x \in Exchanges : WF_vars(StoreToken(x))
  /\ \A s \in SignIns : WF_vars(UserInfo(s))
  /\ SF_vars(SignInAgain) /\ SF_vars(ComeBack) /\ WF_vars(Exchange) /\ WF_vars(Abandon)
  /\ WF_vars(RecordChange) /\ WF_vars(Activate) /\ WF_vars(Restore)

RecoveryInit == Init /\ faults = 0
RecoverySpec == RecoveryInit /\ [][RecoveryNext]_<<vars, faults>> /\ RecoveryFairness

\* However sign-ins fail, an eligible employee gets in in the end: no mixture
\* of restarts, denials, suspensions and competing tabs locks anyone out.
EmployeeSignsIn == <>signedIn
===========================================================================
