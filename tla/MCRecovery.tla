---------------------------- MODULE MCRecovery ----------------------------
(***************************************************************************)
(* The components that must get somewhere in the end, one behaviour each:  *)
(* `subject` says which of them this behaviour is about; the others stay   *)
(* in their initial states.  The instances: an installation with one space *)
(* for its POST and one for the operator, and the same for keys; the       *)
(* onboarding of an employee with two concurrent requests; sign-ins with   *)
(* two tabs, two callback requests and one token request at a time; the    *)
(* creation of a knowledge space with two attempts; the migrations of      *)
(* three builds, the second without version 2 and the third with another   *)
(* text of version 2; and the connection pool with one connection more     *)
(* than there are requests.                                                *)
(***************************************************************************)
EXTENDS ConnectionPool, Migrations

CONSTANTS r1, r2, r3, alice, bob, Admin, t1, t2, k1, k2, f1, None, MaxAborts,
          NoSignIn, s1, s2, h1, h2, x1, a1, a2, i1, i2, OnboardingFaults,
          SignInFaults, SpaceFaults

MCRequests == {r1, r2, r3}
MCEmployees == {alice, bob}
MCEmployeeOf == [r \in MCRequests |-> IF r = r3 THEN bob ELSE alice]

MCProcesses == {r1, r2, r3}
MCBuild == [p \in MCProcesses |->
  [v \in Versions \ (IF p = r2 THEN {2} ELSE {}) |-> IF p = r3 /\ v = 2 THEN k2 ELSE k1]]

VARIABLES
  subject,
  install, secret, run, wire, posts, account, sysadmin, window, policy,
  spaces, keys, keySpace, astray, aborts,
  record, employeeLock, req, post, member, active, removed, faults,
  transactions, codes, tokens, cookie, callback, exchange, identity, admin,
  recorded, audited, eligible, signedIn, issued, redeemed, signInFaults,
  row, creating, spacePosts, kb, prof, vision, posted, answered, announced, spaceFaults

Installing == INSTANCE InstallRecovery
  WITH Tenants <- {t1, t2}, Keys <- {k1, k2}, Files <- {f1}
Joining == INSTANCE OnboardingRecovery
  WITH Slots <- {r1, r2}, NoHolder <- NoRequest, lock <- employeeLock,
       joinReq <- req, joinFaults <- faults, MaxJoinFaults <- OnboardingFaults
SigningIn == INSTANCE SignInRecovery
  WITH SignIns <- {s1, s2}, Callbacks <- {h1, h2}, Exchanges <- {x1},
       faults <- signInFaults, MaxFaults <- SignInFaults
Creating == INSTANCE SpaceRecovery
  WITH Attempts <- {a1, a2}, Ids <- {i1, i2}, Nothing <- None, req <- creating,
       wire <- spacePosts, faults <- spaceFaults, MaxFaults <- SpaceFaults

installVars == <<install, secret, run, wire, posts, account, sysadmin, window,
                 policy, spaces, keys, keySpace, astray, aborts>>
joinVars == <<record, employeeLock, req, post, member, active, removed, faults>>
signInVars == <<transactions, codes, tokens, cookie, callback, exchange, identity,
                admin, recorded, audited, eligible, signedIn, issued, redeemed,
                signInFaults>>
spaceVars == <<row, creating, spacePosts, kb, prof, vision, posted, answered,
               announced, spaceFaults>>
allVars == <<subject, pc, lock, migrationVars, installVars, joinVars, signInVars, spaceVars>>

MCInit ==
  /\ subject \in {"pool", "installation", "onboarding", "sign-in", "space", "migrations"}
  /\ Init /\ Installing!Init /\ Joining!JoiningInit /\ SigningIn!RecoveryInit
  /\ Creating!RecoveryInit /\ MigrationInit
  /\ subject # "installation" => ~window
  /\ subject # "space" => vision

MCNext ==
  /\ UNCHANGED subject
  /\ \/ /\ subject = "pool" /\ Next
        /\ UNCHANGED <<migrationVars, installVars, joinVars, signInVars, spaceVars>>
     \/ /\ subject = "migrations" /\ MigrationNext
        /\ UNCHANGED <<vars, installVars, joinVars, signInVars, spaceVars>>
     \/ /\ subject = "installation" /\ Installing!GuidedNext
        /\ UNCHANGED <<vars, migrationVars, joinVars, signInVars, spaceVars>>
     \/ /\ subject = "onboarding" /\ Joining!JoiningNext
        /\ UNCHANGED <<vars, migrationVars, installVars, signInVars, spaceVars>>
     \/ /\ subject = "sign-in" /\ SigningIn!RecoveryNext
        /\ UNCHANGED <<vars, migrationVars, installVars, joinVars, spaceVars>>
     \/ /\ subject = "space" /\ Creating!RecoveryNext
        /\ UNCHANGED <<vars, migrationVars, installVars, joinVars, signInVars>>

MCSpec == MCInit /\ [][MCNext]_allVars

\* EveryRequestReturns of ConnectionPool and EveryRunEnds of Migrations, under
\* their fairness: whoever waits for a lock of the database has its turn.
EveryWaiterHasItsTurn ==
  /\ subject = "pool" /\ Fairness => EveryRequestReturns
  /\ subject = "migrations" /\ MigrationFairness => EveryRunEnds

\* EveryInstallCompletes of InstallRecovery, under its fairness.
EveryInstallCompletes ==
  subject = "installation" /\ Installing!GuidedFairness
    => Installing!EveryInstallCompletes

\* EmployeeGetsIn of OnboardingRecovery and EmployeeSignsIn of SignInRecovery,
\* under their fairness.
EmployeeGetsIn ==
  /\ subject = "onboarding" /\ Joining!JoiningFairness => Joining!EmployeeGetsIn
  /\ subject = "sign-in" /\ SigningIn!RecoveryFairness => SigningIn!EmployeeSignsIn

\* EveryRetrySucceeds of SpaceRecovery, under its fairness: all kinds but notes
\* with a managed vision model.
EveryRetrySucceeds ==
  subject = "space" /\ Creating!RecoveryFairness => Creating!EveryRetrySucceeds
===========================================================================
