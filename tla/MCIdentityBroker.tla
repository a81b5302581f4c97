------------------------- MODULE MCIdentityBroker -------------------------
(***************************************************************************)
(* Who gets in: `subject` says which component a behaviour is about; the   *)
(* others stay in their initial states.  The instances: three sign-ins     *)
(* with two concurrent callback and two concurrent token requests; the     *)
(* gate before every request, with two requests, one identity and three    *)
(* accounts besides an exempt one; administrator logins from three         *)
(* addresses with room for two; and the onboarding of an employee with     *)
(* three concurrent requests.                                              *)
(***************************************************************************)
EXTENDS IdentityBroker, EmployeeGate, LoginLimiter, Onboarding, TLC

CONSTANTS s1, s2, s3, h1, h2, x1, x2, i1, break

MCSignIns == {s1, s2, s3}
MCCallbacks == {h1, h2}
MCExchanges == {x1, x2}
MCUsers == {s1, s2, s3, break}

VARIABLE subject

allVars == <<subject, vars, gateVars, loginVars, joinVars>>

MCInit ==
  /\ subject \in {"sign-in", "gate", "logins", "onboarding"}
  /\ Init /\ GateInit /\ LoginsInit /\ JoinInit
  /\ subject # "gate" => gate = "enterprise"

MCNext ==
  /\ UNCHANGED subject
  /\ \/ /\ subject = "sign-in" /\ Next
        /\ UNCHANGED <<gateVars, loginVars, joinVars>>
     \/ /\ subject = "gate" /\ GateNext
        /\ UNCHANGED <<vars, loginVars, joinVars>>
     \/ /\ subject = "logins" /\ LoginsNext
        /\ UNCHANGED <<vars, gateVars, joinVars>>
     \/ /\ subject = "onboarding" /\ JoinNext
        /\ UNCHANGED <<vars, gateVars, loginVars>>

MCSpec == MCInit /\ [][MCNext]_allVars

Interchangeable ==
  Permutations(MCSignIns) \cup Permutations(MCCallbacks) \cup Permutations(MCExchanges)

\* The types of all components.
AllTypesOK == TypeOK /\ GateTypeOK /\ LoginsTypeOK /\ JoinTypeOK
===========================================================================
