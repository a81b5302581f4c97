---------------------------- MODULE EmployeeGate ----------------------------
(***************************************************************************)
(* What stands before every human request: the enterprise middleware       *)
(* (server/enterprise.go, enterprise/onboarding.go CheckEmployee,          *)
(* identity/account.go) and, in deployments without an enterprise          *)
(* installation, the corporate identity gate (server/server.go,            *)
(* identity/gate.go, repository.go).  Both read the employee's identity by *)
(* the alias of the local account, bind the first account that comes with  *)
(* it by a second statement, and the middleware then reads the onboarding. *)
(* Administrators suspend identities and remove local accounts meanwhile;  *)
(* the next sign-in makes a new account with the same alias.               *)
(*                                                                         *)
(* The installation is ready.  Onboarding itself is one step here; module  *)
(* Onboarding has its details.                                             *)
(***************************************************************************)
CONSTANTS
  Requests,    \* slots for requests in progress
  Identities,  \* corporate identities, each with one alias
  Users,       \* ids of local accounts, never used again
  Exempt,      \* the installation's administrator, break-glass accounts
  Nobody       \* no account, no identity

VARIABLES
  gate,        \* which gate is deployed: "enterprise" or "corporate"
  employee,    \* corporate_identities: employee[i], with the account bound, if any
  alias,       \* upstream: alias[u], the identity account u was made for
  account,     \* upstream: account[u]
  onboarded,   \* employee_onboarding: onboarded[i], the account it was completed by
  req,         \* req[r]: where request r is, with its locals
  through      \* history: accounts that came through the gate for each identity

gateVars == <<gate, employee, alias, account, onboarded, req, through>>

Routes == {"recovery", "onboarding", "other"}
GatePoints == {"idle", "principal", "identity", "bind", "onboarded", "again",
               "complete", "forwarded"}

\* barred: the identity was suspended when the request arrived, and nobody has
\* activated it since.
NoRequest == [pc |-> "idle", route |-> "other", user |-> Nobody, barred |-> FALSE]

RowType == [status : {"absent", "active", "suspended"}, user : SUBSET Users]
RequestType == [pc : GatePoints, route : Routes, user : Users \cup {Nobody},
                barred : BOOLEAN]

GateTypeOK ==
  /\ gate \in {"enterprise", "corporate"}
  /\ employee \in [Identities -> RowType]
  /\ alias \in [Users -> Identities \cup {Nobody}]
  /\ account \in [Users -> {"none", "live", "gone"}]
  /\ onboarded \in [Identities -> SUBSET Users]
  /\ req \in [Requests -> RequestType]
  /\ through \in [Identities -> SUBSET Users]

GateInit ==
  /\ gate \in {"enterprise", "corporate"}
  /\ employee = [i \in Identities |-> [status |-> "absent", user |-> {}]]
  /\ alias = [u \in Users |-> Nobody]
  /\ account = [u \in Users |-> IF u \in Exempt THEN "live" ELSE "none"]
  /\ onboarded = [i \in Identities |-> {}]
  /\ req = [r \in Requests |-> NoRequest]
  /\ through = [i \in Identities |-> {}]
---------------------------------------------------------------------------
GateAt(r, pc) == req[r].pc = pc
GateGoes(r, pc) == req' = [req EXCEPT ![r].pc = pc]
GateLeaves(r) == req' = [req EXCEPT ![r] = NoRequest]
IdentityOf(r) == alias[req[r].user]

\* The sign-in upserts the row, whose status stays, and the upstream makes an
\* account if none has the alias.
SignIn(i, u) ==
  /\ \A v \in Users : account[v] = "live" => alias[v] # i
  /\ account[u] = "none"
  /\ employee[i].status # "suspended"
  /\ employee' = [employee EXCEPT ![i].status = "active"]
  /\ alias' = [alias EXCEPT ![u] = i]
  /\ account' = [account EXCEPT ![u] = "live"]
  /\ UNCHANGED <<gate, onboarded, req, through>>

RemoveAccount(u) ==
  /\ account[u] = "live" /\ u \notin Exempt
  /\ account' = [account EXCEPT ![u] = "gone"]
  /\ UNCHANGED <<gate, employee, alias, onboarded, req, through>>

\* AdminService.ChangeStatus.
ChangeStatus(i, status) ==
  /\ employee[i].status # "absent"
  /\ employee' = [employee EXCEPT ![i].status = status]
  /\ req' = IF status = "suspended" THEN req
            ELSE [r \in Requests |->
                    IF ~GateAt(r, "idle") /\ IdentityOf(r) = i
                      THEN [req[r] EXCEPT !.barred = FALSE] ELSE req[r]]
  /\ UNCHANGED <<gate, alias, account, onboarded, through>>

\* identityRecoveryRoute; POST /onboarding is one of them.
Arrive(r, u, route) ==
  /\ GateAt(r, "idle")
  /\ account[u] = "live"
  /\ route = "onboarding" => gate = "enterprise" /\ u \notin Exempt
  /\ req' = [req EXCEPT ![r] =
       [pc |-> "principal", route |-> route, user |-> u,
        barred |-> u \notin Exempt /\ employee[alias[u]].status = "suspended"]]
  /\ UNCHANGED <<gate, employee, alias, account, onboarded, through>>

\* CurrentPrincipal, which fails for an account that is gone.
ReadPrincipal(r) ==
  /\ GateAt(r, "principal")
  /\ IF account[req[r].user] # "live" THEN GateLeaves(r)
     ELSE GateGoes(r, IF req[r].user \in Exempt THEN "forwarded" ELSE "identity")
  /\ UNCHANGED <<gate, employee, alias, account, onboarded, through>>

\* Where a request goes when its account is the identity's.
Checked(r) ==
  CASE req[r].route = "other" /\ gate = "enterprise" -> "onboarded"
    [] req[r].route = "onboarding" -> "again"
    [] OTHER -> "forwarded"

\* The request goes on, past the gate or to its next check.
Pass(r, pc) ==
  /\ req' = [req EXCEPT ![r].pc = pc]
  /\ through' = IF pc \in {"forwarded", "again"}
                  THEN [through EXCEPT ![IdentityOf(r)] = @ \cup {req[r].user}]
                  ELSE through

\* A slip: a suspended identity is noticed only when it is bound.
ReadIdentityOfAnyStatus(r) ==
  /\ GateAt(r, "identity")
  /\ LET row == employee[IdentityOf(r)] IN
       CASE row.user = {} -> GateGoes(r, "bind") /\ UNCHANGED through
         [] req[r].user \in row.user -> Pass(r, Checked(r))
         [] OTHER -> GateLeaves(r) /\ UNCHANGED through
  /\ UNCHANGED <<gate, employee, alias, account, onboarded>>

\* GetByUpstreamEmail and the checks on the row.
ReadIdentity(r) ==
  /\ GateAt(r, "identity")
  /\ LET row == employee[IdentityOf(r)] IN
       CASE row.status = "active" /\ row.user = {} -> GateGoes(r, "bind") /\ UNCHANGED through
         [] row.status = "active" /\ req[r].user \in row.user -> Pass(r, Checked(r))
         [] OTHER -> GateLeaves(r) /\ UNCHANGED through
  /\ UNCHANGED <<gate, employee, alias, account, onboarded>>

\* A slip: the row read before is taken for the row now.
BindableAsRead(r) == TRUE

\* The condition of the UPDATE: BindLocalAccount also wants an active identity,
\* BindLocalPrincipal does not.
Bindable(r) ==
  /\ employee[IdentityOf(r)].user \subseteq {req[r].user}
  /\ gate = "enterprise" => employee[IdentityOf(r)].status = "active"

Bind(r) ==
  /\ GateAt(r, "bind")
  /\ IF Bindable(r)
       THEN /\ employee' = [employee EXCEPT ![IdentityOf(r)].user = {req[r].user}]
            /\ Pass(r, Checked(r))
       ELSE GateLeaves(r) /\ UNCHANGED <<employee, through>>
  /\ UNCHANGED <<gate, alias, account, onboarded>>

\* The middleware looks for the completion of the identity, not of the account.
ReadOnboarding(r) ==
  /\ GateAt(r, "onboarded")
  /\ IF onboarded[IdentityOf(r)] # {}
       THEN Pass(r, "forwarded")
       ELSE GateLeaves(r) /\ UNCHANGED through
  /\ UNCHANGED <<gate, employee, alias, account, onboarded>>

\* POST /onboarding checks its employee, bound by now, again under its lock.
CheckAgain(r) ==
  /\ GateAt(r, "again")
  /\ employee[IdentityOf(r)].status = "active" /\ req[r].user \in employee[IdentityOf(r)].user
  /\ GateGoes(r, "complete")
  /\ UNCHANGED <<gate, employee, alias, account, onboarded, through>>

\* It joins and saves; a record of another account is a conflict.
Complete(r) ==
  /\ GateAt(r, "complete")
  /\ onboarded[IdentityOf(r)] \subseteq {req[r].user}
  /\ onboarded' = [onboarded EXCEPT ![IdentityOf(r)] = {req[r].user}]
  /\ GateLeaves(r)
  /\ UNCHANGED <<gate, employee, alias, account, through>>

\* Answered, or any statement or call of the request failed.
Done(r) ==
  /\ ~GateAt(r, "idle")
  /\ GateLeaves(r)
  /\ UNCHANGED <<gate, employee, alias, account, onboarded, through>>

GateNext ==
  \/ \E i \in Identities : \/ \E u \in Users : SignIn(i, u)
                           \/ \E status \in {"active", "suspended"} : ChangeStatus(i, status)
  \/ \E u \in Users : RemoveAccount(u)
  \/ \E r \in Requests :
       \/ \E u \in Users, route \in Routes : Arrive(r, u, route)
       \/ ReadPrincipal(r) \/ ReadIdentity(r) \/ Bind(r)
       \/ ReadOnboarding(r) \/ CheckAgain(r) \/ Complete(r) \/ Done(r)

GateSpec == GateInit /\ [][GateNext]_gateVars
---------------------------------------------------------------------------
\* At most one account ever comes through for an identity, whoever signs in
\* with its alias later and however first requests overlap (BindLocalAccount,
\* BindLocalPrincipal).
OneAccountPerIdentity ==
  \A i \in Identities : \A u, v \in through[i] : u = v

\* The account that completed the onboarding is the one the identity is bound
\* to, and only with a completion does another route go through (the two tables
\* of CheckEmployee and SaveOnboarding).
OnboardedAsBound ==
  /\ \A i \in Identities : onboarded[i] \subseteq employee[i].user
  /\ \A r \in Requests :
       /\ GateAt(r, "forwarded") /\ gate = "enterprise"
       /\ req[r].route = "other" /\ req[r].user \notin Exempt
       => req[r].user \in onboarded[IdentityOf(r)]

\* Both: an identity is one account's, at the gate and in what it completed.
AccountsAreBound == OneAccountPerIdentity /\ OnboardedAsBound

\* A suspension reaches every request that arrives after it, until an
\* administrator activates the identity again.
SuspensionReachesRequests ==
  \A r \in Requests : GateAt(r, "forwarded") => ~req[r].barred

\* Inductive: what is bound, passed and completed is one account, a request past
\* a check is of that account, and its bar is the identity's suspension.
OneBound ==
  \A i \in Identities :
    /\ \A u, v \in employee[i].user : u = v
    /\ through[i] \subseteq employee[i].user
    /\ onboarded[i] \subseteq employee[i].user

AccountsAreIdentities ==
  \A u \in Users : account[u] # "none" /\ u \notin Exempt => alias[u] \in Identities

RequestsAreChecked ==
  \A r \in Requests :
    /\ ~GateAt(r, "idle") => req[r].user \in Users /\ account[req[r].user] # "none"
    /\ req[r].pc \in {"identity", "bind", "onboarded", "again", "complete"}
         => req[r].user \notin Exempt
    /\ req[r].pc \in {"onboarded", "again", "complete"}
         => req[r].user \in employee[IdentityOf(r)].user
    /\ req[r].barred /\ ~GateAt(r, "idle")
         => req[r].user \notin Exempt /\ employee[IdentityOf(r)].status = "suspended"
    /\ req[r].barred => req[r].pc \in {"principal", "identity"}
    /\ (/\ GateAt(r, "forwarded") /\ gate = "enterprise"
        /\ req[r].route = "other" /\ req[r].user \notin Exempt)
         => req[r].user \in onboarded[IdentityOf(r)]

GInv == GateTypeOK /\ OneBound /\ AccountsAreIdentities /\ RequestsAreChecked
=============================================================================
