-------------------------- MODULE ConnectionPool --------------------------
(***************************************************************************)
(* What an onboarding request takes from the database pool                 *)
(* (internal/enterprise/onboarding.go, store.go WithLock,                  *)
(* internal/database/runner.go Open).  The employee's session lock lives   *)
(* on a connection of its own: the request takes one, waits on it for the  *)
(* lock, and keeps it to the end.  The identity is read through the pool   *)
(* and not through that connection, before the lock and again under it.    *)
(*                                                                         *)
(* Clients do not give up: neither the server nor the pool has a timeout.  *)
(***************************************************************************)
EXTENDS Naturals, FiniteSets

CONSTANTS
  Requests,      \* onboarding requests that may be in progress at once
  Employees,     \* the employees they are for
  EmployeeOf,    \* EmployeeOf[r]: whose lock request r takes
  PoolSize,      \* SetMaxOpenConns
  NoRequest      \* nobody holds a lock

ASSUME PoolAssumption ==
  /\ PoolSize \in Nat \ {0}
  /\ EmployeeOf \in [Requests -> Employees]
  /\ NoRequest \notin Requests

VARIABLES
  pc,            \* pc[r]: where request r is
  lock           \* lock[e]: the request that holds the lock of employee e

vars == <<pc, lock>>

\* The points at which a request has its lock connection, and those at which
\* it has a connection for one query besides.
Holding == {"lock", "recheck", "rechecking", "join"}
Querying == {"checking", "rechecking"}
Points == {"idle", "check", "connect"} \cup Holding \cup Querying

TypeOK ==
  /\ pc \in [Requests -> Points]
  /\ lock \in [Employees -> Requests \cup {NoRequest}]

InUse == Cardinality({r \in Requests : pc[r] \in Holding})
         + Cardinality({r \in Requests : pc[r] \in Querying})

Init ==
  /\ pc = [r \in Requests |-> "idle"]
  /\ lock = [e \in Employees |-> NoRequest]
---------------------------------------------------------------------------
Move(r, from, to) ==
  /\ pc[r] = from
  /\ pc' = [pc EXCEPT ![r] = to]

\* A step that needs a connection waits for a free one.
Taking(r, from, to) ==
  /\ InUse < PoolSize
  /\ Move(r, from, to)
  /\ UNCHANGED lock

Arrive(r) == Move(r, "idle", "check") /\ UNCHANGED lock

\* CheckEmployee and Installation before the lock.
Check(r) == Taking(r, "check", "checking")
Checked(r) == Move(r, "checking", "connect") /\ UNCHANGED lock

\* WithLock: db.Conn, then pg_advisory_lock on that connection.
Connect(r) == Taking(r, "connect", "lock")

Lock(r) ==
  /\ lock[EmployeeOf[r]] = NoRequest
  /\ Move(r, "lock", "recheck")
  /\ lock' = [lock EXCEPT ![EmployeeOf[r]] = r]

\* CheckEmployee again, under the lock.
Recheck(r) == Taking(r, "recheck", "rechecking")
Rechecked(r) == Move(r, "rechecking", "join") /\ UNCHANGED lock

\* A slip: the lock connection goes back to the pool with its session's lock.
FinishLocked(r) == Move(r, "join", "idle") /\ UNCHANGED lock

\* The rest uses the lock connection; both are released at the end.
Finish(r) ==
  /\ Move(r, "join", "idle")
  /\ lock' = [lock EXCEPT ![EmployeeOf[r]] = NoRequest]

Proceed(r) ==
  \/ Check(r) \/ Checked(r) \/ Connect(r) \/ Lock(r)
  \/ Recheck(r) \/ Rechecked(r) \/ Finish(r)

Next == \E r \in Requests : Arrive(r) \/ Proceed(r)

\* Pool and lock serve their waiters in order of arrival.
Fairness == \A r \in Requests : SF_vars(Proceed(r))
Spec == Init /\ [][Next]_vars /\ Fairness
---------------------------------------------------------------------------
\* The pool never lends more connections than it has, and the lock holder is
\* the one request of its employee that is past the lock.
PoolRespected ==
  /\ InUse <= PoolSize
  /\ \A r \in Requests :
       pc[r] \in Holding \ {"lock"} <=> lock[EmployeeOf[r]] = r

\* Where a request that is in progress can be held up by others.
Waits(r) ==
  \/ pc[r] \in {"check", "connect", "recheck"} /\ InUse >= PoolSize
  \/ pc[r] = "lock" /\ lock[EmployeeOf[r]] # NoRequest

InProgress == {r \in Requests : pc[r] # "idle"}
AllWait == InProgress # {} /\ \A r \in InProgress : Waits(r)

\* The requests in progress never all wait for one another: for the lock of a
\* request that waits for a connection, and for the connections of requests
\* that wait for its lock.
NeverAllWait == ~AllWait

\* Every onboarding request gets its answer, however many arrive at once: the
\* requests that wait for a lock do not starve the one that holds it.
EveryRequestReturns == \A r \in Requests : pc[r] # "idle" ~> pc[r] = "idle"
===========================================================================
