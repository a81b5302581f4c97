--------------------------- MODULE DatabaseProofs ---------------------------
(***************************************************************************)
(* Proofs about what the database is asked to keep apart: ConnectionPool,  *)
(* for a pool of any size and any requests and employees, and Migrations,  *)
(* for any builds and versions.  The pool's invariant adds to PoolRespected *)
(* that finitely many connections are lent.  MInv says that a run that     *)
(* reads or works has the lock, and so that its plan still stands on the   *)
(* history it read.                                                        *)
(***************************************************************************)
EXTENDS MCRecovery, FiniteSetTheorems, WellFoundedInduction, TLAPS

---------------------------------------------------------------------------
\* The pool.

Keeping == {r \in Requests : pc[r] \in Holding}
Asking == {r \in Requests : pc[r] \in Querying}

\* A lock is held for the employee of the request that holds it.
LocksAreOwn == \A e \in Employees : lock[e] # NoRequest => EmployeeOf[lock[e]] = e

PoolInv ==
  /\ TypeOK /\ PoolRespected /\ LocksAreOwn
  /\ IsFiniteSet(Keeping) /\ IsFiniteSet(Asking)

LEMMA InitiallyNothingLent == PoolAssumption /\ Init => PoolInv
PROOF
  <1> SUFFICES ASSUME PoolAssumption, Init PROVE PoolInv
    OBVIOUS
  <1>1. TypeOK
    BY DEF Init, TypeOK, Points
  <1>2. Keeping = {} /\ Asking = {}
    BY DEF Init, Keeping, Asking, Holding, Querying
  <1>3. IsFiniteSet(Keeping) /\ IsFiniteSet(Asking) /\ InUse = 0
    BY <1>2, FS_EmptySet DEF InUse, Keeping, Asking
  <1>4. PoolRespected
    BY <1>3 DEF Init, PoolRespected, PoolAssumption, Holding
  <1>5. LocksAreOwn
    BY DEF Init, LocksAreOwn
  <1> QED BY <1>1, <1>3, <1>4, <1>5 DEF PoolInv

\* What a request that moves keeps and asks for.
LEMMA MoveEffect ==
  ASSUME TypeOK, NEW r \in Requests, NEW from, NEW to \in Points, Move(r, from, to)
  PROVE  /\ pc' \in [Requests -> Points]
         /\ \A p \in Requests : pc'[p] = IF p = r THEN to ELSE pc[p]
         /\ Keeping' = IF to \in Holding THEN Keeping \cup {r} ELSE Keeping \ {r}
         /\ Asking' = IF to \in Querying THEN Asking \cup {r} ELSE Asking \ {r}
PROOF
  <1>1. /\ pc' \in [Requests -> Points]
        /\ \A p \in Requests : pc'[p] = IF p = r THEN to ELSE pc[p]
    BY DEF Move, TypeOK
  <1>2. Keeping' = IF to \in Holding THEN Keeping \cup {r} ELSE Keeping \ {r}
    BY <1>1 DEF Keeping
  <1>3. Asking' = IF to \in Querying THEN Asking \cup {r} ELSE Asking \ {r}
    BY <1>1 DEF Asking
  <1> QED BY <1>1, <1>2, <1>3

\* How many connections that takes: at most one more than before.
LEMMA MoveCounts ==
  ASSUME PoolInv, NEW r \in Requests, NEW from, NEW to \in Points, Move(r, from, to)
  PROVE  /\ IsFiniteSet(Keeping') /\ IsFiniteSet(Asking')
         /\ InUse \in Int /\ InUse' \in Int
         /\ (from \in Holding \/ to \notin Holding) /\ (from \in Querying \/ to \notin Querying)
              => InUse' <= InUse
         /\ (from \in Holding \/ to \notin Holding) \/ (from \in Querying \/ to \notin Querying)
              => InUse' <= InUse + 1
PROOF
  <1>1. r \in Keeping <=> from \in Holding
    BY DEF Keeping, Move
  <1>2. r \in Asking <=> from \in Querying
    BY DEF Asking, Move
  <1>3. InUse = Cardinality(Keeping) + Cardinality(Asking)
    BY DEF InUse, Keeping, Asking
  <1>4. InUse' = Cardinality(Keeping') + Cardinality(Asking')
    BY DEF InUse, Keeping, Asking
  <1>5. IsFiniteSet(Keeping) /\ IsFiniteSet(Asking)
        /\ Cardinality(Keeping) \in Nat /\ Cardinality(Asking) \in Nat
    BY FS_CardinalityType DEF PoolInv
  <1>6. /\ Keeping' = IF to \in Holding THEN Keeping \cup {r} ELSE Keeping \ {r}
        /\ Asking' = IF to \in Querying THEN Asking \cup {r} ELSE Asking \ {r}
    BY MoveEffect DEF PoolInv
  <1>7. /\ IsFiniteSet(Keeping') /\ Cardinality(Keeping') \in Int
        /\ Cardinality(Keeping') <= Cardinality(Keeping) + 1
        /\ from \in Holding \/ to \notin Holding =>
             Cardinality(Keeping') <= Cardinality(Keeping)
    <2>1. /\ IsFiniteSet(Keeping \cup {r})
          /\ Cardinality(Keeping \cup {r}) =
               IF r \in Keeping THEN Cardinality(Keeping) ELSE Cardinality(Keeping) + 1
      BY <1>5, FS_AddElement
    <2>2. /\ IsFiniteSet(Keeping \ {r})
          /\ Cardinality(Keeping \ {r}) =
               IF r \in Keeping THEN Cardinality(Keeping) - 1 ELSE Cardinality(Keeping)
      BY <1>5, FS_RemoveElement
    <2>3. CASE to \in Holding
      BY <1>1, <1>5, <1>6, <2>1, <2>3
    <2>4. CASE to \notin Holding
      BY <1>5, <1>6, <2>2, <2>4
    <2> QED BY <2>3, <2>4
  <1>8. /\ IsFiniteSet(Asking') /\ Cardinality(Asking') \in Int
        /\ Cardinality(Asking') <= Cardinality(Asking) + 1
        /\ from \in Querying \/ to \notin Querying =>
             Cardinality(Asking') <= Cardinality(Asking)
    <2>1. /\ IsFiniteSet(Asking \cup {r})
          /\ Cardinality(Asking \cup {r}) =
               IF r \in Asking THEN Cardinality(Asking) ELSE Cardinality(Asking) + 1
      BY <1>5, FS_AddElement
    <2>2. /\ IsFiniteSet(Asking \ {r})
          /\ Cardinality(Asking \ {r}) =
               IF r \in Asking THEN Cardinality(Asking) - 1 ELSE Cardinality(Asking)
      BY <1>5, FS_RemoveElement
    <2>3. CASE to \in Querying
      BY <1>2, <1>5, <1>6, <2>1, <2>3
    <2>4. CASE to \notin Querying
      BY <1>5, <1>6, <2>2, <2>4
    <2> QED BY <2>3, <2>4
  <1> QED BY <1>3, <1>4, <1>5, <1>7, <1>8

\* A move that fits the pool and leaves the lock as it is.
LEMMA MoveKeeps ==
  ASSUME PoolAssumption, PoolInv, NEW r \in Requests, NEW from, NEW to \in Points,
         Move(r, from, to), UNCHANGED lock,
         from \in Holding \ {"lock"} <=> to \in Holding \ {"lock"},
         \/ InUse < PoolSize /\ (~(to \in Querying) \/ from \in Holding \/ to \notin Holding)
         \/ (from \in Holding \/ to \notin Holding) /\ (from \in Querying \/ to \notin Querying)
  PROVE  PoolInv'
PROOF
  <1>1. /\ pc' \in [Requests -> Points]
        /\ \A p \in Requests : pc'[p] = IF p = r THEN to ELSE pc[p]
    BY MoveEffect DEF PoolInv
  <1>2. /\ IsFiniteSet(Keeping') /\ IsFiniteSet(Asking') /\ InUse' \in Int /\ InUse \in Int
        /\ InUse' <= InUse \/ (InUse' <= InUse + 1 /\ InUse < PoolSize)
    BY MoveCounts
  <1>3. InUse' <= PoolSize
    BY <1>2 DEF PoolInv, PoolRespected, PoolAssumption
  <1>4. pc[r] = from
    BY DEF Move
  <1>5. TypeOK'
    BY <1>1 DEF PoolInv, TypeOK
  <1>6. PoolRespected'
    BY <1>1, <1>3, <1>4 DEF PoolInv, PoolRespected
  <1>7. LocksAreOwn'
    BY DEF PoolInv, LocksAreOwn
  <1> QED BY <1>2, <1>5, <1>6, <1>7 DEF PoolInv

\* Nobody else of its employee is past the lock when it is free.
LEMMA LockKeeps ==
  ASSUME PoolAssumption, PoolInv, NEW r \in Requests, Lock(r)
  PROVE  PoolInv'
PROOF
  <1>1. Move(r, "lock", "recheck") /\ "recheck" \in Points
    BY DEF Lock, Points, Holding
  <1>2. /\ pc' \in [Requests -> Points]
        /\ \A p \in Requests : pc'[p] = IF p = r THEN "recheck" ELSE pc[p]
    BY <1>1, MoveEffect DEF PoolInv
  <1>3. /\ IsFiniteSet(Keeping') /\ IsFiniteSet(Asking')
        /\ InUse' \in Int /\ InUse \in Int /\ InUse' <= InUse
    BY <1>1, MoveCounts DEF Holding, Querying
  <1>4. InUse' <= PoolSize
    BY <1>3 DEF PoolInv, PoolRespected, PoolAssumption
  <1>5. /\ lock' \in [Employees -> Requests \cup {NoRequest}]
        /\ lock[EmployeeOf[r]] = NoRequest
        /\ \A e \in Employees : lock'[e] = IF e = EmployeeOf[r] THEN r ELSE lock[e]
    BY DEF Lock, PoolInv, TypeOK
  <1>6. \A p \in Requests : EmployeeOf[p] \in Employees /\ p # NoRequest
    BY DEF PoolAssumption
  <1>7. TypeOK'
    BY <1>2, <1>5 DEF TypeOK
  <1>8. PoolRespected'
    BY <1>2, <1>4, <1>5, <1>6 DEF PoolInv, PoolRespected, Holding
  <1>9. LocksAreOwn'
    BY <1>5 DEF PoolInv, LocksAreOwn
  <1> QED BY <1>3, <1>7, <1>8, <1>9 DEF PoolInv

\* Whoever finishes had the lock.
LEMMA FinishKeeps ==
  ASSUME PoolAssumption, PoolInv, NEW r \in Requests, Finish(r)
  PROVE  PoolInv'
PROOF
  <1>1. Move(r, "join", "idle") /\ "idle" \in Points
    BY DEF Finish, Points
  <1>2. /\ pc' \in [Requests -> Points] /\ pc[r] = "join"
        /\ \A p \in Requests : pc'[p] = IF p = r THEN "idle" ELSE pc[p]
    BY <1>1, MoveEffect DEF PoolInv, Move
  <1>3. /\ IsFiniteSet(Keeping') /\ IsFiniteSet(Asking')
        /\ InUse' \in Int /\ InUse \in Int /\ InUse' <= InUse
    BY <1>1, MoveCounts DEF Holding, Querying
  <1>4. InUse' <= PoolSize
    BY <1>3 DEF PoolInv, PoolRespected, PoolAssumption
  <1>5. /\ lock' \in [Employees -> Requests \cup {NoRequest}]
        /\ \A e \in Employees : lock'[e] = IF e = EmployeeOf[r] THEN NoRequest ELSE lock[e]
    BY DEF Finish, PoolInv, TypeOK
  <1>6. lock[EmployeeOf[r]] = r
    BY <1>2 DEF PoolInv, PoolRespected, Holding
  <1>7. \A p \in Requests : EmployeeOf[p] \in Employees /\ p # NoRequest
    BY DEF PoolAssumption
  <1>8. TypeOK'
    BY <1>2, <1>5 DEF TypeOK
  <1>9. PoolRespected'
    BY <1>2, <1>4, <1>5, <1>6, <1>7 DEF PoolInv, PoolRespected, Holding
  <1>10. LocksAreOwn'
    BY <1>5 DEF PoolInv, LocksAreOwn
  <1> QED BY <1>3, <1>8, <1>9, <1>10 DEF PoolInv

LEMMA PoolStep == PoolAssumption /\ PoolInv /\ [Next]_vars => PoolInv'
PROOF
  <1> SUFFICES ASSUME PoolAssumption, PoolInv, [Next]_vars PROVE PoolInv'
    OBVIOUS
  <1> USE DEF Holding, Querying, Points
  <1>1. ASSUME NEW r \in Requests, Arrive(r) PROVE PoolInv'
    BY <1>1, MoveKeeps DEF Arrive
  <1>2. ASSUME NEW r \in Requests, Check(r) PROVE PoolInv'
    BY <1>2, MoveKeeps DEF Check, Taking
  <1>3. ASSUME NEW r \in Requests, Checked(r) PROVE PoolInv'
    BY <1>3, MoveKeeps DEF Checked
  <1>4. ASSUME NEW r \in Requests, Connect(r) PROVE PoolInv'
    BY <1>4, MoveKeeps DEF Connect, Taking
  <1>5. ASSUME NEW r \in Requests, Recheck(r) PROVE PoolInv'
    BY <1>5, MoveKeeps DEF Recheck, Taking
  <1>6. ASSUME NEW r \in Requests, Rechecked(r) PROVE PoolInv'
    BY <1>6, MoveKeeps DEF Rechecked
  <1>7. CASE UNCHANGED vars
    BY <1>7 DEF vars, PoolInv, TypeOK, PoolRespected, LocksAreOwn, InUse, Keeping, Asking
  <1> QED BY <1>1, <1>2, <1>3, <1>4, <1>5, <1>6, <1>7, LockKeeps, FinishKeeps DEF Next, Proceed

\* The pool's invariant holds in every state.
THEOREM PoolInvariant == Spec => []PoolInv
PROOF
  <1>1. Init => PoolInv
    BY PoolAssumption, InitiallyNothingLent
  <1>2. PoolInv /\ [Next]_vars => PoolInv'
    BY PoolAssumption, PoolStep
  <1> QED BY <1>1, <1>2, PTL DEF Spec

\* Points and locks keep their types.
THEOREM PoolTypeCorrect == Spec => []TypeOK
PROOF
  <1>1. PoolInv => TypeOK
    BY DEF PoolInv
  <1> QED BY <1>1, PoolInvariant, PTL

\* Whatever the number of requests, the pool never lends more than it has, and
\* one request of an employee is past the lock (store.go WithLock, runner.go
\* Open).
THEOREM PoolNeverOverdrawn == Spec => []PoolRespected
PROOF
  <1>1. PoolInv => PoolRespected
    BY DEF PoolInv
  <1> QED BY <1>1, PoolInvariant, PTL

(***************************************************************************)
(* When all requests in progress wait, nobody reads through the pool, so   *)
(* only lock connections are lent.  Were one left in the pool, everybody   *)
(* would wait for a lock; but whoever holds a lock is past waiting for it. *)
(***************************************************************************)
LEMMA AllWaitOnLocks ==
  ASSUME PoolAssumption, PoolInv, AllWait
  PROVE  Asking = {} /\ InUse = Cardinality(Keeping) /\ InUse = PoolSize
PROOF
  <1>1. Asking = {}
    BY DEF AllWait, InProgress, Waits, Asking, Querying
  <1>2. InUse = Cardinality(Keeping) /\ Cardinality(Keeping) \in Nat
    BY <1>1, FS_EmptySet, FS_CardinalityType DEF InUse, Keeping, Asking, PoolInv
  <1>3. ASSUME InUse < PoolSize PROVE FALSE
    <2>1. \A r \in InProgress : pc[r] = "lock" /\ lock[EmployeeOf[r]] # NoRequest
      BY <1>2, <1>3 DEF AllWait, Waits, PoolAssumption
    <2>2. PICK r \in InProgress : TRUE
      BY DEF AllWait
    <2> DEFINE h == lock[EmployeeOf[r]]
    <2>3. r \in Requests /\ EmployeeOf[r] \in Employees
      BY <2>2 DEF InProgress, PoolAssumption
    <2>4. h \in Requests
      BY <2>1, <2>2, <2>3 DEF PoolInv, TypeOK
    <2>5. lock[EmployeeOf[h]] = h
      BY <2>1, <2>2, <2>3 DEF PoolInv, LocksAreOwn
    <2>6. pc[h] \in Holding \ {"lock"}
      BY <2>4, <2>5 DEF PoolInv, PoolRespected
    <2>7. h \in InProgress
      BY <2>4, <2>6 DEF InProgress, Holding
    <2> QED BY <2>1, <2>6, <2>7
  <1>4. InUse <= PoolSize
    BY DEF PoolInv, PoolRespected
  <1> QED BY <1>1, <1>2, <1>3, <1>4 DEF PoolAssumption

\* In a pool of any size, onboarding comes to a standstill only when the lock
\* connections of its requests, and nothing else, use up the whole pool.
THEOREM StuckOnLocksOnly ==
  Spec => [](AllWait => Cardinality(Keeping) = PoolSize /\ Asking = {})
PROOF
  <1>1. PoolInv => (AllWait => Cardinality(Keeping) = PoolSize /\ Asking = {})
    BY PoolAssumption, AllWaitOnLocks
  <1> QED BY <1>1, PoolInvariant, PTL

LEMMA SpareConnectionLeft ==
  ASSUME PoolAssumption, PoolInv, IsFiniteSet(Requests), Cardinality(Requests) < PoolSize
  PROVE  NeverAllWait
PROOF
  <1>1. Cardinality(Keeping) <= Cardinality(Requests)
    BY FS_Subset DEF Keeping
  <1>2. Cardinality(Keeping) \in Nat /\ Cardinality(Requests) \in Nat
    BY FS_Subset, FS_CardinalityType DEF Keeping
  <1> QED BY <1>1, <1>2, AllWaitOnLocks DEF NeverAllWait, PoolAssumption

\* So one connection more than there are requests is enough for any number of
\* requests and employees: somebody can always go on.
THEOREM LargePoolNeverStuck ==
  ASSUME IsFiniteSet(Requests), Cardinality(Requests) < PoolSize
  PROVE  Spec => []NeverAllWait
PROOF
  <1>1. PoolInv => NeverAllWait
    BY PoolAssumption, SpareConnectionLeft
  <1> QED BY <1>1, PoolInvariant, PTL
---------------------------------------------------------------------------
\* The migrations.

LEMMA LeastExists ==
  ASSUME NEW S \in SUBSET Nat, S # {}
  PROVE  \E v \in S : \A w \in S : v <= w
PROOF
  <1> DEFINE R == OpToRel(<, Nat)
  <1>1. \A x, y \in Nat : y < x => <<y, x>> \in R
    BY DEF OpToRel
  <1>2. IsWellFoundedOn(R, Nat)
    BY NatLessThanWellFounded
  <1> HIDE DEF R
  <1>3. PICK v \in S : \A w \in S : <<w, v>> \notin R
    BY <1>2, WFMin
  <1>4. \A w \in S : ~(w < v)
    BY <1>1, <1>3
  <1>5. \A w \in S : v <= w
    BY <1>4
  <1> QED BY <1>5

\* The oldest and the newest of some versions are among them.
LEMMA OldestIsLeast ==
  ASSUME MigrationAssumption, NEW S \in SUBSET Versions, S # {}
  PROVE  Oldest(S) \in S /\ \A w \in S : Oldest(S) <= w
PROOF
  <1>1. S \in SUBSET Nat
    BY DEF Versions, MigrationAssumption
  <1>2. \E v \in S : \A w \in S : v <= w
    BY <1>1, LeastExists
  <1> QED BY <1>2 DEF Oldest

LEMMA NewestIsGreatest ==
  ASSUME MigrationAssumption, NEW S \in SUBSET Versions, S # {}
  PROVE  Newest(S) \in S /\ \A w \in S : w <= Newest(S)
PROOF
  <1> DEFINE M == {Latest - v : v \in S}
  <1>1. \A v \in S : v \in Nat /\ v <= Latest /\ Latest \in Nat
    BY DEF Versions, MigrationAssumption
  <1>2. M \in SUBSET Nat /\ M # {}
    BY <1>1
  <1>3. PICK m \in M : \A w \in M : m <= w
    BY <1>2, LeastExists
  <1>4. PICK v \in S : m = Latest - v
    BY <1>3
  <1>5. \A w \in S : Latest - v <= Latest - w
    BY <1>3, <1>4
  <1>6. \A w \in S : w <= v
    BY <1>1, <1>5
  <1> QED BY <1>6 DEF Newest

LEMMA InitiallyMigrated == MigrationAssumption /\ MigrationInit => MInv
PROOF
  <1> SUFFICES ASSUME MigrationAssumption, MigrationInit PROVE MInv
    OBVIOUS
  <1>1. NoRun \in Run /\ NoRun.pc = "idle"
    BY DEF NoRun, Run, MigrationAssumption
  <1>2. MigrationTypeOK
    BY <1>1 DEF MigrationInit, MigrationTypeOK
  <1>3. WorkersHaveTheLock /\ PlansStandOnHistory
    BY <1>1 DEF MigrationInit, WorkersHaveTheLock, PlansStandOnHistory, In
  <1> QED BY <1>2, <1>3 DEF MInv

\* A process that neither works nor has the lock afterwards, and changes nothing
\* but its own run and its own lock.
LEMMA OwnRunKeeps ==
  ASSUME MInv, NEW p \in Processes, NEW q \in Run, q.pc \notin {"reading", "working"},
         process' = [process EXCEPT ![p] = q], UNCHANGED applied,
         holder' = IF holder = p THEN Nobody ELSE holder
  PROVE  MInv'
PROOF
  <1>1. /\ process' \in [Processes -> Run] /\ process'[p] = q
        /\ \A o \in Processes \ {p} : process'[o] = process[o]
    BY DEF MInv, MigrationTypeOK
  <1>2. MigrationTypeOK'
    BY <1>1 DEF MInv, MigrationTypeOK
  <1>3. WorkersHaveTheLock'
    BY <1>1 DEF MInv, WorkersHaveTheLock
  <1>4. PlansStandOnHistory'
    BY <1>1 DEF MInv, PlansStandOnHistory, In, Applied
  <1> QED BY <1>2, <1>3, <1>4 DEF MInv

\* A process that works is the only one that does.
LEMMA OneWorks ==
  ASSUME MInv, NEW p \in Processes, process[p].pc \in {"reading", "working"},
         NEW o \in Processes, o # p
  PROVE  process[o].pc \notin {"reading", "working"}
PROOF
  BY DEF MInv, WorkersHaveTheLock

LEMMA StartRunKeeps ==
  ASSUME MigrationAssumption, MInv, NEW p \in Processes, NEW op \in {"up", "down"},
         NEW steps \in 0..Latest, StartRun(p, op, steps)
  PROVE  MInv'
PROOF
  <1> DEFINE q == [NoRun EXCEPT !.pc = "locking", !.op = op, !.steps = steps]
  <1>1. q \in Run /\ q.pc = "locking"
    BY DEF NoRun, Run, MigrationAssumption
  <1>2. process' = [process EXCEPT ![p] = q] /\ UNCHANGED <<applied, holder>>
    BY DEF StartRun
  <1> HIDE DEF q
  <1>3. /\ process' \in [Processes -> Run] /\ process'[p] = q
        /\ \A o \in Processes \ {p} : process'[o] = process[o]
    BY <1>1, <1>2 DEF MInv, MigrationTypeOK
  <1>4. MigrationTypeOK'
    BY <1>2, <1>3 DEF MInv, MigrationTypeOK
  <1>5. WorkersHaveTheLock'
    BY <1>1, <1>2, <1>3 DEF MInv, WorkersHaveTheLock
  <1>6. PlansStandOnHistory'
    BY <1>1, <1>2, <1>3 DEF MInv, PlansStandOnHistory, In, Applied
  <1> QED BY <1>4, <1>5, <1>6 DEF MInv

LEMMA TakeLockKeeps ==
  ASSUME MigrationAssumption, MInv, NEW p \in Processes, TakeLock(p)
  PROVE  MInv'
PROOF
  <1> DEFINE q == [process[p] EXCEPT !.pc = "reading"]
  <1>1. process[p] \in Run
    BY DEF MInv, MigrationTypeOK
  <1>2. q \in Run /\ q.pc = "reading"
    BY <1>1 DEF Run
  <1>3. process' = [process EXCEPT ![p] = q]
    BY DEF TakeLock
  <1> HIDE DEF q
  <1>4. /\ process' \in [Processes -> Run] /\ process'[p] = q
        /\ \A o \in Processes \ {p} : process'[o] = process[o]
    BY <1>2, <1>3 DEF MInv, MigrationTypeOK
  <1>5. MigrationTypeOK'
    BY <1>4 DEF MInv, MigrationTypeOK, TakeLock
  <1>6. WorkersHaveTheLock'
    BY <1>2, <1>4 DEF MInv, WorkersHaveTheLock, TakeLock, MigrationAssumption
  <1>7. PlansStandOnHistory'
    BY <1>2, <1>4 DEF MInv, PlansStandOnHistory, In, Applied, TakeLock
  <1> QED BY <1>5, <1>6, <1>7 DEF MInv

\* Every earlier version of the build that is not applied as the build has it is
\* to be applied as well.
LEMMA ToApplyIsClosed ==
  ASSUME MigrationAssumption, MInv, NEW p \in Processes, NEW v \in ToApply(p)
  PROVE  /\ v \in DOMAIN Build[p] \ Applied
         /\ \A w \in DOMAIN Build[p] : w < v => w \in ToApply(p) \/ applied[w] = Build[p][w]
PROOF
  <1>1. \A w \in DOMAIN Build[p] : w \in Versions /\ w \in Int
    BY DEF MigrationAssumption, Versions
  <1>2. ASSUME NEW w \in DOMAIN Build[p], w < v, applied[w] # Build[p][w]
        PROVE  w \in ToApply(p)
    <2>1. w \notin Changed(p)
      BY <1>1, <1>2 DEF ToApply, Changed
    <2>2. w \notin Applied
      BY <1>2, <2>1 DEF Changed, Applied
    <2>3. \A x \in Changed(p) : w < x
      BY <1>1, <1>2 DEF ToApply, Changed
    <2> QED BY <2>2, <2>3 DEF ToApply
  <1> QED BY <1>2 DEF ToApply

\* Every later version is to be rolled back as well.
LEMMA ToRollBackIsClosed ==
  ASSUME MigrationAssumption, NEW steps \in Nat, NEW v \in ToRollBack(steps)
  PROVE  v \in Applied /\ \A w \in Applied : v <= w => w \in ToRollBack(steps)
PROOF
  <1> DEFINE From(x) == {y \in Applied : y >= x}
  <1>1. ASSUME NEW w \in Applied, v <= w PROVE Cardinality(From(w)) <= steps
    <2>1. From(w) \in SUBSET From(v)
      BY <1>1 DEF ToRollBack, Applied, Versions, MigrationAssumption
    <2>2. IsFiniteSet(From(v)) /\ From(v) \in SUBSET Versions
      <3>1. IsFiniteSet(Versions)
        BY FS_Interval DEF Versions, MigrationAssumption
      <3>2. From(v) \in SUBSET Versions
        BY DEF Applied
      <3> QED BY <3>1, <3>2, FS_Subset
    <2>3. /\ IsFiniteSet(From(w)) /\ Cardinality(From(w)) <= Cardinality(From(v))
      BY <2>1, <2>2, FS_Subset
    <2>4. Cardinality(From(v)) <= steps
      BY DEF ToRollBack
    <2>5. Cardinality(From(w)) \in Nat /\ Cardinality(From(v)) \in Nat
      BY <2>2, <2>3, FS_CardinalityType
    <2> QED BY <2>3, <2>4, <2>5
  <1> QED BY <1>1 DEF ToRollBack

LEMMA ReadHistoryKeeps ==
  ASSUME MigrationAssumption, MInv, NEW p \in Processes, ReadHistory(p)
  PROVE  MInv'
PROOF
  <1> DEFINE todo == IF process[p].op = "up" THEN ToApply(p) ELSE ToRollBack(process[p].steps)
             q == [process[p] EXCEPT !.pc = "working", !.todo = todo]
  <1>1. process[p] \in Run /\ process[p].steps \in Nat
    BY DEF MInv, MigrationTypeOK, Run, MigrationAssumption
  <1>2. todo \in SUBSET Versions
    BY DEF ToApply, ToRollBack, Applied, MigrationAssumption
  <1>3. q \in Run /\ q.pc = "working" /\ q.op = process[p].op /\ q.todo = todo
    BY <1>1, <1>2 DEF Run
  <1>4. process' = [process EXCEPT ![p] = q] /\ UNCHANGED <<applied, holder>>
    BY DEF ReadHistory
  <1>5. \A v \in todo :
          /\ process[p].op = "up" =>
               /\ v \in DOMAIN Build[p] \ Applied
               /\ \A w \in DOMAIN Build[p] :
                    w < v => w \in todo \/ applied[w] = Build[p][w]
          /\ process[p].op = "down" =>
               v \in Applied /\ \A w \in Applied : v <= w => w \in todo
    BY <1>1, ToApplyIsClosed, ToRollBackIsClosed
  <1> HIDE DEF q, todo
  <1>6. /\ process' \in [Processes -> Run] /\ process'[p] = q
        /\ \A o \in Processes \ {p} : process'[o] = process[o]
    BY <1>3, <1>4 DEF MInv, MigrationTypeOK
  <1>7. MigrationTypeOK'
    BY <1>4, <1>6 DEF MInv, MigrationTypeOK
  <1>8. WorkersHaveTheLock'
    BY <1>4, <1>6 DEF MInv, WorkersHaveTheLock, ReadHistory, In
  <1>9. PlansStandOnHistory'
    BY <1>3, <1>4, <1>5, <1>6 DEF MInv, PlansStandOnHistory, In, Applied
  <1> QED BY <1>7, <1>8, <1>9 DEF MInv

\* What changing one version, and striking it off the plan, does.
LEMMA WorkEffect ==
  ASSUME MigrationAssumption, MInv, NEW p \in Processes, In(p, "working"),
         NEW v \in Versions, NEW as \in Checksums \cup {Nobody},
         applied' = [applied EXCEPT ![v] = as],
         process' = [process EXCEPT ![p].todo = @ \ {v}], UNCHANGED holder
  PROVE  /\ MigrationTypeOK' /\ WorkersHaveTheLock'
         /\ \A w \in Versions : applied'[w] = IF w = v THEN as ELSE applied[w]
         /\ process'[p].pc = "working" /\ process'[p].op = process[p].op
         /\ process'[p].todo = process[p].todo \ {v}
         /\ \A o \in Processes \ {p} : process'[o].pc \notin {"reading", "working"}
PROOF
  <1> DEFINE q == [process[p] EXCEPT !.todo = @ \ {v}]
  <1>1. process[p] \in Run
    BY DEF MInv, MigrationTypeOK
  <1>2. q \in Run /\ q.pc = "working" /\ q.op = process[p].op
        /\ q.todo = process[p].todo \ {v}
    BY <1>1 DEF Run, In
  <1>3. process' = [process EXCEPT ![p] = q]
    OBVIOUS
  <1> HIDE DEF q
  <1>4. /\ process' \in [Processes -> Run] /\ process'[p] = q
        /\ \A o \in Processes \ {p} : process'[o] = process[o]
    BY <1>2, <1>3 DEF MInv, MigrationTypeOK
  <1>5. /\ applied' \in [Versions -> Checksums \cup {Nobody}]
        /\ \A w \in Versions : applied'[w] = IF w = v THEN as ELSE applied[w]
    BY DEF MInv, MigrationTypeOK
  <1>6. MigrationTypeOK'
    BY <1>4, <1>5 DEF MInv, MigrationTypeOK
  <1>7. \A o \in Processes \ {p} : process'[o].pc \notin {"reading", "working"}
    BY <1>4, OneWorks DEF In
  <1>8. WorkersHaveTheLock'
    BY <1>7 DEF MInv, WorkersHaveTheLock, In
  <1> QED BY <1>2, <1>4, <1>5, <1>6, <1>7, <1>8

\* The oldest version of the plan is applied on what is before it.
LEMMA ApplyKeeps ==
  ASSUME MigrationAssumption, MInv, NEW p \in Processes, Apply(p)
  PROVE  /\ MInv'
         /\ \A v \in Applied' \ Applied : \A w \in DOMAIN Build[p] :
              w < v => applied[w] = Build[p][w]
PROOF
  <1> DEFINE v == Oldest(process[p].todo)
  <1>1. /\ process[p].todo \in SUBSET Versions /\ process[p].todo # {}
        /\ In(p, "working") /\ process[p].op = "up"
    BY DEF Apply, MInv, MigrationTypeOK, Run
  <1>2. v \in process[p].todo /\ v \in Versions /\ \A w \in process[p].todo : v <= w
    BY <1>1, OldestIsLeast
  <1>3. /\ v \in DOMAIN Build[p] /\ applied[v] = Nobody
        /\ \A x \in process[p].todo : \A w \in DOMAIN Build[p] :
             w < x => w \in process[p].todo \/ applied[w] = Build[p][w]
        /\ \A x \in process[p].todo : x \in DOMAIN Build[p] \ Applied
    BY <1>1, <1>2 DEF MInv, PlansStandOnHistory, Applied
  <1>4. Build[p][v] \in Checksums
    BY <1>3 DEF Checksums
  <1>5. /\ applied' = [applied EXCEPT ![v] = Build[p][v]]
        /\ process' = [process EXCEPT ![p].todo = @ \ {v}] /\ UNCHANGED holder
    BY DEF Apply
  <1> HIDE DEF v
  <1>6. /\ MigrationTypeOK' /\ WorkersHaveTheLock'
        /\ \A w \in Versions : applied'[w] = IF w = v THEN Build[p][v] ELSE applied[w]
        /\ process'[p].pc = "working" /\ process'[p].op = process[p].op
        /\ process'[p].todo = process[p].todo \ {v}
        /\ \A o \in Processes \ {p} : process'[o].pc \notin {"reading", "working"}
    BY <1>1, <1>2, <1>4, <1>5, WorkEffect
  <1>7. \A w \in DOMAIN Build[p] : w \in Versions /\ w \in Int
    BY DEF MigrationAssumption, Versions
  <1>8. PlansStandOnHistory'
    BY <1>1, <1>3, <1>6, <1>7 DEF PlansStandOnHistory, In, Applied
  <1>9. Applied' \ Applied \subseteq {v}
    BY <1>6 DEF Applied
  <1>10. \A w \in DOMAIN Build[p] : w < v => applied[w] = Build[p][w]
    BY <1>2, <1>3, <1>7
  <1> QED BY <1>6, <1>8, <1>9, <1>10 DEF MInv

\* The newest version of the plan is the newest of all.
LEMMA RollBackKeeps ==
  ASSUME MigrationAssumption, MInv, NEW p \in Processes, RollBack(p)
  PROVE  MInv' /\ RolledBackNewestFirst
PROOF
  <1> DEFINE v == Newest(process[p].todo)
  <1>1. /\ process[p].todo \in SUBSET Versions /\ process[p].todo # {}
        /\ In(p, "working") /\ process[p].op = "down"
    BY DEF RollBack, MInv, MigrationTypeOK, Run
  <1>2. v \in process[p].todo /\ v \in Versions /\ \A w \in process[p].todo : w <= v
    BY <1>1, NewestIsGreatest
  <1>3. \A x \in process[p].todo :
          x \in Applied /\ \A w \in Applied : x <= w => w \in process[p].todo
    BY <1>1 DEF MInv, PlansStandOnHistory
  <1>4. /\ applied' = [applied EXCEPT ![v] = Nobody]
        /\ process' = [process EXCEPT ![p].todo = @ \ {v}] /\ UNCHANGED holder
    BY DEF RollBack
  <1> HIDE DEF v
  <1>5. /\ MigrationTypeOK' /\ WorkersHaveTheLock'
        /\ \A w \in Versions : applied'[w] = IF w = v THEN Nobody ELSE applied[w]
        /\ process'[p].pc = "working" /\ process'[p].op = process[p].op
        /\ process'[p].todo = process[p].todo \ {v}
        /\ \A o \in Processes \ {p} : process'[o].pc \notin {"reading", "working"}
    BY <1>1, <1>2, <1>4, WorkEffect
  <1>6. Applied' = Applied \ {v}
    BY <1>5 DEF Applied
  <1>7. PlansStandOnHistory'
    BY <1>1, <1>3, <1>5, <1>6 DEF PlansStandOnHistory, In
  <1>8. \A w \in Applied : w \in Int /\ v \in Int
    BY <1>2 DEF Applied, Versions, MigrationAssumption
  <1>9. \A w \in Applied : w <= v
    BY <1>2, <1>3, <1>8
  <1> QED BY <1>5, <1>6, <1>7, <1>9 DEF MInv, RolledBackNewestFirst

LEMMA EndKeeps ==
  ASSUME MigrationAssumption, MInv, NEW p \in Processes,
         FinishRun(p) \/ Fail(p) \/ Break(p)
  PROVE  MInv'
PROOF
  <1> DEFINE q == [NoRun EXCEPT !.pc = "broken"]
  <1>1. NoRun \in Run /\ NoRun.pc = "idle" /\ q \in Run /\ q.pc = "broken"
    BY DEF NoRun, Run, MigrationAssumption
  <1>2. CASE FinishRun(p) \/ Fail(p)
    BY <1>1, <1>2, OwnRunKeeps DEF FinishRun, Fail, End
  <1>3. CASE Break(p)
    <2>1. process' = [process EXCEPT ![p] = q]
      BY <1>3 DEF Break
    <2> HIDE DEF q
    <2> QED BY <1>1, <1>3, <2>1, OwnRunKeeps DEF Break
  <1> QED BY <1>2, <1>3

LEMMA MigrationStep ==
  ASSUME MigrationAssumption, MInv, [MigrationNext]_migrationVars
  PROVE  MInv'
PROOF
  <1>1. ASSUME NEW p \in Processes, StartRun(p, "up", 0) PROVE MInv'
    BY <1>1, StartRunKeeps DEF MigrationAssumption
  <1>2. ASSUME NEW p \in Processes, NEW steps \in 1..Latest, StartRun(p, "down", steps)
        PROVE  MInv'
    BY <1>2, StartRunKeeps DEF MigrationAssumption
  <1>3. ASSUME NEW p \in Processes, TakeLock(p) \/ ReadHistory(p) PROVE MInv'
    BY <1>3, TakeLockKeeps, ReadHistoryKeeps
  <1>4. ASSUME NEW p \in Processes, Apply(p) \/ RollBack(p) PROVE MInv'
    BY <1>4, ApplyKeeps, RollBackKeeps
  <1>5. ASSUME NEW p \in Processes, FinishRun(p) \/ Fail(p) \/ Break(p) PROVE MInv'
    BY <1>5, EndKeeps
  <1>6. CASE UNCHANGED migrationVars
    BY <1>6 DEF migrationVars, MInv, MigrationTypeOK, WorkersHaveTheLock,
       PlansStandOnHistory, In, Applied
  <1> QED BY <1>1, <1>2, <1>3, <1>4, <1>5, <1>6 DEF MigrationNext, RunSteps

\* The invariant of the migration runs holds in every state.
THEOREM MigrationInvariant == MigrationSpec => []MInv
PROOF
  <1>1. MigrationInit => MInv
    BY MigrationAssumption, InitiallyMigrated
  <1>2. MInv /\ [MigrationNext]_migrationVars => MInv'
    BY MigrationAssumption, MigrationStep
  <1> QED BY <1>1, <1>2, PTL DEF MigrationSpec

\* Only an application or a roll back writes the history.
LEMMA OnlyWorkWrites ==
  ASSUME MigrationAssumption, MInv, [MigrationNext]_migrationVars
  PROVE  RolledBackNewestFirst
PROOF
  <1>1. ASSUME UNCHANGED applied PROVE RolledBackNewestFirst
    BY <1>1 DEF RolledBackNewestFirst, Applied
  <1>2. ASSUME NEW p \in Processes, RollBack(p) PROVE RolledBackNewestFirst
    BY <1>2, RollBackKeeps
  <1>3. ASSUME NEW p \in Processes, Apply(p) PROVE RolledBackNewestFirst
    <2> DEFINE v == Oldest(process[p].todo)
    <2>1. process[p].todo \in SUBSET Versions /\ process[p].todo # {}
      BY <1>3 DEF Apply, MInv, MigrationTypeOK, Run
    <2>2. v \in process[p].todo
      BY <2>1, OldestIsLeast
    <2>3. v \notin Applied
      BY <1>3, <2>2 DEF Apply, MInv, PlansStandOnHistory
    <2>4. applied' = [applied EXCEPT ![v] = Build[p][v]]
      BY <1>3 DEF Apply
    <2> HIDE DEF v
    <2>5. \A w \in Versions \ {v} : applied'[w] = applied[w]
      BY <2>4 DEF MInv, MigrationTypeOK
    <2> QED BY <2>3, <2>5 DEF RolledBackNewestFirst, Applied
  <1> QED BY <1>1, <1>2, <1>3 DEF MigrationNext, RunSteps, migrationVars, StartRun,
          TakeLock, ReadHistory, FinishRun, Fail, Break

\* Whatever runs overlap and whichever connections break, a migration is applied
\* on all earlier ones of its build and rolled back before all earlier ones.
THEOREM HistoryStaysInOrder == MigrationSpec => HistoryInOrder
PROOF
  <1>1. MInv /\ [MigrationNext]_migrationVars => [AppliedOnItsOwnHistory]_migrationVars
    BY MigrationAssumption, ApplyKeeps DEF AppliedOnItsOwnHistory
  <1>2. MInv /\ [MigrationNext]_migrationVars => [RolledBackNewestFirst]_migrationVars
    BY MigrationAssumption, OnlyWorkWrites
  <1> QED BY <1>1, <1>2, MigrationInvariant, PTL DEF MigrationSpec, HistoryInOrder
---------------------------------------------------------------------------
\* The behaviours of MCRecovery.

\* A behaviour of the run is one of the pool and one of the migrations.
LEMMA RunStep ==
  ASSUME [MCNext]_allVars
  PROVE  [Next]_vars /\ [MigrationNext]_migrationVars
PROOF
  <1>1. CASE UNCHANGED allVars
    BY <1>1 DEF allVars, vars, migrationVars
  <1>2. ASSUME Next, UNCHANGED migrationVars PROVE [Next]_vars /\ [MigrationNext]_migrationVars
    BY <1>2
  <1>3. ASSUME MigrationNext, UNCHANGED vars PROVE [Next]_vars /\ [MigrationNext]_migrationVars
    BY <1>3
  <1>4. ASSUME UNCHANGED vars, UNCHANGED migrationVars
        PROVE  [Next]_vars /\ [MigrationNext]_migrationVars
    BY <1>4
  <1>5. CASE MCNext
    BY <1>2, <1>3, <1>4, <1>5 DEF MCNext
  <1> QED BY <1>1, <1>5

\* What the run checks of the database besides progress, for all values of its
\* constants: a migration keeps to its history, and with more connections than
\* requests not everybody waits.
THEOREM RecoveryRunIsSafe ==
  ASSUME IsFiniteSet(Requests), Cardinality(Requests) < PoolSize
  PROVE  MCSpec => HistoryInOrder /\ []NeverAllWait
PROOF
  <1>1. MCInit => Init /\ MigrationInit
    BY DEF MCInit
  <1>2. [MCNext]_allVars => [Next]_vars /\ [MigrationNext]_migrationVars
    BY RunStep
  <1>3. MCSpec => MigrationSpec
    BY <1>1, <1>2, PTL DEF MCSpec, MigrationSpec
  <1>4. PoolInv => NeverAllWait
    BY PoolAssumption, SpareConnectionLeft
  <1>5. Init => PoolInv
    BY PoolAssumption, InitiallyNothingLent
  <1>6. PoolInv /\ [Next]_vars => PoolInv'
    BY PoolAssumption, PoolStep
  <1>7. MCSpec => []PoolInv
    BY <1>1, <1>2, <1>5, <1>6, PTL DEF MCSpec
  <1> QED BY <1>3, <1>4, <1>7, HistoryStaysInOrder, PTL
=============================================================================
