----------------------------- MODULE Migrations -----------------------------
(***************************************************************************)
(* The product's database migrations (database/runner.go, cmd/gateway      *)
(* main.go handleMigrationCommand).  Gateways of several builds start, and *)
(* operators run `migrate up`, `down` and `status`, on one database.  A    *)
(* run takes the advisory lock on a connection of its own, reads the       *)
(* history once, and then changes one migration per transaction.  Its      *)
(* connection may break at any point: the database drops the lock with the *)
(* session, and the run fails at its next statement.                       *)
(***************************************************************************)
EXTENDS Integers, FiniteSets

CONSTANTS
  Processes,   \* one build each; a process may run again
  Latest,      \* the last migration version any build has
  Build,       \* Build[p]: the checksums of the migrations embedded in p
  Nobody       \* no holder of the lock, and no migration

Versions == 1..Latest

ASSUME MigrationAssumption ==
  /\ Latest \in Nat
  /\ Nobody \notin Processes
  /\ \A p \in Processes : DOMAIN Build[p] \subseteq Versions
  /\ \A p \in Processes : \A v \in DOMAIN Build[p] : Build[p][v] # Nobody

VARIABLES
  applied,     \* schema_migrations: applied[v], a checksum or Nobody
  holder,      \* whose session has the advisory lock
  process      \* process[p]: where its run is, with its locals

migrationVars == <<applied, holder, process>>

Checksums == UNION {{Build[p][v] : v \in DOMAIN Build[p]} : p \in Processes}
NoRun == [pc |-> "idle", op |-> "up", steps |-> 0, todo |-> {}]

Run == [pc : {"idle", "locking", "reading", "working", "broken"}, op : {"up", "down"},
        steps : 0..Latest, todo : SUBSET Versions]

MigrationTypeOK ==
  /\ applied \in [Versions -> Checksums \cup {Nobody}]
  /\ holder \in Processes \cup {Nobody}
  /\ process \in [Processes -> Run]

MigrationInit ==
  /\ applied = [v \in Versions |-> Nobody]
  /\ holder = Nobody
  /\ process = [p \in Processes |-> NoRun]
---------------------------------------------------------------------------
In(p, pc) == process[p].pc = pc
End(p) == /\ process' = [process EXCEPT ![p] = NoRun]
          /\ holder' = IF holder = p THEN Nobody ELSE holder

Applied == {v \in Versions : applied[v] # Nobody}
Newest(versions) == CHOOSE v \in versions : \A w \in versions : w <= v
Oldest(versions) == CHOOSE v \in versions : \A w \in versions : v <= w

\* Up when the gateway starts or on command, Down with a positive count.
StartRun(p, op, steps) ==
  /\ In(p, "idle")
  /\ process' = [process EXCEPT ![p] =
       [NoRun EXCEPT !.pc = "locking", !.op = op, !.steps = steps]]
  /\ UNCHANGED <<applied, holder>>

\* A slip: runs do not wait for each other.
TakeLockHeld(p) ==
  /\ In(p, "locking")
  /\ holder' = p
  /\ process' = [process EXCEPT ![p].pc = "reading"]
  /\ UNCHANGED applied

\* withLock: pg_advisory_lock waits for the session that has it.
TakeLock(p) ==
  /\ In(p, "locking")
  /\ holder = Nobody
  /\ holder' = p
  /\ process' = [process EXCEPT ![p].pc = "reading"]
  /\ UNCHANGED applied

\* Up stops at a version that was applied from another text; what comes before
\* it is applied all the same.
Changed(p) == {v \in DOMAIN Build[p] : applied[v] \notin {Nobody, Build[p][v]}}

ToApply(p) ==
  {v \in DOMAIN Build[p] \ Applied : \A w \in Changed(p) : v < w}

\* Down takes the newest `steps` of the applied ones, known to p or not.
ToRollBack(steps) ==
  {v \in Applied : Cardinality({w \in Applied : w >= v}) <= steps}

ReadHistory(p) ==
  /\ In(p, "reading")
  /\ process' = [process EXCEPT ![p].pc = "working", ![p].todo =
       IF process[p].op = "up" THEN ToApply(p) ELSE ToRollBack(process[p].steps)]
  /\ UNCHANGED <<applied, holder>>

\* applyMigration: the SQL and its row, one transaction, ascending order.
Apply(p) ==
  /\ In(p, "working") /\ process[p].op = "up" /\ process[p].todo # {}
  /\ LET v == Oldest(process[p].todo) IN
       /\ applied' = [applied EXCEPT ![v] = Build[p][v]]
       /\ process' = [process EXCEPT ![p].todo = @ \ {v}]
  /\ UNCHANGED holder

\* rollbackMigration, newest first.
RollBack(p) ==
  /\ In(p, "working") /\ process[p].op = "down" /\ process[p].todo # {}
  /\ LET v == Newest(process[p].todo) IN
       /\ v \in DOMAIN Build[p]
       /\ applied' = [applied EXCEPT ![v] = Nobody]
       /\ process' = [process EXCEPT ![p].todo = @ \ {v}]
  /\ UNCHANGED holder

\* A slip: the lock stays with its session when the run is done.
FinishRunLocked(p) ==
  /\ In(p, "working")
  /\ process[p].todo = {}
  /\ process' = [process EXCEPT ![p] = NoRun]
  /\ UNCHANGED <<applied, holder>>

\* Done, or stopped at a migration to roll back that p does not know; the
\* deferred unlock and Close give lock and connection back.
FinishRun(p) ==
  /\ In(p, "working")
  /\ process[p].todo # {} =>
       process[p].op = "down" /\ Newest(process[p].todo) \notin DOMAIN Build[p]
  /\ End(p)
  /\ UNCHANGED applied

\* The connection breaks, or the SQL of a migration fails.
Break(p) ==
  /\ process[p].pc \in {"locking", "reading", "working"}
  /\ holder' = IF holder = p THEN Nobody ELSE holder
  /\ process' = [process EXCEPT ![p] = [NoRun EXCEPT !.pc = "broken"]]
  /\ UNCHANGED applied

Fail(p) ==
  /\ In(p, "broken")
  /\ End(p)
  /\ UNCHANGED applied

RunSteps(p) ==
  TakeLock(p) \/ ReadHistory(p) \/ Apply(p) \/ RollBack(p) \/ FinishRun(p) \/ Fail(p)

MigrationNext ==
  \E p \in Processes :
    \/ StartRun(p, "up", 0)
    \/ \E steps \in 1..Latest : StartRun(p, "down", steps)
    \/ RunSteps(p)
    \/ Break(p)

MigrationSpec == MigrationInit /\ [][MigrationNext]_migrationVars

\* The database answers and serves the lock in the order of the waiting.
MigrationFairness ==
  \A p \in Processes :
    /\ SF_migrationVars(TakeLock(p))
    /\ WF_migrationVars(ReadHistory(p) \/ Apply(p) \/ RollBack(p) \/ FinishRun(p) \/ Fail(p))
---------------------------------------------------------------------------
\* A migration is applied only on top of all earlier ones of the same build,
\* with the text that build has (Up, under the lock).
AppliedOnItsOwnHistory ==
  \A p \in Processes :
    Apply(p) =>
      \A v \in Applied' \ Applied : \A w \in DOMAIN Build[p] :
        w < v => applied[w] = Build[p][w]

\* Nothing is rolled back from under a later migration (Down, under the lock).
RolledBackNewestFirst ==
  \A v \in Applied \ Applied' : \A w \in Applied : w <= v

\* Whatever builds migrate up and down at once and wherever their connections
\* break, the history stays one that each migration could be applied and rolled
\* back in.
HistoryInOrder == [][AppliedOnItsOwnHistory /\ RolledBackNewestFirst]_migrationVars

\* A run of a process, started or waiting for others, ends.
EveryRunEnds == \A p \in Processes : In(p, "locking") ~> In(p, "idle")

\* Inductive: whoever reads or works has the lock, and what a run has still to
\* do stands on what it read, since nobody else writes the history.
WorkersHaveTheLock ==
  \A p \in Processes : process[p].pc \in {"reading", "working"} => holder = p

PlansStandOnHistory ==
  \A p \in Processes : In(p, "working") => \A v \in process[p].todo :
    /\ process[p].op = "up" =>
         /\ v \in DOMAIN Build[p] \ Applied
         /\ \A w \in DOMAIN Build[p] :
              w < v => w \in process[p].todo \/ applied[w] = Build[p][w]
    /\ process[p].op = "down" =>
         /\ v \in Applied
         /\ \A w \in Applied : v <= w => w \in process[p].todo

MInv == MigrationTypeOK /\ WorkersHaveTheLock /\ PlansStandOnHistory
=============================================================================
