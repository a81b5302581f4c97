--------------------------- MODULE ManagedModels ---------------------------
(***************************************************************************)
(* The model overrides of one workspace (managedmodel/service.go,          *)
(* server/models.go): the gateway lists the models, counts or looks for    *)
(* the override, writes with another upstream call, replaces a credential  *)
(* with a third, and records the success in its own audit table.           *)
(* Administrators work at once, a call may be refused, and a call the      *)
(* gateway gave up may be processed later.  A credential is told apart     *)
(* only by the endpoint it was given with.                                 *)
(***************************************************************************)
EXTENDS FiniteSets, Integers

CONSTANTS
  ModelRequests,  \* slots for requests in progress, or with a call on its way
  ModelIds,       \* ids the upstream gives to new models
  ModelUsers,     \* who may ask
  Managers,       \* owners and administrators of the workspace
  Endpoints,      \* base URLs of an approved provider and host
  MaxOverrides,   \* maxOverrides
  NoModel         \* no endpoint, no model

ASSUME ManagedModelsAssumption ==
  /\ NoModel \notin ModelIds /\ MaxOverrides \in Nat \ {0}
  /\ IsFiniteSet(ModelIds) /\ IsFiniteSet(ModelRequests)

VARIABLES
  models,  \* upstream: models[m]
  admin,   \* admin[r]: where request r is, with its locals
  mixed    \* history: models an update left, or may have, half written

modelVars == <<models, admin, mixed>>

ModelOperations == {"create", "update", "delete", "test"}
ModelPoints == {"idle", "list", "ensure", "write", "credential", "audit", "late",
                "answered"}
Answers == {"none", "ok", "quota", "not_found", "failed", "unaudited"}

Model == [born : BOOLEAN, live : BOOLEAN,
          endpoint : Endpoints \cup {NoModel}, credential : Endpoints \cup {NoModel}]
Admin == [pc : ModelPoints, op : ModelOperations, model : ModelIds \cup {NoModel},
          endpoint : Endpoints \cup {NoModel}, keyed : BOOLEAN,
          done : BOOLEAN, audited : BOOLEAN, answer : Answers]

UnbornModel ==
  [born |-> FALSE, live |-> FALSE, endpoint |-> NoModel, credential |-> NoModel]
NoAdmin == [pc |-> "idle", op |-> "test", model |-> NoModel, endpoint |-> NoModel,
            keyed |-> FALSE, done |-> FALSE, audited |-> FALSE, answer |-> "none"]

ModelsTypeOK ==
  /\ models \in [ModelIds -> Model]
  /\ admin \in [ModelRequests -> Admin]
  /\ mixed \subseteq ModelIds

ModelsInit ==
  /\ models = [m \in ModelIds |-> UnbornModel]
  /\ admin = [r \in ModelRequests |-> NoAdmin]
  /\ mixed = {}
---------------------------------------------------------------------------
ModelAt(r, pc) == admin[r].pc = pc

\* Writing is over: what happened stays, the request's locals do not.
ToAudit(r, done) ==
  admin' = [admin EXCEPT ![r] = [NoAdmin EXCEPT !.pc = "audit", !.done = done]]
Answer(r, answer) ==
  admin' = [admin EXCEPT ![r] =
    [NoAdmin EXCEPT !.pc = "answered", !.done = admin[r].done,
                    !.audited = (answer = "ok"), !.answer = answer]]

\* requireManager, and the operator's switch for overrides, which is on.
ModelAuthorized(user) == user \in Managers

Overrides == {m \in ModelIds : models[m].live}

\* validateInput: the endpoint is approved, and a new override has a key.
Valid(op, keyed) == op = "create" => keyed

StartModel(r, user, op, model, endpoint, keyed) ==
  /\ ModelAt(r, "idle")
  /\ ModelAuthorized(user)
  /\ Valid(op, keyed)
  /\ admin' = [admin EXCEPT ![r] =
       [NoAdmin EXCEPT !.pc = IF op = "create" THEN "list" ELSE "ensure", !.op = op,
                         !.model = model, !.endpoint = endpoint, !.keyed = keyed]]
  /\ UNCHANGED <<models, mixed>>

\* CreateOverride counts the overrides of the list.
QuotaLeft == Cardinality(Overrides) < MaxOverrides

CheckQuota(r) ==
  /\ ModelAt(r, "list")
  /\ IF QuotaLeft THEN admin' = [admin EXCEPT ![r].pc = "write"] ELSE Answer(r, "quota")
  /\ UNCHANGED <<models, mixed>>

\* ensureOverride looks for the model in the list.
EnsureOverride(r) ==
  /\ ModelAt(r, "ensure")
  /\ IF admin[r].model \in Overrides
       THEN admin' = [admin EXCEPT ![r].pc = "write"]
       ELSE Answer(r, "not_found")
  /\ UNCHANGED <<models, mixed>>

\* Between its two calls, an update of another request holds half of model m.
OthersHalfDone(r, m) ==
  \E o \in ModelRequests \ {r} : ModelAt(o, "credential") /\ admin[o].model = m

\* CreateModel stores endpoint and key; UpdateModel, sent without a key, stores
\* the endpoint; ReplaceModelCredential has a step of its own.
ModelProcessed(r, late) ==
  LET m == admin[r].model IN
  \/ /\ admin[r].op = "create"
     /\ \E n \in ModelIds :
          /\ ~models[n].born
          /\ models' = [models EXCEPT ![n] = [born |-> TRUE, live |-> TRUE,
               endpoint |-> admin[r].endpoint, credential |-> admin[r].endpoint]]
     /\ UNCHANGED mixed
  \/ /\ admin[r].op = "update" /\ models[m].live
     /\ models' = [models EXCEPT ![m].endpoint = admin[r].endpoint]
     /\ mixed' = IF ~admin[r].keyed \/ late \/ OthersHalfDone(r, m)
                   THEN mixed \cup {m} ELSE mixed
  \/ /\ admin[r].op = "delete" /\ models[m].live
     /\ models' = [models EXCEPT ![m] = [UnbornModel EXCEPT !.born = TRUE]]
     /\ mixed' = mixed \ {m}
  \/ /\ admin[r].op = "test" /\ models[m].live
     /\ UNCHANGED <<models, mixed>>

\* A slip: the key of an update is left to the first call, which carries none.
AfterWriteKeyless(r) == "audit"

\* After UpdateModel, a key that was given is stored with a second call.
AfterWrite(r) ==
  IF admin[r].op = "update" /\ admin[r].keyed THEN "credential" ELSE "audit"

WriteModel(r) ==
  /\ ModelAt(r, "write")
  /\ ModelProcessed(r, FALSE)
  /\ IF AfterWrite(r) = "audit"
       THEN ToAudit(r, TRUE)
       ELSE admin' = [admin EXCEPT ![r].pc = AfterWrite(r), ![r].done = TRUE]

\* The upstream refuses, or the model is gone; the failure is recorded.
ModelRefused(r) ==
  /\ ModelAt(r, "write") \/ ModelAt(r, "credential")
  /\ Answer(r, "failed")
  /\ mixed' = IF ModelAt(r, "credential") THEN mixed \cup {admin[r].model} ELSE mixed
  /\ UNCHANGED models

\* The gateway gives the call up, or dies: the caller knows nothing, the call
\* may still be processed.
GiveUp(r) ==
  /\ ModelAt(r, "write") \/ ModelAt(r, "credential")
  /\ admin' = [admin EXCEPT ![r].pc = "late", ![r].answer = "failed"]
  /\ mixed' = IF ModelAt(r, "credential") THEN mixed \cup {admin[r].model} ELSE mixed
  /\ UNCHANGED models

\* Late: the half that was on its way, told apart by what was done before.
LateWrite(r) ==
  /\ ModelAt(r, "late")
  /\ IF admin[r].done
       THEN /\ models[admin[r].model].live
            /\ models' = [models EXCEPT ![admin[r].model].credential = admin[r].endpoint]
            /\ mixed' = mixed \cup {admin[r].model}
       ELSE ModelProcessed(r, TRUE)
  /\ admin' = [admin EXCEPT ![r] = NoAdmin]

LateLost(r) ==
  /\ ModelAt(r, "late")
  /\ admin' = [admin EXCEPT ![r] = NoAdmin]
  /\ UNCHANGED <<models, mixed>>

ReplaceModelCredential(r) ==
  /\ ModelAt(r, "credential")
  /\ models[admin[r].model].live
  /\ models' = [models EXCEPT ![admin[r].model].credential = admin[r].endpoint]
  /\ mixed' = IF OthersHalfDone(r, admin[r].model)
                THEN mixed \cup {admin[r].model} ELSE mixed
  /\ ToAudit(r, TRUE)

\* record: without its success event the request ends with 503, though done.
RecordSuccess(r) ==
  /\ ModelAt(r, "audit")
  /\ Answer(r, "ok")
  /\ UNCHANGED <<models, mixed>>

AuditFails(r) ==
  /\ ModelAt(r, "audit")
  /\ Answer(r, "unaudited")
  /\ UNCHANGED <<models, mixed>>

CloseAnswer(r) ==
  /\ ModelAt(r, "answered")
  /\ admin' = [admin EXCEPT ![r] = NoAdmin]
  /\ UNCHANGED <<models, mixed>>

ModelSteps(r) ==
  \/ \E user \in ModelUsers, e \in Endpoints :
       \/ StartModel(r, user, "create", NoModel, e, TRUE)
       \/ \E m \in ModelIds, keyed \in BOOLEAN :
            StartModel(r, user, "update", m, e, keyed)
  \/ \E user \in ModelUsers, op \in {"delete", "test"}, m \in ModelIds :
       StartModel(r, user, op, m, NoModel, FALSE)
  \/ CheckQuota(r) \/ EnsureOverride(r) \/ WriteModel(r) \/ ReplaceModelCredential(r)
  \/ ModelRefused(r) \/ GiveUp(r) \/ LateWrite(r) \/ LateLost(r)
  \/ RecordSuccess(r) \/ AuditFails(r) \/ CloseAnswer(r)

ModelsNext == \E r \in ModelRequests : ModelSteps(r)

ModelsSpec == ModelsInit /\ [][ModelsNext]_modelVars
---------------------------------------------------------------------------
Passed ==
  {r \in ModelRequests : admin[r].op = "create" /\ admin[r].pc \in {"write", "late"}}

\* The quota is exceeded only by creations that were counted at once, and then
\* by no more than those: each slot still owes at most the one it was let make
\* (the list and the creation of CreateOverride are two calls).
OverridesPassedByRaceOnly ==
  Cardinality(Overrides) + Cardinality(Passed)
    <= MaxOverrides + Cardinality(ModelRequests) - 1

\* Endpoint and credential of a model come from one request, unless an update
\* gave no key, was cut short between its two calls, or met another one there
\* (UpdateOverride).
KeyMatchesEndpoint ==
  \A m \in Overrides \ mixed :
    \/ models[m].credential = models[m].endpoint
    \/ \E r \in ModelRequests : /\ ModelAt(r, "credential") /\ admin[r].model = m
                           /\ admin[r].endpoint = models[m].endpoint

\* What an administrator is told is so: "ok" means done, with its success in the
\* audit; an answer without the audit's event still means done; and a quota or a
\* model not found means that nothing was touched.
AnswersAreTrue ==
  \A r \in ModelRequests : ModelAt(r, "answered") =>
    /\ admin[r].answer \in {"ok", "unaudited"} => admin[r].done
    /\ admin[r].audited <=> admin[r].answer = "ok"
    /\ admin[r].answer \in {"quota", "not_found"} => ~admin[r].done

\* Administrators at once, with calls that are refused, given up or processed
\* late, leave what they were told: answers that are true, keys that belong to
\* their endpoints, and a quota that only a race passes.
OverridesAreAsAnswered ==
  KeyMatchesEndpoint /\ AnswersAreTrue /\ OverridesPassedByRaceOnly
---------------------------------------------------------------------------
\* What the locals of a request say at each of its points.
Knows(w) ==
  /\ w.pc = "list" => w.op = "create"
  /\ w.pc = "ensure" => w.op # "create"
  /\ w.pc \in {"ensure", "write", "credential", "late"} /\ w.op # "create"
       => w.model \in ModelIds
  /\ w.pc \in {"list", "ensure", "write"} => ~w.done
  /\ w.pc = "audit" => w.done
  /\ w.pc = "credential" \/ (w.pc = "late" /\ w.done) => w.op = "update"
  /\ w.pc = "answered" =>
       /\ w.answer \in {"ok", "unaudited"} => w.done
       /\ w.audited <=> w.answer = "ok"
       /\ w.answer \in {"quota", "not_found"} => ~w.done

RequestsKnow == \A r \in ModelRequests : Knows(admin[r])

\* Ids are not given twice.
LiveIsBorn ==
  /\ \A m \in ModelIds : models[m].live => models[m].born
  /\ \A r \in ModelRequests : ModelAt(r, "credential") => models[admin[r].model].born

\* An update between its two calls was the last to write the endpoint.
HalfDoneIsLast ==
  \A r \in ModelRequests :
    ModelAt(r, "credential") /\ admin[r].model \in Overrides \ mixed
      => models[admin[r].model].endpoint = admin[r].endpoint

\* The inductive invariant of the proofs.
ModelsInv ==
  /\ ModelsTypeOK /\ RequestsKnow /\ LiveIsBorn /\ HalfDoneIsLast
  /\ KeyMatchesEndpoint /\ OverridesPassedByRaceOnly
=============================================================================
