# MindCreek gateway: a TLA+ verification project

The gateway (`services/gateway`, Go) stands between the employees of an
enterprise and a private upstream, WeKnora v0.8.0, a knowledge-base server that it does not
change. It installs the upstream once, signs employees in through the corporate identity
provider, puts them into a default space, decides which upstream routes they may reach,
and adds what the upstream lacks (an assistant, managed models, MCP tools, a graph
view; and, in the composition before that, spaces, notes, ingestion, sharing,
publications and subscriptions). PostgreSQL keeps its own rows; the upstream keeps accounts, spaces, memberships,
keys, documents and sessions, and is reached by REST calls that cannot be part of a
database transaction. Most of what is hard in this code follows from that.

Paths below are relative to `services/gateway/internal/`.

## The system

| Component | State | Operations | Talks to | What makes it correct |
| --- | --- | --- | --- | --- |
| Enterprise install (`enterprise/service.go`, `workspace.go`, `recovery.go`, `cmd/gateway/install.go`, `scripts/r2-install.sh`) | one row: stage, admin, default space, member key; a secret file | prepare, confirm, default space, repair key | upstream accounts, spaces, keys, settings | creates nothing twice, never loses what it created, `ready` means complete, always completable |
| Onboarding (`enterprise/onboarding.go`, `store.go`) | a row for each employee: state, unknown outcome, completed | GET, POST | identity rows, upstream members | joins once, never undoes a completion, does not add a removed employee, gets everybody in |
| Locks and pool (`enterprise/store.go`, `database/runner.go`) | session advisory locks, ten connections | WithLock, queries | PostgreSQL | exclusion, and every request ends |
| Identity broker (`identity/broker.go`, `repository.go`, `admin.go`) | transactions, codes, tokens in memory; identity rows; audit | authorize, callback, token, userinfo, ChangeStatus | browser, corporate provider, upstream OIDC client | a sign-in gives one code and token, a suspended employee gets none, everything is audited |
| Identity gate (`identity/gate.go`, `repository.go` BindLocal) | binding of identity and account | check a request, bind | upstream principal | one identity, one account |
| Enterprise HTTP surface (`server/enterprise.go`, `enterprise/admin.go`, `login_retry.go`) | login limiter in memory | employee gate, administrator login | onboarding, identity | no route before onboarding, limited attempts |
| Native access (`nativeaccess`) | session owners and what each session was asked with | decide a route, check and bind a session | upstream | only permitted routes, only own sessions, nothing of what was withdrawn |
| Assistant (`assistant`, `server/agent.go`) | sessions, scopes, request windows, audit | create, ask, proxy | upstream sessions | scope within access, rate kept, every question audited |
| Managed models (`managedmodel`) | quota, audit | create, update, delete, test | upstream models | quota kept, no half update unnoticed |
| MCP (`mcp`), graph view (`graphview`), capabilities, observability | limiter; none | tools, reads | upstream, Neo4j | bounded and read only |
| Migrations (`database/runner.go`) | schema table, advisory lock | up, down, status | PostgreSQL | each applied on its own history, rolled back newest first, every run ends |
| Personal spaces (`space`, `profile`, `preset`) | request rows with idempotency keys, profiles | create, list | upstream knowledge bases | one space for each key, true answers, every retry succeeds |
| Notes (`note`, `notespolicy`) | revisions of each note | create, update, restore, read, delete | upstream documents | a true and complete history, quota kept but for races |
| Ingestion (`ingestion`), revisions (`revision`) | content revision and events of each base | upload, get, retry, cancel, delete | upstream | each change counted, or its failure known |
| Grants, publications, subscriptions, catalog, library | rows with versions and states | share, publish, subscribe | each other | no access after withdrawal, no dead subscription |
| Access gate (`access`) with `authorization`, `ownership`, `routeaction`, `agentscope`, `sessionscope` | scope rows of sessions; else pure over the rows above | collect, decide, record, forward, filter | all | what is forwarded was allowed since the request came |

Client, configuration, diagnostics and error formatting keep no state.
Everything else (compose files, scripts run by hand, front-end overlays, release, import and evidence
tools) is listed in `PROJECT.json` with the reason it is left out.

How they interact. An employee's request passes the enterprise surface (identity, onboarding),
then native access, then one of the services or the reverse proxy. The broker hands an
identity to the upstream, which makes a local account; the gate binds the two; onboarding adds
the account to the default space with the member key that the installer left in a file.
There are no queues and no background workers: concurrency is that of HTTP handlers, of the
installer's commands, and of several gateway processes on one database; locks are PostgreSQL session
locks, row locks and one mutex in the broker. Failure is a handler that ends early (a crash, a
cancelled request, an error), an answer that never arrives, a lost connection.

The hard behaviours, line by line, are the `hazards` of `PROJECT.json`. They fall in six groups: an
upstream POST between two saves; a check made before a lock, a wait or a call and used
after it; two writes of which the second may fail; a resource held while waiting for another;
in-memory state lost with the process; a window or a quota at its edge.

## What is modelled

| Module | Models | State and its code |
| --- | --- | --- |
| `CreateOnce` | abstract: things created in an order, each announced, requested at most once, settled | `phase` |
| `Installation` | the installer, the upstream, the operator | `install` is the row, `secret` the key file, `run` the locals and position of the run that holds the lock, `astray` the runs that lost it and have not noticed, with theirs, `wire` and `posts` the requests under way, the rest the upstream |
| `InstallRecovery` | the same, driven by the guide | guide steps of `deploy/r2/README.md` and `r2-install.sh` |
| `Onboarding` | one employee, concurrent requests | `record` the row, `lock` whose connection holds the session lock, `joinReq` the locals of `Service.Onboarding`, `post` its members POST, `member`, `active` the outside |
| `OnboardingRecovery` | the same with retries and the Owner's repair | `joinFaults` |
| `ConnectionPool` | connections and locks of onboarding requests | `pc`, `lock`; `InUse` counts the pool |
| `Migrations` | runs of several builds on one database | `applied` is `schema_migrations`, `holder` the advisory lock, `process` the plan of a run |
| `SignInStages` | abstract: a sign-in is begun, called back, audited, granted a code, exchanged, held or lost | one set for each stage |
| `IdentityBroker` | the broker's three maps, its handlers, the row, the administrator | `transactions`, `codes`, `tokens` the maps; `callback`, `exchange` the handlers between two holds of the mutex; `identity`, `audited` the database |
| `SignInRecovery` | the same with a persistent employee | `faults` |
| `EmployeeGate` | the checks before every request, in both deployments (`CheckEmployee`, `Gate.Check`) | `employee` the identities with their binding, `alias` and `account` the upstream accounts, `onboarded` the completed rows, `req` a request between its statements |
| `LoginLimiter` | the table of administrator logins | `attempts` the table, `now` the clock, `passed` what got through |
| `SessionScope` | sessions of one upstream user: main site, assistant channels, MCP questions | `binding` the rows of `native_session_bindings` and `assistant_sessions`, `req` the locals of a request from `ResolveActor` to the filtered answer, `access`, `session`, `history`, `work` the upstream |
| `RateWindow` | the minute and day budgets of a channel (`Take`) | `used` is `assistant_rate_windows`, `take` the open transactions with their `now()`, `asked` the questions let through |
| `KeyedCreation` | abstract: an idempotency key is claimed once; what it stands for is asked for, made, reported | `claims`, `asked`, `made`, `told` |
| `SpaceCreation` | all requests with one idempotency key | `row` of `knowledge_space_requests`, `prof` of `kb_profiles`, `req`, `wire` the creation POSTs, `kb` the upstream |
| `SpaceRecovery` | the same with a client who repeats | `faults` |
| `Notes` | the notes of one space | `note` the upstream, `revisions` the rows of `note_revisions`, `edit` the requests, with what they have counted of the list |
| `Ingestion` | documents and content revisions of some bases | `bases`, `doc` the upstream, `revision`, `events` the rows of `kb_content_revisions` and `kb_activity_events`, `work` the requests |
| `ManagedModels` | the model overrides of one workspace | `models` the upstream, `admin` the requests with the answers they gave |
| `Publications` | the publication of one base and its subscriptions | `pub`, `sub` the rows, `tab` requests of the owner, `visit` of subscribers |
| `Grants` | the grants of one base | `grants` the rows, `sharing` requests of the owner, `clock` |
| `AccessGate` | the gate between an employee and the upstream | `grant`, `listing`, `subscribed` what its queries find, `scope` the rows of `session_kb_scopes`, `req`, `content` the upstream session |

A handler is cut at every point where something else can happen: a database statement, an
upstream call, the end of a hold of the mutex. What it does between two such points is one
action. Definitions marked "A slip" are not part of any specification: each is what the definition
after it would be with a plausible mistake, and shows that a property notices.

What the models leave out, and why it does not matter to the properties:

- *Installation.* A run whose lock connection breaks goes on until its next save, which fails on that
  connection: `LoseLock` takes the lock from it, and as one of `astray` it still sends its POST or writes the secret
  file, while the next run works. Where nothing of that kind can follow (it awaits an answer that it will not be able to save, or what is left
  only reads), losing the lock is the same as dying. Two runs astray with the same locals are one, and
  the key a run astray was told to adopt, which it will not come to use, is dropped. The checks of the configured e-mail and URL only refuse. Registering
  with a tenant (`DEFAULT_TENANT_MODE` other than tenantless) is a dead end on purpose:
  the code refuses it and the guide does not mend it, so the recovery run excludes it.
  Files hold the token of a key, named by the key.
- *Onboarding.* Installation is complete and the identity bound. Request slots are used again
  only when the last POST of the slot has been processed, which limits the POSTs under way to
  the number of slots. Each employee has a lock and a row of its own, so one is enough.
- *ConnectionPool.* Clients wait for their answer, as they do when neither they nor the
  server have a timeout; other routes, which use the pool for single queries, are left out.
- *Migrations.* The SQL of a migration is its version and a text; a run whose connection
  breaks keeps its process and fails at its next statement. Status only reads.
- *IdentityBroker.* One employee and one browser, whose tabs share the cookie; the state parameter is
  required. An expired entry is an absent one. The provider's errors are one `Fail`.
- *EmployeeGate.* The installation is ready, and the whole of `Onboarding` is one step, `Complete`. A
  removed account leaves its alias free, and the next sign-in makes another one with it.
- *LoginLimiter.* Time passes in ticks; a restart, which empties the table, and the wait for the mutex
  are left out.
- *SessionScope.* The upstream refuses other users itself, so the credentials are those of one user: the
  person and the API keys, which the upstream does not tell apart and the gateway must. What only
  refuses a request is one `Fail` (audit, rates, models, the channel's own scope, the reference
  filter). An answer, or a reading, may repeat the whole history: the gateway cannot look into
  prose. Rechecking takes the knowledge bases in any order, one upstream call each. The lists of sessions
  check each session in the same way and are left out.
- *RateWindow.* No transaction stays open for a day, after which its windows would be deleted under it
  (the guard of `Tick`); the row lock of the channel makes counting one step.
- *SpaceCreation.* One key of one owner, as keys do not interact. A specification is the kind and the
  vision model, which is what profiles are compared by and, for documents and notes alike, the base that is
  looked up again; name and description are the
  upstream's. A client may ask again under the key with anything.
- *Notes.* The editor names a version; what it saw is `expected`. A write that was given up may be processed
  whenever its slot is still in use. Texts are told apart by name and size.
  The quota is counted page by page, an upstream call for each; the order of the list is the upstream's
  and any (`Rank`), with new notes anywhere in it.
- *Ingestion.* The upstream's parsing is an action of its own. The proxied requests are those that the gate counts when their
  answer passes: the edit of a document, its move, a change of a base (its entries, tags, configuration), and its
  deletion. What they count is settled by the lookup before they are forwarded. One that names several
  documents is left out; it counts the bases of all of them once.
- *ManagedModels.* A credential is told apart by the endpoint it was given with. Reading the
  models and counting them is one step, as in the code; the next call is another.
- *Publications, Grants.* The audit row that a change writes in its own transaction is left out. A publication
  is seen from a workspace; the audience is a set of workspaces, and that of the
  organization is the set of all. Each user has one subscription row and each request a
  tenant. The revision a subscriber has seen (`MarkSeen`, which only moves it on, and shows a badge), display names, paging and searching are left out.
- *AccessGate.* One employee and one session. The routes of the inventory are represented by what they ask for:
  a conversation, a search, the messages of a session, five actions on one base, a list. Grants, listings and
  subscriptions change in one step each, by whatever `Grants` and `Publications` do.

`barred`, `issued`, `redeemed`, `signedIn` and `removed` (in Onboarding), `lost`, `readers`, `through`, `passed`,
`asked` (RateWindow), `posted`, `answered`, `announced`, `wrote`, `raced`, `shifted`, `blurred`, `changes`, `uncounted`, `extra`,
`moved`, `astray` (in Ingestion), `mixed`, `withdrawn`, `joined`, `stale`, `interrupted`, `since` and `before` are history: nothing
reads them but the properties, other history and the bounds.

## What the runs show

Several small components share a run. Such an MC module has a variable `subject` which is chosen at
first and says which component the behaviour is about; the others rest in their initial
states. The state space is the sum of theirs, not the product. Their properties are grouped by what they
promise; the comment at each names its parts.

| Run | Instances | Shows |
| --- | --- | --- |
| `installation` | 2 spaces, 2 keys, 1 file, 1 run that dies or loses the lock | `ReadyIsComplete`, `RecordOnlyGrows`, and `CreatesOnce`: the installer implements `CreateOnce` |
| `install_key` | as `installation` | violated: `ReadyKeyIsChecked` (finding 1) |
| `onboarding_removal` | 3 concurrent requests, faults without bound | violated: `RemovedStaysOut` (finding 2) |
| `pool_exhausted` | 3 requests, 2 employees, 3 connections | violated: `EveryRequestReturns` (finding 3) |
| `identity_broker` | onboarding with 3 concurrent requests, faults without bound; 3 sign-ins, 2 callbacks and 2 token requests at once; a gate with 2 requests, 1 identity, 4 accounts; 3 addresses, room for 2, a limit of 2 in 2 ticks | `OneOutstanding`, `OutstandingIsRecorded`, `CompletionFinal`; `SignInsMoveForward`: the broker implements `SignInStages`; `OneTokenPerSignIn`, `SuspendedGetsNoCode`; `AccountsAreBound`, `SuspensionReachesRequests`; `LoginsAreLimited` |
| `identity_audit` | as `identity_broker` | violated: `ChangesAreRecorded` (finding 4) |
| `recovery` | an installation with 3 runs that die or lose the lock; onboarding with 2 requests and 3 faults; sign-in with 2 tabs and 4 faults; a creation of any kind with 2 attempts and 3 faults; a pool with 3 requests and 4 connections; 3 builds of 3 migrations that differ in one or lack it | `EveryInstallCompletes`, `EmployeeGetsIn`, `EveryRetrySucceeds`, `EveryWaiterHasItsTurn` (pool and migrations), all under fairness; `NeverAllWait`; `HistoryInOrder` |
| `notes_creation` | a creation of any kind with 2 attempts, 2 drawn ids and 2 faults, repeated | violated: `EveryCreationSucceeds` (finding 6) |
| `content` | 2 requests with one key, 2 drawn ids; 2 requests on 1 note of 3 versions; 2 requests that fill a space of 2 notes with up to 4, counted in pages of 1; 2 requests on 1 document and 2 bases; 2 requests on 3 models, 1 override allowed | `KeyStandsForOneSpace`: a creation implements `KeyedCreation`; `AnswersAreKept`; `HistoryIsKept`; `QuotaExceededByRaceOnly`; `RevisionsAccountForChanges`; `OverridesAreAsAnswered` (their quota too) |
| `sharing` | 2 tabs, 1 subscriber's request, 2 workspaces, 3 versions; 2 tabs on the grants of 1 user, 2 ids, 3 revisions; a gate with 2 requests on 1 base and with 1 request on 2, 3 changes | `SubscriptionsEndWithTheirAudience`, `DeletionFollowsUnpublishing`, `EditsBuildOnWhatTheySaw`; `GrantsChangeAsAsked`; `ForwardedOnWhatHeld` |
| `unpublish` | as `sharing` | violated: `SubscriptionsEndWithPublication` (finding 5) |
| `session_scope` | 2 requests, 1 session, a person and a key, 1 channel, 1 knowledge base whose shares change without bound; questions of 2 users in 3 days of 2 minutes | `RevocationReachesHistory`, `BindingCoversHistory`, `OnePrincipalPerSession`, `BindingsOnlyGrow`; `BudgetsAreKept` |

Each passing run checks the types of its components as well (`TypeOK`, `AllTypesOK`).

Why the bounds are enough. The installer needs two of a thing to confuse them: one that its POST
made and one made by hand, or the recorded key and another. One run that dies or loses the lock leaves every
intermediate record behind, because the record alone survives, and every POST still to be sent while the next run works; three
allow one in each of the three creations. Two requests show every race for the lock and a third one enters after a
lost lock. The pool hazard needs as many requests as connections, whatever their number: three stand for
the ten of `SetMaxOpenConns(10)`. In the broker two tabs compete for a cookie and a
third sign-in is left over; two handlers compete for a transaction and for a code. At the gate three
accounts take turns with one alias. In a session
one request reads while another asks, in every order; two credentials and two ways in are what
can be confused. Each knowledge base is checked, bound and answered from on its own, so one shows the
races of a share; any number of them is left to the proof, except in the gate, where two are
decided one after the other. Content: a lost update takes two requests, a third version shows what
becomes of what was written over; a quota of two is passed by two requests, and pages of one let a
count meet a list that changes under it; the run reaches one blurred check and a third note, and not more bytes than its bound
without that check, which is left to the theorem. Sharing: two tabs and three versions let one request
be overtaken by a change and its reversal. Three builds let one of them lack what another has and a third
disagree with both. The limiter's clock shows three windows, so that the end of one and the start of
the next lie in one minute. The bounds named in the modules (`MaxAborts`, `MaxFaults`, `MaxVersion`, `MaxTime`,
`MaxRevision`, `MaxChanges`, `MaxLost`, `MaxExtra`, `MaxJoinFaults`, `Latest`) stand in guards; the safety runs of Onboarding, IdentityBroker, EmployeeGate,
SessionScope and SpaceCreation need none, as their states are finite. Slots, ids and sign-ins are
interchangeable, and symmetry is used in the runs that check no liveness.

Deadlock is checked except in five runs. In `recovery` and `notes_creation` a completed installation or creation may rest. In
`sharing` and `unpublish` a base that is deleted and whose tabs are closed may rest, or one at the bound of its
versions. In `pool_exhausted` it is the point that everything stops.

Fairness. The safety runs assume none. The liveness properties of `recovery` state theirs as a premise, the fairness
formula of the module each is from: that a handler or run that was
started goes on (weak fairness of its steps: goroutines are scheduled, calls return or
fail), that PostgreSQL's lock queue and the pool serve every waiter in order of arrival (strong
fairness of `Acquire`, `TakeLock` and of the pool's steps, which others disable again and again),
that the upstream answers what it accepts, and that the employee, client, Owner, administrator
or operator repeats what the guide or the front end has them repeat (strong fairness of
whole commands: an attempt may be overtaken, not for ever). Faults have no fairness and are
bounded; the adversary spends them when it hurts most. Broken connections of migrations are not
even bounded: a run that is broken has ended. The recovery of the
installer assumes that nobody transfers the space or revokes the key before it is ready, that of a
creation that nobody deletes the base.

## Findings

1. `install_key`: a run that resumes with a recorded key tests only that the token in the file can list
   members (`enterprise/workspace.go:226`); the plan and the deployment guide say that
   the credential has only `manage_members` and is verified.
2. `onboarding_removal`: the design says that a login never adds back an employee whom an Owner removed.
   That is so only after the employee's own onboarding completed (`enterprise/onboarding.go:102`).
3. `pool_exhausted`: the lock holder needs a second connection (`enterprise/onboarding.go:66`, reading
   the identity through the pool) that the waiters for locks may have taken. `StuckOnLocksOnly` proves that there is no
   other way to stand still, and `LargePoolNeverStuck` that it takes as many requests at once as there are connections
   (ten, `database/runner.go:55`): nine never do it.
4. `identity_audit`: a change of status whose audit event fails stays in force unrecorded
   (`identity/admin.go:26`).
5. `unpublish`: a subscriber who looked at the publication before it was unpublished writes an active
   subscription after the others were ended (`subscription/service.go:82`); the design says that
   unpublishing makes its subscriptions inactive. The row gives no access until the base is published again, and
   then it does.
6. `notes_creation`: a space for notes that is asked for while there is a managed vision model is created upstream and never
   reported: the row has the model, the base has vision off, and looking the base up again compares the two
   (`space/service.go:283`). Every retry ends in `space.reconciliation_conflict`, where the plan has "partial failure reconciles
   safely" (`docs/archive/phase1/PHASE1_IMPLEMENTATION_PLAN.md:55`). `EveryRetrySucceeds` leaves these spaces out by name (`NotesWithVision`)
   and shows that all others come through.

Smaller observations have no run of their own:

- Two editors of the same version of a note can both
  succeed (`note/service.go:182`), where `docs/archive/phase1/PHASE1_GATE_C.md:16` has "stale version edits stop
  without upstream mutation"; `HistoryIsKept` says what is nevertheless true.
- The quota of notes can be passed by more than what requests at once explain: notes that move between the pages of a count, because
  others are written or deleted meanwhile, are missed by it (`note/service.go:360`). `QuotaExceededByRaceOnly` allows one note's bytes
  for each check that was blurred in this way and was wrong (`blurred`), and a single writer can bring about several.
- Reading a single document counts as a
  change of its base (`ingestion/service.go:140`), which subscribers are then told of, where
  `docs/archive/design/overall-design-v0.7.md:622` has the revision increment "when a user-visible KB state
  changes", and so do edits and copies that leave a base as it was; `RevisionsAccountForChanges` counts these separately (`extra`).
- A document that is moved between the gate's lookup and the upstream's edit is edited on the account of the base it has left
  (`access/gate.go:730`): that base's revision rises and the other's does not (`astray`).
- An installer that has marked the space and lost its lock connection still sends its POST (`enterprise/workspace.go:124`). If an
  operator adopts a space made by hand in between, there are two, of which the record names one. No creation is sent twice
  (`CreatesOnce`), and yet `docs/OVERALL_DESIGN.md:71` has "Serialize installation operations and reconcile interrupted calls before
  retries".
- Between the unpublishing and the upstream deletion of a base another tab may publish it again, so that a published base is deleted, where
  `docs/archive/design/overall-design-v0.7.md:273` has the deletion remove "publication visibility first" and
  the comment at `publication/service.go:223` says "before the upstream asynchronous KB deletion pipeline is allowed to start".
  `DeletionFollowsUnpublishing` says what is true: it was unpublished, and its subscriptions ended, after the
  deletion had read it (or it was not published when the deletion read it).

## What is proved

TLAPS checks these for all values of the constants (any number of spaces, keys, files, requests, sign-ins,
dying runs, builds, connections, bases, notes, tabs, addresses, any windows, limits and quotas), under the named assumptions only: that
the "nothing" value is not one of the others (`NothingAssumption` and those like it), that bounds, limits and sizes are numbers
and the sets that are counted are finite (`NotesAssumption`, `IngestionAssumption`, `ManagedModelsAssumption`, `LoginsAssumption`,
`GrantsAssumption`, `PublicationsAssumption`, `RateAssumption`, `PoolAssumption`), that a minute, a day or a window is not empty, and that builds embed versions up to `Latest`
(`MigrationAssumption`). The bounds that stand in guards (`MaxVersion`, `MaxChanges`, `MaxTime`) are arbitrary too.

Every invariant and every action property of a passing run is a theorem, and so are the three refinements. The proof modules
about several components extend the MC module of their run and say that a behaviour of the run is one of each component
(`ComponentsBehave`, and `RecoveryRunIsSafe` for pool and migrations), so that the theorems about the components are about the
run; with it `AllTypesOK` is proved as the run states it.

The recovery modules, which add faults, repetitions and the guide to say liveness, take only steps of the components they
extend (`GuidedIsNext`, `RecoveryIsNext` and those like them), so what is proved of the components holds while faults are
repaired: `RecoveredInstallIsSafe`, `RepairedOnboardingIsSafe`, `RepeatedSignInIsSafe`, `RepeatedCreationIsSafe`. A repetition
that reached its goal by creating twice would satisfy the liveness properties and not these.

- `InstallationProofs`: types, `AtMostOnePost`, `EveryPostIsMarked`, `ReadyIsComplete`, `RecordOnlyGrows`
  and the refinement of `CreateOnce`. The inductive invariant `IInv` adds what a single state does not tell: the
  position of a run determines the stage it saved last (`RunMatchesStage`), so a run about
  to POST is the first (`FirstPost`), also when it has lost the lock: the next run finds the marker and does
  nothing but adopt, so that the one astray alone sends that POST (`FirstPostAstray`); the stage tells which parts are recorded
  (`StageMatchesRecord`); a run past the settings loop has written them all (`SettingsWritten`). For the
  refinement each creation is in a phase computed from record and POST count, and
  every step leaves the phases alone or moves one of them one step on.
- `OnboardingProofs`: types, `OneOutstanding`, `OutstandingIsRecorded`, `CompletionFinal`. `OInv` adds that the
  row read under the lock is still true while the lock is held (`RowIsFresh`), and that a
  request that still has the lock owns every POST under way (`SoleJoin`): a request that
  lost its lock can neither save nor announce, so whoever enters next finds the announcement.
- `DatabaseProofs`: types and `PoolRespected` of the pool, types and `HistoryInOrder` of migrations. The pool's
  invariant adds that the sets whose sizes are summed are finite, and every step moves one
  request between them; in the pool, a lock is held by a request of its employee (`LocksAreOwn`) that is past waiting for it, so the
  holder that a waiter waits for can itself be held up by the pool alone, and only when the lock connections fill it: `StuckOnLocksOnly`,
  and `NeverAllWait` for a pool larger than the number of requests. `MInv` says that whoever reads or works has the lock, and that
  what a run has still to do stands on what it read (`PlansStandOnHistory`), since nobody else writes; a connection that
  breaks takes the lock and the plan together.
- `IdentityProofs`. The broker: `OneTokenPerSignIn`, `CodesAreAudited`, `SuspendedGetsNoCode`, and the refinement of `SignInStages`, in
  which a handler that ends, an expiry and a restart lose the sign-ins they had. `BInv` says that a sign-in
  is in one place at a time (a transaction, one callback, a code, one exchange, a token) and
  that what comes later is untouched, and that only an activation ends a suspension.
  The gate: `AccountsAreBound`, `SuspensionReachesRequests`. `GInv` adds that whatever
  came through is the bound account (`OneBound`), that an account keeps its alias, and that a
  request past a check is of the account and the status it found (`RequestsAreChecked`).
  The logins: `LoginsAreLimited`. `LoginsInv` says that the windows of a remote do not overlap (`Apart`), that the attempts in
  one are numbered up to the limit, and that the table has the last window as long as it lasts (`LastWindow`). A span as
  long as a window meets two windows at most, and the earlier one began before it: numbered below the limit in that one (its
  first attempt is not among them) and from the limit on in the later one, the attempts are all different and fewer than
  twice the limit.
- `SessionScopeProofs`. Sessions: `RevocationReachesHistory`, `BindingCoversHistory`, `OnePrincipalPerSession`,
  `BindingsOnlyGrow`. `SInv` adds that a request past CheckSession owns its session and one that is about to bind
  has made it (`OwnersHoldTheirSession`, `BindersHoldTheirSession`), and that what a credential had lost when a
  request came is in no history that request goes on to see, except as far as the loop of
  CheckSession has yet to meet it (`LostIsUntold`). It is preserved because a question is sent only
  with its scope in the row, and answered only from what its credential can read then.
  Budgets: `BudgetsAreKept`. `RateInv` adds that an open transaction began less than a day ago (`TakesAreRecent`), so that the window it
  counts in has not been deleted, and that the questions of a day are numbered by its count (`NumbersAreCounts`), so that
  each step adds one new question to the sets that are counted.
- `SpaceCreationProofs`: types, `OneSpacePerKey`, `AnswersAreKept`. `CInv` adds that all requests and POSTs in progress are about the
  row of the key (`RequestsShareRow`, `PostsShareRow`), and that only the request that
  inserted the row may answer "created" (`OneInserter`). The refinement of `KeyedCreation` needs besides that nothing was made or
  answered that was not asked for (`AskedFirst`).
- `SharingProofs`. The gate: `ScopeCoversHistory`, `ForwardedOnWhatHeld`. `AInv` adds that the facts remembered since a request came still
  hold or held throughout (`SinceIsNow`), that every base a request has passed is allowed by one of them
  (`RequestsAreSound`), and that a conversation is forwarded after its bases are recorded
  (`ConversationsAreRecorded`).
  Grants: `GrantsChangeAsAsked`. `GrantsInv` says that a user has one grant that is not revoked (`OneCurrentGrant`, the unique index over
  time), which is why the changed grant alone says what the user can do.
  Publications: `SubscriptionsEndWithTheirAudience`, `EditsBuildOnWhatTheySaw`, `DeletionFollowsUnpublishing`. `PublicationsInv` names for every
  subscription that has to end the request that will end it (`SubscriptionsAreEnded`), where the property only says that
  there is some request; and a request of the owner or a subscriber knows what goes with the version it was given (`TabKnows`, `VisitKnows`).
  For deletions `DeletionsInv` adds that a version is one of `withdrawn` exactly when it is not published, and what a deletion has brought about at each
  of its points (`DeletionKnows`): a withdrawn version since it read the row, and then that whoever is still subscribed looked at a later one
  (`EndedAt`, which no later step undoes).
- `ContentProofs`. Ingestion: `RevisionsAccountForChanges`. The counter and the changes of a base differ by the changes that wait for their
  count, that were given up, or that went astray, and by what was counted without a change; each step moves one request into or out
  of those that wait (`OneMemberChanges`). `IngestInv` adds where a document that a request is about to change can be (`WorkIsOnBase`): unless a
  request moved it, in a base that will be counted.
  Model overrides: `OverridesAreAsAnswered`. `ModelsInv` adds what the locals of a request say at each of its points (`RequestsKnow`) and that
  a request about to set a credential was the last to write the endpoint, unless the model is known to be mixed (`HalfDoneIsLast`).
  Note histories: `HistoryIsKept`. `NotesInv` adds what a request knows of its note (`Knowing`): what it read at which version, and, once its
  snapshot is made, that this version is in the history; so whoever writes over a version has recorded it, or raced.
  Note quota: `QuotaExceededByRaceOnly`. That every check passes on the corpus as it is then bounds nothing by itself: two requests may both pass and
  then both write, and a request may pass with a text longer than what it read, over a note that has become shorter. `QuotaInv` counts what is *foreseen*: each request on its way to write over a note
  foresees the text it read until its quota is checked and the text it will write after that, a creation foresees its bytes from its
  check on, and bytes are told apart by note and position, so that two requests about one note foresee the longer of their
  texts. Writes and deletions then add nothing to what is foreseen, and a check adds at most one largest note. That would give one
  size for each request; the bound is one less because some request always fits (`Fits`): what it foresees is there already, or
  was within the quota when it was checked. Whoever wrote last foresees nothing, and a check that passes either fits
  itself or leaves the one that did. A count over several pages is that of the list as long as nobody writes or deletes meanwhile
  (`CountIsExact`); a check that passes after such a change, and would not have passed on the notes as they are, is `blurred` and adds the
  size of one note.

Only model-checked: the liveness of `recovery` (fairness and ENABLED are out of the prover's reach). `EveryInstallCompletes`,
`EmployeeGetsIn`, `EveryRetrySucceeds` and `EveryWaiterHasItsTurn` hold on the instances of that run. No
module uses RECURSIVE operators or induction over data, the other two things that would stay with TLC.

## Not modelled

- *Parts that only read or keep no state*: the graph view (a bounded read of Neo4j), capabilities, configuration,
  diagnostics and error formatting, the status and list operations of every component, `TestManaged`, the tables of routes and presets.
- *Routing* (`server`): it calls the services named here; the order of its middlewares is in `EmployeeGate`.
- *Append-only records* (`agentaudit`, `observability`, `audit`): their order against the write they are about is modelled
  where a component depends on it.
- *The MCP limiter*, whose windows are those of `LoginLimiter`; the capacity limits of the broker's maps; the retry file of the
  administrator's login, which one process writes.
- *The upstream*: external. It is modelled by what the gateway's calls ask and rely on: it may refuse, lose an answer, or process a
  request late.
- Compose files, scripts run by hand, front-end overlays, and release, import and evidence tools.

## What is left

Two compositions are still seams. `AccessGate` lets grants, listings and subscriptions change by whatever step, which allows all that `Grants` and
`Publications` do and more: its theorems do not depend on them, but nothing states that their rows are its facts.
`EmployeeGate` has the whole of an onboarding in one step, which says when it completes and not how; a refinement would have
to show `Onboarding`, cut at every statement, as that step, for an account that may be removed and replaced meanwhile.
