--------------------------- MODULE Installation ---------------------------
(***************************************************************************)
(* The first-install state machine of the gateway's enterprise package:    *)
(* Prepare, ConfirmAdmin, DefaultWorkspace and RepairMemberKey             *)
(* (internal/enterprise/service.go, workspace.go, recovery.go).            *)
(*                                                                         *)
(* Every operation runs under the session lock "enterprise.install", held  *)
(* on one database connection that also carries its reads and saves.  The  *)
(* saves are autocommitted, so a run that dies (a crash, a failed save,    *)
(* any error return) leaves the last saved record behind.  A run whose     *)
(* connection breaks has lost the lock to the next run, but notices only   *)
(* at its next save: until then it is astray, and what it is about to send *)
(* upstream or to write to the secret file still goes out.                 *)
(*                                                                         *)
(* The upstream REST calls that create things (account, default space,     *)
(* member key) are not idempotent: each is preceded by a saved marker      *)
(* stage, is processed by the upstream at some later time, possibly after  *)
(* the run that sent it has died, and has an answer that the run may never *)
(* see.  A lost answer is resolved only by an operator who names the thing *)
(* to adopt.                                                               *)
(***************************************************************************)
EXTENDS Naturals

CONSTANTS
  Admin,       \* upstream user id of the account with the configured e-mail
  Tenants,     \* upstream workspace ids
  Keys,        \* upstream API key ids; a key's token is named by its id
  Files,       \* paths the installer may be given as MINDCREEK_MEMBER_KEY_FILE
  None,        \* "", 0 or a missing file
  MaxAborts    \* bound: how many runs may die, or lose the lock, before they end

ASSUME NoneAssumption == None \notin {Admin} \cup Tenants \cup Keys \cup Files
ASSUME AbortsAssumption == MaxAborts \in Nat

VARIABLES
  install,     \* the row of mindcreek.enterprise_installation
  secret,      \* secret[f]: the key whose token file f holds
  run,         \* the run that holds the install lock, with its locals
  astray,      \* the runs that lost the lock and have not noticed, with theirs
  wire,        \* wire[c]: what became of the last POST that creates c
  posts,       \* posts[c]: how many POSTs that create c were ever sent
  account,     \* upstream: the account of the configured admin e-mail exists
  sysadmin,    \* upstream: that account is an active platform admin
  window,      \* the deployment lets the upstream accept registrations
  policy,      \* how many of the Settings the upstream holds by now
  spaces,      \* upstream: spaces[t], from the configured admin's side
  keys,        \* upstream: keys[k], the scope of an API key
  keySpace,    \* upstream: the space an API key belongs to
  aborts       \* runs that died or lost the lock so far, up to MaxAborts

upstream == <<account, sysadmin, window, spaces, keys, keySpace>>
vars == <<install, secret, run, astray, wire, posts, policy, aborts, upstream>>

Stages == {"new", "registering", "admin_registered", "account_ready",
           "space_creating", "space_ready", "key_creating", "ready"}
Creations == {"account", "space", "key"}

\* The settings loop writes, in this order, auth.registration_mode,
\* auth.default_tenant_mode and tenant.self_service_creation_enabled.
Settings == 3

\* Where the run is: before a POST, waiting for its answer, or between two.
Points == {"idle", "postAccount", "awaitAccount", "postSpace", "awaitSpace",
           "settings", "postKey", "awaitKey", "writeSecret", "testKey"}

NoRun == [pc |-> "idle", adopt |-> None, file |-> None, put |-> 0,
          key |-> None, ref |-> None]

InstallType ==
  install \in [stage : Stages, adminId : {Admin, None}, tenant : Tenants \cup {None},
               keyId : Keys \cup {None}, keyRef : Files \cup {None}]

Runs == [pc : Points, adopt : Keys \cup {None}, file : Files \cup {None},
         put : 0..Settings, key : Keys \cup {None}, ref : Files \cup {None}]

RunType == run \in Runs
AstrayType == astray \in SUBSET Runs

WireType ==
  /\ wire \in [Creations -> [status : {"none", "sent", "accepted", "rejected"},
                             id : Tenants \cup Keys \cup {None}]]
  /\ posts \in [Creations -> Nat]

OutsideType ==
  /\ secret \in [Files -> Keys \cup {None}]
  /\ policy \in 0..Settings
  /\ aborts \in 0..MaxAborts
  /\ account \in BOOLEAN /\ sysadmin \in BOOLEAN /\ window \in BOOLEAN
  /\ spaces \in [Tenants -> {"absent", "owned", "other"}]
  /\ keys \in [Keys -> {"absent", "members", "full", "revoked"}]
  /\ keySpace \in [Keys -> Tenants \cup {None}]

TypeOK == InstallType /\ RunType /\ AstrayType /\ WireType /\ OutsideType

Init ==
  /\ install = [stage |-> "new", adminId |-> None, tenant |-> None,
                keyId |-> None, keyRef |-> None]
  /\ secret = [f \in Files |-> None]
  /\ run = NoRun /\ astray = {}
  /\ wire = [c \in Creations |-> [status |-> "none", id |-> None]]
  /\ posts = [c \in Creations |-> 0]
  /\ policy = 0
  /\ aborts = 0
  /\ account = FALSE /\ sysadmin = FALSE /\ window \in BOOLEAN
  /\ spaces = [t \in Tenants |-> "absent"]
  /\ keys = [k \in Keys |-> "absent"]
  /\ keySpace = [k \in Keys |-> None]

---------------------------------------------------------------------------
\* What the upstream answers to the reads a run makes.

\* A closed system setting wins over the deployment's environment variable.
RegistrationOpen == window /\ policy = 0

\* CurrentPrincipal shows neither a tenant nor a membership.
Tenantless == account /\ \A t \in Tenants : spaces[t] # "owned"

\* Password login succeeded and IsAdmin holds of the principal.
LoggedInAdmin == account /\ install.adminId = Admin /\ sysadmin

\* The key list of the default space shows k with manage_members alone, and
\* the secret file holds that key's token.
ScopedKeyIn(k, f) ==
  /\ keys[k] = "members"
  /\ keySpace[k] = install.tenant
  /\ secret[f] = k

\* GET members of the default space succeeds with the token in file f.
CanListMembers(f) ==
  /\ secret[f] # None
  /\ keys[secret[f]] \in {"members", "full"}
  /\ keySpace[secret[f]] = install.tenant

Answered(c) == wire[c].status \in {"accepted", "rejected"}

\* The POST that creates c leaves the gateway.
Request(c) ==
  /\ wire' = [wire EXCEPT ![c] = [status |-> "sent", id |-> None]]
  /\ posts' = [posts EXCEPT ![c] = @ + 1]

Send(c, next) ==
  /\ Request(c)
  /\ run' = [run EXCEPT !.pc = next]
  /\ UNCHANGED <<install, secret, policy, astray, aborts, upstream>>

\* Where a run is that has saved the marker for c and not sent its POST.
PostPoint(c) == CASE c = "account" -> "postAccount"
                  [] c = "space" -> "postSpace"
                  [] c = "key" -> "postKey"

\* A step of the installer that touches only its own record and its locals.
Local == UNCHANGED <<astray, wire, posts, aborts, upstream>>
---------------------------------------------------------------------------
\* Prepare

MarkAccount ==
  /\ run.pc = "idle"
  /\ install.stage = "new"
  /\ install' = [install EXCEPT !.stage = "registering"]
  /\ run' = [NoRun EXCEPT !.pc = "postAccount"]
  /\ UNCHANGED <<secret, policy>> /\ Local

PostAccount == run.pc = "postAccount" /\ Send("account", "awaitAccount")

\* An account that came with a tenant is refused and the marker stays.
ReceiveAccount ==
  /\ run.pc = "awaitAccount"
  /\ Answered("account")
  /\ install' = IF wire["account"].status = "accepted" /\ wire["account"].id = None
                  THEN [install EXCEPT !.stage = "admin_registered", !.adminId = Admin]
                  ELSE install
  /\ run' = NoRun
  /\ UNCHANGED <<secret, policy>> /\ Local

\* --admin-id: the operator names the account the lost POST made.
AdoptAccount ==
  /\ run.pc = "idle"
  /\ install.stage = "registering"
  /\ Tenantless
  /\ install' = [install EXCEPT !.stage = "admin_registered", !.adminId = Admin]
  /\ UNCHANGED <<secret, run, policy>> /\ Local

\* ConfirmAdmin: promoted by the bootstrap restart, and a registration probe
\* answered 403.
ConfirmAdmin ==
  /\ run.pc = "idle"
  /\ install.stage = "admin_registered"
  /\ LoggedInAdmin
  /\ ~RegistrationOpen
  /\ install' = [install EXCEPT !.stage = "account_ready"]
  /\ UNCHANGED <<secret, run, policy>> /\ Local
---------------------------------------------------------------------------
\* DefaultWorkspace: the space

Workspace(next, adopt, file) ==
  run' = [NoRun EXCEPT !.pc = next, !.adopt = adopt, !.file = file]

MarkSpace(adopt, file) ==
  /\ run.pc = "idle"
  /\ install.stage = "account_ready"
  /\ LoggedInAdmin
  /\ install' = [install EXCEPT !.stage = "space_creating"]
  /\ Workspace("postSpace", adopt, file)
  /\ UNCHANGED <<secret, policy>> /\ Local

PostSpace == run.pc = "postSpace" /\ Send("space", "awaitSpace")

ReceiveSpace ==
  /\ run.pc = "awaitSpace"
  /\ Answered("space")
  /\ IF wire["space"].status = "accepted"
       THEN /\ install' = [install EXCEPT !.stage = "space_ready",
                                          !.tenant = wire["space"].id]
            /\ run' = [run EXCEPT !.pc = "settings"]
       ELSE install' = install /\ run' = NoRun
  /\ UNCHANGED <<secret, policy>> /\ Local

\* A slip: --default-space-id is honoured whatever the stage.
AdoptSpaceAnytime(t, adopt, file) ==
  /\ run.pc = "idle"
  /\ install.stage \in {"space_creating", "space_ready", "key_creating"}
  /\ LoggedInAdmin /\ spaces[t] = "owned"
  /\ install' = [install EXCEPT !.stage = "space_ready", !.tenant = t]
  /\ Workspace("settings", adopt, file)
  /\ UNCHANGED <<secret, policy>> /\ Local

\* --default-space-id t: only for a space the admin owns, only while the
\* outcome of the creation is unknown.
AdoptSpace(t, adopt, file) ==
  /\ run.pc = "idle"
  /\ install.stage = "space_creating"
  /\ LoggedInAdmin
  /\ spaces[t] = "owned"
  /\ install' = [install EXCEPT !.stage = "space_ready", !.tenant = t]
  /\ Workspace("settings", adopt, file)
  /\ UNCHANGED <<secret, policy>> /\ Local

\* A slip: an unknown key outcome cannot be resumed.
ResumeWorkspaceBeforeKey(adopt, file) ==
  /\ run.pc = "idle" /\ install.stage = "space_ready" /\ LoggedInAdmin
  /\ Workspace("settings", adopt, file)
  /\ UNCHANGED <<install, secret, policy>> /\ Local

ResumeWorkspace(adopt, file) ==
  /\ run.pc = "idle"
  /\ install.stage \in {"space_ready", "key_creating"}
  /\ LoggedInAdmin
  /\ Workspace("settings", adopt, file)
  /\ UNCHANGED <<install, secret, policy>> /\ Local

\* A slip: the loop does not stop after the last setting.
PutSettingForever ==
  /\ run.pc = "settings"
  /\ run.put = 0 => spaces[install.tenant] = "owned"
  /\ run' = [run EXCEPT !.put = @ + 1]
  /\ policy' = IF run.put < policy THEN policy ELSE run.put + 1
  /\ UNCHANGED <<install, secret>> /\ Local

\* One PUT of the settings loop by a run r; the owner check guards the first.
Put(r) ==
  /\ r.pc = "settings"
  /\ r.put < Settings
  /\ r.put = 0 => spaces[install.tenant] = "owned"
  /\ policy' = IF r.put < policy THEN policy ELSE r.put + 1

PutSetting ==
  /\ Put(run)
  /\ run' = [run EXCEPT !.put = @ + 1]
  /\ UNCHANGED <<install, secret>> /\ Local
---------------------------------------------------------------------------
\* DefaultWorkspace: the member key

\* A slip: the key is handled before the last setting is written.
SettingsDoneEarly == run.pc = "settings" /\ run.put >= Settings - 1

SettingsDone == run.pc = "settings" /\ run.put = Settings

\* --member-key-id: checked now, recorded only when the run gets to ready.
AdoptKey ==
  /\ SettingsDone
  /\ run.adopt # None
  /\ install.stage = "key_creating"
  /\ ScopedKeyIn(run.adopt, run.file)
  /\ run' = [run EXCEPT !.pc = "testKey", !.key = run.adopt, !.ref = run.file]
  /\ UNCHANGED <<install, secret, policy>> /\ Local

\* A slip: the key POST goes out without its marker.
MarkKeyUnsaved ==
  /\ SettingsDone /\ run.adopt = None /\ install.stage = "space_ready"
  /\ run' = [run EXCEPT !.pc = "postKey"]
  /\ UNCHANGED <<install, secret, policy>> /\ Local

MarkKey ==
  /\ SettingsDone
  /\ run.adopt = None
  /\ install.stage = "space_ready"
  /\ install' = [install EXCEPT !.stage = "key_creating", !.keyRef = run.file]
  /\ run' = [run EXCEPT !.pc = "postKey"]
  /\ UNCHANGED <<secret, policy>> /\ Local

PostKey == run.pc = "postKey" /\ Send("key", "awaitKey")

ReceiveKey ==
  /\ run.pc = "awaitKey"
  /\ Answered("key")
  /\ IF wire["key"].status = "accepted"
       THEN /\ install' = [install EXCEPT !.keyId = wire["key"].id]
            /\ run' = [run EXCEPT !.pc = "writeSecret", !.key = wire["key"].id,
                                  !.ref = run.file]
       ELSE install' = install /\ run' = NoRun
  /\ UNCHANGED <<secret, policy>> /\ Local

\* WriteSecret never replaces a file that is already there.
WriteSecret ==
  /\ run.pc = "writeSecret"
  /\ IF secret[run.ref] = None
       THEN /\ secret' = [secret EXCEPT ![run.ref] = run.key]
            /\ run' = [run EXCEPT !.pc = "testKey"]
       ELSE secret' = secret /\ run' = NoRun
  /\ UNCHANGED <<install, policy>> /\ Local

\* The key was recorded by an earlier run that died before it was tested.
ResumeKey ==
  /\ SettingsDone
  /\ run.adopt = None
  /\ install.stage = "key_creating"
  /\ install.keyId # None
  /\ run' = [run EXCEPT !.pc = "testKey", !.key = install.keyId,
                        !.ref = install.keyRef]
  /\ UNCHANGED <<install, secret, policy>> /\ Local

TestKey ==
  /\ run.pc = "testKey"
  /\ CanListMembers(run.ref)
  /\ install' = [install EXCEPT !.stage = "ready", !.keyId = run.key,
                                !.keyRef = run.ref]
  /\ run' = NoRun
  /\ UNCHANGED <<secret, policy>> /\ Local

\* RepairMemberKey: any current owner may replace the key of a ready install.
RepairMemberKey(k, f) ==
  /\ run.pc = "idle"
  /\ install.stage = "ready"
  /\ ScopedKeyIn(k, f)
  /\ install' = [install EXCEPT !.keyId = k, !.keyRef = f]
  /\ UNCHANGED <<secret, run, policy>> /\ Local

\* Any error return, failed save or crash: the lock goes, the record stays.
Abort ==
  /\ run.pc # "idle"
  /\ aborts < MaxAborts
  /\ aborts' = aborts + 1
  /\ run' = NoRun
  /\ UNCHANGED <<install, secret, astray, wire, posts, policy, upstream>>

\* The connection with the lock breaks under a run that goes on to a request
\* or to the secret file before it saves again.  The key it was to adopt no
\* longer matters, since it will not record it, and two runs astray with the
\* same locals are taken for one: the settings they would write are the same.
LoseLock ==
  /\ run.pc \in {"postAccount", "postSpace", "settings", "postKey", "writeSecret"}
  /\ run.put = Settings => run.pc # "settings"
  /\ aborts < MaxAborts
  /\ aborts' = aborts + 1
  /\ astray' = astray \cup {[run EXCEPT !.adopt = None]}
  /\ run' = NoRun
  /\ UNCHANGED <<install, secret, wire, posts, policy, upstream>>

\* A run astray sends its POST; what it learns from the answer is never saved.
PostAstray(r, c) ==
  /\ r.pc = PostPoint(c)
  /\ Request(c)
  /\ astray' = astray \ {r}
  /\ UNCHANGED <<install, secret, run, policy, aborts, upstream>>

\* After the last setting it only reads until its save fails.
PutAstray(r) ==
  /\ Put(r)
  /\ astray' = (astray \ {r}) \cup
               {s \in {[r EXCEPT !.put = @ + 1]} : s.put < Settings}
  /\ UNCHANGED <<install, secret, run, wire, posts, aborts, upstream>>

WriteSecretAstray(r) ==
  /\ r.pc = "writeSecret"
  /\ secret' = IF secret[r.ref] = None THEN [secret EXCEPT ![r.ref] = r.key] ELSE secret
  /\ astray' = astray \ {r}
  /\ UNCHANGED <<install, run, wire, posts, policy, aborts, upstream>>

\* A run astray ends: its save fails, or something before that.
EndAstray(r) ==
  /\ astray' = astray \ {r}
  /\ UNCHANGED <<install, secret, run, wire, posts, policy, aborts, upstream>>

Astray ==
  \E r \in astray :
    \/ \E c \in Creations : PostAstray(r, c)
    \/ PutAstray(r) \/ WriteSecretAstray(r) \/ EndAstray(r)

\* A check that fails ends the run without a write.
GiveUp ==
  /\ \/ /\ run.pc = "settings" /\ run.put = 0
        /\ spaces[install.tenant] # "owned"
     \/ /\ SettingsDone
        /\ run.adopt # None
        /\ install.stage # "key_creating" \/ ~ScopedKeyIn(run.adopt, run.file)
     \/ /\ SettingsDone
        /\ run.adopt = None
        /\ install.stage = "key_creating" /\ install.keyId = None
     \/ /\ run.pc = "testKey"
        /\ ~CanListMembers(run.ref)
  /\ run' = NoRun
  /\ UNCHANGED <<install, secret, policy>> /\ Local

Prepare == MarkAccount \/ PostAccount \/ ReceiveAccount \/ AdoptAccount

DefaultWorkspace ==
  \/ \E adopt \in Keys \cup {None}, f \in Files :
       \/ MarkSpace(adopt, f) \/ ResumeWorkspace(adopt, f)
       \/ \E t \in Tenants : AdoptSpace(t, adopt, f)
  \/ PostSpace \/ ReceiveSpace
  \/ PutSetting
  \/ AdoptKey \/ MarkKey \/ PostKey \/ ReceiveKey \/ WriteSecret
  \/ ResumeKey \/ TestKey

Installer ==
  \/ Prepare \/ ConfirmAdmin \/ DefaultWorkspace
  \/ \E k \in Keys, f \in Files : RepairMemberKey(k, f)
  \/ GiveUp
---------------------------------------------------------------------------
\* The upstream, external.  A POST is processed whether or not the run that
\* sent it is still there.

Answer(c, status, id) ==
  /\ wire[c].status = "sent"
  /\ wire' = [wire EXCEPT ![c] = [status |-> status, id |-> id]]
  /\ UNCHANGED <<install, secret, run, astray, posts, policy, aborts, sysadmin, window>>

\* With DEFAULT_TENANT_MODE other than tenantless the account gets a space t.
ProcessAccount(t) ==
  /\ RegistrationOpen /\ ~account
  /\ Answer("account", "accepted", t)
  /\ account' = TRUE
  /\ IF t = None THEN spaces' = spaces
                 ELSE spaces[t] = "absent" /\ spaces' = [spaces EXCEPT ![t] = "owned"]
  /\ UNCHANGED <<keys, keySpace>>

ProcessSpace(t) ==
  /\ spaces[t] = "absent"
  /\ Answer("space", "accepted", t)
  /\ spaces' = [spaces EXCEPT ![t] = "owned"]
  /\ UNCHANGED <<account, keys, keySpace>>

ProcessKey(k) ==
  /\ Answer("key", "accepted", k)
  /\ keys[k] = "absent"
  /\ spaces[install.tenant] = "owned"
  /\ keys' = [keys EXCEPT ![k] = "members"]
  /\ keySpace' = [keySpace EXCEPT ![k] = install.tenant]
  /\ UNCHANGED <<account, spaces>>

Reject(c) ==
  Answer(c, "rejected", None) /\ UNCHANGED <<account, spaces, keys, keySpace>>

Upstream ==
  \/ \E t \in Tenants \cup {None} : ProcessAccount(t)
  \/ \E t \in Tenants : ProcessSpace(t)
  \/ \E k \in Keys : ProcessKey(k)
  \/ \E c \in Creations : Reject(c)
---------------------------------------------------------------------------
\* The operator and the deployment, external: what the recovery guides let a
\* person do by hand between two runs or during one.

Outside == UNCHANGED <<install, run, astray, wire, posts, policy, aborts>>

MoveWindow ==
  /\ window' = ~window
  /\ Outside /\ UNCHANGED <<secret, account, sysadmin, spaces, keys, keySpace>>

\* The bootstrap restart promotes the configured account.
Bootstrap ==
  /\ account
  /\ sysadmin' = TRUE
  /\ Outside /\ UNCHANGED <<secret, account, window, spaces, keys, keySpace>>

RegisterByHand ==
  /\ RegistrationOpen /\ ~account
  /\ account' = TRUE
  /\ Outside /\ UNCHANGED <<secret, sysadmin, window, spaces, keys, keySpace>>

CreateSpaceByHand(t) ==
  /\ account
  /\ spaces[t] = "absent"
  /\ spaces' = [spaces EXCEPT ![t] = "owned"]
  /\ Outside /\ UNCHANGED <<secret, account, sysadmin, window, keys, keySpace>>

TransferSpace(t) ==
  /\ spaces[t] = "owned"
  /\ spaces' = [spaces EXCEPT ![t] = "other"]
  /\ Outside /\ UNCHANGED <<secret, account, sysadmin, window, keys, keySpace>>

CreateKeyByHand(k, t, scope) ==
  /\ keys[k] = "absent"
  /\ spaces[t] # "absent"
  /\ keys' = [keys EXCEPT ![k] = scope]
  /\ keySpace' = [keySpace EXCEPT ![k] = t]
  /\ Outside /\ UNCHANGED <<secret, account, sysadmin, window, spaces>>

RevokeKey(k) ==
  /\ keys[k] \in {"members", "full"}
  /\ keys' = [keys EXCEPT ![k] = "revoked"]
  /\ Outside /\ UNCHANGED <<secret, account, sysadmin, window, spaces, keySpace>>

\* Writing a key's token into the secret file, or removing the file, between
\* two runs.
ReplaceSecret(f, k) ==
  /\ run.pc = "idle"
  /\ k # None => keys[k] # "absent"
  /\ secret' = [secret EXCEPT ![f] = k]
  /\ Outside /\ UNCHANGED upstream

Operator ==
  \/ MoveWindow \/ Bootstrap \/ RegisterByHand
  \/ \E t \in Tenants : CreateSpaceByHand(t) \/ TransferSpace(t)
  \/ \E k \in Keys, t \in Tenants :
       \E scope \in {"members", "full"} : CreateKeyByHand(k, t, scope)
  \/ \E k \in Keys : RevokeKey(k)
  \/ \E f \in Files, k \in Keys \cup {None} : ReplaceSecret(f, k)

Next == Installer \/ Abort \/ LoseLock \/ Astray \/ Upstream \/ Operator

Spec == Init /\ [][Next]_vars
---------------------------------------------------------------------------
\* Safety

AccountSettled == {"admin_registered", "account_ready"} \cup
                  {"space_creating", "space_ready", "key_creating", "ready"}
SpaceMarked == {"space_creating", "space_ready", "key_creating", "ready"}
SpaceSettled == {"space_ready", "key_creating", "ready"}
KeyMarked == {"key_creating", "ready"}

\* None of the three non-idempotent upstream creations is ever sent twice,
\* whatever runs die between a save, a POST and its answer: an ambiguous
\* outcome is left to the operator and never retried.
AtMostOnePost == \A c \in Creations : posts[c] <= 1

\* A POST that was sent is announced by the saved record: nothing can exist
\* upstream on the installer's account that a later run does not know to ask
\* about.
EveryPostIsMarked ==
  /\ posts["account"] > 0 => install.stage # "new"
  /\ posts["space"] > 0 => install.stage \in SpaceMarked
  /\ posts["key"] > 0 => install.stage \in KeyMarked

\* The stage "ready", which opens the product to employees, is reached only
\* with every part recorded, every system setting written and self
\* registration closed, even when the settings loop was cut short before and
\* the deployment reopened its registration window.
ReadyIsComplete ==
  install.stage = "ready" =>
    /\ install.adminId # None /\ install.tenant # None
    /\ install.keyId # None /\ install.keyRef # None
    /\ policy = Settings
    /\ ~RegistrationOpen

\* What a step keeps of the installation record.
Grows ==
  /\ install.adminId # None => install'.adminId = install.adminId
  /\ install.tenant # None => install'.tenant = install.tenant
  /\ install.keyId # None => install'.keyId # None
  /\ install.stage \in SpaceMarked => install'.stage \in SpaceMarked
  /\ install.stage \in SpaceSettled => install'.stage \in SpaceSettled
  /\ install.stage \in KeyMarked => install'.stage \in KeyMarked
  /\ install.stage = "ready" => install'.stage = "ready"

\* The recorded admin and default space are never replaced, a completed
\* installation stays complete, and no run, resumed or repeated, moves the
\* stage back to a point from which something would be created again.
RecordOnlyGrows == [][Grows]_vars

\* What the installation plan says of "ready": the credential is one that has
\* only manage_members and it was checked before the stage was set, so the file
\* holds the recorded key with that scope (the key may be revoked meanwhile).
ReadyKeyIsChecked ==
  [][install.stage # "ready" /\ install'.stage = "ready" =>
       /\ secret[install'.keyRef] = install'.keyId
       /\ keys[install'.keyId] # "full"]_vars

\* The installer implements the promise of CreateOnce.
Marked == [account |-> install.stage # "new",
           space |-> install.stage \in SpaceMarked,
           key |-> install.stage \in KeyMarked]
Settled == [account |-> install.adminId # None,
            space |-> install.tenant # None,
            key |-> install.keyId # None]
Phase(c) ==
  IF Settled[c] THEN "settled"
  ELSE IF posts[c] > 0 THEN "posted"
  ELSE IF Marked[c] THEN "marked" ELSE "unmarked"

CreationOrder == <<"account", "space", "key">>

\* A run astray may still send the POST that creates c.
Loose(c) == \E r \in astray : r.pc = PostPoint(c)

Promise == INSTANCE CreateOnce WITH
  Order <- CreationOrder,
  phase <- [c \in Creations |-> Phase(c)],
  loose <- {c \in Creations : Loose(c)}

\* Account, space and key are created in this order, each announced before it
\* is requested and requested at most once in all, whatever runs die or lose
\* the lock; a request that goes out after its creation was settled by
\* adopting something is that of a run that lost the lock after announcing it.
CreatesOnce == Promise!Spec
---------------------------------------------------------------------------
\* The inductive invariant behind the theorems of InstallationProofs.

\* Where a run is tells which stage it saved last.
RunMatchesStage ==
  /\ run.pc \in {"postAccount", "awaitAccount"} => install.stage = "registering"
  /\ run.pc \in {"postSpace", "awaitSpace"} => install.stage = "space_creating"
  /\ run.pc = "settings" => install.stage \in {"space_ready", "key_creating"}
  /\ run.pc \in {"postKey", "awaitKey", "writeSecret", "testKey"} =>
       install.stage = "key_creating"

\* A run about to POST is the first to do so.
FirstPost ==
  /\ run.pc = "postAccount" => posts["account"] = 0
  /\ run.pc = "postSpace" => posts["space"] = 0
  /\ run.pc = "postKey" => posts["key"] = 0
  /\ run.pc \in {"postKey", "awaitKey"} => install.keyId = None

\* A POST that a run astray may still send was announced, has not been sent,
\* and nobody else is about to send it.
FirstPostAstray ==
  \A r \in astray, c \in Creations :
    r.pc = PostPoint(c) =>
      /\ posts[c] = 0 /\ Marked[c]
      /\ run.pc # PostPoint(c)
      /\ \A q \in astray : q.pc = PostPoint(c) => q = r

\* An accepted creation answered with an id of its own kind.
AnswersHaveIds ==
  /\ wire["space"].status = "accepted" => wire["space"].id \in Tenants
  /\ wire["key"].status = "accepted" => wire["key"].id \in Keys

\* The stage tells exactly which parts are recorded.
StageMatchesRecord ==
  /\ install.adminId # None <=> install.stage \in AccountSettled
  /\ install.tenant # None <=> install.stage \in SpaceSettled
  /\ install.keyRef # None <=> install.stage \in KeyMarked
  /\ install.keyId # None => install.stage \in KeyMarked
  /\ install.stage = "ready" => install.keyId # None

\* What a run past the POSTs holds in its locals.
LocalsComplete ==
  /\ run.pc \in {"postSpace", "awaitSpace", "settings", "postKey", "awaitKey"} =>
       run.file # None
  /\ run.pc \in {"writeSecret", "testKey"} => run.key # None /\ run.ref # None

\* Every run that gets past the settings loop has written all of them.
SettingsWritten ==
  /\ run.pc = "settings" => run.put <= policy
  /\ run.pc \in {"postAccount", "awaitAccount", "postSpace", "awaitSpace"} =>
       run.put = 0
  /\ run.pc \in {"postKey", "awaitKey", "writeSecret", "testKey"} =>
       policy = Settings
  /\ install.stage = "ready" => policy = Settings

IInv ==
  /\ TypeOK
  /\ RunMatchesStage /\ FirstPost /\ FirstPostAstray /\ AnswersHaveIds /\ StageMatchesRecord
  /\ LocalsComplete /\ SettingsWritten
  /\ AtMostOnePost /\ EveryPostIsMarked
===========================================================================
