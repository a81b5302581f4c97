------------------------------- MODULE Grants -------------------------------
(***************************************************************************)
(* The grants of one knowledge base (grant/service.go and repository.go,   *)
(* the grant routes of server/sharing.go, migration 000006): the owner     *)
(* shares, changes and revokes from several tabs.  Each request looks, and *)
(* writes in another statement that repeats its condition; a row that was  *)
(* not revoked keeps its user to itself by a unique index.  A grant can    *)
(* run out; it is not revoked by that.                                     *)
(***************************************************************************)
EXTENDS Integers

CONSTANTS
  GrantTabs,         \* slots for requests of the owner
  GrantIds,     \* ids newGrantID may draw
  Grantees,        \* who may be granted access
  MaxTime,      \* bound: the clock
  MaxRevision,  \* bound: revisions of a grant
  NoGrant       \* no grant, no user

VARIABLES
  grants,       \* grants[g]: the row of kb_access_grants with id g
  clock,
  sharing       \* sharing[o]: where request o is, with its locals

grantVars == <<grants, clock, sharing>>

Permissions == {"viewer", "editor"}
Never == MaxTime + 1
Expiries == 1..Never
GrantRows == [user : Grantees, permission : Permissions, expires : Expiries,
              revoked : BOOLEAN, revision : 1..MaxRevision]
GrantTab == [pc : {"idle", "find", "create", "refind", "get", "write"},
             op : {"create", "update", "revoke"}, id : GrantIds \cup {NoGrant},
             user : Grantees \cup {NoGrant}, permission : Permissions, expires : Expiries,
             expected : 0..MaxRevision]

ASSUME GrantsAssumption ==
  /\ NoGrant \notin GrantIds \cup Grantees \cup GrantRows
  /\ MaxTime \in Nat /\ MaxRevision \in Nat \ {0}

IdleGrantTab == [pc |-> "idle", op |-> "create", id |-> NoGrant, user |-> NoGrant,
                 permission |-> "viewer", expires |-> Never, expected |-> 0]

GrantsTypeOK ==
  /\ grants \in [GrantIds -> GrantRows \cup {NoGrant}]
  /\ clock \in 0..MaxTime
  /\ sharing \in [GrantTabs -> GrantTab]

GrantsInit ==
  /\ grants = [g \in GrantIds |-> NoGrant]
  /\ clock = 0
  /\ sharing = [o \in GrantTabs |-> IdleGrantTab]
---------------------------------------------------------------------------
GrantTabAt(o, pc) == sharing[o].pc = pc
GrantTabGoes(o, pc) == sharing' = [sharing EXCEPT ![o].pc = pc]
CloseGrantTab(o) == sharing' = [sharing EXCEPT ![o] = IdleGrantTab]

Stored(g) == grants[g] # NoGrant

\* FindCurrentBySubject: not revoked, whether it has run out or not.
CurrentOf(u) == {g \in GrantIds : Stored(g) /\ grants[g].user = u /\ ~grants[g].revoked}

Unexpired(g) == grants[g].expires > clock

\* EffectiveUserGrant: an editor's grant comes first.
EffectiveGrant(u) ==
  LET live == {g \in CurrentOf(u) : Unexpired(g)} IN
  IF \E g \in live : grants[g].permission = "editor" THEN "editor"
  ELSE IF live # {} THEN "viewer" ELSE "none"

\* List: what the owner is shown.
Listed == {g \in GrantIds : Stored(g) /\ ~grants[g].revoked /\ Unexpired(g)}

\* Requests that end in the future when they are asked; updates and
\* revocations are about a grant a page shows, with the revision it shows.
AskCreate(o, u, permission, expires) ==
  /\ GrantTabAt(o, "idle") /\ expires > clock
  /\ sharing' = [sharing EXCEPT ![o] = [IdleGrantTab EXCEPT !.pc = "find", !.user = u,
                                !.permission = permission, !.expires = expires]]
  /\ UNCHANGED <<grants, clock>>

AskChange(o, g, permission, expires) ==
  /\ GrantTabAt(o, "idle") /\ g \in Listed /\ expires > clock
  /\ sharing' = [sharing EXCEPT ![o] = [IdleGrantTab EXCEPT !.pc = "get", !.op = "update", !.id = g,
               !.permission = permission, !.expires = expires,
               !.expected = grants[g].revision]]
  /\ UNCHANGED <<grants, clock>>

AskRevoke(o, g) ==
  /\ GrantTabAt(o, "idle") /\ g \in Listed
  /\ sharing' = [sharing EXCEPT ![o] = [IdleGrantTab EXCEPT !.pc = "get", !.op = "revoke", !.id = g,
                                !.expected = grants[g].revision]]
  /\ UNCHANGED <<grants, clock>>

\* A grant of the user is there: the same one is the answer, another a conflict.
Find(o) ==
  /\ GrantTabAt(o, "find")
  /\ IF CurrentOf(sharing[o].user) = {} THEN GrantTabGoes(o, "create") ELSE CloseGrantTab(o)
  /\ UNCHANGED <<grants, clock>>

\* A slip: the index is on the id alone.
InsertableId(o, g) == ~Stored(g)

\* kb_access_grants_active_subject_unique.
Insertable(o, g) == ~Stored(g) /\ CurrentOf(sharing[o].user) = {}

\* A slip: revisions start at 0.
FirstRowAtZero(o) ==
  [user |-> sharing[o].user, permission |-> sharing[o].permission,
   expires |-> sharing[o].expires, revoked |-> FALSE, revision |-> 0]

FirstRow(o) ==
  [user |-> sharing[o].user, permission |-> sharing[o].permission,
   expires |-> sharing[o].expires, revoked |-> FALSE, revision |-> 1]

Insert(o, g) ==
  /\ GrantTabAt(o, "create") /\ Insertable(o, g)
  /\ grants' = [grants EXCEPT ![g] = FirstRow(o)]
  /\ CloseGrantTab(o)
  /\ UNCHANGED clock

\* Another tab was faster: its grant is looked up, and answered if the same.
InsertConflict(o) ==
  /\ GrantTabAt(o, "create") /\ CurrentOf(sharing[o].user) # {}
  /\ GrantTabGoes(o, "refind")
  /\ UNCHANGED <<grants, clock>>

Refind(o) ==
  /\ GrantTabAt(o, "refind")
  /\ CloseGrantTab(o)
  /\ UNCHANGED <<grants, clock>>

\* Get, and the conditions of Update and Revoke on what was read.
Get(o) ==
  LET row == grants[sharing[o].id] IN
  /\ GrantTabAt(o, "get")
  /\ IF ~row.revoked /\ row.revision = sharing[o].expected THEN GrantTabGoes(o, "write") ELSE CloseGrantTab(o)
  /\ UNCHANGED <<grants, clock>>

\* WHERE revision = expected AND revoked_at IS NULL.
Updatable(o) ==
  grants[sharing[o].id].revision = sharing[o].expected /\ ~grants[sharing[o].id].revoked

WriteGrant(o) ==
  LET g == sharing[o].id  next == grants[sharing[o].id].revision + 1 IN
  /\ GrantTabAt(o, "write") /\ Updatable(o) /\ next <= MaxRevision
  /\ grants' = [grants EXCEPT ![g] =
       IF sharing[o].op = "revoke" THEN [@ EXCEPT !.revoked = TRUE, !.revision = next]
       ELSE [@ EXCEPT !.permission = sharing[o].permission, !.expires = sharing[o].expires,
                      !.revision = next]]
  /\ CloseGrantTab(o)
  /\ UNCHANGED clock

\* Nothing matched, a statement failed, or the process stopped.
GrantTabDies(o) ==
  /\ ~GrantTabAt(o, "idle")
  /\ CloseGrantTab(o)
  /\ UNCHANGED <<grants, clock>>

ClockTicks == clock < MaxTime /\ clock' = clock + 1 /\ UNCHANGED <<grants, sharing>>

GranterAsks(o) ==
  \E p \in Permissions, e \in Expiries :
    \/ \E u \in Grantees : AskCreate(o, u, p, e)
    \/ \E g \in GrantIds : AskChange(o, g, p, e)

GranterProceeds(o) ==
  \/ Find(o) \/ (\E g \in GrantIds : Insert(o, g)) \/ InsertConflict(o) \/ Refind(o)
  \/ Get(o) \/ WriteGrant(o)

GrantsNext ==
  \/ \E o \in GrantTabs :
       \/ GranterAsks(o) \/ (\E g \in GrantIds : AskRevoke(o, g))
       \/ GranterProceeds(o) \/ GrantTabDies(o)
  \/ ClockTicks

GrantsSpec == GrantsInit /\ [][GrantsNext]_grantVars
---------------------------------------------------------------------------
\* What access a change leaves the user with, the changed grant says alone.
Says(g) ==
  IF grants[g].revoked \/ ~Unexpired(g) THEN "none" ELSE grants[g].permission

\* A changed grant says what its user can do.
TakesEffect ==
  \A g \in GrantIds, u \in Grantees :
    grants'[g] # grants[g] /\ grants'[g].user = u => EffectiveGrant(u)' = Says(g)'

\* A grant changes by the request of a tab that knew its revision, and never
\* again once it is revoked.
GrantEditBuildsOnWhatItSaw ==
  \A g \in GrantIds :
    Stored(g) /\ grants'[g] # grants[g] =>
      /\ ~grants[g].revoked
      /\ \E o \in GrantTabs : /\ sharing'[o] # sharing[o] /\ sharing[o].id = g
                             /\ sharing[o].expected = grants[g].revision

\* When a tab has shared, changed or revoked, the user has the access it wrote
\* and no other: no second grant, made by another tab at the same time, keeps
\* an access alive that was revoked or lowered.  Two tabs never write over each
\* other: a grant changes from the revision that was on the page.
GrantsChangeAsAsked == [][TakesEffect /\ GrantEditBuildsOnWhatItSaw]_grantVars
---------------------------------------------------------------------------
\* kb_access_grants_active_subject_unique over time: a user has one grant that
\* is not revoked.
OneCurrentGrant == \A u \in Grantees : \A g, h \in CurrentOf(u) : g = h

\* What a request of a tab is about: a user, or a grant that has been made.
Sharing(o) ==
  /\ sharing[o].pc \in {"find", "create"} => sharing[o].user \in Grantees
  /\ sharing[o].pc \in {"get", "write"} =>
       sharing[o].id \in GrantIds /\ Stored(sharing[o].id)

\* The inductive invariant.
GrantsInv == GrantsTypeOK /\ OneCurrentGrant /\ \A o \in GrantTabs : Sharing(o)
=============================================================================
