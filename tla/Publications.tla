---------------------------- MODULE Publications ----------------------------
(***************************************************************************)
(* The publication of one knowledge base and its subscriptions             *)
(* (publication/service.go and repository.go, subscription/service.go and  *)
(* repository.go, with what catalog, library and authorization read of     *)
(* them).  The owner publishes, updates, unpublishes and deletes from      *)
(* several tabs, each request checking the row version it was given, then  *)
(* changing the row, then ending subscriptions in another transaction.     *)
(* Subscribers look at the publication in one statement and write their    *)
(* subscription in a later one.  Any request may die between statements.   *)
(***************************************************************************)
EXTENDS Integers

CONSTANTS
  Tabs,         \* slots for requests of the owner
  Visits,       \* slots for requests of subscribers
  Subscribers,  \* users other than the owner
  Tenants,      \* workspaces; a user may act in any of them
  Audiences,    \* those the owner chooses from; all: the organization
  MaxVersion,   \* bound: row versions of the publication
  Nobody        \* no user, no workspace

ASSUME PublicationsAssumption ==
  /\ Nobody \notin Subscribers \cup Tenants /\ MaxVersion \in Nat \ {0}
  /\ Audiences \subseteq (SUBSET Tenants) \ {{}}

VARIABLES
  kb,           \* the knowledge base has not been deleted upstream
  pub,          \* the row of kb_publications; version 0 without one
  sub,          \* sub[u]: the row of kb_subscriptions of u
  tab,          \* tab[o]: where request o of the owner is, with its locals
  visit,        \* visit[v]: the same for a subscriber's request
  withdrawn,    \* history: the versions that were not published, 0 before any
  joined,       \* history: joined[u]: the version u looked at to subscribe
  stale,        \* history: who subscribed on a publication that had changed
  interrupted   \* history: an owner's request changed the row and went no further

pubVars == <<kb, pub, sub, tab, visit, withdrawn, joined, stale, interrupted>>
pubRows == <<kb, pub, sub>>
pubHistory == <<withdrawn, joined, stale, interrupted>>

NoAudience == {}    \* of a request that has none
Versions == 0..MaxVersion

Publication == [status : {"published", "unpublished"}, audience : Audiences \cup {NoAudience},
                version : Versions]
Subscription == [status : {"none", "active", "unsubscribed", "inactive"},
                 tenant : Tenants \cup {Nobody}]
Tab == [pc : {"idle", "lookup", "create", "write", "confirm", "select",
              "end", "delete"},
        op : {"publish", "update", "unpublish", "delete"}, expected : Versions,
        audience : Audiences \cup {NoAudience}, todo : SUBSET Subscribers]
Visit == [pc : {"idle", "publication", "lookup", "create", "activate",
                "unsubscribe"},
          op : {"subscribe", "unsubscribe"}, user : Subscribers \cup {Nobody},
          tenant : Tenants \cup {Nobody}, looked : Versions]

Unpublished == [status |-> "unpublished", audience |-> NoAudience, version |-> 0]
NotSubscribed == [status |-> "none", tenant |-> Nobody]
IdleTab == [pc |-> "idle", op |-> "publish", expected |-> 0, audience |-> NoAudience, todo |-> {}]
IdleVisit == [pc |-> "idle", op |-> "subscribe", user |-> Nobody, tenant |-> Nobody,
              looked |-> 0]

PublicationsTypeOK ==
  /\ kb \in BOOLEAN
  /\ pub \in Publication
  /\ sub \in [Subscribers -> Subscription]
  /\ tab \in [Tabs -> Tab]
  /\ visit \in [Visits -> Visit]
  /\ withdrawn \subseteq Versions /\ joined \in [Subscribers -> Versions]
  /\ stale \subseteq Subscribers /\ interrupted \in BOOLEAN

PublicationsInit ==
  /\ kb = TRUE
  /\ pub = Unpublished
  /\ sub = [u \in Subscribers |-> NotSubscribed]
  /\ tab = [o \in Tabs |-> IdleTab]
  /\ visit = [v \in Visits |-> IdleVisit]
  /\ withdrawn = {0} /\ joined = [u \in Subscribers |-> 0]
  /\ stale = {} /\ interrupted = FALSE
---------------------------------------------------------------------------
Exists == pub.version # 0
Published == pub.status = "published"

\* Publication.VisibleTo.
VisibleTo(tenant) == Published /\ tenant \in pub.audience

Active(u) == sub[u].status = "active"

\* subscription Effective: the row counts in the workspace it was made in.
Effective(u, tenant) == Active(u) /\ sub[u].tenant = tenant

---------------------------------------------------------------------------
TabAt(o, pc) == tab[o].pc = pc
TabGoes(o, pc) == tab' = [tab EXCEPT ![o].pc = pc]
CloseTab(o) == tab' = [tab EXCEPT ![o] = IdleTab]

\* requireOwner has resolved the owner of a base that is still there.
Asks(o, op, audience, expected) ==
  /\ TabAt(o, "idle") /\ kb
  /\ tab' = [tab EXCEPT ![o] =
       [pc |-> "lookup", op |-> op, expected |-> expected, audience |-> audience, todo |-> {}]]
  /\ UNCHANGED <<pubRows, visit, pubHistory>>

\* A request names the version its page shows; that of a page nobody reloaded
\* is a request that has been on its way since.
AskPublish(o, audience) == Asks(o, "publish", audience, pub.version)
AskUpdate(o, audience) == Exists /\ Asks(o, "update", audience, pub.version)
AskUnpublish(o) == Exists /\ Asks(o, "unpublish", NoAudience, pub.version)
AskDelete(o) == Asks(o, "delete", NoAudience, 0)

\* UnpublishForDeletion: what is published is unpublished, and otherwise the
\* subscriptions are ended once more.
UnpublishesFirst == IF Published THEN "confirm" ELSE "end"

\* GetByKB, with the status and version each operation wants.
Lookup(o) ==
  /\ TabAt(o, "lookup")
  /\ CASE tab[o].op = "publish" /\ ~Exists -> TabGoes(o, "create")
       [] tab[o].op = "publish" /\ Exists /\ ~Published /\ tab[o].expected = pub.version ->
            TabGoes(o, "write")
       [] tab[o].op = "update" /\ Published /\ tab[o].expected = pub.version ->
            TabGoes(o, "write")
       [] tab[o].op = "unpublish" /\ Exists /\ tab[o].expected = pub.version ->
            TabGoes(o, IF Published THEN "write" ELSE "end")
       [] tab[o].op = "delete" /\ Exists ->
            tab' = [tab EXCEPT ![o].pc = UnpublishesFirst,
                               ![o].expected = pub.version]
       [] tab[o].op = "delete" /\ ~Exists -> TabGoes(o, "delete")
       [] OTHER -> CloseTab(o)
  /\ UNCHANGED <<pubRows, visit, pubHistory>>

\* A slip: the conflict of the Unpublish inside is not passed on.
ConfirmAnyway(o) ==
  /\ TabAt(o, "confirm")
  /\ TabGoes(o, IF tab[o].expected = pub.version THEN "write" ELSE "delete")
  /\ UNCHANGED <<pubRows, visit, pubHistory>>

\* The Unpublish inside UnpublishForDeletion reads the row again.
Confirm(o) ==
  /\ TabAt(o, "confirm")
  /\ IF tab[o].expected = pub.version THEN TabGoes(o, "write") ELSE CloseTab(o)
  /\ UNCHANGED <<pubRows, visit, pubHistory>>

\* The insert, refused when another tab published first.
Create(o) ==
  /\ TabAt(o, "create") /\ ~Exists
  /\ pub' = [status |-> "published", audience |-> tab[o].audience, version |-> 1]
  /\ CloseTab(o)
  /\ UNCHANGED <<kb, sub, visit, pubHistory>>

\* A slip: the UPDATE names the row and not its version.
CurrentAnyway(o) == Exists

\* WHERE row_version = expected (and published, to unpublish).
Current(o) ==
  /\ pub.version = tab[o].expected
  /\ tab[o].op \in {"unpublish", "delete"} => Published

\* Update and Unpublish of the repository.
Write(o) ==
  /\ TabAt(o, "write") /\ Current(o) /\ pub.version < MaxVersion
  /\ IF tab[o].op \in {"publish", "update"}
       THEN pub' = [status |-> "published", audience |-> tab[o].audience,
                    version |-> pub.version + 1]
       ELSE pub' = [pub EXCEPT !.status = "unpublished", !.version = pub.version + 1]
  /\ withdrawn' = IF tab[o].op \in {"publish", "update"} THEN withdrawn
                  ELSE withdrawn \cup {pub.version + 1}
  /\ IF tab[o].op = "publish" THEN CloseTab(o)
     ELSE TabGoes(o, IF tab[o].op = "update" THEN "select" ELSE "end")
  /\ UNCHANGED <<kb, sub, visit, joined, stale, interrupted>>

WriteRefused(o) ==
  /\ \/ TabAt(o, "create") /\ Exists
     \/ TabAt(o, "write") /\ ~Current(o)
  /\ CloseTab(o)
  /\ UNCHANGED <<pubRows, visit, pubHistory>>

\* A slip: the workspaces the update adds are taken for those it leaves out.
OutsideBefore(o, u) == sub[u].tenant \in tab[o].audience

Outside(o, u) == sub[u].tenant \notin tab[o].audience

\* InactivateOutsideAudience reads the active subscriptions whose workspace the
\* new audience leaves out ...
Select(o) ==
  /\ TabAt(o, "select")
  /\ tab' = [tab EXCEPT ![o].pc = "end",
                        ![o].todo = {u \in Subscribers : Active(u) /\ Outside(o, u)}]
  /\ UNCHANGED <<pubRows, visit, pubHistory>>

\* ... and ends those that are active still; InactivatePublication ends all
\* that are active, in one statement.
End(o) ==
  /\ TabAt(o, "end")
  /\ sub' = [u \in Subscribers |->
       IF Active(u) /\ (tab[o].op = "update" => u \in tab[o].todo)
         THEN [sub[u] EXCEPT !.status = "inactive"] ELSE sub[u]]
  /\ IF tab[o].op = "delete" THEN TabGoes(o, "delete") ELSE CloseTab(o)
  /\ UNCHANGED <<kb, pub, visit, pubHistory>>

\* The gate forwards the deletion; the upstream accepts.
Delete(o) ==
  /\ TabAt(o, "delete")
  /\ kb' = FALSE
  /\ CloseTab(o)
  /\ UNCHANGED <<pub, sub, visit, pubHistory>>

\* A statement fails or the process stops.
TabDies(o) ==
  /\ ~TabAt(o, "idle")
  /\ CloseTab(o)
  /\ interrupted' = (interrupted \/ tab[o].pc \in {"select", "end"})
  /\ UNCHANGED <<pubRows, visit, withdrawn, joined, stale>>
---------------------------------------------------------------------------
VisitAt(v, pc) == visit[v].pc = pc
VisitGoes(v, pc) == visit' = [visit EXCEPT ![v].pc = pc]
CloseVisit(v) == visit' = [visit EXCEPT ![v] = IdleVisit]
Row(v) == sub[visit[v].user]

\* Subscribe wants a publication that the visitor may see, Unsubscribe takes any.
VisibleNow(v) == visit[v].op # "unsubscribe" => VisibleTo(visit[v].tenant)

Visiting(v, op, u, tenant) ==
  /\ VisitAt(v, "idle") /\ Exists
  /\ visit' = [visit EXCEPT ![v] = [IdleVisit EXCEPT !.pc = "publication", !.op = op,
                                                     !.user = u, !.tenant = tenant]]
  /\ UNCHANGED <<pubRows, tab, pubHistory>>

\* pubs.Get.
ReadPublication(v) ==
  /\ VisitAt(v, "publication")
  /\ IF VisibleNow(v)
       THEN visit' = [visit EXCEPT
              ![v].looked = IF visit[v].op = "subscribe" THEN pub.version ELSE 0,
              ![v].pc = "lookup"]
       ELSE CloseVisit(v)
  /\ UNCHANGED <<pubRows, tab, pubHistory>>

\* GetByPublicationUser, and where each operation goes from there.
LookupRow(v) ==
  LET u == visit[v].user  tenant == visit[v].tenant IN
  /\ VisitAt(v, "lookup")
  /\ CASE visit[v].op = "subscribe" /\ Row(v).status = "none" -> VisitGoes(v, "create")
       [] visit[v].op = "subscribe" /\ Row(v).status # "none" /\ ~Effective(u, tenant) ->
            VisitGoes(v, "activate")
       [] visit[v].op = "unsubscribe" /\ Row(v).tenant = tenant
            /\ Row(v).status # "unsubscribed" -> VisitGoes(v, "unsubscribe")
       [] OTHER -> CloseVisit(v)
  /\ UNCHANGED <<pubRows, tab, pubHistory>>

\* The insert, refused when another request of the user was faster, and the
\* update by id, whatever became of the row and of the publication.
Subscribe(v) ==
  LET u == visit[v].user IN
  /\ \/ VisitAt(v, "create") /\ Row(v).status = "none"
     \/ VisitAt(v, "activate")
  /\ sub' = [sub EXCEPT ![u] = [status |-> "active", tenant |-> visit[v].tenant]]
  /\ stale' = IF visit[v].looked = pub.version THEN stale \ {u} ELSE stale \cup {u}
  /\ joined' = [joined EXCEPT ![u] = visit[v].looked]
  /\ CloseVisit(v)
  /\ UNCHANGED <<kb, pub, tab, withdrawn, interrupted>>

Unsubscribe(v) ==
  /\ VisitAt(v, "unsubscribe")
  /\ sub' = [sub EXCEPT ![visit[v].user].status = "unsubscribed"]
  /\ CloseVisit(v)
  /\ UNCHANGED <<kb, pub, tab, pubHistory>>

\* A refused insert, a failed statement, a client that is gone.
VisitDies(v) ==
  /\ ~VisitAt(v, "idle")
  /\ CloseVisit(v)
  /\ UNCHANGED <<pubRows, tab, pubHistory>>
---------------------------------------------------------------------------
OwnerAsks(o) ==
  \/ \E audience \in Audiences : AskPublish(o, audience) \/ AskUpdate(o, audience)
  \/ AskUnpublish(o) \/ AskDelete(o)

TabProceeds(o) ==
  \/ Lookup(o) \/ Confirm(o) \/ Create(o) \/ Write(o) \/ WriteRefused(o)
  \/ Select(o) \/ End(o) \/ Delete(o)

VisitProceeds(v) ==
  \/ ReadPublication(v) \/ LookupRow(v)
  \/ Subscribe(v) \/ Unsubscribe(v)

PublicationsNext ==
  \/ \E o \in Tabs : OwnerAsks(o) \/ TabProceeds(o) \/ TabDies(o)
  \/ \E v \in Visits :
       \/ \E op \in {"subscribe", "unsubscribe"}, u \in Subscribers, t \in Tenants :
            Visiting(v, op, u, t)
       \/ VisitProceeds(v) \/ VisitDies(v)

PublicationsSpec == PublicationsInit /\ [][PublicationsNext]_pubVars
---------------------------------------------------------------------------
\* Some owner's request has changed the row and has still to end subscriptions.
Ending == \E o \in Tabs : tab[o].pc \in {"select", "end"}

\* A subscription whose workspace the publication no longer lets in has ended,
\* or is about to, unless the request to end it was interrupted or the
\* subscriber's own request had looked before the change and wrote after it.
SubscriptionsEndWithTheirAudience ==
  \A u \in Subscribers :
    Active(u) /\ ~VisibleTo(sub[u].tenant) => u \in stale \/ interrupted \/ Ending

\* docs/archive/design/overall-design-v0.7.md:269: unpublishing "removes the
\* listing, ends organization-public access, and makes its subscriptions
\* inactive".
SubscriptionsEndWithPublication ==
  ~Published /\ ~Ending /\ ~interrupted => \A u \in Subscribers : ~Active(u)

\* A change of the publication is the next version, made by a request that was
\* given the last one.
EditBuildsOnWhatItSaw ==
  pub' # pub =>
    /\ pub'.version = pub.version + 1
    /\ \E o \in Tabs :
         /\ tab'[o] # tab[o]
         /\ Exists => tab[o].expected = pub.version
         /\ pub'.status = "published" /\ ~Published => tab[o].op = "publish"

\* Two tabs, or a tab and a deletion, never overwrite each other: a change of
\* the publication is made by a request that was given the version it changes,
\* and an unpublished one comes back by a request to publish only.
EditsBuildOnWhatTheySaw == [][EditBuildsOnWhatItSaw]_pubVars

\* Version v was not published, and whoever is subscribed looked at a later one,
\* or looked at one and wrote when there was another.
EndedAt(v) ==
  /\ v \in withdrawn
  /\ \A u \in Subscribers : Active(u) => joined[u] > v \/ u \in stale

\* UnpublishForDeletion: a deletion is forwarded only when the publication has
\* been unpublished since the deletion read it (or had not been published
\* then), and all its subscriptions have ended since; who is subscribed came
\* after that, by a publication that another tab has made since or by the race
\* of SubscriptionsEndWithTheirAudience.
DeletionFollowsUnpublishing ==
  [][kb /\ ~kb' => \E o \in Tabs :
       /\ TabAt(o, "delete") /\ TabAt(o, "idle")'
       /\ \E v \in withdrawn : v >= tab[o].expected /\ EndedAt(v)]_pubVars
---------------------------------------------------------------------------
\* Request o will end the subscription of u.
Ends(o, u) ==
  \/ TabAt(o, "select") /\ Outside(o, u)
  \/ TabAt(o, "end") /\ (tab[o].op = "update" => u \in tab[o].todo)

\* The inductive form of SubscriptionsEndWithTheirAudience: each subscription
\* that has to end is in the hands of a request.
SubscriptionsAreEnded ==
  \A u \in Subscribers :
    Active(u) /\ ~VisibleTo(sub[u].tenant) =>
      u \in stale \/ interrupted \/ \E o \in Tabs : Ends(o, u)

\* What a request of the owner knows: with the version it was given go the
\* status it found, and the status it left.
TabKnows(o) ==
  LET w == tab[o]  current == tab[o].expected = pub.version IN
  /\ w.expected <= pub.version
  /\ w.pc = "create" => w.op = "publish"
  /\ w.pc \in {"confirm", "delete"} => w.op = "delete"
  /\ w.pc = "select" => w.op = "update"
  /\ w.pc = "write" /\ current =>
       (w.op = "publish" => ~Published) /\ (w.op = "update" => Published)
  /\ w.pc = "end" => w.op # "publish"
  /\ w.pc \in {"end", "delete"} /\ w.op = "delete" /\ current => ~Published

\* What a subscriber's request knows: the version it looked at let it in.
VisitKnows(v) ==
  /\ visit[v].pc # "idle" => visit[v].user \in Subscribers /\ visit[v].tenant \in Tenants
  /\ visit[v].pc \in {"create", "activate"} => visit[v].op = "subscribe"
  /\ visit[v].pc \in {"lookup", "create", "activate"} /\ visit[v].op = "subscribe" =>
       /\ visit[v].looked <= pub.version
       /\ visit[v].looked = pub.version => VisibleTo(visit[v].tenant)

\* The inductive invariant.
PublicationsInv ==
  /\ PublicationsTypeOK /\ (Published => Exists)
  /\ (\A o \in Tabs : TabKnows(o)) /\ (\A v \in Visits : VisitKnows(v))
  /\ SubscriptionsAreEnded

\* A version is one of withdrawn when and only when it is not published.
WithdrawnWereUnpublished ==
  /\ \A v \in withdrawn : v <= pub.version
  /\ pub.version \in withdrawn <=> ~Published

\* What a deletion has brought about: since it read the publication that has
\* been unpublished, and then its subscriptions have ended.
DeletionKnows(o) ==
  /\ TabAt(o, "end") /\ tab[o].op = "delete" => \E v \in withdrawn : v >= tab[o].expected
  /\ TabAt(o, "delete") => \E v \in withdrawn : v >= tab[o].expected /\ EndedAt(v)

\* The inductive invariant of deletions, on top of that of publications.
DeletionsInv ==
  /\ PublicationsInv /\ WithdrawnWereUnpublished /\ EndedAt(0)
  /\ \A o \in Tabs : DeletionKnows(o)
=============================================================================
