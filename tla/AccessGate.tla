----------------------------- MODULE AccessGate -----------------------------
(***************************************************************************)
(* The access gate in front of the upstream (access/gate.go) with what it  *)
(* decides by: authorization/decision.go, ownership, routeaction,          *)
(* agentscope, library, sessionscope.  For each request of one employee    *)
(* the gate collects the knowledge bases it is about - those named, those  *)
(* resolved for a conversation, those the session has been answered from   *)
(* before - decides every one with a query for the grant, one for the      *)
(* publication and one for the subscription, records the session's scope   *)
(* and forwards.  Owners change grants and publications all the while      *)
(* (Grants and Publications are about how they do).                        *)
(***************************************************************************)
EXTENDS Naturals

CONSTANTS
  Requests,    \* slots for requests of the employee
  KBs,         \* knowledge bases
  Owned,       \* those of the employee
  MaxChanges   \* bound: changes of grants, publications and subscriptions

VARIABLES
  grant,       \* grant[k]: what the effective grant of k says
  listing,     \* listing[k]: how k is published to the employee's workspace
  subscribed,  \* the bases whose publication has an active subscription
  scope,       \* session_kb_scopes of the employee's session
  content,     \* upstream: bases the session has been answered from
  req,         \* req[r]: where request r is, with its locals
  since,       \* history: since[r], facts that have held since r came
  before,      \* history: before[r], the content of the session when r came
  changes      \* number of changes so far

facts == <<grant, listing, subscribed>>
vars == <<facts, scope, content, req, since, before, changes>>
history == <<since, before, changes>>

Roles == {"none", "viewer", "editor"}
Listings == {"none", "subscriber", "organization_public"}

\* What the routes of the inventory ask for: conversations and searches over
\* bases, the messages of the session, and actions on the base in the path.
Retrievals == {"chat", "search"}
PathActions == {"read", "download", "edit", "rename", "configure"}
Operations == Retrievals \cup PathActions \cup {"messages", "list"}
Points == {"idle", "resolve", "session", "grant", "publication", "subscription",
           "record", "forward", "results"}

Idle == [pc |-> "idle", op |-> "read", kbs |-> {}, asked |-> {}, todo |-> {}]

Request == [pc : Points, op : Operations, kbs : SUBSET KBs, asked : SUBSET KBs,
            todo : SUBSET KBs]
Facts == KBs \X {"viewer", "editor", "listed", "public", "subscribed"}

TypeOK ==
  /\ grant \in [KBs -> Roles] /\ listing \in [KBs -> Listings]
  /\ subscribed \subseteq KBs /\ scope \subseteq KBs /\ content \subseteq KBs
  /\ req \in [Requests -> Request]
  /\ since \in [Requests -> SUBSET Facts]
  /\ before \in [Requests -> SUBSET KBs]
  /\ changes \in Nat

Init ==
  /\ grant = [k \in KBs |-> "none"] /\ listing = [k \in KBs |-> "none"]
  /\ subscribed = {} /\ scope = {} /\ content = {}
  /\ req = [r \in Requests |-> Idle]
  /\ since = [r \in Requests |-> {}] /\ before = [r \in Requests |-> {}]
  /\ changes = 0
---------------------------------------------------------------------------
At(r, pc) == req[r].pc = pc
Goes(r, pc) == req' = [req EXCEPT ![r].pc = pc]

\* The facts about the bases that hold now.
Now ==
  {<<k, grant[k]>> : k \in {k \in KBs : grant[k] # "none"}}
    \cup {<<k, "listed">> : k \in {k \in KBs : listing[k] # "none"}}
    \cup {<<k, "public">> : k \in {k \in KBs : listing[k] = "organization_public"}}
    \cup {<<k, "subscribed">> : k \in subscribed}

Leave(r) ==
  /\ req' = [req EXCEPT ![r] = Idle]
  /\ since' = [since EXCEPT ![r] = {}]
  /\ before' = [before EXCEPT ![r] = {}]
  /\ UNCHANGED <<facts, scope, content, changes>>

Step(r, q) ==
  /\ req' = [req EXCEPT ![r] = q]
  /\ UNCHANGED <<facts, scope, content, history>>

Come(r, op, pc, asked, todo) ==
  /\ At(r, "idle")
  /\ req' = [req EXCEPT ![r] =
       [pc |-> pc, op |-> op, kbs |-> todo, asked |-> asked, todo |-> todo]]
  /\ since' = [since EXCEPT ![r] = Now]
  /\ before' = [before EXCEPT ![r] = content]
  /\ UNCHANGED <<facts, scope, content, changes>>

\* A conversation or search: bases it names, or none for the default; an agent
\* without bases makes a pure chat.
AskRetrieval(r, op, asked) == Come(r, op, "resolve", asked, {})
AskPureChat(r) == Come(r, "chat", "session", {}, {})

\* The messages of the session, and a base in the path.
AskMessages(r) == Come(r, "messages", "session", {}, {})
AskPath(r, op, k) == Come(r, op, "grant", {k}, {k})

\* A list: it is forwarded, and what is decided are the items of the answer.
AskList(r) == Come(r, "list", "grant", KBs, KBs)

\* What Authorize lets the employee read.
Readable(k) ==
  \/ k \in Owned \/ grant[k] # "none"
  \/ listing[k] = "organization_public"
  \/ listing[k] # "none" /\ k \in subscribed

\* library ViewAll, which the default selection is: owned, shared, subscribed.
Library ==
  {k \in KBs : k \in Owned \/ grant[k] # "none" \/ (listing[k] # "none" /\ k \in subscribed)}

\* agentscope Resolve: all that were named must be readable.  The gate decides
\* each of the result again below, a query at a time.
Resolve(r) ==
  LET asked == req[r].asked
      resolved == IF asked = {} THEN Library ELSE asked
  IN
  /\ At(r, "resolve")
  /\ IF resolved # {} /\ \A k \in asked : Readable(k)
       THEN Step(r, [req[r] EXCEPT !.pc = IF req[r].op = "chat" THEN "session" ELSE "grant",
                                   !.asked = resolved, !.kbs = resolved, !.todo = resolved])
       ELSE Leave(r)

\* A slip: a conversation is decided for the bases it asks, not for those its
\* session was answered from before.
ReadSessionForMessages(r) ==
  LET stored == IF req[r].op = "messages" THEN scope ELSE {} IN
  /\ At(r, "session")
  /\ Step(r, [req[r] EXCEPT !.pc = "grant", !.kbs = @ \cup stored, !.todo = @ \cup stored])

\* sessions.ListKnowledgeBases: what is stored is decided as well.
ReadSession(r) ==
  /\ At(r, "session")
  /\ Step(r, [req[r] EXCEPT !.pc = "grant", !.kbs = @ \cup scope, !.todo = @ \cup scope])
---------------------------------------------------------------------------
\* Decision.Allows for those who are not the owner; the gate adds that
\* subscribers and the public do not download originals.
Allowed(op, role, source) ==
  CASE op = "download" -> source # "publication"
    [] op = "edit" -> role = "editor"
    [] op \in {"configure", "rename"} -> FALSE
    [] OTHER -> TRUE

\* The bases of a list that are not allowed are taken out of it.  A rename,
\* refused as a configuration, is decided anew as what editors may do.  Any
\* other request ends.
Denied(r, k) ==
  CASE req[r].op = "list" ->
         Step(r, [req[r] EXCEPT !.pc = "grant", !.todo = @ \ {k}, !.kbs = @ \ {k}])
    [] req[r].op = "rename" -> Step(r, [req[r] EXCEPT !.pc = "grant", !.op = "edit"])
    [] OTHER -> Leave(r)

Permitted(r, k) == Step(r, [req[r] EXCEPT !.pc = "grant", !.todo = @ \ {k}])

Decided(r, k, role, source) ==
  IF Allowed(req[r].op, role, source) THEN Permitted(r, k) ELSE Denied(r, k)

\* The base that is being decided, in the order of the list.
First(kbs) == CHOOSE k \in kbs : TRUE
Deciding(r) == First(req[r].todo)

\* Owners may do all; a grant decides, whatever is published.
DecideGrant(r) ==
  LET k == Deciding(r) IN
  /\ At(r, "grant") /\ req[r].todo # {}
  /\ IF k \in Owned THEN Permitted(r, k)
     ELSE IF grant[k] = "none" THEN Step(r, [req[r] EXCEPT !.pc = "publication"])
     ELSE Decided(r, k, grant[k], "user_grant")

\* GetPublishedByKB and VisibleTo.
DecidePublication(r) ==
  LET k == Deciding(r) IN
  /\ At(r, "publication")
  /\ CASE listing[k] = "none" -> Denied(r, k)
       [] listing[k] = "organization_public" -> Decided(r, k, "viewer", "publication")
       [] OTHER -> Step(r, [req[r] EXCEPT !.pc = "subscription"])

\* subscriptions.Effective.
DecideSubscription(r) ==
  /\ At(r, "subscription")
  /\ IF Deciding(r) \in subscribed THEN Decided(r, Deciding(r), "viewer", "publication")
                                ELSE Denied(r, Deciding(r))

\* All are decided.
AllDecided(r) ==
  /\ At(r, "grant") /\ req[r].todo = {}
  /\ Step(r, [req[r] EXCEPT !.pc =
       IF req[r].op \in {"chat", "messages"} /\ req[r].kbs # {} THEN "record" ELSE "forward"])

\* RecordKnowledgeBases, in one transaction, before anything is forwarded.
RecordScope(r) ==
  /\ At(r, "record")
  /\ scope' = scope \cup req[r].kbs
  /\ Goes(r, "forward")
  /\ UNCHANGED <<facts, content, history>>

\* The upstream takes the request: a conversation is answered from the bases
\* in its rewritten body and becomes part of the session.
Forward(r) ==
  /\ At(r, "forward") /\ req[r].op # "search"
  /\ content' = IF req[r].op = "chat" THEN content \cup req[r].asked ELSE content
  /\ req' = [req EXCEPT ![r] = Idle]
  /\ since' = [since EXCEPT ![r] = {}]
  /\ before' = [before EXCEPT ![r] = {}]
  /\ UNCHANGED <<facts, scope, changes>>

\* The upstream searches, perhaps in more than it was asked.
ForwardSearch(r, found) ==
  /\ At(r, "forward") /\ req[r].op = "search"
  /\ Step(r, [req[r] EXCEPT !.pc = "results", !.asked = found])

\* validateScopedSearchResponse: every result is from a base that was decided.
InScope(r) == req[r].asked \subseteq req[r].kbs

ShowResults(r) == At(r, "results") /\ InScope(r) /\ Leave(r)
WithholdResults(r) == At(r, "results") /\ ~InScope(r) /\ Leave(r)

\* A query fails, the client leaves, the process stops.
Die(r) == ~At(r, "idle") /\ Leave(r)
---------------------------------------------------------------------------
Changed ==
  /\ changes < MaxChanges /\ changes' = changes + 1
  /\ since' = [r \in Requests |-> IF At(r, "idle") THEN {} ELSE since[r] \cup Now']
  /\ UNCHANGED <<scope, content, req, before>>

\* An owner shares, changes, revokes; publishes, changes, unpublishes.
ChangeGrant(k, role) ==
  /\ k \notin Owned /\ grant' = [grant EXCEPT ![k] = role]
  /\ UNCHANGED <<listing, subscribed>> /\ Changed

ChangeListing(k, as) ==
  /\ k \notin Owned /\ listing' = [listing EXCEPT ![k] = as]
  /\ UNCHANGED <<grant, subscribed>> /\ Changed

ChangeSubscription(k) ==
  /\ k \notin Owned
  /\ subscribed' = IF k \in subscribed THEN subscribed \ {k} ELSE subscribed \cup {k}
  /\ UNCHANGED <<grant, listing>> /\ Changed

Ask(r) ==
  \/ \E op \in Retrievals, asked \in SUBSET KBs : AskRetrieval(r, op, asked)
  \/ AskPureChat(r) \/ AskMessages(r) \/ AskList(r)
  \/ \E op \in PathActions, k \in KBs : AskPath(r, op, k)

Proceed(r) ==
  \/ Resolve(r) \/ ReadSession(r) \/ DecideGrant(r)
  \/ DecidePublication(r) \/ DecideSubscription(r) \/ AllDecided(r)
  \/ RecordScope(r) \/ Forward(r) \/ (\E found \in SUBSET KBs : ForwardSearch(r, found))
  \/ ShowResults(r) \/ WithholdResults(r)

Next ==
  \/ \E r \in Requests : Ask(r) \/ Proceed(r) \/ Die(r)
  \/ \E k \in KBs :
       \/ \E role \in Roles : ChangeGrant(k, role)
       \/ \E as \in Listings : ChangeListing(k, as)
       \/ ChangeSubscription(k)

Spec == Init /\ [][Next]_vars
---------------------------------------------------------------------------
\* The scope of a session covers what it has been answered from: whoever reads
\* it later, and however requests interleave or die, is decided for all of it.
ScopeCoversHistory == content \subseteq scope

\* Facts that give the employee what op needs of k.
Sufficient(op, k, known) ==
  LET granted == <<k, "viewer">> \in known \/ <<k, "editor">> \in known
      following == <<k, "listed">> \in known
                   /\ (<<k, "public">> \in known \/ <<k, "subscribed">> \in known)
  IN k \in Owned \/ CASE op \in {"configure", "rename"} -> FALSE
                       [] op = "edit" -> <<k, "editor">> \in known
                       [] op = "download" -> granted
                       [] OTHER -> granted \/ following

\* What an accepted request of r is about: the bases it was forwarded for, or
\* found in, and those the session had been answered from.
About(r) ==
  CASE req[r].op = "search" -> req[r].asked
    [] req[r].op \in {"chat", "messages"} -> req[r].kbs \cup before[r]
    [] OTHER -> req[r].kbs

\* What a step forwards or shows is allowed by what has held since its request
\* came.
ForwardsWhatHeld ==
  \A r \in Requests : Forward(r) \/ ShowResults(r) =>
    \A k \in About(r) : Sufficient(req[r].op, k, since[r])

\* What is forwarded, found, or shown of a list, rests on facts that have held since
\* the request came, for each of its bases and for all that was in the session
\* by then: what was revoked or unpublished before is out of reach, in old
\* conversations as well.
ForwardedOnWhatHeld == [][ForwardsWhatHeld]_vars

\* Inductive: a request has seen all facts that hold, what it has decided rests
\* on them, and what it collected covers the session as it was when it came.
SinceIsNow ==
  \A r \in Requests : ~At(r, "idle") => Now \subseteq since[r] /\ before[r] \subseteq content

Sound(q, known, old) ==
  /\ q.pc = "idle" => q.kbs = {}
  /\ q.todo \subseteq q.kbs
  /\ \A k \in q.kbs \ q.todo : Sufficient(q.op, k, known)
  /\ q.pc = "resolve" => q.op \in Retrievals
  /\ q.pc \notin {"idle", "resolve", "session"} /\ q.op \in {"chat", "messages"}
       => old \subseteq q.kbs
  /\ q.pc \in {"publication", "subscription"} => q.todo # {}
  /\ q.pc = "subscription" => <<First(q.todo), "listed">> \in known
  /\ q.pc \in {"record", "forward", "results"} => q.todo = {}
  /\ q.pc = "results" => q.op = "search"
  /\ q.pc \notin {"idle", "resolve"} /\ q.op = "chat" => q.asked \subseteq q.kbs

RequestsAreSound == \A r \in Requests : Sound(req[r], since[r], before[r])

ConversationsAreRecorded ==
  \A r \in Requests : At(r, "forward") /\ req[r].op = "chat" => req[r].kbs \subseteq scope

AInv ==
  /\ TypeOK /\ SinceIsNow /\ RequestsAreSound /\ ConversationsAreRecorded
  /\ ScopeCoversHistory
=============================================================================
