---------------------------- MODULE SessionScope ----------------------------
(***************************************************************************)
(* Sessions and the knowledge they may show (internal/nativeaccess,        *)
(* internal/assistant, internal/mcp/native.go).  The upstream keeps        *)
(* sessions and their history and knows one owner for each, the upstream   *)
(* user.  The gateway binds a session to the credential that opened it     *)
(* (the person, or one API key) and to the assistant channel it was opened *)
(* through, together with the union of the knowledge bases its questions   *)
(* were ever sent with, and checks every request on it against what the    *)
(* credential may read now.                                                *)
(*                                                                         *)
(* The credentials modelled are those of one upstream user, whose sessions *)
(* the upstream does not tell apart; other users it refuses itself.  An    *)
(* answer to a question, and a reading of the history, may repeat anything *)
(* the session was ever answered from.  Audit events, rate limits, model   *)
(* checks, the reference filter and the checks of the channel's own scope  *)
(* only refuse requests: they are Fail, with everything else that can fail.*)
(***************************************************************************)
EXTENDS Naturals

CONSTANTS
  Actors,      \* the person, and the API keys of the same upstream user
  KBs,         \* knowledge bases
  Sessions,    \* upstream session ids
  Channels,    \* assistant channels, each with its agent and host origin
  Requests,    \* slots for concurrent requests
  NoActor,     \* the session is not bound
  Main         \* not a channel: the main site or MCP

ASSUME NoneAssumption == NoActor \notin Actors /\ Main \notin Channels

VARIABLES
  access,      \* upstream: access[a]: what a may read now
  session,     \* upstream: the state of each session
  history,     \* upstream: the knowledge bases a session was answered from
  work,        \* upstream: work[r]: the question of r being answered
  binding,     \* binding[s]: the row of native_session_bindings, with its
               \* channel in assistant_sessions
  req,         \* req[r]: where request r is, with its locals
  lost,        \* history: lost[r]: what the credential of r could not read
               \* when r arrived and was not granted since
  readers      \* history: readers[s]: the credentials that were answered
               \* about session s, with the channel they used

upstream == <<access, session, history, work>>
vars == <<upstream, binding, req, lost, readers>>

Vias == Channels \cup {Main}
Kinds == {"open", "ask", "read", "delete", "tool"}
Points == {"idle", "binding", "recheck", "select", "explicit", "default",
           "create", "bind", "send", "answer", "reply"}

\* The session of a request, if it has one.
Named == {{}} \cup {{s} : s \in Sessions}

\* todo is what is left to check, scope what the question may be answered from.
Idle == [pc |-> "idle", kind |-> "read", actor |-> NoActor, via |-> Main,
         session |-> {}, todo |-> {}, scope |-> {}, text |-> {}]
NoWork == [session |-> {}, kbs |-> {}]
Request == [pc : Points, kind : Kinds, actor : Actors \cup {NoActor}, via : Vias,
            session : Named, todo : SUBSET KBs, scope : SUBSET KBs,
            text : SUBSET KBs]
Unbound == [actor |-> NoActor, via |-> Main, kbs |-> {}]

AccessType == access \in [Actors -> SUBSET KBs]
SessionType ==
  /\ session \in [Sessions -> {"absent", "open", "deleted"}]
  /\ history \in [Sessions -> SUBSET KBs]
BindingType ==
  binding \in [Sessions -> [actor : Actors \cup {NoActor}, via : Vias,
                            kbs : SUBSET KBs]]
RequestType == req \in [Requests -> Request]
WorkType == work \in [Requests -> [session : Named, kbs : SUBSET KBs]]
HistoryType ==
  /\ lost \in [Requests -> SUBSET KBs]
  /\ readers \in [Sessions -> SUBSET (Actors \X Vias)]

\* Rows, requests and upstream state keep their types.
TypeOK == AccessType /\ SessionType /\ BindingType /\ RequestType
          /\ WorkType /\ HistoryType

\* A session is new, or one of before the gateway that nothing has bound.
Init ==
  /\ access \in [Actors -> SUBSET KBs]
  /\ session \in [Sessions -> {"absent", "open"}]
  /\ history = [s \in Sessions |-> IF session[s] = "open" THEN KBs ELSE {}]
  /\ work = [r \in Requests |-> NoWork]
  /\ binding = [s \in Sessions |-> Unbound]
  /\ req = [r \in Requests |-> Idle]
  /\ lost = [r \in Requests |-> {}]
  /\ readers = [s \in Sessions |-> {}]

Put(r, q) == req' = [req EXCEPT ![r] = q]
Leave(r) == Put(r, Idle) /\ lost' = [lost EXCEPT ![r] = {}]

\* A slip: a new session starts at a point no handler has.
FirstPointUnknown(k) == CASE k = "open" -> "new" [] k = "tool" -> "select"
                          [] OTHER -> "binding"

\* ResolveActor, the gate and consume up to the session: the credential, the
\* channel and the session named by the request.  The MCP tool chooses its
\* scope before it looks at the session; a new session needs no check.
FirstPoint(k) == CASE k = "open" -> "create" [] k = "tool" -> "select"
                   [] OTHER -> "binding"
Arrive(r, a, via, k, ss) ==
  /\ req[r].pc = "idle" /\ work[r] = NoWork
  /\ k = "open" => ss = {}
  /\ k \in {"ask", "read", "delete"} => ss # {}
  /\ k = "tool" => via = Main
  /\ Put(r, [Idle EXCEPT !.pc = FirstPoint(k), !.kind = k, !.actor = a,
                         !.via = via, !.session = ss])
  /\ lost' = [lost EXCEPT ![r] = KBs \ access[a]]
  /\ UNCHANGED <<upstream, binding, readers>>

\* A slip: the loop over the knowledge bases of the binding is left out.
ReadBindingOnly(r) ==
  /\ req[r].pc = "binding"
  /\ \E s \in req[r].session :
       /\ binding[s].actor = req[r].actor
       /\ binding[s].via = req[r].via
       /\ session[s] = "open"
       /\ Put(r, [req[r] EXCEPT !.pc = "recheck"])
  /\ UNCHANGED <<upstream, binding, lost, readers>>
\* A slip: the channel is compared and the credential is not.
ReadBindingOfUser(r) ==
  /\ req[r].pc = "binding"
  /\ \E s \in req[r].session :
       /\ binding[s].actor # NoActor
       /\ binding[s].via = req[r].via
       /\ session[s] = "open"
       /\ Put(r, [req[r] EXCEPT !.pc = "recheck", !.todo = binding[s].kbs])
  /\ UNCHANGED <<upstream, binding, lost, readers>>

\* CheckSession up to its loop: the row names this credential, SessionGuard
\* this channel, and ValidateSession finds the session.
ReadBinding(r) ==
  /\ req[r].pc = "binding"
  /\ \E s \in req[r].session :
       /\ binding[s].actor = req[r].actor
       /\ binding[s].via = req[r].via
       /\ session[s] = "open"
       /\ Put(r, [req[r] EXCEPT !.pc = "recheck", !.todo = binding[s].kbs])
  /\ UNCHANGED <<upstream, binding, lost, readers>>

\* Resolve: the knowledge bases the question names, or those it defaults to
\* (what the upstream lists, or the agent's).
Select(r) ==
  /\ req[r].pc = "select"
  /\ \E pc \in {"explicit", "default"}, kbs \in SUBSET KBs :
       /\ pc = "explicit" => kbs # {}
       /\ Put(r, [req[r] EXCEPT !.pc = pc, !.todo = kbs])
  /\ UNCHANGED <<upstream, binding, lost, readers>>

\* One CheckKB.  A default scope goes without what is not readable; for a
\* binding or an explicit scope that is the end of the request (Fail).
CheckKB(r) ==
  /\ req[r].pc \in {"recheck", "explicit", "default"}
  /\ \E kb \in req[r].todo :
       LET readable == kb \in access[req[r].actor]
           q == [req[r] EXCEPT !.todo = @ \ {kb}]
       IN  \/ readable /\ q.pc = "recheck" /\ Put(r, q)
           \/ readable /\ q.pc # "recheck"
                /\ Put(r, [q EXCEPT !.scope = @ \cup {kb}])
           \/ ~readable /\ q.pc = "default" /\ Put(r, q)
  /\ UNCHANGED <<upstream, binding, lost, readers>>

\* A slip: the question goes out with its scope unrecorded.
AfterChecksUnbound(q) ==
  IF q.pc = "recheck"
    THEN CASE q.kind = "ask" -> "select" [] q.kind = "tool" -> "bind"
           [] OTHER -> "send"
    ELSE IF q.kind = "ask" THEN "send"
         ELSE IF q.session = {} THEN "create" ELSE "binding"

\* The loops over, in the order of Check, of Resolve and of the MCP tool.
AfterChecks(q) ==
  IF q.pc = "recheck"
    THEN CASE q.kind = "ask" -> "select" [] q.kind = "tool" -> "bind"
           [] OTHER -> "send"
    ELSE IF q.kind = "ask" THEN "bind"
         ELSE IF q.session = {} THEN "create" ELSE "binding"
Checked(r) ==
  /\ req[r].pc \in {"recheck", "explicit", "default"} /\ req[r].todo = {}
  /\ Put(r, [req[r] EXCEPT !.pc = AfterChecks(req[r])])
  /\ UNCHANGED <<upstream, binding, lost, readers>>

\* POST /api/v1/sessions: the upstream makes a session.
Create(r) ==
  /\ req[r].pc = "create"
  /\ \E s \in Sessions :
       /\ session[s] = "absent"
       /\ session' = [session EXCEPT ![s] = "open"]
       /\ Put(r, [req[r] EXCEPT !.pc = "bind", !.session = {s}])
  /\ UNCHANGED <<access, history, work, binding, lost, readers>>

\* A slip: the new scope replaces the union.
BoundAnew(b, q) == [actor |-> q.actor, kbs |-> q.scope,
                    via |-> IF b.actor = NoActor THEN q.via ELSE b.via]

\* Bind inserts the row or extends the union of the same credential; in a
\* channel Store.Create inserts the row with its channel.
Bound(b, q) == [actor |-> q.actor, kbs |-> b.kbs \cup q.scope,
                via |-> IF b.actor = NoActor THEN q.via ELSE b.via]
Bind(r) ==
  /\ req[r].pc = "bind"
  /\ \E s \in req[r].session :
       /\ binding[s].actor \in {NoActor, req[r].actor}
       /\ binding' = [binding EXCEPT ![s] = Bound(binding[s], req[r])]
       /\ Put(r, [req[r] EXCEPT !.pc = IF req[r].kind = "open" THEN "reply" ELSE "send"])
  /\ UNCHANGED <<upstream, lost, readers>>

\* The request reaches the upstream under the same credential, which reads the
\* history, deletes the session, or starts to answer the question from what
\* that credential may read of the scope.
Send(r) ==
  /\ req[r].pc = "send"
  /\ \E s \in req[r].session :
       /\ session[s] = "open"
       /\ \/ /\ req[r].kind = "read"
             /\ Put(r, [req[r] EXCEPT !.pc = "reply", !.text = history[s]])
             /\ UNCHANGED <<session, work>>
          \/ /\ req[r].kind = "delete"
             /\ Put(r, [req[r] EXCEPT !.pc = "reply"])
             /\ session' = [session EXCEPT ![s] = "deleted"]
             /\ UNCHANGED work
          \/ /\ req[r].kind \in {"ask", "tool"}
             /\ Put(r, [req[r] EXCEPT !.pc = "answer", !.scope = {}])
             /\ work' = [work EXCEPT ![r] =
                  [session |-> {s}, kbs |-> req[r].scope \cap access[req[r].actor]]]
             /\ UNCHANGED session
  /\ UNCHANGED <<access, history, binding, lost, readers>>

\* The upstream's answer, also to a request that is gone by then.
Answer(r) ==
  /\ \E s \in work[r].session :
       LET known == history[s] \cup work[r].kbs
       IN  /\ history' = [history EXCEPT ![s] = known]
           /\ IF req[r].pc = "answer"
                THEN Put(r, [req[r] EXCEPT !.pc = "reply", !.text = known])
                ELSE UNCHANGED req
  /\ work' = [work EXCEPT ![r] = NoWork]
  /\ UNCHANGED <<access, session, binding, lost, readers>>

\* FilterResponse lets the answer through.
Reply(r) ==
  /\ req[r].pc = "reply"
  /\ readers' = [s \in Sessions |->
       IF s \in req[r].session THEN readers[s] \cup {<<req[r].actor, req[r].via>>}
       ELSE readers[s]]
  /\ Leave(r)
  /\ UNCHANGED <<upstream, binding>>

\* The request ends in an error, or with its client or the gateway.
Fail(r) ==
  /\ req[r].pc # "idle"
  /\ Leave(r)
  /\ UNCHANGED <<upstream, binding, readers>>

\* Shares and memberships change upstream.
Revoke(a, kb) ==
  /\ kb \in access[a]
  /\ access' = [access EXCEPT ![a] = @ \ {kb}]
  /\ UNCHANGED <<session, history, work, binding, req, lost, readers>>
Grant(a, kb) ==
  /\ kb \notin access[a]
  /\ access' = [access EXCEPT ![a] = @ \cup {kb}]
  /\ lost' = [r \in Requests |-> IF req[r].actor = a THEN lost[r] \ {kb} ELSE lost[r]]
  /\ UNCHANGED <<session, history, work, binding, req, readers>>

Next ==
  \/ \E r \in Requests, a \in Actors, via \in Vias, k \in Kinds, ss \in Named :
        Arrive(r, a, via, k, ss)
  \/ \E r \in Requests :
       \/ ReadBinding(r) \/ Select(r) \/ CheckKB(r) \/ Checked(r)
       \/ Create(r) \/ Bind(r) \/ Send(r) \/ Answer(r) \/ Reply(r) \/ Fail(r)
  \/ \E a \in Actors, kb \in KBs : Revoke(a, kb) \/ Grant(a, kb)

Spec == Init /\ [][Next]_vars
-----------------------------------------------------------------------------
\* What a request is answered was never learnt from a knowledge base its
\* credential had lost before the request arrived and not got back since,
\* whatever other requests add to the session in the meantime (CheckSession).
RevocationReachesHistory == \A r \in Requests : req[r].text \cap lost[r] = {}

\* The row of a bound session holds all that the session was answered from and
\* all that questions still being answered may add: Bind comes before the
\* question goes out, and an answer nobody waits for counts too.
Answering(s) == UNION {work[r].kbs : r \in {q \in Requests : s \in work[q].session}}
BindingCoversHistory ==
  \A s \in Sessions : binding[s].actor # NoActor
                        => history[s] \cup Answering(s) \subseteq binding[s].kbs

\* One credential, through one channel, is ever answered about a session:
\* another key of the same user, the main site for a channel's session and
\* sessions of before the gateway never are.
OnePrincipalPerSession ==
  \A s \in Sessions : \A p, q \in readers[s] : p = q

\* A bound session keeps its credential and its channel, and no request makes
\* the gateway forget a knowledge base the session was asked with.
BindingsOnlyGrow ==
  [][\A s \in Sessions : binding[s].actor # NoActor =>
        /\ binding'[s].actor = binding[s].actor
        /\ binding'[s].via = binding[s].via
        /\ binding[s].kbs \subseteq binding'[s].kbs]_vars
-----------------------------------------------------------------------------
\* What the proofs need besides.  Owner says at which points CheckSession has
\* accepted the session of a request, Told what the history of a session holds
\* or is about to.
Owner(q) == \/ q.pc \in {"recheck", "send", "answer", "reply"}
            \/ q.kind = "ask" /\ q.pc \in {"select", "explicit", "default", "bind"}
Owned(q, s) == /\ binding[s].actor # NoActor
               /\ binding[s].actor = q.actor /\ binding[s].via = q.via
Told(s, kb) == \/ kb \in history[s]
               \/ \E r \in Requests : s \in work[r].session /\ kb \in work[r].kbs

\* A question in an existing session never makes another one.
AskersHaveSession == \A r \in Requests : req[r].pc = "create" => req[r].kind # "ask"
OwnersHoldTheirSession ==
  \A r \in Requests : Owner(req[r]) => \A s \in req[r].session : Owned(req[r], s)
\* A request about to bind made the session itself, unseen by any other.
Unseen(r, s) == /\ binding[s].actor = NoActor /\ session[s] # "absent" /\ history[s] = {}
                /\ \A q \in Requests \ {r} : req[q].pc = "bind" => s \notin req[q].session
BindersHoldTheirSession ==
  \A r \in Requests : req[r].pc = "bind" =>
    \A s \in req[r].session : Owned(req[r], s) \/ Unseen(r, s)
RowsCover ==
  \A s \in Sessions :
    /\ session[s] = "absent" => binding[s].actor = NoActor /\ history[s] = {}
    /\ binding[s].actor # NoActor => history[s] \subseteq binding[s].kbs
ReadersAreOwners ==
  \A s \in Sessions : \A p \in readers[s] :
    binding[s].actor # NoActor /\ p = <<binding[s].actor, binding[s].via>>
QuestionsAreCovered ==
  \A r \in Requests :
    /\ \A s \in work[r].session :
         binding[s].actor # NoActor /\ work[r].kbs \subseteq binding[s].kbs
    /\ req[r].pc = "send" /\ req[r].kind \in {"ask", "tool"} =>
         \A s \in req[r].session : req[r].scope \subseteq binding[s].kbs
    /\ req[r].pc = "answer" => work[r].session \subseteq req[r].session
\* What was lost stays unread while it is lost ...
LostIsUnreadable ==
  \A r \in Requests : req[r].pc # "idle" =>
    req[r].actor \in Actors /\ access[req[r].actor] \cap lost[r] = {}
\* ... so what a session was told of it the loop of CheckSession has yet to meet.
LostIsUntold ==
  \A r \in Requests : Owner(req[r]) \/ req[r].pc = "bind" =>
    \A s \in req[r].session : \A kb \in lost[r] :
      Told(s, kb) => req[r].pc = "recheck" /\ kb \in req[r].todo

SInv == /\ TypeOK /\ AskersHaveSession /\ OwnersHoldTheirSession
        /\ BindersHoldTheirSession /\ RowsCover /\ ReadersAreOwners
        /\ QuestionsAreCovered /\ LostIsUnreadable /\ LostIsUntold
        /\ RevocationReachesHistory
===========================================================================
