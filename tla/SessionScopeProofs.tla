------------------------- MODULE SessionScopeProofs -------------------------
(***************************************************************************)
(* Proofs about SessionScope and RateWindow, for any credentials,          *)
(* knowledge bases, sessions, channels and concurrent requests, and any    *)
(* windows and budgets.                                                    *)
(*                                                                         *)
(* The sessions first.  SInv says that a request past CheckSession holds   *)
(* the session for its credential, that what was asked is in the row       *)
(* before the upstream hears of it, and that what the request's credential *)
(* had lost is not in the history it goes on to see.                       *)
(***************************************************************************)
EXTENDS MCSessionScope, FiniteSetTheorems, TLAPS

LEMMA InitiallyHeld == Init => SInv
PROOF
  <1> SUFFICES ASSUME Init PROVE SInv
    OBVIOUS
  <1>1. Idle \in Request
    BY DEF Idle, Request, Points, Kinds, Vias, Named
  <1>2. RequestType /\ WorkType /\ HistoryType
    BY <1>1 DEF Init, RequestType, WorkType, HistoryType, NoWork, Named
  <1>3. Unbound \in [actor : Actors \cup {NoActor}, via : Vias, kbs : SUBSET KBs]
    BY DEF Unbound, Vias
  <1>4. AccessType /\ SessionType /\ BindingType
    BY <1>3 DEF Init, AccessType, SessionType, BindingType
  <1>5. \A r \in Requests : /\ req[r].pc = "idle" /\ req[r].text = {}
                            /\ work[r].session = {}
    BY DEF Init, Idle, NoWork
  <1>6. RowsCover /\ ReadersAreOwners
    BY DEF Init, RowsCover, ReadersAreOwners, Unbound
  <1>7. /\ AskersHaveSession /\ OwnersHoldTheirSession /\ BindersHoldTheirSession
        /\ QuestionsAreCovered /\ LostIsUnreadable /\ LostIsUntold
        /\ RevocationReachesHistory
    BY <1>5 DEF AskersHaveSession, OwnersHoldTheirSession, BindersHoldTheirSession, QuestionsAreCovered,
                LostIsUnreadable, LostIsUntold, RevocationReachesHistory, Owner
  <1> QED BY <1>2, <1>4, <1>6, <1>7 DEF SInv, TypeOK

\* What writing one request's locals does to all of them.
LEMMA PutEffect ==
  ASSUME RequestType, NEW r \in Requests, NEW q \in Request, Put(r, q)
  PROVE  /\ RequestType'
         /\ \A p \in Requests : req'[p] = IF p = r THEN q ELSE req[p]
PROOF
  BY DEF RequestType, Put

LEMMA LeaveEffect ==
  ASSUME RequestType, HistoryType, NEW r \in Requests, Leave(r)
  PROVE  /\ RequestType' /\ lost' \in [Requests -> SUBSET KBs]
         /\ \A p \in Requests : req'[p] = IF p = r THEN Idle ELSE req[p]
         /\ \A p \in Requests : lost'[p] = IF p = r THEN {} ELSE lost[p]
         /\ Idle.pc = "idle" /\ Idle.text = {}
PROOF
  <1>1. Idle \in Request /\ Idle.pc = "idle" /\ Idle.text = {}
    BY DEF Idle, Request, Points, Kinds, Vias, Named
  <1> QED BY <1>1, PutEffect DEF Leave, HistoryType

\* A step of one request that keeps its credential and its session, and
\* changes no row and nothing upstream.
LEMMA OwnStepKeeps ==
  ASSUME SInv, NEW r \in Requests, NEW q \in Request, Put(r, q),
         UNCHANGED <<upstream, binding, lost, readers>>,
         req[r].pc # "idle", q.actor = req[r].actor, q.via = req[r].via,
         q.session = req[r].session, q.pc # "answer",
         q.text = req[r].text \/ q.text \cap lost[r] = {},
         Owner(q) \/ q.pc = "bind" =>
           \A s \in q.session :
             /\ Owned(q, s)
             /\ \A kb \in lost[r] : Told(s, kb) => q.pc = "recheck" /\ kb \in q.todo,
         ~(q.pc = "send" /\ q.kind \in {"ask", "tool"}),
         q.pc = "create" => q.kind # "ask"
  PROVE  SInv'
PROOF
  <1>1. RequestType' /\ \A p \in Requests : req'[p] = IF p = r THEN q ELSE req[p]
    BY PutEffect DEF SInv, TypeOK
  <1> USE DEF upstream
  <1>2. TypeOK'
    BY <1>1 DEF SInv, TypeOK, AccessType, SessionType, BindingType, WorkType, HistoryType
  <1>3. OwnersHoldTheirSession'
    BY <1>1 DEF SInv, OwnersHoldTheirSession, Owner, Owned
  <1>4. BindersHoldTheirSession'
    BY <1>1 DEF SInv, BindersHoldTheirSession, Owned, Unseen
  <1>5. RowsCover' /\ ReadersAreOwners'
    BY DEF SInv, RowsCover, ReadersAreOwners
  <1>6. QuestionsAreCovered'
    BY <1>1 DEF SInv, QuestionsAreCovered
  <1>7. LostIsUnreadable'
    BY <1>1 DEF SInv, LostIsUnreadable
  <1>8. LostIsUntold'
    BY <1>1 DEF SInv, LostIsUntold, Owner, Told
  <1>9. RevocationReachesHistory'
    BY <1>1 DEF SInv, RevocationReachesHistory
  <1>10. AskersHaveSession'
    BY <1>1 DEF SInv, AskersHaveSession
  <1> QED BY <1>10, <1>2, <1>3, <1>4, <1>5, <1>6, <1>7, <1>8, <1>9 DEF SInv
---------------------------------------------------------------------------
\* One lemma per action.

\* What a new request cannot read is what is lost to it; nothing of a session
\* is its own yet.
LEMMA ArriveKeeps ==
  ASSUME SInv, NoneAssumption, NEW r \in Requests, NEW a \in Actors, NEW via \in Vias,
         NEW k \in Kinds, NEW ss \in Named, Arrive(r, a, via, k, ss)
  PROVE  SInv'
PROOF
  <1> DEFINE q == [Idle EXCEPT !.pc = FirstPoint(k), !.kind = k, !.actor = a,
                               !.via = via, !.session = ss]
  <1>1. FirstPoint(k) \in {"create", "select", "binding"}
        /\ (FirstPoint(k) = "select" => k = "tool")
        /\ (FirstPoint(k) = "create" => k = "open")
    BY DEF FirstPoint, Kinds
  <1>2. /\ q \in Request /\ q.pc = FirstPoint(k) /\ q.kind = k /\ q.actor = a
        /\ q.session = ss /\ q.text = {}
    BY <1>1 DEF Idle, Request, Points, Kinds, Vias
  <1>3. Put(r, q) /\ UNCHANGED <<access, session, history, work, binding, readers>>
    BY DEF Arrive, upstream
  <1>4. ~Owner(q) /\ q.pc # "bind" /\ q.pc # "send" /\ q.pc # "answer"
    BY <1>1, <1>2 DEF Owner
  <1> HIDE DEF q
  <1>5. RequestType' /\ \A p \in Requests : req'[p] = IF p = r THEN q ELSE req[p]
    BY <1>2, <1>3, PutEffect DEF SInv, TypeOK
  <1>6. lost' \in [Requests -> SUBSET KBs]
        /\ \A p \in Requests : lost'[p] = IF p = r THEN KBs \ access[a] ELSE lost[p]
    BY DEF SInv, TypeOK, HistoryType, Arrive
  <1>7. TypeOK'
    BY <1>3, <1>5, <1>6 DEF SInv, TypeOK, AccessType, SessionType, BindingType,
       WorkType, HistoryType
  <1>8. OwnersHoldTheirSession'
    BY <1>3, <1>4, <1>5 DEF SInv, OwnersHoldTheirSession, Owned
  <1>9. BindersHoldTheirSession'
    BY <1>3, <1>4, <1>5 DEF SInv, BindersHoldTheirSession, Owned, Unseen
  <1>10. RowsCover' /\ ReadersAreOwners'
    BY <1>3 DEF SInv, RowsCover, ReadersAreOwners
  <1>11. QuestionsAreCovered'
    BY <1>3, <1>4, <1>5 DEF SInv, QuestionsAreCovered
  <1>12. LostIsUnreadable'
    BY <1>2, <1>3, <1>5, <1>6 DEF SInv, LostIsUnreadable
  <1>13. LostIsUntold'
    BY <1>3, <1>4, <1>5, <1>6 DEF SInv, LostIsUntold, Told
  <1>14. RevocationReachesHistory'
    BY <1>2, <1>5, <1>6 DEF SInv, RevocationReachesHistory
  <1>15. AskersHaveSession'
    BY <1>1, <1>2, <1>5 DEF SInv, AskersHaveSession
  <1> QED BY <1>15, <1>7, <1>8, <1>9, <1>10, <1>11, <1>12, <1>13, <1>14 DEF SInv

\* All that was lost and told is in the row, and so left to the loop.
LEMMA ReadBindingKeeps ==
  ASSUME SInv, NoneAssumption, NEW r \in Requests, ReadBinding(r)
  PROVE  SInv'
PROOF
  <1>1. PICK s \in req[r].session :
          /\ binding[s].actor = req[r].actor /\ binding[s].via = req[r].via
          /\ Put(r, [req[r] EXCEPT !.pc = "recheck", !.todo = binding[s].kbs])
    BY DEF ReadBinding
  <1>2. req[r] \in Request /\ req[r].session = {s} /\ s \in Sessions
    BY DEF SInv, TypeOK, RequestType, Request, Named
  <1>3. binding[s].kbs \subseteq KBs
    BY <1>2 DEF SInv, TypeOK, BindingType
  <1> DEFINE q == [req[r] EXCEPT !.pc = "recheck", !.todo = binding[s].kbs]
  <1>4. /\ q \in Request /\ q.pc = "recheck" /\ q.todo = binding[s].kbs
        /\ q.actor = req[r].actor /\ q.via = req[r].via
        /\ q.session = req[r].session /\ q.text = req[r].text
    BY <1>2, <1>3 DEF Request, Points
  <1>5. Put(r, q)
    BY <1>1
  <1> HIDE DEF q
  <1>6. req[r].pc = "binding" /\ binding[s].actor # NoActor
    BY <1>1, NoneAssumption DEF SInv, LostIsUnreadable, ReadBinding
  <1>7. \A kb \in KBs : Told(s, kb) => kb \in binding[s].kbs
    BY <1>2, <1>6 DEF SInv, RowsCover, QuestionsAreCovered, Told
  <1>8. lost[r] \subseteq KBs
    BY DEF SInv, TypeOK, HistoryType
  <1>9. \A o \in q.session :
          /\ Owned(q, o)
          /\ \A kb \in lost[r] : Told(o, kb) => q.pc = "recheck" /\ kb \in q.todo
    BY <1>1, <1>2, <1>4, <1>6, <1>7, <1>8 DEF Owned
  <1> QED BY <1>4, <1>5, <1>6, <1>9, OwnStepKeeps DEF ReadBinding

\* Nothing is checked yet of what a question may be answered from.
LEMMA SelectKeeps ==
  ASSUME SInv, NEW r \in Requests, Select(r)
  PROVE  SInv'
PROOF
  <1>1. PICK pc \in {"explicit", "default"}, kbs \in SUBSET KBs :
          Put(r, [req[r] EXCEPT !.pc = pc, !.todo = kbs])
    BY DEF Select
  <1>2. req[r] \in Request /\ req[r].pc = "select"
    BY DEF SInv, TypeOK, RequestType, Select
  <1> DEFINE q == [req[r] EXCEPT !.pc = pc, !.todo = kbs]
  <1>3. /\ q \in Request /\ q.pc = pc /\ q.kind = req[r].kind
        /\ q.actor = req[r].actor /\ q.via = req[r].via
        /\ q.session = req[r].session /\ q.text = req[r].text
    BY <1>2 DEF Request, Points
  <1>4. Put(r, q)
    BY <1>1
  <1> HIDE DEF q
  <1>5. Owner(q) => Owner(req[r])
    BY <1>2, <1>3 DEF Owner
  <1>6. Owner(q) => \A s \in q.session :
          Owned(q, s) /\ \A kb \in lost[r] : ~Told(s, kb)
    BY <1>2, <1>3, <1>5 DEF SInv, OwnersHoldTheirSession, Owned, LostIsUntold
  <1> QED BY <1>2, <1>3, <1>4, <1>6, OwnStepKeeps DEF Select

\* The loop goes past what is readable, and nothing readable is lost.
LEMMA CheckKBKeeps ==
  ASSUME SInv, NEW r \in Requests, CheckKB(r)
  PROVE  SInv'
PROOF
  <1>1. PICK kb \in req[r].todo :
          LET p == [req[r] EXCEPT !.todo = @ \ {kb}]
          IN  \/ kb \in access[req[r].actor] /\ p.pc = "recheck" /\ Put(r, p)
              \/ /\ p.pc # "recheck" /\ kb \in access[req[r].actor]
                 /\ Put(r, [p EXCEPT !.scope = @ \cup {kb}])
              \/ p.pc = "default" /\ Put(r, p)
    BY DEF CheckKB
  <1>2. /\ req[r] \in Request /\ kb \in KBs
        /\ req[r].pc \in {"recheck", "explicit", "default"}
    BY DEF SInv, TypeOK, RequestType, Request, CheckKB
  <1>3. PICK scope \in SUBSET KBs :
          /\ Put(r, [req[r] EXCEPT !.todo = @ \ {kb}, !.scope = scope])
          /\ req[r].pc = "recheck" => kb \in access[req[r].actor]
    <2>1. req[r].scope \in SUBSET KBs /\ req[r].scope \cup {kb} \in SUBSET KBs
      BY <1>2 DEF Request
    <2>2. [req[r] EXCEPT !.todo = @ \ {kb}]
            = [req[r] EXCEPT !.todo = @ \ {kb}, !.scope = req[r].scope]
      BY <1>2 DEF Request
    <2>3. [[req[r] EXCEPT !.todo = @ \ {kb}] EXCEPT !.scope = @ \cup {kb}]
            = [req[r] EXCEPT !.todo = @ \ {kb}, !.scope = req[r].scope \cup {kb}]
      BY <1>2 DEF Request
    <2>4. [req[r] EXCEPT !.todo = @ \ {kb}].pc = req[r].pc
      BY <1>2 DEF Request
    <2> QED BY <1>1, <2>1, <2>2, <2>3, <2>4
  <1> DEFINE q == [req[r] EXCEPT !.todo = @ \ {kb}, !.scope = scope]
  <1>4. /\ q \in Request /\ q.pc = req[r].pc /\ q.kind = req[r].kind
        /\ q.actor = req[r].actor /\ q.via = req[r].via /\ q.todo = req[r].todo \ {kb}
        /\ q.session = req[r].session /\ q.text = req[r].text
    BY <1>2, <1>3 DEF Request
  <1>5. Put(r, q)
    BY <1>3
  <1> HIDE DEF q
  <1>6. Owner(q) <=> Owner(req[r])
    BY <1>4 DEF Owner
  <1>7. req[r].pc = "recheck" => kb \notin lost[r]
    BY <1>2, <1>3 DEF SInv, LostIsUnreadable
  <1>8. Owner(q) => \A s \in q.session :
          /\ Owned(q, s)
          /\ \A l \in lost[r] : Told(s, l) => q.pc = "recheck" /\ l \in q.todo
    BY <1>4, <1>6, <1>7 DEF SInv, OwnersHoldTheirSession, Owned, LostIsUntold
  <1> QED BY <1>2, <1>4, <1>5, <1>8, OwnStepKeeps DEF CheckKB

\* The loop is over: nothing lost is told.
LEMMA CheckedKeeps ==
  ASSUME SInv, NEW r \in Requests, Checked(r)
  PROVE  SInv'
PROOF
  <1> DEFINE pc == AfterChecks(req[r])
             q == [req[r] EXCEPT !.pc = pc]
  <1>1. /\ req[r] \in Request /\ req[r].todo = {}
        /\ req[r].pc \in {"recheck", "explicit", "default"}
    BY DEF SInv, TypeOK, RequestType, Checked
  <1>2. /\ pc \in {"select", "bind", "send", "create", "binding"}
        /\ pc \in {"select", "send"} => req[r].pc = "recheck"
        /\ pc = "bind" => req[r].pc = "recheck" \/ req[r].kind = "ask"
        /\ pc = "send" => req[r].kind \notin {"ask", "tool"}
        /\ pc = "create" => req[r].kind # "ask"
    BY <1>1 DEF AfterChecks, Request, Kinds
  <1> HIDE DEF pc
  <1>3. /\ q \in Request /\ q.pc = pc /\ q.kind = req[r].kind
        /\ q.actor = req[r].actor /\ q.via = req[r].via
        /\ q.session = req[r].session /\ q.text = req[r].text
    BY <1>1, <1>2 DEF Request, Points
  <1>4. Put(r, q)
    BY DEF Checked, pc
  <1> HIDE DEF q
  <1>5. Owner(q) \/ q.pc = "bind" => Owner(req[r])
    BY <1>1, <1>2, <1>3 DEF Owner
  <1>6. Owner(q) \/ q.pc = "bind" => \A s \in q.session :
          Owned(q, s) /\ \A kb \in lost[r] : ~Told(s, kb)
    BY <1>1, <1>3, <1>5 DEF SInv, OwnersHoldTheirSession, Owned, LostIsUntold
  <1> QED BY <1>1, <1>2, <1>3, <1>4, <1>6, OwnStepKeeps DEF Checked

\* A session nobody had is nobody else's.
LEMMA CreateKeeps ==
  ASSUME SInv, NEW r \in Requests, Create(r)
  PROVE  SInv'
PROOF
  <1>1. PICK s \in Sessions :
          /\ session[s] = "absent" /\ session' = [session EXCEPT ![s] = "open"]
          /\ Put(r, [req[r] EXCEPT !.pc = "bind", !.session = {s}])
    BY DEF Create
  <1> DEFINE q == [req[r] EXCEPT !.pc = "bind", !.session = {s}]
  <1>2. req[r] \in Request /\ req[r].pc = "create" /\ req[r].kind # "ask"
    BY DEF SInv, TypeOK, RequestType, AskersHaveSession, Create
  <1>3. /\ q \in Request /\ q.pc = "bind" /\ q.session = {s} /\ q.kind # "ask"
        /\ q.actor = req[r].actor /\ q.text = req[r].text
    BY <1>2 DEF Request, Points, Named
  <1>4. Put(r, q)
    BY <1>1
  <1> HIDE DEF q
  <1>5. RequestType' /\ \A p \in Requests : req'[p] = IF p = r THEN q ELSE req[p]
    BY <1>3, <1>4, PutEffect DEF SInv, TypeOK
  <1>6. UNCHANGED <<access, history, work, binding, lost, readers>>
    BY DEF Create
  <1>7. \A o \in Sessions : session'[o] = IF o = s THEN "open" ELSE session[o]
    BY <1>1 DEF SInv, TypeOK, SessionType
  <1>8. TypeOK'
    BY <1>1, <1>5, <1>6 DEF SInv, TypeOK, AccessType, SessionType, BindingType,
       WorkType, HistoryType
  <1>9. binding[s].actor = NoActor /\ history[s] = {}
    BY <1>1 DEF SInv, RowsCover
  <1>10. \A p \in Requests \ {r} : req[p].pc = "bind" => s \notin req[p].session
    BY <1>1, <1>9 DEF SInv, BindersHoldTheirSession, Owned, Unseen
  <1>11. \A p \in Requests : s \notin work[p].session
    BY <1>9 DEF SInv, QuestionsAreCovered
  <1>13. OwnersHoldTheirSession' /\ AskersHaveSession'
    BY <1>3, <1>5, <1>6
    DEF SInv, AskersHaveSession, OwnersHoldTheirSession, Owned, Owner
  <1>14. BindersHoldTheirSession'
    <2> SUFFICES ASSUME NEW p \in Requests, (req[p].pc = "bind")', NEW o \in (req[p].session)'
                 PROVE  Owned(req[p], o)' \/ Unseen(p, o)'
      BY DEF BindersHoldTheirSession
    <2>1. CASE p = r
      BY <2>1, <1>3, <1>5, <1>6, <1>7, <1>9, <1>10 DEF Unseen
    <2>2. CASE p # r
      <3>1. req[p].pc = "bind" /\ o \in req[p].session /\ o \in Sessions /\ o # s
        BY <2>2, <1>5, <1>10 DEF SInv, TypeOK, RequestType, Request, Named
      <3>2. CASE Owned(req[p], o)
        BY <3>2, <2>2, <1>5, <1>6 DEF Owned
      <3>3. CASE Unseen(p, o)
        BY <3>1, <3>3, <1>3, <1>5, <1>6, <1>7 DEF Unseen
      <3> QED BY <3>1, <3>2, <3>3 DEF SInv, BindersHoldTheirSession
    <2> QED BY <2>1, <2>2
  <1>15. RowsCover' /\ ReadersAreOwners'
    BY <1>6, <1>7 DEF SInv, RowsCover, ReadersAreOwners
  <1>16. QuestionsAreCovered'
    BY <1>3, <1>5, <1>6 DEF SInv, QuestionsAreCovered
  <1>17. LostIsUnreadable'
    BY <1>2, <1>3, <1>5, <1>6 DEF SInv, LostIsUnreadable
  <1>18. LostIsUntold'
    BY <1>3, <1>5, <1>6, <1>9, <1>11 DEF SInv, LostIsUntold, Told
  <1>19. RevocationReachesHistory'
    BY <1>3, <1>5, <1>6 DEF SInv, RevocationReachesHistory
  <1> QED BY <1>8, <1>13, <1>14, <1>15, <1>16, <1>17, <1>18, <1>19 DEF SInv

\* What a request was chosen to be answered from is in the row before it goes
\* on; a row of another credential is left alone.
LEMMA BindKeeps ==
  ASSUME SInv, NoneAssumption, NEW r \in Requests, Bind(r)
  PROVE  SInv'
PROOF
  <1>1. PICK s \in req[r].session :
          /\ binding[s].actor \in {NoActor, req[r].actor}
          /\ binding' = [binding EXCEPT ![s] = Bound(binding[s], req[r])]
          /\ Put(r, [req[r] EXCEPT !.pc = IF req[r].kind = "open" THEN "reply" ELSE "send"])
    BY DEF Bind
  <1> DEFINE pc == IF req[r].kind = "open" THEN "reply" ELSE "send"
             q == [req[r] EXCEPT !.pc = pc]
             b == Bound(binding[s], req[r])
  <1>2. /\ req[r] \in Request /\ req[r].pc = "bind" /\ req[r].session = {s}
        /\ s \in Sessions /\ binding[s] \in [actor : Actors \cup {NoActor}, via : Vias,
                                             kbs : SUBSET KBs]
    BY DEF SInv, TypeOK, RequestType, BindingType, Request, Named, Bind
  <1>3. /\ q \in Request /\ q.pc = pc /\ q.kind = req[r].kind /\ q.scope = req[r].scope
        /\ q.actor = req[r].actor /\ q.via = req[r].via
        /\ q.session = {s} /\ q.text = req[r].text
    BY <1>2 DEF Request, Points
  <1>4. req[r].actor \in Actors /\ req[r].actor # NoActor
    BY <1>2, NoneAssumption DEF SInv, LostIsUnreadable
  <1>5. Owned(req[r], s) \/ Unseen(r, s)
    BY <1>2 DEF SInv, BindersHoldTheirSession
  <1>6. /\ b \in [actor : Actors \cup {NoActor}, via : Vias, kbs : SUBSET KBs]
        /\ b.actor = req[r].actor /\ b.via = req[r].via
        /\ b.kbs = binding[s].kbs \cup req[r].scope
        /\ binding[s].actor # NoActor => b.actor = binding[s].actor /\ b.via = binding[s].via
    BY <1>2, <1>4, <1>5 DEF Bound, Request, Owned, Unseen
  <1>7. Put(r, q) /\ binding' = [binding EXCEPT ![s] = b]
    BY <1>1
  <1>8. UNCHANGED <<access, session, history, work, lost, readers>>
    BY DEF Bind, upstream
  <1>9. pc \in {"reply", "send"}
    OBVIOUS
  <1> HIDE DEF q, b, pc
  <1>10. RequestType' /\ \A p \in Requests : req'[p] = IF p = r THEN q ELSE req[p]
    BY <1>3, <1>7, PutEffect DEF SInv, TypeOK
  <1>11. \A o \in Sessions : binding'[o] = IF o = s THEN b ELSE binding[o]
    BY <1>7 DEF SInv, TypeOK, BindingType
  <1>12. BindingType'
    BY <1>6, <1>7 DEF SInv, TypeOK, BindingType
  <1>13. TypeOK'
    BY <1>8, <1>10, <1>12 DEF SInv, TypeOK, AccessType, SessionType, WorkType, HistoryType
  <1>14. \A p \in Requests : req[p].session \subseteq Sessions /\ work[p].session \subseteq Sessions
    BY DEF SInv, TypeOK, RequestType, WorkType, Request, Named
  <1>15. \A o \in Sessions, p \in Requests : Owned(req[p], o) =>
           binding'[o].actor = binding[o].actor /\ binding'[o].via = binding[o].via
    BY <1>6, <1>11 DEF Owned
  <1>16. OwnersHoldTheirSession'
    BY <1>3, <1>4, <1>6, <1>10, <1>11, <1>14, <1>15
    DEF SInv, OwnersHoldTheirSession, Owned
  <1>17. BindersHoldTheirSession'
    <2> SUFFICES ASSUME NEW p \in Requests, (req[p].pc = "bind")', NEW o \in (req[p].session)'
                 PROVE  Owned(req[p], o)' \/ Unseen(p, o)'
      BY DEF BindersHoldTheirSession
    <2>1. p # r /\ req[p].pc = "bind" /\ o \in req[p].session /\ o \in Sessions
      BY <1>3, <1>9, <1>10, <1>14
    <2>2. CASE Owned(req[p], o)
      BY <2>1, <2>2, <1>10, <1>15 DEF Owned
    <2>3. CASE Unseen(p, o)
      <3>1. o # s
        BY <2>1, <2>3, <1>2 DEF Unseen
      <3> QED BY <2>1, <2>3, <3>1, <1>3, <1>8, <1>9, <1>10, <1>11 DEF Unseen
    <2> QED BY <2>1, <2>2, <2>3 DEF SInv, BindersHoldTheirSession
  <1>18. RowsCover'
    BY <1>5, <1>6, <1>8, <1>11 DEF SInv, RowsCover, Owned, Unseen
  <1>19. ReadersAreOwners'
    BY <1>6, <1>8, <1>11 DEF SInv, ReadersAreOwners
  <1>20. \A o \in Sessions : binding[o].actor # NoActor =>
           binding'[o].actor # NoActor /\ binding[o].kbs \subseteq binding'[o].kbs
    BY <1>6, <1>11
  <1>21. QuestionsAreCovered'
    <2> SUFFICES ASSUME NEW p \in Requests
                 PROVE  /\ \A o \in work'[p].session :
                             binding'[o].actor # NoActor /\ work'[p].kbs \subseteq binding'[o].kbs
                        /\ req'[p].pc = "send" /\ req'[p].kind \in {"ask", "tool"} =>
                             \A o \in req'[p].session : req'[p].scope \subseteq binding'[o].kbs
                        /\ req'[p].pc = "answer" => work'[p].session \subseteq req'[p].session
      BY DEF QuestionsAreCovered
    <2>1. \A o \in work[p].session :
            binding'[o].actor # NoActor /\ work[p].kbs \subseteq binding'[o].kbs
      BY <1>14, <1>20 DEF SInv, QuestionsAreCovered
    <2>2. CASE p = r
      BY <2>1, <2>2, <1>2, <1>3, <1>6, <1>8, <1>9, <1>10, <1>11
    <2>3. CASE p # r
      <3>1. req'[p] = req[p]
        BY <2>3, <1>10
      <3>2. \A o \in Sessions : binding[o].kbs \subseteq binding'[o].kbs
        BY <1>6, <1>11
      <3> QED BY <2>1, <3>1, <3>2, <1>8, <1>14 DEF SInv, QuestionsAreCovered
    <2> QED BY <2>2, <2>3
  <1>22. LostIsUnreadable'
    BY <1>2, <1>3, <1>8, <1>10 DEF SInv, LostIsUnreadable
  <1>23. LostIsUntold'
    BY <1>2, <1>3, <1>8, <1>9, <1>10 DEF SInv, LostIsUntold, Told
  <1>24. RevocationReachesHistory'
    BY <1>3, <1>8, <1>10 DEF SInv, RevocationReachesHistory
  <1>25. AskersHaveSession'
    BY <1>3, <1>9, <1>10 DEF SInv, AskersHaveSession
  <1> QED BY <1>13, <1>16, <1>17, <1>18, <1>19, <1>21, <1>22, <1>23, <1>24, <1>25 DEF SInv

\* The history that is read, and the scope that is asked, hold nothing lost.
LEMMA SendKeeps ==
  ASSUME SInv, NEW r \in Requests, Send(r)
  PROVE  SInv'
PROOF
  <1>1. PICK s \in req[r].session :
          \/ /\ req[r].kind = "read"
             /\ Put(r, [req[r] EXCEPT !.pc = "reply", !.text = history[s]])
             /\ UNCHANGED <<session, work>>
          \/ /\ req[r].kind = "delete"
             /\ Put(r, [req[r] EXCEPT !.pc = "reply"])
             /\ session' = [session EXCEPT ![s] = "deleted"]
             /\ UNCHANGED work
          \/ /\ req[r].kind \in {"ask", "tool"}
             /\ Put(r, [req[r] EXCEPT !.pc = "answer", !.scope = {}])
             /\ work' = [work EXCEPT ![r] =
                  [session |-> {s}, kbs |-> req[r].scope \cap access[req[r].actor]]]
             /\ UNCHANGED session
    BY DEF Send
  <1>2. /\ req[r] \in Request /\ req[r].pc = "send" /\ req[r].session = {s}
        /\ s \in Sessions /\ Owner(req[r])
    BY DEF SInv, TypeOK, RequestType, Request, Named, Send, Owner
  <1>3. /\ Owned(req[r], s) /\ history[s] \subseteq KBs
        /\ \A kb \in lost[r] : ~Told(s, kb)
    BY <1>2 DEF SInv, TypeOK, SessionType, OwnersHoldTheirSession, LostIsUntold
  <1>4. UNCHANGED <<access, history, binding, lost, readers>>
    BY DEF Send
  <1>5. ASSUME req[r].kind = "read", UNCHANGED <<session, work>>,
               Put(r, [req[r] EXCEPT !.pc = "reply", !.text = history[s]])
        PROVE  SInv'
    <2> DEFINE q == [req[r] EXCEPT !.pc = "reply", !.text = history[s]]
    <2>1. /\ q \in Request /\ q.pc = "reply" /\ q.actor = req[r].actor
          /\ q.via = req[r].via /\ q.session = req[r].session /\ q.text = history[s]
      BY <1>2, <1>3 DEF Request, Points
    <2>2. Put(r, q)
      BY <1>5
    <2> HIDE DEF q
    <2>3. q.text \cap lost[r] = {}
      BY <1>3, <2>1 DEF Told
    <2>4. \A o \in q.session : Owned(q, o) /\ \A kb \in lost[r] : ~Told(o, kb)
      BY <1>2, <1>3, <2>1 DEF Owned
    <2> QED BY <1>2, <1>4, <1>5, <2>1, <2>2, <2>3, <2>4, OwnStepKeeps DEF upstream
  <1>6. ASSUME Put(r, [req[r] EXCEPT !.pc = "reply"]), UNCHANGED work,
               session' = [session EXCEPT ![s] = "deleted"]
        PROVE  SInv'
    <2> DEFINE q == [req[r] EXCEPT !.pc = "reply"]
    <2>1. /\ q \in Request /\ q.pc = "reply" /\ q.actor = req[r].actor
          /\ q.via = req[r].via /\ q.session = {s} /\ q.text = req[r].text
      BY <1>2 DEF Request, Points
    <2> HIDE DEF q
    <2>2. RequestType' /\ \A p \in Requests : req'[p] = IF p = r THEN q ELSE req[p]
      BY <1>6, <2>1, PutEffect DEF SInv, TypeOK, q
    <2>3. \A o \in Sessions : session'[o] = IF o = s THEN "deleted" ELSE session[o]
      BY <1>6 DEF SInv, TypeOK, SessionType
    <2>4. TypeOK'
      BY <1>4, <1>6, <2>2 DEF SInv, TypeOK, AccessType, SessionType, BindingType,
         WorkType, HistoryType
    <2>5. OwnersHoldTheirSession' /\ AskersHaveSession'
      BY <1>3, <1>4, <2>1, <2>2
      DEF SInv, OwnersHoldTheirSession, AskersHaveSession, Owned, Owner
    <2>6. \A p \in Requests : req[p].session \subseteq Sessions
      BY DEF SInv, TypeOK, RequestType, Request, Named
    <2>7. BindersHoldTheirSession'
      BY <1>4, <2>1, <2>2, <2>3, <2>6 DEF SInv, BindersHoldTheirSession, Owned, Unseen
    <2>8. RowsCover' /\ ReadersAreOwners'
      BY <1>4, <2>3 DEF SInv, RowsCover, ReadersAreOwners
    <2>9. QuestionsAreCovered'
      BY <1>4, <1>6, <2>1, <2>2 DEF SInv, QuestionsAreCovered
    <2>10. LostIsUnreadable'
      BY <1>2, <1>4, <2>1, <2>2 DEF SInv, LostIsUnreadable
    <2>11. LostIsUntold'
      BY <1>3, <1>4, <1>6, <2>1, <2>2 DEF SInv, LostIsUntold, Told
    <2>12. RevocationReachesHistory'
      BY <1>4, <2>1, <2>2 DEF SInv, RevocationReachesHistory
    <2> QED BY <2>4, <2>5, <2>7, <2>8, <2>9, <2>10, <2>11, <2>12 DEF SInv
  <1>7. ASSUME req[r].kind \in {"ask", "tool"}, UNCHANGED session,
               Put(r, [req[r] EXCEPT !.pc = "answer", !.scope = {}]),
               work' = [work EXCEPT ![r] =
                 [session |-> {s}, kbs |-> req[r].scope \cap access[req[r].actor]]]
        PROVE  SInv'
    <2> DEFINE q == [req[r] EXCEPT !.pc = "answer", !.scope = {}]
               kbs == req[r].scope \cap access[req[r].actor]
               w == [session |-> {s}, kbs |-> kbs]
    <2>1. /\ q \in Request /\ q.pc = "answer" /\ q.actor = req[r].actor
          /\ q.via = req[r].via /\ q.session = {s} /\ q.text = req[r].text
      BY <1>2 DEF Request, Points
    <2>2. /\ kbs \subseteq req[r].scope /\ kbs \subseteq access[req[r].actor]
          /\ kbs \subseteq KBs
      BY <1>2 DEF Request
    <2>3. w.session = {s} /\ w.kbs = kbs /\ w \in [session : Named, kbs : SUBSET KBs]
      BY <1>2, <2>2 DEF Named
    <2> HIDE DEF q, kbs, w
    <2>4. RequestType' /\ \A p \in Requests : req'[p] = IF p = r THEN q ELSE req[p]
      BY <1>7, <2>1, PutEffect DEF SInv, TypeOK, q
    <2>5. WorkType' /\ \A p \in Requests : work'[p] = IF p = r THEN w ELSE work[p]
      BY <1>7, <2>3 DEF SInv, TypeOK, WorkType, w, kbs
    <2>6. TypeOK'
      BY <1>4, <1>7, <2>4, <2>5 DEF SInv, TypeOK, AccessType, SessionType, BindingType,
         HistoryType
    <2>7. OwnersHoldTheirSession' /\ AskersHaveSession'
      BY <1>3, <1>4, <2>1, <2>4
      DEF SInv, OwnersHoldTheirSession, AskersHaveSession, Owned, Owner
    <2>8. BindersHoldTheirSession'
      BY <1>4, <1>7, <2>1, <2>4 DEF SInv, BindersHoldTheirSession, Owned, Unseen
    <2>9. RowsCover' /\ ReadersAreOwners'
      BY <1>4, <1>7 DEF SInv, RowsCover, ReadersAreOwners
    <2>10. binding[s].actor # NoActor /\ req[r].scope \subseteq binding[s].kbs
      BY <1>2, <1>3, <1>7 DEF SInv, QuestionsAreCovered, Owned
    <2>11. QuestionsAreCovered'
      BY <1>4, <2>1, <2>2, <2>3, <2>4, <2>5, <2>10 DEF SInv, QuestionsAreCovered
    <2>12. LostIsUnreadable'
      BY <1>2, <1>4, <2>1, <2>4 DEF SInv, LostIsUnreadable
    <2>13. LostIsUntold'
      <3> SUFFICES ASSUME NEW p \in Requests, Owner(req'[p]) \/ req'[p].pc = "bind",
                          NEW o \in req'[p].session, NEW kb \in lost'[p], Told(o, kb)'
                   PROVE  req'[p].pc = "recheck" /\ kb \in req'[p].todo
        BY DEF LostIsUntold, Owner
      <3>1. /\ Owner(req[p]) \/ req[p].pc = "bind"
            /\ o \in req[p].session /\ kb \in lost[p]
            /\ req[p].actor = req'[p].actor
        BY <1>2, <1>4, <2>1, <2>4
      <3>2. Told(o, kb) \/ (o = s /\ kb \in kbs)
        BY <1>4, <2>3, <2>5 DEF Told
      <3>3. ~(o = s /\ kb \in kbs)
        <4> SUFFICES ASSUME o = s, kb \in kbs PROVE FALSE
          OBVIOUS
        <4>1. Owned(req[p], s)
          BY <3>1, <2>10 DEF SInv, OwnersHoldTheirSession, BindersHoldTheirSession, Unseen
        <4>2. req[p].actor = req[r].actor
          BY <4>1, <1>3 DEF Owned
        <4>3. req[p].pc # "idle"
          BY <3>1 DEF Owner
        <4> QED BY <2>2, <3>1, <4>2, <4>3 DEF SInv, LostIsUnreadable
      <3>4. req[p].pc = "recheck" /\ kb \in req[p].todo
        BY <3>1, <3>2, <3>3 DEF SInv, LostIsUntold
      <3> QED BY <3>4, <1>2, <2>4
    <2>14. RevocationReachesHistory'
      BY <1>4, <2>1, <2>4 DEF SInv, RevocationReachesHistory
    <2> QED BY <2>6, <2>7, <2>8, <2>9, <2>11, <2>12, <2>13, <2>14 DEF SInv
  <1> QED BY <1>1, <1>5, <1>6, <1>7

\* What the answer adds was told already, and the row has it.
LEMMA AnswerKeeps ==
  ASSUME SInv, NEW r \in Requests, Answer(r)
  PROVE  SInv'
PROOF
  <1> DEFINE known(s) == history[s] \cup work[r].kbs
  <1>1. PICK s \in work[r].session :
          /\ history' = [history EXCEPT ![s] = known(s)]
          /\ IF req[r].pc = "answer"
               THEN Put(r, [req[r] EXCEPT !.pc = "reply", !.text = known(s)])
               ELSE UNCHANGED req
    BY DEF Answer
  <1> DEFINE q == IF req[r].pc = "answer"
                    THEN [req[r] EXCEPT !.pc = "reply", !.text = known(s)] ELSE req[r]
  <1>2. /\ req[r] \in Request /\ work[r].session = {s} /\ s \in Sessions
        /\ work[r].kbs \subseteq KBs /\ history[s] \subseteq KBs
    BY DEF SInv, TypeOK, RequestType, WorkType, SessionType, Named
  <1>3. /\ q \in Request /\ q.actor = req[r].actor /\ q.via = req[r].via
        /\ q.session = req[r].session /\ q.kind = req[r].kind /\ q.scope = req[r].scope
        /\ q.todo = req[r].todo /\ q.pc # "answer"
        /\ req[r].pc = "answer" => q.pc = "reply" /\ q.text = known(s)
        /\ req[r].pc # "answer" => q.pc = req[r].pc /\ q.text = req[r].text
    BY <1>2 DEF Request, Points
  <1>4. Put(r, q)
    BY <1>1 DEF Put, SInv, TypeOK, RequestType
  <1> HIDE DEF q
  <1>5. UNCHANGED <<access, session, binding, lost, readers>>
    BY DEF Answer
  <1>6. RequestType' /\ \A p \in Requests : req'[p] = IF p = r THEN q ELSE req[p]
    BY <1>3, <1>4, PutEffect DEF SInv, TypeOK
  <1>7. /\ history' \in [Sessions -> SUBSET KBs]
        /\ \A o \in Sessions : history'[o] = IF o = s THEN known(s) ELSE history[o]
    BY <1>1, <1>2 DEF SInv, TypeOK, SessionType
  <1>8. NoWork \in [session : Named, kbs : SUBSET KBs] /\ NoWork.session = {}
    BY DEF NoWork, Named
  <1>9. WorkType' /\ \A p \in Requests : work'[p] = IF p = r THEN NoWork ELSE work[p]
    BY <1>8 DEF SInv, TypeOK, WorkType, Answer
  <1>10. TypeOK'
    BY <1>5, <1>6, <1>7, <1>9 DEF SInv, TypeOK, AccessType, SessionType, BindingType,
       HistoryType
  <1>11. \A p \in Requests : req[p].session \subseteq Sessions /\ work[p].session \subseteq Sessions
    BY DEF SInv, TypeOK, RequestType, WorkType, Request, Named
  <1>12. \A o \in Sessions, kb \in KBs : Told(o, kb)' => Told(o, kb)
    BY <1>2, <1>7, <1>8, <1>9 DEF Told
  <1>13. binding[s].actor # NoActor /\ work[r].kbs \subseteq binding[s].kbs
    BY <1>2 DEF SInv, QuestionsAreCovered
  <1>14. OwnersHoldTheirSession' /\ AskersHaveSession'
    BY <1>3, <1>5, <1>6
    DEF SInv, OwnersHoldTheirSession, AskersHaveSession, Owned, Owner
  <1>15. BindersHoldTheirSession'
    <2> SUFFICES ASSUME NEW p \in Requests, (req[p].pc = "bind")', NEW o \in (req[p].session)'
                 PROVE  Owned(req[p], o)' \/ Unseen(p, o)'
      BY DEF BindersHoldTheirSession
    <2>1. req[p].pc = "bind" /\ o \in req[p].session /\ o \in Sessions
      BY <1>3, <1>6, <1>11
    <2>2. CASE Owned(req[p], o)
      BY <2>2, <1>3, <1>5, <1>6 DEF Owned
    <2>3. CASE Unseen(p, o)
      BY <2>1, <2>3, <1>3, <1>5, <1>6, <1>7, <1>13 DEF Unseen
    <2> QED BY <2>1, <2>2, <2>3 DEF SInv, BindersHoldTheirSession
  <1>16. RowsCover' /\ ReadersAreOwners'
    BY <1>5, <1>7, <1>13 DEF SInv, RowsCover, ReadersAreOwners
  <1>17. QuestionsAreCovered'
    BY <1>3, <1>5, <1>6, <1>8, <1>9 DEF SInv, QuestionsAreCovered
  <1>18. LostIsUnreadable'
    BY <1>3, <1>5, <1>6 DEF SInv, LostIsUnreadable
  <1>19. \A p \in Requests : lost[p] \subseteq KBs
    BY DEF SInv, TypeOK, HistoryType
  <1>20. LostIsUntold'
    <2> SUFFICES ASSUME NEW p \in Requests, Owner(req'[p]) \/ req'[p].pc = "bind",
                        NEW o \in req'[p].session, NEW kb \in lost'[p], Told(o, kb)'
                 PROVE  req'[p].pc = "recheck" /\ kb \in req'[p].todo
      BY DEF LostIsUntold, Owner
    <2>1. /\ Owner(req[p]) \/ req[p].pc = "bind"
          /\ o \in req[p].session /\ kb \in lost[p]
      BY <1>3, <1>5, <1>6 DEF Owner
    <2>2. req[p].pc = "recheck" /\ kb \in req[p].todo
      BY <2>1, <1>11, <1>12, <1>19 DEF SInv, LostIsUntold
    <2> QED BY <2>2, <1>3, <1>6
  <1>21. RevocationReachesHistory'
    <2>1. req[r].pc = "answer" => known(s) \cap lost[r] = {}
      BY <1>2, <1>19 DEF SInv, QuestionsAreCovered, LostIsUntold, Owner, Told
    <2> QED BY <2>1, <1>3, <1>5, <1>6 DEF SInv, RevocationReachesHistory
  <1> QED BY <1>10, <1>14, <1>15, <1>16, <1>17, <1>18, <1>20, <1>21 DEF SInv

\* A request that is over holds nothing; only its owner was answered.
LEMMA LeaveKeeps ==
  ASSUME SInv, NEW r \in Requests, Leave(r), UNCHANGED <<upstream, binding>>,
         readers' \in [Sessions -> SUBSET (Actors \X Vias)], ReadersAreOwners'
  PROVE  SInv'
PROOF
  <1>1. /\ RequestType' /\ lost' \in [Requests -> SUBSET KBs]
        /\ \A p \in Requests : req'[p] = IF p = r THEN Idle ELSE req[p]
        /\ \A p \in Requests : lost'[p] = IF p = r THEN {} ELSE lost[p]
        /\ Idle.pc = "idle" /\ Idle.text = {}
    BY LeaveEffect DEF SInv, TypeOK
  <1>2. TypeOK'
    BY <1>1 DEF SInv, TypeOK, AccessType, SessionType, BindingType, WorkType,
       HistoryType, upstream
  <1>3. OwnersHoldTheirSession' /\ AskersHaveSession'
    BY <1>1 DEF SInv, OwnersHoldTheirSession, AskersHaveSession, Owned, Owner
  <1>4. BindersHoldTheirSession'
    BY <1>1 DEF SInv, BindersHoldTheirSession, Owned, Unseen, upstream
  <1>5. RowsCover'
    BY DEF SInv, RowsCover, upstream
  <1>6. QuestionsAreCovered'
    BY <1>1 DEF SInv, QuestionsAreCovered, upstream
  <1>7. LostIsUnreadable'
    BY <1>1 DEF SInv, LostIsUnreadable, upstream
  <1>8. LostIsUntold'
    BY <1>1 DEF SInv, LostIsUntold, Owner, Told, upstream
  <1>9. RevocationReachesHistory'
    BY <1>1 DEF SInv, RevocationReachesHistory
  <1> QED BY <1>2, <1>3, <1>4, <1>5, <1>6, <1>7, <1>8, <1>9 DEF SInv

LEMMA ReplyKeeps ==
  ASSUME SInv, NEW r \in Requests, Reply(r)
  PROVE  SInv'
PROOF
  <1>1. /\ req[r] \in Request /\ req[r].pc = "reply" /\ Owner(req[r])
        /\ req[r].actor \in Actors /\ req[r].via \in Vias
    BY DEF SInv, TypeOK, RequestType, Request, LostIsUnreadable, Reply, Owner
  <1> DEFINE p == <<req[r].actor, req[r].via>>
  <1>2. p \in Actors \X Vias
    BY <1>1
  <1>3. \A s \in req[r].session :
          binding[s].actor # NoActor /\ p = <<binding[s].actor, binding[s].via>>
    BY <1>1 DEF SInv, OwnersHoldTheirSession, Owned
  <1> HIDE DEF p
  <1>4. readers' = [s \in Sessions |->
          IF s \in req[r].session THEN readers[s] \cup {p} ELSE readers[s]]
    BY DEF Reply, p
  <1>5. readers' \in [Sessions -> SUBSET (Actors \X Vias)]
    BY <1>2, <1>4 DEF SInv, TypeOK, HistoryType
  <1>6. ReadersAreOwners'
    BY <1>3, <1>4 DEF SInv, ReadersAreOwners, Reply
  <1> QED BY <1>5, <1>6, LeaveKeeps DEF Reply

LEMMA FailKeeps ==
  ASSUME SInv, NEW r \in Requests, Fail(r)
  PROVE  SInv'
PROOF
  <1>1. readers' \in [Sessions -> SUBSET (Actors \X Vias)] /\ ReadersAreOwners'
    BY DEF SInv, TypeOK, HistoryType, ReadersAreOwners, Fail
  <1> QED BY <1>1, LeaveKeeps DEF Fail

LEMMA RevokeKeeps ==
  ASSUME SInv, NEW a \in Actors, NEW kb \in KBs, Revoke(a, kb)
  PROVE  SInv'
PROOF
  <1>1. /\ access' \in [Actors -> SUBSET KBs]
        /\ \A b \in Actors : access'[b] \subseteq access[b]
    BY DEF SInv, TypeOK, AccessType, Revoke
  <1>2. LostIsUnreadable'
    BY <1>1 DEF SInv, LostIsUnreadable, Revoke
  <1>3. TypeOK'
    BY <1>1 DEF SInv, TypeOK, AccessType, SessionType, BindingType, RequestType,
       WorkType, HistoryType, Revoke
  <1> QED BY <1>2, <1>3
    DEF SInv, AskersHaveSession, OwnersHoldTheirSession, BindersHoldTheirSession,
        RowsCover, ReadersAreOwners, QuestionsAreCovered, LostIsUntold,
        RevocationReachesHistory, Owner, Owned, Unseen, Told, Revoke

LEMMA GrantKeeps ==
  ASSUME SInv, NEW a \in Actors, NEW kb \in KBs, Grant(a, kb)
  PROVE  SInv'
PROOF
  <1>1. /\ access' \in [Actors -> SUBSET KBs]
        /\ \A b \in Actors : access'[b] = IF b = a THEN access[b] \cup {kb} ELSE access[b]
    BY DEF SInv, TypeOK, AccessType, Grant
  <1>2. /\ lost' \in [Requests -> SUBSET KBs]
        /\ \A r \in Requests : /\ lost'[r] \subseteq lost[r]
                               /\ req[r].actor = a => kb \notin lost'[r]
    BY DEF SInv, TypeOK, HistoryType, Grant
  <1>3. UNCHANGED <<session, history, work, binding, req, readers>>
    BY DEF Grant
  <1>4. LostIsUnreadable'
    BY <1>1, <1>2, <1>3 DEF SInv, LostIsUnreadable
  <1>5. TypeOK'
    BY <1>1, <1>2, <1>3 DEF SInv, TypeOK, AccessType, SessionType, BindingType,
       RequestType, WorkType, HistoryType
  <1>6. LostIsUntold'
    BY <1>2, <1>3 DEF SInv, LostIsUntold, Told
  <1>7. RevocationReachesHistory'
    BY <1>2, <1>3 DEF SInv, RevocationReachesHistory
  <1>8. /\ AskersHaveSession' /\ OwnersHoldTheirSession' /\ BindersHoldTheirSession'
        /\ RowsCover' /\ ReadersAreOwners' /\ QuestionsAreCovered'
    BY <1>3
    DEF SInv, AskersHaveSession, OwnersHoldTheirSession, BindersHoldTheirSession,
        RowsCover, ReadersAreOwners, QuestionsAreCovered, Owned, Unseen
  <1> QED BY <1>4, <1>5, <1>6, <1>7, <1>8 DEF SInv
---------------------------------------------------------------------------
LEMMA NextKeeps == SInv /\ [Next]_vars => SInv'
PROOF
  <1> SUFFICES ASSUME SInv, [Next]_vars PROVE SInv'
    OBVIOUS
  <1>1. ASSUME NEW r \in Requests, NEW a \in Actors, NEW via \in Vias, NEW k \in Kinds,
               NEW ss \in Named, Arrive(r, a, via, k, ss)
        PROVE  SInv'
    BY <1>1, NoneAssumption, ArriveKeeps
  <1>2. ASSUME NEW r \in Requests,
               \/ ReadBinding(r) \/ Select(r) \/ CheckKB(r) \/ Checked(r)
               \/ Create(r) \/ Bind(r) \/ Send(r) \/ Answer(r) \/ Reply(r) \/ Fail(r)
        PROVE  SInv'
    BY <1>2, NoneAssumption, ReadBindingKeeps, SelectKeeps, CheckKBKeeps, CheckedKeeps,
       CreateKeeps, BindKeeps, SendKeeps, AnswerKeeps, ReplyKeeps, FailKeeps
  <1>3. ASSUME NEW a \in Actors, NEW kb \in KBs, Revoke(a, kb) \/ Grant(a, kb)
        PROVE  SInv'
    BY <1>3, RevokeKeeps, GrantKeeps
  <1>4. CASE UNCHANGED vars
    BY <1>4 DEF vars, upstream, SInv, TypeOK, AccessType, SessionType, BindingType,
       RequestType, WorkType, HistoryType, AskersHaveSession, OwnersHoldTheirSession,
       BindersHoldTheirSession, RowsCover, ReadersAreOwners, QuestionsAreCovered,
       LostIsUnreadable, LostIsUntold, RevocationReachesHistory, Owner, Owned, Unseen, Told
  <1> QED BY <1>1, <1>2, <1>3, <1>4 DEF Next

\* The inductive invariant holds in every reachable state (all of scope.go's
\* and service.go's checks, interleaved in any way).
THEOREM SessionInvariant == Spec => []SInv
PROOF
  BY InitiallyHeld, NextKeeps, PTL DEF Spec

\* Rows, requests and upstream state keep their types.
THEOREM SessionTypeCorrect == Spec => []TypeOK
PROOF
  <1>1. SInv => TypeOK
    BY DEF SInv
  <1> QED BY <1>1, SessionInvariant, PTL

\* No request is answered from what its credential had lost (CheckSession
\* before Send, Bind before Send).
THEOREM RevokedIsNotShown == Spec => []RevocationReachesHistory
PROOF
  <1>1. SInv => RevocationReachesHistory
    BY DEF SInv
  <1> QED BY <1>1, SessionInvariant, PTL

\* The row holds the session's history, and what running answers will add.
THEOREM RowsHoldTheHistory == Spec => []BindingCoversHistory
PROOF
  <1>1. SInv => BindingCoversHistory
    BY DEF SInv, RowsCover, QuestionsAreCovered, BindingCoversHistory, Answering
  <1> QED BY <1>1, SessionInvariant, PTL

\* Only the credential and channel of the row are ever answered (CheckSession,
\* GuardSession).
THEOREM SessionsHaveOneReader == Spec => []OnePrincipalPerSession
PROOF
  <1>1. SInv => OnePrincipalPerSession
    BY DEF SInv, ReadersAreOwners, OnePrincipalPerSession
  <1> QED BY <1>1, SessionInvariant, PTL

\* Rows keep their credential and channel and only grow (Bind).
THEOREM RowsOnlyGrow == Spec => BindingsOnlyGrow
PROOF
  <1> DEFINE Grow == \A s \in Sessions : binding[s].actor # NoActor =>
                       /\ binding'[s].actor = binding[s].actor
                       /\ binding'[s].via = binding[s].via
                       /\ binding[s].kbs \subseteq binding'[s].kbs
  <1>1. ASSUME SInv, NEW r \in Requests, Bind(r) PROVE Grow
    <2>1. PICK s \in req[r].session :
            /\ binding[s].actor \in {NoActor, req[r].actor}
            /\ binding' = [binding EXCEPT ![s] = Bound(binding[s], req[r])]
      BY <1>1 DEF Bind
    <2>2. binding \in [Sessions -> [actor : Actors \cup {NoActor}, via : Vias, kbs : SUBSET KBs]]
      BY <1>1 DEF SInv, TypeOK, BindingType
    <2> QED BY <2>1, <2>2 DEF Bound
  <1>2. ASSUME UNCHANGED binding PROVE Grow
    BY <1>2
  <1>3. SInv /\ [Next]_vars => Grow
    BY <1>1, <1>2 DEF Next, vars, Arrive, ReadBinding, Select, CheckKB, Checked, Create,
       Send, Answer, Reply, Fail, Revoke, Grant
  <1>4. SInv /\ [Next]_vars => [Grow]_vars
    BY <1>3
  <1> QED BY <1>4, SessionInvariant, PTL DEF Spec, BindingsOnlyGrow

(***************************************************************************)
(* The budgets.  RateInv says that a transaction is open for a day at most *)
(* after its begin, so that the windows it counts in are still there, and  *)
(* that the questions of a day are numbered by its count.                  *)
(***************************************************************************)
LEMMA WindowOf ==
  ASSUME NEW t \in Nat, NEW n \in Nat \ {0}
  PROVE  t \div n \in Nat /\ t < (t \div n + 1) * n
PROOF
  <1>1. t \div n \in Nat
    BY SMT
  <1>2. t = n * (t \div n) + (t % n) /\ t % n \in 0..(n - 1)
    BY SMT
  <1> DEFINE k == t \div n
             m == t % n
  <1>3. k \in Nat /\ t = n * k + m /\ m < n /\ m \in Nat
    BY <1>1, <1>2, SMT
  <1> HIDE DEF k, m
  <1>4. (k + 1) * n = n * k + n
    BY <1>3, SMT
  <1>5. n * k \in Nat
    BY <1>3, SMT
  <1>6. t < (k + 1) * n
    BY <1>3, <1>4, <1>5, SMT
  <1> QED BY <1>1, <1>6 DEF k

LEMMA WindowsAreNumbers ==
  /\ \A t \in Times : t \div Minute \in Minutes /\ t \div Day \in Days
  /\ Minutes \subseteq Nat /\ Days \subseteq Nat
PROOF
  <1>1. \A t \in Times : t \div Minute \in Nat /\ t \div Day \in Nat
    BY WindowOf, RateAssumption DEF Times
  <1> QED BY <1>1 DEF Minutes, Days

LEMMA InitiallyNoQuestions == RateInit => RateInv
PROOF
  <1> SUFFICES ASSUME RateInit PROVE RateInv
    OBVIOUS
  <1> USE RateAssumption DEF RateInit
  <1>1. 0 \in Times /\ 0 \in 0..PerMinute /\ 0 \in 0..PerDay
    BY SMT DEF Times
  <1>2. RateTypeOK
    BY <1>1 DEF RateTypeOK, NoTake
  <1>3. TakesAreRecent
    BY DEF TakesAreRecent, Open, NoTake
  <1>4. /\ \A b \in Askers \X Minutes : OfMinute(b) = {} /\ used.minute[b] = 0
        /\ \A d \in Days : OfDay(d) = {} /\ used.day[d] = 0
    BY DEF OfMinute, OfDay
  <1>5. NumbersAreCounts
    BY <1>4, FS_EmptySet DEF NumbersAreCounts
  <1>6. BudgetsAreKept
    <2>1. Cardinality({}) = 0 /\ 0 <= PerMinute /\ 0 <= PerDay
      BY <1>1, FS_EmptySet
    <2> QED BY <1>4, <2>1 DEF BudgetsAreKept, WithinBudgets, CountsAreQuestions
  <1> QED BY <1>2, <1>3, <1>5, <1>6 DEF RateInv

\* Time only closes windows.
LEMMA ExpiredStays ==
  ASSUME NEW end \in Int, NEW t \in Int, NEW u \in Int, t <= u, Expired(end, t)
  PROVE  Expired(end, u)
PROOF
  BY RateAssumption, SMT DEF Expired

LEMMA EndsAreNumbers ==
  /\ \A b \in Askers \X Minutes : (b[2] + 1) * Minute \in Int
  /\ \A d \in Days : (d + 1) * Day \in Int
PROOF
  <1>1. ASSUME NEW k \in Nat, NEW n \in Nat PROVE (k + 1) * n \in Int
    OBVIOUS
  <1> QED BY <1>1, WindowsAreNumbers, RateAssumption

LEMMA RateTickKeeps == RateInv /\ Tick => RateInv'
PROOF
  <1> SUFFICES ASSUME RateInv, Tick PROVE RateInv'
    OBVIOUS
  <1>1. /\ now \in Int /\ now' = now + 1 /\ now' \in Times /\ now' \in Int
        /\ used' = used /\ take' = take /\ asked' = asked
    BY RateAssumption, SMT DEF RateInv, RateTypeOK, Times, Tick
  <1>2. RateTypeOK'
    BY <1>1 DEF RateInv, RateTypeOK
  <1>3. TakesAreRecent'
    <2> SUFFICES ASSUME NEW r \in Questions, Open(r)'
                 PROVE  take'[r].at <= now' /\ now' <= take'[r].at + Day
      BY DEF TakesAreRecent
    <2>1. Open(r) /\ take[r].at \in Times
      BY <1>1 DEF Open, RateInv, RateTypeOK
    <2>2. take[r].at <= now /\ now < take[r].at + Day
      BY <2>1 DEF RateInv, TakesAreRecent, Tick
    <2> QED BY <1>1, <2>1, <2>2, RateAssumption, SMT DEF Times
  <1>4. /\ \A b \in Askers \X Minutes :
             /\ OfMinute(b)' = OfMinute(b)
             /\ Expired((b[2] + 1) * Minute, now) => Expired((b[2] + 1) * Minute, now')
        /\ \A d \in Days :
             /\ OfDay(d)' = OfDay(d)
             /\ Expired((d + 1) * Day, now) => Expired((d + 1) * Day, now')
    <2>1. now <= now'
      BY <1>1, SMT
    <2> QED BY <1>1, <2>1, EndsAreNumbers, ExpiredStays DEF OfMinute, OfDay
  <1>5. NumbersAreCounts'
    BY <1>1, <1>4 DEF RateInv, NumbersAreCounts
  <1>6. BudgetsAreKept'
    BY <1>1, <1>4 DEF RateInv, BudgetsAreKept, WithinBudgets, CountsAreQuestions
  <1> QED BY <1>2, <1>3, <1>5, <1>6 DEF RateInv

\* A step that begins a transaction or ends one uncounted.
LEMMA UncountedKeeps ==
  ASSUME RateInv, NEW r \in Questions,
         NEW t \in [user : Askers \cup {NoAsker}, at : Times],
         t.user = NoAsker \/ t.at = now,
         take' = [take EXCEPT ![r] = t], UNCHANGED <<now, used, asked>>
  PROVE  RateInv'
PROOF
  <1>1. RateTypeOK'
    BY DEF RateInv, RateTypeOK
  <1>2. TakesAreRecent'
    <2> SUFFICES ASSUME NEW s \in Questions, Open(s)'
                 PROVE  take'[s].at <= now /\ now <= take'[s].at + Day
      BY DEF TakesAreRecent
    <2>1. CASE s = r
      <3>1. take'[s] = t /\ t.at = now /\ now \in Times
        BY <2>1 DEF RateInv, RateTypeOK, Open
      <3> QED BY <3>1, RateAssumption, SMT DEF Times
    <2>2. CASE s # r
      BY <2>2 DEF RateInv, RateTypeOK, TakesAreRecent, Open
    <2> QED BY <2>1, <2>2
  <1>3. NumbersAreCounts' /\ BudgetsAreKept'
    BY DEF RateInv, NumbersAreCounts, BudgetsAreKept, WithinBudgets, CountsAreQuestions,
           OfMinute, OfDay
  <1> QED BY <1>1, <1>2, <1>3 DEF RateInv

\* The windows an open transaction counts in are not swept, by it or before.
LEMMA WindowsAreThere ==
  ASSUME RateInv, NEW r \in Questions, Open(r)
  PROVE  /\ take[r].user \in Askers /\ take[r].at \in Times
         /\ MinuteOf(r) \in Askers \X Minutes /\ DayOf(r) \in Days
         /\ take[r].at \in Int /\ now \in Int /\ take[r].at <= now
         /\ ~Expired((MinuteOf(r)[2] + 1) * Minute, now)
         /\ ~Expired((DayOf(r) + 1) * Day, now)
PROOF
  <1>1. take[r].user \in Askers /\ take[r].at \in Times /\ now \in Times
    BY DEF RateInv, RateTypeOK, Open
  <1>2. take[r].at <= now /\ now <= take[r].at + Day
    BY DEF RateInv, TakesAreRecent
  <1>3. MinuteOf(r) \in Askers \X Minutes /\ DayOf(r) \in Days
    BY <1>1, WindowsAreNumbers DEF MinuteOf, DayOf
  <1>4. take[r].at \in Nat /\ now \in Nat
    BY <1>1, RateAssumption, SMT DEF Times
  <1>5. /\ take[r].at < (MinuteOf(r)[2] + 1) * Minute
        /\ take[r].at < (DayOf(r) + 1) * Day
    BY <1>4, WindowOf, RateAssumption DEF MinuteOf, DayOf
  <1>6. /\ (MinuteOf(r)[2] + 1) * Minute \in Int
        /\ (DayOf(r) + 1) * Day \in Int
    BY <1>3, EndsAreNumbers
  <1>7. ASSUME NEW end \in Int, take[r].at < end PROVE ~Expired(end, now)
    BY <1>2, <1>4, <1>7, RateAssumption, SMT DEF Expired
  <1> QED BY <1>1, <1>2, <1>3, <1>4, <1>5, <1>6, <1>7

LEMMA CountKeeps == \A r \in Questions : RateInv /\ Count(r) => RateInv'
PROOF
  <1> SUFFICES ASSUME NEW r \in Questions, RateInv, Count(r) PROVE RateInv'
    OBVIOUS
  <1>1. PICK b0, d0 : b0 = MinuteOf(r) /\ d0 = DayOf(r)
    OBVIOUS
  <1> DEFINE t == take[r].at
             new == [user |-> take[r].user, at |-> t, number |-> NumberInDay(r)]
             minute == [used.minute EXCEPT ![b0] = NumberInMinute(r)]
             day == [used.day EXCEPT ![d0] = NumberInDay(r)]
  <1>2. /\ take[r].user \in Askers /\ t \in Times
        /\ b0 \in Askers \X Minutes /\ d0 \in Days
        /\ b0 = <<take[r].user, t \div Minute>> /\ d0 = t \div Day
        /\ t \in Int /\ now \in Int /\ t <= now
        /\ ~Expired((b0[2] + 1) * Minute, now)
        /\ ~Expired((d0 + 1) * Day, now)
    BY <1>1, WindowsAreThere DEF Count, MinuteOf, DayOf
  <1>3. NumberInMinute(r) = used.minute[b0] + 1 /\ NumberInDay(r) = used.day[d0] + 1
    BY <1>1 DEF NumberInMinute, NumberInDay
  <1>4. /\ used.minute \in [Askers \X Minutes -> 0..PerMinute]
        /\ used.day \in [Days -> 0..PerDay]
        /\ take \in [Questions -> [user : Askers \cup {NoAsker}, at : Times]]
        /\ asked \subseteq [user : Askers, at : Times, number : 1..PerDay]
        /\ now \in Times
    BY DEF RateInv, RateTypeOK
  <1>5. /\ NumberInMinute(r) \in 0..PerMinute
        /\ NumberInDay(r) \in 1..PerDay /\ NumberInDay(r) \in 0..PerDay
    <2>1. used.minute[b0] \in 0..PerMinute /\ used.day[d0] \in 0..PerDay
      BY <1>2, <1>4
    <2>2. ~(NumberInMinute(r) > PerMinute) /\ ~(NumberInDay(r) > PerDay)
      BY DEF Count, Over
    <2> QED BY <1>3, <2>1, <2>2, RateAssumption, SMT
  <1>6. minute \in [Askers \X Minutes -> 0..PerMinute] /\ day \in [Days -> 0..PerDay]
    BY <1>4, <1>5
  <1>7. new \in [user : Askers, at : Times, number : 1..PerDay]
    BY <1>2, <1>5
  <1>8. /\ used' = Swept(minute, day, t) /\ asked' = asked \cup {new}
        /\ take' = [take EXCEPT ![r] = NoTake] /\ now' = now
    BY <1>1 DEF Count
  <1>9. /\ used'.minute = [b \in Askers \X Minutes |->
                             IF Expired((b[2] + 1) * Minute, t) THEN 0 ELSE minute[b]]
        /\ used'.day = [d \in Days |-> IF Expired((d + 1) * Day, t) THEN 0 ELSE day[d]]
        /\ used' = [minute |-> used'.minute, day |-> used'.day]
    BY <1>8 DEF Swept
  <1>10. RateTypeOK'
    <2>1. 0 \in 0..PerMinute /\ 0 \in 0..PerDay
      BY RateAssumption, SMT
    <2>2. /\ used'.minute \in [Askers \X Minutes -> 0..PerMinute]
          /\ used'.day \in [Days -> 0..PerDay]
      BY <1>6, <1>9, <2>1
    <2>3. NoTake \in [user : Askers \cup {NoAsker}, at : Times]
      BY RateAssumption, SMT DEF NoTake, Times
    <2> QED BY <1>4, <1>7, <1>8, <1>9, <2>2, <2>3 DEF RateTypeOK
  <1>11. TakesAreRecent'
    <2> SUFFICES ASSUME NEW s \in Questions, Open(s)'
                 PROVE  take'[s].at <= now /\ now <= take'[s].at + Day
      BY <1>8 DEF TakesAreRecent
    <2>1. s # r
      BY <1>4, <1>8 DEF Open, NoTake
    <2> QED BY <1>4, <1>8, <2>1 DEF RateInv, TakesAreRecent, Open
  <1>12. /\ \A b \in Askers \X Minutes : b # b0 =>
              \/ used'.minute[b] = used.minute[b]
              \/ Expired((b[2] + 1) * Minute, now)
         /\ \A d \in Days : d # d0 =>
              used'.day[d] = used.day[d] \/ Expired((d + 1) * Day, now)
    BY <1>2, <1>4, <1>9, EndsAreNumbers, ExpiredStays
  <1>13. /\ used'.minute[b0] = used.minute[b0] + 1
         /\ used'.day[d0] = used.day[d0] + 1
    <2>1. /\ ~Expired((b0[2] + 1) * Minute, t)
          /\ ~Expired((d0 + 1) * Day, t)
      BY <1>2, EndsAreNumbers, ExpiredStays
    <2> QED BY <1>2, <1>4, <1>3, <1>9, <2>1
  <1>14. /\ \A b \in Askers \X Minutes :
              /\ IsFiniteSet(OfMinute(b)) /\ Cardinality(OfMinute(b)) \in Nat
              /\ used.minute[b] \in 0..PerMinute
         /\ \A d \in Days :
              /\ IsFiniteSet(OfDay(d)) /\ Cardinality(OfDay(d)) \in Nat
              /\ used.day[d] \in 0..PerDay
    BY <1>4, FS_CardinalityType DEF RateInv, NumbersAreCounts
  <1>15. /\ used.minute[b0] = Cardinality(OfMinute(b0))
         /\ used.day[d0] = Cardinality(OfDay(d0))
    BY <1>2 DEF RateInv, BudgetsAreKept, CountsAreQuestions
  <1>16. new \notin asked
    <2> SUFFICES ASSUME new \in asked PROVE FALSE
      OBVIOUS
    <2>1. NumberInDay(r) <= used.day[d0]
      BY <1>2 DEF RateInv, NumbersAreCounts
    <2> QED BY <1>2, <1>3, <1>14, <2>1, SMT
  <1>17. /\ OfMinute(b0)' = OfMinute(b0) \cup {new}
         /\ \A b \in Askers \X Minutes : b # b0 => OfMinute(b)' = OfMinute(b)
         /\ OfDay(d0)' = OfDay(d0) \cup {new}
         /\ \A d \in Days : d # d0 => OfDay(d)' = OfDay(d)
    BY <1>2, <1>8 DEF OfMinute, OfDay
  <1>18. /\ IsFiniteSet(OfMinute(b0) \cup {new}) /\ IsFiniteSet(OfDay(d0) \cup {new})
         /\ Cardinality(OfMinute(b0) \cup {new}) = Cardinality(OfMinute(b0)) + 1
         /\ Cardinality(OfDay(d0) \cup {new}) = Cardinality(OfDay(d0)) + 1
    BY <1>2, <1>14, <1>16, FS_AddElement DEF OfMinute, OfDay
  <1>19. NumbersAreCounts'
    <2>1. ASSUME NEW d \in Days, NEW q \in asked', q.at \div Day = d
          PROVE  q.number <= used'.day[d] \/ Expired((d + 1) * Day, now)
      <3>1. CASE q = new
        BY <1>2, <1>5, <1>3, <1>13, <2>1, <3>1, SMT
      <3>2. CASE q \in asked
        <4>1. q.number <= used.day[d] \/ Expired((d + 1) * Day, now)
          BY <2>1, <3>2 DEF RateInv, NumbersAreCounts
        <4>2. q.number \in 1..PerDay /\ used.day[d] \in 0..PerDay
          BY <1>4, <1>14, <3>2
        <4>3. CASE d = d0
          BY <1>13, <4>1, <4>2, <4>3, SMT
        <4>4. CASE d # d0
          BY <1>12, <4>1, <4>4
        <4> QED BY <4>3, <4>4
      <3> QED BY <1>8, <2>1, <3>1, <3>2
    <2>2. \A b \in Askers \X Minutes : IsFiniteSet(OfMinute(b))'
      BY <1>2, <1>14, <1>17, <1>18
    <2>3. \A d \in Days : IsFiniteSet(OfDay(d))'
      BY <1>2, <1>14, <1>17, <1>18
    <2> QED BY <1>8, <2>1, <2>2, <2>3 DEF NumbersAreCounts
  <1>20. WithinBudgets'
    <2>1. \A b \in Askers \X Minutes : Cardinality(OfMinute(b))' <= PerMinute
      <3>1. Cardinality(OfMinute(b0))' = NumberInMinute(r)
        BY <1>3, <1>15, <1>17, <1>18
      <3>2. NumberInMinute(r) <= PerMinute
        BY <1>5
      <3>3. \A b \in Askers \X Minutes : Cardinality(OfMinute(b)) <= PerMinute
        BY DEF RateInv, BudgetsAreKept, WithinBudgets
      <3> QED BY <1>17, <3>1, <3>2, <3>3
    <2>2. \A d \in Days : Cardinality(OfDay(d))' <= PerDay
      <3>1. Cardinality(OfDay(d0))' = NumberInDay(r)
        BY <1>3, <1>15, <1>17, <1>18
      <3>2. NumberInDay(r) <= PerDay
        BY <1>5
      <3>3. \A d \in Days : Cardinality(OfDay(d)) <= PerDay
        BY DEF RateInv, BudgetsAreKept, WithinBudgets
      <3> QED BY <1>17, <3>1, <3>2, <3>3
    <2> QED BY <2>1, <2>2 DEF WithinBudgets
  <1>21. CountsAreQuestions'
    <2>1. ASSUME NEW b \in Askers \X Minutes
          PROVE  \/ used'.minute[b] = Cardinality(OfMinute(b))'
                 \/ Expired((b[2] + 1) * Minute, now)
      <3>1. CASE b = b0
        BY <1>13, <1>15, <1>17, <1>18, <3>1
      <3>2. CASE b # b0
        BY <1>12, <1>17, <3>2 DEF RateInv, BudgetsAreKept, CountsAreQuestions
      <3> QED BY <3>1, <3>2
    <2>2. ASSUME NEW d \in Days
          PROVE  \/ used'.day[d] = Cardinality(OfDay(d))'
                 \/ Expired((d + 1) * Day, now)
      <3>1. CASE d = d0
        BY <1>13, <1>15, <1>17, <1>18, <3>1
      <3>2. CASE d # d0
        BY <1>12, <1>17, <3>2 DEF RateInv, BudgetsAreKept, CountsAreQuestions
      <3> QED BY <3>1, <3>2
    <2> QED BY <1>8, <2>1, <2>2 DEF CountsAreQuestions
  <1> QED BY <1>10, <1>11, <1>19, <1>20, <1>21 DEF RateInv, BudgetsAreKept

LEMMA RateStep == RateInv /\ [RateNext]_rateVars => RateInv'
PROOF
  <1> SUFFICES ASSUME RateInv, [RateNext]_rateVars PROVE RateInv'
    OBVIOUS
  <1>1. CASE Tick
    BY <1>1, RateTickKeeps
  <1>2. ASSUME NEW r \in Questions, NEW u \in Askers, Begin(r, u) PROVE RateInv'
    <2>1. [user |-> u, at |-> now] \in [user : Askers \cup {NoAsker}, at : Times]
      BY DEF RateInv, RateTypeOK
    <2> QED BY <1>2, <2>1, UncountedKeeps DEF Begin
  <1>3. ASSUME NEW r \in Questions, Refuse(r) PROVE RateInv'
    <2>1. NoTake \in [user : Askers \cup {NoAsker}, at : Times] /\ NoTake.user = NoAsker
      BY RateAssumption, SMT DEF NoTake, Times
    <2> QED BY <1>3, <2>1, UncountedKeeps DEF Refuse
  <1>4. ASSUME NEW r \in Questions, Count(r) PROVE RateInv'
    BY <1>4, CountKeeps
  <1>5. CASE UNCHANGED rateVars
    BY <1>5 DEF rateVars, RateInv, RateTypeOK, TakesAreRecent, Open, NumbersAreCounts,
                BudgetsAreKept, WithinBudgets, CountsAreQuestions, OfMinute, OfDay
  <1> QED BY <1>1, <1>2, <1>3, <1>4, <1>5 DEF RateNext

\* Transactions end while their windows are kept, whose counts number the
\* questions.
THEOREM RateInvariant == RateSpec => []RateInv
PROOF
  BY InitiallyNoQuestions, RateStep, PTL DEF RateSpec

\* No count exceeds its budget, and clocks and transactions keep their types.
THEOREM RateTypeCorrect == RateSpec => []RateTypeOK
PROOF
  <1>1. RateInv => RateTypeOK
    BY DEF RateInv
  <1> QED BY <1>1, RateInvariant, PTL

\* No minute and no day lets more questions through than its budget, and a
\* window still counted in has counted exactly those (Take), for any windows,
\* budgets and number of waiting transactions.
THEOREM BudgetsHold == RateSpec => []BudgetsAreKept
PROOF
  <1>1. RateInv => BudgetsAreKept
    BY DEF RateInv
  <1> QED BY <1>1, RateInvariant, PTL
------------------------------------------------------------------------------
\* The behaviours of the run.

\* Whichever component a behaviour is about, it is a behaviour of each of them:
\* what is proved of the components holds in the run.
THEOREM ComponentsBehave == MCSpec => Spec /\ RateSpec
PROOF
  <1>1. MCInit => Init /\ RateInit
    BY DEF MCInit
  <1>2. [MCNext]_allVars => [Next]_vars /\ [RateNext]_rateVars
    BY DEF MCNext, allVars
  <1> QED BY <1>1, <1>2, PTL DEF MCSpec, Spec, RateSpec

\* What each component keeps is of its type, whichever a behaviour is about.
THEOREM AllTypesCorrect == MCSpec => []AllTypesOK
PROOF
  BY ComponentsBehave, SessionTypeCorrect, RateTypeCorrect, PTL DEF AllTypesOK
===========================================================================
