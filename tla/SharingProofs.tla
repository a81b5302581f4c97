---------------------------- MODULE SharingProofs ----------------------------
(***************************************************************************)
(* Proofs about AccessGate, Grants and Publications, for any requests,     *)
(* tabs, subscribers, knowledge bases and grants.                          *)
(***************************************************************************)
EXTENDS MCSharing, TLAPS

(***************************************************************************)
(* The gate, while owners change what they share at any time.  AInv says   *)
(* that the facts a request has seen include all that hold, that each base *)
(* it has decided rests on facts it has seen, that what a conversation     *)
(* collected covers the session as it was when the request came, and that  *)
(* the scope covers the session.                                           *)
(***************************************************************************)
LEMMA IdleSound == Idle \in Request /\ Idle.pc = "idle" /\ Sound(Idle, {}, {})
PROOF
  <1>1. Idle \in Request
    BY DEF Idle, Request, Points, Operations, PathActions, Retrievals
  <1>2. Sound(Idle, {}, {})
    BY DEF Idle, Sound
  <1> QED BY <1>1, <1>2 DEF Idle

LEMMA NowType ==
  ASSUME grant \in [KBs -> Roles], listing \in [KBs -> Listings], subscribed \subseteq KBs
  PROVE  Now \subseteq Facts
PROOF
  BY DEF Now, Facts, Roles, Listings

\* More facts allow no less.
LEMMA SufficientGrows ==
  ASSUME NEW op, NEW k, NEW known, NEW more, known \subseteq more, Sufficient(op, k, known)
  PROVE  Sufficient(op, k, more)
PROOF
  BY DEF Sufficient

LEMMA SoundGrows ==
  ASSUME NEW q, NEW known, NEW more, NEW old, known \subseteq more, Sound(q, known, old)
  PROVE  Sound(q, more, old)
PROOF
  BY SufficientGrows DEF Sound

LEMMA InitiallyShut == Init => AInv
PROOF
  <1> SUFFICES ASSUME Init PROVE AInv
    OBVIOUS
  <1>1. TypeOK
    BY IdleSound DEF Init, TypeOK, Roles, Listings
  <1>2. \A r \in Requests : req[r] = Idle /\ since[r] = {} /\ before[r] = {}
    BY DEF Init
  <1>3. RequestsAreSound
    BY <1>2, IdleSound DEF RequestsAreSound
  <1>4. SinceIsNow /\ ConversationsAreRecorded
    BY <1>2, IdleSound DEF SinceIsNow, ConversationsAreRecorded, At
  <1>5. ScopeCoversHistory
    BY DEF Init, ScopeCoversHistory
  <1> QED BY <1>1, <1>3, <1>4, <1>5 DEF AInv

\* A step of one request that changes its locals only.
LEMMA StepKeeps ==
  ASSUME AInv, NEW r \in Requests, ~At(r, "idle"), NEW q \in Request, Step(r, q),
         Sound(q, since[r], before[r]),
         q.pc = "forward" /\ q.op = "chat" => q.kbs \subseteq scope
  PROVE  AInv'
PROOF
  <1>1. /\ req' \in [Requests -> Request]
        /\ \A p \in Requests : req'[p] = IF p = r THEN q ELSE req[p]
    BY DEF Step, AInv, TypeOK
  <1>2. UNCHANGED <<grant, listing, subscribed, scope, content, since, before, changes>>
    BY DEF Step, facts, history
  <1>3. TypeOK'
    BY <1>1, <1>2 DEF AInv, TypeOK
  <1>4. Now' = Now
    BY <1>2 DEF Now
  <1>5. SinceIsNow'
    BY <1>1, <1>2, <1>4 DEF AInv, SinceIsNow, At
  <1>6. RequestsAreSound'
    <2>1. \A p \in Requests : Sound(req'[p], since[p], before[p])
      BY <1>1 DEF AInv, RequestsAreSound
    <2>2. \A p \in Requests : Sound(req[p], since[p], before[p])' <=>
                              Sound(req'[p], since[p], before[p])
      BY <1>2 DEF Sound, Sufficient
    <2> QED BY <2>1, <2>2 DEF RequestsAreSound
  <1>7. ConversationsAreRecorded'
    BY <1>1, <1>2 DEF AInv, ConversationsAreRecorded, At
  <1>8. ScopeCoversHistory'
    BY <1>2 DEF AInv, ScopeCoversHistory
  <1> QED BY <1>3, <1>5, <1>6, <1>7, <1>8 DEF AInv

\* What follows of a request's locals and history when it ends.
LEMMA EndEffect ==
  ASSUME AInv, NEW r \in Requests,
         req' = [req EXCEPT ![r] = Idle], since' = [since EXCEPT ![r] = {}],
         before' = [before EXCEPT ![r] = {}],
         UNCHANGED <<grant, listing, subscribed, scope, changes>>,
         content \subseteq content', content' \subseteq scope
  PROVE  AInv'
PROOF
  <1>1. /\ req' \in [Requests -> Request]
        /\ \A p \in Requests : req'[p] = IF p = r THEN Idle ELSE req[p]
    BY IdleSound DEF AInv, TypeOK
  <1>2. /\ since' \in [Requests -> SUBSET Facts]
        /\ \A p \in Requests : since'[p] = IF p = r THEN {} ELSE since[p]
    BY DEF AInv, TypeOK
  <1>3. /\ before' \in [Requests -> SUBSET KBs]
        /\ \A p \in Requests : before'[p] = IF p = r THEN {} ELSE before[p]
    BY DEF AInv, TypeOK
  <1>4. TypeOK'
    BY <1>1, <1>2, <1>3 DEF AInv, TypeOK
  <1>5. Now' = Now
    BY DEF Now
  <1>6. SinceIsNow'
    BY <1>1, <1>2, <1>3, <1>5, IdleSound DEF AInv, SinceIsNow, At
  <1>7. RequestsAreSound'
    <2>1. \A p \in Requests : Sound(req'[p], since'[p], before'[p])
      BY <1>1, <1>2, <1>3, IdleSound DEF AInv, RequestsAreSound
    <2> QED BY <2>1 DEF RequestsAreSound, Sound, Sufficient
  <1>8. ConversationsAreRecorded'
    BY <1>1, IdleSound DEF AInv, ConversationsAreRecorded, At
  <1>9. ScopeCoversHistory'
    BY DEF ScopeCoversHistory
  <1> QED BY <1>4, <1>6, <1>7, <1>8, <1>9 DEF AInv

LEMMA LeaveKeeps ==
  ASSUME AInv, NEW r \in Requests, Leave(r)
  PROVE  AInv'
PROOF
  BY EndEffect DEF Leave, facts, AInv, ScopeCoversHistory
---------------------------------------------------------------------------
\* One lemma per action, or kind of action.

\* A request that comes has seen what holds, and has decided nothing.
LEMMA ComeKeeps ==
  ASSUME AInv, NEW r \in Requests, NEW op \in Operations,
         NEW pc \in {"resolve", "session", "grant"}, NEW asked \in SUBSET KBs,
         NEW todo \in SUBSET KBs, Come(r, op, pc, asked, todo),
         pc = "resolve" => op \in Retrievals,
         pc = "grant" => op \notin {"chat", "messages"},
         pc # "resolve" /\ op = "chat" => asked \subseteq todo
  PROVE  AInv'
PROOF
  <1> DEFINE q == [pc |-> pc, op |-> op, kbs |-> todo, asked |-> asked, todo |-> todo]
  <1>1. q \in Request /\ q.pc = pc
    BY DEF Request, Points
  <1>2. Sound(q, Now, content)
    BY DEF Sound
  <1>3. req' = [req EXCEPT ![r] = q]
    BY DEF Come
  <1> HIDE DEF q
  <1>4. /\ req' \in [Requests -> Request]
        /\ \A p \in Requests : req'[p] = IF p = r THEN q ELSE req[p]
    BY <1>1, <1>3 DEF AInv, TypeOK
  <1>5. Now \subseteq Facts
    BY NowType DEF AInv, TypeOK
  <1>6. /\ since' \in [Requests -> SUBSET Facts]
        /\ \A p \in Requests : since'[p] = IF p = r THEN Now ELSE since[p]
    BY <1>5 DEF Come, AInv, TypeOK
  <1>7. /\ before' \in [Requests -> SUBSET KBs]
        /\ \A p \in Requests : before'[p] = IF p = r THEN content ELSE before[p]
    BY DEF Come, AInv, TypeOK
  <1>8. UNCHANGED <<grant, listing, subscribed, scope, content, changes>>
    BY DEF Come, facts
  <1>9. TypeOK'
    BY <1>4, <1>6, <1>7, <1>8 DEF AInv, TypeOK
  <1>10. Now' = Now
    BY <1>8 DEF Now
  <1>11. SinceIsNow'
    BY <1>4, <1>6, <1>7, <1>8, <1>10 DEF AInv, SinceIsNow, At
  <1>12. RequestsAreSound'
    <2>1. \A p \in Requests : Sound(req'[p], since'[p], before'[p])
      BY <1>2, <1>4, <1>6, <1>7 DEF AInv, RequestsAreSound
    <2> QED BY <2>1 DEF RequestsAreSound, Sound, Sufficient
  <1>13. ConversationsAreRecorded'
    BY <1>1, <1>4, <1>8 DEF AInv, ConversationsAreRecorded, At
  <1>14. ScopeCoversHistory'
    BY <1>8 DEF AInv, ScopeCoversHistory
  <1> QED BY <1>9, <1>11, <1>12, <1>13, <1>14 DEF AInv

LEMMA AskKeeps ==
  ASSUME AInv, NEW r \in Requests, Ask(r)
  PROVE  AInv'
PROOF
  <1> USE DEF Operations, Retrievals, PathActions
  <1>1. ASSUME NEW op \in Retrievals, NEW asked \in SUBSET KBs, AskRetrieval(r, op, asked)
        PROVE  AInv'
    BY <1>1, ComeKeeps DEF AskRetrieval
  <1>2. CASE AskPureChat(r)
    BY <1>2, ComeKeeps DEF AskPureChat
  <1>3. CASE AskMessages(r)
    BY <1>3, ComeKeeps DEF AskMessages
  <1>4. CASE AskList(r)
    BY <1>4, ComeKeeps DEF AskList
  <1>5. ASSUME NEW op \in PathActions, NEW k \in KBs, AskPath(r, op, k)
        PROVE  AInv'
    BY <1>5, ComeKeeps DEF AskPath
  <1> QED BY <1>1, <1>2, <1>3, <1>4, <1>5 DEF Ask

\* What a request's locals are, and are known to be.
LEMMA Known ==
  ASSUME AInv, NEW r \in Requests
  PROVE  req[r] \in Request /\ Sound(req[r], since[r], before[r])
PROOF
  BY DEF AInv, TypeOK, RequestsAreSound

LEMMA ResolveKeeps ==
  ASSUME AInv, NEW r \in Requests, Resolve(r)
  PROVE  AInv'
PROOF
  <1> DEFINE resolved == IF req[r].asked = {} THEN Library ELSE req[r].asked
             pc == IF req[r].op = "chat" THEN "session" ELSE "grant"
             q == [req[r] EXCEPT !.pc = pc, !.asked = resolved, !.kbs = resolved,
                                 !.todo = resolved]
  <1>1. CASE Leave(r)
    BY <1>1, LeaveKeeps
  <1>2. CASE Step(r, q)
    <2>1. resolved \in SUBSET KBs
      BY Known DEF Library, Request
    <2>2. /\ q \in Request /\ q.pc = pc /\ q.op = req[r].op /\ q.kbs = resolved
          /\ q.asked = resolved /\ q.todo = resolved
      BY <2>1, Known DEF Request, Points
    <2>3. ~At(r, "idle") /\ req[r].op \in Retrievals
      BY Known DEF Resolve, At, Sound
    <2> HIDE DEF q, resolved
    <2>4. Sound(q, since[r], before[r])
      BY <2>2, <2>3 DEF Sound, Retrievals
    <2> QED BY <1>2, <2>2, <2>3, <2>4, StepKeeps
  <1> QED BY <1>1, <1>2 DEF Resolve

\* What the session was answered from is in its scope, and so is decided too.
LEMMA ReadSessionKeeps ==
  ASSUME AInv, NEW r \in Requests, ReadSession(r)
  PROVE  AInv'
PROOF
  <1> DEFINE q == [req[r] EXCEPT !.pc = "grant", !.kbs = @ \cup scope, !.todo = @ \cup scope]
  <1>1. /\ q \in Request /\ q.pc = "grant" /\ q.op = req[r].op /\ q.asked = req[r].asked
        /\ q.kbs = req[r].kbs \cup scope /\ q.todo = req[r].todo \cup scope
    BY Known DEF Request, Points, AInv, TypeOK
  <1>2. ~At(r, "idle") /\ Step(r, q)
    BY DEF ReadSession, At
  <1>3. before[r] \subseteq scope
    BY <1>2 DEF AInv, SinceIsNow, ScopeCoversHistory
  <1> HIDE DEF q
  <1>4. Sound(q, since[r], before[r])
    BY <1>1, <1>3, Known DEF Sound, ReadSession, At
  <1> QED BY <1>1, <1>2, <1>4, StepKeeps

\* A base that is found to be allowed ...
LEMMA PermittedKeeps ==
  ASSUME AInv, NEW r \in Requests, req[r].pc \in {"grant", "publication", "subscription"},
         NEW k, Sufficient(req[r].op, k, since[r]), Permitted(r, k)
  PROVE  AInv'
PROOF
  <1> DEFINE q == [req[r] EXCEPT !.pc = "grant", !.todo = @ \ {k}]
  <1>1. /\ q \in Request /\ q.pc = "grant" /\ q.op = req[r].op /\ q.asked = req[r].asked
        /\ q.kbs = req[r].kbs /\ q.todo = req[r].todo \ {k}
    BY Known DEF Request, Points
  <1>2. ~At(r, "idle") /\ Step(r, q)
    BY DEF Permitted, At
  <1> HIDE DEF q
  <1>3. Sound(q, since[r], before[r])
    BY <1>1, Known DEF Sound
  <1> QED BY <1>1, <1>2, <1>3, StepKeeps

\* ... and one that is not: of a list it is left out, and an editor's rename,
\* allowed so far for what the employee owns, is decided as an edit.
LEMMA DeniedKeeps ==
  ASSUME AInv, NEW r \in Requests, req[r].pc \in {"grant", "publication", "subscription"},
         NEW k, Denied(r, k)
  PROVE  AInv'
PROOF
  <1>1. ~At(r, "idle")
    BY DEF At
  <1>2. CASE req[r].op = "list"
    <2> DEFINE q == [req[r] EXCEPT !.pc = "grant", !.todo = @ \ {k}, !.kbs = @ \ {k}]
    <2>1. /\ q \in Request /\ q.pc = "grant" /\ q.op = req[r].op /\ q.asked = req[r].asked
          /\ q.kbs = req[r].kbs \ {k} /\ q.todo = req[r].todo \ {k}
      BY Known DEF Request, Points
    <2>2. Step(r, q)
      BY <1>2 DEF Denied
    <2> HIDE DEF q
    <2>3. Sound(q, since[r], before[r])
      BY <1>2, <2>1, Known DEF Sound
    <2> QED BY <1>1, <2>1, <2>2, <2>3, StepKeeps
  <1>3. CASE req[r].op = "rename"
    <2> DEFINE q == [req[r] EXCEPT !.pc = "grant", !.op = "edit"]
    <2>1. /\ q \in Request /\ q.pc = "grant" /\ q.op = "edit" /\ q.asked = req[r].asked
          /\ q.kbs = req[r].kbs /\ q.todo = req[r].todo
      BY Known DEF Request, Points, Operations, PathActions
    <2>2. Step(r, q)
      BY <1>3 DEF Denied
    <2> HIDE DEF q
    <2>3. \A b \in req[r].kbs \ req[r].todo : b \in Owned
      BY <1>3, Known DEF Sound, Sufficient
    <2>4. \A b \in q.kbs \ q.todo : Sufficient(q.op, b, since[r])
      BY <2>1, <2>3 DEF Sufficient
    <2>5. Sound(q, since[r], before[r])
      BY <2>1, <2>4, Known DEF Sound
    <2> QED BY <1>1, <2>1, <2>2, <2>5, StepKeeps
  <1>4. CASE req[r].op \notin {"list", "rename"}
    BY <1>4, LeaveKeeps DEF Denied
  <1> QED BY <1>2, <1>3, <1>4

\* What the gate finds for a base it has seen, as facts.
LEMMA FactsFound ==
  ASSUME AInv, NEW r \in Requests, ~At(r, "idle"), NEW k \in KBs
  PROVE  /\ grant[k] # "none" => <<k, grant[k]>> \in since[r] /\ grant[k] \in {"viewer", "editor"}
         /\ listing[k] # "none" => <<k, "listed">> \in since[r]
         /\ listing[k] = "organization_public" =>
              <<k, "listed">> \in since[r] /\ <<k, "public">> \in since[r]
         /\ k \in subscribed => <<k, "subscribed">> \in since[r]
PROOF
  <1>1. Now \subseteq since[r]
    BY DEF AInv, SinceIsNow
  <1>2. grant[k] # "none" => <<k, grant[k]>> \in Now /\ grant[k] \in {"viewer", "editor"}
    BY DEF Now, AInv, TypeOK, Roles
  <1>3. listing[k] # "none" => <<k, "listed">> \in Now
    BY DEF Now
  <1>4. listing[k] = "organization_public" => <<k, "public">> \in Now
    BY DEF Now
  <1>5. k \in subscribed => <<k, "subscribed">> \in Now
    BY DEF Now
  <1> QED BY <1>1, <1>2, <1>3, <1>4, <1>5

LEMMA DecidingOne ==
  ASSUME AInv, NEW r \in Requests, req[r].todo # {}
  PROVE  Deciding(r) \in KBs /\ Deciding(r) \in req[r].todo
PROOF
  <1>1. req[r].todo \in SUBSET KBs
    BY Known DEF Request
  <1> QED BY <1>1 DEF Deciding, First

LEMMA DecideGrantKeeps ==
  ASSUME AInv, NEW r \in Requests, DecideGrant(r)
  PROVE  AInv'
PROOF
  <1> DEFINE k == Deciding(r)
  <1>1. /\ req[r].pc = "grant" /\ ~At(r, "idle") /\ req[r].todo # {} /\ k \in KBs
    BY DecidingOne DEF DecideGrant, At
  <1>2. CASE k \in Owned
    <2>1. Sufficient(req[r].op, k, since[r])
      BY <1>2 DEF Sufficient
    <2> QED BY <1>1, <1>2, <2>1, PermittedKeeps DEF DecideGrant
  <1>3. CASE k \notin Owned /\ grant[k] = "none"
    <2> DEFINE q == [req[r] EXCEPT !.pc = "publication"]
    <2>1. /\ q \in Request /\ q.pc = "publication" /\ q.op = req[r].op
          /\ q.asked = req[r].asked /\ q.kbs = req[r].kbs /\ q.todo = req[r].todo
      BY Known DEF Request, Points
    <2>2. Step(r, q)
      BY <1>3 DEF DecideGrant
    <2> HIDE DEF q
    <2>3. Sound(q, since[r], before[r])
      BY <1>1, <2>1, Known DEF Sound
    <2> QED BY <1>1, <2>1, <2>2, <2>3, StepKeeps
  <1>4. CASE k \notin Owned /\ grant[k] # "none"
    <2>1. Decided(r, k, grant[k], "user_grant")
      BY <1>4 DEF DecideGrant
    <2>2. CASE Allowed(req[r].op, grant[k], "user_grant")
      <3>1. Sufficient(req[r].op, k, since[r])
        BY <1>1, <1>4, <2>2, FactsFound DEF Allowed, Sufficient
      <3> QED BY <1>1, <2>1, <2>2, <3>1, PermittedKeeps DEF Decided
    <2>3. CASE ~Allowed(req[r].op, grant[k], "user_grant")
      BY <1>1, <2>1, <2>3, DeniedKeeps DEF Decided
    <2> QED BY <2>2, <2>3
  <1> QED BY <1>2, <1>3, <1>4

\* A listed base that is public or subscribed may be read, and no more.
LEMMA FollowingKeeps ==
  ASSUME AInv, NEW r \in Requests, req[r].pc \in {"publication", "subscription"},
         NEW k \in KBs, <<k, "listed">> \in since[r],
         <<k, "public">> \in since[r] \/ <<k, "subscribed">> \in since[r],
         Decided(r, k, "viewer", "publication")
  PROVE  AInv'
PROOF
  <1>1. CASE Allowed(req[r].op, "viewer", "publication")
    <2>1. Sufficient(req[r].op, k, since[r])
      BY <1>1 DEF Allowed, Sufficient
    <2> QED BY <1>1, <2>1, PermittedKeeps DEF Decided
  <1>2. CASE ~Allowed(req[r].op, "viewer", "publication")
    BY <1>2, DeniedKeeps DEF Decided
  <1> QED BY <1>1, <1>2

LEMMA DecidePublicationKeeps ==
  ASSUME AInv, NEW r \in Requests, DecidePublication(r)
  PROVE  AInv'
PROOF
  <1> DEFINE k == Deciding(r)
  <1>1. req[r].pc = "publication" /\ ~At(r, "idle")
    BY DEF DecidePublication, At
  <1>2. req[r].todo # {} /\ k \in KBs
    BY <1>1, Known, DecidingOne DEF Sound
  <1>3. CASE listing[k] = "none"
    BY <1>1, <1>3, DeniedKeeps DEF DecidePublication
  <1>4. CASE listing[k] = "organization_public"
    <2>1. Decided(r, k, "viewer", "publication")
      BY <1>4 DEF DecidePublication
    <2> QED BY <1>1, <1>2, <1>4, <2>1, FactsFound, FollowingKeeps
  <1>5. CASE listing[k] \notin {"none", "organization_public"}
    <2> DEFINE q == [req[r] EXCEPT !.pc = "subscription"]
    <2>1. /\ q \in Request /\ q.pc = "subscription" /\ q.op = req[r].op
          /\ q.asked = req[r].asked /\ q.kbs = req[r].kbs /\ q.todo = req[r].todo
      BY Known DEF Request, Points
    <2>2. Step(r, q)
      BY <1>5 DEF DecidePublication
    <2> HIDE DEF q
    <2>3. <<First(req[r].todo), "listed">> \in since[r]
      BY <1>1, <1>2, <1>5, FactsFound DEF Deciding
    <2>4. Sound(q, since[r], before[r])
      BY <1>1, <1>2, <2>1, <2>3, Known DEF Sound
    <2> QED BY <1>1, <2>1, <2>2, <2>4, StepKeeps
  <1> QED BY <1>3, <1>4, <1>5

LEMMA DecideSubscriptionKeeps ==
  ASSUME AInv, NEW r \in Requests, DecideSubscription(r)
  PROVE  AInv'
PROOF
  <1> DEFINE k == Deciding(r)
  <1>1. req[r].pc = "subscription" /\ ~At(r, "idle")
    BY DEF DecideSubscription, At
  <1>2. req[r].todo # {} /\ k \in KBs /\ <<k, "listed">> \in since[r]
    BY <1>1, Known, DecidingOne DEF Sound, Deciding
  <1>3. CASE k \in subscribed
    <2>1. Decided(r, k, "viewer", "publication")
      BY <1>3 DEF DecideSubscription
    <2> QED BY <1>1, <1>2, <1>3, <2>1, FactsFound, FollowingKeeps
  <1>4. CASE k \notin subscribed
    BY <1>1, <1>4, DeniedKeeps DEF DecideSubscription
  <1> QED BY <1>3, <1>4

LEMMA AllDecidedKeeps ==
  ASSUME AInv, NEW r \in Requests, AllDecided(r)
  PROVE  AInv'
PROOF
  <1> DEFINE pc == IF req[r].op \in {"chat", "messages"} /\ req[r].kbs # {}
                     THEN "record" ELSE "forward"
             q == [req[r] EXCEPT !.pc = pc]
  <1>1. /\ q \in Request /\ q.pc = pc /\ q.op = req[r].op /\ q.asked = req[r].asked
        /\ q.kbs = req[r].kbs /\ q.todo = req[r].todo
    BY Known DEF Request, Points
  <1>2. Step(r, q) /\ req[r].pc = "grant" /\ req[r].todo = {} /\ ~At(r, "idle")
    BY DEF AllDecided, At
  <1> HIDE DEF q
  <1>3. Sound(q, since[r], before[r])
    BY <1>1, <1>2, Known DEF Sound
  <1> QED BY <1>1, <1>2, <1>3, StepKeeps

\* What is forwarded has been recorded.
LEMMA RecordScopeKeeps ==
  ASSUME AInv, NEW r \in Requests, RecordScope(r)
  PROVE  AInv'
PROOF
  <1> DEFINE q == [req[r] EXCEPT !.pc = "forward"]
  <1>1. /\ q \in Request /\ q.pc = "forward" /\ q.op = req[r].op /\ q.asked = req[r].asked
        /\ q.kbs = req[r].kbs /\ q.todo = req[r].todo /\ q.kbs \in SUBSET KBs
    BY Known DEF Request, Points
  <1>2. req' = [req EXCEPT ![r] = q] /\ req[r].pc = "record"
    BY DEF RecordScope, Goes, At
  <1>3. Sound(q, since[r], before[r])
    BY <1>1, <1>2, Known DEF Sound
  <1> HIDE DEF q
  <1>4. /\ req' \in [Requests -> Request]
        /\ \A p \in Requests : req'[p] = IF p = r THEN q ELSE req[p]
    BY <1>1, <1>2 DEF AInv, TypeOK
  <1>5. /\ UNCHANGED <<grant, listing, subscribed, content, since, before, changes>>
        /\ scope' = scope \cup q.kbs
    BY <1>1 DEF RecordScope, facts, history
  <1>6. TypeOK'
    BY <1>1, <1>4, <1>5 DEF AInv, TypeOK
  <1>7. Now' = Now
    BY <1>5 DEF Now
  <1>8. SinceIsNow'
    BY <1>2, <1>4, <1>5, <1>7 DEF AInv, SinceIsNow, At
  <1>9. RequestsAreSound'
    <2>1. \A p \in Requests : Sound(req'[p], since'[p], before'[p])
      BY <1>3, <1>4, <1>5 DEF AInv, RequestsAreSound
    <2> QED BY <2>1 DEF RequestsAreSound, Sound, Sufficient
  <1>10. ConversationsAreRecorded'
    BY <1>4, <1>5 DEF AInv, ConversationsAreRecorded, At
  <1>11. ScopeCoversHistory'
    BY <1>5 DEF AInv, ScopeCoversHistory
  <1> QED BY <1>6, <1>8, <1>9, <1>10, <1>11 DEF AInv

LEMMA ForwardKeeps ==
  ASSUME AInv, NEW r \in Requests, Forward(r)
  PROVE  AInv'
PROOF
  <1>1. content \subseteq content' /\ content' \subseteq scope
    BY Known DEF Forward, At, Sound, AInv, ConversationsAreRecorded, ScopeCoversHistory
  <1> QED BY <1>1, EndEffect DEF Forward, facts

LEMMA ForwardSearchKeeps ==
  ASSUME AInv, NEW r \in Requests, NEW found \in SUBSET KBs, ForwardSearch(r, found)
  PROVE  AInv'
PROOF
  <1> DEFINE q == [req[r] EXCEPT !.pc = "results", !.asked = found]
  <1>1. /\ q \in Request /\ q.pc = "results" /\ q.op = req[r].op
        /\ q.kbs = req[r].kbs /\ q.todo = req[r].todo
    BY Known DEF Request, Points
  <1>2. Step(r, q) /\ req[r].pc = "forward" /\ req[r].op = "search" /\ ~At(r, "idle")
    BY DEF ForwardSearch, At
  <1> HIDE DEF q
  <1>3. Sound(q, since[r], before[r])
    BY <1>1, <1>2, Known DEF Sound
  <1> QED BY <1>1, <1>2, <1>3, StepKeeps

\* Changes leave what requests have seen, and add to it.
LEMMA ChangedKeeps ==
  ASSUME AInv, Changed, grant' \in [KBs -> Roles], listing' \in [KBs -> Listings],
         subscribed' \subseteq KBs
  PROVE  AInv'
PROOF
  <1>1. UNCHANGED <<scope, content, req, before>>
    BY DEF Changed
  <1>2. Now' \subseteq Facts
    BY NowType DEF Now, Facts, Roles, Listings
  <1>3. /\ since' \in [Requests -> SUBSET Facts]
        /\ \A p \in Requests : since'[p] = IF At(p, "idle") THEN {} ELSE since[p] \cup Now'
    BY <1>2 DEF Changed, AInv, TypeOK
  <1>4. TypeOK'
    BY <1>1, <1>3 DEF AInv, TypeOK, Changed
  <1>5. SinceIsNow'
    BY <1>1, <1>3 DEF AInv, SinceIsNow, At
  <1>6. RequestsAreSound'
    <2>1. ASSUME NEW p \in Requests, ~At(p, "idle")
          PROVE  Sound(req[p], since'[p], before[p])
      BY <1>3, <2>1, Known, SoundGrows
    <2>2. ASSUME NEW p \in Requests, At(p, "idle")
          PROVE  Sound(req[p], since'[p], before[p])
      <3>1. since'[p] = {} /\ req[p].pc = "idle"
        BY <1>3, <2>2 DEF At
      <3> QED BY <3>1, Known DEF Sound
    <2>3. \A p \in Requests : Sound(req'[p], since'[p], before'[p])
      BY <1>1, <2>1, <2>2
    <2> QED BY <2>3 DEF RequestsAreSound, Sound, Sufficient
  <1>7. ConversationsAreRecorded' /\ ScopeCoversHistory'
    BY <1>1 DEF AInv, ConversationsAreRecorded, ScopeCoversHistory, At
  <1> QED BY <1>4, <1>5, <1>6, <1>7 DEF AInv

LEMMA GateStep == AInv /\ [Next]_vars => AInv'
PROOF
  <1> SUFFICES ASSUME AInv, [Next]_vars PROVE AInv'
    OBVIOUS
  <1>1. ASSUME NEW r \in Requests, Ask(r) \/ Die(r) PROVE AInv'
    BY <1>1, AskKeeps, LeaveKeeps DEF Die
  <1>2. ASSUME NEW r \in Requests, Resolve(r) \/ ReadSession(r) \/ DecideGrant(r)
        PROVE  AInv'
    BY <1>2, ResolveKeeps, ReadSessionKeeps, DecideGrantKeeps
  <1>3. ASSUME NEW r \in Requests, DecidePublication(r) \/ DecideSubscription(r)
        PROVE  AInv'
    BY <1>3, DecidePublicationKeeps, DecideSubscriptionKeeps
  <1>4. ASSUME NEW r \in Requests, AllDecided(r) \/ RecordScope(r) \/ Forward(r)
        PROVE  AInv'
    BY <1>4, AllDecidedKeeps, RecordScopeKeeps, ForwardKeeps
  <1>5. ASSUME NEW r \in Requests, NEW found \in SUBSET KBs, ForwardSearch(r, found)
        PROVE  AInv'
    BY <1>5, ForwardSearchKeeps
  <1>6. ASSUME NEW r \in Requests, ShowResults(r) \/ WithholdResults(r) PROVE AInv'
    BY <1>6, LeaveKeeps DEF ShowResults, WithholdResults
  <1>7. ASSUME NEW k \in KBs, NEW role \in Roles, ChangeGrant(k, role) PROVE AInv'
    BY <1>7, ChangedKeeps DEF ChangeGrant, AInv, TypeOK
  <1>8. ASSUME NEW k \in KBs, NEW as \in Listings, ChangeListing(k, as) PROVE AInv'
    BY <1>8, ChangedKeeps DEF ChangeListing, AInv, TypeOK
  <1>9. ASSUME NEW k \in KBs, ChangeSubscription(k) PROVE AInv'
    BY <1>9, ChangedKeeps DEF ChangeSubscription, AInv, TypeOK
  <1>10. CASE UNCHANGED vars
    <2>1. UNCHANGED <<grant, listing, subscribed, scope, content, req, since, before, changes>>
      BY <1>10 DEF vars, facts
    <2>2. TypeOK'
      BY <2>1 DEF AInv, TypeOK
    <2>3. SinceIsNow'
      BY <2>1 DEF AInv, SinceIsNow, At, Now
    <2>4. RequestsAreSound'
      BY <2>1 DEF AInv, RequestsAreSound, Sound, Sufficient
    <2>5. ConversationsAreRecorded' /\ ScopeCoversHistory'
      BY <2>1 DEF AInv, ConversationsAreRecorded, ScopeCoversHistory, At
    <2> QED BY <2>2, <2>3, <2>4, <2>5 DEF AInv
  <1> QED BY <1>1, <1>2, <1>3, <1>4, <1>5, <1>6, <1>7, <1>8, <1>9, <1>10 DEF Next, Proceed

\* What is forwarded or shown was decided, for all the session was about.
LEMMA ForwardedRests == AInv => ForwardsWhatHeld
PROOF
  <1> SUFFICES ASSUME AInv, NEW r \in Requests, Forward(r) \/ ShowResults(r),
                      NEW k \in About(r)
               PROVE  Sufficient(req[r].op, k, since[r])
    BY DEF ForwardsWhatHeld
  <1>1. /\ req[r].todo = {} /\ \A b \in req[r].kbs : Sufficient(req[r].op, b, since[r])
        /\ req[r].op \in {"chat", "messages"} => before[r] \subseteq req[r].kbs
    BY Known DEF Sound, Forward, ShowResults, At
  <1>2. CASE Forward(r)
    BY <1>1, <1>2 DEF Forward, About
  <1>3. CASE ShowResults(r)
    <2>1. req[r].op = "search" /\ req[r].asked \subseteq req[r].kbs
      BY <1>3, Known DEF ShowResults, InScope, At, Sound
    <2> QED BY <1>1, <2>1 DEF About
  <1> QED BY <1>2, <1>3
---------------------------------------------------------------------------
\* The invariant of the gate holds in every state.
THEOREM AccessInvariant == Spec => []AInv
PROOF
  BY InitiallyShut, GateStep, PTL DEF Spec

\* Facts, scope and requests keep their types.
THEOREM AccessTypeCorrect == Spec => []TypeOK
PROOF
  <1>1. AInv => TypeOK
    BY DEF AInv
  <1> QED BY <1>1, AccessInvariant, PTL

\* The scope of the session covers all it has been answered from, however
\* requests interleave, die or are forwarded late (RecordKnowledgeBases).
THEOREM ScopeCovers == Spec => []ScopeCoversHistory
PROOF
  <1>1. AInv => ScopeCoversHistory
    BY DEF AInv
  <1> QED BY <1>1, AccessInvariant, PTL

\* Nothing is forwarded or shown without facts that have held since the request
\* came, for each base it is about and each the session had been answered from
\* (the gate's handler, Decide, validateScopedSearchResponse).
THEOREM ForwardedOnFacts == Spec => ForwardedOnWhatHeld
PROOF
  <1>1. AInv /\ [Next]_vars => [ForwardsWhatHeld]_vars
    BY ForwardedRests
  <1> QED BY <1>1, AccessInvariant, PTL DEF Spec, ForwardedOnWhatHeld
-----------------------------------------------------------------------------
(***************************************************************************)
(* Grants: a user has one grant that is not revoked, so that the one a tab *)
(* changed says what the user can do.                                      *)
(***************************************************************************)

LEMMA GrantRowFields ==
  ASSUME GrantsTypeOK, NEW g \in GrantIds, Stored(g)
  PROVE  grants[g] \in GrantRows
PROOF
  BY DEF GrantsTypeOK, Stored

LEMMA IdleGrantTabType == IdleGrantTab \in GrantTab /\ IdleGrantTab.pc = "idle"
PROOF
  BY GrantsAssumption DEF IdleGrantTab, GrantTab, Permissions, Expiries, Never

LEMMA InitiallyNoGrants == GrantsInit => GrantsInv
PROOF
  <1> SUFFICES ASSUME GrantsInit PROVE GrantsInv
    OBVIOUS
  <1>1. GrantsTypeOK
    BY IdleGrantTabType, GrantsAssumption DEF GrantsInit, GrantsTypeOK
  <1>2. OneCurrentGrant
    BY DEF GrantsInit, OneCurrentGrant, CurrentOf, Stored
  <1>3. \A o \in GrantTabs : Sharing(o)
    BY IdleGrantTabType DEF GrantsInit, Sharing
  <1> QED BY <1>1, <1>2, <1>3 DEF GrantsInv

\* A step of one tab that leaves the grants alone.
LEMMA GrantTabStep ==
  ASSUME GrantsInv, NEW o \in GrantTabs, NEW w \in GrantTab,
         sharing' = [sharing EXCEPT ![o] = w],
         w.pc \in {"find", "create"} => w.user \in Grantees,
         w.pc \in {"get", "write"} => w.id \in GrantIds /\ Stored(w.id),
         UNCHANGED <<grants, clock>>
  PROVE  GrantsInv'
PROOF
  <1>1. /\ sharing' \in [GrantTabs -> GrantTab] /\ sharing'[o] = w
        /\ \A p \in GrantTabs \ {o} : sharing'[p] = sharing[p]
    BY DEF GrantsInv, GrantsTypeOK
  <1>2. GrantsTypeOK'
    BY <1>1 DEF GrantsInv, GrantsTypeOK
  <1>3. OneCurrentGrant'
    BY DEF GrantsInv, OneCurrentGrant, CurrentOf, Stored
  <1>4. \A p \in GrantTabs : Sharing(p)'
    BY <1>1 DEF GrantsInv, Sharing, Stored
  <1> QED BY <1>2, <1>3, <1>4 DEF GrantsInv

LEMMA GrantTabCloses ==
  ASSUME GrantsInv, NEW o \in GrantTabs, CloseGrantTab(o), UNCHANGED <<grants, clock>>
  PROVE  GrantsInv'
PROOF
  BY IdleGrantTabType, GrantTabStep DEF CloseGrantTab

LEMMA GrantTabMoves ==
  ASSUME GrantsInv, NEW o \in GrantTabs, NEW pc \in {"create", "refind", "write"},
         GrantTabGoes(o, pc), UNCHANGED <<grants, clock>>,
         pc = "create" => GrantTabAt(o, "find"), pc = "write" => GrantTabAt(o, "get")
  PROVE  GrantsInv'
PROOF
  <1> DEFINE w == [sharing[o] EXCEPT !.pc = pc]
  <1>1. sharing \in [GrantTabs -> GrantTab] /\ sharing[o] \in GrantTab /\ Sharing(o)
    BY DEF GrantsInv, GrantsTypeOK
  <1>2. /\ w \in GrantTab /\ w.pc = pc /\ w.user = sharing[o].user /\ w.id = sharing[o].id
    BY <1>1 DEF GrantTab
  <1>3. sharing' = [sharing EXCEPT ![o] = w]
    BY <1>1 DEF GrantTabGoes
  <1>4. /\ pc = "create" => sharing[o].user \in Grantees
        /\ pc = "write" => sharing[o].id \in GrantIds /\ Stored(sharing[o].id)
    BY <1>1 DEF Sharing, GrantTabAt
  <1> HIDE DEF w
  <1> QED BY <1>2, <1>3, <1>4, GrantTabStep

LEMMA AskCreateKeeps ==
  ASSUME GrantsInv, NEW o \in GrantTabs, NEW u \in Grantees, NEW p \in Permissions,
         NEW e \in Expiries, AskCreate(o, u, p, e)
  PROVE  GrantsInv'
PROOF
  <1> DEFINE w == [IdleGrantTab EXCEPT !.pc = "find", !.user = u,
                                       !.permission = p, !.expires = e]
  <1>1. w \in GrantTab /\ w.pc = "find" /\ w.user = u
    BY IdleGrantTabType DEF GrantTab
  <1>2. sharing' = [sharing EXCEPT ![o] = w] /\ UNCHANGED <<grants, clock>>
    BY DEF AskCreate
  <1> HIDE DEF w
  <1> QED BY <1>1, <1>2, GrantTabStep

LEMMA AskChangeKeeps ==
  ASSUME GrantsInv, NEW o \in GrantTabs, NEW g \in GrantIds, NEW p \in Permissions,
         NEW e \in Expiries, AskChange(o, g, p, e) \/ AskRevoke(o, g)
  PROVE  GrantsInv'
PROOF
  <1>1. Stored(g) /\ UNCHANGED <<grants, clock>>
    BY DEF AskChange, AskRevoke, Listed
  <1>2. grants[g].revision \in 0..MaxRevision
    BY <1>1, GrantRowFields, GrantsAssumption DEF GrantsInv, GrantRows
  <1> DEFINE rev == grants[g].revision
  <1> HIDE DEF rev
  <1>3. CASE AskChange(o, g, p, e)
    <2> DEFINE w == [IdleGrantTab EXCEPT !.pc = "get", !.op = "update", !.id = g,
                                         !.permission = p, !.expires = e, !.expected = rev]
    <2>1. w \in GrantTab /\ w.pc = "get" /\ w.id = g
      BY <1>2, IdleGrantTabType DEF GrantTab, rev
    <2>2. sharing' = [sharing EXCEPT ![o] = w]
      BY <1>3 DEF AskChange, rev
    <2> HIDE DEF w
    <2> QED BY <1>1, <2>1, <2>2, GrantTabStep
  <1>4. CASE AskRevoke(o, g)
    <2> DEFINE w == [IdleGrantTab EXCEPT !.pc = "get", !.op = "revoke", !.id = g,
                                         !.expected = rev]
    <2>1. w \in GrantTab /\ w.pc = "get" /\ w.id = g
      BY <1>2, IdleGrantTabType DEF GrantTab, rev
    <2>2. sharing' = [sharing EXCEPT ![o] = w]
      BY <1>4 DEF AskRevoke, rev
    <2> HIDE DEF w
    <2> QED BY <1>1, <2>1, <2>2, GrantTabStep
  <1> QED BY <1>3, <1>4

\* A grant that is made or changed is the only current one of its user.
LEMMA GrantChanges ==
  ASSUME GrantsInv, NEW o \in GrantTabs, NEW g \in GrantIds, NEW row \in GrantRows,
         grants' = [grants EXCEPT ![g] = row], CloseGrantTab(o), UNCHANGED clock,
         \A h \in CurrentOf(row.user) : h = g
  PROVE  GrantsInv'
PROOF
  <1>1. /\ grants' \in [GrantIds -> GrantRows \cup {NoGrant}] /\ grants'[g] = row
        /\ \A h \in GrantIds \ {g} : grants'[h] = grants[h]
    BY DEF GrantsInv, GrantsTypeOK
  <1>2. /\ sharing' \in [GrantTabs -> GrantTab] /\ sharing'[o] = IdleGrantTab
        /\ \A p \in GrantTabs \ {o} : sharing'[p] = sharing[p]
    BY IdleGrantTabType DEF GrantsInv, GrantsTypeOK, CloseGrantTab
  <1>3. GrantsTypeOK'
    BY <1>1, <1>2 DEF GrantsInv, GrantsTypeOK
  <1>4. row # NoGrant
    BY GrantsAssumption
  <1>5. OneCurrentGrant'
    <2> SUFFICES ASSUME NEW u \in Grantees, NEW h \in CurrentOf(u)', NEW i \in CurrentOf(u)'
                 PROVE  h = i
      BY DEF OneCurrentGrant
    <2>1. h \in GrantIds /\ i \in GrantIds
      BY DEF CurrentOf
    <2>2. CASE h # g /\ i # g
      BY <1>1, <2>1, <2>2 DEF CurrentOf, Stored, GrantsInv, OneCurrentGrant
    <2>3. CASE h = g
      BY <1>1, <2>1, <2>3 DEF CurrentOf, Stored
    <2>4. CASE i = g
      BY <1>1, <2>1, <2>4 DEF CurrentOf, Stored
    <2> QED BY <2>2, <2>3, <2>4
  <1>6. \A p \in GrantTabs : Sharing(p)'
    BY <1>1, <1>2, <1>4, IdleGrantTabType DEF GrantsInv, Sharing, Stored
  <1> QED BY <1>3, <1>5, <1>6 DEF GrantsInv

LEMMA InsertRow ==
  ASSUME GrantsInv, NEW o \in GrantTabs, NEW g \in GrantIds, Insert(o, g)
  PROVE  /\ FirstRow(o) \in GrantRows /\ grants' = [grants EXCEPT ![g] = FirstRow(o)]
         /\ CurrentOf(FirstRow(o).user) = {}
PROOF
  <1>1. sharing[o] \in GrantTab /\ sharing[o].user \in Grantees
    BY DEF GrantsInv, GrantsTypeOK, Sharing, Insert, GrantTabAt
  <1>2. FirstRow(o) \in GrantRows /\ FirstRow(o).user = sharing[o].user
    BY <1>1, GrantsAssumption DEF FirstRow, GrantRows, GrantTab
  <1> QED BY <1>2 DEF Insert, Insertable

LEMMA WrittenRow ==
  ASSUME GrantsInv, NEW o \in GrantTabs, WriteGrant(o)
  PROVE  LET g == sharing[o].id IN
         /\ g \in GrantIds /\ Stored(g) /\ grants[g] \in GrantRows /\ ~grants[g].revoked
         /\ grants[g].revision = sharing[o].expected
         /\ \E row \in GrantRows :
              grants' = [grants EXCEPT ![g] = row] /\ row.user = grants[g].user
         /\ \A h \in CurrentOf(grants[g].user) : h = g
PROOF
  <1> DEFINE g == sharing[o].id  old == grants[g]
  <1>1. sharing[o] \in GrantTab /\ g \in GrantIds /\ Stored(g)
    BY DEF GrantsInv, GrantsTypeOK, Sharing, WriteGrant, GrantTabAt
  <1>2. old \in GrantRows /\ ~old.revoked /\ old.revision = sharing[o].expected
    BY <1>1, GrantRowFields DEF GrantsInv, WriteGrant, Updatable
  <1>3. old.revision + 1 \in 1..MaxRevision /\ old.user \in Grantees
    BY <1>2, GrantsAssumption DEF GrantRows, WriteGrant
  <1>6. grants' = [grants EXCEPT ![g] =
          IF sharing[o].op = "revoke"
            THEN [old EXCEPT !.revoked = TRUE, !.revision = old.revision + 1]
            ELSE [old EXCEPT !.permission = sharing[o].permission,
                             !.expires = sharing[o].expires,
                             !.revision = old.revision + 1]]
    BY <1>2 DEF WriteGrant, GrantRows
  <1>4. \E row \in GrantRows : grants' = [grants EXCEPT ![g] = row] /\ row.user = old.user
    <2>1. CASE sharing[o].op = "revoke"
      <3> DEFINE row == [old EXCEPT !.revoked = TRUE, !.revision = old.revision + 1]
      <3>1. row \in GrantRows /\ row.user = old.user
        BY <1>2, <1>3 DEF GrantRows
      <3>2. grants' = [grants EXCEPT ![g] = row]
        BY <1>6, <2>1
      <3> QED BY <3>1, <3>2
    <2>2. CASE sharing[o].op # "revoke"
      <3> DEFINE row == [old EXCEPT !.permission = sharing[o].permission,
                                    !.expires = sharing[o].expires,
                                    !.revision = old.revision + 1]
      <3>1. row \in GrantRows /\ row.user = old.user
        BY <1>1, <1>2, <1>3 DEF GrantRows, GrantTab
      <3>2. grants' = [grants EXCEPT ![g] = row]
        BY <1>6, <2>2
      <3> QED BY <3>1, <3>2
    <2> QED BY <2>1, <2>2
  <1>5. \A h \in CurrentOf(old.user) : h = g
    BY <1>1, <1>2, <1>3 DEF GrantsInv, OneCurrentGrant, CurrentOf
  <1> QED BY <1>1, <1>2, <1>4, <1>5

LEMMA InsertKeeps ==
  ASSUME GrantsInv, NEW o \in GrantTabs, NEW g \in GrantIds, Insert(o, g)
  PROVE  GrantsInv'
PROOF
  BY InsertRow, GrantChanges DEF Insert

LEMMA WriteGrantKeeps ==
  ASSUME GrantsInv, NEW o \in GrantTabs, WriteGrant(o)
  PROVE  GrantsInv'
PROOF
  <1> DEFINE g == sharing[o].id
  <1>1. /\ g \in GrantIds
        /\ \E row \in GrantRows :
             grants' = [grants EXCEPT ![g] = row] /\ row.user = grants[g].user
        /\ \A h \in CurrentOf(grants[g].user) : h = g
    BY WrittenRow
  <1>2. PICK row \in GrantRows :
          grants' = [grants EXCEPT ![g] = row] /\ row.user = grants[g].user
    BY <1>1
  <1>3. CloseGrantTab(o) /\ UNCHANGED clock
    BY DEF WriteGrant
  <1> QED BY <1>1, <1>2, <1>3, GrantChanges

LEMMA GrantsStep == GrantsInv /\ [GrantsNext]_grantVars => GrantsInv'
PROOF
  <1> SUFFICES ASSUME GrantsInv, [GrantsNext]_grantVars PROVE GrantsInv'
    OBVIOUS
  <1>1. CASE UNCHANGED grantVars
    BY <1>1 DEF grantVars, GrantsInv, GrantsTypeOK, OneCurrentGrant, CurrentOf, Stored, Sharing
  <1>2. CASE ClockTicks
    <2>1. UNCHANGED <<grants, sharing>> /\ clock' \in 0..MaxTime
      BY <1>2, GrantsAssumption DEF ClockTicks, GrantsInv, GrantsTypeOK
    <2> QED BY <2>1 DEF GrantsInv, GrantsTypeOK, OneCurrentGrant, CurrentOf, Stored, Sharing
  <1>3. ASSUME NEW o \in GrantTabs, GranterAsks(o) \/ (\E g \in GrantIds : AskRevoke(o, g))
        PROVE  GrantsInv'
    <2>1. "viewer" \in Permissions /\ Never \in Expiries
      <3>1. MaxTime + 1 \in 1..MaxTime + 1
        BY GrantsAssumption
      <3> QED BY <3>1 DEF Permissions, Never, Expiries
    <2> QED BY <1>3, <2>1, AskCreateKeeps, AskChangeKeeps DEF GranterAsks
  <1>4. ASSUME NEW o \in GrantTabs, Find(o) PROVE GrantsInv'
    BY <1>4, GrantTabMoves, GrantTabCloses DEF Find
  <1>5. ASSUME NEW o \in GrantTabs, NEW g \in GrantIds, Insert(o, g) PROVE GrantsInv'
    BY <1>5, InsertKeeps
  <1>6. ASSUME NEW o \in GrantTabs, InsertConflict(o) PROVE GrantsInv'
    BY <1>6, GrantTabMoves DEF InsertConflict
  <1>7. ASSUME NEW o \in GrantTabs, Refind(o) \/ GrantTabDies(o) PROVE GrantsInv'
    BY <1>7, GrantTabCloses DEF Refind, GrantTabDies
  <1>8. ASSUME NEW o \in GrantTabs, Get(o) PROVE GrantsInv'
    BY <1>8, GrantTabMoves, GrantTabCloses DEF Get
  <1>9. ASSUME NEW o \in GrantTabs, WriteGrant(o) PROVE GrantsInv'
    BY <1>9, WriteGrantKeeps
  <1> QED BY <1>1, <1>2, <1>3, <1>4, <1>5, <1>6, <1>7, <1>8, <1>9
          DEF GrantsNext, GranterProceeds

\* A user whose only current grant is g, if there is one, can do what g says.
LEMMA OnlyGrantSays ==
  ASSUME NEW g \in GrantIds, Stored(g)', grants'[g] \in GrantRows,
         \A h \in CurrentOf(grants[g].user)' : h = g
  PROVE  EffectiveGrant(grants[g].user)' = Says(g)'
PROOF
  <1> DEFINE live == {h \in CurrentOf(grants[g].user) : Unexpired(h)}
  <1>1. \A h \in live' : h = g
    OBVIOUS
  <1>2. g \in live' <=> ~grants'[g].revoked /\ Unexpired(g)'
    BY DEF CurrentOf, Stored
  <1>3. EffectiveGrant(grants[g].user)' =
          IF \E h \in live' : grants'[h].permission = "editor" THEN "editor"
          ELSE IF live' # {} THEN "viewer" ELSE "none"
    BY DEF EffectiveGrant
  <1> HIDE DEF live
  <1>4. CASE g \in live'
    <2>1. Says(g)' = grants'[g].permission /\ grants'[g].permission \in Permissions
      BY <1>2, <1>4 DEF Says, GrantRows
    <2>2. live' # {} /\ \A h \in live' : grants'[h].permission = grants'[g].permission
      BY <1>1, <1>4
    <2>3. CASE grants'[g].permission = "editor"
      BY <1>3, <1>4, <2>1, <2>3
    <2>4. CASE grants'[g].permission = "viewer"
      BY <1>3, <2>1, <2>2, <2>4
    <2> QED BY <2>1, <2>3, <2>4 DEF Permissions
  <1>5. CASE g \notin live'
    <2>1. live' = {}
      BY <1>1, <1>5
    <2>2. Says(g)' = "none"
      BY <1>2, <1>5 DEF Says
    <2> QED BY <1>3, <2>1, <2>2
  <1> QED BY <1>4, <1>5

\* Only an insertion and a write change a grant, each one grant.
LEMMA ChangedGrant ==
  ASSUME GrantsInv, [GrantsNext]_grantVars, NEW g \in GrantIds, grants'[g] # grants[g]
  PROVE  \E o \in GrantTabs :
           \/ Insert(o, g) /\ ~Stored(g)
           \/ WriteGrant(o) /\ g = sharing[o].id
PROOF
  <1>1. ~UNCHANGED grants
    OBVIOUS
  <1>2. PICK o \in GrantTabs : (\E h \in GrantIds : Insert(o, h)) \/ WriteGrant(o)
    BY <1>1 DEF GrantsNext, grantVars, ClockTicks, GranterAsks, GranterProceeds, AskCreate,
                AskChange, AskRevoke, Find, InsertConflict, Refind, Get, GrantTabDies
  <1>3. CASE \E h \in GrantIds : Insert(o, h)
    BY <1>3 DEF Insert, Insertable, GrantsInv, GrantsTypeOK
  <1>4. CASE WriteGrant(o)
    BY <1>4, WrittenRow DEF GrantsInv, GrantsTypeOK
  <1> QED BY <1>2, <1>3, <1>4

LEMMA ChangeTakesEffect ==
  GrantsInv /\ [GrantsNext]_grantVars => TakesEffect /\ GrantEditBuildsOnWhatItSaw
PROOF
  <1> SUFFICES ASSUME GrantsInv, [GrantsNext]_grantVars, NEW g \in GrantIds,
                      grants'[g] # grants[g]
               PROVE  /\ \A u \in Grantees :
                           grants'[g].user = u => EffectiveGrant(u)' = Says(g)'
                      /\ Stored(g) =>
                           /\ ~grants[g].revoked
                           /\ \E o \in GrantTabs :
                                /\ sharing'[o] # sharing[o] /\ sharing[o].id = g
                                /\ sharing[o].expected = grants[g].revision
    BY DEF TakesEffect, GrantEditBuildsOnWhatItSaw
  <1>1. GrantsInv'
    BY GrantsStep
  <1>2. PICK o \in GrantTabs : \/ Insert(o, g) /\ ~Stored(g)
                               \/ WriteGrant(o) /\ g = sharing[o].id
    BY ChangedGrant
  <1>3. grants'[g] \in GrantRows /\ Stored(g)'
    <2>1. \E row \in GrantRows : grants' = [grants EXCEPT ![g] = row]
      BY <1>2, InsertRow, WrittenRow
    <2>2. grants'[g] \in GrantRows
      BY <2>1 DEF GrantsInv, GrantsTypeOK
    <2> QED BY <2>2, GrantsAssumption DEF Stored
  <1>4. \A u \in Grantees : grants'[g].user = u => EffectiveGrant(u)' = Says(g)'
    <2>1. \A h \in CurrentOf(grants[g].user)' : h = g
      <3>1. CASE g \in CurrentOf(grants[g].user)'
        BY <1>1, <1>3, <3>1 DEF GrantsInv, OneCurrentGrant, GrantRows
      <3>2. CASE g \notin CurrentOf(grants[g].user)'
        <4>1. grants'[g].revoked
          BY <1>3, <3>2 DEF CurrentOf
        <4>2. WriteGrant(o) /\ g = sharing[o].id
          <5>1. ASSUME Insert(o, g) PROVE grants'[g] = FirstRow(o)
            BY <5>1, InsertRow DEF GrantsInv, GrantsTypeOK
          <5>2. ~FirstRow(o).revoked
            BY DEF FirstRow
          <5> QED BY <1>2, <4>1, <5>1, <5>2
        <4>3. \A h \in CurrentOf(grants[g].user) : h = g
          BY <4>2, WrittenRow
        <4>4. PICK row \in GrantRows :
                grants' = [grants EXCEPT ![g] = row] /\ row.user = grants[g].user
          BY <4>2, WrittenRow
        <4>5. /\ grants'[g].user = grants[g].user
              /\ \A h \in GrantIds \ {g} : grants'[h] = grants[h]
          BY <4>4 DEF GrantsInv, GrantsTypeOK
        <4> QED BY <4>3, <4>5 DEF CurrentOf, Stored
      <3> QED BY <3>1, <3>2
    <2>2. EffectiveGrant(grants[g].user)' = Says(g)'
      BY <1>3, <2>1, OnlyGrantSays
    <2> QED BY <2>2 DEF EffectiveGrant, CurrentOf, Unexpired, Stored
  <1>5. Stored(g) =>
          /\ ~grants[g].revoked
          /\ \E p \in GrantTabs : /\ sharing'[p] # sharing[p] /\ sharing[p].id = g
                                 /\ sharing[p].expected = grants[g].revision
    <2> SUFFICES ASSUME Stored(g)
                 PROVE  /\ ~grants[g].revoked /\ sharing'[o] # sharing[o]
                        /\ sharing[o].id = g /\ sharing[o].expected = grants[g].revision
      OBVIOUS
    <2>1. WriteGrant(o) /\ g = sharing[o].id
      BY <1>2
    <2>2. sharing'[o].pc = "idle" /\ sharing[o].pc = "write"
      BY <2>1, IdleGrantTabType
         DEF WriteGrant, CloseGrantTab, GrantTabAt, GrantsInv, GrantsTypeOK
    <2> QED BY <2>1, <2>2, WrittenRow
  <1> QED BY <1>4, <1>5

\* The inductive invariant holds, for any number of tabs, users and grants.
THEOREM GrantsInvariant == GrantsSpec => []GrantsInv
PROOF
  BY InitiallyNoGrants, GrantsStep, PTL DEF GrantsSpec

\* Grants and requests keep their types.
THEOREM GrantsTypeCorrect == GrantsSpec => []GrantsTypeOK
PROOF
  <1>1. GrantsInv => GrantsTypeOK
    BY DEF GrantsInv
  <1> QED BY <1>1, GrantsInvariant, PTL

\* For any number of tabs and users: a grant that is made, changed or revoked is
\* what its user can do from then on, and it changes from the revision that was
\* on the page (Create, Update and Revoke of grant/service.go).
THEOREM GrantsKeepToWhatWasAsked == GrantsSpec => GrantsChangeAsAsked
PROOF
  BY GrantsInvariant, ChangeTakesEffect, PTL DEF GrantsSpec, GrantsChangeAsAsked
-----------------------------------------------------------------------------
(***************************************************************************)
(* Publications: a subscription that has to end is in the hands of some    *)
(* request, and a request knows the status that goes with its version.     *)
(***************************************************************************)

LEMMA IdleTabKnows ==
  /\ IdleTab \in Tab /\ IdleTab.pc = "idle" /\ IdleTab.expected = 0
  /\ IdleVisit \in Visit /\ IdleVisit.pc = "idle"
PROOF
  BY PublicationsAssumption DEF IdleTab, Tab, Versions, NoAudience, IdleVisit, Visit

LEMMA InitiallyUnpublished == PublicationsInit => PublicationsInv
PROOF
  <1> SUFFICES ASSUME PublicationsInit PROVE PublicationsInv
    OBVIOUS
  <1>1. PublicationsTypeOK
    <2>1. Unpublished \in Publication
      BY PublicationsAssumption DEF Unpublished, Publication, NoAudience, Versions
    <2>2. NotSubscribed \in Subscription
      BY DEF NotSubscribed, Subscription
    <2>3. 0 \in Versions
      BY PublicationsAssumption DEF Versions
    <2> QED BY IdleTabKnows, <2>1, <2>2, <2>3 DEF PublicationsInit, PublicationsTypeOK
  <1>2. (Published => Exists) /\ \A u \in Subscribers : ~Active(u)
    BY DEF PublicationsInit, Published, Unpublished, Active, NotSubscribed
  <1>3. \A o \in Tabs : TabKnows(o)
    <2>1. pub.version = 0 /\ 0 <= 0 /\ \A o \in Tabs : tab[o] = IdleTab
      BY DEF PublicationsInit, Unpublished
    <2> QED BY <2>1, IdleTabKnows DEF TabKnows
  <1>4. \A v \in Visits : VisitKnows(v)
    BY IdleTabKnows DEF PublicationsInit, VisitKnows
  <1> QED BY <1>1, <1>2, <1>3, <1>4 DEF PublicationsInv, SubscriptionsAreEnded

\* A step of one tab that changes nothing else, and gives up ending no
\* subscription.
LEMMA TabStep ==
  ASSUME PublicationsInv, NEW o \in Tabs, NEW w \in Tab,
         tab' = [tab EXCEPT ![o] = w], TabKnows(o)',
         \A u \in Subscribers : Active(u) /\ Ends(o, u) => Ends(o, u)',
         UNCHANGED <<pubRows, visit, pubHistory>>
  PROVE  PublicationsInv'
PROOF
  <1>1. UNCHANGED <<kb, pub, sub, visit, withdrawn, joined, stale, interrupted>>
    BY DEF pubRows, pubHistory
  <1>2. /\ tab' \in [Tabs -> Tab] /\ \A p \in Tabs \ {o} : tab'[p] = tab[p]
    BY DEF PublicationsInv, PublicationsTypeOK
  <1>3. PublicationsTypeOK'
    BY <1>1, <1>2 DEF PublicationsInv, PublicationsTypeOK
  <1>4. \A p \in Tabs : TabKnows(p)'
    BY <1>1, <1>2 DEF PublicationsInv, TabKnows, Published
  <1>5. (Published => Exists)' /\ \A v \in Visits : VisitKnows(v)'
    BY <1>1 DEF PublicationsInv, VisitKnows, VisibleTo, Published, Exists
  <1>6. \A u \in Subscribers, p \in Tabs : Active(u) /\ Ends(p, u) => Ends(p, u)'
    BY <1>1, <1>2 DEF Ends, TabAt, Outside
  <1>7. SubscriptionsAreEnded'
    BY <1>1, <1>6 DEF PublicationsInv, SubscriptionsAreEnded, Active, VisibleTo, Published
  <1> QED BY <1>3, <1>4, <1>5, <1>7 DEF PublicationsInv

LEMMA TabCloses ==
  ASSUME PublicationsInv, NEW o \in Tabs, CloseTab(o), tab[o].pc \notin {"select", "end"},
         UNCHANGED <<pubRows, visit, pubHistory>>
  PROVE  PublicationsInv'
PROOF
  <1>1. tab' = [tab EXCEPT ![o] = IdleTab] /\ tab'[o] = IdleTab
    BY DEF CloseTab, PublicationsInv, PublicationsTypeOK
  <1>2. pub' = pub /\ pub.version \in Nat
    BY PublicationsAssumption
       DEF pubRows, PublicationsInv, PublicationsTypeOK, Publication, Versions
  <1>3. TabKnows(o)'
    BY <1>1, <1>2, IdleTabKnows DEF TabKnows
  <1>4. \A u \in Subscribers : ~Ends(o, u)
    BY DEF Ends, TabAt
  <1> QED BY <1>1, <1>3, <1>4, IdleTabKnows, TabStep

\* A tab goes on with what it knows.
LEMMA TabMoves ==
  ASSUME PublicationsInv, NEW o \in Tabs,
         NEW pc \in {"create", "write", "confirm", "end", "delete"},
         TabGoes(o, pc), tab[o].pc \notin {"select", "end"},
         pc = "create" => tab[o].op = "publish",
         pc \in {"confirm", "delete"} => tab[o].op = "delete",
         pc = "write" /\ tab[o].expected = pub.version =>
           (tab[o].op = "publish" => ~Published) /\ (tab[o].op = "update" => Published),
         pc = "end" => tab[o].op # "publish",
         pc \in {"end", "delete"} /\ tab[o].op = "delete" /\ tab[o].expected = pub.version
           => ~Published,
         UNCHANGED <<pubRows, visit, pubHistory>>
  PROVE  PublicationsInv'
PROOF
  <1> DEFINE w == [tab[o] EXCEPT !.pc = pc]
  <1>1. tab \in [Tabs -> Tab] /\ tab[o] \in Tab /\ TabKnows(o)
    BY DEF PublicationsInv, PublicationsTypeOK
  <1>2. w \in Tab /\ w.pc = pc /\ w.op = tab[o].op /\ w.expected = tab[o].expected
    BY <1>1 DEF Tab
  <1>3. tab' = [tab EXCEPT ![o] = w] /\ tab'[o] = w
    BY <1>1 DEF TabGoes
  <1> HIDE DEF w
  <1>4. UNCHANGED pub
    BY DEF pubRows
  <1>5. w.expected <= pub.version
    BY <1>1, <1>2 DEF TabKnows
  <1>6. TabKnows(o)'
    BY <1>2, <1>3, <1>4, <1>5 DEF TabKnows, Published
  <1>7. \A u \in Subscribers : ~Ends(o, u)
    BY DEF Ends, TabAt
  <1> QED BY <1>2, <1>3, <1>6, <1>7, TabStep

LEMMA OwnerAsksKeeps ==
  ASSUME PublicationsInv, NEW o \in Tabs, OwnerAsks(o)
  PROVE  PublicationsInv'
PROOF
  <1>1. PICK op \in {"publish", "update", "unpublish", "delete"},
             audience \in Audiences \cup {NoAudience}, e \in {pub.version, 0} :
          Asks(o, op, audience, e)
    BY DEF OwnerAsks, AskPublish, AskUpdate, AskUnpublish, AskDelete
  <1> DEFINE w == [pc |-> "lookup", op |-> op, expected |-> e, audience |-> audience,
                   todo |-> {}]
  <1>2. pub.version \in Versions /\ pub.version \in Nat /\ 0 \in Versions
    BY PublicationsAssumption DEF PublicationsInv, PublicationsTypeOK, Publication, Versions
  <1>3. w \in Tab /\ w.pc = "lookup" /\ w.expected <= pub.version
    BY <1>2 DEF Tab
  <1>4. /\ tab' = [tab EXCEPT ![o] = w] /\ TabAt(o, "idle")
        /\ UNCHANGED <<pubRows, visit, pubHistory>>
    BY <1>1 DEF Asks
  <1> HIDE DEF w
  <1>5. tab'[o] = w /\ pub' = pub
    BY <1>4 DEF PublicationsInv, PublicationsTypeOK, pubRows
  <1>6. TabKnows(o)'
    BY <1>3, <1>5 DEF TabKnows
  <1>7. \A u \in Subscribers : ~Ends(o, u)
    BY <1>4 DEF Ends, TabAt
  <1> QED BY <1>3, <1>4, <1>6, <1>7, TabStep

LEMMA LookupKeeps ==
  ASSUME PublicationsInv, NEW o \in Tabs, Lookup(o)
  PROVE  PublicationsInv'
PROOF
  <1>1. /\ tab \in [Tabs -> Tab] /\ tab[o] \in Tab /\ tab[o].pc = "lookup" /\ TabKnows(o)
        /\ UNCHANGED <<pubRows, visit, pubHistory>> /\ (Published => Exists)
    BY DEF PublicationsInv, PublicationsTypeOK, Lookup, TabAt
  <1>2. CASE tab[o].op = "delete" /\ Exists
    <2> DEFINE w == [tab[o] EXCEPT !.pc = UnpublishesFirst, !.expected = pub.version]
    <2>1. /\ UnpublishesFirst \in {"confirm", "end"}
          /\ UnpublishesFirst = "end" => ~Published
      BY DEF UnpublishesFirst
    <2>2. pub.version \in Versions /\ pub.version \in Nat
      BY PublicationsAssumption
         DEF PublicationsInv, PublicationsTypeOK, Publication, Versions
    <2>3. /\ w \in Tab /\ w.pc = UnpublishesFirst /\ w.op = "delete"
          /\ w.expected = pub.version
      BY <1>1, <1>2, <2>1, <2>2 DEF Tab
    <2>4. tab' = [tab EXCEPT ![o].pc = UnpublishesFirst, ![o].expected = pub.version]
      BY <1>2 DEF Lookup
    <2>5. tab' = [tab EXCEPT ![o] = w] /\ tab'[o] = w
      BY <1>1, <2>4
    <2> HIDE DEF w
    <2>6. pub' = pub
      BY <1>1 DEF pubRows
    <2>7. TabKnows(o)'
      BY <2>1, <2>2, <2>3, <2>5, <2>6 DEF TabKnows, Published
    <2>8. \A u \in Subscribers : ~Ends(o, u)
      BY <1>1 DEF Ends, TabAt
    <2> QED BY <1>1, <2>3, <2>5, <2>7, <2>8, TabStep
  <1>3. CASE CloseTab(o)
    BY <1>1, <1>3, TabCloses
  <1>4. CASE tab[o].op = "publish" /\ TabGoes(o, "create")
    BY <1>1, <1>4, TabMoves
  <1>5. CASE tab[o].op = "publish" /\ ~Published /\ TabGoes(o, "write")
    BY <1>1, <1>5, TabMoves
  <1>6. CASE tab[o].op = "update" /\ Published /\ TabGoes(o, "write")
    BY <1>1, <1>6, TabMoves
  <1>7. CASE tab[o].op = "unpublish" /\ TabGoes(o, IF Published THEN "write" ELSE "end")
    <2>1. TabGoes(o, "write") \/ TabGoes(o, "end")
      BY <1>7
    <2> QED BY <1>1, <1>7, <2>1, TabMoves
  <1>8. CASE tab[o].op = "delete" /\ ~Exists /\ TabGoes(o, "delete")
    BY <1>1, <1>8, TabMoves
  <1> QED BY <1>2, <1>3, <1>4, <1>5, <1>6, <1>7, <1>8 DEF Lookup

LEMMA ConfirmKeeps ==
  ASSUME PublicationsInv, NEW o \in Tabs, Confirm(o) \/ WriteRefused(o)
  PROVE  PublicationsInv'
PROOF
  <1>1. tab[o].pc \in {"confirm", "create", "write"} /\ TabKnows(o)
        /\ UNCHANGED <<pubRows, visit, pubHistory>>
    BY DEF PublicationsInv, Confirm, WriteRefused, TabAt
  <1>2. CASE CloseTab(o)
    BY <1>1, <1>2, TabCloses
  <1>3. CASE tab[o].pc = "confirm" /\ TabGoes(o, "write")
    <2>1. tab[o].op = "delete"
      BY <1>1, <1>3 DEF TabKnows
    <2> QED BY <1>1, <1>3, <2>1, TabMoves
  <1> QED BY <1>2, <1>3 DEF Confirm, WriteRefused, TabAt

\* The publication gets its next version: what others were given is old now, and
\* whom it leaves out the request ends, or another did that already.
LEMMA PublicationChanges ==
  ASSUME PublicationsInv, NEW o \in Tabs, tab[o].pc \in {"create", "write"}, NEW w \in Tab,
         tab' = [tab EXCEPT ![o] = w], TabKnows(o)',
         pub' \in Publication, pub'.version = pub.version + 1,
         \A u \in Subscribers :
           Active(u) /\ ~VisibleTo(sub[u].tenant)' =>
             ~VisibleTo(sub[u].tenant) \/ Ends(o, u)',
         withdrawn' \subseteq Versions,
         UNCHANGED <<kb, sub, visit, joined, stale, interrupted>>
  PROVE  PublicationsInv'
PROOF
  <1>1. UNCHANGED <<kb, sub, visit, stale, interrupted>>
    OBVIOUS
  <1>2. /\ tab' \in [Tabs -> Tab] /\ \A p \in Tabs \ {o} : tab'[p] = tab[p]
    BY DEF PublicationsInv, PublicationsTypeOK
  <1>3. PublicationsTypeOK'
    BY <1>1, <1>2 DEF PublicationsInv, PublicationsTypeOK
  <1>4. pub.version \in Nat /\ pub'.version \in Nat
    BY PublicationsAssumption DEF PublicationsInv, PublicationsTypeOK, Publication, Versions
  <1>5. ASSUME NEW p \in Tabs PROVE TabKnows(p)'
    <2>1. CASE p = o
      BY <2>1
    <2>2. CASE p # o
      <3>1. tab'[p] = tab[p] /\ TabKnows(p) /\ tab[p].expected \in Nat
        BY <1>2, <2>2, PublicationsAssumption
           DEF PublicationsInv, PublicationsTypeOK, Tab, Versions
      <3>2. tab[p].expected <= pub'.version /\ tab[p].expected # pub'.version
        BY <1>4, <3>1 DEF TabKnows
      <3> QED BY <3>1, <3>2 DEF TabKnows
    <2> QED BY <2>1, <2>2
  <1>6. ASSUME NEW v \in Visits PROVE VisitKnows(v)'
    <2>1. visit[v] \in Visit /\ VisitKnows(v)
      BY DEF PublicationsInv, PublicationsTypeOK
    <2>2. visit[v].looked \in Nat
      BY <2>1, PublicationsAssumption DEF Visit, Versions
    <2>3. visit[v].looked <= pub.version =>
            visit[v].looked <= pub'.version /\ visit[v].looked # pub'.version
      BY <1>4, <2>2
    <2> QED BY <1>1, <2>1, <2>3 DEF VisitKnows
  <1>7. (Published => Exists)'
    BY <1>4 DEF Exists
  <1>8. SubscriptionsAreEnded'
    <2> SUFFICES ASSUME NEW u \in Subscribers, Active(u), ~VisibleTo(sub[u].tenant)',
                        u \notin stale, ~interrupted
                 PROVE  \E p \in Tabs : Ends(p, u)'
      BY <1>1 DEF SubscriptionsAreEnded, Active
    <2>1. CASE Ends(o, u)'
      BY <2>1
    <2>2. CASE ~VisibleTo(sub[u].tenant)
      <3>1. PICK p \in Tabs : Ends(p, u)
        BY <2>2 DEF PublicationsInv, SubscriptionsAreEnded
      <3>2. p # o
        BY <3>1 DEF Ends, TabAt
      <3> QED BY <1>1, <1>2, <3>1, <3>2 DEF Ends, TabAt, Outside
    <2> QED BY <2>1, <2>2
  <1> QED BY <1>3, <1>5, <1>6, <1>7, <1>8 DEF PublicationsInv

LEMMA CreateKeeps ==
  ASSUME PublicationsInv, NEW o \in Tabs, Create(o)
  PROVE  PublicationsInv'
PROOF
  <1>1. /\ tab[o] \in Tab /\ tab[o].pc = "create" /\ withdrawn' \subseteq Versions
        /\ UNCHANGED <<kb, sub, visit, joined, stale, interrupted>>
    BY DEF PublicationsInv, PublicationsTypeOK, Create, TabAt, pubHistory
  <1>2. tab' = [tab EXCEPT ![o] = IdleTab] /\ tab'[o] = IdleTab
    BY DEF Create, CloseTab, PublicationsInv, PublicationsTypeOK
  <1>3. pub' = [status |-> "published", audience |-> tab[o].audience, version |-> 1]
        /\ pub.version = 0
    BY DEF Create, Exists
  <1>4. pub' \in Publication /\ pub'.version = 1 /\ pub'.version = pub.version + 1
    <2>1. 1 \in Versions
      BY PublicationsAssumption DEF Versions
    <2> QED BY <1>1, <1>3, <2>1 DEF Publication, Tab
  <1>5. TabKnows(o)'
    BY <1>2, <1>4, IdleTabKnows DEF TabKnows
  <1>6. ~Published
    BY <1>3 DEF PublicationsInv, Exists
  <1> QED BY <1>1, <1>2, <1>4, <1>5, <1>6, IdleTabKnows, PublicationChanges DEF VisibleTo

LEMMA WriteType ==
  ASSUME PublicationsInv, NEW o \in Tabs, Write(o)
  PROVE  /\ pub' \in Publication /\ pub'.version = pub.version + 1
         /\ tab[o].op \in {"publish", "update"} =>
              pub'.status = "published" /\ pub'.audience = tab[o].audience
         /\ tab[o].op \notin {"publish", "update"} => pub'.status = "unpublished"
PROOF
  <1> DEFINE next == pub.version + 1
  <1>1. pub \in Publication /\ tab[o] \in Tab
    BY DEF PublicationsInv, PublicationsTypeOK
  <1>2. next \in Versions
    BY <1>1, PublicationsAssumption DEF Publication, Versions, Write
  <1>3. CASE tab[o].op \in {"publish", "update"}
    <2>1. pub' = [status |-> "published", audience |-> tab[o].audience, version |-> next]
      BY <1>3 DEF Write
    <2> HIDE DEF next
    <2>2. pub' \in Publication /\ pub'.version = next
      BY <1>1, <1>2, <2>1 DEF Publication, Tab
    <2> QED BY <1>3, <2>1, <2>2 DEF next
  <1>4. CASE tab[o].op \notin {"publish", "update"}
    <2>1. pub' = [pub EXCEPT !.status = "unpublished", !.version = next]
      BY <1>4 DEF Write
    <2> HIDE DEF next
    <2>2. pub' \in Publication /\ pub'.version = next /\ pub'.status = "unpublished"
      BY <1>1, <1>2, <2>1 DEF Publication
    <2> QED BY <1>4, <2>2 DEF next
  <1> QED BY <1>3, <1>4

LEMMA WriteKeeps ==
  ASSUME PublicationsInv, NEW o \in Tabs, Write(o)
  PROVE  PublicationsInv'
PROOF
  <1>1. /\ tab \in [Tabs -> Tab] /\ tab[o] \in Tab /\ tab[o].pc = "write" /\ TabKnows(o)
        /\ UNCHANGED <<kb, sub, visit, joined, stale, interrupted>>
        /\ tab[o].expected = pub.version /\ UNCHANGED sub
    BY DEF PublicationsInv, PublicationsTypeOK, Write, TabAt, Current
  <1>2. /\ pub.version \in Nat /\ pub'.version = pub.version + 1
    BY <1>1, WriteType, PublicationsAssumption
       DEF PublicationsInv, PublicationsTypeOK, Publication, Versions
  <1>10. withdrawn' \subseteq Versions
    <2>1. pub.version + 1 \in Versions /\ withdrawn \subseteq Versions
      BY <1>2, PublicationsAssumption
         DEF Write, Versions, PublicationsInv, PublicationsTypeOK
    <2> QED BY <2>1 DEF Write
  <1>3. CASE tab[o].op = "publish"
    <2>1. tab' = [tab EXCEPT ![o] = IdleTab] /\ tab'[o] = IdleTab
      BY <1>1, <1>3 DEF Write, CloseTab
    <2>2. TabKnows(o)'
      BY <1>2, <2>1, IdleTabKnows DEF TabKnows
    <2>3. ~Published
      BY <1>1, <1>3 DEF TabKnows
    <2> QED BY <1>1, <1>10, <2>1, <2>2, <2>3, IdleTabKnows, WriteType, PublicationChanges
            DEF VisibleTo
  <1>4. CASE tab[o].op # "publish"
    <2> DEFINE pc == IF tab[o].op = "update" THEN "select" ELSE "end"
               w == [tab[o] EXCEPT !.pc = pc]
    <2>1. pc \in {"select", "end"} /\ (pc = "select" <=> tab[o].op = "update")
      OBVIOUS
    <2>2. tab' = [tab EXCEPT ![o].pc = pc]
      BY <1>4 DEF Write, TabGoes
    <2> HIDE DEF pc
    <2>3. /\ w \in Tab /\ w.pc = pc /\ w.op = tab[o].op /\ w.expected = pub.version
          /\ w.audience = tab[o].audience
      BY <1>1, <2>1 DEF Tab
    <2>4. tab' = [tab EXCEPT ![o] = w] /\ tab'[o] = w
      BY <1>1, <2>2
    <2> HIDE DEF w
    <2>5. TabKnows(o)'
      BY <1>2, <1>4, <2>1, <2>3, <2>4 DEF TabKnows
    <2>6. ASSUME NEW u \in Subscribers, ~VisibleTo(sub[u].tenant)' PROVE Ends(o, u)'
      <3>1. CASE pc = "select"
        <4>1. pub'.status = "published" /\ pub'.audience = tab[o].audience
          BY <2>1, <3>1, WriteType
        <4> QED BY <1>1, <2>3, <2>4, <2>6, <3>1, <4>1
                DEF Ends, TabAt, Outside, VisibleTo, Published
      <3>2. CASE pc = "end"
        BY <2>1, <2>3, <2>4, <3>2 DEF Ends, TabAt
      <3> QED BY <2>1, <3>1, <3>2
    <2> QED BY <1>1, <1>10, <2>3, <2>4, <2>5, <2>6, WriteType, PublicationChanges
  <1> QED BY <1>3, <1>4

LEMMA SelectKeeps ==
  ASSUME PublicationsInv, NEW o \in Tabs, Select(o)
  PROVE  PublicationsInv'
PROOF
  <1> DEFINE due == {u \in Subscribers : Active(u) /\ Outside(o, u)}
             w == [tab[o] EXCEPT !.pc = "end", !.todo = due]
  <1>1. /\ tab \in [Tabs -> Tab] /\ tab[o] \in Tab /\ tab[o].pc = "select" /\ TabKnows(o)
        /\ UNCHANGED <<pubRows, visit, pubHistory>>
    BY DEF PublicationsInv, PublicationsTypeOK, Select, TabAt
  <1>2. /\ w \in Tab /\ w.pc = "end" /\ w.todo = due /\ w.op = tab[o].op
        /\ w.expected = tab[o].expected
    BY <1>1 DEF Tab
  <1>3. tab' = [tab EXCEPT ![o].pc = "end", ![o].todo = due]
    BY DEF Select
  <1>4. tab' = [tab EXCEPT ![o] = w] /\ tab'[o] = w
    BY <1>1, <1>3
  <1> HIDE DEF w
  <1>5. tab[o].op = "update" /\ pub' = pub /\ sub' = sub
    BY <1>1 DEF TabKnows, pubRows
  <1>6. TabKnows(o)'
    BY <1>1, <1>2, <1>4, <1>5 DEF TabKnows
  <1>7. \A u \in Subscribers : Active(u) /\ Ends(o, u) => Ends(o, u)'
    BY <1>1, <1>2, <1>4 DEF Ends, TabAt
  <1> QED BY <1>1, <1>2, <1>4, <1>6, <1>7, TabStep

LEMMA EndKeeps ==
  ASSUME PublicationsInv, NEW o \in Tabs, End(o)
  PROVE  PublicationsInv'
PROOF
  <1>1. /\ tab \in [Tabs -> Tab] /\ tab[o] \in Tab /\ tab[o].pc = "end" /\ TabKnows(o)
        /\ sub \in [Subscribers -> Subscription]
        /\ UNCHANGED <<kb, pub, visit, withdrawn, joined, stale, interrupted>>
    BY DEF PublicationsInv, PublicationsTypeOK, End, TabAt, pubHistory
  <1>2. \A u \in Subscribers :
          /\ sub'[u] \in Subscription /\ sub'[u].tenant = sub[u].tenant
          /\ Active(u)' => Active(u) /\ ~Ends(o, u)
    <2> SUFFICES ASSUME NEW u \in Subscribers
                 PROVE  /\ sub'[u] \in Subscription /\ sub'[u].tenant = sub[u].tenant
                        /\ sub'[u].status = "active" => Active(u) /\ ~Ends(o, u)
      BY DEF Active
    <2>1. sub'[u] = IF Active(u) /\ (tab[o].op = "update" => u \in tab[o].todo)
                      THEN [sub[u] EXCEPT !.status = "inactive"] ELSE sub[u]
      BY DEF End
    <2>2. sub[u] \in Subscription
      BY <1>1
    <2>3. [sub[u] EXCEPT !.status = "inactive"] \in Subscription
      BY <2>2 DEF Subscription
    <2> QED BY <1>1, <2>1, <2>2, <2>3 DEF Active, Ends, TabAt, Subscription
  <1>3. sub' \in [Subscribers -> Subscription]
    <2>1. DOMAIN sub' = Subscribers /\ sub' = [u \in Subscribers |-> sub'[u]]
      BY DEF End
    <2> QED BY <1>2, <2>1
  <1>4. \E w \in Tab :
          /\ tab' = [tab EXCEPT ![o] = w] /\ TabKnows(o)'
    <2>1. CASE CloseTab(o)
      <3>1. tab' = [tab EXCEPT ![o] = IdleTab] /\ tab'[o] = IdleTab
        BY <1>1, <2>1 DEF CloseTab
      <3>2. 0 <= pub.version
        BY PublicationsAssumption
           DEF PublicationsInv, PublicationsTypeOK, Publication, Versions
      <3>3. TabKnows(o)'
        BY <1>1, <3>1, <3>2, IdleTabKnows DEF TabKnows
      <3> QED BY <3>1, <3>3, IdleTabKnows
    <2>2. CASE tab[o].op = "delete" /\ TabGoes(o, "delete")
      <3> DEFINE w == [tab[o] EXCEPT !.pc = "delete"]
      <3>1. /\ w \in Tab /\ w.pc = "delete" /\ w.op = "delete"
            /\ w.expected = tab[o].expected
        BY <1>1, <2>2 DEF Tab
      <3>2. tab' = [tab EXCEPT ![o] = w] /\ tab'[o] = w
        BY <1>1, <2>2 DEF TabGoes
      <3> HIDE DEF w
      <3>3. TabKnows(o)'
        BY <1>1, <2>2, <3>1, <3>2 DEF TabKnows, Published
      <3> QED BY <3>1, <3>2, <3>3
    <2> QED BY <2>1, <2>2 DEF End
  <1>5. /\ tab' \in [Tabs -> Tab] /\ \A p \in Tabs \ {o} : tab'[p] = tab[p]
    BY <1>1, <1>4
  <1>6. PublicationsTypeOK'
    BY <1>1, <1>3, <1>5 DEF PublicationsInv, PublicationsTypeOK
  <1>7. \A p \in Tabs : TabKnows(p)'
    BY <1>1, <1>4, <1>5 DEF PublicationsInv, TabKnows, Published
  <1>8. (Published => Exists)' /\ \A v \in Visits : VisitKnows(v)'
    BY <1>1 DEF PublicationsInv, VisitKnows, VisibleTo, Published, Exists
  <1>9. SubscriptionsAreEnded'
    <2> SUFFICES ASSUME NEW u \in Subscribers, Active(u)', ~VisibleTo(sub[u].tenant)',
                        u \notin stale, ~interrupted
                 PROVE  \E p \in Tabs : Ends(p, u)'
      BY <1>1 DEF SubscriptionsAreEnded
    <2>1. Active(u) /\ ~Ends(o, u) /\ sub'[u].tenant = sub[u].tenant
      BY <1>2
    <2>2. PICK p \in Tabs : Ends(p, u)
      BY <1>1, <2>1 DEF PublicationsInv, SubscriptionsAreEnded, VisibleTo, Published
    <2>3. tab'[p] = tab[p]
      BY <1>5, <2>1, <2>2
    <2> QED BY <2>1, <2>2, <2>3 DEF Ends, TabAt, Outside
  <1> QED BY <1>6, <1>7, <1>8, <1>9 DEF PublicationsInv

LEMMA DeleteKeeps ==
  ASSUME PublicationsInv, NEW o \in Tabs, Delete(o) \/ TabDies(o)
  PROVE  PublicationsInv'
PROOF
  <1>1. /\ tab \in [Tabs -> Tab] /\ UNCHANGED <<pub, sub, visit, withdrawn, joined, stale>>
        /\ kb' \in BOOLEAN /\ interrupted' \in BOOLEAN
        /\ interrupted => interrupted'
        /\ ~interrupted' => tab[o].pc \notin {"select", "end"}
    BY DEF PublicationsInv, PublicationsTypeOK, Delete, TabDies, TabAt, pubRows, pubHistory
  <1>2. /\ tab' = [tab EXCEPT ![o] = IdleTab] /\ tab'[o] = IdleTab
        /\ tab' \in [Tabs -> Tab] /\ \A p \in Tabs \ {o} : tab'[p] = tab[p]
    BY <1>1, IdleTabKnows DEF Delete, TabDies, CloseTab
  <1>3. PublicationsTypeOK'
    BY <1>1, <1>2 DEF PublicationsInv, PublicationsTypeOK
  <1>4. ASSUME NEW p \in Tabs PROVE TabKnows(p)'
    <2>1. 0 <= pub.version
      BY PublicationsAssumption
         DEF PublicationsInv, PublicationsTypeOK, Publication, Versions
    <2> QED BY <1>1, <1>2, <2>1, IdleTabKnows DEF PublicationsInv, TabKnows, Published
  <1>5. (Published => Exists)' /\ \A v \in Visits : VisitKnows(v)'
    BY <1>1 DEF PublicationsInv, VisitKnows, VisibleTo, Published, Exists
  <1>6. SubscriptionsAreEnded'
    <2> SUFFICES ASSUME NEW u \in Subscribers, Active(u), ~VisibleTo(sub[u].tenant),
                        u \notin stale, ~interrupted'
                 PROVE  \E p \in Tabs : Ends(p, u)'
      BY <1>1 DEF SubscriptionsAreEnded, Active, VisibleTo, Published
    <2>1. PICK p \in Tabs : Ends(p, u)
      BY <1>1 DEF PublicationsInv, SubscriptionsAreEnded
    <2>2. p # o
      BY <1>1, <2>1 DEF Ends, TabAt
    <2> QED BY <1>1, <1>2, <2>1, <2>2 DEF Ends, TabAt, Outside
  <1> QED BY <1>3, <1>4, <1>5, <1>6 DEF PublicationsInv

\* A step of a subscriber's request that changes rows of subscriptions at most.
LEMMA VisitStep ==
  ASSUME PublicationsInv, NEW v \in Visits, NEW w \in Visit,
         visit' = [visit EXCEPT ![v] = w], VisitKnows(v)',
         sub' \in [Subscribers -> Subscription], stale' \subseteq Subscribers,
         \A u \in Subscribers :
           \/ sub'[u] = sub[u] /\ (u \in stale => u \in stale')
           \/ Active(u)' => VisibleTo(sub[u].tenant)' \/ u \in stale',
         joined' \in [Subscribers -> Versions],
         UNCHANGED <<kb, pub, tab, withdrawn, interrupted>>
  PROVE  PublicationsInv'
PROOF
  <1>1. /\ visit' \in [Visits -> Visit] /\ \A p \in Visits \ {v} : visit'[p] = visit[p]
    BY DEF PublicationsInv, PublicationsTypeOK
  <1>2. PublicationsTypeOK'
    BY <1>1 DEF PublicationsInv, PublicationsTypeOK
  <1>3. (Published => Exists)' /\ \A o \in Tabs : TabKnows(o)'
    BY DEF PublicationsInv, TabKnows, Published, Exists
  <1>4. \A p \in Visits : VisitKnows(p)'
    BY <1>1 DEF PublicationsInv, VisitKnows, VisibleTo, Published
  <1>5. SubscriptionsAreEnded'
    <2> SUFFICES ASSUME NEW u \in Subscribers, Active(u)', ~VisibleTo(sub[u].tenant)',
                        u \notin stale', ~interrupted
                 PROVE  \E o \in Tabs : Ends(o, u)'
      BY DEF SubscriptionsAreEnded
    <2>1. sub'[u] = sub[u] /\ u \notin stale
      OBVIOUS
    <2> QED BY <2>1 DEF PublicationsInv, SubscriptionsAreEnded, Active, VisibleTo, Published,
                        Ends, TabAt, Outside
  <1> QED BY <1>2, <1>3, <1>4, <1>5 DEF PublicationsInv

LEMMA VisitCloses ==
  ASSUME PublicationsInv, NEW v \in Visits, CloseVisit(v),
         sub' \in [Subscribers -> Subscription], stale' \subseteq Subscribers,
         \A u \in Subscribers :
           \/ sub'[u] = sub[u] /\ (u \in stale => u \in stale')
           \/ Active(u)' => VisibleTo(sub[u].tenant)' \/ u \in stale',
         joined' \in [Subscribers -> Versions],
         UNCHANGED <<kb, pub, tab, withdrawn, interrupted>>
  PROVE  PublicationsInv'
PROOF
  <1>1. visit' = [visit EXCEPT ![v] = IdleVisit] /\ visit'[v] = IdleVisit
    BY DEF CloseVisit, PublicationsInv, PublicationsTypeOK
  <1>2. VisitKnows(v)'
    BY <1>1, IdleTabKnows DEF VisitKnows
  <1> QED BY <1>1, <1>2, IdleTabKnows, VisitStep

\* A subscriber's request goes on, or ends, having read only.
LEMMA VisitReads ==
  ASSUME PublicationsInv, NEW v \in Visits, UNCHANGED <<pubRows, tab, pubHistory>>,
         \/ CloseVisit(v)
         \/ \E w \in Visit : visit' = [visit EXCEPT ![v] = w] /\ VisitKnows(v)'
  PROVE  PublicationsInv'
PROOF
  <1>1. UNCHANGED <<kb, pub, sub, tab, withdrawn, joined, stale, interrupted>>
    BY DEF pubRows, pubHistory
  <1>2. sub' \in [Subscribers -> Subscription] /\ stale' \subseteq Subscribers
        /\ joined' \in [Subscribers -> Versions]
    BY <1>1 DEF PublicationsInv, PublicationsTypeOK
  <1>3. CASE CloseVisit(v)
    BY <1>1, <1>2, <1>3, VisitCloses
  <1>4. ASSUME NEW w \in Visit, visit' = [visit EXCEPT ![v] = w], VisitKnows(v)'
        PROVE  PublicationsInv'
    BY <1>1, <1>2, <1>4, VisitStep
  <1> QED BY <1>3, <1>4

LEMMA VisitingKeeps ==
  ASSUME PublicationsInv, NEW v \in Visits, NEW op \in {"subscribe", "unsubscribe"},
         NEW u \in Subscribers, NEW t \in Tenants, Visiting(v, op, u, t)
  PROVE  PublicationsInv'
PROOF
  <1> DEFINE w == [IdleVisit EXCEPT !.pc = "publication", !.op = op, !.user = u,
                                    !.tenant = t]
  <1>1. w \in Visit /\ w.pc = "publication" /\ w.user = u /\ w.tenant = t
    BY IdleTabKnows DEF Visit
  <1>2. visit' = [visit EXCEPT ![v] = w] /\ UNCHANGED <<pubRows, tab, pubHistory>>
    BY DEF Visiting
  <1> HIDE DEF w
  <1>3. visit'[v] = w
    BY <1>2 DEF PublicationsInv, PublicationsTypeOK
  <1>4. VisitKnows(v)'
    BY <1>1, <1>3 DEF VisitKnows
  <1> QED BY <1>1, <1>2, <1>4, VisitReads

LEMMA ReadPublicationKeeps ==
  ASSUME PublicationsInv, NEW v \in Visits, ReadPublication(v)
  PROVE  PublicationsInv'
PROOF
  <1> DEFINE looked == IF visit[v].op = "subscribe" THEN pub.version ELSE 0
             w == [visit[v] EXCEPT !.looked = looked, !.pc = "lookup"]
  <1>1. /\ visit \in [Visits -> Visit] /\ visit[v] \in Visit /\ VisitKnows(v)
        /\ visit[v].pc = "publication" /\ UNCHANGED <<pubRows, tab, pubHistory>>
    BY DEF PublicationsInv, PublicationsTypeOK, ReadPublication, VisitAt
  <1>2. CASE CloseVisit(v)
    BY <1>1, <1>2, VisitReads
  <1>3. CASE VisibleNow(v) /\ visit' = [visit EXCEPT ![v].looked = looked, ![v].pc = "lookup"]
    <2>1. pub.version \in Versions /\ pub.version \in Nat /\ 0 \in Versions
      BY PublicationsAssumption
         DEF PublicationsInv, PublicationsTypeOK, Publication, Versions
    <2>2. looked \in Versions /\ (visit[v].op = "subscribe" => looked = pub.version)
      BY <2>1
    <2>3. visit' = [visit EXCEPT ![v] = w] /\ visit'[v] = w
      BY <1>1, <1>3
    <2> HIDE DEF looked
    <2>4. /\ w \in Visit /\ w.pc = "lookup" /\ w.op = visit[v].op /\ w.looked = looked
          /\ w.user = visit[v].user /\ w.tenant = visit[v].tenant
      BY <1>1, <2>2 DEF Visit
    <2> HIDE DEF w
    <2>5. visit[v].user \in Subscribers /\ visit[v].tenant \in Tenants /\ pub' = pub
      BY <1>1 DEF VisitKnows, pubRows
    <2>6. visit[v].op = "subscribe" => VisibleTo(visit[v].tenant)
      BY <1>3 DEF VisibleNow
    <2>7. VisitKnows(v)'
      BY <2>1, <2>2, <2>3, <2>4, <2>5, <2>6 DEF VisitKnows, VisibleTo, Published
    <2> QED BY <1>1, <2>3, <2>4, <2>7, VisitReads
  <1> QED BY <1>2, <1>3 DEF ReadPublication

LEMMA LookupRowKeeps ==
  ASSUME PublicationsInv, NEW v \in Visits, LookupRow(v)
  PROVE  PublicationsInv'
PROOF
  <1>1. /\ visit \in [Visits -> Visit] /\ visit[v] \in Visit /\ VisitKnows(v)
        /\ visit[v].pc = "lookup" /\ UNCHANGED <<pubRows, tab, pubHistory>>
    BY DEF PublicationsInv, PublicationsTypeOK, LookupRow, VisitAt
  <1>2. CASE CloseVisit(v)
    BY <1>1, <1>2, VisitReads
  <1>3. ASSUME NEW pc \in {"create", "activate", "unsubscribe"}, VisitGoes(v, pc),
               pc # "unsubscribe" => visit[v].op = "subscribe"
        PROVE  PublicationsInv'
    <2> DEFINE w == [visit[v] EXCEPT !.pc = pc]
    <2>1. /\ w \in Visit /\ w.pc = pc /\ w.op = visit[v].op /\ w.looked = visit[v].looked
          /\ w.user = visit[v].user /\ w.tenant = visit[v].tenant
      BY <1>1 DEF Visit
    <2>2. visit' = [visit EXCEPT ![v] = w] /\ visit'[v] = w
      BY <1>1, <1>3 DEF VisitGoes
    <2> HIDE DEF w
    <2>3. pub' = pub
      BY <1>1 DEF pubRows
    <2>4. VisitKnows(v)'
      BY <1>1, <1>3, <2>1, <2>2, <2>3 DEF VisitKnows, VisibleTo, Published
    <2> QED BY <1>1, <2>1, <2>2, <2>4, VisitReads
  <1> QED BY <1>2, <1>3 DEF LookupRow

\* A subscription on a publication that was looked at is on one that lets it in,
\* or the publication has changed since.
LEMMA SubscribeKeeps ==
  ASSUME PublicationsInv, NEW v \in Visits, Subscribe(v)
  PROVE  PublicationsInv'
PROOF
  <1> DEFINE u == visit[v].user  row == [status |-> "active", tenant |-> visit[v].tenant]
  <1>1. /\ u \in Subscribers /\ visit[v].tenant \in Tenants
        /\ visit[v].looked = pub.version => VisibleTo(visit[v].tenant)
    BY DEF PublicationsInv, VisitKnows, Subscribe, VisitAt
  <1>2. /\ sub \in [Subscribers -> Subscription] /\ stale \subseteq Subscribers
        /\ sub' = [sub EXCEPT ![u] = row] /\ UNCHANGED <<kb, pub, tab, withdrawn, interrupted>>
        /\ CloseVisit(v) /\ joined' = [joined EXCEPT ![u] = visit[v].looked]
        /\ joined \in [Subscribers -> Versions] /\ visit[v] \in Visit
        /\ stale' = IF visit[v].looked = pub.version THEN stale \ {u} ELSE stale \cup {u}
    BY DEF PublicationsInv, PublicationsTypeOK, Subscribe
  <1>3. row \in Subscription /\ row.tenant = visit[v].tenant
    BY <1>1 DEF Subscription
  <1> HIDE DEF row
  <1>4. /\ sub' \in [Subscribers -> Subscription] /\ sub'[u] = row
        /\ stale' \subseteq Subscribers
        /\ \A s \in Subscribers \ {u} : sub'[s] = sub[s] /\ (s \in stale => s \in stale')
    BY <1>1, <1>2, <1>3
  <1>5. VisibleTo(visit[v].tenant) \/ u \in stale'
    BY <1>1, <1>2
  <1>6. \A s \in Subscribers :
           \/ sub'[s] = sub[s] /\ (s \in stale => s \in stale')
           \/ Active(s)' => VisibleTo(sub[s].tenant)' \/ s \in stale'
    <2>1. sub'[u].tenant = visit[v].tenant /\ pub' = pub
      BY <1>2, <1>3, <1>4
    <2> HIDE DEF u
    <2> QED BY <1>4, <1>5, <2>1 DEF VisibleTo, Published
  <1>7. joined' \in [Subscribers -> Versions]
    BY <1>1, <1>2 DEF Visit
  <1> QED BY <1>2, <1>4, <1>6, <1>7, VisitCloses

LEMMA UnsubscribeKeeps ==
  ASSUME PublicationsInv, NEW v \in Visits, Unsubscribe(v)
  PROVE  PublicationsInv'
PROOF
  <1> DEFINE u == visit[v].user  row == [sub[u] EXCEPT !.status = "unsubscribed"]
  <1>1. u \in Subscribers
    BY DEF PublicationsInv, VisitKnows, Unsubscribe, VisitAt
  <1>2. /\ sub \in [Subscribers -> Subscription] /\ stale \subseteq Subscribers
        /\ UNCHANGED <<kb, pub, tab, withdrawn, joined, stale, interrupted>> /\ CloseVisit(v)
        /\ joined' \in [Subscribers -> Versions]
    BY DEF PublicationsInv, PublicationsTypeOK, Unsubscribe, pubHistory
  <1>3. sub' = [sub EXCEPT ![u] = row]
    BY <1>1, <1>2 DEF Unsubscribe
  <1>4. row \in Subscription /\ row.status = "unsubscribed"
    BY <1>1, <1>2 DEF Subscription
  <1> HIDE DEF row
  <1>5. /\ sub' \in [Subscribers -> Subscription] /\ stale' \subseteq Subscribers
        /\ \A s \in Subscribers : sub'[s] = sub[s] \/ ~Active(s)'
    BY <1>1, <1>2, <1>3, <1>4 DEF Active
  <1> QED BY <1>2, <1>5, VisitCloses

LEMMA PublicationsStep == PublicationsInv /\ [PublicationsNext]_pubVars => PublicationsInv'
PROOF
  <1> SUFFICES ASSUME PublicationsInv, [PublicationsNext]_pubVars PROVE PublicationsInv'
    OBVIOUS
  <1>1. CASE UNCHANGED pubVars
    <2>1. UNCHANGED <<kb, pub, sub, tab, visit, withdrawn, joined, stale, interrupted>>
      BY <1>1 DEF pubVars
    <2> QED BY <2>1 DEF PublicationsInv, PublicationsTypeOK, Published, Exists, TabKnows,
                        VisitKnows, VisibleTo, SubscriptionsAreEnded, Active, Ends, TabAt,
                        Outside
  <1>2. ASSUME NEW o \in Tabs, OwnerAsks(o) PROVE PublicationsInv'
    BY <1>2, OwnerAsksKeeps
  <1>3. ASSUME NEW o \in Tabs, Lookup(o) PROVE PublicationsInv'
    BY <1>3, LookupKeeps
  <1>4. ASSUME NEW o \in Tabs, Confirm(o) \/ WriteRefused(o) PROVE PublicationsInv'
    BY <1>4, ConfirmKeeps
  <1>5. ASSUME NEW o \in Tabs, Create(o) PROVE PublicationsInv'
    BY <1>5, CreateKeeps
  <1>6. ASSUME NEW o \in Tabs, Write(o) PROVE PublicationsInv'
    BY <1>6, WriteKeeps
  <1>7. ASSUME NEW o \in Tabs, Select(o) PROVE PublicationsInv'
    BY <1>7, SelectKeeps
  <1>8. ASSUME NEW o \in Tabs, End(o) PROVE PublicationsInv'
    BY <1>8, EndKeeps
  <1>9. ASSUME NEW o \in Tabs, Delete(o) \/ TabDies(o) PROVE PublicationsInv'
    BY <1>9, DeleteKeeps
  <1>10. ASSUME NEW v \in Visits, NEW op \in {"subscribe", "unsubscribe"},
                NEW u \in Subscribers, NEW t \in Tenants, Visiting(v, op, u, t)
         PROVE  PublicationsInv'
    BY <1>10, VisitingKeeps
  <1>11. ASSUME NEW v \in Visits, ReadPublication(v) PROVE PublicationsInv'
    BY <1>11, ReadPublicationKeeps
  <1>12. ASSUME NEW v \in Visits, LookupRow(v) PROVE PublicationsInv'
    BY <1>12, LookupRowKeeps
  <1>13. ASSUME NEW v \in Visits, Subscribe(v) PROVE PublicationsInv'
    BY <1>13, SubscribeKeeps
  <1>14. ASSUME NEW v \in Visits, Unsubscribe(v) PROVE PublicationsInv'
    BY <1>14, UnsubscribeKeeps
  <1>15. ASSUME NEW v \in Visits, VisitDies(v) PROVE PublicationsInv'
    BY <1>15, VisitReads DEF VisitDies
  <1> QED BY <1>1, <1>2, <1>3, <1>4, <1>5, <1>6, <1>7, <1>8, <1>9, <1>10, <1>11, <1>12,
             <1>13, <1>14, <1>15 DEF PublicationsNext, TabProceeds, VisitProceeds

\* Only a creation and a write change the publication, only a deletion the base.
LEMMA OwnerChanges ==
  ASSUME [PublicationsNext]_pubVars
  PROVE  /\ pub' # pub => \E o \in Tabs : Create(o) \/ Write(o)
         /\ kb' # kb => \E o \in Tabs : Delete(o)
PROOF
  <1>1. CASE UNCHANGED pubVars
    BY <1>1 DEF pubVars
  <1>2. ASSUME NEW o \in Tabs,
               \/ OwnerAsks(o) \/ Lookup(o) \/ Confirm(o) \/ WriteRefused(o) \/ Select(o)
               \/ TabDies(o)
        PROVE  pub' = pub /\ kb' = kb
    BY <1>2 DEF OwnerAsks, AskPublish, AskUpdate, AskUnpublish, AskDelete, Asks, Lookup,
                Confirm, WriteRefused, Select, TabDies, pubRows
  <1>3. ASSUME NEW o \in Tabs PROVE /\ Create(o) \/ Write(o) => kb' = kb
                                    /\ Delete(o) => pub' = pub
                                    /\ End(o) => pub' = pub /\ kb' = kb
    BY DEF Create, Write, Delete, End
  <1>4. ASSUME NEW v \in Visits, NEW op \in {"subscribe", "unsubscribe"},
               NEW u \in Subscribers, NEW t \in Tenants, Visiting(v, op, u, t)
        PROVE  pub' = pub /\ kb' = kb
    BY <1>4 DEF Visiting, pubRows
  <1>5. ASSUME NEW v \in Visits, VisitProceeds(v) \/ VisitDies(v)
        PROVE  pub' = pub /\ kb' = kb
    BY <1>5 DEF VisitProceeds, VisitDies, ReadPublication, LookupRow, Subscribe, Unsubscribe,
                pubRows
  <1> QED BY <1>1, <1>2, <1>3, <1>4, <1>5 DEF PublicationsNext, TabProceeds

LEMMA EditBuilds ==
  PublicationsInv /\ [PublicationsNext]_pubVars => EditBuildsOnWhatItSaw
PROOF
  <1> SUFFICES ASSUME PublicationsInv, [PublicationsNext]_pubVars, pub' # pub
               PROVE  /\ pub'.version = pub.version + 1
                      /\ \E o \in Tabs :
                           /\ tab'[o] # tab[o]
                           /\ Exists => tab[o].expected = pub.version
                           /\ pub'.status = "published" /\ ~Published => tab[o].op = "publish"
    BY DEF EditBuildsOnWhatItSaw
  <1>1. PICK o \in Tabs : Create(o) \/ Write(o)
    BY OwnerChanges
  <1>2. TabKnows(o) /\ tab \in [Tabs -> Tab] /\ tab[o] \in Tab
    BY DEF PublicationsInv, PublicationsTypeOK
  <1>3. CASE Create(o)
    <2>1. pub.version = 0 /\ pub'.version = 1 /\ tab[o].op = "publish"
      BY <1>2, <1>3 DEF Create, Exists, TabKnows, TabAt
    <2>2. tab'[o].pc = "idle" /\ tab[o].pc = "create"
      BY <1>2, <1>3, IdleTabKnows DEF Create, CloseTab, TabAt
    <2> QED BY <2>1, <2>2 DEF Exists
  <1>4. CASE Write(o)
    <2>1. /\ tab[o].pc = "write" /\ tab[o].expected = pub.version
          /\ tab[o].op \in {"publish", "update", "unpublish", "delete"}
      BY <1>2, <1>4 DEF Write, TabAt, Current, Tab
    <2>2. tab'[o].pc # "write"
      <3>1. CASE tab[o].op = "publish"
        BY <1>2, <1>4, <3>1, IdleTabKnows DEF Write, CloseTab
      <3>2. CASE tab[o].op # "publish"
        <4> DEFINE pc == IF tab[o].op = "update" THEN "select" ELSE "end"
        <4>1. tab' = [tab EXCEPT ![o].pc = pc] /\ pc # "write"
          BY <1>4, <3>2 DEF Write, TabGoes
        <4> HIDE DEF pc
        <4> QED BY <1>2, <4>1 DEF Tab
      <3> QED BY <3>1, <3>2
    <2>3. pub'.status = "published" /\ ~Published => tab[o].op = "publish"
      BY <1>2, <1>4, <2>1, WriteType DEF TabKnows
    <2>4. pub'.version = pub.version + 1
      BY <1>4, WriteType
    <2> QED BY <2>1, <2>2, <2>3, <2>4
  <1> QED BY <1>1, <1>3, <1>4

\* What a step does to versions and subscriptions.
LEMMA VersionsChange ==
  ASSUME [PublicationsNext]_pubVars
  PROVE  /\ withdrawn \subseteq withdrawn'
         /\ UNCHANGED <<pub, withdrawn>> \/ \E o \in Tabs : Create(o) \/ Write(o)
         /\ \/ UNCHANGED <<sub, joined, stale>>
            \/ \E o \in Tabs : End(o)
            \/ \E v \in Visits : Subscribe(v) \/ Unsubscribe(v)
PROOF
  <1>1. CASE UNCHANGED pubVars
    BY <1>1 DEF pubVars
  <1>2. ASSUME NEW o \in Tabs,
               \/ OwnerAsks(o) \/ Lookup(o) \/ Confirm(o) \/ WriteRefused(o) \/ Select(o)
               \/ TabDies(o) \/ Delete(o)
        PROVE  UNCHANGED <<pub, withdrawn, sub, joined, stale>>
    BY <1>2 DEF OwnerAsks, AskPublish, AskUpdate, AskUnpublish, AskDelete, Asks, Lookup,
                Confirm, WriteRefused, Select, TabDies, Delete, pubRows, pubHistory
  <1>3. ASSUME NEW o \in Tabs, Create(o) \/ Write(o)
        PROVE  UNCHANGED <<sub, joined, stale>> /\ withdrawn \subseteq withdrawn'
    BY <1>3 DEF Create, Write, pubHistory
  <1>4. ASSUME NEW o \in Tabs, End(o) PROVE UNCHANGED <<pub, withdrawn>>
    BY <1>4 DEF End, pubHistory
  <1>5. ASSUME NEW v \in Visits, NEW op \in {"subscribe", "unsubscribe"},
               NEW u \in Subscribers, NEW t \in Tenants, Visiting(v, op, u, t)
        PROVE  UNCHANGED <<pub, withdrawn, sub, joined, stale>>
    BY <1>5 DEF Visiting, pubRows, pubHistory
  <1>6. ASSUME NEW v \in Visits, ReadPublication(v) \/ LookupRow(v) \/ VisitDies(v)
        PROVE  UNCHANGED <<pub, withdrawn, sub, joined, stale>>
    BY <1>6 DEF ReadPublication, LookupRow, VisitDies, pubRows, pubHistory
  <1>7. ASSUME NEW v \in Visits, Subscribe(v) \/ Unsubscribe(v)
        PROVE  UNCHANGED <<pub, withdrawn>>
    BY <1>7 DEF Subscribe, Unsubscribe, pubHistory
  <1> QED BY <1>1, <1>2, <1>3, <1>4, <1>5, <1>6, <1>7
          DEF PublicationsNext, TabProceeds, VisitProceeds

\* A tab is changed by its own steps only.
LEMMA TabsChange ==
  ASSUME PublicationsInv, [PublicationsNext]_pubVars, NEW o \in Tabs, tab'[o] # tab[o]
  PROVE  OwnerAsks(o) \/ TabProceeds(o) \/ TabDies(o)
PROOF
  <1>1. tab \in [Tabs -> Tab]
    BY DEF PublicationsInv, PublicationsTypeOK
  <1>2. ~UNCHANGED tab
    OBVIOUS
  <1>3. PICK p \in Tabs : OwnerAsks(p) \/ TabProceeds(p) \/ TabDies(p)
    BY <1>2 DEF PublicationsNext, pubVars, Visiting, VisitProceeds, VisitDies, ReadPublication,
                LookupRow, Subscribe, Unsubscribe
  <1>4. CASE OwnerAsks(p)
    BY <1>1, <1>4 DEF OwnerAsks, AskPublish, AskUpdate, AskUnpublish, AskDelete, Asks
  <1>5. CASE TabDies(p)
    BY <1>1, <1>5 DEF TabDies, CloseTab
  <1>6. CASE TabProceeds(p)
    <2>1. CASE Lookup(p)
      BY <1>1, <2>1 DEF Lookup, TabGoes, CloseTab, TabProceeds
    <2>2. CASE Confirm(p) \/ Create(p) \/ WriteRefused(p) \/ Delete(p)
      BY <1>1, <2>2 DEF Confirm, Create, WriteRefused, Delete, TabGoes, CloseTab, TabProceeds
    <2>3. CASE Write(p) \/ Select(p) \/ End(p)
      BY <1>1, <2>3 DEF Write, Select, End, TabGoes, CloseTab, TabProceeds
    <2> QED BY <1>6, <2>1, <2>2, <2>3 DEF TabProceeds
  <1> QED BY <1>3, <1>4, <1>5, <1>6

LEMMA WithdrawnStep ==
  ASSUME PublicationsInv, WithdrawnWereUnpublished, [PublicationsNext]_pubVars
  PROVE  WithdrawnWereUnpublished'
PROOF
  <1>1. pub.version \in Nat /\ \A v \in withdrawn : v \in Nat
    BY PublicationsAssumption
       DEF PublicationsInv, PublicationsTypeOK, Publication, Versions
  <1>2. CASE UNCHANGED <<pub, withdrawn>>
    BY <1>2 DEF WithdrawnWereUnpublished, Published
  <1>3. ASSUME NEW o \in Tabs, Create(o) PROVE WithdrawnWereUnpublished'
    <2>1. pub.version = 0 /\ pub'.version = 1 /\ pub'.status = "published"
          /\ withdrawn' = withdrawn
      BY <1>3 DEF Create, Exists, pubHistory
    <2> QED BY <1>1, <2>1 DEF WithdrawnWereUnpublished, Published
  <1>4. ASSUME NEW o \in Tabs, Write(o) PROVE WithdrawnWereUnpublished'
    <2>1. pub'.version = pub.version + 1
      BY <1>4, WriteType
    <2>2. CASE tab[o].op \in {"publish", "update"}
      <3>1. pub'.status = "published" /\ withdrawn' = withdrawn
        BY <1>4, <2>2, WriteType DEF Write
      <3> QED BY <1>1, <2>1, <3>1 DEF WithdrawnWereUnpublished, Published
    <2>3. CASE tab[o].op \notin {"publish", "update"}
      <3>1. pub'.status = "unpublished" /\ withdrawn' = withdrawn \cup {pub.version + 1}
        BY <1>4, <2>3, WriteType DEF Write
      <3> QED BY <1>1, <2>1, <3>1 DEF WithdrawnWereUnpublished, Published
    <2> QED BY <2>2, <2>3
  <1> QED BY <1>2, <1>3, <1>4, VersionsChange

\* Who subscribes after all subscriptions ended looked at a later version, or the
\* publication changed while the request was under way.
LEMMA EndedStays ==
  ASSUME PublicationsInv, WithdrawnWereUnpublished, [PublicationsNext]_pubVars,
         NEW v, EndedAt(v)
  PROVE  EndedAt(v)'
PROOF
  <1>1. /\ pub.version \in Nat /\ v \in Nat /\ v \in withdrawn /\ v \in withdrawn'
        /\ sub \in [Subscribers -> Subscription] /\ joined \in [Subscribers -> Versions]
    BY PublicationsAssumption, VersionsChange
       DEF EndedAt, PublicationsInv, PublicationsTypeOK, Publication, Versions
  <1>2. CASE UNCHANGED <<sub, joined, stale>>
    BY <1>1, <1>2 DEF EndedAt, Active
  <1>3. ASSUME NEW o \in Tabs, End(o) PROVE EndedAt(v)'
    <2>1. \A u \in Subscribers : Active(u)' => Active(u)
      <3> SUFFICES ASSUME NEW u \in Subscribers, sub'[u].status = "active" PROVE Active(u)
        BY DEF Active
      <3> QED BY <1>1, <1>3 DEF End, Active, Subscription
    <2>2. joined' = joined /\ stale' = stale
      BY <1>3 DEF End, pubHistory
    <2> QED BY <1>1, <2>1, <2>2 DEF EndedAt
  <1>4. ASSUME NEW p \in Visits, Unsubscribe(p) PROVE EndedAt(v)'
    <2>1. joined' = joined /\ stale' = stale
          /\ sub' = [sub EXCEPT ![visit[p].user].status = "unsubscribed"]
      BY <1>4 DEF Unsubscribe, pubHistory
    <2>2. ASSUME NEW u \in Subscribers PROVE sub'[u].status = "active" => Active(u)
      BY <1>1, <2>1 DEF Active, Subscription
    <2> QED BY <1>1, <2>1, <2>2 DEF EndedAt, Active
  <1>5. ASSUME NEW p \in Visits, Subscribe(p) PROVE EndedAt(v)'
    <2>1. /\ VisitKnows(p) /\ visit[p].user \in Subscribers /\ visit[p].tenant \in Tenants
          /\ visit[p].looked = pub.version => VisibleTo(visit[p].tenant)
      BY <1>5 DEF PublicationsInv, VisitKnows, Subscribe, VisitAt
    <2>2. /\ sub' = [sub EXCEPT ![visit[p].user] =
                       [status |-> "active", tenant |-> visit[p].tenant]]
          /\ joined' = [joined EXCEPT ![visit[p].user] = visit[p].looked]
          /\ stale' = IF visit[p].looked = pub.version THEN stale \ {visit[p].user}
                                                       ELSE stale \cup {visit[p].user}
      BY <1>5 DEF Subscribe
    <2>3. visit[p].looked = pub.version => pub.version > v
      BY <1>1, <2>1 DEF WithdrawnWereUnpublished, VisibleTo
    <2>4. ASSUME NEW u \in Subscribers, Active(u)'
          PROVE  joined'[u] > v \/ u \in stale'
      <3>1. CASE u = visit[p].user
        BY <1>1, <2>1, <2>2, <2>3, <3>1
      <3>2. CASE u # visit[p].user
        BY <1>1, <2>1, <2>2, <2>4, <3>2 DEF EndedAt, Active
      <3> QED BY <3>1, <3>2
    <2> QED BY <1>1, <2>4 DEF EndedAt
  <1> QED BY <1>2, <1>3, <1>4, <1>5, VersionsChange

\* What a deletion brings about by a step of its own.
LEMMA DeletionSteps ==
  ASSUME DeletionsInv, [PublicationsNext]_pubVars, NEW o \in Tabs,
         OwnerAsks(o) \/ TabProceeds(o) \/ TabDies(o)
  PROVE  DeletionKnows(o)'
PROOF
  <1>1. /\ PublicationsInv /\ tab \in [Tabs -> Tab] /\ tab[o] \in Tab /\ TabKnows(o)
        /\ DeletionKnows(o) /\ withdrawn \subseteq withdrawn' /\ IdleTab.pc = "idle"
    BY IdleTabKnows, VersionsChange DEF DeletionsInv, PublicationsInv, PublicationsTypeOK
  <1>2. pub.version \in Nat /\ tab[o].expected \in Nat
    BY <1>1, PublicationsAssumption
       DEF PublicationsInv, PublicationsTypeOK, Publication, Tab, Versions
  <1>3. ASSUME tab'[o].pc \notin {"end", "delete"} PROVE DeletionKnows(o)'
    BY <1>3 DEF DeletionKnows, TabAt
  <1>4. CASE OwnerAsks(o)
    BY <1>1, <1>3, <1>4 DEF OwnerAsks, AskPublish, AskUpdate, AskUnpublish, AskDelete, Asks
  <1>5. CASE TabDies(o) \/ Create(o) \/ WriteRefused(o) \/ Delete(o)
    BY <1>1, <1>3, <1>5 DEF TabDies, Create, WriteRefused, Delete, CloseTab
  <1>6. CASE Confirm(o)
    <2>1. CloseTab(o) \/ TabGoes(o, "write")
      BY <1>6 DEF Confirm
    <2>2. tab'[o].pc \in {"idle", "write"}
      BY <1>1, <2>1 DEF CloseTab, TabGoes, Tab
    <2> QED BY <1>3, <2>2
  <1>7. CASE Lookup(o)
    <2>1. UNCHANGED <<pub, withdrawn, sub, joined, stale>>
      BY <1>7 DEF Lookup, pubRows, pubHistory
    <2>2. CASE tab[o].op = "delete" /\ Exists
      <3>1. tab' = [tab EXCEPT ![o].pc = UnpublishesFirst, ![o].expected = pub.version]
        BY <1>7, <2>2 DEF Lookup
      <3>2. tab'[o].pc = UnpublishesFirst /\ tab'[o].expected = pub.version
        BY <1>1, <3>1 DEF Tab
      <3>3. CASE Published
        BY <1>3, <3>2, <3>3 DEF UnpublishesFirst
      <3>4. CASE ~Published
        <4>1. pub.version \in withdrawn /\ tab'[o].pc = "end"
          BY <3>2, <3>4 DEF DeletionsInv, WithdrawnWereUnpublished, UnpublishesFirst
        <4> QED BY <1>2, <2>1, <3>2, <4>1 DEF DeletionKnows, TabAt
      <3> QED BY <3>3, <3>4
    <2>3. CASE tab[o].op = "delete" /\ ~Exists
      <3>1. tab'[o].pc = "delete" /\ tab'[o].expected = tab[o].expected
        BY <1>1, <1>7, <2>3 DEF Lookup, TabGoes, Tab
      <3>2. tab[o].expected = 0
        BY <1>1, <1>2, <2>3 DEF TabKnows, Exists
      <3>3. EndedAt(0)' /\ 0 \in withdrawn'
        BY EndedStays DEF DeletionsInv, EndedAt
      <3>4. \E v \in withdrawn' : v >= tab'[o].expected /\ EndedAt(v)'
        BY <3>1, <3>2, <3>3
      <3> QED BY <3>1, <3>4 DEF DeletionKnows, TabAt
    <2>4. CASE tab[o].op # "delete"
      <3>1. tab'[o].op # "delete" /\ tab'[o].pc # "delete"
        BY <1>1, <1>7, <2>4 DEF Lookup, TabGoes, CloseTab, IdleTab, Tab
      <3> QED BY <3>1 DEF DeletionKnows, TabAt
    <2> QED BY <2>2, <2>3, <2>4
  <1>8. CASE Write(o)
    <2>1. CASE tab[o].op = "delete"
      <3>1. /\ tab'[o].pc = "end" /\ tab'[o].expected = pub.version
            /\ pub.version + 1 \in withdrawn'
        BY <1>1, <1>8, <2>1 DEF Write, TabGoes, Current, Tab
      <3>2. pub.version + 1 >= pub.version
        BY <1>2
      <3> QED BY <3>1, <3>2 DEF DeletionKnows, TabAt
    <2>2. CASE tab[o].op # "delete"
      <3>1. tab'[o].op # "delete" /\ tab'[o].pc # "delete"
        BY <1>1, <1>8, <2>2 DEF Write, TabGoes, CloseTab, IdleTab, Tab
      <3> QED BY <3>1 DEF DeletionKnows, TabAt
    <2> QED BY <2>1, <2>2
  <1>9. CASE Select(o)
    <2>1. tab'[o].op # "delete" /\ tab'[o].pc # "delete"
      BY <1>1, <1>9 DEF Select, TabAt, TabKnows, Tab
    <2> QED BY <2>1 DEF DeletionKnows, TabAt
  <1>10. CASE End(o)
    <2>1. CASE tab[o].op = "delete"
      <3>1. tab'[o].pc = "delete" /\ tab'[o].expected = tab[o].expected
        BY <1>1, <1>10, <2>1 DEF End, TabGoes, Tab
      <3>2. \A u \in Subscribers : ~Active(u)'
        <4> SUFFICES ASSUME NEW u \in Subscribers PROVE sub'[u].status # "active"
          BY DEF Active
        <4>1. sub[u] \in Subscription
          BY <1>1 DEF PublicationsInv, PublicationsTypeOK
        <4> QED BY <1>10, <2>1, <4>1 DEF End, Active, Subscription
      <3>3. PICK v \in withdrawn : v >= tab[o].expected
        BY <1>1, <1>10, <2>1 DEF DeletionKnows, End, TabAt
      <3>4. v \in withdrawn' /\ EndedAt(v)'
        BY <1>1, <3>2 DEF EndedAt
      <3> QED BY <3>1, <3>3, <3>4 DEF DeletionKnows, TabAt
    <2>2. CASE tab[o].op # "delete"
      BY <1>1, <1>3, <1>10, <2>2 DEF End, CloseTab
    <2> QED BY <2>1, <2>2
  <1> QED BY <1>4, <1>5, <1>6, <1>7, <1>8, <1>9, <1>10 DEF TabProceeds

LEMMA InitiallyNoDeletion == PublicationsInit => DeletionsInv
PROOF
  <1> SUFFICES ASSUME PublicationsInit PROVE DeletionsInv
    OBVIOUS
  <1>1. /\ withdrawn = {0} /\ pub.version = 0 /\ ~Published /\ 0 <= 0
        /\ \A u \in Subscribers : ~Active(u)
    BY DEF PublicationsInit, Unpublished, Published, Active, NotSubscribed
  <1>2. \A o \in Tabs : DeletionKnows(o)
    BY IdleTabKnows DEF PublicationsInit, DeletionKnows, TabAt
  <1> QED BY <1>1, <1>2, InitiallyUnpublished
          DEF DeletionsInv, WithdrawnWereUnpublished, EndedAt

LEMMA DeletionsStep == DeletionsInv /\ [PublicationsNext]_pubVars => DeletionsInv'
PROOF
  <1> SUFFICES ASSUME DeletionsInv, [PublicationsNext]_pubVars PROVE DeletionsInv'
    OBVIOUS
  <1>1. PublicationsInv' /\ WithdrawnWereUnpublished' /\ EndedAt(0)'
    BY PublicationsStep, WithdrawnStep, EndedStays DEF DeletionsInv
  <1>2. ASSUME NEW o \in Tabs PROVE DeletionKnows(o)'
    <2>1. CASE tab'[o] # tab[o]
      BY <2>1, TabsChange, DeletionSteps DEF DeletionsInv
    <2>2. CASE tab'[o] = tab[o]
      <3>1. withdrawn \subseteq withdrawn' /\ \A v \in withdrawn : EndedAt(v) => EndedAt(v)'
        BY VersionsChange, EndedStays DEF DeletionsInv
      <3>2. DeletionKnows(o)
        BY DEF DeletionsInv
      <3> QED BY <2>2, <3>1, <3>2 DEF DeletionKnows, TabAt
    <2> QED BY <2>1, <2>2
  <1> QED BY <1>1, <1>2 DEF DeletionsInv

\* The step formula of DeletionFollowsUnpublishing.
LEMMA DeletionFollows ==
  ASSUME DeletionsInv, [PublicationsNext]_pubVars, kb, ~kb'
  PROVE  \E o \in Tabs :
           /\ TabAt(o, "delete") /\ TabAt(o, "idle")'
           /\ \E v \in withdrawn : v >= tab[o].expected /\ EndedAt(v)
PROOF
  <1>1. PICK o \in Tabs : Delete(o)
    BY OwnerChanges
  <1>2. TabAt(o, "delete") /\ DeletionKnows(o) /\ tab \in [Tabs -> Tab]
    BY <1>1 DEF DeletionsInv, PublicationsInv, PublicationsTypeOK, Delete
  <1>3. TabAt(o, "idle")'
    BY <1>1, <1>2, IdleTabKnows DEF Delete, CloseTab, TabAt
  <1> QED BY <1>2, <1>3 DEF DeletionKnows

\* The inductive invariant holds, for any tabs, subscribers and workspaces.
THEOREM PublicationsInvariant == PublicationsSpec => []PublicationsInv
PROOF
  BY InitiallyUnpublished, PublicationsStep, PTL DEF PublicationsSpec

\* The rows and the requests keep their types.
THEOREM PublicationsTypeCorrect == PublicationsSpec => []PublicationsTypeOK
PROOF
  <1>1. PublicationsInv => PublicationsTypeOK
    BY DEF PublicationsInv
  <1> QED BY <1>1, PublicationsInvariant, PTL

\* For any number of tabs and subscribers: a subscription that the publication
\* no longer lets in has ended or is about to, unless a request was interrupted
\* or the subscriber looked before the change (Update, Unpublish and Subscribe).
THEOREM SubscriptionsEnd == PublicationsSpec => []SubscriptionsEndWithTheirAudience
PROOF
  <1>1. PublicationsInv => SubscriptionsEndWithTheirAudience
    BY DEF PublicationsInv, SubscriptionsAreEnded, SubscriptionsEndWithTheirAudience,
           Ends, Ending, TabAt
  <1> QED BY <1>1, PublicationsInvariant, PTL

\* For any number of tabs: no change of the publication is lost under another.
THEOREM PublicationEditsBuild == PublicationsSpec => EditsBuildOnWhatTheySaw
PROOF
  BY PublicationsInvariant, EditBuilds, PTL DEF PublicationsSpec, EditsBuildOnWhatTheySaw

\* A deletion past its check has withdrawn the publication and ended the
\* subscriptions since it read it, for any tabs, subscribers and workspaces.
THEOREM DeletionsInvariant == PublicationsSpec => []DeletionsInv
PROOF
  BY InitiallyNoDeletion, DeletionsStep, PTL DEF PublicationsSpec

\* For any number of tabs and subscribers: a base is deleted only when, since the
\* deletion read its publication, that has been unpublished and then all its
\* subscriptions have ended (UnpublishForDeletion); whoever is subscribed came
\* later, or by a request that was overtaken by a change.
THEOREM DeletionsFollow == PublicationsSpec => DeletionFollowsUnpublishing
PROOF
  <1>1. DeletionsInv /\ [PublicationsNext]_pubVars =>
          [kb /\ ~kb' => \E o \in Tabs :
             /\ TabAt(o, "delete") /\ TabAt(o, "idle")'
             /\ \E v \in withdrawn : v >= tab[o].expected /\ EndedAt(v)]_pubVars
    BY DeletionFollows
  <1> QED BY <1>1, DeletionsInvariant, PTL
          DEF PublicationsSpec, DeletionFollowsUnpublishing
------------------------------------------------------------------------------
\* The behaviours of the run.

\* Whichever component a behaviour is about, it is a behaviour of each of them:
\* what is proved of the components holds in the run.
THEOREM ComponentsBehave == MCSpec => PublicationsSpec /\ GrantsSpec /\ Spec
PROOF
  <1>1. MCInit => PublicationsInit /\ GrantsInit /\ Init
    BY DEF MCInit
  <1>2. [MCNext]_allVars =>
          [PublicationsNext]_pubVars /\ [GrantsNext]_grantVars /\ [Next]_vars
    BY DEF MCNext, allVars
  <1> QED BY <1>1, <1>2, PTL DEF MCSpec, PublicationsSpec, GrantsSpec, Spec

\* What each component keeps is of its type, whichever a behaviour is about.
THEOREM AllTypesCorrect == MCSpec => []AllTypesOK
PROOF
  BY ComponentsBehave, PublicationsTypeCorrect, GrantsTypeCorrect, AccessTypeCorrect, PTL
     DEF AllTypesOK
=============================================================================
