----------------------------- MODULE Ingestion -----------------------------
(***************************************************************************)
(* The documents of knowledge bases and the content revisions of the       *)
(* gateway (ingestion/service.go, server/ingestions.go, revision, and the  *)
(* revision part of access/gate.go).  The upstream holds the documents;    *)
(* the gateway counts their changes in a table of its own, with an event   *)
(* per count, in a transaction that begins when the upstream call has      *)
(* returned: a request that fails or dies between the two leaves a change  *)
(* without its count.  Subscribers are told of an update by that count.    *)
(* Which bases a proxied request changes is settled before it is forwarded *)
(* and not seen again, so that a document moved in between is changed on   *)
(* the account of the base it has left.                                    *)
(***************************************************************************)
EXTENDS Naturals, Sequences, FiniteSets

CONSTANTS
  IngestRequests,  \* slots for requests in progress
  KBs,             \* knowledge bases
  Docs,            \* ids the upstream gives to documents
  IngestUsers,     \* who may ask
  Editors,         \* who may edit, by grant or ownership; the others may read
  BaseOwners,      \* who may delete a base
  MaxChanges,      \* bound: changes of a base
  MaxLost,         \* bound: changes of a base that are never counted
  MaxExtra,        \* bound: counts per base that no change of it caused
  NoBase           \* no document, no knowledge base

ASSUME IngestionAssumption == NoBase \notin KBs /\ IsFiniteSet(IngestRequests)

VARIABLES
  bases,      \* upstream: the knowledge bases there are
  doc,        \* upstream: doc[d], the base it is in and its parse status
  revision,   \* revision[k]: content_revision, 0 without a row
  events,     \* events[k]: kb_activity_events in the order they were written
  work,       \* work[r]: where request r is, with its locals
  changes,    \* history: changes the upstream made in k
  uncounted,  \* history: those whose request ended before their count
  astray,     \* history: those whose request counts other bases only
  extra,      \* history: counts of k by requests that did not change it
  moved       \* history: documents that a proxied request has moved

account == <<changes, uncounted, astray>>
ingestVars == <<bases, doc, revision, events, work, account, extra, moved>>
ingestHistory == <<account, extra, moved>>

Proxied == {"edit", "move", "amend", "drop"}
Edits == {"upload", "delete", "retry", "cancel"} \cup Proxied
IngestOperations == Edits \cup {"get"}
Statuses == {"processing", "settled"}  \* parsed, failed or cancelled
EventTypes == {"kb.content_updated", "kb.deleted", "publication.initialized"}
NoDoc == [kb |-> NoBase, status |-> "processing"]  \* an id not given out yet
Gone == [kb |-> NoBase, status |-> "settled"]    \* a deleted document
NoWork == [pc |-> "idle", op |-> "get", kb |-> NoBase, doc |-> NoBase,
           event |-> "kb.content_updated", todo |-> {}, made |-> {}]

\* Of a request: the event and the bases it is to count, and the bases the
\* upstream changed.
Work == [pc : {"idle", "look", "change", "record"}, op : IngestOperations,
         kb : KBs \cup {NoBase}, doc : Docs \cup {NoBase},
         event : EventTypes \ {"publication.initialized"}, todo : SUBSET KBs, made : SUBSET KBs]

IngestTypeOK ==
  /\ bases \in SUBSET KBs
  /\ doc \in [Docs -> [kb : KBs \cup {NoBase}, status : Statuses]]
  /\ revision \in [KBs -> Nat]
  /\ events \in [KBs -> Seq(Nat \X EventTypes)]
  /\ work \in [IngestRequests -> Work]
  /\ changes \in [KBs -> Nat] /\ uncounted \in [KBs -> Nat]
  /\ astray \in [KBs -> Nat] /\ extra \in [KBs -> Nat]
  /\ moved \in SUBSET Docs

IngestInit ==
  /\ bases = KBs
  /\ doc = [d \in Docs |-> NoDoc]
  /\ revision = [k \in KBs |-> 0]
  /\ events = [k \in KBs |-> << >>]
  /\ work = [r \in IngestRequests |-> NoWork]
  /\ changes = [k \in KBs |-> 0]
  /\ uncounted = [k \in KBs |-> 0]
  /\ astray = [k \in KBs |-> 0]
  /\ extra = [k \in KBs |-> 0]
  /\ moved = {}
---------------------------------------------------------------------------
DocAt(r, pc) == work[r].pc = pc
DocLeaves(r) == work' = [work EXCEPT ![r] = NoWork]

\* authorize: reading is for all who see the base, edits for its editors,
\* deleting it for its owner.  There is nothing to see of a base that is not there.
IngestAuthorized(user, op, k) ==
  /\ k \in bases
  /\ op \in Edits => user \in Editors
  /\ op = "drop" => user \in BaseOwners

\* revisionEvent, and the event of the upload, delete and get of a document.
EventOf(op) == IF op = "drop" THEN "kb.deleted" ELSE "kb.content_updated"

\* A request that is ready for the upstream call, and what it is to count.
Sends(r, op, k, d, ks) ==
  /\ work' = [work EXCEPT ![r] = [NoWork EXCEPT
       !.pc = "change", !.op = op, !.kb = k, !.doc = d, !.event = EventOf(op), !.todo = ks]]
  /\ UNCHANGED <<bases, doc, revision, events, ingestHistory>>

\* POST .../ingestions: the body is the document, there is nothing to look up.
StartUpload(r, user, k) ==
  /\ DocAt(r, "idle") /\ IngestAuthorized(user, "upload", k)
  /\ Sends(r, "upload", k, NoBase, {})

\* GET, DELETE, retry and cancel name a base and a document.
StartOperation(r, user, op, k, d) ==
  /\ DocAt(r, "idle") /\ IngestAuthorized(user, op, k)
  /\ work' = [work EXCEPT ![r] =
       [NoWork EXCEPT !.pc = "look", !.op = op, !.kb = k, !.doc = d]]
  /\ UNCHANGED <<bases, doc, revision, events, ingestHistory>>

\* The proxied requests.  The gate authorises every base a request names: of a
\* document, the base that the upstream says it is in; of a move, that base
\* and the target; of entries, tags and the configuration of a base and of
\* its deletion, the base in the path.
\* These it will count, if the upstream's answer is a success.
StartEdit(r, user, d) ==
  /\ DocAt(r, "idle") /\ IngestAuthorized(user, "edit", doc[d].kb)
  /\ Sends(r, "edit", doc[d].kb, d, {doc[d].kb})

StartMove(r, user, d, k) ==
  /\ DocAt(r, "idle")
  /\ IngestAuthorized(user, "move", doc[d].kb) /\ IngestAuthorized(user, "move", k)
  /\ Sends(r, "move", k, d, {doc[d].kb, k})

StartOnBase(r, user, op, k) ==
  /\ DocAt(r, "idle") /\ IngestAuthorized(user, op, k)
  /\ Sends(r, op, k, NoBase, {k})

\* The upstream has answered: what is left is to count.
ToCount(r, event, ks, made) ==
  work' = [work EXCEPT ![r] =
    [NoWork EXCEPT !.pc = "record", !.event = event, !.todo = ks, !.made = made]]

\* GetKnowledge: the document, if it is in the base that was authorised.
Look(r) ==
  /\ DocAt(r, "look")
  /\ IF doc[work[r].doc].kb # work[r].kb THEN DocLeaves(r)
     ELSE IF work[r].op = "get" THEN ToCount(r, "kb.content_updated", {work[r].kb}, {})
     ELSE work' = [work EXCEPT ![r].pc = "change"]
  /\ UNCHANGED <<bases, doc, revision, events, ingestHistory>>
---------------------------------------------------------------------------
AddTo(count, ks) == [k \in KBs |-> IF k \in ks THEN count[k] + 1 ELSE count[k]]
BelowBound(ks) == \A k \in ks : changes[k] < MaxChanges
Below(count, bound) == \A k \in KBs : count[k] < bound

\* The changes of `ks` will not be counted.
Lose(ks) ==
  /\ ks # {} => Below(uncounted, MaxLost)
  /\ uncounted' = AddTo(uncounted, ks)

\* The upstream has changed the bases in `made`, and its answer arrives for a
\* request that counts those in `ks`; or it does not arrive, and the changes it
\* would have counted are never counted.
Answered(r, ks, made) ==
  /\ changes' = AddTo(changes, made) /\ astray' = AddTo(astray, made \ ks)
  /\ \/ /\ ToCount(r, work[r].event, ks, made)
        /\ UNCHANGED uncounted
     \/ DocLeaves(r) /\ Lose(made \cap ks)
  /\ UNCHANGED <<revision, events, extra>>

UploadKnowledge(r, d) ==
  LET k == work[r].kb IN
  /\ DocAt(r, "change") /\ work[r].op = "upload"
  /\ doc[d] = NoDoc /\ k \in bases /\ BelowBound({k})
  /\ doc' = [doc EXCEPT ![d] = [kb |-> k, status |-> "processing"]]
  /\ Answered(r, {k}, {k})
  /\ UNCHANGED <<bases, moved>>

\* The upstream checks that the document is in the base.
DeleteKnowledge(r) ==
  LET k == work[r].kb IN
  /\ DocAt(r, "change") /\ work[r].op = "delete"
  /\ doc[work[r].doc].kb = k /\ BelowBound({k})
  /\ doc' = [doc EXCEPT ![work[r].doc] = Gone]
  /\ Answered(r, {k}, {k})
  /\ UNCHANGED <<bases, moved>>

\* ReparseKnowledge and CancelKnowledge change how a document is processed and
\* count nothing; the gateway looks at the base again only in the answer.
MutateKnowledge(r) ==
  /\ DocAt(r, "change") /\ work[r].op \in {"retry", "cancel"}
  /\ doc[work[r].doc].kb # NoBase
  /\ doc' = [doc EXCEPT ![work[r].doc].status =
       IF work[r].op = "retry" THEN "processing" ELSE "settled"]
  /\ DocLeaves(r)
  /\ UNCHANGED <<bases, revision, events, ingestHistory>>

\* The upstream edits the document wherever it is by now: its text or chunks,
\* its processing, or away with it.  An edit may also leave it as it is.
ForwardEdit(r) ==
  LET d == work[r].doc  now == doc[d].kb IN
  /\ DocAt(r, "change") /\ work[r].op = "edit" /\ now # NoBase
  /\ \E made \in SUBSET {now}, after \in {doc[d], [doc[d] EXCEPT !.status = "processing"], Gone} :
       /\ made = {} => after = doc[d]
       /\ BelowBound(made)
       /\ doc' = [doc EXCEPT ![d] = after]
       /\ Answered(r, work[r].todo, made)
  /\ UNCHANGED <<bases, moved>>

ForwardMove(r) ==
  LET d == work[r].doc  ks == {doc[d].kb, work[r].kb} IN
  /\ DocAt(r, "change") /\ work[r].op = "move"
  /\ ks \subseteq bases /\ BelowBound(ks)
  /\ doc' = [doc EXCEPT ![d].kb = work[r].kb]
  /\ moved' = moved \cup {d}
  /\ Answered(r, work[r].todo, ks)
  /\ UNCHANGED bases

\* Entries of a base and its configuration; what leaves the base as it is, such
\* as copying it, counts as well.
ForwardOnBase(r) ==
  /\ DocAt(r, "change") /\ work[r].op = "amend"
  /\ work[r].kb \in bases
  /\ \E made \in SUBSET {work[r].kb} : BelowBound(made) /\ Answered(r, work[r].todo, made)
  /\ UNCHANGED <<bases, doc, moved>>

\* The base is deleted with its documents.
ForwardDrop(r) ==
  LET k == work[r].kb IN
  /\ DocAt(r, "change") /\ work[r].op = "drop"
  /\ k \in bases /\ BelowBound({k})
  /\ bases' = bases \ {k}
  /\ doc' = [d \in Docs |-> IF doc[d].kb = k THEN Gone ELSE doc[d]]
  /\ Answered(r, work[r].todo, {k})
  /\ UNCHANGED moved

\* The upstream refuses, or the request ends before it is sent.
IngestRefused(r) ==
  /\ work[r].pc \in {"look", "change"}
  /\ DocLeaves(r)
  /\ UNCHANGED <<bases, doc, revision, events, ingestHistory>>

\* The upstream parses in the background, or fails to.
Parse(d) ==
  /\ doc[d].kb # NoBase /\ doc[d].status = "processing"
  /\ doc' = [doc EXCEPT ![d].status = "settled"]
  /\ UNCHANGED <<bases, revision, events, work, ingestHistory>>
---------------------------------------------------------------------------
\* Increment: one transaction counts and writes the event of the new count.
Increment(k, type) ==
  /\ revision' = [revision EXCEPT ![k] = @ + 1]
  /\ events' = [events EXCEPT ![k] = Append(@, <<revision[k] + 1, type>>)]

\* A slip: only the first of the bases is counted.
RecordOne(r, k) ==
  /\ DocAt(r, "record") /\ k \in work[r].todo
  /\ k \in work[r].made \/ Below(extra, MaxExtra)
  /\ Increment(k, work[r].event)
  /\ DocLeaves(r)
  /\ extra' = AddTo(extra, {k} \ work[r].made)
  /\ UNCHANGED <<bases, doc, account, moved>>

\* recordRevision, and the loop of FilterResponse over the bases of a proxied
\* request, a transaction for each; then the client has its answer.  `get`
\* comes here as well.
RecordRevision(r, k) ==
  /\ DocAt(r, "record") /\ k \in work[r].todo
  /\ k \in work[r].made \/ Below(extra, MaxExtra)
  /\ Increment(k, work[r].event)
  /\ IF work[r].todo = {k} THEN DocLeaves(r)
     ELSE work' = [work EXCEPT ![r].todo = @ \ {k}]
  /\ extra' = AddTo(extra, {k} \ work[r].made)
  /\ UNCHANGED <<bases, doc, account, moved>>

\* The count fails, or the process stops before it.
CountFails(r) ==
  /\ DocAt(r, "record")
  /\ DocLeaves(r)
  /\ Lose(work[r].todo \cap work[r].made)
  /\ UNCHANGED <<bases, doc, revision, events, changes, astray, extra, moved>>

\* Ensure, when the owner publishes: a row and its event if there is none.
Ensure(k) ==
  /\ IF revision[k] = 0 THEN Increment(k, "publication.initialized")
                        ELSE UNCHANGED <<revision, events>>
  /\ UNCHANGED <<bases, doc, work, ingestHistory>>

RequestStep ==
  \E r \in IngestRequests :
    \/ \E user \in IngestUsers :
         \/ \E k \in KBs : StartUpload(r, user, k)
         \/ \E op \in IngestOperations \ (Proxied \cup {"upload"}), k \in KBs, d \in Docs :
              StartOperation(r, user, op, k, d)
         \/ \E d \in Docs : StartEdit(r, user, d)
         \/ \E d \in Docs, k \in KBs : StartMove(r, user, d, k)
         \/ \E op \in {"amend", "drop"}, k \in KBs : StartOnBase(r, user, op, k)
    \/ Look(r) \/ (\E d \in Docs : UploadKnowledge(r, d)) \/ DeleteKnowledge(r)
    \/ MutateKnowledge(r) \/ ForwardEdit(r) \/ ForwardMove(r)
    \/ ForwardOnBase(r) \/ ForwardDrop(r) \/ IngestRefused(r)
    \/ (\E k \in KBs : RecordRevision(r, k)) \/ CountFails(r)

IngestNext == RequestStep \/ (\E k \in KBs : Ensure(k)) \/ (\E d \in Docs : Parse(d))

IngestSpec == IngestInit /\ [][IngestNext]_ingestVars
---------------------------------------------------------------------------
\* Requests whose change in k waits for its count.
Waiting(k) ==
  {r \in IngestRequests : DocAt(r, "record") /\ k \in work[r].todo \cap work[r].made}
Pending(k) == Cardinality(Waiting(k))

\* Publishing gave k its first revision.
Initialised(k) ==
  IF revision[k] # 0 /\ events[k][1][2] = "publication.initialized" THEN 1 ELSE 0

\* The revision of a base is what was done in it: each change of the base or its
\* documents is counted once, is about to be, belongs to a request that failed
\* or died in between, or has gone astray: its request counts only the base the
\* document was in when the gate looked.  What else was counted are requests
\* that changed nothing there: reads of single documents, edits and copies that
\* left the base as it was, and the edits that went astray from it.
AccountsBalance ==
  \A k \in KBs :
    revision[k] + uncounted[k] + Pending(k) + astray[k]
      = changes[k] + extra[k] + Initialised(k)

\* Only where a document is moved does a change go astray.
StrayedByMoves == (\E k \in KBs : astray[k] # 0) => moved # {}

\* The activity of a base has one event for each of its revisions.
OneEventPerRevision ==
  \A k \in KBs :
    /\ Len(events[k]) = revision[k]
    /\ \A v \in 1..revision[k] : events[k][v][1] = v

\* However requests interleave and wherever they end, a revision stands for the
\* changes and reads that were made, each counted once and with one event, and
\* without moves of documents none is counted for another base
\* (recordRevision, FilterResponse, revisionEvent, Increment, Ensure).
RevisionsAccountForChanges == AccountsBalance /\ OneEventPerRevision /\ StrayedByMoves
---------------------------------------------------------------------------
\* A request that has not reached its change names the base it is about, which
\* is among those it will count; the document it edits has been given out and,
\* unless it was moved, is where the gate saw it or gone.
OnBase(w, docs, away) ==
  /\ w.pc \in {"look", "change"} => w.kb \in KBs
  /\ w.pc = "look" => w.op \notin Proxied
  /\ w.pc = "change" /\ w.op \in Proxied => w.kb \in w.todo
  /\ w.pc = "change" /\ w.op \in {"edit", "move"} =>
       /\ w.doc \in Docs /\ docs[w.doc] # NoDoc
       /\ w.doc \notin away => docs[w.doc].kb \in w.todo \cup {NoBase}

WorkIsOnBase == \A r \in IngestRequests : OnBase(work[r], doc, moved)

\* The inductive invariant of the proofs.
IngestInv ==
  /\ IngestTypeOK /\ WorkIsOnBase
  /\ AccountsBalance /\ OneEventPerRevision /\ StrayedByMoves
============================================================================
