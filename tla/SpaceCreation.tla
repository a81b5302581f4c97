--------------------------- MODULE SpaceCreation ---------------------------
(***************************************************************************)
(* Creation of a knowledge space (space/service.go, request_repository.go, *)
(* the POST /knowledge-spaces handler): all requests with one              *)
(* Idempotency-Key of one owner.  The first claims a row of                *)
(* knowledge_space_requests with the id the knowledge base is to have;     *)
(* every request then looks for that id upstream, creates it when it is    *)
(* not there, stores the product profile and completes the row.  The       *)
(* upstream is called outside any transaction, so requests interleave at   *)
(* each call, may die, and may lose answers to POSTs that are processed    *)
(* later; the owner may rename or delete what was created, and the managed *)
(* vision model may come and go.                                           *)
(***************************************************************************)
EXTENDS Naturals

CONSTANTS
  Attempts,    \* slots for concurrent creation requests
  Ids,         \* ids newUUID may draw
  Nothing      \* no row, knowledge base, profile or id

VARIABLES
  row,         \* the row of the key in knowledge_space_requests
  req,         \* req[a]: where request a is, with its locals
  wire,        \* wire[a]: what became of the creation POST of a
  kb,          \* upstream: kb[i], the knowledge base with id i
  prof,        \* prof[i]: the row of kb_profiles of i
  vision,      \* the managed vision model is available
  posted,      \* history: ids the upstream was asked to create
  answered,    \* history: what successful answers were about
  announced    \* history: answers that said "created"

vars == <<row, req, wire, kb, prof, vision, posted, answered, announced>>

\* What the client may ask for: notes, a document base or an FAQ base.
Kinds == {"notes", "document", "faq"}
Specs == [kind : Kinds, vision : BOOLEAN]
Points == {"idle", "find", "create", "await", "refind", "profile", "complete", "fail"}

Profiles == [spec : Specs, policy : {"owner_only", "upstream"}]
Bases == [kind : Kinds, vision : BOOLEAN, renamed : BOOLEAN]
Rows == [spec : Specs, id : Ids, status : {"pending", "ready", "failed"}]
Posts == [status : {"sent", "done", "refused"}, id : Ids, base : Bases]
Request == [pc : Points, spec : Specs \cup {Nothing}, id : Ids \cup {Nothing},
             inserted : BOOLEAN, created : BOOLEAN]

ASSUME NothingAssumption == Nothing \notin Ids \cup Specs \cup Profiles \cup Bases \cup Rows \cup Posts

TypeOK ==
  /\ row \in Rows \cup {Nothing}
  /\ req \in [Attempts -> Request]
  /\ wire \in [Attempts -> Posts \cup {Nothing}]
  /\ kb \in [Ids -> Bases \cup {Nothing}]
  /\ prof \in [Ids -> Profiles \cup {Nothing}]
  /\ vision \in BOOLEAN
  /\ posted \subseteq Ids /\ answered \subseteq Specs /\ announced \in Nat

Idle == [pc |-> "idle", spec |-> Nothing, id |-> Nothing,
         inserted |-> FALSE, created |-> FALSE]

Init ==
  /\ row = Nothing
  /\ req = [a \in Attempts |-> Idle]
  /\ wire = [a \in Attempts |-> Nothing]
  /\ kb = [i \in Ids |-> Nothing]
  /\ prof = [i \in Ids |-> Nothing]
  /\ vision \in BOOLEAN
  /\ posted = {} /\ answered = {} /\ announced = 0
---------------------------------------------------------------------------
upstream == <<wire, kb, posted>>
outside == <<vision>>
history == <<answered, announced>>

At(a, pc) == req[a].pc = pc
Go(a, pc) == req' = [req EXCEPT ![a].pc = pc]
Leave(a) == req' = [req EXCEPT ![a] = Idle]

\* The handler adds the managed models to what the client asked for.
WithManagedModels(kind) == [kind |-> kind, vision |-> vision]

\* FAQ bases take no vision model, whatever the handler added.
Normalized(input) == [input EXCEPT !.vision = @ /\ input.kind # "faq"]

Requested(kind) == Normalized(WithManagedModels(kind))

\* The approved preset of a request: notes are for their owner alone.
Preset(spec) ==
  [spec |-> spec, policy |-> IF spec.kind = "notes" THEN "owner_only" ELSE "upstream"]

\* What is asked of the upstream: of the two modes only RAG turns vision on,
\* and only for bases of type document.
UpstreamRequest(spec) ==
  [kind |-> spec.kind, vision |-> spec.vision /\ spec.kind = "document",
   renamed |-> FALSE]

\* The knowledge base type of a kind: notes are kept in a document base.
TypeOfKind(kind) == IF kind = "faq" THEN "faq" ELSE "document"

\* The base must carry the requested name and type and, when the request has
\* a vision model for the type document, that model.  Notes are of that type
\* too, so a request for notes that came with the managed vision model is
\* compared with a base that was created without one.
Owned(base, spec) ==
  /\ TypeOfKind(base.kind) = TypeOfKind(spec.kind) /\ ~base.renamed
  /\ TypeOfKind(spec.kind) = "document" /\ spec.vision => base.vision

Checked(a, base) == IF Owned(base, req[a].spec) THEN "profile" ELSE "fail"

\* Insert the row unless the key is taken, and go on as `spec` with `id`.
Claimed(a, spec, i, id) ==
  /\ row' = IF row = Nothing THEN [spec |-> spec, id |-> i, status |-> "pending"]
                             ELSE row
  /\ req' = [req EXCEPT ![a] =
       [pc |-> "find", spec |-> spec, id |-> id,
        inserted |-> row = Nothing, created |-> FALSE]]
  /\ UNCHANGED <<upstream, prof, outside, history>>

\* The id of the stored row, which is the drawn one only for the first request.
Stored(i) == IF row = Nothing THEN i ELSE row.id

SameHash(spec) == row # Nothing => row.spec = spec

\* A slip: a retry goes on with the id it drew itself.
ClaimOwnId(a, kind, i) ==
  /\ At(a, "idle") /\ wire[a] = Nothing
  /\ SameHash(Requested(kind))
  /\ Claimed(a, Requested(kind), i, i)

\* A slip: the stored hash is not compared with the request's.
ClaimAnyHash(a, kind, i) ==
  /\ At(a, "idle") /\ wire[a] = Nothing
  /\ Claimed(a, Requested(kind), i, Stored(i))

\* A slip: a row that failed is not taken up again.
ClaimUnlessFailed(a, kind, i) ==
  /\ At(a, "idle") /\ wire[a] = Nothing
  /\ SameHash(Requested(kind))
  /\ row # Nothing => row.status # "failed"
  /\ Claimed(a, Requested(kind), i, Stored(i))

\* One transaction: insert unless the key is taken, read the stored row, and
\* refuse a request whose hash differs from it.
Claim(a, kind, i) ==
  /\ At(a, "idle") /\ wire[a] = Nothing
  /\ SameHash(Requested(kind))
  /\ Claimed(a, Requested(kind), i, Stored(i))

\* findUpstream: the base with the row's id, or none.
Find(a) ==
  /\ At(a, "find")
  /\ Go(a, IF kb[req[a].id] = Nothing THEN "create" ELSE Checked(a, kb[req[a].id]))
  /\ UNCHANGED <<row, upstream, prof, outside, history>>

PostSpace(a) ==
  /\ At(a, "create")
  /\ Go(a, "await")
  /\ wire' = [wire EXCEPT ![a] = [status |-> "sent", id |-> req[a].id,
                                  base |-> UpstreamRequest(req[a].spec)]]
  /\ posted' = posted \cup {req[a].id}
  /\ UNCHANGED <<row, kb, prof, outside, history>>

\* An answer in time.
ReceiveSpace(a) ==
  /\ At(a, "await") /\ wire[a].status = "done"
  /\ req' = [req EXCEPT ![a].pc = Checked(a, wire[a].base), ![a].created = TRUE]
  /\ wire' = [wire EXCEPT ![a] = Nothing]
  /\ UNCHANGED <<row, kb, posted, prof, outside, history>>

ReceiveRefusal(a) ==
  /\ At(a, "await") /\ wire[a].status = "refused"
  /\ Go(a, "refind")
  /\ wire' = [wire EXCEPT ![a] = Nothing]
  /\ UNCHANGED <<row, kb, posted, prof, outside, history>>

\* No answer in time: the POST may be processed later.
LoseSpace(a) ==
  /\ At(a, "await") /\ wire[a].status # "refused"
  /\ Go(a, "refind")
  /\ wire' = [wire EXCEPT ![a] = IF @.status = "sent" THEN @ ELSE Nothing]
  /\ UNCHANGED <<row, kb, posted, prof, outside, history>>

\* After a failed POST the id is looked for once more.
Refind(a) ==
  /\ At(a, "refind")
  /\ Go(a, IF kb[req[a].id] = Nothing THEN "fail" ELSE Checked(a, kb[req[a].id]))
  /\ UNCHANGED <<row, upstream, prof, outside, history>>

\* Insert the profile; one that is there already must be the expected one.
EnsureProfile(a) ==
  /\ At(a, "profile")
  /\ prof' = [prof EXCEPT ![req[a].id] =
       IF @ = Nothing THEN Preset(req[a].spec) ELSE @]
  /\ Go(a, IF prof'[req[a].id] = Preset(req[a].spec) THEN "complete" ELSE "fail")
  /\ UNCHANGED <<row, upstream, outside, history>>

SaysCreated(a) == req[a].inserted /\ req[a].created

\* Complete, whatever the status was, and answer.
Complete(a) ==
  /\ At(a, "complete")
  /\ row' = [row EXCEPT !.status = "ready"]
  /\ answered' = answered \cup {req[a].spec}
  /\ announced' = announced + IF SaysCreated(a) THEN 1 ELSE 0
  /\ Leave(a)
  /\ UNCHANGED <<upstream, prof, outside>>

\* A slip: the error code goes where the status belongs.
RecordFailureAsStatus(a) ==
  /\ At(a, "fail")
  /\ row' = [row EXCEPT !.status = "space.reconciliation_conflict"]
  /\ Leave(a)
  /\ UNCHANGED <<upstream, prof, outside, history>>

\* recordFailure: whatever the status was, "ready" as well.
RecordFailure(a) ==
  /\ At(a, "fail")
  /\ row' = [row EXCEPT !.status = "failed"]
  /\ Leave(a)
  /\ UNCHANGED <<upstream, prof, outside, history>>

\* A call to the upstream or the database fails.
CallFails(a) ==
  /\ \/ req[a].pc \in {"find", "refind", "profile"} /\ Go(a, "fail")
     \/ req[a].pc \in {"complete", "fail"} /\ Leave(a)
  /\ UNCHANGED <<row, upstream, prof, outside, history>>

\* The process stops, or the client goes away, between two calls.
Die(a) ==
  /\ ~At(a, "idle")
  /\ Leave(a)
  /\ wire' = [wire EXCEPT ![a] = IF @ # Nothing /\ @.status = "sent" THEN @ ELSE Nothing]
  /\ UNCHANGED <<row, kb, posted, prof, outside, history>>
---------------------------------------------------------------------------
\* What is left of a POST once it was processed: the answer, if awaited.
Processed(a, status) ==
  wire' = [wire EXCEPT ![a] =
    IF At(a, "await") THEN [wire[a] EXCEPT !.status = status] ELSE Nothing]

\* The upstream creates the base, unless it knows the id or has a reason.
CreateSpace(a) ==
  /\ wire[a] # Nothing /\ wire[a].status = "sent"
  /\ kb[wire[a].id] = Nothing
  /\ kb' = [kb EXCEPT ![wire[a].id] = wire[a].base]
  /\ Processed(a, "done")
  /\ UNCHANGED <<row, req, posted, prof, outside, history>>

RefuseSpace(a) ==
  /\ wire[a] # Nothing /\ wire[a].status = "sent"
  /\ Processed(a, "refused")
  /\ UNCHANGED <<row, req, kb, posted, prof, outside, history>>

\* The owner renames or deletes the base through the workspace.
OwnerRenames(i) ==
  /\ kb[i] # Nothing
  /\ kb' = [kb EXCEPT ![i].renamed = TRUE]
  /\ UNCHANGED <<row, req, wire, posted, prof, outside, history>>

OwnerDeletes(i) ==
  /\ kb[i] # Nothing
  /\ kb' = [kb EXCEPT ![i] = Nothing]
  /\ UNCHANGED <<row, req, wire, posted, prof, outside, history>>

\* An administrator adds or removes the managed vision model.
ChangeVision ==
  /\ vision' = ~vision
  /\ UNCHANGED <<row, req, upstream, prof, history>>

Proceed(a) ==
  \/ Find(a) \/ PostSpace(a) \/ ReceiveSpace(a) \/ ReceiveRefusal(a) \/ Refind(a)
  \/ EnsureProfile(a) \/ Complete(a) \/ RecordFailure(a)

Next ==
  \/ \E a \in Attempts :
       \/ \E kind \in Kinds, i \in Ids : Claim(a, kind, i)
       \/ Proceed(a) \/ CallFails(a) \/ LoseSpace(a) \/ Die(a)
       \/ CreateSpace(a) \/ RefuseSpace(a)
  \/ \E i \in Ids : OwnerRenames(i) \/ OwnerDeletes(i)
  \/ ChangeVision

Spec == Init /\ [][Next]_vars
---------------------------------------------------------------------------
\* However often and however concurrently a client repeats a creation, the
\* upstream is never asked for a second knowledge base under the same key,
\* and never for another one than the row was claimed for.
OneSpacePerKey ==
  /\ posted # {} => row # Nothing /\ posted = {row.id}
  /\ \A i \in Ids : kb[i] # Nothing =>
       i \in posted /\ kb[i].kind = row.spec.kind

\* A successful answer is about the base the key was first used for, whose
\* profile is stored and stays so: a retry never changes the kind or the
\* vision model, also when the managed model came or went in between.
AnswersAgree ==
  answered # {} => answered = {row.spec} /\ prof[row.id] = Preset(row.spec)

\* A row is ready only when the profile that controls access is stored.
ReadyHasProfile ==
  row # Nothing /\ row.status = "ready" => prof[row.id] = Preset(row.spec)

\* At most one answer per key says that it created the space (201, not 200).
CreatedAnsweredOnce == announced <= 1

\* What clients are told stays true: all answers are about the base the key was
\* first used for, a ready one is profiled, and one answer at most is "created".
AnswersAreKept == AnswersAgree /\ ReadyHasProfile /\ CreatedAnsweredOnce

\* The row, the upstream and the answers as KeyedCreation sees them.
Claims == IF row = Nothing THEN {} ELSE {[spec |-> row.spec, id |-> row.id]}
Made == {<<i, kb[i].kind>> : i \in {j \in Ids : kb[j] # Nothing}}

Promise == INSTANCE KeyedCreation WITH
  Wishes <- Specs, claims <- Claims, asked <- posted, made <- Made, told <- answered

\* However often and however concurrently a client repeats a creation, the key
\* stands for one space: it is claimed once, only the claimed base is ever asked
\* for and made, and success is answered only after that, once as "created".
KeyStandsForOneSpace == Promise!Spec

\* Inductive: what is in progress and on its way is about the row, only the
\* request that inserted the row may say "created", and a profile that matched
\* once matches for good.
RequestsShareRow ==
  \A a \in Attempts :
    /\ ~At(a, "idle") =>
         row # Nothing /\ req[a].spec = row.spec /\ req[a].id = row.id
    /\ At(a, "complete") => prof[row.id] = Preset(row.spec)

PostsShareRow ==
  \A a \in Attempts : wire[a] # Nothing =>
    /\ row # Nothing /\ wire[a].id = row.id /\ row.id \in posted
    /\ wire[a].base.kind = row.spec.kind

OneInserter ==
  /\ \A a, b \in Attempts : req[a].inserted /\ req[b].inserted => a = b
  /\ \A a \in Attempts : req[a].inserted => row # Nothing /\ announced = 0
  /\ row = Nothing => announced = 0 /\ answered = {}

CInv ==
  /\ TypeOK /\ RequestsShareRow /\ PostsShareRow /\ OneInserter
  /\ OneSpacePerKey /\ AnswersAgree /\ ReadyHasProfile /\ CreatedAnsweredOnce
=============================================================================
