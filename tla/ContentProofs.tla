---------------------------- MODULE ContentProofs ----------------------------
(***************************************************************************)
(* Proofs about Ingestion, ManagedModels and Notes, for any number of      *)
(* requests, bases, documents, models and notes.                           *)
(***************************************************************************)
EXTENDS MCContent, SpaceCreationProofs, FiniteSetTheorems, TLAPS

\* A step of one request changes the number of requests in some state by that
\* request alone.
LEMMA OneMemberChanges ==
  ASSUME NEW S, NEW T, NEW x, IsFiniteSet(S), S \ {x} = T \ {x}
  PROVE  /\ IsFiniteSet(T) /\ Cardinality(S) \in Nat /\ Cardinality(T) \in Nat
         /\ Cardinality(T) + (IF x \in S THEN 1 ELSE 0)
              = Cardinality(S) + (IF x \in T THEN 1 ELSE 0)
PROOF
  <1> DEFINE R == S \ {x}
  <1>1. IsFiniteSet(R) /\ x \notin R
    BY FS_RemoveElement
  <1>2. IsFiniteSet(R \cup {x}) /\ Cardinality(R \cup {x}) = Cardinality(R) + 1
    BY <1>1, FS_AddElement
  <1>3. Cardinality(R) \in Nat
    BY <1>1, FS_CardinalityType
  <1>4. (x \in S => S = R \cup {x}) /\ (x \notin S => S = R)
    OBVIOUS
  <1>5. (x \in T => T = R \cup {x}) /\ (x \notin T => T = R)
    OBVIOUS
  <1> HIDE DEF R
  <1>6. /\ IsFiniteSet(T)
        /\ Cardinality(S) = IF x \in S THEN Cardinality(R) + 1 ELSE Cardinality(R)
        /\ Cardinality(T) = IF x \in T THEN Cardinality(R) + 1 ELSE Cardinality(R)
    <2>1. CASE x \in S /\ x \in T
      BY <2>1, <1>2, <1>4, <1>5
    <2>2. CASE x \in S /\ x \notin T
      BY <2>2, <1>1, <1>2, <1>4, <1>5
    <2>3. CASE x \notin S /\ x \in T
      BY <2>3, <1>2, <1>4, <1>5
    <2>4. CASE x \notin S /\ x \notin T
      BY <2>4, <1>1, <1>4, <1>5
    <2> QED BY <2>1, <2>2, <2>3, <2>4
  <1> DEFINE c == Cardinality(R)  s == Cardinality(S)  t == Cardinality(T)
  <1>7. c \in Nat /\ s = (IF x \in S THEN c + 1 ELSE c) /\ t = (IF x \in T THEN c + 1 ELSE c)
    BY <1>3, <1>6
  <1> HIDE DEF c, s, t
  <1>8. /\ s \in Nat /\ t \in Nat
        /\ t + (IF x \in S THEN 1 ELSE 0) = s + (IF x \in T THEN 1 ELSE 0)
    BY <1>7
  <1> QED BY <1>6, <1>8 DEF s, t
------------------------------------------------------------------------------
\* The documents of knowledge bases and their revisions.
DocsType == [Docs -> [kb : KBs \cup {NoBase}, status : Statuses]]

LEMMA NoWorkType ==
  NoWork \in Work /\ NoWork.pc = "idle"
PROOF
  BY DEF NoWork, Work, IngestOperations, EventTypes

LEMMA InitiallyIngesting == IngestInit => IngestInv
PROOF
  <1> SUFFICES ASSUME IngestInit PROVE IngestInv
    OBVIOUS
  <1>1. IngestTypeOK
    BY NoWorkType DEF IngestInit, IngestTypeOK, NoDoc, Statuses
  <1>2. ASSUME NEW k \in KBs PROVE Pending(k) = 0 /\ Initialised(k) = 0
    <2>1. Waiting(k) = {}
      BY NoWorkType DEF IngestInit, Waiting, DocAt
    <2> QED BY <2>1, FS_EmptySet DEF Pending, Initialised, IngestInit
  <1>3. AccountsBalance
    BY <1>2 DEF AccountsBalance, IngestInit
  <1>4. OneEventPerRevision /\ StrayedByMoves
    BY DEF OneEventPerRevision, StrayedByMoves, IngestInit
  <1>5. WorkIsOnBase
    BY NoWorkType DEF WorkIsOnBase, OnBase, IngestInit
  <1> QED BY <1>1, <1>3, <1>4, <1>5 DEF IngestInv

\* What a step of one request does to the number that waits for a count.
LEMMA PendingChanges ==
  ASSUME NEW r \in IngestRequests, NEW k \in KBs,
         \A o \in IngestRequests \ {r} : work'[o] = work[o]
  PROVE  /\ Pending(k) \in Nat /\ Pending(k)' \in Nat
         /\ Pending(k)' + (IF r \in Waiting(k) THEN 1 ELSE 0)
              = Pending(k) + (IF r \in Waiting(k)' THEN 1 ELSE 0)
PROOF
  <1>1. Waiting(k) \ {r} = Waiting(k)' \ {r}
    BY DEF Waiting, DocAt
  <1>2. IsFiniteSet(Waiting(k))
    BY IngestionAssumption, FS_Subset DEF Waiting
  <1> QED BY <1>1, <1>2, OneMemberChanges DEF Pending

\* The documents stay where they are, but for those that are deleted, new or
\* moved.
DocsStay ==
  /\ bases' \in SUBSET KBs /\ doc' \in DocsType
  /\ moved' \in SUBSET Docs /\ moved \subseteq moved'
  /\ \A d \in Docs : doc[d] # NoDoc =>
       /\ doc'[d] # NoDoc
       /\ d \in moved' \/ doc'[d].kb \in {doc[d].kb, NoBase}

\* A step of one request that keeps what the others' documents are.
LEMMA WorkStep ==
  ASSUME IngestInv, DocsStay, NEW r \in IngestRequests, NEW w \in Work,
         work' = [work EXCEPT ![r] = w], OnBase(w, doc', moved')
  PROVE  /\ work' \in [IngestRequests -> Work] /\ work'[r] = w
         /\ \A o \in IngestRequests \ {r} : work'[o] = work[o]
         /\ WorkIsOnBase'
PROOF
  <1>1. /\ work' \in [IngestRequests -> Work] /\ work'[r] = w
        /\ \A o \in IngestRequests \ {r} : work'[o] = work[o]
    BY DEF IngestInv, IngestTypeOK
  <1>2. ASSUME NEW o \in IngestRequests \ {r} PROVE OnBase(work'[o], doc', moved')
    <2>1. work'[o] = work[o] /\ OnBase(work[o], doc, moved)
      BY <1>1 DEF IngestInv, WorkIsOnBase
    <2>2. OnBase(work[o], doc', moved')
      BY <2>1 DEF OnBase, DocsStay
    <2> QED BY <2>1, <2>2
  <1> QED BY <1>1, <1>2 DEF WorkIsOnBase

\* A request that leaves is on no base.
LEMMA LeavingIsOnBase ==
  ASSUME NEW docs, NEW away
  PROVE  OnBase(NoWork, docs, away)
PROOF
  BY NoWorkType DEF OnBase

\* A step of a request that changes and counts nothing, and comes to wait for no
\* count of a change.
LEMMA QuietStep ==
  ASSUME IngestInv, DocsStay, NEW r \in IngestRequests, NEW w \in Work,
         work' = [work EXCEPT ![r] = w], OnBase(w, doc', moved'),
         work[r].pc # "record", w.pc = "record" => w.made = {},
         UNCHANGED <<revision, events, account, extra>>
  PROVE  IngestInv'
PROOF
  <1>1. /\ work' \in [IngestRequests -> Work] /\ work'[r] = w
        /\ \A o \in IngestRequests \ {r} : work'[o] = work[o]
        /\ WorkIsOnBase'
    BY WorkStep
  <1>2. UNCHANGED <<changes, uncounted, astray, revision, events, extra>>
    BY DEF account
  <1>3. IngestTypeOK'
    BY <1>1, <1>2 DEF IngestInv, IngestTypeOK, DocsStay, DocsType
  <1>4. ASSUME NEW k \in KBs PROVE Pending(k)' = Pending(k)
    <2>1. r \notin Waiting(k)' /\ r \notin Waiting(k)
      BY <1>1 DEF Waiting, DocAt
    <2> QED BY <1>1, <2>1, PendingChanges
  <1>5. AccountsBalance'
    BY <1>2, <1>4 DEF IngestInv, AccountsBalance, Initialised
  <1>6. OneEventPerRevision' /\ StrayedByMoves'
    BY <1>2 DEF IngestInv, OneEventPerRevision, StrayedByMoves, DocsStay
  <1> QED BY <1>1, <1>3, <1>5, <1>6 DEF IngestInv

LEMMA NothingMoves ==
  ASSUME IngestInv, UNCHANGED <<bases, doc, moved>>
  PROVE  DocsStay
PROOF
  BY DEF IngestInv, IngestTypeOK, DocsStay, DocsType

\* A request starts; if it is ready for its change, it names what it counts.
LEMMA SendsKeeps ==
  ASSUME IngestInv, NEW r \in IngestRequests, NEW op \in IngestOperations, NEW k \in KBs,
         NEW d \in Docs \cup {NoBase}, NEW ks \in SUBSET KBs, work[r].pc = "idle",
         op \in Proxied => k \in ks,
         op \in {"edit", "move"} => d \in Docs /\ doc[d] # NoDoc /\ doc[d].kb \in ks,
         Sends(r, op, k, d, ks)
  PROVE  IngestInv'
PROOF
  <1> DEFINE w == [NoWork EXCEPT !.pc = "change", !.op = op, !.kb = k, !.doc = d,
                                 !.event = EventOf(op), !.todo = ks]
  <1>1. EventOf(op) \in EventTypes \ {"publication.initialized"}
    BY DEF EventOf, EventTypes
  <1>2. /\ w \in Work /\ w.pc = "change" /\ w.op = op /\ w.kb = k /\ w.doc = d /\ w.todo = ks
    BY <1>1 DEF NoWork, Work
  <1>3. /\ work' = [work EXCEPT ![r] = w]
        /\ UNCHANGED <<bases, doc, moved, revision, events, account, extra>>
    BY DEF Sends, ingestHistory
  <1> HIDE DEF w
  <1>4. OnBase(w, doc', moved')
    BY <1>2, <1>3 DEF OnBase
  <1> QED BY <1>2, <1>3, <1>4, NothingMoves, QuietStep

LEMMA StartingIsQuiet ==
  ASSUME IngestInv, NEW r \in IngestRequests, NEW user \in IngestUsers,
         \/ \E k \in KBs : StartUpload(r, user, k)
         \/ \E op \in IngestOperations \ (Proxied \cup {"upload"}), k \in KBs, d \in Docs :
              StartOperation(r, user, op, k, d)
         \/ \E d \in Docs : StartEdit(r, user, d)
         \/ \E d \in Docs, k \in KBs : StartMove(r, user, d, k)
         \/ \E op \in {"amend", "drop"}, k \in KBs : StartOnBase(r, user, op, k)
  PROVE  IngestInv'
PROOF
  <1>1. /\ {"upload", "edit", "move", "amend", "drop"} \subseteq IngestOperations
        /\ "upload" \notin Proxied
    BY DEF IngestOperations, Edits, Proxied
  <1>2. bases \subseteq KBs /\ NoBase \notin KBs /\ doc \in DocsType
    BY IngestionAssumption DEF IngestInv, IngestTypeOK, DocsType
  <1>3. \A d \in Docs : doc[d].kb \in bases => doc[d] # NoDoc
    BY <1>2 DEF NoDoc
  <1>4. CASE \E k \in KBs : StartUpload(r, user, k)
    <2> PICK k \in KBs : StartUpload(r, user, k)
      BY <1>4
    <2> QED BY <1>1, SendsKeeps DEF StartUpload, DocAt
  <1>5. CASE \E op \in IngestOperations \ (Proxied \cup {"upload"}), k \in KBs, d \in Docs :
               StartOperation(r, user, op, k, d)
    <2> PICK op \in IngestOperations \ (Proxied \cup {"upload"}), k \in KBs, d \in Docs :
           StartOperation(r, user, op, k, d)
      BY <1>5
    <2> DEFINE w == [NoWork EXCEPT !.pc = "look", !.op = op, !.kb = k, !.doc = d]
    <2>1. w \in Work /\ w.pc = "look" /\ w.kb = k /\ w.op = op
      BY DEF NoWork, Work, EventTypes
    <2>2. /\ work' = [work EXCEPT ![r] = w] /\ work[r].pc = "idle"
          /\ UNCHANGED <<bases, doc, moved, revision, events, account, extra>>
      BY DEF StartOperation, DocAt, ingestHistory
    <2> HIDE DEF w
    <2>3. OnBase(w, doc', moved')
      BY <2>1 DEF OnBase
    <2> QED BY <2>1, <2>2, <2>3, NothingMoves, QuietStep
  <1>6. CASE \E d \in Docs : StartEdit(r, user, d)
    <2> PICK d \in Docs : StartEdit(r, user, d)
      BY <1>6
    <2>1. doc[d].kb \in KBs /\ doc[d] # NoDoc
      BY <1>2, <1>3 DEF StartEdit, IngestAuthorized
    <2> QED BY <1>1, <2>1, SendsKeeps DEF StartEdit, DocAt
  <1>7. CASE \E d \in Docs, k \in KBs : StartMove(r, user, d, k)
    <2> PICK d \in Docs, k \in KBs : StartMove(r, user, d, k)
      BY <1>7
    <2>1. doc[d].kb \in KBs /\ doc[d] # NoDoc
      BY <1>2, <1>3 DEF StartMove, IngestAuthorized
    <2> DEFINE ks == {doc[d].kb, k}
    <2>2. ks \in SUBSET KBs /\ doc[d].kb \in ks /\ k \in ks /\ Sends(r, "move", k, d, ks)
      BY <2>1 DEF StartMove
    <2> HIDE DEF ks
    <2> QED BY <1>1, <2>1, <2>2, SendsKeeps DEF StartMove, DocAt
  <1>8. CASE \E op \in {"amend", "drop"}, k \in KBs : StartOnBase(r, user, op, k)
    <2> PICK op \in {"amend", "drop"}, k \in KBs : StartOnBase(r, user, op, k)
      BY <1>8
    <2> QED BY <1>1, SendsKeeps DEF StartOnBase, DocAt
  <1> QED BY <1>4, <1>5, <1>6, <1>7, <1>8

LEMMA LookKeeps ==
  ASSUME IngestInv, NEW r \in IngestRequests, Look(r)
  PROVE  IngestInv'
PROOF
  <1>1. /\ UNCHANGED <<bases, doc, moved, revision, events, account, extra>>
        /\ work[r] \in Work /\ work[r].pc = "look" /\ work[r].kb \in KBs
    BY DEF IngestInv, IngestTypeOK, WorkIsOnBase, OnBase, Look, DocAt, ingestHistory
  <1>2. CASE doc[work[r].doc].kb # work[r].kb
    <2>1. work' = [work EXCEPT ![r] = NoWork]
      BY <1>2 DEF Look, DocLeaves
    <2> QED BY <1>1, <2>1, NoWorkType, LeavingIsOnBase, NothingMoves, QuietStep
  <1>3. CASE doc[work[r].doc].kb = work[r].kb /\ work[r].op = "get"
    <2> DEFINE w == [NoWork EXCEPT !.pc = "record", !.event = "kb.content_updated",
                                   !.todo = {work[r].kb}, !.made = {}]
    <2>1. w \in Work /\ w.pc = "record" /\ w.made = {}
      BY <1>1 DEF NoWork, Work, IngestOperations, EventTypes
    <2>2. work' = [work EXCEPT ![r] = w]
      BY <1>3 DEF Look, ToCount
    <2> HIDE DEF w
    <2>3. OnBase(w, doc', moved')
      BY <2>1 DEF OnBase
    <2> QED BY <1>1, <2>1, <2>2, <2>3, NothingMoves, QuietStep
  <1>4. CASE doc[work[r].doc].kb = work[r].kb /\ work[r].op # "get"
    <2> DEFINE w == [work[r] EXCEPT !.pc = "change"]
    <2>1. /\ w \in Work /\ w.pc = "change" /\ w.kb = work[r].kb /\ w.op = work[r].op
      BY <1>1 DEF Work
    <2>2. work' = [work EXCEPT ![r] = w]
      BY <1>4 DEF Look
    <2>3. work[r].op \notin Proxied
      BY <1>1 DEF IngestInv, WorkIsOnBase, OnBase
    <2> HIDE DEF w
    <2>4. OnBase(w, doc', moved')
      BY <1>1, <2>1, <2>3 DEF OnBase, Proxied
    <2> QED BY <1>1, <2>1, <2>2, <2>4, NothingMoves, QuietStep
  <1> QED BY <1>2, <1>3, <1>4

LEMMA MutateKeeps ==
  ASSUME IngestInv, NEW r \in IngestRequests, MutateKnowledge(r)
  PROVE  IngestInv'
PROOF
  <1>1. work[r].pc = "change" /\ work' = [work EXCEPT ![r] = NoWork]
    BY DEF MutateKnowledge, DocAt, DocLeaves
  <1> DEFINE status == IF work[r].op = "retry" THEN "processing" ELSE "settled"
  <1>2. doc' = [doc EXCEPT ![work[r].doc].status = status] /\ status \in Statuses
    BY DEF MutateKnowledge, Statuses
  <1> HIDE DEF status
  <1>3. UNCHANGED <<bases, moved, revision, events, account, extra>>
    BY DEF MutateKnowledge, ingestHistory
  <1>4. doc[work[r].doc].kb # NoBase
    BY DEF MutateKnowledge
  <1>5. DocsStay
    BY <1>2, <1>3, <1>4 DEF IngestInv, IngestTypeOK, DocsStay, DocsType, NoDoc
  <1> QED BY <1>1, <1>3, <1>5, NoWorkType, LeavingIsOnBase, QuietStep

LEMMA RefusedKeeps ==
  ASSUME IngestInv, NEW r \in IngestRequests, IngestRefused(r)
  PROVE  IngestInv'
PROOF
  <1>1. /\ work[r].pc # "record" /\ work' = [work EXCEPT ![r] = NoWork]
        /\ UNCHANGED <<bases, doc, moved, revision, events, account, extra>>
    BY DEF IngestRefused, DocLeaves, ingestHistory
  <1> QED BY <1>1, NoWorkType, LeavingIsOnBase, NothingMoves, QuietStep

LEMMA ParseKeeps ==
  ASSUME IngestInv, NEW d \in Docs, Parse(d)
  PROVE  IngestInv'
PROOF
  <1>1. /\ doc' = [doc EXCEPT ![d].status = "settled"] /\ doc[d].kb # NoBase
        /\ UNCHANGED <<bases, moved, revision, events, work, account, extra>>
    BY DEF Parse, ingestHistory
  <1>2. DocsStay
    BY <1>1 DEF IngestInv, IngestTypeOK, DocsStay, DocsType, Statuses, NoDoc
  <1>3. UNCHANGED <<changes, uncounted, astray>>
    BY <1>1 DEF account
  <1>4. \A k \in KBs : UNCHANGED <<Pending(k), Initialised(k)>>
    BY <1>1 DEF Pending, Waiting, DocAt, Initialised
  <1>5. AccountsBalance'
    BY <1>1, <1>3, <1>4 DEF IngestInv, AccountsBalance
  <1>6. WorkIsOnBase'
    <2> SUFFICES ASSUME NEW r \in IngestRequests PROVE OnBase(work[r], doc', moved')
      BY <1>1 DEF WorkIsOnBase
    <2> QED BY <1>2 DEF IngestInv, WorkIsOnBase, OnBase, DocsStay
  <1>7. IngestTypeOK' /\ OneEventPerRevision' /\ StrayedByMoves'
    BY <1>1, <1>2, <1>3 DEF IngestInv, IngestTypeOK, OneEventPerRevision, StrayedByMoves,
                            DocsStay, DocsType
  <1> QED BY <1>5, <1>6, <1>7 DEF IngestInv

\* Adding one in the bases of ks.
LEMMA AddToType ==
  ASSUME NEW count \in [KBs -> Nat], NEW ks \in SUBSET KBs
  PROVE  /\ AddTo(count, ks) \in [KBs -> Nat]
         /\ \A k \in KBs : AddTo(count, ks)[k] = count[k] + (IF k \in ks THEN 1 ELSE 0)
PROOF
  BY DEF AddTo

\* The upstream changed the bases in made; the request is to count those in ks,
\* or has ended.
LEMMA ChangeStep ==
  ASSUME IngestInv, DocsStay, NEW r \in IngestRequests,
         NEW ks \in SUBSET KBs, NEW made \in SUBSET KBs,
         work[r].pc = "change", Answered(r, ks, made),
         made \subseteq ks \/ moved' # {}
  PROVE  IngestInv'
PROOF
  <1>1. /\ changes \in [KBs -> Nat] /\ uncounted \in [KBs -> Nat]
        /\ astray \in [KBs -> Nat] /\ extra \in [KBs -> Nat] /\ revision \in [KBs -> Nat]
        /\ work[r] \in Work
    BY DEF IngestInv, IngestTypeOK
  <1>2. /\ changes' = AddTo(changes, made) /\ astray' = AddTo(astray, made \ ks)
        /\ UNCHANGED <<revision, events, extra>>
    BY DEF Answered
  <1>3. /\ changes' \in [KBs -> Nat] /\ astray' \in [KBs -> Nat]
        /\ \A k \in KBs :
             /\ changes'[k] = changes[k] + (IF k \in made THEN 1 ELSE 0)
             /\ astray'[k] = astray[k] + (IF k \in made \ ks THEN 1 ELSE 0)
    BY <1>1, <1>2, AddToType
  <1>4. \A k \in KBs : Initialised(k)' = Initialised(k) /\ Initialised(k) \in Nat
    BY <1>2 DEF Initialised
  <1>5. StrayedByMoves' /\ OneEventPerRevision'
    <2>1. ASSUME made \subseteq ks PROVE StrayedByMoves'
      <3>1. \A k \in KBs : astray'[k] = astray[k]
        BY <1>1, <1>3, <2>1
      <3> QED BY <3>1 DEF IngestInv, StrayedByMoves, DocsStay
    <2> QED BY <1>2, <2>1 DEF IngestInv, OneEventPerRevision, StrayedByMoves
  <1>6. PICK w \in Work :
          /\ work' = [work EXCEPT ![r] = w] /\ OnBase(w, doc', moved')
          /\ \/ w.pc = "record" /\ w.todo = ks /\ w.made = made /\ UNCHANGED uncounted
             \/ w.pc # "record" /\ uncounted' = AddTo(uncounted, made \cap ks)
    <2>1. CASE ToCount(r, work[r].event, ks, made) /\ UNCHANGED uncounted
      <3> DEFINE w == [NoWork EXCEPT !.pc = "record", !.event = work[r].event,
                                     !.todo = ks, !.made = made]
      <3>1. /\ w \in Work /\ w.pc = "record" /\ w.todo = ks /\ w.made = made
        BY <1>1 DEF NoWork, Work, IngestOperations
      <3>2. work' = [work EXCEPT ![r] = w]
        BY <2>1 DEF ToCount
      <3> HIDE DEF w
      <3>3. OnBase(w, doc', moved')
        BY <3>1 DEF OnBase
      <3> QED BY <2>1, <3>1, <3>2, <3>3
    <2>2. CASE DocLeaves(r) /\ Lose(made \cap ks)
      BY <2>2, NoWorkType, LeavingIsOnBase DEF DocLeaves, Lose
    <2> QED BY <2>1, <2>2 DEF Answered
  <1>7. /\ uncounted' \in [KBs -> Nat]
        /\ \A k \in KBs : uncounted'[k] =
             uncounted[k] + (IF w.pc # "record" /\ k \in made \cap ks THEN 1 ELSE 0)
    <2>1. CASE w.pc = "record"
      BY <1>1, <1>6, <2>1
    <2>2. CASE w.pc # "record"
      BY <1>1, <1>6, <2>2, AddToType
    <2> QED BY <2>1, <2>2
  <1>8. /\ work' \in [IngestRequests -> Work] /\ work'[r] = w
        /\ \A o \in IngestRequests \ {r} : work'[o] = work[o]
        /\ WorkIsOnBase'
    BY <1>6, WorkStep
  <1>9. IngestTypeOK'
    BY <1>2, <1>3, <1>7, <1>8 DEF IngestInv, IngestTypeOK, DocsStay, DocsType
  <1>10. ASSUME NEW k \in KBs
         PROVE  revision'[k] + uncounted'[k] + Pending(k)' + astray'[k]
                  = changes'[k] + extra'[k] + Initialised(k)'
    <2>1. r \notin Waiting(k) /\ (r \in Waiting(k)' <=> w.pc = "record" /\ k \in made \cap ks)
      BY <1>6, <1>8 DEF Waiting, DocAt
    <2>2. /\ Pending(k) \in Nat /\ Pending(k)' \in Nat
          /\ Pending(k)' = Pending(k) + (IF w.pc = "record" /\ k \in made \cap ks THEN 1 ELSE 0)
      BY <1>8, <2>1, PendingChanges
    <2>3. revision[k] + uncounted[k] + Pending(k) + astray[k]
            = changes[k] + extra[k] + Initialised(k)
      BY DEF IngestInv, AccountsBalance
    <2>4. /\ revision[k] \in Nat /\ uncounted[k] \in Nat /\ astray[k] \in Nat
          /\ changes[k] \in Nat /\ extra[k] \in Nat
          /\ revision'[k] = revision[k] /\ extra'[k] = extra[k]
      BY <1>1, <1>2
    <2> QED BY <1>3, <1>4, <1>7, <2>2, <2>3, <2>4
  <1> QED BY <1>5, <1>8, <1>9, <1>10 DEF IngestInv, AccountsBalance

LEMMA IngestionsKeep ==
  ASSUME IngestInv, NEW r \in IngestRequests,
         (\E d \in Docs : UploadKnowledge(r, d)) \/ DeleteKnowledge(r)
  PROVE  IngestInv'
PROOF
  <1>1. ASSUME work[r].pc = "change" PROVE work[r].kb \in KBs
    BY <1>1 DEF IngestInv, WorkIsOnBase, OnBase
  <1>2. doc \in DocsType /\ NoBase \notin KBs
    BY IngestionAssumption DEF IngestInv, IngestTypeOK, DocsType
  <1> DEFINE k == work[r].kb
  <1>3. CASE \E d \in Docs : UploadKnowledge(r, d)
    <2> PICK d \in Docs : UploadKnowledge(r, d)
      BY <1>3
    <2>1. /\ work[r].pc = "change" /\ doc[d] = NoDoc
          /\ doc' = [doc EXCEPT ![d] = [kb |-> k, status |-> "processing"]]
          /\ Answered(r, {k}, {k}) /\ UNCHANGED <<bases, moved>>
      BY DEF UploadKnowledge, DocAt
    <2>2. k \in KBs
      BY <1>1, <2>1
    <2> HIDE DEF k
    <2>3. DocsStay
      BY <1>2, <2>1, <2>2 DEF IngestInv, IngestTypeOK, DocsStay, DocsType, Statuses
    <2> QED BY <2>1, <2>2, <2>3, ChangeStep
  <1>4. CASE DeleteKnowledge(r)
    <2>1. /\ work[r].pc = "change"
          /\ doc' = [doc EXCEPT ![work[r].doc] = Gone]
          /\ Answered(r, {k}, {k}) /\ UNCHANGED <<bases, moved>>
      BY <1>4 DEF DeleteKnowledge, DocAt
    <2>2. k \in KBs
      BY <1>1, <2>1
    <2> HIDE DEF k
    <2>3. DocsStay
      BY <1>2, <2>1 DEF IngestInv, IngestTypeOK, DocsStay, DocsType, Statuses, Gone, NoDoc
    <2> QED BY <2>1, <2>2, <2>3, ChangeStep
  <1> QED BY <1>3, <1>4

LEMMA ForwardsKeep ==
  ASSUME IngestInv, NEW r \in IngestRequests,
         ForwardEdit(r) \/ ForwardMove(r) \/ ForwardOnBase(r) \/ ForwardDrop(r)
  PROVE  IngestInv'
PROOF
  <1>1. /\ work[r].pc = "change" /\ work[r].op \in Proxied /\ work[r] \in Work
        /\ OnBase(work[r], doc, moved)
    BY DEF IngestInv, IngestTypeOK, WorkIsOnBase, ForwardEdit, ForwardMove, ForwardOnBase,
           ForwardDrop, DocAt, Proxied
  <1>2. /\ bases \in SUBSET KBs /\ doc \in DocsType /\ moved \in SUBSET Docs
        /\ NoBase \notin KBs
    BY IngestionAssumption DEF IngestInv, IngestTypeOK, DocsType
  <1> DEFINE k == work[r].kb  ks == work[r].todo  d == work[r].doc
  <1>3. k \in KBs /\ ks \in SUBSET KBs /\ k \in ks
    BY <1>1 DEF OnBase, Work
  <1>4. work[r].op \in {"edit", "move"} =>
          /\ d \in Docs /\ doc[d] # NoDoc
          /\ d \notin moved => doc[d].kb \in ks \cup {NoBase}
    BY <1>1 DEF OnBase
  <1>5. CASE ForwardEdit(r)
    <2>1. PICK made \in SUBSET {doc[d].kb},
               after \in {doc[d], [doc[d] EXCEPT !.status = "processing"], Gone} :
            /\ doc' = [doc EXCEPT ![d] = after] /\ Answered(r, ks, made)
      BY <1>5 DEF ForwardEdit
    <2>2. /\ doc[d].kb # NoBase /\ work[r].op = "edit" /\ UNCHANGED <<bases, moved>>
      BY <1>5 DEF ForwardEdit
    <2>3. d \in Docs /\ doc[d].kb \in KBs /\ made \in SUBSET KBs
      BY <1>2, <1>4, <2>2 DEF DocsType
    <2>4. made \subseteq ks \/ moved' # {}
      BY <1>4, <2>2
    <2>5. /\ after \in [kb : KBs \cup {NoBase}, status : Statuses] /\ after # NoDoc
          /\ after.kb \in {doc[d].kb, NoBase}
      BY <1>2, <2>2, <2>3 DEF DocsType, Statuses, Gone, NoDoc
    <2> HIDE DEF d, ks
    <2>6. DocsStay
      BY <1>2, <2>1, <2>2, <2>5 DEF DocsStay, DocsType
    <2> QED BY <1>1, <1>3, <2>1, <2>3, <2>4, <2>6, ChangeStep
  <1>6. CASE ForwardMove(r)
    <2> DEFINE both == {doc[d].kb, k}
    <2>1. /\ both \subseteq bases /\ doc' = [doc EXCEPT ![d].kb = k]
          /\ moved' = moved \cup {d} /\ Answered(r, ks, both) /\ UNCHANGED bases
          /\ work[r].op = "move"
      BY <1>6 DEF ForwardMove
    <2>2. d \in Docs /\ both \in SUBSET KBs
      BY <1>2, <1>4, <2>1
    <2> HIDE DEF d, ks, k, both
    <2>3. DocsStay
      BY <1>2, <1>3, <2>1, <2>2 DEF DocsStay, DocsType, NoDoc
    <2>4. moved' # {}
      BY <2>1
    <2> QED BY <1>1, <1>3, <2>1, <2>2, <2>3, <2>4, ChangeStep
  <1>7. CASE ForwardOnBase(r)
    <2>1. PICK made \in SUBSET {k} : Answered(r, ks, made)
      BY <1>7 DEF ForwardOnBase
    <2>2. UNCHANGED <<bases, doc, moved>>
      BY <1>7 DEF ForwardOnBase
    <2>3. made \in SUBSET KBs /\ made \subseteq ks
      BY <1>3
    <2> HIDE DEF ks
    <2> QED BY <1>1, <1>3, <2>1, <2>2, <2>3, NothingMoves, ChangeStep
  <1>8. CASE ForwardDrop(r)
    <2>1. /\ bases' = bases \ {k} /\ UNCHANGED moved /\ Answered(r, ks, {k})
          /\ doc' = [c \in Docs |-> IF doc[c].kb = k THEN Gone ELSE doc[c]]
      BY <1>8 DEF ForwardDrop
    <2>2. DocsStay
      <3>1. Gone \in [kb : KBs \cup {NoBase}, status : Statuses] /\ Gone # NoDoc /\ Gone.kb = NoBase
        BY DEF Gone, NoDoc, Statuses
      <3> HIDE DEF k
      <3> QED BY <1>2, <2>1, <3>1 DEF DocsStay, DocsType
    <2>3. {k} \in SUBSET KBs /\ {k} \subseteq ks
      BY <1>3
    <2> HIDE DEF ks, k
    <2> QED BY <1>1, <1>3, <2>1, <2>2, <2>3, ChangeStep
  <1> QED BY <1>5, <1>6, <1>7, <1>8

\* Increment moves one revision on and writes its event.
LEMMA IncrementCounts ==
  ASSUME IngestInv, NEW k \in KBs, NEW type \in EventTypes, Increment(k, type)
  PROVE  /\ revision' \in [KBs -> Nat] /\ events' \in [KBs -> Seq(Nat \X EventTypes)]
         /\ OneEventPerRevision'
         /\ \A j \in KBs :
              /\ revision'[j] = IF j = k THEN revision[j] + 1 ELSE revision[j]
              /\ Initialised(j) \in Nat
              /\ Initialised(j)' =
                   IF j = k /\ revision[k] = 0 /\ type = "publication.initialized"
                     THEN 1 ELSE Initialised(j)
PROOF
  <1>1. /\ revision \in [KBs -> Nat] /\ events \in [KBs -> Seq(Nat \X EventTypes)]
        /\ revision[k] \in Nat /\ events[k] \in Seq(Nat \X EventTypes)
        /\ Len(events[k]) = revision[k]
    BY DEF IngestInv, IngestTypeOK, OneEventPerRevision
  <1> DEFINE e == <<revision[k] + 1, type>>
  <1>2. e \in Nat \X EventTypes
    BY <1>1
  <1>3. /\ revision' = [revision EXCEPT ![k] = revision[k] + 1]
        /\ events' = [events EXCEPT ![k] = Append(events[k], e)]
    BY DEF Increment
  <1> DEFINE es == Append(events[k], e)
  <1>4. /\ es \in Seq(Nat \X EventTypes) /\ Len(es) = revision[k] + 1
        /\ es[revision[k] + 1] = e
        /\ \A v \in 1..revision[k] : es[v] = events[k][v]
    <2> HIDE DEF e
    <2> QED BY <1>1, <1>2
  <1>5. e[1] = revision[k] + 1 /\ e[2] = type
    OBVIOUS
  <1> HIDE DEF e, es
  <1>6. /\ revision' \in [KBs -> Nat] /\ events' \in [KBs -> Seq(Nat \X EventTypes)]
        /\ revision'[k] = revision[k] + 1 /\ events'[k] = es
        /\ \A j \in KBs \ {k} : revision'[j] = revision[j] /\ events'[j] = events[j]
    BY <1>1, <1>3, <1>4 DEF es
  <1>7. OneEventPerRevision'
    <2> SUFFICES ASSUME NEW j \in KBs
                 PROVE  /\ Len(events'[j]) = revision'[j]
                        /\ \A v \in 1..revision'[j] : events'[j][v][1] = v
      BY DEF OneEventPerRevision
    <2>1. CASE j = k
      <3> SUFFICES ASSUME NEW v \in 1..(revision[k] + 1) PROVE es[v][1] = v
        BY <1>1, <1>4, <1>6, <2>1
      <3>1. CASE v = revision[k] + 1
        BY <1>4, <1>5, <3>1
      <3>2. CASE v # revision[k] + 1
        <4>1. v \in 1..revision[k]
          BY <1>1, <3>2
        <4> QED BY <1>4, <4>1 DEF IngestInv, OneEventPerRevision
      <3> QED BY <3>1, <3>2
    <2>2. CASE j # k
      BY <1>6, <2>2 DEF IngestInv, OneEventPerRevision
    <2> QED BY <2>1, <2>2
  <1>8. ASSUME NEW j \in KBs
        PROVE  /\ Initialised(j) \in Nat
               /\ Initialised(j)' =
                    IF j = k /\ revision[k] = 0 /\ type = "publication.initialized"
                      THEN 1 ELSE Initialised(j)
    <2>1. CASE j = k /\ revision[k] = 0
      <3>1. es[1] = e
        BY <1>4, <2>1
      <3> QED BY <1>5, <1>6, <2>1, <3>1 DEF Initialised
    <2>2. CASE j = k /\ revision[k] # 0
      <3>1. es[1] = events[k][1]
        BY <1>1, <1>4, <2>2
      <3> QED BY <1>1, <1>6, <2>2, <3>1 DEF Initialised
    <2>3. CASE j # k
      BY <1>6, <2>3 DEF Initialised
    <2> QED BY <2>1, <2>2, <2>3
  <1> QED BY <1>6, <1>7, <1>8

LEMMA RecordRevisionKeeps ==
  ASSUME IngestInv, NEW r \in IngestRequests, NEW k \in KBs, RecordRevision(r, k)
  PROVE  IngestInv'
PROOF
  <1>1. /\ changes \in [KBs -> Nat] /\ uncounted \in [KBs -> Nat]
        /\ astray \in [KBs -> Nat] /\ extra \in [KBs -> Nat] /\ revision \in [KBs -> Nat]
        /\ work[r] \in Work /\ work[r].event \in EventTypes
    BY DEF IngestInv, IngestTypeOK, Work
  <1>2. /\ work[r].pc = "record" /\ k \in work[r].todo
        /\ UNCHANGED <<bases, doc, moved, changes, uncounted, astray>>
    BY DEF RecordRevision, DocAt, account
  <1> DEFINE made == work[r].made  todo == work[r].todo
  <1>3. made \in SUBSET KBs /\ todo \in SUBSET KBs
    BY <1>1 DEF Work
  <1>4. PICK w \in Work :
          /\ work' = [work EXCEPT ![r] = w] /\ OnBase(w, doc', moved')
          /\ \/ w.pc = "record" /\ w.todo = todo \ {k} /\ w.made = made
             \/ w.pc # "record" /\ todo = {k}
    <2>1. CASE todo = {k}
      BY <2>1, NoWorkType, LeavingIsOnBase DEF RecordRevision, DocLeaves
    <2>2. CASE todo # {k}
      <3> DEFINE w == [work[r] EXCEPT !.todo = todo \ {k}]
      <3>1. /\ w \in Work /\ w.pc = "record" /\ w.todo = todo \ {k} /\ w.made = made
        BY <1>1, <1>2, <1>3 DEF Work
      <3>2. work' = [work EXCEPT ![r] = w]
        BY <2>2 DEF RecordRevision
      <3> HIDE DEF w
      <3>3. OnBase(w, doc', moved')
        BY <3>1 DEF OnBase
      <3> QED BY <3>1, <3>2, <3>3
    <2> QED BY <2>1, <2>2
  <1>5. /\ work' \in [IngestRequests -> Work] /\ work'[r] = w
        /\ \A o \in IngestRequests \ {r} : work'[o] = work[o]
        /\ WorkIsOnBase'
    BY <1>2, <1>4, NothingMoves, WorkStep
  <1>6. /\ revision' \in [KBs -> Nat] /\ events' \in [KBs -> Seq(Nat \X EventTypes)]
        /\ OneEventPerRevision'
        /\ \A j \in KBs :
             /\ revision'[j] = IF j = k THEN revision[j] + 1 ELSE revision[j]
             /\ Initialised(j) \in Nat
    BY <1>1, IncrementCounts DEF RecordRevision
  <1>7. \A j \in KBs : Initialised(j)' = Initialised(j)
    <2>1. PICK type \in EventTypes : type # "publication.initialized" /\ Increment(k, type)
      BY DEF IngestInv, IngestTypeOK, Work, RecordRevision
    <2> QED BY <2>1, IncrementCounts
  <1>8. /\ extra' \in [KBs -> Nat]
        /\ \A j \in KBs : extra'[j] = extra[j] + (IF j \in {k} \ made THEN 1 ELSE 0)
    <2>1. extra' = AddTo(extra, {k} \ made) /\ {k} \ made \in SUBSET KBs
      BY DEF RecordRevision
    <2> HIDE DEF made
    <2> QED BY <1>1, <2>1, AddToType
  <1>9. IngestTypeOK' /\ StrayedByMoves'
    BY <1>2, <1>5, <1>6, <1>8 DEF IngestInv, IngestTypeOK, StrayedByMoves
  <1>10. ASSUME NEW j \in KBs
         PROVE  revision'[j] + uncounted'[j] + Pending(j)' + astray'[j]
                  = changes'[j] + extra'[j] + Initialised(j)'
    <2>1. revision[j] + uncounted[j] + Pending(j) + astray[j]
            = changes[j] + extra[j] + Initialised(j)
      BY DEF IngestInv, AccountsBalance
    <2>2. /\ Pending(j) \in Nat /\ Pending(j)' \in Nat
          /\ Pending(j)' + (IF r \in Waiting(j) THEN 1 ELSE 0)
               = Pending(j) + (IF r \in Waiting(j)' THEN 1 ELSE 0)
      BY <1>5, PendingChanges
    <2>3. r \in Waiting(j) <=> j \in todo \cap made
      BY <1>2 DEF Waiting, DocAt
    <2>4. r \in Waiting(j)' <=> j \in todo \cap made /\ j # k
      BY <1>4, <1>5 DEF Waiting, DocAt
    <2>5. Pending(j)' = Pending(j) - (IF j = k /\ j \in made THEN 1 ELSE 0)
      BY <1>2, <2>2, <2>3, <2>4
    <2>6. /\ revision[j] \in Nat /\ uncounted[j] \in Nat /\ changes[j] \in Nat
          /\ extra[j] \in Nat /\ astray[j] \in Nat
      BY <1>1
    <2>7. /\ revision'[j] = (IF j = k THEN revision[j] + 1 ELSE revision[j])
          /\ extra'[j] = extra[j] + (IF j = k /\ j \notin made THEN 1 ELSE 0)
          /\ Initialised(j)' = Initialised(j) /\ Initialised(j) \in Nat
          /\ uncounted'[j] = uncounted[j] /\ changes'[j] = changes[j] /\ astray'[j] = astray[j]
      BY <1>2, <1>6, <1>7, <1>8
    <2> HIDE DEF made
    <2> QED BY <2>1, <2>2, <2>5, <2>6, <2>7
  <1> QED BY <1>5, <1>6, <1>9, <1>10 DEF IngestInv, AccountsBalance

LEMMA CountFailsKeeps ==
  ASSUME IngestInv, NEW r \in IngestRequests, CountFails(r)
  PROVE  IngestInv'
PROOF
  <1>1. /\ changes \in [KBs -> Nat] /\ uncounted \in [KBs -> Nat]
        /\ astray \in [KBs -> Nat] /\ extra \in [KBs -> Nat] /\ revision \in [KBs -> Nat]
        /\ work[r] \in Work
    BY DEF IngestInv, IngestTypeOK
  <1>2. /\ work[r].pc = "record" /\ work' = [work EXCEPT ![r] = NoWork]
        /\ UNCHANGED <<bases, doc, revision, events, changes, astray, extra, moved>>
    BY DEF CountFails, DocAt, DocLeaves
  <1>3. /\ work' \in [IngestRequests -> Work] /\ work'[r] = NoWork
        /\ \A o \in IngestRequests \ {r} : work'[o] = work[o]
        /\ WorkIsOnBase'
    BY <1>2, NothingMoves, NoWorkType, LeavingIsOnBase, WorkStep
  <1> DEFINE ks == work[r].todo \cap work[r].made
  <1>4. ks \in SUBSET KBs /\ uncounted' = AddTo(uncounted, ks)
    BY <1>1 DEF Work, CountFails, Lose
  <1>5. \A k \in KBs : (r \in Waiting(k) <=> k \in ks) /\ r \notin Waiting(k)'
    BY <1>2, <1>3, NoWorkType DEF Waiting, DocAt
  <1> HIDE DEF ks
  <1>6. /\ uncounted' \in [KBs -> Nat]
        /\ \A k \in KBs : uncounted'[k] = uncounted[k] + (IF k \in ks THEN 1 ELSE 0)
    BY <1>1, <1>4, AddToType
  <1>7. IngestTypeOK' /\ OneEventPerRevision' /\ StrayedByMoves'
    BY <1>2, <1>3, <1>6 DEF IngestInv, IngestTypeOK, OneEventPerRevision, StrayedByMoves
  <1>8. ASSUME NEW k \in KBs
        PROVE  revision'[k] + uncounted'[k] + Pending(k)' + astray'[k]
                 = changes'[k] + extra'[k] + Initialised(k)'
    <2>1. revision[k] + uncounted[k] + Pending(k) + astray[k]
            = changes[k] + extra[k] + Initialised(k)
      BY DEF IngestInv, AccountsBalance
    <2>2. /\ Pending(k) \in Nat /\ Pending(k)' \in Nat
          /\ Pending(k)' + (IF k \in ks THEN 1 ELSE 0) = Pending(k)
      BY <1>3, <1>5, PendingChanges
    <2>3. Initialised(k)' = Initialised(k) /\ Initialised(k) \in Nat
      BY <1>2 DEF Initialised
    <2>4. /\ revision[k] \in Nat /\ uncounted[k] \in Nat /\ changes[k] \in Nat
          /\ extra[k] \in Nat /\ astray[k] \in Nat
      BY <1>1
    <2> QED BY <1>2, <1>6, <2>1, <2>2, <2>3, <2>4
  <1> QED BY <1>3, <1>7, <1>8 DEF IngestInv, AccountsBalance

LEMMA EnsureKeeps ==
  ASSUME IngestInv, NEW k \in KBs, Ensure(k)
  PROVE  IngestInv'
PROOF
  <1>1. /\ changes \in [KBs -> Nat] /\ uncounted \in [KBs -> Nat]
        /\ astray \in [KBs -> Nat] /\ extra \in [KBs -> Nat] /\ revision \in [KBs -> Nat]
        /\ UNCHANGED <<bases, doc, work, changes, uncounted, astray, extra, moved>>
    BY DEF IngestInv, IngestTypeOK, Ensure, ingestHistory, account
  <1>2. \A j \in KBs : Pending(j)' = Pending(j)
    BY <1>1 DEF Pending, Waiting, DocAt
  <1>3. \A j \in KBs : Pending(j) \in Nat
    <2>1. \A j \in KBs : IsFiniteSet(Waiting(j))
      BY IngestionAssumption, FS_Subset DEF Waiting
    <2> QED BY <2>1, FS_CardinalityType DEF Pending
  <1>4. WorkIsOnBase' /\ StrayedByMoves'
    BY <1>1 DEF IngestInv, WorkIsOnBase, StrayedByMoves
  <1>5. CASE revision[k] = 0
    <2>1. /\ revision' \in [KBs -> Nat] /\ events' \in [KBs -> Seq(Nat \X EventTypes)]
          /\ OneEventPerRevision'
          /\ \A j \in KBs :
               /\ revision'[j] = IF j = k THEN revision[j] + 1 ELSE revision[j]
               /\ Initialised(j) \in Nat
               /\ Initialised(j)' = IF j = k THEN 1 ELSE Initialised(j)
      BY <1>5, IncrementCounts DEF Ensure, EventTypes
    <2>2. Initialised(k) = 0
      BY <1>5 DEF Initialised
    <2>3. AccountsBalance'
      <3> SUFFICES ASSUME NEW j \in KBs
                   PROVE  revision'[j] + uncounted'[j] + Pending(j)' + astray'[j]
                            = changes'[j] + extra'[j] + Initialised(j)'
        BY DEF AccountsBalance
      <3>1. revision[j] + uncounted[j] + Pending(j) + astray[j]
              = changes[j] + extra[j] + Initialised(j)
        BY DEF IngestInv, AccountsBalance
      <3>2. /\ revision[j] \in Nat /\ uncounted[j] \in Nat /\ changes[j] \in Nat
            /\ extra[j] \in Nat /\ astray[j] \in Nat
        BY <1>1
      <3>3. /\ Pending(j) \in Nat /\ Initialised(j) \in Nat
            /\ Pending(j)' = Pending(j) /\ uncounted'[j] = uncounted[j]
            /\ astray'[j] = astray[j] /\ changes'[j] = changes[j] /\ extra'[j] = extra[j]
        BY <1>1, <1>2, <1>3, <2>1
      <3>4. CASE j = k
        <4>1. revision'[j] = revision[j] + 1 /\ Initialised(j) = 0 /\ Initialised(j)' = 1
          BY <2>1, <2>2, <3>4
        <4> QED BY <3>1, <3>2, <3>3, <4>1
      <3>5. CASE j # k
        <4>1. revision'[j] = revision[j] /\ Initialised(j)' = Initialised(j)
          BY <2>1, <3>5
        <4> QED BY <3>1, <3>2, <3>3, <4>1
      <3> QED BY <3>4, <3>5
    <2> QED BY <1>1, <1>4, <2>1, <2>3 DEF IngestInv, IngestTypeOK
  <1>6. CASE revision[k] # 0
    <2>1. UNCHANGED <<revision, events>>
      BY <1>6 DEF Ensure
    <2> QED BY <1>1, <1>2, <1>4, <2>1
         DEF IngestInv, IngestTypeOK, OneEventPerRevision, AccountsBalance, Initialised
  <1> QED BY <1>5, <1>6

LEMMA IngestStep == IngestInv /\ [IngestNext]_ingestVars => IngestInv'
PROOF
  <1> SUFFICES ASSUME IngestInv, [IngestNext]_ingestVars PROVE IngestInv'
    OBVIOUS
  <1>1. CASE RequestStep
    <2> PICK r \in IngestRequests :
           \/ \E user \in IngestUsers :
                \/ \E k \in KBs : StartUpload(r, user, k)
                \/ \E op \in IngestOperations \ (Proxied \cup {"upload"}), k \in KBs, d \in Docs :
                     StartOperation(r, user, op, k, d)
                \/ \E d \in Docs : StartEdit(r, user, d)
                \/ \E d \in Docs, k \in KBs : StartMove(r, user, d, k)
                \/ \E op \in {"amend", "drop"}, k \in KBs : StartOnBase(r, user, op, k)
           \/ Look(r) \/ (\E d \in Docs : UploadKnowledge(r, d)) \/ DeleteKnowledge(r)
           \/ MutateKnowledge(r) \/ ForwardEdit(r) \/ ForwardMove(r)
           \/ ForwardOnBase(r) \/ ForwardDrop(r) \/ IngestRefused(r)
           \/ (\E k \in KBs : RecordRevision(r, k)) \/ CountFails(r)
      BY <1>1 DEF RequestStep
    <2> QED BY StartingIsQuiet, LookKeeps, IngestionsKeep, ForwardsKeep, MutateKeeps,
               RefusedKeeps, RecordRevisionKeeps, CountFailsKeeps
  <1>2. CASE \E k \in KBs : Ensure(k)
    BY <1>2, EnsureKeeps
  <1>3. CASE \E d \in Docs : Parse(d)
    BY <1>3, ParseKeeps
  <1>4. CASE UNCHANGED ingestVars
    <2>1. \A k \in KBs : Pending(k)' = Pending(k) /\ Initialised(k)' = Initialised(k)
      BY <1>4 DEF ingestVars, Pending, Waiting, DocAt, Initialised
    <2> QED BY <1>4, <2>1 DEF ingestVars, account, IngestInv, IngestTypeOK, WorkIsOnBase,
                             OneEventPerRevision, AccountsBalance, StrayedByMoves
  <1> QED BY <1>1, <1>2, <1>3, <1>4 DEF IngestNext

\* The inductive invariant: types, what a request names and where its document
\* is, and the accounts, in every state.
THEOREM IngestInvariant == IngestSpec => []IngestInv
PROOF
  BY InitiallyIngesting, IngestStep, PTL DEF IngestSpec

\* Documents, revisions, events and requests keep their types.
THEOREM IngestTypeCorrect == IngestSpec => []IngestTypeOK
PROOF
  <1>1. IngestInv => IngestTypeOK
    BY DEF IngestInv
  <1> QED BY <1>1, IngestInvariant, PTL

\* The revision of a base counts every change of it once, or has the failed or
\* dead request that owes it, or the request of a moved document that counts
\* another base; it has one event for each of its numbers, for any number of
\* requests, bases and documents (recordRevision, FilterResponse, revisionEvent,
\* Increment, Ensure).
THEOREM RevisionsBalance == IngestSpec => []RevisionsAccountForChanges
PROOF
  <1>1. IngestInv => RevisionsAccountForChanges
    BY DEF IngestInv, RevisionsAccountForChanges
  <1> QED BY <1>1, IngestInvariant, PTL
------------------------------------------------------------------------------
\* The model overrides of one workspace.

LEMMA NoAdminType ==
  NoAdmin \in Admin /\ NoAdmin.pc = "idle" /\ NoAdmin.op = "test" /\ Knows(NoAdmin)
PROOF
  BY DEF NoAdmin, Admin, ModelPoints, ModelOperations, Answers, Knows

LEMMA OverridesFinite ==
  /\ IsFiniteSet(Overrides) /\ IsFiniteSet(Passed)
  /\ Cardinality(Overrides) \in Nat /\ Cardinality(Passed) \in Nat
  /\ Cardinality(Passed) <= Cardinality(ModelRequests)
  /\ Cardinality(ModelRequests) \in Nat
PROOF
  <1>1. Overrides \in SUBSET ModelIds /\ Passed \in SUBSET ModelRequests
    BY DEF Overrides, Passed
  <1>2. IsFiniteSet(Overrides)
    BY <1>1, ManagedModelsAssumption, FS_Subset
  <1>3. IsFiniteSet(Passed) /\ Cardinality(Passed) <= Cardinality(ModelRequests)
    BY <1>1, ManagedModelsAssumption, FS_Subset
  <1> QED BY <1>2, <1>3, ManagedModelsAssumption, FS_CardinalityType

LEMMA InitiallyNoOverrides == ModelsInit => ModelsInv
PROOF
  <1> SUFFICES ASSUME ModelsInit PROVE ModelsInv
    OBVIOUS
  <1>1. ModelsTypeOK
    BY NoAdminType DEF ModelsInit, ModelsTypeOK, UnbornModel, Model
  <1>2. RequestsKnow
    BY NoAdminType DEF ModelsInit, RequestsKnow
  <1>3. Overrides = {} /\ Passed = {}
    BY NoAdminType DEF ModelsInit, Overrides, UnbornModel, Passed
  <1>4. LiveIsBorn /\ HalfDoneIsLast /\ KeyMatchesEndpoint
    BY <1>3, NoAdminType
       DEF ModelsInit, LiveIsBorn, HalfDoneIsLast, KeyMatchesEndpoint, Overrides, ModelAt
  <1>5. OverridesPassedByRaceOnly
    <2>1. Cardinality(Overrides) = 0 /\ Cardinality(Passed) = 0
      BY <1>3, FS_EmptySet
    <2> QED BY <2>1, OverridesFinite, ManagedModelsAssumption DEF OverridesPassedByRaceOnly
  <1> QED BY <1>1, <1>2, <1>4, <1>5 DEF ModelsInv

\* A request that was counted when the quota was not used up is covered by it.
LEMMA PassingCounted ==
  ASSUME QuotaLeft, UNCHANGED models
  PROVE  OverridesPassedByRaceOnly'
PROOF
  <1>1. Overrides' = Overrides
    BY DEF Overrides
  <1>2. Passed' \in SUBSET ModelRequests
    BY DEF Passed
  <1>3. /\ Cardinality(Passed') \in Nat /\ Cardinality(Passed') <= Cardinality(ModelRequests)
        /\ Cardinality(ModelRequests) \in Nat
    BY <1>2, ManagedModelsAssumption, FS_Subset, FS_CardinalityType
  <1>4. Cardinality(Overrides) \in Nat /\ Cardinality(Overrides) < MaxOverrides
    BY OverridesFinite DEF QuotaLeft
  <1>5. Cardinality(Overrides') + Cardinality(Passed')
          <= MaxOverrides + Cardinality(ModelRequests) - 1
    BY <1>1, <1>3, <1>4, ManagedModelsAssumption
  <1> QED BY <1>5 DEF OverridesPassedByRaceOnly

\* What a step of one request does to the number that may still create.
LEMMA PassedChanges ==
  ASSUME NEW r \in ModelRequests,
         \A o \in ModelRequests \ {r} : admin'[o] = admin[o]
  PROVE  /\ Cardinality(Passed') \in Nat
         /\ Cardinality(Passed') + (IF r \in Passed THEN 1 ELSE 0)
              = Cardinality(Passed) + (IF r \in Passed' THEN 1 ELSE 0)
PROOF
  <1>1. Passed \ {r} = Passed' \ {r}
    BY DEF Passed
  <1> QED BY <1>1, OverridesFinite, OneMemberChanges

\* A step that leaves the models alone: the request moves on, and if it was
\* between its two calls its model is half written from now on.
LEMMA RequestStepKeeps ==
  ASSUME ModelsInv, NEW r \in ModelRequests, NEW w \in Admin, Knows(w),
         admin' = [admin EXCEPT ![r] = w], UNCHANGED models,
         mixed \subseteq mixed', mixed' \subseteq ModelIds,
         admin[r].pc = "credential" => admin[r].model \in mixed',
         w.pc # "credential",
         QuotaLeft \/ r \in Passed \/ ~(w.op = "create" /\ w.pc \in {"write", "late"})
  PROVE  ModelsInv'
PROOF
  <1>1. /\ admin' \in [ModelRequests -> Admin] /\ admin'[r] = w
        /\ \A o \in ModelRequests \ {r} : admin'[o] = admin[o]
    BY DEF ModelsInv, ModelsTypeOK
  <1>2. ModelsTypeOK'
    BY <1>1 DEF ModelsInv, ModelsTypeOK
  <1>3. RequestsKnow'
    BY <1>1 DEF ModelsInv, RequestsKnow, Knows
  <1>4. LiveIsBorn'
    BY <1>1 DEF ModelsInv, LiveIsBorn, ModelAt
  <1>5. HalfDoneIsLast'
    BY <1>1 DEF ModelsInv, HalfDoneIsLast, ModelAt, Overrides
  <1>6. KeyMatchesEndpoint'
    <2> SUFFICES ASSUME NEW m \in Overrides' \ mixed'
                 PROVE  \/ models'[m].credential = models'[m].endpoint
                        \/ \E o \in ModelRequests :
                             /\ ModelAt(o, "credential")' /\ admin'[o].model = m
                             /\ admin'[o].endpoint = models'[m].endpoint
      BY DEF KeyMatchesEndpoint
    <2>1. m \in Overrides \ mixed
      BY DEF Overrides
    <2>2. CASE models[m].credential = models[m].endpoint
      BY <2>2
    <2>3. CASE \E o \in ModelRequests : /\ ModelAt(o, "credential") /\ admin[o].model = m
                                        /\ admin[o].endpoint = models[m].endpoint
      <3> PICK o \in ModelRequests : /\ ModelAt(o, "credential") /\ admin[o].model = m
                                     /\ admin[o].endpoint = models[m].endpoint
        BY <2>3
      <3>1. o # r
        BY DEF ModelAt
      <3>2. admin'[o] = admin[o]
        BY <1>1, <3>1
      <3> QED BY <3>2 DEF ModelAt
    <2> QED BY <2>1, <2>2, <2>3 DEF ModelsInv, KeyMatchesEndpoint
  <1>7. OverridesPassedByRaceOnly'
    <2>1. CASE QuotaLeft
      BY <2>1, PassingCounted
    <2>2. CASE ~QuotaLeft
      <3>1. r \in Passed' => r \in Passed
        BY <1>1, <2>2 DEF Passed
      <3>2. Overrides' = Overrides
        BY DEF Overrides
      <3>3. Cardinality(Passed') \in Nat /\ Cardinality(Passed') <= Cardinality(Passed)
        BY <1>1, <3>1, PassedChanges, OverridesFinite
      <3>4. Cardinality(Overrides) + Cardinality(Passed)
              <= MaxOverrides + Cardinality(ModelRequests) - 1
        BY DEF ModelsInv, OverridesPassedByRaceOnly
      <3>5. Cardinality(Overrides) + Cardinality(Passed')
              <= MaxOverrides + Cardinality(ModelRequests) - 1
        BY <3>3, <3>4, OverridesFinite, ManagedModelsAssumption
      <3> QED BY <3>2, <3>5 DEF OverridesPassedByRaceOnly
    <2> QED BY <2>1, <2>2
  <1> QED BY <1>2, <1>3, <1>4, <1>5, <1>6, <1>7 DEF ModelsInv

LEMMA StartModelKeeps ==
  ASSUME ModelsInv, NEW r \in ModelRequests, NEW user \in ModelUsers,
         NEW op \in ModelOperations, NEW model \in ModelIds \cup {NoModel},
         NEW endpoint \in Endpoints \cup {NoModel}, NEW keyed \in BOOLEAN,
         op # "create" => model \in ModelIds,
         StartModel(r, user, op, model, endpoint, keyed)
  PROVE  ModelsInv'
PROOF
  <1> DEFINE pc == IF op = "create" THEN "list" ELSE "ensure"
             w == [NoAdmin EXCEPT !.pc = pc, !.op = op, !.model = model,
                                  !.endpoint = endpoint, !.keyed = keyed]
  <1>1. pc \in {"list", "ensure"}
    OBVIOUS
  <1>2. w \in Admin /\ w.pc = pc /\ w.op = op /\ w.model = model /\ ~w.done
    BY <1>1 DEF NoAdmin, Admin, ModelPoints, Answers
  <1>3. /\ admin' = [admin EXCEPT ![r] = w] /\ UNCHANGED <<models, mixed>>
        /\ admin[r].pc = "idle"
    BY DEF StartModel, ModelAt
  <1>4. Knows(w)
    <2> HIDE DEF w
    <2> QED BY <1>1, <1>2 DEF Knows
  <1>5. mixed \subseteq ModelIds
    BY DEF ModelsInv, ModelsTypeOK
  <1> HIDE DEF w
  <1> QED BY <1>1, <1>2, <1>3, <1>4, <1>5, RequestStepKeeps

\* An answer is given: it says what was done.
LEMMA AnswerKnows ==
  ASSUME NEW v \in Admin, NEW answer \in Answers \ {"none"},
         answer \in {"ok", "unaudited"} => v.done,
         answer \in {"quota", "not_found"} => ~v.done
  PROVE  LET w == [NoAdmin EXCEPT !.pc = "answered", !.done = v.done,
                                  !.audited = (answer = "ok"), !.answer = answer]
         IN  w \in Admin /\ Knows(w) /\ w.pc = "answered" /\ w.op = "test"
PROOF
  <1> DEFINE ok == (answer = "ok")
             w == [NoAdmin EXCEPT !.pc = "answered", !.done = v.done,
                                  !.audited = ok, !.answer = answer]
  <1>1. v.done \in BOOLEAN /\ ok \in BOOLEAN
    BY DEF Admin
  <1>2. /\ w \in Admin /\ w.pc = "answered" /\ w.op = "test"
        /\ w.done = v.done /\ w.audited = ok /\ w.answer = answer
    <2> HIDE DEF ok
    <2> QED BY <1>1 DEF Admin, NoAdmin, ModelPoints, ModelOperations
  <1>3. Knows(w)
    <2> HIDE DEF w
    <2> QED BY <1>2 DEF Knows
  <1> QED BY <1>2, <1>3

LEMMA ChecksKeep ==
  ASSUME ModelsInv, NEW r \in ModelRequests, CheckQuota(r) \/ EnsureOverride(r)
  PROVE  ModelsInv'
PROOF
  <1>1. /\ admin[r] \in Admin /\ admin \in [ModelRequests -> Admin] /\ Knows(admin[r])
        /\ admin[r].pc \in {"list", "ensure"} /\ ~admin[r].done
        /\ UNCHANGED <<models, mixed>> /\ mixed \subseteq ModelIds
    BY DEF ModelsInv, ModelsTypeOK, RequestsKnow, CheckQuota, EnsureOverride, ModelAt, Knows
  <1>2. CASE /\ admin' = [admin EXCEPT ![r].pc = "write"]
             /\ QuotaLeft \/ admin[r].pc = "ensure"
    <2> DEFINE w == [admin[r] EXCEPT !.pc = "write"]
    <2>1. /\ w \in Admin /\ w.pc = "write" /\ w.op = admin[r].op
          /\ w.model = admin[r].model /\ ~w.done
      BY <1>1 DEF Admin, ModelPoints
    <2>2. admin' = [admin EXCEPT ![r] = w]
      BY <1>1, <1>2
    <2> HIDE DEF w
    <2>3. Knows(w) /\ (QuotaLeft \/ w.op # "create")
      BY <1>1, <1>2, <2>1 DEF Knows
    <2> QED BY <1>1, <2>1, <2>2, <2>3, RequestStepKeeps
  <1>3. CASE \E answer \in {"quota", "not_found"} : Answer(r, answer)
    <2> PICK answer \in {"quota", "not_found"} : Answer(r, answer)
      BY <1>3
    <2> DEFINE w == [NoAdmin EXCEPT !.pc = "answered", !.done = admin[r].done,
                                    !.audited = (answer = "ok"), !.answer = answer]
    <2>1. w \in Admin /\ Knows(w) /\ w.pc = "answered" /\ w.op = "test"
      BY <1>1, AnswerKnows DEF Answers
    <2>2. admin' = [admin EXCEPT ![r] = w]
      BY DEF Answer
    <2> HIDE DEF w
    <2> QED BY <1>1, <2>1, <2>2, RequestStepKeeps
  <1>4. \/ /\ admin' = [admin EXCEPT ![r].pc = "write"]
           /\ QuotaLeft \/ admin[r].pc = "ensure"
        \/ \E answer \in {"quota", "not_found"} : Answer(r, answer)
    BY DEF CheckQuota, EnsureOverride, ModelAt
  <1> QED BY <1>2, <1>3, <1>4

\* A failure is answered, or the call is given up: a model between its two
\* calls is half written from now on.
LEMMA FailuresKeep ==
  ASSUME ModelsInv, NEW r \in ModelRequests, ModelRefused(r) \/ GiveUp(r)
  PROVE  ModelsInv'
PROOF
  <1>1. /\ admin[r] \in Admin /\ admin \in [ModelRequests -> Admin] /\ Knows(admin[r])
        /\ admin[r].pc \in {"write", "credential"} /\ UNCHANGED models
        /\ mixed \subseteq ModelIds
        /\ mixed' = IF admin[r].pc = "credential" THEN mixed \cup {admin[r].model} ELSE mixed
    BY DEF ModelsInv, ModelsTypeOK, RequestsKnow, ModelRefused, GiveUp, ModelAt
  <1>2. /\ mixed \subseteq mixed' /\ mixed' \subseteq ModelIds
        /\ admin[r].pc = "credential" => admin[r].model \in mixed'
    BY <1>1 DEF Knows
  <1>3. CASE ModelRefused(r)
    <2> PICK answer \in {"failed"} : Answer(r, answer)
      BY <1>3 DEF ModelRefused
    <2> DEFINE w == [NoAdmin EXCEPT !.pc = "answered", !.done = admin[r].done,
                                    !.audited = (answer = "ok"), !.answer = answer]
    <2>1. w \in Admin /\ Knows(w) /\ w.pc = "answered" /\ w.op = "test"
      BY <1>1, AnswerKnows DEF Answers
    <2>2. admin' = [admin EXCEPT ![r] = w]
      BY DEF Answer
    <2> HIDE DEF w
    <2> QED BY <1>1, <1>2, <2>1, <2>2, RequestStepKeeps
  <1>4. CASE GiveUp(r)
    <2> DEFINE w == [admin[r] EXCEPT !.pc = "late", !.answer = "failed"]
    <2>1. /\ w \in Admin /\ w.pc = "late" /\ w.op = admin[r].op
          /\ w.model = admin[r].model /\ w.done = admin[r].done
      BY <1>1 DEF Admin, ModelPoints, Answers
    <2>2. admin' = [admin EXCEPT ![r] = w]
      BY <1>1, <1>4 DEF GiveUp
    <2> HIDE DEF w
    <2>3. Knows(w)
      BY <1>1, <2>1 DEF Knows
    <2>4. w.op = "create" => r \in Passed
      BY <1>1, <2>1 DEF Knows, Passed
    <2> QED BY <1>1, <1>2, <2>1, <2>2, <2>3, <2>4, RequestStepKeeps
  <1> QED BY <1>3, <1>4 DEF ModelRefused, GiveUp

LEMMA EndingsKeep ==
  ASSUME ModelsInv, NEW r \in ModelRequests,
         RecordSuccess(r) \/ AuditFails(r) \/ LateLost(r) \/ CloseAnswer(r)
  PROVE  ModelsInv'
PROOF
  <1>1. /\ admin[r] \in Admin /\ Knows(admin[r])
        /\ admin[r].pc \in {"audit", "late", "answered"}
        /\ UNCHANGED <<models, mixed>> /\ mixed \subseteq ModelIds
    BY DEF ModelsInv, ModelsTypeOK, RequestsKnow, RecordSuccess, AuditFails, LateLost,
           CloseAnswer, ModelAt
  <1>2. CASE \E answer \in {"ok", "unaudited"} : admin[r].pc = "audit" /\ Answer(r, answer)
    <2> PICK answer \in {"ok", "unaudited"} : admin[r].pc = "audit" /\ Answer(r, answer)
      BY <1>2
    <2> DEFINE w == [NoAdmin EXCEPT !.pc = "answered", !.done = admin[r].done,
                                    !.audited = (answer = "ok"), !.answer = answer]
    <2>0. admin[r].done
      BY <1>1 DEF Knows
    <2>1. w \in Admin /\ Knows(w) /\ w.pc = "answered" /\ w.op = "test"
      BY <1>1, <2>0, AnswerKnows DEF Answers
    <2>2. admin' = [admin EXCEPT ![r] = w]
      BY DEF Answer
    <2> HIDE DEF w
    <2> QED BY <1>1, <2>1, <2>2, RequestStepKeeps
  <1>3. CASE admin' = [admin EXCEPT ![r] = NoAdmin]
    BY <1>1, <1>3, NoAdminType, RequestStepKeeps
  <1> QED BY <1>2, <1>3 DEF RecordSuccess, AuditFails, LateLost, CloseAnswer, ModelAt

\* The upstream creates the model of a request that passed the quota.
LEMMA CreatedKeeps ==
  ASSUME ModelsInv, NEW r \in ModelRequests, NEW n \in ModelIds, NEW w \in Admin,
         admin[r].op = "create", admin[r].pc \in {"write", "late"}, ~models[n].born,
         models' = [models EXCEPT ![n] = [born |-> TRUE, live |-> TRUE,
           endpoint |-> admin[r].endpoint, credential |-> admin[r].endpoint]],
         UNCHANGED mixed, admin' = [admin EXCEPT ![r] = w],
         Knows(w), w.pc # "credential", w.op = "test"
  PROVE  ModelsInv'
PROOF
  <1>1. /\ admin' \in [ModelRequests -> Admin] /\ admin'[r] = w
        /\ \A o \in ModelRequests \ {r} : admin'[o] = admin[o]
        /\ admin[r].endpoint \in Endpoints \cup {NoModel}
    BY DEF ModelsInv, ModelsTypeOK, Admin
  <1>2. /\ models' \in [ModelIds -> Model]
        /\ models'[n].born /\ models'[n].live
        /\ models'[n].credential = models'[n].endpoint
        /\ \A m \in ModelIds \ {n} : models'[m] = models[m]
    BY <1>1 DEF ModelsInv, ModelsTypeOK, Model
  <1>3. ModelsTypeOK' /\ RequestsKnow'
    BY <1>1, <1>2 DEF ModelsInv, ModelsTypeOK, RequestsKnow, Knows
  <1>4. ~models[n].live
    BY DEF ModelsInv, LiveIsBorn
  <1>5. Overrides' = Overrides \cup {n} /\ n \notin Overrides
    BY <1>2, <1>4 DEF Overrides
  <1>6. \A o \in ModelRequests : ModelAt(o, "credential")' =>
          ModelAt(o, "credential") /\ admin'[o] = admin[o] /\ admin[o].model # n
                                   /\ admin[o].model \in ModelIds
    BY <1>1 DEF ModelAt, ModelsInv, LiveIsBorn, RequestsKnow, Knows
  <1>7. LiveIsBorn' /\ HalfDoneIsLast'
    BY <1>2, <1>5, <1>6 DEF ModelsInv, LiveIsBorn, HalfDoneIsLast
  <1>8. KeyMatchesEndpoint'
    <2> SUFFICES ASSUME NEW m \in Overrides' \ mixed'
                 PROVE  \/ models'[m].credential = models'[m].endpoint
                        \/ \E o \in ModelRequests :
                             /\ ModelAt(o, "credential")' /\ admin'[o].model = m
                             /\ admin'[o].endpoint = models'[m].endpoint
      BY DEF KeyMatchesEndpoint
    <2>1. CASE m = n
      BY <1>2, <2>1
    <2>2. CASE m # n
      <3>1. m \in Overrides \ mixed /\ models'[m] = models[m]
        BY <1>2, <1>5, <2>2 DEF Overrides
      <3>2. CASE models[m].credential = models[m].endpoint
        BY <3>1, <3>2
      <3>3. CASE \E o \in ModelRequests : /\ ModelAt(o, "credential") /\ admin[o].model = m
                                          /\ admin[o].endpoint = models[m].endpoint
        <4> PICK o \in ModelRequests : /\ ModelAt(o, "credential") /\ admin[o].model = m
                                       /\ admin[o].endpoint = models[m].endpoint
          BY <3>3
        <4>1. admin'[o] = admin[o]
          BY <1>1 DEF ModelAt
        <4> QED BY <3>1, <4>1 DEF ModelAt
      <3> QED BY <3>1, <3>2, <3>3 DEF ModelsInv, KeyMatchesEndpoint
    <2> QED BY <2>1, <2>2
  <1>9. OverridesPassedByRaceOnly'
    <2>1. r \in Passed /\ r \notin Passed'
      BY <1>1 DEF Passed
    <2>2. Cardinality(Passed') \in Nat /\ Cardinality(Passed') + 1 = Cardinality(Passed)
      BY <1>1, <2>1, PassedChanges, OverridesFinite
    <2>3. Cardinality(Overrides') = Cardinality(Overrides) + 1
      BY <1>5, OverridesFinite, FS_AddElement
    <2>4. Cardinality(Overrides) + Cardinality(Passed)
            <= MaxOverrides + Cardinality(ModelRequests) - 1
      BY DEF ModelsInv, OverridesPassedByRaceOnly
    <2>5. Cardinality(Overrides') + Cardinality(Passed')
            <= MaxOverrides + Cardinality(ModelRequests) - 1
      BY <2>2, <2>3, <2>4, OverridesFinite, ManagedModelsAssumption
    <2> QED BY <2>5 DEF OverridesPassedByRaceOnly
  <1> QED BY <1>3, <1>7, <1>8, <1>9 DEF ModelsInv

\* A step on an existing model by a request that is not creating one.
LEMMA SameCount ==
  ASSUME ModelsInv, NEW r \in ModelRequests, NEW w \in Admin,
         admin' = [admin EXCEPT ![r] = w],
         w.op # "create", Overrides' \subseteq Overrides
  PROVE  OverridesPassedByRaceOnly'
PROOF
  <1>1. /\ admin'[r] = w /\ \A o \in ModelRequests \ {r} : admin'[o] = admin[o]
    BY DEF ModelsInv, ModelsTypeOK
  <1>2. r \notin Passed'
    BY <1>1 DEF Passed
  <1>3. Cardinality(Passed') \in Nat /\ Cardinality(Passed') <= Cardinality(Passed)
    BY <1>1, <1>2, PassedChanges, OverridesFinite
  <1>4. Cardinality(Overrides') \in Nat /\ Cardinality(Overrides') <= Cardinality(Overrides)
    BY OverridesFinite, FS_Subset, FS_CardinalityType
  <1>5. Cardinality(Overrides) + Cardinality(Passed)
          <= MaxOverrides + Cardinality(ModelRequests) - 1
    BY DEF ModelsInv, OverridesPassedByRaceOnly
  <1>6. Cardinality(Overrides') + Cardinality(Passed')
          <= MaxOverrides + Cardinality(ModelRequests) - 1
    BY <1>3, <1>4, <1>5, OverridesFinite, ManagedModelsAssumption
  <1> QED BY <1>6 DEF OverridesPassedByRaceOnly

\* UpdateModel: the endpoint of m is of this request now.  Unless m is half
\* written, the request goes on to give the key, and nobody else is about to.
LEMMA UpdatedKeeps ==
  ASSUME ModelsInv, NEW r \in ModelRequests, NEW m \in ModelIds, NEW w \in Admin,
         admin[r].pc \in {"write", "late"}, models[m].live,
         models' = [models EXCEPT ![m].endpoint = admin[r].endpoint],
         admin' = [admin EXCEPT ![r] = w],
         Knows(w), w.op # "create",
         mixed \subseteq mixed', mixed' \subseteq mixed \cup {m},
         w.pc = "credential" => w.model = m /\ w.endpoint = admin[r].endpoint,
         m \notin mixed' => w.pc = "credential" /\ ~OthersHalfDone(r, m)
  PROVE  ModelsInv'
PROOF
  <1>1. /\ admin' \in [ModelRequests -> Admin] /\ admin'[r] = w
        /\ \A o \in ModelRequests \ {r} : admin'[o] = admin[o]
        /\ admin[r].endpoint \in Endpoints \cup {NoModel}
    BY DEF ModelsInv, ModelsTypeOK, Admin
  <1>2. /\ models' \in [ModelIds -> Model]
        /\ \A x \in ModelIds : models'[x].born = models[x].born /\ models'[x].live = models[x].live
        /\ models'[m].endpoint = admin[r].endpoint
        /\ \A x \in ModelIds \ {m} : models'[x] = models[x]
    BY <1>1 DEF ModelsInv, ModelsTypeOK, Model
  <1>3. ModelsTypeOK' /\ RequestsKnow'
    BY <1>1, <1>2 DEF ModelsInv, ModelsTypeOK, RequestsKnow, Knows
  <1>4. Overrides' = Overrides
    BY <1>2 DEF Overrides
  <1>5. \A o \in ModelRequests \ {r} : ModelAt(o, "credential")' =>
          ModelAt(o, "credential") /\ admin'[o] = admin[o] /\ admin[o].model \in ModelIds
    BY <1>1 DEF ModelAt, ModelsInv, RequestsKnow, Knows
  <1>6. LiveIsBorn'
    BY <1>1, <1>2, <1>5 DEF ModelsInv, LiveIsBorn, ModelAt
  <1>7. HalfDoneIsLast'
    <2> SUFFICES ASSUME NEW o \in ModelRequests, ModelAt(o, "credential")',
                        admin'[o].model \in Overrides' \ mixed'
                 PROVE  models'[admin'[o].model].endpoint = admin'[o].endpoint
      BY DEF HalfDoneIsLast
    <2>1. CASE o = r
      BY <1>1, <1>2, <2>1 DEF ModelAt
    <2>2. CASE o # r
      <3>1. ModelAt(o, "credential") /\ admin'[o] = admin[o] /\ admin[o].model \in ModelIds
        BY <1>5, <2>2
      <3>2. admin[o].model # m
        BY <2>2, <3>1 DEF OthersHalfDone
      <3> QED BY <1>2, <1>4, <3>1, <3>2 DEF ModelsInv, HalfDoneIsLast
    <2> QED BY <2>1, <2>2
  <1>8. KeyMatchesEndpoint'
    <2> SUFFICES ASSUME NEW x \in Overrides' \ mixed'
                 PROVE  \/ models'[x].credential = models'[x].endpoint
                        \/ \E o \in ModelRequests :
                             /\ ModelAt(o, "credential")' /\ admin'[o].model = x
                             /\ admin'[o].endpoint = models'[x].endpoint
      BY DEF KeyMatchesEndpoint
    <2>1. CASE x = m
      <3>1. ModelAt(r, "credential")' /\ admin'[r].model = x
            /\ admin'[r].endpoint = models'[x].endpoint
        BY <1>1, <1>2, <2>1 DEF ModelAt
      <3> QED BY <3>1
    <2>2. CASE x # m
      <3>1. x \in Overrides \ mixed /\ models'[x] = models[x]
        BY <1>2, <1>4, <2>2 DEF Overrides
      <3>2. CASE models[x].credential = models[x].endpoint
        BY <3>1, <3>2
      <3>3. CASE \E o \in ModelRequests : /\ ModelAt(o, "credential") /\ admin[o].model = x
                                          /\ admin[o].endpoint = models[x].endpoint
        <4> PICK o \in ModelRequests : /\ ModelAt(o, "credential") /\ admin[o].model = x
                                       /\ admin[o].endpoint = models[x].endpoint
          BY <3>3
        <4>1. admin'[o] = admin[o]
          BY <1>1 DEF ModelAt
        <4> QED BY <3>1, <4>1 DEF ModelAt
      <3> QED BY <3>1, <3>2, <3>3 DEF ModelsInv, KeyMatchesEndpoint
    <2> QED BY <2>1, <2>2
  <1>9. OverridesPassedByRaceOnly'
    BY <1>4, SameCount
  <1> QED BY <1>3, <1>6, <1>7, <1>8, <1>9 DEF ModelsInv

LEMMA DeletedKeeps ==
  ASSUME ModelsInv, NEW r \in ModelRequests, NEW m \in ModelIds, NEW w \in Admin,
         admin[r].pc \in {"write", "late"}, models[m].live,
         models' = [models EXCEPT ![m] = [UnbornModel EXCEPT !.born = TRUE]],
         mixed' = mixed \ {m}, admin' = [admin EXCEPT ![r] = w],
         Knows(w), w.op # "create", w.pc # "credential"
  PROVE  ModelsInv'
PROOF
  <1>1. /\ admin' \in [ModelRequests -> Admin] /\ admin'[r] = w
        /\ \A o \in ModelRequests \ {r} : admin'[o] = admin[o]
    BY DEF ModelsInv, ModelsTypeOK
  <1>2. /\ models' \in [ModelIds -> Model]
        /\ models'[m].born /\ ~models'[m].live
        /\ \A x \in ModelIds \ {m} : models'[x] = models[x]
    BY DEF ModelsInv, ModelsTypeOK, Model, UnbornModel
  <1>3. ModelsTypeOK' /\ RequestsKnow'
    BY <1>1, <1>2 DEF ModelsInv, ModelsTypeOK, RequestsKnow, Knows
  <1>4. Overrides' = Overrides \ {m}
    BY <1>2 DEF Overrides
  <1>5. \A o \in ModelRequests : ModelAt(o, "credential")' =>
          ModelAt(o, "credential") /\ admin'[o] = admin[o] /\ admin[o].model \in ModelIds
    BY <1>1 DEF ModelAt, ModelsInv, RequestsKnow, Knows
  <1>6. LiveIsBorn' /\ HalfDoneIsLast'
    BY <1>2, <1>4, <1>5 DEF ModelsInv, LiveIsBorn, HalfDoneIsLast
  <1>7. KeyMatchesEndpoint'
    <2> SUFFICES ASSUME NEW x \in Overrides' \ mixed'
                 PROVE  \/ models'[x].credential = models'[x].endpoint
                        \/ \E o \in ModelRequests :
                             /\ ModelAt(o, "credential")' /\ admin'[o].model = x
                             /\ admin'[o].endpoint = models'[x].endpoint
      BY DEF KeyMatchesEndpoint
    <2>1. x \in Overrides \ mixed /\ models'[x] = models[x]
      BY <1>2, <1>4 DEF Overrides
    <2>2. CASE models[x].credential = models[x].endpoint
      BY <2>1, <2>2
    <2>3. CASE \E o \in ModelRequests : /\ ModelAt(o, "credential") /\ admin[o].model = x
                                        /\ admin[o].endpoint = models[x].endpoint
      <3> PICK o \in ModelRequests : /\ ModelAt(o, "credential") /\ admin[o].model = x
                                     /\ admin[o].endpoint = models[x].endpoint
        BY <2>3
      <3>1. admin'[o] = admin[o]
        BY <1>1 DEF ModelAt
      <3> QED BY <2>1, <3>1 DEF ModelAt
    <2> QED BY <2>1, <2>2, <2>3 DEF ModelsInv, KeyMatchesEndpoint
  <1>8. OverridesPassedByRaceOnly'
    BY <1>4, SameCount
  <1> QED BY <1>3, <1>6, <1>7, <1>8 DEF ModelsInv

\* ReplaceModelCredential: the key of m is of this request now; unless m is half
\* written, so is its endpoint.
LEMMA KeyedKeeps ==
  ASSUME ModelsInv, NEW r \in ModelRequests, NEW m \in ModelIds, NEW w \in Admin,
         models[m].live, admin[r].model = m,
         models' = [models EXCEPT ![m].credential = admin[r].endpoint],
         mixed \subseteq mixed', mixed' \subseteq mixed \cup {m},
         admin' = [admin EXCEPT ![r] = w],
         Knows(w), w.op # "create", w.pc # "credential",
         ModelAt(r, "credential") \/ m \in mixed'
  PROVE  ModelsInv'
PROOF
  <1>1. /\ admin' \in [ModelRequests -> Admin] /\ admin'[r] = w
        /\ \A o \in ModelRequests \ {r} : admin'[o] = admin[o]
        /\ admin[r].endpoint \in Endpoints \cup {NoModel}
    BY DEF ModelsInv, ModelsTypeOK, Admin
  <1>2. /\ models' \in [ModelIds -> Model]
        /\ \A x \in ModelIds : /\ models'[x].born = models[x].born
                               /\ models'[x].live = models[x].live
                               /\ models'[x].endpoint = models[x].endpoint
        /\ models'[m].credential = admin[r].endpoint
        /\ \A x \in ModelIds \ {m} : models'[x] = models[x]
    BY <1>1 DEF ModelsInv, ModelsTypeOK, Model
  <1>3. ModelsTypeOK' /\ RequestsKnow'
    BY <1>1, <1>2 DEF ModelsInv, ModelsTypeOK, RequestsKnow, Knows
  <1>4. Overrides' = Overrides
    BY <1>2 DEF Overrides
  <1>5. \A o \in ModelRequests : ModelAt(o, "credential")' =>
          ModelAt(o, "credential") /\ admin'[o] = admin[o] /\ admin[o].model \in ModelIds
    BY <1>1 DEF ModelAt, ModelsInv, RequestsKnow, Knows
  <1>6. LiveIsBorn' /\ HalfDoneIsLast'
    BY <1>2, <1>4, <1>5 DEF ModelsInv, LiveIsBorn, HalfDoneIsLast
  <1>7. KeyMatchesEndpoint'
    <2> SUFFICES ASSUME NEW x \in Overrides' \ mixed'
                 PROVE  \/ models'[x].credential = models'[x].endpoint
                        \/ \E o \in ModelRequests :
                             /\ ModelAt(o, "credential")' /\ admin'[o].model = x
                             /\ admin'[o].endpoint = models'[x].endpoint
      BY DEF KeyMatchesEndpoint
    <2>1. CASE x = m
      <3>1. ModelAt(r, "credential") /\ m \in Overrides \ mixed
        BY <1>4, <2>1
      <3>2. models[m].endpoint = admin[r].endpoint
        BY <3>1 DEF ModelsInv, HalfDoneIsLast
      <3> QED BY <1>2, <2>1, <3>2
    <2>2. CASE x # m
      <3>1. x \in Overrides \ mixed /\ models'[x] = models[x]
        BY <1>2, <1>4, <2>2 DEF Overrides
      <3>2. CASE models[x].credential = models[x].endpoint
        BY <3>1, <3>2
      <3>3. CASE \E o \in ModelRequests : /\ ModelAt(o, "credential") /\ admin[o].model = x
                                          /\ admin[o].endpoint = models[x].endpoint
        <4> PICK o \in ModelRequests : /\ ModelAt(o, "credential") /\ admin[o].model = x
                                       /\ admin[o].endpoint = models[x].endpoint
          BY <3>3
        <4>1. admin'[o] = admin[o]
          BY <1>1, <2>2
        <4> QED BY <3>1, <4>1 DEF ModelAt
      <3> QED BY <3>1, <3>2, <3>3 DEF ModelsInv, KeyMatchesEndpoint
    <2> QED BY <2>1, <2>2
  <1>8. OverridesPassedByRaceOnly'
    BY <1>4, SameCount
  <1> QED BY <1>3, <1>6, <1>7, <1>8 DEF ModelsInv

\* What becomes of a request whose write was processed.
LEMMA WriteKeeps ==
  ASSUME ModelsInv, NEW r \in ModelRequests, WriteModel(r)
  PROVE  ModelsInv'
PROOF
  <1>1. /\ admin[r] \in Admin /\ admin \in [ModelRequests -> Admin] /\ Knows(admin[r])
        /\ admin[r].pc = "write" /\ ModelProcessed(r, FALSE) /\ mixed \subseteq ModelIds
    BY DEF ModelsInv, ModelsTypeOK, RequestsKnow, WriteModel, ModelAt
  <1> DEFINE m == admin[r].model
             keyed == admin[r].op = "update" /\ admin[r].keyed
  <1>2. PICK w \in Admin :
          /\ admin' = [admin EXCEPT ![r] = w] /\ Knows(w) /\ w.op # "create"
          /\ keyed => w.pc = "credential" /\ w.model = m /\ w.endpoint = admin[r].endpoint
          /\ ~keyed => w.pc = "audit" /\ w.op = "test"
    <2>1. CASE keyed
      <3> DEFINE w == [admin[r] EXCEPT !.pc = "credential", !.done = TRUE]
      <3>1. /\ w \in Admin /\ w.pc = "credential" /\ w.op = "update"
            /\ w.model = m /\ w.endpoint = admin[r].endpoint /\ w.done
        BY <1>1, <2>1 DEF Admin, ModelPoints
      <3>2. AfterWrite(r) = "credential"
        BY <2>1 DEF AfterWrite
      <3>3. admin' = [admin EXCEPT ![r].pc = "credential", ![r].done = TRUE]
        BY <3>2 DEF WriteModel
      <3>4. admin' = [admin EXCEPT ![r] = w]
        BY <1>1, <3>3
      <3>5. m \in ModelIds
        BY <1>1, <2>1 DEF Knows
      <3> HIDE DEF w
      <3>6. Knows(w)
        BY <3>1, <3>5 DEF Knows
      <3> QED BY <2>1, <3>1, <3>4, <3>6
    <2>2. CASE ~keyed
      <3> DEFINE w == [NoAdmin EXCEPT !.pc = "audit", !.done = TRUE]
      <3>1. w \in Admin /\ w.pc = "audit" /\ w.op = "test" /\ w.done
        BY DEF NoAdmin, Admin, ModelPoints, ModelOperations, Answers
      <3>2. AfterWrite(r) = "audit"
        BY <2>2 DEF AfterWrite
      <3>3. admin' = [admin EXCEPT ![r] = w]
        BY <3>2 DEF WriteModel, ToAudit
      <3> HIDE DEF w
      <3>4. Knows(w)
        BY <3>1 DEF Knows
      <3> QED BY <2>2, <3>1, <3>3, <3>4
    <2> QED BY <2>1, <2>2
  <1>3. admin[r].op # "create" => m \in ModelIds
    BY <1>1 DEF Knows
  <1>4. CASE admin[r].op = "create"
    <2> PICK n \in ModelIds :
          /\ ~models[n].born
          /\ models' = [models EXCEPT ![n] = [born |-> TRUE, live |-> TRUE,
               endpoint |-> admin[r].endpoint, credential |-> admin[r].endpoint]]
      BY <1>1, <1>4 DEF ModelProcessed
    <2>1. UNCHANGED mixed
      BY <1>1, <1>4 DEF ModelProcessed
    <2> QED BY <1>1, <1>2, <1>4, <2>1, CreatedKeeps
  <1>5. CASE admin[r].op = "update"
    <2>1. /\ models[m].live
          /\ models' = [models EXCEPT ![m].endpoint = admin[r].endpoint]
          /\ mixed' = IF ~admin[r].keyed \/ OthersHalfDone(r, m)
                        THEN mixed \cup {m} ELSE mixed
      BY <1>1, <1>5 DEF ModelProcessed
    <2>2. /\ mixed \subseteq mixed' /\ mixed' \subseteq mixed \cup {m}
          /\ m \notin mixed' => keyed /\ ~OthersHalfDone(r, m)
      BY <1>5, <2>1
    <2> QED BY <1>1, <1>2, <1>3, <1>5, <2>1, <2>2, UpdatedKeeps
  <1>6. CASE admin[r].op = "delete"
    <2>1. /\ models[m].live /\ mixed' = mixed \ {m}
          /\ models' = [models EXCEPT ![m] = [UnbornModel EXCEPT !.born = TRUE]]
      BY <1>1, <1>6 DEF ModelProcessed
    <2> QED BY <1>1, <1>2, <1>3, <1>6, <2>1, DeletedKeeps
  <1>7. CASE admin[r].op = "test"
    <2>1. UNCHANGED <<models, mixed>>
      BY <1>1, <1>7 DEF ModelProcessed
    <2> QED BY <1>1, <1>2, <1>7, <2>1, RequestStepKeeps
  <1> QED BY <1>1, <1>4, <1>5, <1>6, <1>7 DEF ModelProcessed

LEMMA LateWriteKeeps ==
  ASSUME ModelsInv, NEW r \in ModelRequests, LateWrite(r)
  PROVE  ModelsInv'
PROOF
  <1>1. /\ admin[r] \in Admin /\ admin \in [ModelRequests -> Admin] /\ Knows(admin[r])
        /\ admin[r].pc = "late" /\ mixed \subseteq ModelIds
        /\ admin' = [admin EXCEPT ![r] = NoAdmin]
    BY DEF ModelsInv, ModelsTypeOK, RequestsKnow, LateWrite, ModelAt
  <1> DEFINE m == admin[r].model
  <1>2. admin[r].op # "create" => m \in ModelIds
    BY <1>1 DEF Knows
  <1>3. CASE admin[r].done
    <2>1. m \in ModelIds
      BY <1>1, <1>3 DEF Knows
    <2>2. /\ models[m].live /\ mixed' = mixed \cup {m}
          /\ models' = [models EXCEPT ![m].credential = admin[r].endpoint]
      BY <1>3 DEF LateWrite
    <2> QED BY <1>1, <2>1, <2>2, NoAdminType, KeyedKeeps
  <1>4. CASE ~admin[r].done /\ admin[r].op = "create"
    <2>1. /\ UNCHANGED mixed
          /\ \E n \in ModelIds :
               /\ ~models[n].born
               /\ models' = [models EXCEPT ![n] = [born |-> TRUE, live |-> TRUE,
                    endpoint |-> admin[r].endpoint, credential |-> admin[r].endpoint]]
      BY <1>4 DEF LateWrite, ModelProcessed
    <2> QED BY <1>1, <1>4, <2>1, NoAdminType, CreatedKeeps
  <1>5. CASE ~admin[r].done /\ admin[r].op = "update"
    <2>1. /\ models[m].live /\ mixed' = mixed \cup {m}
          /\ models' = [models EXCEPT ![m].endpoint = admin[r].endpoint]
      BY <1>5 DEF LateWrite, ModelProcessed
    <2> QED BY <1>1, <1>2, <1>5, <2>1, NoAdminType, UpdatedKeeps
  <1>6. CASE ~admin[r].done /\ admin[r].op = "delete"
    <2>1. /\ models[m].live /\ mixed' = mixed \ {m}
          /\ models' = [models EXCEPT ![m] = [UnbornModel EXCEPT !.born = TRUE]]
      BY <1>6 DEF LateWrite, ModelProcessed
    <2> QED BY <1>1, <1>2, <1>6, <2>1, NoAdminType, DeletedKeeps
  <1>7. CASE ~admin[r].done /\ admin[r].op = "test"
    <2>1. UNCHANGED <<models, mixed>>
      BY <1>7 DEF LateWrite, ModelProcessed
    <2> QED BY <1>1, <1>7, <2>1, NoAdminType, RequestStepKeeps
  <1> QED BY <1>1, <1>3, <1>4, <1>5, <1>6, <1>7 DEF Admin, ModelOperations

LEMMA ReplaceKeeps ==
  ASSUME ModelsInv, NEW r \in ModelRequests, ReplaceModelCredential(r)
  PROVE  ModelsInv'
PROOF
  <1> DEFINE m == admin[r].model
             w == [NoAdmin EXCEPT !.pc = "audit", !.done = TRUE]
  <1>1. /\ Knows(admin[r]) /\ ModelAt(r, "credential")
        /\ models[m].live
        /\ models' = [models EXCEPT ![m].credential = admin[r].endpoint]
        /\ mixed' = IF OthersHalfDone(r, m) THEN mixed \cup {m} ELSE mixed
        /\ admin' = [admin EXCEPT ![r] = w]
    BY DEF ModelsInv, RequestsKnow, ReplaceModelCredential, ToAudit
  <1>2. m \in ModelIds
    BY <1>1 DEF Knows, ModelAt
  <1>3. w \in Admin /\ w.pc = "audit" /\ w.op = "test" /\ w.done
    BY DEF NoAdmin, Admin, ModelPoints, ModelOperations, Answers
  <1> HIDE DEF w
  <1>4. Knows(w)
    BY <1>3 DEF Knows
  <1>5. mixed \subseteq mixed' /\ mixed' \subseteq mixed \cup {m}
    BY <1>1
  <1> QED BY <1>1, <1>2, <1>3, <1>4, <1>5, KeyedKeeps

LEMMA ModelsStep == ModelsInv /\ [ModelsNext]_modelVars => ModelsInv'
PROOF
  <1> SUFFICES ASSUME ModelsInv, [ModelsNext]_modelVars PROVE ModelsInv'
    OBVIOUS
  <1>1. CASE ModelsNext
    <2> PICK r \in ModelRequests : ModelSteps(r)
      BY <1>1 DEF ModelsNext
    <2>1. CASE \E user \in ModelUsers, e \in Endpoints :
                 \/ StartModel(r, user, "create", NoModel, e, TRUE)
                 \/ \E m \in ModelIds, keyed \in BOOLEAN :
                      StartModel(r, user, "update", m, e, keyed)
      BY <2>1, StartModelKeeps DEF ModelOperations
    <2>2. CASE \E user \in ModelUsers, op \in {"delete", "test"}, m \in ModelIds :
                 StartModel(r, user, op, m, NoModel, FALSE)
      BY <2>2, StartModelKeeps DEF ModelOperations
    <2>3. CASE CheckQuota(r) \/ EnsureOverride(r)
      BY <2>3, ChecksKeep
    <2>4. CASE WriteModel(r)
      BY <2>4, WriteKeeps
    <2>5. CASE ReplaceModelCredential(r)
      BY <2>5, ReplaceKeeps
    <2>6. CASE ModelRefused(r) \/ GiveUp(r)
      BY <2>6, FailuresKeep
    <2>7. CASE LateWrite(r)
      BY <2>7, LateWriteKeeps
    <2>8. CASE RecordSuccess(r) \/ AuditFails(r) \/ LateLost(r) \/ CloseAnswer(r)
      BY <2>8, EndingsKeep
    <2> QED BY <2>1, <2>2, <2>3, <2>4, <2>5, <2>6, <2>7, <2>8 DEF ModelSteps
  <1>2. CASE UNCHANGED modelVars
    <2>1. Overrides' = Overrides /\ Passed' = Passed
      BY <1>2 DEF modelVars, Overrides, Passed
    <2> QED BY <1>2, <2>1
         DEF modelVars, ModelsInv, ModelsTypeOK, RequestsKnow, LiveIsBorn, HalfDoneIsLast,
             KeyMatchesEndpoint, OverridesPassedByRaceOnly, ModelAt
  <1> QED BY <1>1, <1>2

\* The inductive invariant: what requests know, whose endpoint a half-done
\* update left, and the count of overrides with those that may still come.
THEOREM ModelsInvariant == ModelsSpec => []ModelsInv
PROOF
  BY InitiallyNoOverrides, ModelsStep, PTL DEF ModelsSpec

\* Models and requests keep their types.
THEOREM ModelsTypeCorrect == ModelsSpec => []ModelsTypeOK
PROOF
  <1>1. ModelsInv => ModelsTypeOK
    BY DEF ModelsInv
  <1> QED BY <1>1, ModelsInvariant, PTL

\* For any number of administrators and models: no key of one endpoint is used
\* with another unless an update was cut short or met another, answers are
\* true, and the quota is passed by those counted at once only
\* (CreateOverride, UpdateOverride, record).
THEOREM OverridesStayAsAnswered == ModelsSpec => []OverridesAreAsAnswered
PROOF
  <1>1. ModelsInv => AnswersAreTrue
    BY DEF ModelsInv, RequestsKnow, Knows, AnswersAreTrue, ModelAt
  <1>2. ModelsInv => OverridesAreAsAnswered
    BY <1>1 DEF ModelsInv, OverridesAreAsAnswered
  <1> QED BY <1>2, ModelsInvariant, PTL
------------------------------------------------------------------------------
\* The notes of one space: their history.

LEMMA NoEditType == NoEdit \in Edit /\ NoEdit.pc = "idle"
PROOF
  BY NotesAssumption DEF NoEdit, Edit, NotePoints, NoteOperations

LEMMA InitiallyNoNotes == NotesInit => NotesInv
PROOF
  <1> SUFFICES ASSUME NotesInit PROVE NotesInv
    OBVIOUS
  <1>1. NotesTypeOK
    BY NoEditType, NotesAssumption DEF NotesInit, NotesTypeOK, UnbornNote, Note
  <1>2. \A r \in NoteRequests : Knowing(r)
    BY NoEditType DEF NotesInit, Knowing
  <1>3. VersionsWritten
    BY NotesAssumption DEF NotesInit, VersionsWritten, UnbornNote, Born, Versions
  <1>4. HistoryIsTrue /\ NothingSeenIsLost
    BY NotesAssumption DEF NotesInit, HistoryIsTrue, NothingSeenIsLost, UnbornNote, Versions
  <1> QED BY <1>1, <1>2, <1>3, <1>4 DEF NotesInv

\* Versions are only added, to notes and to histories: what a request knows
\* stays true while others work.
LEMMA StepOfOne ==
  ASSUME NotesInv, NEW r \in NoteRequests, NEW w \in Edit,
         edit' = [edit EXCEPT ![r] = w], Knowing(r)',
         \A n \in NoteIds :
           /\ note[n].version <= note'[n].version
           /\ \A v \in Versions :
                /\ v <= note[n].version => wrote'[n][v] = wrote[n][v]
                /\ revisions[n][v] # NoContent => revisions'[n][v] # NoContent,
         note' \in [NoteIds -> Note],
         revisions' \in [NoteIds -> [Versions -> Contents \cup {NoContent}]],
         wrote' \in [NoteIds -> [Versions -> Contents \cup {NoContent}]],
         raced' \subseteq NoteIds \X Versions,
         shifted' \subseteq NoteRequests, blurred' \in Nat,
         VersionsWritten', HistoryIsTrue', NothingSeenIsLost'
  PROVE  NotesInv'
PROOF
  <1>1. /\ edit' \in [NoteRequests -> Edit]
        /\ \A o \in NoteRequests \ {r} : edit'[o] = edit[o]
    BY DEF NotesInv, NotesTypeOK
  <1>2. NotesTypeOK'
    BY <1>1 DEF NotesTypeOK
  <1>3. ASSUME NEW o \in NoteRequests, o # r PROVE Knowing(o)'
    <2>1. edit'[o] = edit[o] /\ edit[o] \in Edit /\ Knowing(o)
      BY <1>1, <1>3 DEF NotesInv, NotesTypeOK
    <2>2. \A n \in NoteIds : note[n] \in Note /\ note'[n] \in Note
      BY DEF NotesInv, NotesTypeOK
    <2>3. \A n \in NoteIds : Born(n) => Born(n)'
      BY <2>2, NotesAssumption DEF Born, Note
    <2>4. \A n \in NoteIds : \A s \in 1..note[n].version :
            /\ s \in 1..note'[n].version /\ wrote'[n][s] = wrote[n][s]
            /\ revisions[n][s] # NoContent => revisions'[n][s] # NoContent
      BY <2>2, NotesAssumption DEF Note, Versions
    <2> QED BY <2>1, <2>3, <2>4 DEF Knowing, Texts, Writable
  <1> QED BY <1>2, <1>3 DEF NotesInv

\* A step that changes no note and no history of one.
LEMMA CountingStep ==
  ASSUME NotesInv, NEW r \in NoteRequests, NEW w \in Edit,
         edit' = [edit EXCEPT ![r] = w], Knowing(r)',
         UNCHANGED <<note, revisions, wrote, raced>>,
         shifted' \subseteq NoteRequests, blurred' \in Nat
  PROVE  NotesInv'
PROOF
  <1>1. UNCHANGED <<note, revisions, wrote, raced>>
    OBVIOUS
  <1>2. \A n \in NoteIds : note[n].version <= note'[n].version
    BY <1>1, NotesAssumption DEF NotesInv, NotesTypeOK, Note
  <1>3. VersionsWritten' /\ HistoryIsTrue' /\ NothingSeenIsLost'
    BY <1>1 DEF NotesInv, VersionsWritten, HistoryIsTrue, NothingSeenIsLost, Born
  <1> QED BY <1>1, <1>2, <1>3, StepOfOne DEF NotesInv, NotesTypeOK

LEMMA ReadingStep ==
  ASSUME NotesInv, NEW r \in NoteRequests, NEW w \in Edit,
         edit' = [edit EXCEPT ![r] = w], Knowing(r)',
         UNCHANGED <<note, revisions, noteHistory>>
  PROVE  NotesInv'
PROOF
  <1>1. UNCHANGED <<note, revisions, wrote, raced, shifted, blurred>>
    BY DEF noteHistory, quotaHistory
  <1>2. shifted' \subseteq NoteRequests /\ blurred' \in Nat
    BY <1>1 DEF NotesInv, NotesTypeOK
  <1> QED BY <1>1, <1>2, CountingStep

LEMMA CounterLeaves ==
  ASSUME NotesInv, NEW r \in NoteRequests, NoteLeaves(r),
         UNCHANGED <<note, revisions, wrote, raced>>,
         shifted' \subseteq NoteRequests, blurred' \in Nat
  PROVE  NotesInv'
PROOF
  <1>1. edit' = [edit EXCEPT ![r] = NoEdit] /\ edit'[r] = NoEdit
    BY DEF NoteLeaves, NotesInv, NotesTypeOK
  <1>2. Knowing(r)'
    BY <1>1, NoEditType DEF Knowing
  <1> QED BY <1>1, <1>2, NoEditType, CountingStep

LEMMA LeavingStep ==
  ASSUME NotesInv, NEW r \in NoteRequests, NoteLeaves(r),
         UNCHANGED <<note, revisions, noteHistory>>
  PROVE  NotesInv'
PROOF
  <1>1. UNCHANGED <<note, revisions, wrote, raced, shifted, blurred>>
    BY DEF noteHistory, quotaHistory
  <1>2. shifted' \subseteq NoteRequests /\ blurred' \in Nat
    BY <1>1 DEF NotesInv, NotesTypeOK
  <1> QED BY <1>1, <1>2, CounterLeaves

LEMMA StartCreateKeeps ==
  ASSUME NotesInv, NEW r \in NoteRequests, NEW user, NEW c \in Contents,
         StartCreate(r, user, c)
  PROVE  NotesInv'
PROOF
  <1> DEFINE w == [NoEdit EXCEPT !.pc = "quota", !.op = "create", !.content = c]
  <1>1. w \in Edit /\ w.pc = "quota" /\ w.op = "create" /\ w.content = c
    BY NoEditType DEF Edit, NotePoints, NoteOperations
  <1>2. edit' = [edit EXCEPT ![r] = w] /\ UNCHANGED <<note, revisions, noteHistory>>
    BY DEF StartCreate
  <1>3. c \in Texts
    BY DEF StartCreate, Texts
  <1> HIDE DEF w
  <1>4. edit'[r] = w
    BY <1>2 DEF NotesInv, NotesTypeOK
  <1>5. Knowing(r)'
    BY <1>1, <1>3, <1>4 DEF Knowing, Texts, Writable
  <1> QED BY <1>1, <1>2, <1>5, ReadingStep

LEMMA OpenKeeps ==
  ASSUME NotesInv, NEW r \in NoteRequests, NEW user, NEW op \in NoteOperations \ {"create"},
         NEW n \in NoteIds, NEW c \in Contents \cup {NoContent},
         NEW expected \in 0..MaxVersion, NEW target \in 0..MaxVersion,
         op = "update" => c \in Texts, op = "restore" => target \in Versions,
         Open(r, user, op, n, c, expected, target)
  PROVE  NotesInv'
PROOF
  <1> DEFINE w == [NoEdit EXCEPT !.pc = "read", !.op = op, !.note = n, !.content = c,
                                 !.expected = expected, !.target = target]
  <1>1. /\ w \in Edit /\ w.pc = "read" /\ w.op = op /\ w.note = n /\ w.content = c
        /\ w.target = target
    BY NoEditType DEF Edit, NotePoints
  <1>2. edit' = [edit EXCEPT ![r] = w] /\ UNCHANGED <<note, revisions, noteHistory>>
    BY DEF Open
  <1>3. Born(n) /\ Born(n)'
    BY <1>2 DEF Open, Born
  <1> HIDE DEF w
  <1>4. edit'[r] = w
    BY <1>2 DEF NotesInv, NotesTypeOK
  <1>5. Knowing(r)'
    BY <1>1, <1>3, <1>4 DEF Knowing, Texts, Writable
  <1> QED BY <1>1, <1>2, <1>5, ReadingStep

LEMMA StartNoteKeeps ==
  ASSUME NotesInv, NEW r \in NoteRequests, NEW user \in NoteUsers, StartNote(r, user)
  PROVE  NotesInv'
PROOF
  <1>1. CASE \E c \in Contents : StartCreate(r, user, c)
    BY <1>1, StartCreateKeeps
  <1>2. CASE \E n \in NoteIds : StartGet(r, user, n) \/ StartDelete(r, user, n)
    <2>1. NoContent \in Contents \cup {NoContent} /\ 0 \in 0..MaxVersion
      BY NotesAssumption
    <2> QED BY <1>2, <2>1, OpenKeeps DEF StartGet, StartDelete, NoteOperations
  <1>3. CASE \E n \in NoteIds, e \in Versions :
               \E c \in Contents : StartUpdate(r, user, n, c, e)
    <2> PICK n \in NoteIds, e \in Versions, c \in Contents : StartUpdate(r, user, n, c, e)
      BY <1>3
    <2>1. e \in 0..MaxVersion /\ 0 \in 0..MaxVersion /\ c \in Texts
      BY NotesAssumption DEF StartUpdate, Versions, Texts
    <2> QED BY <2>1, OpenKeeps DEF StartUpdate, NoteOperations
  <1>4. CASE \E n \in NoteIds, e \in Versions :
               \E t \in Versions : StartRestore(r, user, n, e, t)
    <2> PICK n \in NoteIds, e \in Versions, t \in Versions : StartRestore(r, user, n, e, t)
      BY <1>4
    <2>1. e \in 0..MaxVersion /\ t \in 0..MaxVersion
      BY NotesAssumption DEF Versions
    <2> QED BY <2>1, OpenKeeps DEF StartRestore, NoteOperations
  <1> QED BY <1>1, <1>2, <1>3, <1>4 DEF StartNote

LEMMA ReadNoteKeeps ==
  ASSUME NotesInv, NEW r \in NoteRequests, ReadNote(r)
  PROVE  NotesInv'
PROOF
  <1> DEFINE n == edit[r].note
  <1>1. /\ edit[r] \in Edit /\ edit \in [NoteRequests -> Edit] /\ edit[r].pc = "read"
        /\ Knowing(r) /\ UNCHANGED <<note, revisions, noteHistory>>
    BY DEF NotesInv, NotesTypeOK, ReadNote, NoteAt
  <1>2. n \in NoteIds /\ Born(n) /\ note'[n].version # 0 /\ note[n] \in Note
    <2>1. n \in NoteIds /\ Born(n)
      BY <1>1 DEF Knowing
    <2> QED BY <1>1, <2>1 DEF Born, NotesInv, NotesTypeOK
  <1>3. CASE ~note[n].live
    BY <1>1, <1>3, LeavingStep DEF ReadNote
  <1>4. CASE note[n].live /\ edit[r].op = "delete"
    <2> DEFINE w == [edit[r] EXCEPT !.pc = "delete"]
    <2>1. w \in Edit /\ w.pc = "delete" /\ w.note = n
      BY <1>1 DEF Edit, NotePoints
    <2>2. edit' = [edit EXCEPT ![r] = w] /\ edit'[r] = w
      BY <1>1, <1>4 DEF ReadNote, NoteGoes
    <2> HIDE DEF w
    <2>3. Knowing(r)'
      BY <1>1, <1>2, <2>1, <2>2 DEF Knowing, Born
    <2> QED BY <1>1, <2>1, <2>2, <2>3, ReadingStep
  <1>5. CASE note[n].live /\ edit[r].op # "delete"
    <2> DEFINE w == [edit[r] EXCEPT !.pc = "snapshot", !.seen = note[n].version,
                                    !.old = note[n].content]
    <2>1. /\ w \in Edit /\ w.pc = "snapshot" /\ w.note = n /\ w.seen = note[n].version
          /\ w.old = note[n].content /\ w.op = edit[r].op /\ w.content = edit[r].content
          /\ w.target = edit[r].target
      BY <1>1, <1>2 DEF Edit, NotePoints, Note
    <2>2. edit' = [edit EXCEPT ![r].pc = "snapshot", ![r].seen = note[n].version,
                               ![r].old = note[n].content]
      BY <1>5 DEF ReadNote
    <2>3. edit' = [edit EXCEPT ![r] = w] /\ edit'[r] = w
      BY <1>1, <2>2
    <2> HIDE DEF w
    <2>4. w.seen \in 1..note'[n].version /\ w.old = wrote'[n][w.seen]
      BY <1>1, <1>2, <2>1, NotesAssumption
         DEF NotesInv, VersionsWritten, Note, Born, noteHistory
    <2>5. w.op \in {"get", "update", "restore"}
      BY <1>1, <1>5, <2>1 DEF Knowing, Edit, NoteOperations
    <2>6. Knowing(r)'
      BY <1>1, <1>2, <2>1, <2>3, <2>4, <2>5 DEF Knowing, Born, Texts, Writable
    <2> QED BY <1>1, <2>1, <2>3, <2>6, ReadingStep
  <1> QED BY <1>3, <1>4, <1>5

\* Record files what the upstream held at that version, or leaves what is there.
LEMMA Recorded ==
  ASSUME NotesInv, NEW n \in NoteIds, NEW v \in 1..note[n].version,
         RecordNote(n, v, wrote[n][v]), UNCHANGED <<note, noteHistory>>
  PROVE  /\ revisions' \in [NoteIds -> [Versions -> Contents \cup {NoContent}]]
         /\ revisions'[n][v] # NoContent
         /\ \A m \in NoteIds, u \in Versions :
              revisions[m][u] # NoContent => revisions'[m][u] # NoContent
         /\ VersionsWritten' /\ HistoryIsTrue' /\ NothingSeenIsLost'
PROOF
  <1>1. /\ note[n] \in Note /\ v \in Versions
        /\ revisions \in [NoteIds -> [Versions -> Contents \cup {NoContent}]]
        /\ UNCHANGED <<note, wrote, raced>>
    BY NotesAssumption DEF NotesInv, NotesTypeOK, Note, Versions, noteHistory
  <1> DEFINE c == wrote[n][v]
             d == IF revisions[n][v] = NoContent THEN c ELSE revisions[n][v]
  <1>2. c \in Contents
    BY <1>1 DEF NotesInv, VersionsWritten, Note, Versions, Texts
  <1>3. c # NoContent
    BY <1>2, NotesAssumption
  <1>4. d \in Contents /\ d # NoContent
    BY <1>1, <1>2, <1>3
  <1>5. revisions' = [revisions EXCEPT ![n][v] = d]
    BY DEF RecordNote
  <1>6. revisions[n][v] # NoContent => revisions[n][v] = c
    BY <1>1 DEF NotesInv, HistoryIsTrue
  <1>7. d = c
    BY <1>6
  <1> HIDE DEF c, d
  <1>8. /\ revisions' \in [NoteIds -> [Versions -> Contents \cup {NoContent}]]
        /\ revisions'[n][v] = d
        /\ \A m \in NoteIds, u \in Versions :
             revisions'[m][u] = IF m = n /\ u = v THEN d ELSE revisions[m][u]
    BY <1>1, <1>4, <1>5
  <1>9. VersionsWritten'
    BY <1>1 DEF NotesInv, VersionsWritten, Born
  <1>10. HistoryIsTrue'
    BY <1>1, <1>7, <1>8 DEF NotesInv, HistoryIsTrue, c
  <1>11. NothingSeenIsLost'
    BY <1>1, <1>4, <1>8 DEF NotesInv, NothingSeenIsLost
  <1> QED BY <1>4, <1>8, <1>9, <1>10, <1>11

LEMMA RecordingStep ==
  ASSUME NotesInv, NEW r \in NoteRequests, NEW w \in Edit, NEW n \in NoteIds,
         NEW v \in 1..note[n].version,
         RecordNote(n, v, wrote[n][v]), UNCHANGED <<note, noteHistory>>,
         edit' = [edit EXCEPT ![r] = w], Knowing(r)'
  PROVE  NotesInv'
PROOF
  <1>1. UNCHANGED <<note, wrote, raced, shifted, blurred>>
    BY DEF noteHistory, quotaHistory
  <1>2. \A m \in NoteIds : note[m].version <= note'[m].version
    BY <1>1, NotesAssumption DEF NotesInv, NotesTypeOK, Note
  <1> QED BY <1>1, <1>2, Recorded, StepOfOne DEF NotesInv, NotesTypeOK

LEMMA SnapshotKeeps ==
  ASSUME NotesInv, NEW r \in NoteRequests, Snapshot(r)
  PROVE  NotesInv'
PROOF
  <1> DEFINE n == edit[r].note  s == edit[r].seen
  <1>1. /\ edit[r] \in Edit /\ edit \in [NoteRequests -> Edit] /\ edit[r].pc = "snapshot"
        /\ Knowing(r) /\ UNCHANGED <<note, noteHistory>>
    BY DEF NotesInv, NotesTypeOK, Snapshot, NoteAt
  <1>2. /\ n \in NoteIds /\ Born(n) /\ s \in 1..note[n].version
        /\ edit[r].old = wrote[n][s] /\ edit[r].op \in {"get", "update", "restore"}
        /\ edit[r].op = "update" => edit[r].content \in Texts
        /\ edit[r].op = "restore" => edit[r].target \in Versions
    BY <1>1 DEF Knowing
  <1>3. RecordNote(n, s, wrote[n][s])
    BY <1>2 DEF Snapshot
  <1>4. revisions'[n][s] # NoContent
    BY <1>1, <1>2, <1>3, Recorded
  <1>5. CASE edit' = [edit EXCEPT ![r] = NoEdit]
    <2>1. edit'[r] = NoEdit
      BY <1>1, <1>5
    <2>2. Knowing(r)'
      BY <2>1, NoEditType DEF Knowing
    <2> QED BY <1>1, <1>2, <1>3, <1>5, <2>2, NoEditType, RecordingStep
  <1>6. CASE /\ edit[r].op # "get"
             /\ edit' = [edit EXCEPT ![r].expected = 0, ![r].pc =
                  IF edit[r].op = "restore" THEN "target" ELSE "quota"]
    <2> DEFINE pc == IF edit[r].op = "restore" THEN "target" ELSE "quota"
               w == [edit[r] EXCEPT !.expected = 0, !.pc = pc]
    <2>1. pc \in {"target", "quota"} /\ (pc = "target" <=> edit[r].op = "restore")
      OBVIOUS
    <2>2. /\ w \in Edit /\ w.pc = pc /\ w.op = edit[r].op /\ w.note = n /\ w.seen = s
          /\ w.content = edit[r].content /\ w.target = edit[r].target
      <3>1. 0 \in 0..MaxVersion
        BY NotesAssumption
      <3> HIDE DEF pc
      <3> QED BY <1>1, <2>1, <3>1 DEF Edit, NotePoints
    <2>3. edit' = [edit EXCEPT ![r].expected = 0, ![r].pc = pc]
      BY <1>6
    <2>4. edit' = [edit EXCEPT ![r] = w] /\ edit'[r] = w
      BY <1>1, <2>3
    <2> HIDE DEF w, pc
    <2>5. note'[n].version # 0 /\ s \in 1..note'[n].version
      BY <1>1, <1>2 DEF Born
    <2>6. Knowing(r)'
      BY <1>2, <1>4, <1>6, <2>1, <2>2, <2>4, <2>5 DEF Knowing, Born, Texts, Writable
    <2> QED BY <1>1, <1>2, <1>3, <2>2, <2>4, <2>6, RecordingStep
  <1> QED BY <1>5, <1>6 DEF Snapshot, NoteLeaves

LEMMA TargetKeeps ==
  ASSUME NotesInv, NEW r \in NoteRequests, Target(r)
  PROVE  NotesInv'
PROOF
  <1> DEFINE n == edit[r].note  c == revisions[n][edit[r].target]
  <1>1. /\ edit[r] \in Edit /\ edit \in [NoteRequests -> Edit] /\ edit[r].pc = "target"
        /\ Knowing(r) /\ UNCHANGED <<note, revisions, noteHistory>>
    BY DEF NotesInv, NotesTypeOK, Target, NoteAt
  <1>2. /\ n \in NoteIds /\ Born(n) /\ edit[r].op = "restore" /\ edit[r].target \in Versions
        /\ edit[r].seen \in 1..note[n].version /\ revisions[n][edit[r].seen] # NoContent
    BY <1>1 DEF Knowing
  <1>3. CASE c = NoContent
    BY <1>1, <1>3, LeavingStep DEF Target
  <1>4. CASE c # NoContent
    <2> DEFINE w == [edit[r] EXCEPT !.pc = "quota", !.content = c, !.target = 0]
    <2>1. c = wrote[n][edit[r].target]
      BY <1>2, <1>4 DEF NotesInv, HistoryIsTrue
    <2>2. c \in Texts
      <3>1. note[n] \in Note /\ edit[r].target \in Nat
        BY <1>2, NotesAssumption DEF NotesInv, NotesTypeOK, Versions
      <3> QED BY <1>2, <1>4, <2>1, <3>1, NotesAssumption DEF NotesInv, VersionsWritten, Note
    <2>3. c \in Contents
      BY <2>2 DEF Texts
    <2>4. edit' = [edit EXCEPT ![r].pc = "quota", ![r].content = c, ![r].target = 0]
      BY <1>4 DEF Target
    <2> HIDE DEF c
    <2>5. /\ w \in Edit /\ w.pc = "quota" /\ w.op = "restore" /\ w.note = n
          /\ w.content = c /\ w.seen = edit[r].seen
      <3>1. 0 \in 0..MaxVersion
        BY NotesAssumption
      <3> QED BY <1>1, <1>2, <2>3, <3>1 DEF Edit, NotePoints
    <2>6. edit' = [edit EXCEPT ![r] = w] /\ edit'[r] = w
      BY <1>1, <2>4
    <2> HIDE DEF w
    <2>7. /\ note'[n].version # 0 /\ w.seen \in 1..note'[n].version
          /\ revisions'[n][w.seen] # NoContent
      BY <1>1, <1>2, <2>5 DEF Born
    <2>8. Knowing(r)'
      BY <1>2, <2>2, <2>5, <2>6, <2>7 DEF Knowing, Born, Texts, Writable
    <2> QED BY <1>1, <2>5, <2>6, <2>8, ReadingStep
  <1> QED BY <1>3, <1>4

LEMMA LiveHasText == NotesInv => \A n \in Live : n \in NoteIds /\ note[n].content \in Texts
PROOF
  <1> SUFFICES ASSUME NotesInv, NEW n \in Live
               PROVE  n \in NoteIds /\ note[n].content \in Texts
    OBVIOUS
  <1>1. n \in NoteIds /\ note[n] \in Note /\ note[n].live
    BY DEF Live, NotesInv, NotesTypeOK
  <1>2. Born(n) /\ note[n].content = wrote[n][note[n].version]
    BY <1>1 DEF NotesInv, VersionsWritten
  <1>3. note[n].version \in Versions
    BY <1>1, <1>2, NotesAssumption DEF Note, Born, Versions
  <1>4. wrote[n][note[n].version] \in Texts
    BY <1>1, <1>3, NotesAssumption DEF NotesInv, VersionsWritten, Versions
  <1> QED BY <1>1, <1>2, <1>4

LEMMA TextsAreSmall ==
  \A c \in Texts : c \in Contents /\ SizeOf[c] \in Nat /\ SizeOf[c] <= MaxSize
PROOF
  BY NotesAssumption DEF Texts, Writable

\* The texts of notes have finitely many bytes.
LEMMA TextsAreFinite ==
  ASSUME NotesInv, NEW ns \in SUBSET Live
  PROVE  /\ IsFiniteSet(ns) /\ IsFiniteSet(TextsOf(ns))
         /\ TextsOf(ns) \subseteq NoteIds \X (1..MaxSize)
PROOF
  <1>1. ASSUME NEW n \in NoteIds, NEW c \in Texts
        PROVE  BytesOf(n, c) \subseteq NoteIds \X (1..MaxSize)
    BY TextsAreSmall, NotesAssumption DEF BytesOf
  <1>2. ns \subseteq NoteIds /\ TextsOf(ns) \subseteq NoteIds \X (1..MaxSize)
    <2>1. \A n \in ns : n \in NoteIds /\ note[n].content \in Texts
      BY LiveHasText
    <2>2. \A n \in ns : BytesOf(n, note[n].content) \subseteq NoteIds \X (1..MaxSize)
      BY <1>1, <2>1
    <2>3. ASSUME NEW b \in TextsOf(ns) PROVE b \in NoteIds \X (1..MaxSize)
      <3>1. \E n \in ns : b \in BytesOf(n, note[n].content)
        BY DEF TextsOf
      <3> QED BY <2>2, <3>1
    <2> QED BY <2>1, <2>3
  <1>3. IsFiniteSet(1..MaxSize) /\ IsFiniteSet(NoteIds)
    BY FS_Interval, NotesAssumption
  <1>4. IsFiniteSet(NoteIds \X (1..MaxSize))
    BY <1>3, FS_Product
  <1> QED BY <1>2, <1>3, <1>4, FS_Subset

\* A page is a finite set of notes, with as many bytes as they have.
LEMMA CountsAreNat ==
  ASSUME NotesInv, NEW r \in NoteRequests
  PROVE  NextPage(r) \in Nat /\ Counted(r) \in Nat /\ Found(r) \in Nat
PROOF
  <1> DEFINE ns == OnPage(NextPage(r))
  <1>1. edit[r].page \in Nat /\ edit[r].counted \in Nat /\ edit[r].found \in Nat
    BY DEF NotesInv, NotesTypeOK, Edit
  <1>2. ns \subseteq Live /\ ns \subseteq NoteIds
    BY DEF OnPage, UpToPage, Live
  <1>3. IsFiniteSet(ns) /\ IsFiniteSet(TextsOf(ns))
    BY <1>2, TextsAreFinite
  <1> HIDE DEF ns
  <1>4. Cardinality(ns) \in Nat /\ Cardinality(TextsOf(ns)) \in Nat
    BY <1>3, FS_CardinalityType
  <1> QED BY <1>1, <1>4 DEF NextPage, Counted, Found, ns

LEMMA QuotaKeeps ==
  ASSUME NotesInv, NEW r \in NoteRequests,
         CountPage(r) \/ PassQuota(r) \/ FailQuota(r) \/ LoseWrite(r)
  PROVE  NotesInv'
PROOF
  <1> DEFINE n == edit[r].note
  <1>1. /\ edit[r] \in Edit /\ edit \in [NoteRequests -> Edit]
        /\ edit[r].pc \in {"quota", "write"}
        /\ Knowing(r) /\ UNCHANGED <<note, revisions, wrote, raced>>
    BY DEF NotesInv, NotesTypeOK, CountPage, PassQuota, FailQuota, LoseWrite, NoteAt,
           noteHistory
  <1>2. /\ edit[r].op \in {"create", "update", "restore"} /\ edit[r].content \in Texts
        /\ edit[r].op # "create" =>
             /\ n \in NoteIds /\ Born(n)
             /\ edit[r].seen \in 1..note[n].version /\ revisions[n][edit[r].seen] # NoContent
    BY <1>1 DEF Knowing
  <1>3. shifted' \subseteq NoteRequests /\ blurred' \in Nat
    BY DEF NotesInv, NotesTypeOK, CountPage, PassQuota, FailQuota, LoseWrite, noteHistory,
           quotaHistory
  <1>4. ASSUME NEW w \in Edit, w.pc \in {"quota", "write", "abandoned"}, w.op = edit[r].op,
               w.note = n, w.content = edit[r].content, w.seen = edit[r].seen,
               edit' = [edit EXCEPT ![r] = w]
        PROVE  NotesInv'
    <2>1. edit'[r] = w
      BY <1>1, <1>4
    <2>2. w.op # "create" =>
             /\ n \in NoteIds /\ note'[n].version # 0
             /\ w.seen \in 1..note'[n].version /\ revisions'[n][w.seen] # NoContent
      BY <1>1, <1>2, <1>4 DEF Born
    <2>3. Knowing(r)'
      BY <1>2, <1>4, <2>1, <2>2 DEF Knowing, Born, Texts, Writable
    <2> QED BY <1>1, <1>3, <1>4, <2>3, CountingStep
  <1>5. CASE CountPage(r)
    <2> DEFINE w == [edit[r] EXCEPT !.page = NextPage(r), !.counted = Counted(r),
                                    !.found = Found(r)]
    <2>1. NextPage(r) \in Nat /\ Counted(r) \in Nat /\ Found(r) \in Nat
      BY <1>1, CountsAreNat
    <2>2. /\ w \in Edit /\ w.pc = "quota" /\ w.op = edit[r].op /\ w.note = n
          /\ w.content = edit[r].content /\ w.seen = edit[r].seen
      BY <1>1, <1>5, <2>1 DEF Edit, CountPage, NoteAt
    <2>3. edit' = [edit EXCEPT ![r] = w]
      BY <1>1, <1>5 DEF CountPage
    <2> HIDE DEF w
    <2> QED BY <1>4, <2>2, <2>3
  <1>6. CASE PassQuota(r)
    <2> DEFINE w == [edit[r] EXCEPT !.pc = "write", !.old = NoContent,
                                    !.page = 0, !.counted = 0, !.found = 0]
    <2>1. /\ w \in Edit /\ w.pc = "write" /\ w.op = edit[r].op /\ w.note = n
          /\ w.content = edit[r].content /\ w.seen = edit[r].seen
      BY <1>1 DEF Edit, NotePoints
    <2>2. edit' = [edit EXCEPT ![r] = w]
      BY <1>1, <1>6 DEF PassQuota
    <2> HIDE DEF w
    <2> QED BY <1>4, <2>1, <2>2
  <1>7. CASE FailQuota(r)
    BY <1>1, <1>3, <1>7, CounterLeaves DEF FailQuota
  <1>8. CASE LoseWrite(r)
    <2> DEFINE w == [edit[r] EXCEPT !.pc = "abandoned"]
    <2>1. /\ w \in Edit /\ w.pc = "abandoned" /\ w.op = edit[r].op /\ w.note = n
          /\ w.content = edit[r].content /\ w.seen = edit[r].seen
      BY <1>1 DEF Edit, NotePoints
    <2>2. edit' = [edit EXCEPT ![r] = w]
      BY <1>1, <1>8 DEF LoseWrite, NoteGoes
    <2> HIDE DEF w
    <2> QED BY <1>4, <2>1, <2>2
  <1> QED BY <1>5, <1>6, <1>7, <1>8

LEMMA RecordWriteKeeps ==
  ASSUME NotesInv, NEW r \in NoteRequests, RecordWrite(r)
  PROVE  NotesInv'
PROOF
  <1> DEFINE n == edit[r].note  v == edit[r].seen
  <1>1. /\ edit \in [NoteRequests -> Edit] /\ edit[r].pc = "record"
        /\ Knowing(r) /\ UNCHANGED <<note, noteHistory>>
    BY DEF NotesInv, NotesTypeOK, RecordWrite, NoteAt
  <1>2. /\ n \in NoteIds /\ v \in 1..note[n].version
        /\ RecordNote(n, v, wrote[n][v])
    BY <1>1 DEF Knowing, RecordWrite
  <1>3. edit' = [edit EXCEPT ![r] = NoEdit] /\ edit'[r] = NoEdit
    BY <1>1 DEF RecordWrite, NoteLeaves
  <1>4. Knowing(r)'
    BY <1>3, NoEditType DEF Knowing
  <1> QED BY <1>1, <1>2, <1>3, <1>4, NoEditType, RecordingStep

LEMMA NoteRecordFailsKeeps ==
  ASSUME NotesInv, NEW r \in NoteRequests, NoteRecordFails(r)
  PROVE  NotesInv'
PROOF
  <1>1. /\ edit[r] \in Edit /\ edit \in [NoteRequests -> Edit]
        /\ Knowing(r) /\ UNCHANGED <<note, revisions, noteHistory>>
    BY DEF NotesInv, NotesTypeOK, NoteRecordFails
  <1>2. CASE NoteLeaves(r)
    BY <1>1, <1>2, LeavingStep
  <1>3. CASE edit[r].pc = "record" /\ NoteGoes(r, "undo")
    <2> DEFINE w == [edit[r] EXCEPT !.pc = "undo"]
    <2>1. w \in Edit /\ w.pc = "undo" /\ w.note = edit[r].note
      BY <1>1 DEF Edit, NotePoints
    <2>2. edit' = [edit EXCEPT ![r] = w] /\ edit'[r] = w
      BY <1>1, <1>3 DEF NoteGoes
    <2> HIDE DEF w
    <2>3. edit[r].note \in NoteIds /\ note'[edit[r].note].version # 0
      BY <1>1, <1>3 DEF Knowing, Born
    <2>4. Knowing(r)'
      BY <2>1, <2>2, <2>3 DEF Knowing, Born
    <2> QED BY <1>1, <2>1, <2>2, <2>4, ReadingStep
  <1> QED BY <1>2, <1>3 DEF NoteRecordFails, NoteAt

\* A write is held as the version after the present one, which is in the
\* history or was not seen by who wrote over it.
LEMMA HoldingStep ==
  ASSUME NotesInv, NEW r \in NoteRequests, NEW w \in Edit, NEW n \in NoteIds,
         NEW c \in Texts, Held(n, c),
         Born(n) => \/ <<n, note[n].version>> \in raced'
                    \/ revisions[n][note[n].version] # NoContent,
         raced \subseteq raced', raced' \subseteq NoteIds \X Versions,
         UNCHANGED revisions, Shift,
         edit' = [edit EXCEPT ![r] = w], Knowing(r)'
  PROVE  NotesInv'
PROOF
  <1> DEFINE v == note[n].version + 1
  <1>1. /\ note \in [NoteIds -> Note] /\ note[n] \in Note
        /\ wrote \in [NoteIds -> [Versions -> Contents \cup {NoContent}]]
        /\ c \in Contents /\ c # NoContent
    BY NotesAssumption DEF NotesInv, NotesTypeOK, Texts
  <1>2. note[n].version \in Nat /\ v \in Versions /\ v \in 1..MaxVersion /\ v # 0
    BY <1>1, NotesAssumption DEF Note, Versions, Held
  <1>3. /\ note' \in [NoteIds -> Note]
        /\ note'[n] = [version |-> v, content |-> c, live |-> TRUE]
        /\ \A m \in NoteIds \ {n} : note'[m] = note[m]
    <2>1. [version |-> v, content |-> c, live |-> TRUE] \in Note
      BY <1>1, <1>2, NotesAssumption DEF Note
    <2> QED BY <1>1, <2>1 DEF Held
  <1>4. /\ wrote' \in [NoteIds -> [Versions -> Contents \cup {NoContent}]]
        /\ wrote'[n][v] = c
        /\ \A m \in NoteIds, u \in Versions :
             m # n \/ u # v => wrote'[m][u] = wrote[m][u]
    <2> HIDE DEF v
    <2>1. wrote' = [wrote EXCEPT ![n][v] = c]
      BY DEF Held, v
    <2> QED BY <1>1, <1>2, <2>1
  <1>5. \A m \in NoteIds :
          /\ note[m].version \in Nat /\ note'[m].version \in Nat
          /\ note[m].version <= note'[m].version
    <2>1. \A m \in NoteIds : note[m].version \in Nat
      BY NotesAssumption DEF NotesInv, NotesTypeOK, Note
    <2> QED BY <1>2, <1>3, <2>1
  <1> HIDE DEF v
  <1>6. VersionsWritten'
    <2> SUFFICES ASSUME NEW m \in NoteIds
                 PROVE  /\ \A u \in Versions :
                             /\ u <= note'[m].version => wrote'[m][u] \in Texts
                             /\ u > note'[m].version => wrote'[m][u] = NoContent
                        /\ note'[m].version # 0 =>
                             note'[m].content = wrote'[m][note'[m].version]
                        /\ note'[m].live => note'[m].version # 0
      BY DEF VersionsWritten, Born, Texts, Writable
    <2>1. CASE m # n
      <3>1. note'[m] = note[m] /\ \A u \in Versions : wrote'[m][u] = wrote[m][u]
        BY <1>3, <1>4, <2>1
      <3>2. note[m].version # 0 => note[m].version \in Versions
        BY NotesAssumption DEF NotesInv, NotesTypeOK, Note, Versions
      <3> QED BY <3>1, <3>2 DEF NotesInv, VersionsWritten, Born
    <2>2. CASE m = n
      <3>1. ASSUME NEW u \in Versions
            PROVE  /\ u <= v => wrote'[n][u] \in Texts
                   /\ u > v => wrote'[n][u] = NoContent
        <4>1. CASE u = v
          BY <1>2, <1>4, <4>1
        <4>2. CASE u # v
          <5>1. wrote'[n][u] = wrote[n][u] /\ u \in Int
            BY <1>4, <4>2, NotesAssumption DEF Versions
          <5>2. /\ u <= v => u <= note[n].version
                /\ u > v => u > note[n].version
            BY <1>2, <4>2, <5>1 DEF v
          <5> QED BY <5>1, <5>2 DEF NotesInv, VersionsWritten
        <4> QED BY <4>1, <4>2
      <3> QED BY <1>2, <1>3, <1>4, <2>2, <3>1
    <2> QED BY <2>1, <2>2
  <1>7. revisions[n][v] = NoContent
    <2>1. wrote[n][v] = NoContent
      BY <1>2 DEF NotesInv, VersionsWritten, v
    <2> QED BY <1>2, <2>1 DEF NotesInv, HistoryIsTrue
  <1>8. HistoryIsTrue'
    BY <1>4, <1>7 DEF NotesInv, HistoryIsTrue
  <1>9. NothingSeenIsLost'
    <2> SUFFICES ASSUME NEW m \in NoteIds, NEW u \in Versions,
                        u < note'[m].version, revisions[m][u] = NoContent
                 PROVE  <<m, u>> \in raced'
      BY DEF NothingSeenIsLost
    <2>1. u < note[m].version \/ (m = n /\ u = note[n].version)
      <3>1. u \in Int /\ note[n].version \in Int
        BY <1>2, NotesAssumption DEF Versions
      <3>2. CASE m = n
        BY <1>3, <3>1, <3>2 DEF v
      <3>3. CASE m # n
        BY <1>3, <3>3
      <3> QED BY <3>2, <3>3
    <2>2. CASE u < note[m].version
      BY <2>2 DEF NotesInv, NothingSeenIsLost
    <2>3. CASE m = n /\ u = note[n].version
      <3>1. Born(n)
        BY <1>2, <2>3, NotesAssumption DEF Born, Versions
      <3> QED BY <2>3, <3>1
    <2> QED BY <2>1, <2>2, <2>3
  <1>10. \A m \in NoteIds, u \in Versions :
           u <= note[m].version => wrote'[m][u] = wrote[m][u]
    BY <1>2, <1>4, NotesAssumption DEF v, Versions
  <1>11. /\ revisions' \in [NoteIds -> [Versions -> Contents \cup {NoContent}]]
         /\ shifted' \subseteq NoteRequests /\ blurred' \in Nat
    BY DEF NotesInv, NotesTypeOK, Shift
  <1> QED BY <1>3, <1>4, <1>5, <1>6, <1>8, <1>9, <1>10, <1>11, StepOfOne

\* Where a request goes with its write held: on to its history, or away if it
\* had given up.
LEMMA WrittenType ==
  ASSUME NotesInv, NEW r \in NoteRequests, NEW n \in NoteIds,
         edit[r].pc \in {"write", "abandoned"}, Held(n, edit[r].content), Written(r, n)
  PROVE  \E w \in Edit : /\ edit' = [edit EXCEPT ![r] = w] /\ Knowing(r)'
                        /\ w.pc \in {"idle", "record"}
PROOF
  <1> DEFINE v == note[n].version + 1  c == edit[r].content
  <1>1. /\ edit[r] \in Edit /\ edit \in [NoteRequests -> Edit]
        /\ note \in [NoteIds -> Note] /\ note[n] \in Note
        /\ wrote \in [NoteIds -> [Versions -> Contents \cup {NoContent}]]
    BY DEF NotesInv, NotesTypeOK
  <1>2. note[n].version \in Nat /\ v \in 0..MaxVersion /\ v \in Versions /\ v \in 1..v
        /\ v # 0
    BY <1>1, NotesAssumption DEF Note, Versions, Held
  <1>3. note'[n].version = v /\ wrote'[n][v] = c
    <2>1. note'[n].version = v
      BY <1>1 DEF Held
    <2>2. wrote'[n][v] = c
      <3> HIDE DEF v
      <3>1. wrote' = [wrote EXCEPT ![n][v] = c]
        BY DEF Held, v
      <3> QED BY <1>1, <1>2, <3>1
    <2> QED BY <2>1, <2>2
  <1>4. CASE NoteLeaves(r)
    <2>1. edit' = [edit EXCEPT ![r] = NoEdit] /\ edit'[r] = NoEdit
      BY <1>1, <1>4 DEF NoteLeaves
    <2>2. Knowing(r)'
      BY <2>1, NoEditType DEF Knowing
    <2> QED BY <2>1, <2>2, NoEditType
  <1>5. CASE edit' = [edit EXCEPT ![r].pc = "record", ![r].note = n, ![r].seen = v]
    <2> DEFINE w == [edit[r] EXCEPT !.pc = "record", !.note = n, !.seen = v]
    <2>1. w \in Edit /\ w.pc = "record" /\ w.note = n /\ w.seen = v /\ w.content = c
      BY <1>1, <1>2 DEF Edit, NotePoints
    <2>2. edit' = [edit EXCEPT ![r] = w] /\ edit'[r] = w
      BY <1>1, <1>5
    <2> HIDE DEF w, v, c
    <2>3. Knowing(r)'
      BY <1>2, <1>3, <2>1, <2>2 DEF Knowing, Born
    <2> QED BY <2>1, <2>2, <2>3
  <1> QED BY <1>4, <1>5 DEF Written

LEMMA CreateNoteKeeps ==
  ASSUME NotesInv, NEW r \in NoteRequests, NEW n \in NoteIds, CreateNote(r, n)
  PROVE  NotesInv'
PROOF
  <1>1. edit[r].content \in Texts /\ edit[r].pc \in {"write", "abandoned"}
    BY DEF NotesInv, Knowing, CreateNote
  <1>2. PICK w \in Edit : edit' = [edit EXCEPT ![r] = w] /\ Knowing(r)'
    BY <1>1, WrittenType DEF CreateNote
  <1>3. raced \subseteq raced' /\ raced' \subseteq NoteIds \X Versions
    BY DEF CreateNote, NotesInv, NotesTypeOK
  <1> QED BY <1>1, <1>2, <1>3, HoldingStep DEF CreateNote

LEMMA UpdateNoteKeeps ==
  ASSUME NotesInv, NEW r \in NoteRequests, UpdateNote(r)
  PROVE  NotesInv'
PROOF
  <1> DEFINE n == edit[r].note  s == edit[r].seen
  <1>1. /\ edit[r].pc \in {"write", "abandoned"} /\ n \in NoteIds /\ note[n] \in Note
        /\ edit[r].content \in Texts /\ s \in 1..note[n].version
        /\ revisions[n][s] # NoContent /\ Born(n)
    BY DEF NotesInv, NotesTypeOK, Knowing, UpdateNote
  <1>2. note[n].version \in Versions
    BY <1>1, NotesAssumption DEF Note, Versions, Born
  <1>3. PICK w \in Edit : edit' = [edit EXCEPT ![r] = w] /\ Knowing(r)'
    BY <1>1, WrittenType DEF UpdateNote
  <1>4. raced' = IF note[n].version = s THEN raced
                 ELSE raced \cup {<<n, note[n].version>>}
    BY DEF UpdateNote
  <1>5. raced \subseteq raced' /\ raced' \subseteq NoteIds \X Versions
    BY <1>1, <1>2, <1>4 DEF NotesInv, NotesTypeOK
  <1>6. \/ <<n, note[n].version>> \in raced'
        \/ revisions[n][note[n].version] # NoContent
    BY <1>1, <1>4
  <1> QED BY <1>1, <1>3, <1>5, <1>6, HoldingStep DEF UpdateNote

LEMMA DeleteNoteKeeps ==
  ASSUME NotesInv, NEW r \in NoteRequests, DeleteNote(r)
  PROVE  NotesInv'
PROOF
  <1> DEFINE n == edit[r].note
  <1>1. /\ n \in NoteIds /\ edit \in [NoteRequests -> Edit]
        /\ note \in [NoteIds -> Note] /\ UNCHANGED <<revisions, wrote, raced>>
        /\ shifted' \subseteq NoteRequests /\ blurred' \in Nat
    BY DEF NotesInv, NotesTypeOK, Knowing, DeleteNote, Shift
  <1>2. edit' = [edit EXCEPT ![r] = NoEdit] /\ edit'[r] = NoEdit
    BY <1>1 DEF DeleteNote, NoteLeaves
  <1>3. Knowing(r)'
    BY <1>2, NoEditType DEF Knowing
  <1>4. /\ note' \in [NoteIds -> Note]
        /\ \A m \in NoteIds :
             /\ note'[m].version = note[m].version /\ note'[m].content = note[m].content
             /\ note'[m].live => note[m].live
    BY <1>1 DEF DeleteNote, Note
  <1>5. \A m \in NoteIds : note[m].version <= note'[m].version
    BY <1>4, NotesAssumption DEF NotesInv, NotesTypeOK, Note
  <1>6. VersionsWritten' /\ HistoryIsTrue' /\ NothingSeenIsLost'
    BY <1>1, <1>4 DEF NotesInv, VersionsWritten, HistoryIsTrue, NothingSeenIsLost, Born,
                      Texts, Writable
  <1> QED BY <1>1, <1>2, <1>3, <1>4, <1>5, <1>6, NoEditType, StepOfOne
          DEF NotesInv, NotesTypeOK

LEMMA NotesStep == NotesInv /\ [NotesNext]_noteVars => NotesInv'
PROOF
  <1> SUFFICES ASSUME NotesInv, [NotesNext]_noteVars PROVE NotesInv'
    OBVIOUS
  <1>1. CASE UNCHANGED noteVars
    <2>1. UNCHANGED <<note, revisions, edit, wrote, raced, shifted, blurred>>
      BY <1>1 DEF noteVars, quotaHistory
    <2> QED BY <2>1 DEF NotesInv, NotesTypeOK, Knowing, VersionsWritten, HistoryIsTrue,
                        NothingSeenIsLost, Born
  <1>2. ASSUME NEW r \in NoteRequests, NEW user \in NoteUsers, StartNote(r, user)
        PROVE  NotesInv'
    BY <1>2, StartNoteKeeps
  <1>3. ASSUME NEW r \in NoteRequests, ReadNote(r) PROVE NotesInv'
    BY <1>3, ReadNoteKeeps
  <1>4. ASSUME NEW r \in NoteRequests, Snapshot(r) PROVE NotesInv'
    BY <1>4, SnapshotKeeps
  <1>5. ASSUME NEW r \in NoteRequests, Target(r) PROVE NotesInv'
    BY <1>5, TargetKeeps
  <1>6. ASSUME NEW r \in NoteRequests,
               CountPage(r) \/ PassQuota(r) \/ FailQuota(r) \/ LoseWrite(r)
        PROVE  NotesInv'
    BY <1>6, QuotaKeeps
  <1>7. ASSUME NEW r \in NoteRequests, NEW n \in NoteIds, CreateNote(r, n) PROVE NotesInv'
    BY <1>7, CreateNoteKeeps
  <1>8. ASSUME NEW r \in NoteRequests, UpdateNote(r) PROVE NotesInv'
    BY <1>8, UpdateNoteKeeps
  <1>9. ASSUME NEW r \in NoteRequests, RefuseWrite(r) \/ NoteDies(r) PROVE NotesInv'
    <2>1. CASE RefuseWrite(r)
      BY <2>1, LeavingStep DEF RefuseWrite
    <2>2. CASE NoteDies(r)
      <3>1. shifted' \subseteq NoteRequests /\ blurred' \in Nat
        BY <2>2 DEF NotesInv, NotesTypeOK, NoteDies
      <3> QED BY <2>2, <3>1, CounterLeaves DEF NoteDies
    <2> QED BY <1>9, <2>1, <2>2
  <1>10. ASSUME NEW r \in NoteRequests, RecordWrite(r) PROVE NotesInv'
    BY <1>10, RecordWriteKeeps
  <1>11. ASSUME NEW r \in NoteRequests, NoteRecordFails(r) PROVE NotesInv'
    BY <1>11, NoteRecordFailsKeeps
  <1>12. ASSUME NEW r \in NoteRequests, DeleteNote(r) PROVE NotesInv'
    BY <1>12, DeleteNoteKeeps
  <1> QED BY <1>1, <1>2, <1>3, <1>4, <1>5, <1>6, <1>7, <1>8, <1>9, <1>10, <1>11, <1>12
          DEF NotesNext

\* The inductive invariant holds, for any number of notes and requests.
THEOREM NotesInvariant == NotesSpec => []NotesInv
PROOF
  BY InitiallyNoNotes, NotesStep, PTL DEF NotesSpec

\* Notes, revisions and requests keep their types.
THEOREM NotesTypeCorrect == NotesSpec => []NotesTypeOK
PROOF
  <1>1. NotesInv => NotesTypeOK
    BY DEF NotesInv
  <1> QED BY <1>1, NotesInvariant, PTL

\* For any number of editors of any notes: a revision holds what the upstream
\* held at that version, and a version written over is in the history unless
\* who wrote over it had not seen it (RevisionRepository.Record, Update).
THEOREM HistoryStaysKept == NotesSpec => []HistoryIsKept
PROOF
  <1>1. NotesInv => HistoryIsKept
    BY DEF NotesInv, HistoryIsKept
  <1> QED BY <1>1, NotesInvariant, PTL
------------------------------------------------------------------------------
\* The notes of one space: their quota.

LEMMA BytesCounted ==
  ASSUME NEW n, NEW text \in Contents
  PROVE  /\ IsFiniteSet(BytesOf(n, text))
         /\ Cardinality(BytesOf(n, text)) = SizeOf[text]
PROOF
  <1>1. SizeOf[text] \in Nat
    BY NotesAssumption
  <1>2. IsFiniteSet(1..SizeOf[text]) /\ Cardinality(1..SizeOf[text]) = SizeOf[text]
    BY <1>1, FS_Interval
  <1>3. IsFiniteSet({n}) /\ Cardinality({n}) = 1
    BY FS_Singleton
  <1>4. /\ IsFiniteSet(BytesOf(n, text))
        /\ Cardinality(BytesOf(n, text)) = 1 * SizeOf[text]
    <2> DEFINE one == {n}
               places == 1..SizeOf[text]
    <2>1. BytesOf(n, text) = one \X places
      BY DEF BytesOf
    <2>2. IsFiniteSet(one) /\ IsFiniteSet(places)
      BY <1>2, <1>3
    <2>3. Cardinality(one) = 1 /\ Cardinality(places) = SizeOf[text]
      BY <1>2, <1>3
    <2> HIDE DEF one, places
    <2> QED BY <2>1, <2>2, <2>3, FS_Product
  <1> QED BY <1>1, <1>4

\* Where the bytes of the corpus and of each request are.
LEMMA Ranges ==
  NotesInv /\ Sized =>
    /\ Corpus \subseteq NoteIds \X (1..MaxSize)
    /\ \A r \in NoteRequests :
         /\ InMind(r) \subseteq NoteIds \X (1..MaxSize)
         /\ ToCreate(r) \subseteq {r} \X (1..MaxSize)
         /\ r \in Creating => edit[r].content \in Texts
         /\ Rewrites(r) => r \notin Creating /\ edit[r].note \in NoteIds
PROOF
  <1> SUFFICES ASSUME NotesInv, Sized
               PROVE  /\ Corpus \subseteq NoteIds \X (1..MaxSize)
                      /\ \A r \in NoteRequests :
                           /\ InMind(r) \subseteq NoteIds \X (1..MaxSize)
                           /\ ToCreate(r) \subseteq {r} \X (1..MaxSize)
                           /\ r \in Creating => edit[r].content \in Texts
                           /\ Rewrites(r) => r \notin Creating /\ edit[r].note \in NoteIds
    OBVIOUS
  <1>1. ASSUME NEW n, NEW c \in Texts PROVE BytesOf(n, c) \subseteq {n} \X (1..MaxSize)
    BY TextsAreSmall, NotesAssumption DEF BytesOf
  <1>2. Corpus \subseteq NoteIds \X (1..MaxSize)
    BY TextsAreFinite DEF Corpus
  <1>3. ASSUME NEW r \in NoteRequests
        PROVE  /\ r \in Creating => edit[r].content \in Texts
               /\ Rewrites(r) => r \notin Creating /\ edit[r].note \in NoteIds
    BY DEF NotesInv, Knowing, Creating, MayWrite, NoteAt, Rewrites
  <1>4. ASSUME NEW r \in NoteRequests
        PROVE  /\ InMind(r) \subseteq NoteIds \X (1..MaxSize)
               /\ ToCreate(r) \subseteq {r} \X (1..MaxSize)
    <2>1. InMind(r) \subseteq NoteIds \X (1..MaxSize)
      BY <1>1, <1>3 DEF InMind, Sized
    <2>2. ToCreate(r) \subseteq {r} \X (1..MaxSize)
      BY <1>1, <1>3 DEF ToCreate, Creating
    <2> QED BY <2>1, <2>2
  <1> QED BY <1>2, <1>3, <1>4

LEMMA ForeseenIsFinite ==
  NotesInv /\ Sized =>
    /\ IsFiniteSet(Corpus) /\ IsFiniteSet(Foreseen) /\ IsFiniteSet(ForeseenNew)
    /\ Bytes \in Nat /\ Cardinality(Foreseen) \in Nat /\ Cardinality(ForeseenNew) \in Nat
    /\ Bytes <= Cardinality(Foreseen)
PROOF
  <1> SUFFICES ASSUME NotesInv, Sized
               PROVE  /\ IsFiniteSet(Corpus) /\ IsFiniteSet(Foreseen)
                      /\ IsFiniteSet(ForeseenNew)
                      /\ Bytes \in Nat /\ Cardinality(Foreseen) \in Nat
                      /\ Cardinality(ForeseenNew) \in Nat
                      /\ Bytes <= Cardinality(Foreseen)
    OBVIOUS
  <1>1. IsFiniteSet(1..MaxSize) /\ IsFiniteSet(NoteIds) /\ IsFiniteSet(NoteRequests)
    BY FS_Interval, NotesAssumption
  <1>2. /\ IsFiniteSet(NoteIds \X (1..MaxSize))
        /\ IsFiniteSet(NoteRequests \X (1..MaxSize))
    BY <1>1, FS_Product
  <1>3. /\ Corpus \subseteq Foreseen /\ Foreseen \subseteq NoteIds \X (1..MaxSize)
        /\ ForeseenNew \subseteq NoteRequests \X (1..MaxSize)
    BY Ranges DEF Foreseen, ForeseenNew
  <1>4. IsFiniteSet(Foreseen) /\ IsFiniteSet(ForeseenNew)
    BY <1>2, <1>3, FS_Subset
  <1>5. IsFiniteSet(Corpus) /\ Cardinality(Corpus) <= Cardinality(Foreseen)
    BY <1>3, <1>4, FS_Subset
  <1> QED BY <1>4, <1>5, FS_CardinalityType DEF Bytes

\* With L apart, the other requests foresee at most a largest note each: a byte
\* of one's note or of one's creation is told by the request and its place.
LEMMA ForeseenBound ==
  NotesInv /\ Sized =>
    \A l \in NoteRequests :
      Cardinality(Foreseen) + Cardinality(ForeseenNew)
        <= Cardinality(Corpus \cup InMind(l)) + Cardinality(ToCreate(l))
             + (Cardinality(NoteRequests) - 1) * MaxSize
PROOF
  <1> SUFFICES ASSUME NotesInv, Sized, NEW l \in NoteRequests
               PROVE  Cardinality(Foreseen) + Cardinality(ForeseenNew)
                        <= Cardinality(Corpus \cup InMind(l)) + Cardinality(ToCreate(l))
                             + (Cardinality(NoteRequests) - 1) * MaxSize
    OBVIOUS
  <1> DEFINE others == NoteRequests \ {l}
             creators == others \cap Creating
             editors == others \ Creating
             mine == Corpus \cup InMind(l)
             theirs == UNION {InMind(s) : s \in editors}
             new == UNION {ToCreate(s) : s \in creators}
             who(b) == CHOOSE s \in editors : b \in InMind(s)
             f == [b \in theirs |-> <<who(b), b[2]>>]
             places == 1..MaxSize
  <1>1. IsFiniteSet(places) /\ Cardinality(places) = MaxSize
    BY FS_Interval, NotesAssumption
  <1>2. /\ IsFiniteSet(others) /\ Cardinality(others) = Cardinality(NoteRequests) - 1
        /\ IsFiniteSet(NoteRequests)
    BY FS_RemoveElement, NotesAssumption
  <1>3. /\ IsFiniteSet(creators) /\ IsFiniteSet(editors)
        /\ Cardinality(creators) + Cardinality(editors) = Cardinality(others)
        /\ Cardinality(creators) \in Nat /\ Cardinality(editors) \in Nat
    <2>1. editors = others \ Creating /\ creators \subseteq others /\ editors \subseteq others
      OBVIOUS
    <2>2. IsFiniteSet(creators) /\ IsFiniteSet(editors)
      BY <1>2, <2>1, FS_Subset
    <2>3. Cardinality(editors) = Cardinality(others) - Cardinality(creators)
      BY <1>2, FS_Difference
    <2> QED BY <1>2, <2>2, <2>3, FS_CardinalityType
  <1>4. Foreseen = mine \cup theirs
    <2>1. \A s \in NoteRequests : s \in Creating => InMind(s) = {}
      BY Ranges DEF InMind
    <2> QED BY <2>1 DEF Foreseen
  <1>5. ForeseenNew = ToCreate(l) \cup new
    <2>1. \A s \in NoteRequests : s \notin Creating => ToCreate(s) = {}
      BY DEF ToCreate, Creating
    <2> QED BY <2>1 DEF ForeseenNew
  <1>6. /\ IsFiniteSet(mine) /\ IsFiniteSet(theirs) /\ IsFiniteSet(ToCreate(l))
        /\ IsFiniteSet(new)
    <2>1. mine \subseteq Foreseen /\ theirs \subseteq Foreseen
          /\ ToCreate(l) \subseteq ForeseenNew /\ new \subseteq ForeseenNew
      BY <1>4, <1>5
    <2> QED BY <2>1, ForeseenIsFinite, FS_Subset
  <1>7. Cardinality(theirs) <= Cardinality(editors) * MaxSize
    <2>1. /\ IsFiniteSet(editors \X places)
          /\ Cardinality(editors \X places) = Cardinality(editors) * MaxSize
      <3> HIDE DEF editors, places
      <3> QED BY <1>1, <1>3, FS_Product
    <2>2. ASSUME NEW b \in theirs
          PROVE  who(b) \in editors /\ b \in InMind(who(b)) /\ b \in NoteIds \X places
      <3>1. \E s \in editors : b \in InMind(s)
        BY <2>2
      <3>2. who(b) \in editors /\ b \in InMind(who(b))
        BY <3>1
      <3> QED BY <3>2, Ranges
    <2>3. ASSUME NEW s \in editors, NEW a \in InMind(s), NEW b \in InMind(s)
          PROVE  a[1] = b[1]
      BY <2>3 DEF InMind, BytesOf
    <2>4. ASSUME NEW a \in theirs, NEW b \in theirs, f[a] = f[b] PROVE a = b
      <3> HIDE DEF theirs, editors, who
      <3>1. who(a) = who(b) /\ a[2] = b[2]
        BY <2>4
      <3>2. a[1] = b[1]
        BY <2>2, <2>3, <3>1
      <3> QED BY <2>2, <3>1, <3>2
    <2>5. f \in [theirs -> editors \X places]
      <3> HIDE DEF theirs, editors, who
      <3> QED BY <2>2
    <2> HIDE DEF f
    <2>6. f \in Injection(theirs, editors \X places)
      BY <2>4, <2>5 DEF Injection, IsInjective
    <2> QED BY <2>1, <2>6, FS_Injection
  <1>8. Cardinality(new) <= Cardinality(creators) * MaxSize
    <2>1. /\ IsFiniteSet(creators \X places)
          /\ Cardinality(creators \X places) = Cardinality(creators) * MaxSize
      <3> HIDE DEF creators, places
      <3> QED BY <1>1, <1>3, FS_Product
    <2>2. new \subseteq creators \X places
      BY Ranges
    <2> QED BY <2>1, <2>2, FS_Subset
  <1>9. /\ Cardinality(Foreseen) <= Cardinality(mine) + Cardinality(theirs)
        /\ Cardinality(ForeseenNew) <= Cardinality(ToCreate(l)) + Cardinality(new)
    <2>1. ASSUME NEW S, NEW T, IsFiniteSet(S), IsFiniteSet(T)
          PROVE  Cardinality(S \cup T) <= Cardinality(S) + Cardinality(T)
      <3>1. Cardinality(S \cup T) = Cardinality(S) + Cardinality(T) - Cardinality(S \cap T)
        BY <2>1, FS_Union
      <3>2. IsFiniteSet(S \cap T)
        BY <2>1, FS_Subset
      <3> QED BY <2>1, <3>1, <3>2, FS_CardinalityType
    <2> HIDE DEF mine, theirs, new
    <2> QED BY <1>4, <1>5, <1>6, <2>1
  <1>10. /\ Cardinality(mine) \in Nat /\ Cardinality(theirs) \in Nat
         /\ Cardinality(ToCreate(l)) \in Nat /\ Cardinality(new) \in Nat
    BY <1>6, FS_CardinalityType
  <1> HIDE DEF mine, theirs, new, creators, editors, others
  <1>11. ASSUME NEW a \in Nat, NEW b \in Nat, NEW c \in Nat, NEW m \in Nat, a + b = c
         PROVE  a * m + b * m = c * m /\ a * m \in Nat /\ b * m \in Nat /\ c * m \in Nat
    BY <1>11
  <1>12. Cardinality(others) \in Nat
    BY <1>2, FS_CardinalityType
  <1>13. /\ Cardinality(creators) * MaxSize + Cardinality(editors) * MaxSize
              = Cardinality(others) * MaxSize
         /\ Cardinality(creators) * MaxSize \in Nat /\ Cardinality(editors) * MaxSize \in Nat
         /\ Cardinality(others) * MaxSize \in Nat
    BY <1>3, <1>11, <1>12, NotesAssumption
  <1>14. Cardinality(Foreseen) + Cardinality(ForeseenNew)
           <= Cardinality(mine) + Cardinality(ToCreate(l)) + Cardinality(others) * MaxSize
    BY <1>7, <1>8, <1>9, <1>10, <1>13, ForeseenIsFinite
  <1> QED BY <1>2, <1>14 DEF mine

\* The same of the next state.
LEMMA ForeseenBoundNext ==
  NotesInv' /\ Sized' =>
    \A l \in NoteRequests :
      Cardinality(Foreseen') + Cardinality(ForeseenNew')
        <= Cardinality((Corpus \cup InMind(l))') + Cardinality(ToCreate(l)')
             + (Cardinality(NoteRequests) - 1) * MaxSize
PROOF
  <1>1. (NotesInv /\ Sized =>
    \A l \in NoteRequests :
      Cardinality(Foreseen) + Cardinality(ForeseenNew)
        <= Cardinality(Corpus \cup InMind(l)) + Cardinality(ToCreate(l))
             + (Cardinality(NoteRequests) - 1) * MaxSize)'
    BY ForeseenBound, PTL
  <1> QED BY <1>1

LEMMA CountIsNat ==
  /\ IsFiniteSet(Live) /\ Count \in Nat
  /\ IsFiniteSet(Creating) /\ Cardinality(Creating) \in Nat
  /\ Cardinality(Creating) <= Cardinality(NoteRequests)
  /\ Cardinality(NoteRequests) \in Nat /\ Cardinality(NoteRequests) > 0
PROOF
  <1>1. Live \subseteq NoteIds /\ Creating \subseteq NoteRequests
    BY DEF Live, Creating
  <1>2. IsFiniteSet(Live)
    BY <1>1, FS_Subset, NotesAssumption
  <1>3. IsFiniteSet(Creating) /\ Cardinality(Creating) <= Cardinality(NoteRequests)
    BY <1>1, FS_Subset, NotesAssumption
  <1>4. Cardinality(NoteRequests) \in Nat /\ Cardinality(NoteRequests) # 0
    BY FS_CardinalityType, FS_EmptySet, NotesAssumption
  <1> QED BY <1>2, <1>3, <1>4, FS_CardinalityType DEF Count

\* The first pages of the list.
LEMMA PagesGrow ==
  ASSUME NotesInv, NEW p \in Nat
  PROVE  /\ UpToPage(p) \subseteq Live /\ UpToPage(p + 1) \subseteq Live
         /\ UpToPage(p) \subseteq UpToPage(p + 1)
         /\ UpToPage(0) = {}
PROOF
  <1>1. UpToPage(p) \subseteq Live /\ UpToPage(p + 1) \subseteq Live
    BY DEF UpToPage
  <1>2. ASSUME NEW n \in Live PROVE Cardinality({m \in Live : Rank[m] < Rank[n]}) \in Nat
    <2>1. IsFiniteSet({m \in Live : Rank[m] < Rank[n]})
      BY CountIsNat, FS_Subset
    <2> QED BY <2>1, FS_CardinalityType
  <1>3. /\ p * PageSize \in Nat /\ (p + 1) * PageSize = p * PageSize + PageSize
        /\ 0 * PageSize = 0 /\ PageSize \in Nat
    BY NotesAssumption
  <1>4. UpToPage(p) \subseteq UpToPage(p + 1)
    BY <1>2, <1>3 DEF UpToPage
  <1>5. UpToPage(0) = {}
    BY <1>2, <1>3 DEF UpToPage
  <1> QED BY <1>1, <1>4, <1>5

LEMMA NoPages == NotesInv => UpToPage(0) = {} /\ TextsOf({}) = {}
PROOF
  BY PagesGrow DEF TextsOf

\* A page more, of a list that has not changed.
LEMMA ExactPage ==
  ASSUME NotesInv, CountIsExact, NEW r \in NoteRequests, r \notin shifted
  PROVE  /\ Counted(r) = Cardinality(UpToPage(NextPage(r)))
         /\ Found(r) = Cardinality(TextsOf(UpToPage(NextPage(r))))
PROOF
  <1> DEFINE p == edit[r].page
             A == UpToPage(p)
             B == OnPage(NextPage(r))
  <1>1. p \in Nat /\ NextPage(r) = p + 1 /\ NextPage(r) - 1 = p
    BY DEF NotesInv, NotesTypeOK, Edit, NextPage
  <1>2. /\ edit[r].counted = Cardinality(A) /\ edit[r].found = Cardinality(TextsOf(A))
    BY DEF CountIsExact
  <1>3. /\ B = UpToPage(p + 1) \ A /\ A \subseteq UpToPage(p + 1)
        /\ UpToPage(p + 1) \subseteq Live
    BY <1>1, PagesGrow DEF OnPage
  <1> HIDE DEF A, B, p
  <1>4. /\ UpToPage(NextPage(r)) = A \cup B /\ A \cap B = {}
        /\ A \subseteq Live /\ B \subseteq Live
    BY <1>1, <1>3
  <1>5. /\ IsFiniteSet(A) /\ IsFiniteSet(B)
        /\ IsFiniteSet(TextsOf(A)) /\ IsFiniteSet(TextsOf(B))
    BY <1>4, TextsAreFinite
  <1>6. TextsOf(A \cup B) = TextsOf(A) \cup TextsOf(B)
    BY DEF TextsOf
  <1>7. TextsOf(A) \cap TextsOf(B) = {}
    <2> SUFFICES ASSUME NEW b \in TextsOf(A), b \in TextsOf(B) PROVE FALSE
      OBVIOUS
    <2>1. b[1] \in A /\ b[1] \in B
      BY DEF TextsOf, BytesOf
    <2> QED BY <1>4, <2>1
  <1>8. Cardinality({}) = 0
    BY FS_EmptySet
  <1>9. ASSUME NEW S, NEW T, IsFiniteSet(S), IsFiniteSet(T), S \cap T = {}
        PROVE  Cardinality(S \cup T) = Cardinality(S) + Cardinality(T)
    <2>1. Cardinality(S \cup T) = Cardinality(S) + Cardinality(T) - Cardinality(S \cap T)
      BY <1>9, FS_Union
    <2>2. Cardinality(S) \in Nat /\ Cardinality(T) \in Nat
      BY <1>9, FS_CardinalityType
    <2>3. Cardinality(S \cap T) = 0
      BY <1>8, <1>9
    <2> QED BY <2>1, <2>2, <2>3
  <1>10. Counted(r) = Cardinality(UpToPage(NextPage(r)))
    BY <1>2, <1>4, <1>5, <1>9 DEF Counted, B
  <1>11. Found(r) = Cardinality(TextsOf(UpToPage(NextPage(r))))
    BY <1>2, <1>4, <1>5, <1>6, <1>7, <1>9 DEF Found, B
  <1> QED BY <1>10, <1>11

\* On the last page of such a list, all bytes of the corpus have been found.
LEMMA AllFound ==
  ASSUME NotesInv, CountIsExact, NEW r \in NoteRequests, r \notin shifted,
         ~NextPageNeeded(r)
  PROVE  Found(r) = Bytes
PROOF
  <1> DEFINE S == UpToPage(NextPage(r))
  <1>1. S \subseteq Live
    BY DEF UpToPage
  <1>2. /\ Cardinality(S) <= Cardinality(Live)
        /\ Cardinality(S) = Cardinality(Live) => S = Live
    BY <1>1, CountIsNat, FS_Subset
  <1>3. Cardinality(S) \in Nat /\ Counted(r) = Cardinality(S)
    BY <1>1, ExactPage, CountIsNat, FS_Subset, FS_CardinalityType
  <1>4. S = Live
    BY <1>2, <1>3, CountIsNat DEF NextPageNeeded, Count
  <1> QED BY <1>4, ExactPage DEF Bytes, Corpus

\* Who is not counting has counted nothing.
NothingCounted(w) == w.page = 0 /\ w.counted = 0 /\ w.found = 0

LEMMA NotCounting ==
  ASSUME NotesInv, CountIsExact, NEW r \in NoteRequests,
         edit[r].pc # "quota" \/ edit[r].page = 0
  PROVE  NothingCounted(edit[r]) /\ r \notin shifted
PROOF
  <1>1. edit[r].page = 0 /\ r \notin shifted
    BY DEF CountIsExact
  <1>2. UpToPage(0) = {} /\ TextsOf({}) = {} /\ Cardinality({}) = 0
    BY PagesGrow, FS_EmptySet DEF TextsOf
  <1> QED BY <1>1, <1>2 DEF CountIsExact, NothingCounted

LEMMA InitiallyExact == NotesInit => CountIsExact
PROOF
  <1> SUFFICES ASSUME NotesInit PROVE CountIsExact
    OBVIOUS
  <1>1. UpToPage(0) = {} /\ TextsOf({}) = {} /\ Cardinality({}) = 0
    BY InitiallyNoNotes, PagesGrow, FS_EmptySet DEF TextsOf
  <1> QED BY <1>1 DEF NotesInit, NoEdit, CountIsExact

\* A step of r that changes no note, after which r has counted nothing or the
\* pages of an unchanged list.
LEMMA ExactStep ==
  ASSUME NotesInv, CountIsExact, NEW r \in NoteRequests,
         \A s \in NoteRequests \ {r} : edit'[s] = edit[s],
         note' = note, \A s \in NoteRequests \ {r} : s \in shifted' <=> s \in shifted,
         \/ NothingCounted(edit'[r]) /\ r \notin shifted'
         \/ /\ edit'[r].pc = "quota" /\ edit'[r].page # 0
            /\ r \notin shifted' =>
                 /\ edit'[r].counted = Cardinality(UpToPage(edit'[r].page))
                 /\ edit'[r].found = Cardinality(TextsOf(UpToPage(edit'[r].page)))
  PROVE  CountIsExact'
PROOF
  <1>1. Live' = Live
    BY DEF Live
  <1>2. \A p : UpToPage(p)' = UpToPage(p)
    BY <1>1 DEF UpToPage
  <1>3. \A ns : TextsOf(ns)' = TextsOf(ns)
    BY DEF TextsOf, BytesOf
  <1>4. UpToPage(0) = {} /\ TextsOf({}) = {} /\ Cardinality({}) = 0
    BY PagesGrow, FS_EmptySet DEF TextsOf
  <1>5. ASSUME NEW s \in NoteRequests
        PROVE  /\ s \notin shifted' =>
                    /\ edit'[s].counted = Cardinality(UpToPage(edit'[s].page))
                    /\ edit'[s].found = Cardinality(TextsOf(UpToPage(edit'[s].page)))
               /\ edit'[s].pc # "quota" => edit'[s].page = 0
               /\ edit'[s].page = 0 => s \notin shifted'
    <2>1. CASE s = r
      BY <1>4, <2>1 DEF NothingCounted
    <2>2. CASE s # r
      BY <2>2 DEF CountIsExact
    <2> QED BY <2>1, <2>2
  <1>6. ASSUME NEW s \in NoteRequests
        PROVE  /\ UpToPage(edit[s].page)' = UpToPage(edit'[s].page)
               /\ TextsOf(UpToPage(edit[s].page))' = TextsOf(UpToPage(edit'[s].page))
    <2>1. UpToPage(edit[s].page)' = UpToPage(edit'[s].page)
      BY <1>1 DEF UpToPage
    <2>2. TextsOf(UpToPage(edit[s].page))' = TextsOf(UpToPage(edit'[s].page))
      BY <2>1 DEF TextsOf, BytesOf
    <2> QED BY <2>1, <2>2
  <1> QED BY <1>5, <1>6 DEF CountIsExact

\* A step of r that changes notes: who counted some of them is shifted.
LEMMA ExactShift ==
  ASSUME NotesInv, CountIsExact, NotesInv', NEW r \in NoteRequests,
         \A s \in NoteRequests \ {r} : edit'[s] = edit[s], Shift,
         edit[r].pc # "quota", NothingCounted(edit'[r])
  PROVE  CountIsExact'
PROOF
  <1>1. (UpToPage(0) = {})' /\ (TextsOf({}) = {})' /\ Cardinality({}) = 0
    <2>1. (NotesInv => UpToPage(0) = {} /\ TextsOf({}) = {})'
      BY NoPages, PTL
    <2> QED BY <2>1, FS_EmptySet
  <1>2. ASSUME NEW s \in NoteRequests
        PROVE  /\ s \notin shifted' => edit'[s].page = 0 /\ NothingCounted(edit'[s])
               /\ edit'[s].pc # "quota" => edit'[s].page = 0
               /\ edit'[s].page = 0 => s \notin shifted'
    <2>1. CASE s = r
      <3>1. r \notin shifted'
        BY NotCounting DEF Shift, NoteAt
      <3> QED BY <2>1, <3>1 DEF NothingCounted
    <2>2. CASE s # r
      <3>1. edit'[s] = edit[s]
        BY <2>2
      <3>2. CASE edit[s].pc # "quota" \/ edit[s].page = 0
        <4>1. NothingCounted(edit[s]) /\ s \notin shifted
          BY <3>2, NotCounting
        <4>2. s \notin shifted'
          BY <4>1 DEF Shift, NothingCounted
        <4> QED BY <3>1, <4>1, <4>2 DEF NothingCounted
      <3>3. CASE edit[s].pc = "quota" /\ edit[s].page # 0
        <4>1. s \in shifted'
          BY <3>3 DEF Shift, NoteAt
        <4> QED BY <3>1, <3>3, <4>1
      <3> QED BY <3>2, <3>3
    <2> QED BY <2>1, <2>2
  <1>3. ASSUME NEW s \in NoteRequests, edit'[s].page = 0
        PROVE  /\ UpToPage(edit[s].page)' = {}
               /\ TextsOf(UpToPage(edit[s].page))' = {}
    <2>1. UpToPage(edit[s].page)' = UpToPage(0)'
      BY <1>3 DEF UpToPage
    <2>2. TextsOf(UpToPage(edit[s].page))' = TextsOf({})'
      BY <1>1, <2>1 DEF TextsOf
    <2> QED BY <1>1, <2>1, <2>2
  <1> QED BY <1>1, <1>2, <1>3 DEF CountIsExact, NothingCounted

LEMMA CountStep ==
  NotesInv /\ QuotaInv /\ NotesInv' /\ [NotesNext]_noteVars => CountIsExact'
PROOF
  <1> SUFFICES ASSUME NotesInv, CountIsExact, NotesInv', [NotesNext]_noteVars
               PROVE  CountIsExact'
    BY DEF QuotaInv
  <1>1. CASE UNCHANGED noteVars
    <2>1. UNCHANGED <<note, edit, shifted>>
      BY <1>1 DEF noteVars, quotaHistory
    <2>2. Live' = Live
      BY <2>1 DEF Live
    <2>3. ASSUME NEW s \in NoteRequests
          PROVE  /\ UpToPage(edit[s].page)' = UpToPage(edit[s].page)
                 /\ TextsOf(UpToPage(edit[s].page))' = TextsOf(UpToPage(edit[s].page))
      <3>1. UpToPage(edit[s].page)' = UpToPage(edit[s].page)
        BY <2>1, <2>2 DEF UpToPage
      <3> QED BY <2>1, <3>1 DEF TextsOf, BytesOf
    <2> QED BY <2>1, <2>3 DEF CountIsExact
  <1>2. edit \in [NoteRequests -> Edit]
    BY DEF NotesInv, NotesTypeOK
  <1>3. ASSUME NEW r \in NoteRequests, NEW user \in NoteUsers, StartNote(r, user)
        PROVE  CountIsExact'
    <2>1. ASSUME NEW w, NothingCounted(w), edit' = [edit EXCEPT ![r] = w],
                 edit[r].pc = "idle", UNCHANGED <<note, revisions, noteHistory>>
          PROVE  CountIsExact'
      BY <1>2, <2>1, NotCounting, ExactStep DEF noteHistory, quotaHistory
    <2>2. ASSUME NEW c \in Contents, StartCreate(r, user, c) PROVE CountIsExact'
      BY <2>1, <2>2 DEF StartCreate, NoteAt, NothingCounted, NoEdit
    <2>3. ASSUME NEW op, NEW n, NEW c, NEW e, NEW t, Open(r, user, op, n, c, e, t)
          PROVE  CountIsExact'
      BY <2>1, <2>3 DEF Open, NoteAt, NothingCounted, NoEdit
    <2> QED BY <1>3, <2>2, <2>3 DEF StartNote, StartGet, StartDelete, StartUpdate, StartRestore
  <1>4. ASSUME NEW r \in NoteRequests,
               \/ ReadNote(r) \/ Snapshot(r) \/ Target(r) \/ LoseWrite(r)
               \/ RecordWrite(r) \/ NoteRecordFails(r) \/ RefuseWrite(r)
        PROVE  CountIsExact'
    <2>1. UNCHANGED <<note, shifted>> /\ edit[r].pc # "quota" /\ edit[r] \in Edit
      BY <1>2, <1>4 DEF ReadNote, Snapshot, Target, LoseWrite, RecordWrite, NoteRecordFails,
                        RefuseWrite, NoteAt, noteHistory, quotaHistory
    <2>2. NothingCounted(edit[r]) /\ r \notin shifted
      BY <2>1, NotCounting
    <2>3. /\ \A s \in NoteRequests \ {r} : edit'[s] = edit[s]
          /\ \/ edit'[r] = NoEdit
             \/ /\ edit'[r].page = edit[r].page /\ edit'[r].counted = edit[r].counted
                /\ edit'[r].found = edit[r].found
      BY <1>2, <1>4, <2>1 DEF ReadNote, Snapshot, Target, LoseWrite, RecordWrite,
                        NoteRecordFails, RefuseWrite, NoteLeaves, NoteGoes, Edit
    <2>4. NothingCounted(edit'[r])
      BY <2>2, <2>3 DEF NothingCounted, NoEdit
    <2> QED BY <2>1, <2>2, <2>3, <2>4, ExactStep
  <1>5. ASSUME NEW r \in NoteRequests, CountPage(r) PROVE CountIsExact'
    <2>1. /\ edit[r] \in Edit /\ note' = note /\ shifted' = shifted /\ edit[r].pc = "quota"
      BY <1>2, <1>5 DEF CountPage, NoteAt, noteHistory, quotaHistory
    <2>2. NextPage(r) # 0
      BY <2>1 DEF Edit, NextPage
    <2>3. /\ \A s \in NoteRequests \ {r} : edit'[s] = edit[s]
          /\ edit'[r].pc = "quota" /\ edit'[r].page = NextPage(r)
          /\ edit'[r].counted = Counted(r) /\ edit'[r].found = Found(r)
      BY <1>2, <1>5, <2>1 DEF CountPage, Edit
    <2> QED BY <2>1, <2>2, <2>3, ExactPage, ExactStep
  <1>6. ASSUME NEW r \in NoteRequests, PassQuota(r) \/ FailQuota(r) \/ NoteDies(r)
        PROVE  CountIsExact'
    <2>1. edit[r] \in Edit /\ note' = note /\ shifted' = shifted \ {r}
      BY <1>2, <1>6 DEF PassQuota, FailQuota, NoteDies
    <2>2. /\ \A s \in NoteRequests \ {r} : edit'[s] = edit[s]
          /\ NothingCounted(edit'[r])
      BY <1>2, <1>6, <2>1 DEF PassQuota, FailQuota, NoteDies, NoteLeaves, Edit, NothingCounted,
                              NoEdit
    <2> QED BY <2>1, <2>2, ExactStep
  <1>7. ASSUME NEW r \in NoteRequests, NEW n \in NoteIds, edit[r].pc \in {"write", "abandoned"},
               Held(n, edit[r].content), Written(r, n), Shift
        PROVE  CountIsExact'
    <2>1. NothingCounted(edit[r])
      BY <1>7, NotCounting
    <2>2. /\ \A s \in NoteRequests \ {r} : edit'[s] = edit[s]
          /\ \/ edit'[r] = NoEdit
             \/ /\ edit'[r].page = edit[r].page /\ edit'[r].counted = edit[r].counted
                /\ edit'[r].found = edit[r].found
      BY <1>2, <1>7 DEF Written, NoteLeaves, Edit
    <2>3. NothingCounted(edit'[r])
      BY <2>1, <2>2 DEF NothingCounted, NoEdit
    <2> QED BY <1>7, <2>2, <2>3, ExactShift
  <1>8. ASSUME NEW r \in NoteRequests, NEW n \in NoteIds, CreateNote(r, n) PROVE CountIsExact'
    BY <1>7, <1>8 DEF CreateNote
  <1>9. ASSUME NEW r \in NoteRequests, UpdateNote(r) PROVE CountIsExact'
    <2>1. edit[r].note \in NoteIds
      BY <1>9 DEF UpdateNote, NotesInv, Knowing
    <2> QED BY <1>7, <1>9, <2>1 DEF UpdateNote
  <1>10. ASSUME NEW r \in NoteRequests, DeleteNote(r) PROVE CountIsExact'
    <2>1. /\ edit'[r] = NoEdit /\ edit[r].pc # "quota"
          /\ \A s \in NoteRequests \ {r} : edit'[s] = edit[s]
      BY <1>2, <1>10 DEF DeleteNote, NoteLeaves
    <2> QED BY <1>10, <2>1, ExactShift DEF DeleteNote, NothingCounted, NoEdit
  <1> QED BY <1>1, <1>3, <1>4, <1>5, <1>6, <1>8, <1>9, <1>10 DEF NotesNext

\* What the requests at once and the blurred checks may add.
LEMMA ExcessGrows ==
  ASSUME blurred \in Nat
  PROVE  /\ Excess \in Nat /\ (Cardinality(NoteRequests) - 1) * MaxSize \in Nat
         /\ (Cardinality(NoteRequests) - 1) * MaxSize <= Excess
         /\ blurred # 0 => (Cardinality(NoteRequests) - 1) * MaxSize + MaxSize <= Excess
         /\ blurred' = blurred => Excess' = Excess
         /\ blurred' = blurred + 1 => Excess' = Excess + MaxSize
PROOF
  <1>1. Cardinality(NoteRequests) - 1 \in Nat /\ MaxSize \in Nat
    BY CountIsNat, NotesAssumption
  <1>2. ASSUME NEW a \in Nat, NEW b \in Nat, NEW m \in Nat
        PROVE  /\ (a + b) * m = a * m + b * m /\ a * m \in Nat /\ b * m \in Nat
               /\ (b + 1) * m = b * m + m /\ (a + (b + 1)) * m = (a + b) * m + m
    OBVIOUS
  <1>3. ASSUME blurred # 0 PROVE blurred * MaxSize >= MaxSize
    <2>1. blurred - 1 \in Nat
      BY <1>3
    <2>2. (blurred - 1 + 1) * MaxSize = (blurred - 1) * MaxSize + MaxSize
      BY <1>1, <1>2, <2>1
    <2>3. (blurred - 1) * MaxSize \in Nat /\ blurred - 1 + 1 = blurred
      BY <1>1, <1>2, <2>1
    <2> QED BY <1>1, <2>2, <2>3
  <1> DEFINE k == Cardinality(NoteRequests) - 1
  <1>4. Excess = (k + blurred) * MaxSize /\ Excess' = (k + blurred') * MaxSize
    BY DEF Excess
  <1>5. k \in Nat /\ (Cardinality(NoteRequests) - 1) * MaxSize = k * MaxSize
    BY <1>1
  <1> HIDE DEF k
  <1>6. /\ (k + blurred) * MaxSize = k * MaxSize + blurred * MaxSize
        /\ k * MaxSize \in Nat /\ blurred * MaxSize \in Nat
        /\ (k + (blurred + 1)) * MaxSize = (k + blurred) * MaxSize + MaxSize
    BY <1>1, <1>2, <1>5
  <1>7. blurred' = blurred => Excess' = Excess
    BY <1>4
  <1>8. blurred' = blurred + 1 => Excess' = Excess + MaxSize
    BY <1>4, <1>6
  <1> QED BY <1>1, <1>3, <1>4, <1>5, <1>6, <1>7, <1>8

LEMMA InitiallyWithinQuota == NotesInit => ForeseenIsBounded
PROOF
  <1> SUFFICES ASSUME NotesInit PROVE ForeseenIsBounded
    OBVIOUS
  <1>1. \A r \in NoteRequests : edit[r].pc = "idle"
    BY DEF NotesInit, NoEdit
  <1>2. Live = {} /\ Creating = {}
    BY <1>1 DEF NotesInit, UnbornNote, Live, Creating, MayWrite, NoteAt
  <1>3. /\ \A r \in NoteRequests : ~Rewrites(r) /\ InMind(r) = {} /\ ToCreate(r) = {}
        /\ Corpus = {}
    BY <1>1, <1>2 DEF Rewrites, InMind, ToCreate, MayWrite, Corpus, TextsOf
  <1>4. Foreseen = {} /\ ForeseenNew = {}
    BY <1>3 DEF Foreseen, ForeseenNew
  <1>5. PICK r \in NoteRequests : TRUE
    BY NotesAssumption
  <1>6. Fits(r)
    BY <1>3 DEF Fits
  <1>7. Cardinality({}) = 0
    BY FS_EmptySet
  <1>8. Excess \in Nat
    BY ExcessGrows DEF NotesInit
  <1> QED BY <1>2, <1>3, <1>4, <1>6, <1>7, <1>8, CountIsNat, NotesAssumption
          DEF ForeseenIsBounded, Sized, Count

\* What the other requests foresee, while one of them moves.
LEMMA OthersForesee ==
  ASSUME NotesInv, NEW r \in NoteRequests, NEW w \in Edit,
         edit' = [edit EXCEPT ![r] = w]
  PROVE  /\ edit'[r] = w
         /\ \A s \in NoteRequests \ {r} :
              /\ edit'[s] = edit[s]
              /\ ToCreate(s)' = ToCreate(s) /\ (s \in Creating' <=> s \in Creating)
              /\ MayWrite(s)' <=> MayWrite(s)
              /\ Rewrites(s)' <=> Rewrites(s)
              /\ TextOf(s)' = TextOf(s)
              /\ note' = note => InMind(s)' = InMind(s)
         /\ note' = note => Corpus' = Corpus /\ Count' = Count /\ Live' = Live
PROOF
  <1>1. /\ edit'[r] = w
        /\ \A s \in NoteRequests \ {r} : edit'[s] = edit[s]
    BY DEF NotesInv, NotesTypeOK
  <1>2. ASSUME NEW s \in NoteRequests \ {r}
        PROVE  /\ ToCreate(s)' = ToCreate(s) /\ (s \in Creating' <=> s \in Creating)
               /\ MayWrite(s)' <=> MayWrite(s)
               /\ Rewrites(s)' <=> Rewrites(s)
               /\ TextOf(s)' = TextOf(s)
    <2>1. edit'[s] = edit[s]
      BY <1>1
    <2>2. (s \in Creating' <=> s \in Creating) /\ (MayWrite(s)' <=> MayWrite(s))
      BY <2>1 DEF Creating, MayWrite, NoteAt
    <2>3. TextOf(s)' = TextOf(s)
      BY <2>1, <2>2 DEF TextOf
    <2>4. ToCreate(s)' = ToCreate(s)
      BY <2>1, <2>2 DEF ToCreate, BytesOf
    <2> QED BY <2>1, <2>2, <2>3, <2>4 DEF Rewrites
  <1>3. ASSUME NEW s \in NoteRequests \ {r}, note' = note
        PROVE  InMind(s)' = InMind(s)
    BY <1>1, <1>2, <1>3 DEF InMind, BytesOf
  <1>4. note' = note => Corpus' = Corpus /\ Count' = Count /\ Live' = Live
    BY DEF Corpus, TextsOf, Count, Live, BytesOf
  <1> QED BY <1>1, <1>2, <1>3, <1>4

\* A step of r that changes no note and foresees nothing new.
LEMMA QuietQuota ==
  ASSUME NotesInv, ForeseenIsBounded, NotesInv', NEW r \in NoteRequests, NEW w \in Edit,
         edit' = [edit EXCEPT ![r] = w], UNCHANGED <<note, blurred>>,
         InMind(r)' \subseteq Foreseen, ToCreate(r)' \subseteq ToCreate(r),
         r \in Creating' => r \in Creating \/ Count < MaxCount,
         Rewrites(r)' => TextOf(r)' \in Texts,
         Fits(r) => Fits(r)'
  PROVE  ForeseenIsBounded'
PROOF
  <1>1. /\ \A s \in NoteRequests \ {r} :
             /\ ToCreate(s)' = ToCreate(s) /\ (s \in Creating' <=> s \in Creating)
             /\ MayWrite(s)' <=> MayWrite(s)
             /\ Rewrites(s)' <=> Rewrites(s)
             /\ TextOf(s)' = TextOf(s) /\ InMind(s)' = InMind(s)
        /\ Corpus' = Corpus /\ Count' = Count
    BY OthersForesee
  <1>2. Sized'
    BY <1>1 DEF ForeseenIsBounded, Sized, Texts, Writable
  <1>3. ASSUME blurred' = 0 PROVE \E s \in NoteRequests : Fits(s)'
    <2>1. PICK s \in NoteRequests : Fits(s)
      BY <1>3 DEF ForeseenIsBounded
    <2>2. CASE s = r
      BY <2>1, <2>2
    <2>3. CASE s # r
      BY <1>1, <2>1, <2>3 DEF Fits
    <2> QED BY <2>2, <2>3
  <1>4. Foreseen' \subseteq Foreseen /\ ForeseenNew' \subseteq ForeseenNew
    <2>1. \A s \in NoteRequests : InMind(s)' \subseteq Foreseen
      BY <1>1 DEF Foreseen
    <2>2. \A s \in NoteRequests : ToCreate(s)' \subseteq ToCreate(s)
      BY <1>1
    <2>3. Corpus' \subseteq Foreseen
      BY <1>1 DEF Foreseen
    <2>4. Foreseen' = Corpus' \cup UNION {InMind(s)' : s \in NoteRequests}
      BY DEF Foreseen
    <2>5. ForeseenNew' = UNION {ToCreate(s)' : s \in NoteRequests}
      BY DEF ForeseenNew
    <2> QED BY <2>1, <2>2, <2>3, <2>4, <2>5 DEF ForeseenNew
  <1>5. Sized
    BY DEF ForeseenIsBounded
  <1>6. /\ Cardinality(Foreseen') \in Nat /\ Cardinality(ForeseenNew') \in Nat
        /\ Cardinality(Foreseen') <= Cardinality(Foreseen)
        /\ Cardinality(ForeseenNew') <= Cardinality(ForeseenNew)
    BY <1>4, <1>5, ForeseenIsFinite, FS_Subset, FS_CardinalityType
  <1>7. /\ Cardinality(Creating') \in Nat
        /\ \/ Cardinality(Creating') <= Cardinality(Creating)
           \/ Count < MaxCount /\ Cardinality(Creating') <= Cardinality(NoteRequests)
    <2>1. Creating' \subseteq NoteRequests
      BY DEF Creating
    <2>2. /\ Cardinality(Creating') \in Nat
          /\ Cardinality(Creating') <= Cardinality(NoteRequests)
      BY <2>1, FS_Subset, FS_CardinalityType, NotesAssumption
    <2>3. CASE r \in Creating' => r \in Creating
      <3>1. Creating' \subseteq Creating
        BY <1>1, <2>1, <2>3
      <3> QED BY <2>2, <3>1, CountIsNat, FS_Subset
    <2> QED BY <2>2, <2>3
  <1>8. Cardinality(Foreseen') + Cardinality(ForeseenNew') <= MaxBytes + Excess'
    <2>1. Excess' = Excess /\ Excess \in Nat
      BY ExcessGrows DEF NotesInv, NotesTypeOK
    <2>2. /\ Cardinality(Foreseen) + Cardinality(ForeseenNew) <= MaxBytes + Excess
          /\ Cardinality(Foreseen) \in Nat /\ Cardinality(ForeseenNew) \in Nat
      BY <1>5, ForeseenIsFinite DEF ForeseenIsBounded
    <2> QED BY <1>6, <2>1, <2>2, NotesAssumption
  <1>9. Count' + Cardinality(Creating') < MaxCount + Cardinality(NoteRequests)
    <2>1. /\ Count + Cardinality(Creating) < MaxCount + Cardinality(NoteRequests)
          /\ Count' = Count
      BY <1>1 DEF ForeseenIsBounded
    <2> QED BY <1>7, <2>1, CountIsNat, NotesAssumption
  <1> QED BY <1>2, <1>3, <1>8, <1>9 DEF ForeseenIsBounded

\* A step after which r foresees nothing, or still the same.
LEMMA ForgettingStep ==
  ASSUME NotesInv, ForeseenIsBounded, NotesInv', NEW r \in NoteRequests, NEW w \in Edit,
         edit' = [edit EXCEPT ![r] = w], UNCHANGED <<note, blurred>>,
         \/ w.pc \notin {"snapshot", "target", "quota", "write", "abandoned"}
         \/ /\ w.pc \notin {"write", "abandoned"} /\ w.page = 0
            /\ w.op \notin {"update", "restore"}
  PROVE  ForeseenIsBounded'
PROOF
  <1>1. edit'[r] = w
    BY OthersForesee
  <1>2. ~Rewrites(r)' /\ r \notin Creating' /\ ~MayWrite(r)'
    BY <1>1 DEF Rewrites, Creating, MayWrite, NoteAt
  <1>3. InMind(r)' = {} /\ ToCreate(r)' = {}
    BY <1>2 DEF InMind, ToCreate
  <1>4. Fits(r)'
    BY <1>3 DEF Fits
  <1> QED BY <1>2, <1>3, <1>4, QuietQuota

LEMMA SameMindStep ==
  ASSUME NotesInv, ForeseenIsBounded, NotesInv', NEW r \in NoteRequests, NEW w \in Edit,
         edit' = [edit EXCEPT ![r] = w], UNCHANGED <<note, blurred>>,
         w.op = "create" /\ w.pc \notin {"write", "abandoned"} => Count < MaxCount \/ r \in Creating,
         edit[r].pc \in {"snapshot", "target", "quota", "write", "abandoned"},
         w.pc \in {"snapshot", "target", "quota", "write", "abandoned"},
         edit[r].pc \in {"write", "abandoned"} <=> w.pc \in {"write", "abandoned"},
         w.op = edit[r].op, w.note = edit[r].note,
         IF w.pc \in {"write", "abandoned"} THEN w.content = edit[r].content
                                           ELSE w.old = edit[r].old
  PROVE  ForeseenIsBounded'
PROOF
  <1>1. edit'[r] = w
    BY OthersForesee
  <1>2. /\ MayWrite(r)' <=> MayWrite(r)
        /\ r \in Creating' => r \in Creating \/ Count < MaxCount
        /\ Rewrites(r)' <=> Rewrites(r)
    BY <1>1 DEF Rewrites, Creating, MayWrite, NoteAt
  <1>3. TextOf(r)' = TextOf(r)
    BY <1>1, <1>2 DEF TextOf, MayWrite
  <1>4. InMind(r)' = InMind(r)
    BY <1>1, <1>2, <1>3 DEF InMind, BytesOf
  <1>5. ToCreate(r)' = ToCreate(r)
    <2>1. MayWrite(r) => w.content = edit[r].content
      BY DEF MayWrite
    <2> QED BY <1>1, <1>2, <2>1 DEF ToCreate, BytesOf
  <1>6. Corpus' = Corpus
    BY OthersForesee
  <1>7. Fits(r) => Fits(r)'
    BY <1>2, <1>4, <1>5, <1>6 DEF Fits
  <1>8. InMind(r)' \subseteq Foreseen
    BY <1>4 DEF Foreseen
  <1>9. Rewrites(r)' => TextOf(r)' \in Texts
    BY <1>2, <1>3 DEF ForeseenIsBounded, Sized
  <1> QED BY <1>2, <1>5, <1>7, <1>8, <1>9, QuietQuota
LEMMA LeavingKeepsQuota ==
  ASSUME NotesInv, ForeseenIsBounded, NotesInv', NEW r \in NoteRequests, NoteLeaves(r),
         UNCHANGED <<note, blurred>>
  PROVE  ForeseenIsBounded'
PROOF
  <1>1. edit' = [edit EXCEPT ![r] = NoEdit] /\ NoEdit \in Edit /\ NoEdit.pc = "idle"
    BY NoEditType DEF NoteLeaves
  <1> QED BY <1>1, ForgettingStep

LEMMA StartNoteQuota ==
  ASSUME NotesInv, ForeseenIsBounded, NotesInv', NEW r \in NoteRequests, NEW user \in NoteUsers,
         StartNote(r, user)
  PROVE  ForeseenIsBounded'
PROOF
  <1>1. ASSUME NEW c \in Contents, StartCreate(r, user, c) PROVE ForeseenIsBounded'
    <2> DEFINE w == [NoEdit EXCEPT !.pc = "quota", !.op = "create", !.content = c]
    <2>1. w \in Edit /\ w.pc = "quota" /\ w.op = "create" /\ w.page = 0
      BY NoEditType DEF Edit, NotePoints, NoteOperations, NoEdit
    <2>2. edit' = [edit EXCEPT ![r] = w] /\ UNCHANGED <<note, blurred>>
      BY <1>1 DEF StartCreate, noteHistory, quotaHistory
    <2> HIDE DEF w
    <2> QED BY <2>1, <2>2, ForgettingStep
  <1>2. ASSUME NEW op \in NoteOperations, NEW n \in NoteIds,
               NEW c \in Contents \cup {NoContent}, NEW e \in 0..MaxVersion,
               NEW t \in 0..MaxVersion, Open(r, user, op, n, c, e, t)
        PROVE  ForeseenIsBounded'
    <2> DEFINE w == [NoEdit EXCEPT !.pc = "read", !.op = op, !.note = n, !.content = c,
                                   !.expected = e, !.target = t]
    <2>1. w \in Edit /\ w.pc = "read"
      BY NoEditType DEF Edit, NotePoints
    <2>2. edit' = [edit EXCEPT ![r] = w] /\ UNCHANGED <<note, blurred>>
      BY <1>2 DEF Open, noteHistory, quotaHistory
    <2> HIDE DEF w
    <2> QED BY <2>1, <2>2, ForgettingStep
  <1>3. /\ \A e \in Versions : e \in 0..MaxVersion
        /\ 0 \in 0..MaxVersion
        /\ {"get", "delete", "update", "restore"} \subseteq NoteOperations
    BY NotesAssumption DEF Versions, NoteOperations
  <1>4. ASSUME NEW n \in NoteIds, StartGet(r, user, n) \/ StartDelete(r, user, n)
        PROVE  ForeseenIsBounded'
    BY <1>2, <1>3, <1>4 DEF StartGet, StartDelete
  <1>5. ASSUME NEW n \in NoteIds, NEW e \in Versions, NEW c \in Contents,
               StartUpdate(r, user, n, c, e)
        PROVE  ForeseenIsBounded'
    BY <1>2, <1>3, <1>5 DEF StartUpdate
  <1>6. ASSUME NEW n \in NoteIds, NEW e \in Versions, NEW t \in Versions,
               StartRestore(r, user, n, e, t)
        PROVE  ForeseenIsBounded'
    BY <1>2, <1>3, <1>6 DEF StartRestore
  <1> QED BY <1>1, <1>4, <1>5, <1>6 DEF StartNote

\* What is read is there: foreseen, and in the corpus.
LEMMA ReadNoteQuota ==
  ASSUME NotesInv, ForeseenIsBounded, NotesInv', NEW r \in NoteRequests, ReadNote(r)
  PROVE  ForeseenIsBounded'
PROOF
  <1> DEFINE n == edit[r].note
  <1>1. /\ edit[r] \in Edit /\ edit \in [NoteRequests -> Edit] /\ edit[r].pc = "read"
        /\ Knowing(r) /\ UNCHANGED <<note, blurred>>
    BY DEF NotesInv, NotesTypeOK, ReadNote, NoteAt, noteHistory, quotaHistory
  <1>2. n \in NoteIds /\ note[n] \in Note
    BY <1>1 DEF NotesInv, NotesTypeOK, Knowing
  <1>3. CASE ~note[n].live
    BY <1>1, <1>3, LeavingKeepsQuota DEF ReadNote
  <1>4. CASE note[n].live /\ edit[r].op = "delete"
    <2> DEFINE w == [edit[r] EXCEPT !.pc = "delete"]
    <2>1. w \in Edit /\ w.pc = "delete" /\ edit' = [edit EXCEPT ![r] = w]
      BY <1>1, <1>4 DEF Edit, NotePoints, ReadNote, NoteGoes
    <2> HIDE DEF w
    <2> QED BY <1>1, <2>1, ForgettingStep
  <1>5. CASE note[n].live /\ edit[r].op # "delete"
    <2> DEFINE w == [edit[r] EXCEPT !.pc = "snapshot", !.seen = note[n].version,
                                    !.old = note[n].content]
    <2>1. w \in Edit /\ w.pc = "snapshot" /\ w.note = n /\ w.old = note[n].content
      BY <1>1, <1>2 DEF Edit, NotePoints, Note
    <2>2. edit' = [edit EXCEPT ![r].pc = "snapshot", ![r].seen = note[n].version,
                               ![r].old = note[n].content]
      BY <1>5 DEF ReadNote
    <2>3. edit' = [edit EXCEPT ![r] = w]
      BY <1>1, <2>2
    <2> HIDE DEF w
    <2>4. edit'[r] = w /\ Corpus' = Corpus
      BY <1>1, <2>1, <2>3, OthersForesee
    <2>5. n \in Live /\ note[n].content \in Texts
      BY <1>2, <1>5, LiveHasText DEF Live
    <2>6. TextOf(r)' = note[n].content /\ r \notin Creating' /\ ToCreate(r)' = {}
      BY <2>1, <2>4 DEF TextOf, MayWrite, Creating, NoteAt, ToCreate
    <2>7. InMind(r)' \subseteq Corpus
      BY <1>1, <2>1, <2>4, <2>5, <2>6 DEF InMind, Corpus, TextsOf, BytesOf
    <2>8. Fits(r)'
      BY <2>4, <2>6, <2>7 DEF Fits
    <2>9. InMind(r)' \subseteq Foreseen
      BY <2>7 DEF Foreseen
    <2> QED BY <1>1, <2>1, <2>3, <2>5, <2>6, <2>8, <2>9, QuietQuota
  <1> QED BY <1>3, <1>4, <1>5

LEMMA OnTheWayQuota ==
  ASSUME NotesInv, ForeseenIsBounded, NotesInv', NEW r \in NoteRequests,
         Snapshot(r) \/ Target(r) \/ LoseWrite(r)
  PROVE  ForeseenIsBounded'
PROOF
  <1>1. /\ edit[r] \in Edit /\ edit \in [NoteRequests -> Edit]
        /\ UNCHANGED <<note, blurred>>
        /\ edit[r].pc \in {"snapshot", "target", "write"} /\ Knowing(r)
    BY DEF NotesInv, NotesTypeOK, Snapshot, Target, LoseWrite, NoteAt, noteHistory,
           quotaHistory
  <1>2. CASE NoteLeaves(r)
    BY <1>1, <1>2, LeavingKeepsQuota
  <1>3. CASE Snapshot(r) /\ ~NoteLeaves(r)
    <2> DEFINE p == IF edit[r].op = "restore" THEN "target" ELSE "quota"
               w == [edit[r] EXCEPT !.expected = 0, !.pc = p]
    <2>1. edit[r].pc = "snapshot" /\ edit' = [edit EXCEPT ![r].expected = 0, ![r].pc = p]
      BY <1>3 DEF Snapshot, NoteAt
    <2>2. p \in {"target", "quota"} /\ 0 \in 0..MaxVersion
      BY NotesAssumption
    <2> HIDE DEF p
    <2>3. /\ w \in Edit /\ w.pc \in {"target", "quota"} /\ w.op = edit[r].op
          /\ w.note = edit[r].note /\ w.old = edit[r].old /\ edit[r].op # "create"
      BY <1>1, <2>1, <2>2 DEF Edit, NotePoints, Knowing
    <2>4. edit' = [edit EXCEPT ![r] = w]
      BY <1>1, <2>1
    <2> HIDE DEF w
    <2> QED BY <1>1, <2>1, <2>3, <2>4, SameMindStep
  <1>4. CASE Target(r) /\ ~NoteLeaves(r)
    <2> DEFINE c == revisions[edit[r].note][edit[r].target]
               w == [edit[r] EXCEPT !.pc = "quota", !.content = c, !.target = 0]
    <2>1. /\ edit[r].pc = "target"
          /\ edit' = [edit EXCEPT ![r].pc = "quota", ![r].content = c, ![r].target = 0]
      BY <1>4 DEF Target, NoteAt
    <2>2. edit[r].note \in NoteIds /\ edit[r].target \in Versions
      BY <1>1, <2>1 DEF Knowing
    <2>3. c \in Contents \cup {NoContent} /\ 0 \in 0..MaxVersion
      BY <2>2, NotesAssumption DEF NotesInv, NotesTypeOK
    <2> HIDE DEF c
    <2>4. /\ w \in Edit /\ w.pc = "quota" /\ w.op = edit[r].op
          /\ w.note = edit[r].note /\ w.old = edit[r].old /\ edit[r].op # "create"
      BY <1>1, <2>1, <2>3 DEF Edit, NotePoints, Knowing
    <2>5. edit' = [edit EXCEPT ![r] = w]
      BY <1>1, <2>1
    <2> HIDE DEF w
    <2> QED BY <1>1, <2>1, <2>4, <2>5, SameMindStep
  <1>5. CASE LoseWrite(r)
    <2> DEFINE w == [edit[r] EXCEPT !.pc = "abandoned"]
    <2>1. edit[r].pc = "write" /\ edit' = [edit EXCEPT ![r] = w]
      BY <1>1, <1>5 DEF LoseWrite, NoteAt, NoteGoes
    <2>2. /\ w \in Edit /\ w.pc = "abandoned" /\ w.op = edit[r].op
          /\ w.note = edit[r].note /\ w.content = edit[r].content
      BY <1>1 DEF Edit, NotePoints
    <2> HIDE DEF w
    <2> QED BY <1>1, <2>1, <2>2, SameMindStep
  <1> QED BY <1>2, <1>3, <1>4, <1>5

LEMMA EndingQuota ==
  ASSUME NotesInv, ForeseenIsBounded, NotesInv', NEW r \in NoteRequests,
         RecordWrite(r) \/ NoteRecordFails(r) \/ NoteDies(r) \/ RefuseWrite(r)
  PROVE  ForeseenIsBounded'
PROOF
  <1>1. /\ edit[r] \in Edit /\ edit \in [NoteRequests -> Edit]
        /\ UNCHANGED <<note, blurred>>
    BY DEF NotesInv, NotesTypeOK, RecordWrite, NoteRecordFails, NoteDies, RefuseWrite,
           noteHistory, quotaHistory
  <1>2. CASE NoteLeaves(r)
    BY <1>1, <1>2, LeavingKeepsQuota
  <1>3. CASE NoteGoes(r, "undo")
    <2> DEFINE w == [edit[r] EXCEPT !.pc = "undo"]
    <2>1. w \in Edit /\ w.pc = "undo" /\ edit' = [edit EXCEPT ![r] = w]
      BY <1>1, <1>3 DEF Edit, NotePoints, NoteGoes
    <2> HIDE DEF w
    <2> QED BY <1>1, <2>1, ForgettingStep
  <1> QED BY <1>2, <1>3 DEF RecordWrite, NoteRecordFails, NoteDies, RefuseWrite
LEMMA UnionBound ==
  ASSUME NEW S, NEW T, IsFiniteSet(S), IsFiniteSet(T)
  PROVE  /\ IsFiniteSet(S \cup T)
         /\ Cardinality(S \cup T) <= Cardinality(S) + Cardinality(T)
PROOF
  <1>1. Cardinality(S \cup T) = Cardinality(S) + Cardinality(T) - Cardinality(S \cap T)
    BY FS_Union
  <1>2. IsFiniteSet(S \cup T) /\ IsFiniteSet(S \cap T)
    BY FS_Union, FS_Subset
  <1> QED BY <1>1, <1>2, FS_CardinalityType

\* With what one request foresees within the quota, all is within it and the
\* others' sizes.
LEMMA OneFits ==
  ASSUME NotesInv, NotesInv', blurred' = blurred, Sized', NEW l \in NoteRequests, Fits(l)',
         Cardinality((Corpus \cup InMind(l))') + Cardinality(ToCreate(l)') <= MaxBytes,
         Count' + Cardinality(Creating') < MaxCount + Cardinality(NoteRequests)
  PROVE  ForeseenIsBounded'
PROOF
  <1>1. /\ Cardinality(Foreseen') \in Nat /\ Cardinality(ForeseenNew') \in Nat
        /\ IsFiniteSet(Foreseen') /\ IsFiniteSet(ForeseenNew')
    <2>1. (NotesInv /\ Sized =>
             /\ IsFiniteSet(Foreseen) /\ IsFiniteSet(ForeseenNew)
             /\ Cardinality(Foreseen) \in Nat /\ Cardinality(ForeseenNew) \in Nat)'
      BY ForeseenIsFinite, PTL
    <2> QED BY <2>1
  <1>2. /\ Cardinality((Corpus \cup InMind(l))') \in Nat
        /\ Cardinality(ToCreate(l)') \in Nat
    <2>1. (Corpus \cup InMind(l))' \subseteq Foreseen' /\ ToCreate(l)' \subseteq ForeseenNew'
      BY DEF Foreseen, ForeseenNew
    <2> QED BY <1>1, <2>1, FS_Subset, FS_CardinalityType
  <1>3. /\ Excess' = Excess /\ Excess \in Nat
        /\ (Cardinality(NoteRequests) - 1) * MaxSize \in Nat
        /\ (Cardinality(NoteRequests) - 1) * MaxSize <= Excess
    BY ExcessGrows DEF NotesInv, NotesTypeOK
  <1>4. Cardinality(Foreseen') + Cardinality(ForeseenNew')
          <= Cardinality((Corpus \cup InMind(l))') + Cardinality(ToCreate(l)')
               + (Cardinality(NoteRequests) - 1) * MaxSize
    BY ForeseenBoundNext
  <1>5. Cardinality(Foreseen') + Cardinality(ForeseenNew') <= MaxBytes + Excess'
    BY <1>1, <1>2, <1>3, <1>4, NotesAssumption
  <1> QED BY <1>5 DEF ForeseenIsBounded

\* The pages of the quota foresee nothing new, and neither does a check that
\* fails; on the first page, a creation has found a place.
LEMMA CountingQuota ==
  ASSUME NotesInv, ForeseenIsBounded, NotesInv', NEW r \in NoteRequests,
         CountPage(r) \/ FailQuota(r)
  PROVE  ForeseenIsBounded'
PROOF
  <1>1. /\ edit[r] \in Edit /\ edit \in [NoteRequests -> Edit]
        /\ edit[r].pc = "quota" /\ UNCHANGED <<note, blurred>>
    BY DEF NotesInv, NotesTypeOK, CountPage, FailQuota, NoteAt, noteHistory, quotaHistory
  <1>2. CASE FailQuota(r)
    BY <1>1, <1>2, LeavingKeepsQuota DEF FailQuota
  <1>3. CASE CountPage(r)
    <2> DEFINE w == [edit[r] EXCEPT !.page = NextPage(r), !.counted = Counted(r),
                                    !.found = Found(r)]
    <2>1. NextPage(r) \in Nat /\ Counted(r) \in Nat /\ Found(r) \in Nat
      BY CountsAreNat
    <2>2. /\ w \in Edit /\ w.pc = "quota" /\ w.op = edit[r].op /\ w.note = edit[r].note
          /\ w.old = edit[r].old
      BY <1>1, <2>1 DEF Edit
    <2>3. edit' = [edit EXCEPT ![r] = w]
      BY <1>1, <1>3 DEF CountPage
    <2> HIDE DEF w
    <2>4. edit[r].op = "create" => Count < MaxCount \/ r \in Creating
      BY <1>1, <1>3, CountIsNat, NotesAssumption DEF CountPage, NoPlace, Creating, NoteAt
    <2> QED BY <1>1, <2>2, <2>3, <2>4, SameMindStep
  <1> QED BY <1>2, <1>3

\* A check that passes.  A creation for which the bytes there are leave room fits
\* with the corpus, also if others were let pass before; so does a longer text,
\* or the one request that fits is another and still does.  A blurred check adds
\* what one write adds.
LEMMA PassQuotaQuota ==
  ASSUME NotesInv, CountIsExact, ForeseenIsBounded, NotesInv', NEW r \in NoteRequests,
         PassQuota(r)
  PROVE  ForeseenIsBounded'
PROOF
  <1> DEFINE n == edit[r].note  c == edit[r].content  o == edit[r].old
             w == [edit[r] EXCEPT !.pc = "write", !.old = NoContent,
                                  !.page = 0, !.counted = 0, !.found = 0]
  <1>1. /\ edit[r] \in Edit /\ edit \in [NoteRequests -> Edit] /\ note' = note
        /\ edit[r].pc = "quota" /\ Knowing(r) /\ Sized /\ blurred \in Nat
    BY DEF NotesInv, NotesTypeOK, PassQuota, NoteAt, ForeseenIsBounded
  <1>2. /\ edit' = [edit EXCEPT ![r].pc = "write", ![r].old = NoContent,
                               ![r].page = 0, ![r].counted = 0, ![r].found = 0]
        /\ WithinQuota(r) /\ ~NextPageNeeded(r) /\ ~NoPlace(r)
    BY DEF PassQuota
  <1>4. /\ w \in Edit /\ w.pc = "write" /\ w.op = edit[r].op /\ w.note = n
        /\ w.content = c
    BY <1>1 DEF Edit, NotePoints
  <1>5. edit' = [edit EXCEPT ![r] = w]
    BY <1>1, <1>2
  <1> HIDE DEF w
  <1>6. edit'[r] = w /\ Corpus' = Corpus /\ Count' = Count
    BY <1>1, <1>4, <1>5, OthersForesee
  <1>7. /\ c \in Texts /\ SizeOf[c] \in Nat /\ SizeOf[c] <= MaxSize /\ c \in Contents
        /\ edit[r].op \in {"create", "update", "restore"}
    BY <1>1, TextsAreSmall DEF Knowing
  <1>8. MayWrite(r)' /\ TextOf(r)' = c /\ ~MayWrite(r) /\ ToCreate(r) = {}
    BY <1>1, <1>4, <1>6 DEF MayWrite, TextOf, ToCreate
  <1>9. \A s \in NoteRequests \ {r} :
          /\ ToCreate(s)' = ToCreate(s) /\ (s \in Creating' <=> s \in Creating)
          /\ MayWrite(s)' <=> MayWrite(s)
          /\ Rewrites(s)' <=> Rewrites(s)
          /\ TextOf(s)' = TextOf(s) /\ InMind(s)' = InMind(s)
    BY <1>1, <1>4, <1>5, OthersForesee
  <1>10. Sized'
    BY <1>1, <1>7, <1>8, <1>9 DEF Sized, Texts, Writable
  <1>11. IsFiniteSet(Corpus) /\ Bytes \in Nat /\ Bytes = Cardinality(Corpus)
    BY <1>1, ForeseenIsFinite DEF Bytes
  <1>12. Count' + Cardinality(Creating') < MaxCount + Cardinality(NoteRequests)
    <2>1. /\ Cardinality(Creating') \in Nat
          /\ Cardinality(Creating') <= Cardinality(NoteRequests)
      <3>1. (/\ Cardinality(Creating) \in Nat
             /\ Cardinality(Creating) <= Cardinality(NoteRequests))'
        BY CountIsNat, PTL
      <3> QED BY <3>1
    <2>2. CASE Count < MaxCount
      BY <1>6, <2>1, <2>2, CountIsNat, NotesAssumption
    <2>3. CASE ~(Count < MaxCount)
      <3>1. r \in Creating' => r \in Creating
        BY <1>1, <1>2, <1>4, <1>6, <2>3, CountIsNat, NotesAssumption
           DEF Creating, NoPlace, NoteAt, MayWrite
      <3>2. Creating' \subseteq Creating
        <4>1. Creating' \subseteq NoteRequests
          BY DEF Creating
        <4> QED BY <1>9, <3>1, <4>1
      <3>3. Cardinality(Creating') <= Cardinality(Creating)
        BY <3>2, CountIsNat, FS_Subset
      <3>4. Count + Cardinality(Creating) < MaxCount + Cardinality(NoteRequests)
        BY DEF ForeseenIsBounded
      <3> QED BY <1>6, <2>1, <3>3, <3>4, CountIsNat, NotesAssumption
    <2> QED BY <2>2, <2>3
  <1>13. InMind(r)' \subseteq BytesOf(n, c) /\ ToCreate(r)' \subseteq BytesOf(r, c)
    BY <1>4, <1>6, <1>8 DEF InMind, ToCreate, BytesOf
  <1>14. CASE ~(Projected(r, Bytes) <= MaxBytes)
    <2>1. blurred' = blurred + 1
      <3>1. Bytes \in Nat /\ Projected(r, Bytes) \in Int
        BY <1>1, <1>7, <1>11, TextsAreSmall DEF Projected, Replaced, Sized, Rewrites, TextOf, MayWrite
      <3>2. r \in shifted
        BY <1>2, <1>14, AllFound DEF WithinQuota
      <3> QED BY <1>14, <3>1, <3>2, NotesAssumption DEF PassQuota
    <2>2. Excess' = Excess + MaxSize /\ Excess \in Nat
      BY <1>1, <2>1, ExcessGrows
    <2>3. /\ Foreseen' \subseteq Foreseen \cup InMind(r)'
          /\ ForeseenNew' \subseteq ForeseenNew \cup ToCreate(r)'
      <3>1. /\ Foreseen' = Corpus' \cup UNION {InMind(s)' : s \in NoteRequests}
            /\ ForeseenNew' = UNION {ToCreate(s)' : s \in NoteRequests}
        BY DEF Foreseen, ForeseenNew
      <3> QED BY <1>6, <1>9, <3>1 DEF Foreseen, ForeseenNew
    <2>4. /\ IsFiniteSet(InMind(r)') /\ IsFiniteSet(ToCreate(r)')
          /\ Cardinality(InMind(r)') \in Nat /\ Cardinality(ToCreate(r)') \in Nat
          /\ Cardinality(InMind(r)') <= SizeOf[c] /\ Cardinality(ToCreate(r)') <= SizeOf[c]
      BY <1>7, <1>13, BytesCounted, FS_Subset, FS_CardinalityType
    <2>5. InMind(r)' = {} \/ ToCreate(r)' = {}
      BY <1>4, <1>6 DEF InMind, Rewrites, ToCreate
    <2>6. Cardinality(InMind(r)') + Cardinality(ToCreate(r)') <= MaxSize
      BY <1>7, <2>4, <2>5, FS_EmptySet, NotesAssumption
    <2>7. /\ IsFiniteSet(Foreseen) /\ IsFiniteSet(ForeseenNew)
          /\ Cardinality(Foreseen) \in Nat /\ Cardinality(ForeseenNew) \in Nat
      BY <1>1, ForeseenIsFinite
    <2>8. /\ Cardinality(Foreseen') \in Nat
          /\ Cardinality(Foreseen') <= Cardinality(Foreseen) + Cardinality(InMind(r)')
      <3>1. /\ IsFiniteSet(Foreseen \cup InMind(r)')
            /\ Cardinality(Foreseen \cup InMind(r)')
                 <= Cardinality(Foreseen) + Cardinality(InMind(r)')
        BY <2>4, <2>7, UnionBound
      <3>2. /\ IsFiniteSet(Foreseen')
            /\ Cardinality(Foreseen') <= Cardinality(Foreseen \cup InMind(r)')
        BY <2>3, <3>1, FS_Subset
      <3>3. Cardinality(Foreseen') \in Nat /\ Cardinality(Foreseen \cup InMind(r)') \in Nat
        BY <3>1, <3>2, FS_CardinalityType
      <3> QED BY <2>4, <2>7, <3>1, <3>2, <3>3
    <2>9. /\ Cardinality(ForeseenNew') \in Nat
          /\ Cardinality(ForeseenNew') <= Cardinality(ForeseenNew) + Cardinality(ToCreate(r)')
      <3>1. /\ IsFiniteSet(ForeseenNew \cup ToCreate(r)')
            /\ Cardinality(ForeseenNew \cup ToCreate(r)')
                 <= Cardinality(ForeseenNew) + Cardinality(ToCreate(r)')
        BY <2>4, <2>7, UnionBound
      <3>2. /\ IsFiniteSet(ForeseenNew')
            /\ Cardinality(ForeseenNew') <= Cardinality(ForeseenNew \cup ToCreate(r)')
        BY <2>3, <3>1, FS_Subset
      <3>3. /\ Cardinality(ForeseenNew') \in Nat
            /\ Cardinality(ForeseenNew \cup ToCreate(r)') \in Nat
        BY <3>1, <3>2, FS_CardinalityType
      <3> QED BY <2>4, <2>7, <3>1, <3>2, <3>3
    <2>10. Cardinality(Foreseen) + Cardinality(ForeseenNew) <= MaxBytes + Excess
      BY DEF ForeseenIsBounded
    <2>11. Cardinality(Foreseen') + Cardinality(ForeseenNew') <= MaxBytes + Excess'
      BY <2>2, <2>4, <2>6, <2>7, <2>8, <2>9, <2>10, NotesAssumption
    <2>12. blurred' # 0
      BY <1>1, <2>1
    <2> QED BY <1>10, <1>12, <2>11, <2>12 DEF ForeseenIsBounded
  <1>15. SUFFICES ASSUME Projected(r, Bytes) <= MaxBytes, blurred' = blurred
                  PROVE  ForeseenIsBounded'
    <2>1. ASSUME Projected(r, Bytes) <= MaxBytes PROVE blurred' = blurred
      <3>1. Projected(r, Bytes) \in Int
        BY <1>1, <1>7, <1>11, TextsAreSmall DEF Projected, Replaced, Sized, Rewrites, TextOf, MayWrite
      <3> QED BY <2>1, <3>1, NotesAssumption DEF PassQuota
    <2> QED BY <1>14, <2>1
  <1>16. CASE edit[r].op = "create"
    <2>1. InMind(r)' = {}
      BY <1>4, <1>6, <1>16 DEF InMind, Rewrites
    <2>2. ToCreate(r)' = BytesOf(r, c)
      BY <1>4, <1>6, <1>8, <1>16 DEF ToCreate, BytesOf
    <2>3. Cardinality(ToCreate(r)') = SizeOf[c]
      BY <1>7, <2>2, BytesCounted
    <2>4. Bytes + SizeOf[c] <= MaxBytes
      BY <1>7, <1>11, <1>15, <1>16 DEF Projected, Replaced
    <2>5. (Corpus \cup InMind(r))' = Corpus
      BY <1>6, <2>1
    <2>6. Cardinality((Corpus \cup InMind(r))') + Cardinality(ToCreate(r)') <= MaxBytes
      BY <1>11, <2>3, <2>4, <2>5
    <2>7. Fits(r)'
      BY <1>8, <2>6 DEF Fits
    <2> QED BY <1>10, <1>12, <1>15, <2>6, <2>7, OneFits
  <1>17. CASE edit[r].op # "create"
    <2>1. /\ n \in NoteIds /\ Rewrites(r) /\ TextOf(r) = o /\ o \in Texts
          /\ r \notin Creating' /\ ToCreate(r)' = {}
      BY <1>1, <1>4, <1>6, <1>7, <1>8, <1>17
         DEF Rewrites, TextOf, MayWrite, Sized, Knowing, Creating, ToCreate
    <2>2. CASE ~note[n].live \/ SizeOf[c] <= SizeOf[o]
      <3>1. InMind(r)' \subseteq InMind(r)
        <4>1. InMind(r)' = IF Rewrites(r)' /\ note[n].live THEN BytesOf(n, c) ELSE {}
          BY <1>1, <1>4, <1>6, <1>8 DEF InMind, BytesOf
        <4>2. InMind(r) = IF note[n].live THEN BytesOf(n, o) ELSE {}
          BY <2>1 DEF InMind
        <4>3. SizeOf[o] \in Nat
          BY <2>1, TextsAreSmall
        <4>4. SizeOf[c] <= SizeOf[o] => BytesOf(n, c) \subseteq BytesOf(n, o)
          BY <1>7, <4>3 DEF BytesOf
        <4> QED BY <2>2, <4>1, <4>2, <4>4
      <3>2. InMind(r)' \subseteq Foreseen
        BY <3>1 DEF Foreseen
      <3>3. Fits(r) => Fits(r)'
        BY <1>6, <1>8, <2>1, <3>1 DEF Fits
      <3> QED BY <1>1, <1>4, <1>5, <1>7, <1>8, <1>15, <2>1, <3>2, <3>3, QuietQuota
    <2>3. CASE note[n].live /\ ~(SizeOf[c] <= SizeOf[o])
      <3>1. SizeOf[o] \in Nat /\ Bytes + SizeOf[c] - SizeOf[o] <= MaxBytes
        BY <1>15, <1>17, <2>1, TextsAreSmall DEF Projected, Replaced
      <3>2. Bytes <= MaxBytes
        BY <1>7, <1>11, <2>3, <3>1, NotesAssumption
      <3>4. CASE blurred # 0
        <4>1. (Corpus \cup InMind(r))' = Corpus \cup InMind(r)' /\ Cardinality({}) = 0
          BY <1>6, FS_EmptySet
        <4>2. /\ IsFiniteSet(InMind(r)') /\ Cardinality(InMind(r)') \in Nat
              /\ Cardinality(InMind(r)') <= SizeOf[c]
          BY <1>7, <1>13, BytesCounted, FS_Subset, FS_CardinalityType
        <4>3. /\ Cardinality((Corpus \cup InMind(r))') \in Nat
              /\ Cardinality((Corpus \cup InMind(r))') <= Bytes + Cardinality(InMind(r)')
          BY <1>11, <4>1, <4>2, UnionBound, FS_CardinalityType
        <4>4. Cardinality(Foreseen') + Cardinality(ForeseenNew')
                <= Cardinality((Corpus \cup InMind(r))') + Cardinality(ToCreate(r)')
                     + (Cardinality(NoteRequests) - 1) * MaxSize
          BY <1>10, ForeseenBoundNext
        <4>5. /\ Excess' = Excess /\ Excess \in Nat
              /\ (Cardinality(NoteRequests) - 1) * MaxSize \in Nat
              /\ (Cardinality(NoteRequests) - 1) * MaxSize + MaxSize <= Excess
          BY <1>1, <1>15, <3>4, ExcessGrows
        <4>6. Cardinality(Foreseen') \in Nat /\ Cardinality(ForeseenNew') \in Nat
          <5>1. (NotesInv /\ Sized =>
                   Cardinality(Foreseen) \in Nat /\ Cardinality(ForeseenNew) \in Nat)'
            BY ForeseenIsFinite, PTL
          <5> QED BY <1>10, <5>1
        <4>7. Cardinality(Foreseen') + Cardinality(ForeseenNew') <= MaxBytes + Excess'
          BY <1>7, <1>11, <2>1, <3>2, <4>1, <4>2, <4>3, <4>4, <4>5, <4>6, NotesAssumption
        <4> QED BY <1>10, <1>12, <1>15, <3>4, <4>7 DEF ForeseenIsBounded
      <3>5. SUFFICES ASSUME blurred = 0 PROVE ForeseenIsBounded'
        BY <3>4
      <3>6. PICK l \in NoteRequests : Fits(l)
        BY <3>5 DEF ForeseenIsBounded
      <3>7. CASE l # r
        <4>1. /\ (Corpus \cup InMind(l))' = Corpus \cup InMind(l)
              /\ ToCreate(l)' = ToCreate(l) /\ InMind(l)' = InMind(l)
          BY <1>6, <1>9, <3>7
        <4>2. Fits(l)'
          BY <1>6, <1>9, <3>6, <3>7, <4>1 DEF Fits
        <4>3. Cardinality(Corpus \cup InMind(l)) + Cardinality(ToCreate(l)) <= MaxBytes
          <5>1. CASE InMind(l) \subseteq Corpus /\ ToCreate(l) = {}
            <6>1. Corpus \cup InMind(l) = Corpus /\ Cardinality(ToCreate(l)) = 0
              BY <5>1, FS_EmptySet
            <6>2. Cardinality(Corpus \cup InMind(l)) = Bytes
              BY <1>11, <6>1
            <6>3. Bytes + 0 <= MaxBytes
              BY <1>11, <3>2, NotesAssumption
            <6> QED BY <6>1, <6>2, <6>3
          <5> QED BY <3>6, <5>1 DEF Fits
        <4> QED BY <1>10, <1>12, <4>1, <4>2, <4>3, <1>15, OneFits
      <3>8. CASE l = r
        <4> DEFINE more == SizeOf[o] + 1 .. SizeOf[c]
        <4>1. InMind(r) = BytesOf(n, o) /\ InMind(r) \subseteq Corpus
          BY <1>8, <2>1, <2>3, <3>6, <3>8 DEF InMind, Fits
        <4>2. InMind(r)' \subseteq BytesOf(n, c)
          BY <1>4, <1>6, <1>8 DEF InMind, BytesOf
        <4>3. BytesOf(n, c) \subseteq BytesOf(n, o) \cup ({n} \X more)
          BY <1>7, <3>1 DEF BytesOf
        <4>4. IsFiniteSet({n} \X more) /\ Cardinality({n} \X more) = SizeOf[c] - SizeOf[o]
          <5>1. IsFiniteSet(more) /\ Cardinality(more) = SizeOf[c] - SizeOf[o]
            <6>1. SizeOf[o] + 1 \in Int /\ SizeOf[c] \in Int /\ ~(SizeOf[o] + 1 > SizeOf[c])
              BY <1>7, <2>3, <3>1
            <6>2. /\ IsFiniteSet(more)
                  /\ Cardinality(more) = SizeOf[c] - (SizeOf[o] + 1) + 1
              BY <6>1, FS_Interval
            <6> QED BY <1>7, <3>1, <6>2
          <5>2. IsFiniteSet({n}) /\ Cardinality({n}) = 1
            BY FS_Singleton
          <5> HIDE DEF more
          <5>3. Cardinality({n} \X more) = 1 * Cardinality(more) /\ IsFiniteSet({n} \X more)
            BY <5>1, <5>2, FS_Product
          <5> QED BY <1>7, <3>1, <5>1, <5>3
        <4> HIDE DEF more
        <4>5. (Corpus \cup InMind(r))' \subseteq Corpus \cup ({n} \X more)
          BY <1>6, <4>1, <4>2, <4>3
        <4>6. /\ Cardinality((Corpus \cup InMind(r))') \in Nat
              /\ Cardinality((Corpus \cup InMind(r))') <= Bytes + (SizeOf[c] - SizeOf[o])
          <5>1. /\ IsFiniteSet(Corpus \cup ({n} \X more))
                /\ Cardinality(Corpus \cup ({n} \X more)) <= Bytes + (SizeOf[c] - SizeOf[o])
            BY <1>11, <4>4, UnionBound
          <5>2. /\ IsFiniteSet((Corpus \cup InMind(r))')
                /\ Cardinality((Corpus \cup InMind(r))')
                     <= Cardinality(Corpus \cup ({n} \X more))
            BY <4>5, <5>1, FS_Subset
          <5>3. /\ Cardinality((Corpus \cup InMind(r))') \in Nat
                /\ Cardinality(Corpus \cup ({n} \X more)) \in Nat
            BY <5>1, <5>2, FS_CardinalityType
          <5> QED BY <1>7, <1>11, <3>1, <5>1, <5>2, <5>3
        <4>7. Cardinality((Corpus \cup InMind(r))') + Cardinality(ToCreate(r)') <= MaxBytes
          <5>1. Cardinality(ToCreate(r)') = 0
            BY <2>1, FS_EmptySet
          <5> QED BY <1>7, <1>11, <3>1, <4>6, <5>1, NotesAssumption
        <4>8. Fits(r)'
          BY <1>8, <4>7 DEF Fits
        <4> QED BY <1>10, <1>12, <4>7, <4>8, <1>15, OneFits
      <3> QED BY <3>7, <3>8
    <2> QED BY <2>2, <2>3
  <1> QED BY <1>16, <1>17

\* A step in which r's write is held, or a note deleted: r foresees nothing
\* any more, and what is new in the corpus, it foresaw.
LEMMA WrittenQuota ==
  ASSUME NotesInv, ForeseenIsBounded, NotesInv', NEW r \in NoteRequests, NEW w \in Edit,
         edit' = [edit EXCEPT ![r] = w], w.pc \in {"idle", "record"}, blurred' = blurred,
         NEW D, IsFiniteSet(D), Cardinality(D) = Cardinality(ToCreate(r)),
         Corpus' \subseteq Foreseen \cup D,
         \A s \in NoteRequests \ {r} : InMind(s)' \subseteq Foreseen,
         Count' <= IF r \in Creating THEN Count + 1 ELSE Count
  PROVE  ForeseenIsBounded'
PROOF
  <1>1. /\ edit'[r] = w
        /\ \A s \in NoteRequests \ {r} :
             /\ ToCreate(s)' = ToCreate(s) /\ (s \in Creating' <=> s \in Creating)
             /\ Rewrites(s)' <=> Rewrites(s)
             /\ TextOf(s)' = TextOf(s)
    BY OthersForesee
  <1>2. ~Rewrites(r)' /\ r \notin Creating' /\ ~MayWrite(r)'
    BY <1>1 DEF Rewrites, Creating, MayWrite, NoteAt
  <1>3. InMind(r)' = {} /\ ToCreate(r)' = {}
    BY <1>2 DEF InMind, ToCreate
  <1>4. Fits(r)'
    BY <1>3 DEF Fits
  <1>5. Sized' /\ Sized
    BY <1>1, <1>2 DEF ForeseenIsBounded, Sized, Texts, Writable
  <1>6. /\ IsFiniteSet(Foreseen) /\ IsFiniteSet(ForeseenNew)
        /\ Cardinality(Foreseen) \in Nat /\ Cardinality(ForeseenNew) \in Nat
    BY <1>5, ForeseenIsFinite
  <1>7. /\ Cardinality(Foreseen') \in Nat
        /\ Cardinality(Foreseen') <= Cardinality(Foreseen) + Cardinality(D)
    <2>1. Foreseen' = Corpus' \cup UNION {InMind(s)' : s \in NoteRequests}
      BY DEF Foreseen
    <2>2. Foreseen' \subseteq Foreseen \cup D
      BY <1>3, <2>1
    <2>3. /\ IsFiniteSet(Foreseen \cup D)
          /\ Cardinality(Foreseen \cup D) <= Cardinality(Foreseen) + Cardinality(D)
      BY <1>6, UnionBound
    <2>4. /\ IsFiniteSet(Foreseen')
          /\ Cardinality(Foreseen') <= Cardinality(Foreseen \cup D)
      BY <2>2, <2>3, FS_Subset
    <2>5. /\ Cardinality(Foreseen') \in Nat /\ Cardinality(Foreseen \cup D) \in Nat
          /\ Cardinality(D) \in Nat
      BY <2>3, <2>4, FS_CardinalityType
    <2> QED BY <1>6, <2>3, <2>4, <2>5
  <1>8. /\ Cardinality(ForeseenNew') \in Nat /\ Cardinality(ToCreate(r)) \in Nat
        /\ Cardinality(ForeseenNew') = Cardinality(ForeseenNew) - Cardinality(ToCreate(r))
    <2>1. ForeseenNew' = UNION {ToCreate(s)' : s \in NoteRequests}
      BY DEF ForeseenNew
    <2>2. \A s \in NoteRequests \ {r} : ToCreate(s) \cap ToCreate(r) = {}
      BY DEF ToCreate, BytesOf
    <2>3. ForeseenNew' = UNION {ToCreate(s) : s \in NoteRequests \ {r}}
      BY <1>1, <1>3, <2>1
    <2>4. /\ ForeseenNew' = ForeseenNew \ ToCreate(r)
          /\ ToCreate(r) \subseteq ForeseenNew
      BY <2>2, <2>3 DEF ForeseenNew
    <2>5. ForeseenNew \cap ToCreate(r) = ToCreate(r)
      BY <2>4
    <2>6. /\ IsFiniteSet(ForeseenNew \ ToCreate(r)) /\ IsFiniteSet(ToCreate(r))
          /\ Cardinality(ForeseenNew \ ToCreate(r))
               = Cardinality(ForeseenNew) - Cardinality(ForeseenNew \cap ToCreate(r))
      BY <1>6, <2>4, FS_Difference, FS_Subset
    <2> QED BY <2>4, <2>5, <2>6, FS_CardinalityType
  <1>9. Cardinality(Foreseen') + Cardinality(ForeseenNew') <= MaxBytes + Excess'
    <2>1. Excess' = Excess /\ Excess \in Nat
      BY ExcessGrows DEF NotesInv, NotesTypeOK
    <2>2. Cardinality(Foreseen) + Cardinality(ForeseenNew) <= MaxBytes + Excess
      BY DEF ForeseenIsBounded
    <2> QED BY <1>6, <1>7, <1>8, <2>1, <2>2, NotesAssumption
  <1>10. Count' + Cardinality(Creating') < MaxCount + Cardinality(NoteRequests)
    <2>1. Creating' = Creating \ {r}
      <3>1. Creating' \subseteq NoteRequests /\ Creating \subseteq NoteRequests
        BY DEF Creating
      <3> QED BY <1>1, <1>2, <3>1
    <2>2. Count + Cardinality(Creating) < MaxCount + Cardinality(NoteRequests)
      BY DEF ForeseenIsBounded
    <2>3. Count' \in Nat
      <3>1. (Count \in Nat)'
        BY CountIsNat, PTL
      <3> QED BY <3>1
    <2>4. CASE r \in Creating
      <3>1. Cardinality(Creating') = Cardinality(Creating) - 1
        BY <2>1, <2>4, CountIsNat, FS_RemoveElement
      <3> QED BY <2>2, <2>3, <2>4, <3>1, CountIsNat, NotesAssumption
    <2>5. CASE r \notin Creating
      <3>1. Creating' = Creating
        BY <2>1, <2>5
      <3>2. Cardinality(Creating') = Cardinality(Creating)
        BY <3>1
      <3> QED BY <2>2, <2>3, <2>5, <3>2, CountIsNat, NotesAssumption
    <2> QED BY <2>4, <2>5
  <1> QED BY <1>4, <1>5, <1>9, <1>10 DEF ForeseenIsBounded

LEMMA CreateNoteQuota ==
  ASSUME NotesInv, ForeseenIsBounded, NotesInv', NEW r \in NoteRequests, NEW n \in NoteIds,
         CreateNote(r, n)
  PROVE  ForeseenIsBounded'
PROOF
  <1> DEFINE c == edit[r].content
  <1>1. /\ c \in Texts /\ edit[r].pc \in {"write", "abandoned"} /\ ~Born(n)
        /\ note[n] \in Note /\ note \in [NoteIds -> Note] /\ r \in Creating
    BY DEF NotesInv, NotesTypeOK, Knowing, CreateNote, Creating, MayWrite
  <1> blurred' = blurred
    BY DEF CreateNote, Shift
  <1>2. PICK w \in Edit : /\ edit' = [edit EXCEPT ![r] = w] /\ Knowing(r)'
                          /\ w.pc \in {"idle", "record"}
    BY <1>1, WrittenType DEF CreateNote
  <1>3. /\ note'[n].live /\ note'[n].content = c
        /\ \A m \in NoteIds \ {n} : note'[m] = note[m]
    BY <1>1 DEF CreateNote, Held
  <1>4. n \notin Live
    BY <1>1 DEF NotesInv, VersionsWritten, Live
  <1>5. Live' = Live \cup {n}
    BY <1>3 DEF Live
  <1>6. Count' = Count + 1
    <2>1. Cardinality(Live \cup {n}) = Cardinality(Live) + 1
      BY <1>4, CountIsNat, FS_AddElement
    <2> QED BY <1>5, <2>1 DEF Count
  <1>7. Corpus' \subseteq Corpus \cup BytesOf(n, c)
    BY <1>3, <1>5 DEF Corpus, TextsOf, BytesOf, Live
  <1>8. ASSUME NEW s \in NoteRequests \ {r} PROVE InMind(s)' = InMind(s)
    <2>1. (Rewrites(s)' <=> Rewrites(s)) /\ TextOf(s)' = TextOf(s) /\ edit'[s] = edit[s]
      BY <1>2, OthersForesee
    <2>2. Rewrites(s) => edit[s].note \in NoteIds \ {n}
      BY <1>1 DEF Rewrites, NotesInv, Knowing
    <2> QED BY <1>3, <2>1, <2>2 DEF InMind, BytesOf
  <1>9. ToCreate(r) = BytesOf(r, c)
    BY <1>1 DEF ToCreate, MayWrite, CreateNote
  <1>10. /\ IsFiniteSet(BytesOf(n, c))
         /\ Cardinality(BytesOf(n, c)) = Cardinality(ToCreate(r))
    BY <1>1, <1>9, BytesCounted, TextsAreSmall
  <1>11. Count \in Int
    BY CountIsNat
  <1> HIDE DEF c
  <1>12. /\ Corpus' \subseteq Foreseen \cup BytesOf(n, c)
         /\ \A s \in NoteRequests \ {r} : InMind(s)' \subseteq Foreseen
    BY <1>7, <1>8 DEF Foreseen
  <1>13. Count' <= IF r \in Creating THEN Count + 1 ELSE Count
    BY <1>1, <1>6, <1>11
  <1> QED BY <1>2, <1>10, <1>12, <1>13, WrittenQuota

LEMMA UpdateNoteQuota ==
  ASSUME NotesInv, ForeseenIsBounded, NotesInv', NEW r \in NoteRequests, UpdateNote(r)
  PROVE  ForeseenIsBounded'
PROOF
  <1> DEFINE n == edit[r].note  c == edit[r].content
  <1>1. /\ n \in NoteIds /\ c \in Texts /\ edit[r].pc \in {"write", "abandoned"}
        /\ note \in [NoteIds -> Note] /\ note[n].live
        /\ edit[r].op \in {"update", "restore"} /\ blurred' = blurred
    BY DEF NotesInv, NotesTypeOK, Knowing, UpdateNote, Shift
  <1>2. PICK w \in Edit : /\ edit' = [edit EXCEPT ![r] = w] /\ Knowing(r)'
                          /\ w.pc \in {"idle", "record"}
    BY <1>1, WrittenType DEF UpdateNote
  <1>3. /\ note'[n].live /\ note'[n].content = c
        /\ \A m \in NoteIds \ {n} : note'[m] = note[m]
        /\ \A m \in NoteIds : note'[m].live = note[m].live
    BY <1>1 DEF UpdateNote, Held
  <1>4. InMind(r) = BytesOf(n, c) /\ r \notin Creating /\ ToCreate(r) = {}
    BY <1>1 DEF InMind, Rewrites, TextOf, MayWrite, Creating, ToCreate
  <1>5. Live' = Live /\ Count' = Count
    BY <1>3 DEF Live, Count
  <1>6. Corpus' \subseteq Corpus \cup BytesOf(n, c)
    BY <1>3, <1>5 DEF Corpus, TextsOf, BytesOf, Live
  <1>7. ASSUME NEW s \in NoteRequests \ {r} PROVE InMind(s)' = InMind(s)
    <2>1. (Rewrites(s)' <=> Rewrites(s)) /\ TextOf(s)' = TextOf(s) /\ edit'[s] = edit[s]
      BY <1>2, OthersForesee
    <2>2. Rewrites(s) => edit[s].note \in NoteIds
      BY DEF Rewrites, NotesInv, Knowing
    <2> QED BY <1>3, <2>1, <2>2 DEF InMind, BytesOf
  <1>8. /\ Corpus' \subseteq Foreseen \cup {}
        /\ \A s \in NoteRequests \ {r} : InMind(s)' \subseteq Foreseen
    BY <1>4, <1>6, <1>7 DEF Foreseen
  <1>9. IsFiniteSet({}) /\ Cardinality({}) = Cardinality(ToCreate(r))
    BY <1>4, FS_EmptySet
  <1>10. Count' <= IF r \in Creating THEN Count + 1 ELSE Count
    BY <1>4, <1>5, CountIsNat
  <1> QED BY <1>1, <1>2, <1>8, <1>9, <1>10, WrittenQuota

LEMMA DeleteNoteQuota ==
  ASSUME NotesInv, ForeseenIsBounded, NotesInv', NEW r \in NoteRequests, DeleteNote(r)
  PROVE  ForeseenIsBounded'
PROOF
  <1>1. /\ edit[r].note \in NoteIds /\ edit[r].pc \in {"undo", "delete"}
        /\ note \in [NoteIds -> Note] /\ blurred' = blurred
    BY DEF NotesInv, NotesTypeOK, Knowing, DeleteNote, Shift
  <1>2. edit' = [edit EXCEPT ![r] = NoEdit]
    BY DEF DeleteNote, NoteLeaves
  <1>3. \A m \in NoteIds : /\ note'[m].content = note[m].content
                           /\ note'[m].live => note[m].live
    BY <1>1 DEF DeleteNote, Note
  <1>4. r \notin Creating /\ ToCreate(r) = {}
    BY <1>1 DEF MayWrite, Creating, NoteAt, ToCreate
  <1>5. Live' \subseteq Live
    BY <1>3 DEF Live
  <1>6. Count' <= Count
    BY <1>5, CountIsNat, FS_Subset DEF Count
  <1>7. Corpus' \subseteq Corpus
    BY <1>3, <1>5 DEF Corpus, TextsOf, BytesOf, Live
  <1>8. ASSUME NEW s \in NoteRequests \ {r} PROVE InMind(s)' \subseteq InMind(s)
    <2>1. (Rewrites(s)' <=> Rewrites(s)) /\ TextOf(s)' = TextOf(s) /\ edit'[s] = edit[s]
      BY <1>2, NoEditType, OthersForesee
    <2>2. Rewrites(s) => edit[s].note \in NoteIds
      BY DEF Rewrites, NotesInv, Knowing
    <2> QED BY <1>3, <2>1, <2>2 DEF InMind, BytesOf
  <1>9. /\ Corpus' \subseteq Foreseen \cup {}
        /\ \A s \in NoteRequests \ {r} : InMind(s)' \subseteq Foreseen
    BY <1>7, <1>8 DEF Foreseen
  <1>10. IsFiniteSet({}) /\ Cardinality({}) = Cardinality(ToCreate(r))
    BY <1>4, FS_EmptySet
  <1>11. Count' <= IF r \in Creating THEN Count + 1 ELSE Count
    BY <1>4, <1>6
  <1> QED BY <1>1, <1>2, <1>9, <1>10, <1>11, NoEditType, WrittenQuota

LEMMA ForeseenStep ==
  NotesInv /\ QuotaInv /\ NotesInv' /\ [NotesNext]_noteVars => ForeseenIsBounded'
PROOF
  <1> SUFFICES ASSUME NotesInv, CountIsExact, ForeseenIsBounded, NotesInv',
                      [NotesNext]_noteVars
               PROVE  ForeseenIsBounded'
    BY DEF QuotaInv
  <1>1. CASE UNCHANGED noteVars
    <2>1. UNCHANGED <<note, revisions, edit, wrote, raced, shifted, blurred>>
      BY <1>1 DEF noteVars, quotaHistory
    <2>2. PICK r \in NoteRequests : TRUE
      BY NotesAssumption
    <2>3. edit[r] \in Edit /\ edit' = [edit EXCEPT ![r] = edit[r]] /\ UNCHANGED <<note, blurred>>
      BY <2>1 DEF NotesInv, NotesTypeOK
    <2>4. /\ InMind(r)' = InMind(r) /\ ToCreate(r)' = ToCreate(r)
          /\ r \in Creating' => r \in Creating
          /\ Rewrites(r)' => Rewrites(r) /\ TextOf(r)' = TextOf(r)
          /\ Fits(r) => Fits(r)'
      BY <2>1 DEF InMind, ToCreate, Creating, MayWrite, NoteAt, Rewrites, TextOf, Fits,
                  Corpus, TextsOf, BytesOf, Live
    <2>5. InMind(r)' \subseteq Foreseen /\ (Rewrites(r)' => TextOf(r)' \in Texts)
      BY <2>4 DEF Foreseen, ForeseenIsBounded, Sized
    <2> QED BY <2>3, <2>4, <2>5, QuietQuota
  <1>2. ASSUME NEW r \in NoteRequests, NEW user \in NoteUsers, StartNote(r, user)
        PROVE  ForeseenIsBounded'
    BY <1>2, StartNoteQuota
  <1>3. ASSUME NEW r \in NoteRequests, ReadNote(r) PROVE ForeseenIsBounded'
    BY <1>3, ReadNoteQuota
  <1>4. ASSUME NEW r \in NoteRequests, Snapshot(r) \/ Target(r) \/ LoseWrite(r)
        PROVE  ForeseenIsBounded'
    BY <1>4, OnTheWayQuota
  <1>5. ASSUME NEW r \in NoteRequests, CountPage(r) \/ PassQuota(r) \/ FailQuota(r)
        PROVE  ForeseenIsBounded'
    BY <1>5, CountingQuota, PassQuotaQuota
  <1>6. ASSUME NEW r \in NoteRequests, NEW n \in NoteIds, CreateNote(r, n) PROVE ForeseenIsBounded'
    BY <1>6, CreateNoteQuota
  <1>7. ASSUME NEW r \in NoteRequests, UpdateNote(r) PROVE ForeseenIsBounded'
    BY <1>7, UpdateNoteQuota
  <1>8. ASSUME NEW r \in NoteRequests,
               RecordWrite(r) \/ NoteRecordFails(r) \/ NoteDies(r) \/ RefuseWrite(r)
        PROVE  ForeseenIsBounded'
    BY <1>8, EndingQuota
  <1>9. ASSUME NEW r \in NoteRequests, DeleteNote(r) PROVE ForeseenIsBounded'
    BY <1>9, DeleteNoteQuota
  <1> QED BY <1>1, <1>2, <1>3, <1>4, <1>5, <1>6, <1>7, <1>8, <1>9 DEF NotesNext

LEMMA QuotaStep == NotesInv /\ QuotaInv /\ NotesInv' /\ [NotesNext]_noteVars => QuotaInv'
PROOF
  BY CountStep, ForeseenStep DEF QuotaInv

\* The inductive invariant of the quota holds with that of the history.
THEOREM QuotaInvariant == NotesSpec => [](NotesInv /\ QuotaInv)
PROOF
  <1>1. NotesInit => QuotaInv
    BY InitiallyWithinQuota, InitiallyExact DEF QuotaInv
  <1>2. NotesInv /\ QuotaInv /\ NotesInv' /\ [NotesNext]_noteVars => QuotaInv'
    BY QuotaStep
  <1> QED BY <1>1, <1>2, InitiallyNoNotes, NotesStep, PTL DEF NotesSpec

\* However many requests, tabs and late writes check the quota and write at
\* once (enforceQuota, note/service.go), each takes the space past it by at
\* most one note and its bytes, and one of them not at all; and each check that
\* counted pages while notes were written or deleted, and let pass what the
\* notes do not, by one note's bytes more.
THEOREM QuotaExceedsByRacesOnly == NotesSpec => []QuotaExceededByRaceOnly
PROOF
  <1>1. NotesInv /\ QuotaInv => QuotaExceededByRaceOnly
    <2> SUFFICES ASSUME NotesInv, QuotaInv PROVE QuotaExceededByRaceOnly
      OBVIOUS
    <2>1. Count < MaxCount + Cardinality(NoteRequests)
      BY CountIsNat, NotesAssumption DEF QuotaInv, ForeseenIsBounded
    <2>2. Bytes <= MaxBytes + Excess
      <3>1. Excess \in Nat
        BY ExcessGrows DEF NotesInv, NotesTypeOK
      <3>2. /\ Bytes \in Nat /\ Cardinality(Foreseen) \in Nat
            /\ Cardinality(ForeseenNew) \in Nat /\ Bytes <= Cardinality(Foreseen)
        BY ForeseenIsFinite DEF QuotaInv, ForeseenIsBounded
      <3>3. Cardinality(Foreseen) + Cardinality(ForeseenNew) <= MaxBytes + Excess
        BY DEF QuotaInv, ForeseenIsBounded
      <3> QED BY <3>1, <3>2, <3>3, NotesAssumption
    <2> QED BY <2>1, <2>2 DEF QuotaExceededByRaceOnly
  <1> QED BY <1>1, QuotaInvariant, PTL
------------------------------------------------------------------------------
\* The behaviours of the run.

\* Whichever component a behaviour is about, it is a behaviour of each of them:
\* what is proved of the components holds in the run.
THEOREM ComponentsBehave == MCSpec => Spec /\ NotesSpec /\ IngestSpec /\ ModelsSpec
PROOF
  <1>1. MCInit => Init /\ NotesInit /\ IngestInit /\ ModelsInit
    BY DEF MCInit
  <1>2. [MCNext]_allVars =>
          /\ [Next]_vars /\ [NotesNext]_noteVars
          /\ [IngestNext]_ingestVars /\ [ModelsNext]_modelVars
    BY DEF MCNext, allVars
  <1> QED BY <1>1, <1>2, PTL DEF MCSpec, Spec, NotesSpec, IngestSpec, ModelsSpec

\* What each component keeps is of its type, whichever a behaviour is about.
THEOREM AllTypesCorrect == MCSpec => []AllTypesOK
PROOF
  BY ComponentsBehave, CreationTypeCorrect, NotesTypeCorrect, IngestTypeCorrect,
     ModelsTypeCorrect, PTL DEF AllTypesOK
=============================================================================
