------------------------- MODULE SpaceCreationProofs -------------------------
(***************************************************************************)
(* Proofs about SpaceCreation, for any number of requests with one key.    *)
(* CInv says that every request in progress and every POST on its way is   *)
(* about the row that was claimed, whose id and content no step changes,   *)
(* that a request that is about to complete the row has seen the profile   *)
(* it wants, and that one request at most inserted the row.                *)
(***************************************************************************)
EXTENDS SpaceRecovery, TLAPS

LEMMA IdleType == Idle \in Request /\ Idle.pc = "idle" /\ Idle.inserted = FALSE
PROOF
  BY DEF Idle, Request, Points

LEMMA PresetType == ASSUME NEW spec \in Specs PROVE Preset(spec) \in Profiles
PROOF
  BY DEF Preset, Profiles

LEMMA BaseType ==
  ASSUME NEW spec \in Specs
  PROVE  UpstreamRequest(spec) \in Bases /\ UpstreamRequest(spec).kind = spec.kind
PROOF
  BY DEF UpstreamRequest, Specs, Bases

LEMMA RequestedType ==
  ASSUME NEW kind \in Kinds, vision \in BOOLEAN
  PROVE  Requested(kind) \in Specs
PROOF
  <1> DEFINE v == vision /\ kind # "faq"
  <1>1. Requested(kind) = [kind |-> kind, vision |-> v]
    BY DEF Requested, Normalized, WithManagedModels
  <1>2. v \in BOOLEAN
    OBVIOUS
  <1> QED BY <1>1, <1>2 DEF Specs

LEMMA InitiallyCreating == Init => CInv
PROOF
  <1> SUFFICES ASSUME Init PROVE CInv
    OBVIOUS
  <1>1. TypeOK
    BY IdleType DEF Init, TypeOK
  <1>2. \A a \in Attempts : req[a] = Idle /\ wire[a] = Nothing
    BY DEF Init
  <1>3. RequestsShareRow /\ PostsShareRow /\ OneInserter
    BY <1>2, IdleType DEF Init, RequestsShareRow, PostsShareRow, OneInserter, At
  <1>4. OneSpacePerKey /\ AnswersAgree /\ ReadyHasProfile /\ CreatedAnsweredOnce
    BY DEF Init, OneSpacePerKey, AnswersAgree, ReadyHasProfile, CreatedAnsweredOnce
  <1> QED BY <1>1, <1>3, <1>4 DEF CInv

\* What the row says, once there is one.
LEMMA RowKnown ==
  ASSUME CInv, NEW a \in Attempts, ~At(a, "idle")
  PROVE  /\ row \in Rows /\ row # Nothing /\ row.spec \in Specs /\ row.id \in Ids
         /\ req[a] \in Request /\ req[a].spec = row.spec /\ req[a].id = row.id
PROOF
  BY DEF CInv, TypeOK, RequestsShareRow, Rows

\* A step of one request that may leave or change its POST and asks of the
\* upstream for the row's id only.
LEMMA OwnStepKeeps ==
  ASSUME CInv, NEW a \in Attempts, NEW q \in Request, req' = [req EXCEPT ![a] = q],
         UNCHANGED <<row, kb, prof, vision, answered, announced>>,
         q.pc # "idle" => row # Nothing /\ q.spec = row.spec /\ q.id = row.id,
         q.pc = "complete" => prof[row.id] = Preset(row.spec),
         q.inserted => req[a].inserted,
         NEW w \in Posts \cup {Nothing}, wire' = [wire EXCEPT ![a] = w],
         posted' = posted \/ (row # Nothing /\ posted' = posted \cup {row.id}),
         w # Nothing => /\ row # Nothing /\ w.id = row.id /\ row.id \in posted'
                        /\ w.base.kind = row.spec.kind
  PROVE  CInv'
PROOF
  <1>1. /\ req' \in [Attempts -> Request]
        /\ \A b \in Attempts : req'[b] = IF b = a THEN q ELSE req[b]
    BY DEF CInv, TypeOK
  <1>2. /\ wire' \in [Attempts -> Posts \cup {Nothing}]
        /\ \A b \in Attempts : wire'[b] = IF b = a THEN w ELSE wire[b]
    BY DEF CInv, TypeOK
  <1>3. posted' \subseteq Ids /\ posted \subseteq posted'
    BY DEF CInv, TypeOK, Rows
  <1>4. TypeOK'
    BY <1>1, <1>2, <1>3 DEF CInv, TypeOK
  <1>5. RequestsShareRow'
    BY <1>1 DEF CInv, RequestsShareRow, At
  <1>6. PostsShareRow'
    BY <1>2, <1>3 DEF CInv, PostsShareRow
  <1>7. OneInserter'
    BY <1>1 DEF CInv, OneInserter
  <1>8. OneSpacePerKey'
    BY <1>3 DEF CInv, OneSpacePerKey
  <1>9. AnswersAgree' /\ ReadyHasProfile' /\ CreatedAnsweredOnce'
    BY DEF CInv, AnswersAgree, ReadyHasProfile, CreatedAnsweredOnce
  <1> QED BY <1>4, <1>5, <1>6, <1>7, <1>8, <1>9 DEF CInv

\* The same for a request that goes on and leaves the upstream alone.
LEMMA GoKeeps ==
  ASSUME CInv, NEW a \in Attempts, ~At(a, "idle"),
         NEW pc \in Points \ {"idle", "complete"}, Go(a, pc),
         UNCHANGED <<row, upstream, prof, vision, answered, announced>>
  PROVE  CInv'
PROOF
  <1> DEFINE q == [req[a] EXCEPT !.pc = pc]
  <1>1. /\ q \in Request /\ q.pc = pc /\ q.spec = req[a].spec /\ q.id = req[a].id
        /\ q.inserted = req[a].inserted
    BY RowKnown DEF Request
  <1>2. req' = [req EXCEPT ![a] = q]
    BY DEF Go
  <1> HIDE DEF q
  <1>3. wire' = [wire EXCEPT ![a] = wire[a]] /\ wire[a] \in Posts \cup {Nothing}
    BY DEF CInv, TypeOK, upstream
  <1>4. wire[a] # Nothing => /\ row # Nothing /\ wire[a].id = row.id /\ row.id \in posted
                             /\ wire[a].base.kind = row.spec.kind
    BY DEF CInv, PostsShareRow
  <1> QED BY <1>1, <1>2, <1>3, <1>4, RowKnown, OwnStepKeeps DEF upstream

LEMMA LeaveKeeps ==
  ASSUME CInv, NEW a \in Attempts, Leave(a),
         UNCHANGED <<row, kb, posted, prof, vision, answered, announced>>,
         NEW w \in {Nothing, wire[a]}, wire' = [wire EXCEPT ![a] = w]
  PROVE  CInv'
PROOF
  <1>1. w \in Posts \cup {Nothing}
    BY DEF CInv, TypeOK
  <1>2. w # Nothing => /\ row # Nothing /\ w.id = row.id /\ row.id \in posted
                       /\ w.base.kind = row.spec.kind
    BY DEF CInv, PostsShareRow
  <1>3. req' = [req EXCEPT ![a] = Idle]
    BY DEF Leave
  <1> QED BY <1>1, <1>2, <1>3, IdleType, OwnStepKeeps
---------------------------------------------------------------------------
\* One lemma per action.

\* The first request inserts the row, and every other goes on with what it says.
LEMMA ClaimKeeps ==
  ASSUME NothingAssumption, CInv, NEW a \in Attempts, NEW kind \in Kinds, NEW i \in Ids,
         Claim(a, kind, i)
  PROVE  CInv'
PROOF
  <1> DEFINE spec == Requested(kind)
             new == [spec |-> spec, id |-> i, status |-> "pending"]
             q == [pc |-> "find", spec |-> spec, id |-> Stored(i),
                   inserted |-> row = Nothing, created |-> FALSE]
  <1>1. spec \in Specs
    BY RequestedType DEF CInv, TypeOK
  <1>2. new \in Rows /\ new.spec = spec /\ new.id = i /\ new.status = "pending" /\ new # Nothing
    <2>1. new \in Rows /\ new.spec = spec /\ new.id = i /\ new.status = "pending"
      BY <1>1 DEF Rows
    <2> QED BY <2>1 DEF NothingAssumption
  <1>3. Stored(i) \in Ids
    BY DEF Stored, CInv, TypeOK, Rows
  <1>4. /\ q \in Request /\ q.pc = "find" /\ q.spec = spec /\ q.id = Stored(i)
        /\ (q.inserted <=> row = Nothing)
    BY <1>1, <1>3 DEF Request, Points
  <1>5. /\ row' = IF row = Nothing THEN new ELSE row
        /\ req' = [req EXCEPT ![a] = q]
        /\ UNCHANGED <<wire, kb, posted, prof, vision, answered, announced>>
        /\ row # Nothing => row.spec = spec
    BY DEF Claim, Claimed, SameHash, upstream, outside, history
  <1> HIDE DEF q, new, spec
  <1>6. /\ req' \in [Attempts -> Request]
        /\ \A b \in Attempts : req'[b] = IF b = a THEN q ELSE req[b]
    BY <1>4, <1>5 DEF CInv, TypeOK
  <1>7. /\ row' # Nothing /\ row'.spec = spec /\ row'.id = Stored(i)
        /\ row # Nothing => row' = row
    BY <1>2, <1>5 DEF Stored
  <1>8. row = Nothing => posted = {} /\ answered = {}
                         /\ \A b \in Attempts : At(b, "idle") /\ ~req[b].inserted
    BY DEF CInv, OneSpacePerKey, RequestsShareRow, OneInserter, AnswersAgree, TypeOK
  <1>9. TypeOK'
    BY <1>2, <1>5, <1>6 DEF CInv, TypeOK
  <1>10. RequestsShareRow'
    BY <1>4, <1>5, <1>6, <1>7, <1>8 DEF CInv, RequestsShareRow, At
  <1>11. PostsShareRow'
    BY <1>5, <1>7 DEF CInv, PostsShareRow
  <1>12. OneInserter'
    BY <1>4, <1>5, <1>6, <1>7, <1>8 DEF CInv, OneInserter
  <1>13. OneSpacePerKey'
    BY <1>5, <1>7, <1>8 DEF CInv, OneSpacePerKey
  <1>14. AnswersAgree' /\ ReadyHasProfile' /\ CreatedAnsweredOnce'
    BY <1>2, <1>5, <1>7, <1>8 DEF CInv, AnswersAgree, ReadyHasProfile, CreatedAnsweredOnce
  <1> QED BY <1>9, <1>10, <1>11, <1>12, <1>13, <1>14 DEF CInv

LEMMA FindKeeps ==
  ASSUME CInv, NEW a \in Attempts, Find(a) \/ Refind(a)
  PROVE  CInv'
PROOF
  <1>1. \A base : Checked(a, base) \in Points \ {"idle", "complete"}
    BY DEF Checked, Points
  <1>2. PICK pc \in Points \ {"idle", "complete"} : Go(a, pc)
    BY <1>1 DEF Find, Refind, Points
  <1> QED BY <1>2, GoKeeps DEF Find, Refind, At, upstream, outside, history

LEMMA PostSpaceKeeps ==
  ASSUME CInv, NEW a \in Attempts, PostSpace(a)
  PROVE  CInv'
PROOF
  <1> DEFINE q == [req[a] EXCEPT !.pc = "await"]
             w == [status |-> "sent", id |-> req[a].id, base |-> UpstreamRequest(req[a].spec)]
  <1>1. ~At(a, "idle")
    BY DEF PostSpace, At
  <1>2. /\ q \in Request /\ q.pc = "await" /\ q.spec = req[a].spec /\ q.id = req[a].id
        /\ q.inserted = req[a].inserted
    BY <1>1, RowKnown DEF Request, Points
  <1>3. w \in Posts /\ w.id = row.id /\ w.base.kind = row.spec.kind
    BY <1>1, RowKnown, BaseType DEF Posts
  <1>4. req' = [req EXCEPT ![a] = q] /\ wire' = [wire EXCEPT ![a] = w]
        /\ UNCHANGED <<row, kb, prof, vision, answered, announced>>
    BY DEF PostSpace, Go, outside, history
  <1>5. posted' = posted \cup {row.id}
    BY <1>1, RowKnown DEF PostSpace
  <1> HIDE DEF q, w
  <1> QED BY <1>1, <1>2, <1>3, <1>4, <1>5, RowKnown, OwnStepKeeps

LEMMA AnswerKeeps ==
  ASSUME CInv, NEW a \in Attempts, ReceiveSpace(a) \/ ReceiveRefusal(a) \/ LoseSpace(a)
  PROVE  CInv'
PROOF
  <1>1. ~At(a, "idle") /\ UNCHANGED <<row, kb, posted, prof, vision, answered, announced>>
    BY DEF ReceiveSpace, ReceiveRefusal, LoseSpace, At, outside, history
  <1>2. PICK w \in {Nothing, wire[a]} : wire' = [wire EXCEPT ![a] = w]
    BY DEF ReceiveSpace, ReceiveRefusal, LoseSpace
  <1>3. w \in Posts \cup {Nothing}
    BY <1>2 DEF CInv, TypeOK
  <1>4. w # Nothing => /\ row # Nothing /\ w.id = row.id /\ row.id \in posted
                       /\ w.base.kind = row.spec.kind
    BY <1>2 DEF CInv, PostsShareRow
  <1>5. CASE ReceiveSpace(a)
    <2> DEFINE q == [req[a] EXCEPT !.pc = Checked(a, wire[a].base), !.created = TRUE]
    <2>1. Checked(a, wire[a].base) \in {"profile", "fail"}
      BY DEF Checked
    <2>2. /\ q \in Request /\ q.pc \in {"profile", "fail"} /\ q.spec = req[a].spec
          /\ q.id = req[a].id /\ q.inserted = req[a].inserted
      BY <1>1, <2>1, RowKnown DEF Request, Points
    <2>3. req' = [req EXCEPT ![a] = q]
      BY <1>5 DEF ReceiveSpace
    <2> HIDE DEF q
    <2> QED BY <1>1, <1>2, <1>3, <1>4, <2>2, <2>3, RowKnown, OwnStepKeeps
  <1>6. CASE ReceiveRefusal(a) \/ LoseSpace(a)
    <2> DEFINE q == [req[a] EXCEPT !.pc = "refind"]
    <2>1. /\ q \in Request /\ q.pc = "refind" /\ q.spec = req[a].spec
          /\ q.id = req[a].id /\ q.inserted = req[a].inserted
      BY <1>1, RowKnown DEF Request, Points
    <2>2. req' = [req EXCEPT ![a] = q]
      BY <1>6 DEF ReceiveRefusal, LoseSpace, Go
    <2> HIDE DEF q
    <2> QED BY <1>1, <1>2, <1>3, <1>4, <2>1, <2>2, RowKnown, OwnStepKeeps
  <1> QED BY <1>5, <1>6

\* A profile that is there is not written over, and whoever goes on to complete
\* the row has seen the one it wants.
LEMMA EnsureProfileKeeps ==
  ASSUME CInv, NEW a \in Attempts, EnsureProfile(a)
  PROVE  CInv'
PROOF
  <1> DEFINE pc == IF prof'[req[a].id] = Preset(req[a].spec) THEN "complete" ELSE "fail"
             q == [req[a] EXCEPT !.pc = pc]
  <1>1. ~At(a, "idle")
    BY DEF EnsureProfile, At
  <1>2. /\ q \in Request /\ q.pc = pc /\ q.spec = row.spec /\ q.id = row.id
        /\ q.inserted = req[a].inserted
    BY <1>1, RowKnown DEF Request, Points
  <1>3. req' = [req EXCEPT ![a] = q]
        /\ UNCHANGED <<row, wire, kb, posted, vision, answered, announced>>
    BY DEF EnsureProfile, Go, upstream, outside, history
  <1>4. q.pc # "idle" /\ (q.pc = "complete" => prof'[row.id] = Preset(row.spec))
    BY <1>1, <1>2, RowKnown
  <1> HIDE DEF q, pc
  <1>5. /\ req' \in [Attempts -> Request]
        /\ \A b \in Attempts : req'[b] = IF b = a THEN q ELSE req[b]
    BY <1>2, <1>3 DEF CInv, TypeOK
  <1>6. /\ prof' \in [Ids -> Profiles \cup {Nothing}]
        /\ prof[row.id] = Preset(row.spec) => prof'[row.id] = Preset(row.spec)
    BY <1>1, RowKnown, PresetType DEF EnsureProfile, CInv, TypeOK
  <1>7. TypeOK'
    BY <1>3, <1>5, <1>6 DEF CInv, TypeOK
  <1>8. RequestsShareRow'
    BY <1>1, <1>2, <1>3, <1>4, <1>5, <1>6, RowKnown DEF CInv, RequestsShareRow, At
  <1>9. PostsShareRow' /\ OneSpacePerKey' /\ CreatedAnsweredOnce'
    BY <1>3 DEF CInv, PostsShareRow, OneSpacePerKey, CreatedAnsweredOnce
  <1>10. OneInserter'
    BY <1>2, <1>3, <1>5 DEF CInv, OneInserter
  <1>11. AnswersAgree' /\ ReadyHasProfile'
    BY <1>3, <1>6 DEF CInv, AnswersAgree, ReadyHasProfile
  <1> QED BY <1>7, <1>8, <1>9, <1>10, <1>11 DEF CInv

\* Nobody has said "created" before the request that inserted the row.
LEMMA CompleteKeeps ==
  ASSUME NothingAssumption, CInv, NEW a \in Attempts, Complete(a)
  PROVE  CInv'
PROOF
  <1> DEFINE new == [row EXCEPT !.status = "ready"]
  <1>1. ~At(a, "idle") /\ prof[row.id] = Preset(row.spec)
    BY DEF Complete, At, CInv, RequestsShareRow
  <1>2. new \in Rows /\ new.spec = row.spec /\ new.id = row.id
    BY <1>1, RowKnown DEF Rows
  <1>3. new # Nothing
    BY <1>2 DEF NothingAssumption
  <1>4. /\ row' = new /\ answered' = answered \cup {row.spec}
        /\ req' = [req EXCEPT ![a] = Idle]
        /\ UNCHANGED <<wire, kb, posted, prof, vision>>
    BY <1>1, RowKnown DEF Complete, Leave, upstream, outside
  <1> HIDE DEF new
  <1>5. /\ req' \in [Attempts -> Request]
        /\ \A b \in Attempts : req'[b] = IF b = a THEN Idle ELSE req[b]
    BY <1>4, IdleType DEF CInv, TypeOK
  <1>6. /\ announced \in Nat /\ announced' \in Nat
        /\ (announced' = announced \/ (req[a].inserted /\ announced' = announced + 1))
    BY DEF Complete, SaysCreated, CInv, TypeOK
  <1>7. CreatedAnsweredOnce'
    BY <1>6 DEF CInv, OneInserter, CreatedAnsweredOnce
  <1>8. OneInserter'
    BY <1>2, <1>3, <1>4, <1>5, <1>6, IdleType DEF CInv, OneInserter
  <1>9. TypeOK'
    BY <1>1, <1>2, <1>4, <1>5, <1>6, RowKnown DEF CInv, TypeOK
  <1>10. RequestsShareRow' /\ PostsShareRow'
    BY <1>2, <1>3, <1>4, <1>5, IdleType DEF CInv, RequestsShareRow, PostsShareRow, At
  <1>11. OneSpacePerKey'
    BY <1>1, <1>2, <1>3, <1>4, RowKnown DEF CInv, OneSpacePerKey
  <1>12. AnswersAgree' /\ ReadyHasProfile'
    BY <1>1, <1>2, <1>4 DEF CInv, AnswersAgree, ReadyHasProfile
  <1> QED BY <1>7, <1>8, <1>9, <1>10, <1>11, <1>12 DEF CInv

LEMMA RecordFailureKeeps ==
  ASSUME NothingAssumption, CInv, NEW a \in Attempts, RecordFailure(a)
  PROVE  CInv'
PROOF
  <1> DEFINE new == [row EXCEPT !.status = "failed"]
  <1>1. ~At(a, "idle")
    BY DEF RecordFailure, At
  <1>2. new \in Rows /\ new.spec = row.spec /\ new.id = row.id /\ new.status = "failed"
    BY <1>1, RowKnown DEF Rows
  <1>3. new # Nothing
    BY <1>2 DEF NothingAssumption
  <1>4. /\ row' = new /\ req' = [req EXCEPT ![a] = Idle]
        /\ UNCHANGED <<wire, kb, posted, prof, vision, answered, announced>>
    BY DEF RecordFailure, Leave, upstream, outside, history
  <1> HIDE DEF new
  <1>5. /\ req' \in [Attempts -> Request]
        /\ \A b \in Attempts : req'[b] = IF b = a THEN Idle ELSE req[b]
    BY <1>4, IdleType DEF CInv, TypeOK
  <1>6. OneInserter' /\ CreatedAnsweredOnce'
    BY <1>3, <1>4, <1>5, IdleType DEF CInv, OneInserter, CreatedAnsweredOnce
  <1>7. TypeOK'
    BY <1>2, <1>4, <1>5 DEF CInv, TypeOK
  <1>8. RequestsShareRow' /\ PostsShareRow'
    BY <1>2, <1>3, <1>4, <1>5, IdleType DEF CInv, RequestsShareRow, PostsShareRow, At
  <1>9. OneSpacePerKey'
    BY <1>1, <1>2, <1>3, <1>4, RowKnown DEF CInv, OneSpacePerKey
  <1>10. AnswersAgree' /\ ReadyHasProfile'
    BY <1>2, <1>4 DEF CInv, AnswersAgree, ReadyHasProfile
  <1> QED BY <1>6, <1>7, <1>8, <1>9, <1>10 DEF CInv

LEMMA CallFailsKeeps ==
  ASSUME CInv, NEW a \in Attempts, CallFails(a)
  PROVE  CInv'
PROOF
  <1>1. CASE req[a].pc \in {"find", "refind", "profile"} /\ Go(a, "fail")
    <2>1. ~At(a, "idle") /\ "fail" \in Points \ {"idle", "complete"}
      BY <1>1 DEF At, Points
    <2> QED BY <1>1, <2>1, GoKeeps DEF CallFails, outside, history
  <1>2. CASE Leave(a)
    <2>1. wire' = [wire EXCEPT ![a] = wire[a]]
      BY DEF CallFails, upstream, CInv, TypeOK
    <2> QED BY <1>2, <2>1, LeaveKeeps DEF CallFails, upstream, outside, history
  <1> QED BY <1>1, <1>2 DEF CallFails

LEMMA DieKeeps ==
  ASSUME CInv, NEW a \in Attempts, Die(a)
  PROVE  CInv'
PROOF
  <1>1. PICK w \in {Nothing, wire[a]} : wire' = [wire EXCEPT ![a] = w]
    BY DEF Die
  <1> QED BY <1>1, LeaveKeeps DEF Die, outside, history

\* The upstream makes what the row asks for, and nothing else.
LEMMA UpstreamKeeps ==
  ASSUME CInv, NEW a \in Attempts, CreateSpace(a) \/ RefuseSpace(a)
  PROVE  CInv'
PROOF
  <1>1. /\ wire[a] # Nothing /\ wire[a] \in Posts /\ row # Nothing /\ wire[a].id = row.id
        /\ row.id \in posted /\ wire[a].base.kind = row.spec.kind
        /\ row.id \in Ids /\ wire[a].base \in Bases
    BY DEF CreateSpace, RefuseSpace, CInv, TypeOK, PostsShareRow, Posts
  <1>2. PICK status \in {"done", "refused"} : Processed(a, status)
    BY DEF CreateSpace, RefuseSpace
  <1> DEFINE w == [wire[a] EXCEPT !.status = status]
  <1>3. w \in Posts /\ w.id = row.id /\ w.base = wire[a].base
    BY <1>1 DEF Posts
  <1> HIDE DEF w
  <1>4. wire' = [wire EXCEPT ![a] = IF At(a, "await") THEN w ELSE Nothing]
    BY <1>2 DEF Processed, w
  <1>5. /\ wire' \in [Attempts -> Posts \cup {Nothing}]
        /\ \A b \in Attempts \ {a} : wire'[b] = wire[b]
        /\ wire'[a] \in {w, Nothing}
    BY <1>3, <1>4 DEF CInv, TypeOK
  <1>6. UNCHANGED <<row, req, posted, prof, vision, answered, announced>>
    BY DEF CreateSpace, RefuseSpace, outside, history
  <1>7. /\ kb' \in [Ids -> Bases \cup {Nothing}]
        /\ \A i \in Ids : kb'[i] = kb[i] \/ (i = row.id /\ kb'[i] = wire[a].base)
    BY <1>1 DEF CreateSpace, RefuseSpace, CInv, TypeOK
  <1>8. TypeOK'
    BY <1>5, <1>6, <1>7 DEF CInv, TypeOK
  <1>9. RequestsShareRow' /\ OneInserter'
    BY <1>6 DEF CInv, RequestsShareRow, OneInserter, At
  <1>10. PostsShareRow'
    BY <1>1, <1>3, <1>5, <1>6 DEF CInv, PostsShareRow
  <1>11. OneSpacePerKey'
    BY <1>1, <1>6, <1>7 DEF CInv, OneSpacePerKey
  <1>12. AnswersAgree' /\ ReadyHasProfile' /\ CreatedAnsweredOnce'
    BY <1>6 DEF CInv, AnswersAgree, ReadyHasProfile, CreatedAnsweredOnce
  <1> QED BY <1>8, <1>9, <1>10, <1>11, <1>12 DEF CInv

\* Owner and administrator change neither row nor profile.
LEMMA OutsideKeeps ==
  ASSUME CInv, ChangeVision \/ \E i \in Ids : OwnerRenames(i) \/ OwnerDeletes(i)
  PROVE  CInv'
PROOF
  <1>1. UNCHANGED <<row, req, wire, posted, prof, answered, announced>>
    BY DEF ChangeVision, OwnerRenames, OwnerDeletes, upstream, outside, history
  <1>2. /\ kb' \in [Ids -> Bases \cup {Nothing}]
        /\ \A i \in Ids : kb'[i] # Nothing => kb[i] # Nothing /\ kb'[i].kind = kb[i].kind
    <2>1. CASE ChangeVision
      BY <2>1 DEF ChangeVision, upstream, CInv, TypeOK
    <2>2. ASSUME NEW i \in Ids, OwnerDeletes(i)
          PROVE  /\ kb' \in [Ids -> Bases \cup {Nothing}]
                 /\ \A j \in Ids : kb'[j] # Nothing => kb[j] # Nothing /\ kb'[j].kind = kb[j].kind
      BY <2>2 DEF OwnerDeletes, CInv, TypeOK
    <2>3. ASSUME NEW i \in Ids, OwnerRenames(i)
          PROVE  /\ kb' \in [Ids -> Bases \cup {Nothing}]
                 /\ \A j \in Ids : kb'[j] # Nothing => kb[j] # Nothing /\ kb'[j].kind = kb[j].kind
      <3> DEFINE base == [kb[i] EXCEPT !.renamed = TRUE]
      <3>1. kb[i] \in Bases /\ kb[i] # Nothing
        BY <2>3 DEF OwnerRenames, CInv, TypeOK
      <3>2. base \in Bases /\ base.kind = kb[i].kind
        BY <3>1 DEF Bases
      <3>3. kb' = [kb EXCEPT ![i] = base]
        BY <2>3 DEF OwnerRenames
      <3> HIDE DEF base
      <3> QED BY <3>1, <3>2, <3>3 DEF CInv, TypeOK
    <2> QED BY <2>1, <2>2, <2>3
  <1>3. vision' \in BOOLEAN
    BY DEF ChangeVision, OwnerRenames, OwnerDeletes, outside, CInv, TypeOK
  <1>4. TypeOK'
    BY <1>1, <1>2, <1>3 DEF CInv, TypeOK
  <1>5. RequestsShareRow' /\ PostsShareRow' /\ OneInserter'
    BY <1>1 DEF CInv, RequestsShareRow, PostsShareRow, OneInserter, At
  <1>6. OneSpacePerKey'
    BY <1>1, <1>2 DEF CInv, OneSpacePerKey
  <1>7. AnswersAgree' /\ ReadyHasProfile' /\ CreatedAnsweredOnce'
    BY <1>1 DEF CInv, AnswersAgree, ReadyHasProfile, CreatedAnsweredOnce
  <1> QED BY <1>4, <1>5, <1>6, <1>7 DEF CInv

LEMMA CreationStep == NothingAssumption /\ CInv /\ [Next]_vars => CInv'
PROOF
  <1> SUFFICES ASSUME NothingAssumption, CInv, [Next]_vars PROVE CInv'
    OBVIOUS
  <1>1. ASSUME NEW a \in Attempts, NEW kind \in Kinds, NEW i \in Ids, Claim(a, kind, i)
        PROVE  CInv'
    BY <1>1, ClaimKeeps
  <1>2. ASSUME NEW a \in Attempts, Proceed(a) PROVE CInv'
    BY <1>2, FindKeeps, PostSpaceKeeps, AnswerKeeps, EnsureProfileKeeps, CompleteKeeps,
       RecordFailureKeeps DEF Proceed
  <1>3. ASSUME NEW a \in Attempts, CallFails(a) \/ LoseSpace(a) \/ Die(a) PROVE CInv'
    BY <1>3, CallFailsKeeps, AnswerKeeps, DieKeeps
  <1>4. ASSUME NEW a \in Attempts, CreateSpace(a) \/ RefuseSpace(a) PROVE CInv'
    BY <1>4, UpstreamKeeps
  <1>5. CASE UNCHANGED vars
    BY <1>5 DEF vars, CInv, TypeOK, RequestsShareRow, PostsShareRow, OneInserter, At,
       OneSpacePerKey, AnswersAgree, ReadyHasProfile, CreatedAnsweredOnce
  <1> QED BY <1>1, <1>2, <1>3, <1>4, <1>5, OutsideKeeps DEF Next
---------------------------------------------------------------------------
\* The invariant of the creation holds in every state.
THEOREM CreationInvariant == Spec => []CInv
PROOF
  <1>1. CInv /\ [Next]_vars => CInv'
    BY NothingAssumption, CreationStep
  <1> QED BY <1>1, InitiallyCreating, PTL DEF Spec

\* Row, requests, POSTs, bases and profiles keep their types.
THEOREM CreationTypeCorrect == Spec => []TypeOK
PROOF
  <1>1. CInv => TypeOK
    BY DEF CInv
  <1> QED BY <1>1, CreationInvariant, PTL

\* However many requests with one key overlap, die or lose their answers, the
\* upstream is asked for one knowledge base only (Claim, findUpstream).
THEOREM KeyCreatesOnce == Spec => []OneSpacePerKey
PROOF
  <1>1. CInv => OneSpacePerKey
    BY DEF CInv
  <1> QED BY <1>1, CreationInvariant, PTL

\* All successful answers are about what the key was first used for, a ready row
\* has its profile also after late failures and completions, and one answer at
\* most says "created" (request hash, EnsureProfile, Complete).
THEOREM AnswersStayTrue == Spec => []AnswersAreKept
PROOF
  <1>1. CInv => AnswersAreKept
    BY DEF CInv, AnswersAreKept
  <1> QED BY <1>1, CreationInvariant, PTL
-----------------------------------------------------------------------------
(***************************************************************************)
(* The refinement of KeyedCreation.  Besides CInv it needs that a request  *)
(* past the search has found or created the base, and so that an answer is *)
(* only given when the base was asked for.                                 *)
(***************************************************************************)
AskedFirst ==
  \A a \in Attempts :
    /\ req[a].pc \in {"profile", "complete"} => row.id \in posted
    /\ req[a].pc = "await" => wire[a] # Nothing

\* Only the first claim and the status of a completed or failed request change
\* the row, and nothing that was asked for is forgotten.
LEMMA ClaimStays ==
  ASSUME NothingAssumption, CInv, [Next]_vars
  PROVE  /\ posted \subseteq posted'
         /\ row # Nothing => row' # Nothing /\ row'.id = row.id /\ row'.spec = row.spec
PROOF
  <1> DEFINE Stays == row # Nothing =>
                        row' # Nothing /\ row'.id = row.id /\ row'.spec = row.spec
  <1>1. ASSUME UNCHANGED row PROVE Stays
    BY <1>1
  <1>2. ASSUME NEW a \in Attempts, NEW kind \in Kinds, NEW i \in Ids, Claim(a, kind, i)
        PROVE  Stays /\ UNCHANGED posted
    BY <1>2 DEF Claim, Claimed, upstream
  <1>3. ASSUME NEW a \in Attempts, Complete(a) \/ RecordFailure(a)
        PROVE  Stays /\ UNCHANGED posted
    <2>1. ~At(a, "idle") /\ UNCHANGED posted
      BY <1>3 DEF Complete, RecordFailure, At, upstream
    <2>2. PICK status \in {"ready", "failed"} : row' = [row EXCEPT !.status = status]
      BY <1>3 DEF Complete, RecordFailure
    <2>3. row \in Rows
      BY <2>1, RowKnown
    <2>4. row' \in Rows /\ row'.id = row.id /\ row'.spec = row.spec
      BY <2>2, <2>3 DEF Rows
    <2> QED BY <2>1, <2>4 DEF NothingAssumption
  <1>4. ASSUME NEW a \in Attempts,
               Find(a) \/ PostSpace(a) \/ ReceiveSpace(a) \/ ReceiveRefusal(a) \/ Refind(a)
        PROVE  UNCHANGED row /\ posted \subseteq posted'
    BY <1>4 DEF Find, PostSpace, ReceiveSpace, ReceiveRefusal, Refind, upstream
  <1>5. ASSUME NEW a \in Attempts,
               EnsureProfile(a) \/ CallFails(a) \/ LoseSpace(a) \/ Die(a)
                 \/ CreateSpace(a) \/ RefuseSpace(a)
        PROVE  UNCHANGED row /\ posted \subseteq posted'
    BY <1>5 DEF EnsureProfile, CallFails, LoseSpace, Die, CreateSpace, RefuseSpace, upstream
  <1>6. ASSUME ChangeVision \/ \E i \in Ids : OwnerRenames(i) \/ OwnerDeletes(i)
        PROVE  UNCHANGED row /\ posted \subseteq posted'
    BY <1>6 DEF ChangeVision, OwnerRenames, OwnerDeletes, upstream
  <1>7. CASE UNCHANGED vars
    BY <1>7 DEF vars
  <1> QED BY <1>1, <1>2, <1>3, <1>4, <1>5, <1>6, <1>7 DEF Next, Proceed

\* A step of one request that gets past the search only with the base in hand.
LEMMA OneRequestMoves ==
  ASSUME NothingAssumption, CInv, AskedFirst, [Next]_vars, NEW a \in Attempts,
         \A b \in Attempts \ {a} : req'[b] = req[b] /\ wire'[b] = wire[b],
         req'[a].pc \in {"profile", "complete"} => row # Nothing /\ row.id \in posted,
         req'[a].pc = "await" => wire'[a] # Nothing
  PROVE  AskedFirst'
PROOF
  <1> SUFFICES ASSUME NEW b \in Attempts
               PROVE  /\ req'[b].pc \in {"profile", "complete"} => row'.id \in posted'
                      /\ req'[b].pc = "await" => wire'[b] # Nothing
    BY DEF AskedFirst
  <1>1. /\ posted \subseteq posted'
        /\ row # Nothing => row'.id = row.id
    BY ClaimStays
  <1>2. CASE b = a
    BY <1>1, <1>2
  <1>3. CASE b # a
    <2>1. req'[b] = req[b] /\ wire'[b] = wire[b]
      BY <1>3
    <2>2. req[b].pc \in {"profile", "complete"} => row # Nothing /\ row.id \in posted
      BY RowKnown DEF AskedFirst, At
    <2>3. req[b].pc = "await" => wire[b] # Nothing
      BY DEF AskedFirst
    <2> QED BY <1>1, <2>1, <2>2, <2>3
  <1> QED BY <1>2, <1>3

LEMMA GoesTo ==
  ASSUME CInv, NEW a \in Attempts, NEW pc, Go(a, pc)
  PROVE  req'[a].pc = pc /\ \A b \in Attempts \ {a} : req'[b] = req[b]
PROOF
  BY DEF Go, CInv, TypeOK, Request

LEMMA AskedFirstStep ==
  ASSUME NothingAssumption, CInv, AskedFirst, [Next]_vars
  PROVE  AskedFirst'
PROOF
  <1>0. req \in [Attempts -> Request] /\ wire \in [Attempts -> Posts \cup {Nothing}]
    BY DEF CInv, TypeOK
  <1>1. ASSUME NEW a \in Attempts, NEW kind \in Kinds, NEW i \in Ids, Claim(a, kind, i)
        PROVE  AskedFirst'
    <2>1. /\ req'[a].pc = "find"
          /\ \A b \in Attempts \ {a} : req'[b] = req[b] /\ wire'[b] = wire[b]
      BY <1>0, <1>1 DEF Claim, Claimed, upstream
    <2> QED BY <2>1, OneRequestMoves
  <1>2. ASSUME NEW a \in Attempts, Find(a) \/ Refind(a) PROVE AskedFirst'
    <2>1. /\ ~At(a, "idle")
          /\ \A b \in Attempts \ {a} : req'[b] = req[b] /\ wire'[b] = wire[b]
          /\ req'[a].pc = "profile" => kb[req[a].id] # Nothing
          /\ req'[a].pc \notin {"complete", "await"}
      BY <1>0, <1>2, GoesTo DEF Find, Refind, At, Checked, upstream
    <2>2. kb[req[a].id] # Nothing => row # Nothing /\ row.id \in posted
      BY <2>1, RowKnown DEF CInv, OneSpacePerKey
    <2> QED BY <2>1, <2>2, OneRequestMoves
  <1>3. ASSUME NEW a \in Attempts, PostSpace(a) PROVE AskedFirst'
    <2>1. /\ ~At(a, "idle") /\ req'[a].pc = "await"
          /\ \A b \in Attempts \ {a} : req'[b] = req[b] /\ wire'[b] = wire[b]
          /\ wire'[a] = [status |-> "sent", id |-> req[a].id,
                         base |-> UpstreamRequest(req[a].spec)]
      BY <1>0, <1>3 DEF PostSpace, Go, At
    <2>2. wire'[a] \in Posts
      BY <2>1, RowKnown, BaseType DEF Posts
    <2> QED BY <2>1, <2>2, OneRequestMoves DEF NothingAssumption
  <1>4. ASSUME NEW a \in Attempts, ReceiveSpace(a) PROVE AskedFirst'
    <2>1. /\ At(a, "await")
          /\ \A b \in Attempts \ {a} : req'[b] = req[b] /\ wire'[b] = wire[b]
          /\ req'[a].pc \in {"profile", "fail"}
      BY <1>0, <1>4 DEF ReceiveSpace, Checked, Request
    <2>2. row # Nothing /\ row.id \in posted
      BY <2>1 DEF AskedFirst, CInv, PostsShareRow, At
    <2> QED BY <2>1, <2>2, OneRequestMoves
  <1>5. ASSUME NEW a \in Attempts, ReceiveRefusal(a) \/ LoseSpace(a) PROVE AskedFirst'
    <2>1. /\ \A b \in Attempts \ {a} : req'[b] = req[b] /\ wire'[b] = wire[b]
          /\ req'[a].pc = "refind"
      BY <1>0, <1>5, GoesTo DEF ReceiveRefusal, LoseSpace
    <2> QED BY <2>1, OneRequestMoves
  <1>6. ASSUME NEW a \in Attempts, EnsureProfile(a) PROVE AskedFirst'
    <2>1. /\ At(a, "profile") /\ ~At(a, "idle") /\ req'[a].pc # "await"
          /\ \A b \in Attempts \ {a} : req'[b] = req[b] /\ wire'[b] = wire[b]
      BY <1>0, <1>6 DEF EnsureProfile, Go, At, upstream
    <2>2. row # Nothing /\ row.id \in posted
      BY <2>1, RowKnown DEF AskedFirst, At
    <2> QED BY <2>1, <2>2, OneRequestMoves
  <1>7. ASSUME NEW a \in Attempts,
               Complete(a) \/ RecordFailure(a) \/ CallFails(a) \/ Die(a)
        PROVE  AskedFirst'
    <2>1. /\ req'[a].pc \in {"idle", "fail"}
          /\ \A b \in Attempts \ {a} : req'[b] = req[b] /\ wire'[b] = wire[b]
      BY <1>0, <1>7, IdleType, GoesTo
      DEF Complete, RecordFailure, CallFails, Die, Leave, upstream
    <2> QED BY <2>1, OneRequestMoves
  <1>8. ASSUME NEW a \in Attempts, CreateSpace(a) \/ RefuseSpace(a) PROVE AskedFirst'
    <2>1. /\ wire[a] \in Posts /\ UNCHANGED req
          /\ \E status \in {"done", "refused"} : Processed(a, status)
      BY <1>0, <1>8 DEF CreateSpace, RefuseSpace
    <2>2. PICK status \in {"done", "refused"} : Processed(a, status)
      BY <2>1
    <2> DEFINE w == [wire[a] EXCEPT !.status = status]
    <2>3. w \in Posts
      BY <2>1 DEF Posts
    <2> HIDE DEF w
    <2>4. wire' = [wire EXCEPT ![a] = IF At(a, "await") THEN w ELSE Nothing]
      BY <2>2 DEF Processed, w
    <2>5. At(a, "await") => wire'[a] # Nothing
      BY <1>0, <2>3, <2>4 DEF NothingAssumption
    <2>6. \A b \in Attempts \ {a} : wire'[b] = wire[b]
      BY <1>0, <2>4
    <2>7. req[a].pc \in {"profile", "complete"} => row # Nothing /\ row.id \in posted
      BY RowKnown DEF AskedFirst, At
    <2> QED BY <2>1, <2>5, <2>6, <2>7, OneRequestMoves DEF At
  <1>9. CASE UNCHANGED <<row, req, wire, posted>>
    BY <1>9 DEF AskedFirst
  <1>10. ASSUME ChangeVision \/ \E i \in Ids : OwnerRenames(i) \/ OwnerDeletes(i)
         PROVE  UNCHANGED <<row, req, wire, posted>>
    BY <1>10 DEF ChangeVision, OwnerRenames, OwnerDeletes, upstream
  <1> QED
    BY <1>1, <1>2, <1>3, <1>4, <1>5, <1>6, <1>7, <1>8, <1>9, <1>10
    DEF Next, Proceed, vars, upstream

\* Every step is a step of KeyedCreation or changes nothing it sees.
LEMMA OwnerLoses ==
  ASSUME CInv, NEW i \in Ids, OwnerDeletes(i)
  PROVE  \E thing \in Made : Made' = Made \ {thing}
PROOF
  <1>1. kb[i] # Nothing /\ \A j \in Ids : kb'[j] = IF j = i THEN Nothing ELSE kb[j]
    BY DEF OwnerDeletes, CInv, TypeOK
  <1>2. <<i, kb[i].kind>> \in Made
    BY <1>1 DEF Made
  <1>3. Made' = Made \ {<<i, kb[i].kind>>}
    BY <1>1 DEF Made
  <1> QED BY <1>2, <1>3

LEMMA UpstreamMakes ==
  ASSUME CInv, NEW a \in Attempts, CreateSpace(a)
  PROVE  /\ row # Nothing /\ row.id \in posted
         /\ Made' = Made \cup {<<row.id, row.spec.kind>>}
PROOF
  <1>1. /\ row # Nothing /\ row.id \in posted /\ row.id \in Ids
        /\ wire[a].id = row.id /\ wire[a].base.kind = row.spec.kind
        /\ wire[a].base \in Bases /\ kb[row.id] = Nothing
    BY DEF CreateSpace, CInv, TypeOK, PostsShareRow, Posts, Rows
  <1>2. \A j \in Ids : kb'[j] = IF j = row.id THEN wire[a].base ELSE kb[j]
    BY <1>1 DEF CreateSpace, CInv, TypeOK
  <1>3. wire[a].base # Nothing
    BY <1>1, NothingAssumption DEF NothingAssumption
  <1> QED BY <1>1, <1>2, <1>3 DEF Made
\* A step that keeps the row and the bases is seen as nothing else does.
LEMMA ClaimsKept ==
  ASSUME NothingAssumption, CInv, [Next]_vars, row # Nothing
  PROVE  Claims' = Claims
PROOF
  BY ClaimStays DEF Claims

LEMMA MadeKept == UNCHANGED kb => Made' = Made
PROOF
  BY DEF Made

LEMMA RenamedIsMade ==
  ASSUME NothingAssumption, CInv, NEW i \in Ids, OwnerRenames(i)
  PROVE  Made' = Made
PROOF
  <1> DEFINE base == [kb[i] EXCEPT !.renamed = TRUE]
  <1>1. kb[i] \in Bases /\ kb[i] # Nothing
    BY DEF OwnerRenames, CInv, TypeOK
  <1>2. base \in Bases /\ base.kind = kb[i].kind
    BY <1>1 DEF Bases
  <1>3. base # Nothing
    BY <1>2 DEF NothingAssumption
  <1>4. kb' = [kb EXCEPT ![i] = base]
    BY DEF OwnerRenames
  <1> HIDE DEF base
  <1>5. \A j \in Ids : /\ kb'[j] # Nothing <=> kb[j] # Nothing
                       /\ kb[j] # Nothing => kb'[j].kind = kb[j].kind
    BY <1>1, <1>2, <1>3, <1>4 DEF CInv, TypeOK
  <1> QED BY <1>5 DEF Made

seen == <<Claims, posted, Made, answered, announced>>

\* Every step is a step of KeyedCreation or changes nothing that it sees.
LEMMA KeyMoves ==
  ASSUME NothingAssumption, CInv, AskedFirst, [Next]_vars
  PROVE  [Promise!Next]_seen
PROOF
  <1>1. ASSUME NEW a \in Attempts, NEW kind \in Kinds, NEW i \in Ids, Claim(a, kind, i)
        PROVE  [Promise!Next]_seen
    <2>1. UNCHANGED <<posted, Made, answered, announced>>
      BY <1>1, MadeKept DEF Claim, Claimed, upstream, history
    <2>2. CASE row # Nothing
      BY <2>1, <2>2, ClaimsKept DEF seen
    <2>3. CASE row = Nothing
      <3> DEFINE new == [spec |-> Requested(kind), id |-> i, status |-> "pending"]
      <3>1. row' = new /\ Stored(i) = i
        BY <1>1, <2>3 DEF Claim, Claimed, Stored
      <3>2. new \in Rows /\ Requested(kind) \in Specs
        BY RequestedType DEF CInv, TypeOK, Rows
      <3>3. new # Nothing
        BY <3>2 DEF NothingAssumption
      <3>4. Claims = {} /\ Claims' = {[spec |-> Requested(kind), id |-> i]}
        BY <2>3, <3>1, <3>3 DEF Claims
      <3>5. Promise!Claim
        BY <2>1, <3>2, <3>4 DEF Promise!Claim
      <3> QED BY <3>5 DEF Promise!Next
    <2> QED BY <2>2, <2>3
  <1>2. ASSUME NEW a \in Attempts, PostSpace(a) PROVE [Promise!Next]_seen
    <2>1. row # Nothing /\ req[a].id = row.id
      BY <1>2, RowKnown DEF PostSpace, At
    <2>2. UNCHANGED <<Claims, Made, answered, announced>>
      BY <1>2, <2>1, MadeKept, ClaimsKept DEF PostSpace, history
    <2>3. posted' = posted \cup {row.id}
      BY <1>2, <2>1 DEF PostSpace
    <2>4. Promise!Ask
      BY <2>1, <2>2, <2>3 DEF Promise!Ask, Claims
    <2> QED BY <2>4 DEF Promise!Next
  <1>3. ASSUME NEW a \in Attempts, Complete(a) PROVE [Promise!Next]_seen
    <2>1. /\ row # Nothing /\ req[a].spec = row.spec /\ row.id \in posted
      BY <1>3, RowKnown DEF Complete, At, AskedFirst
    <2>2. UNCHANGED <<Claims, posted, Made>>
      BY <1>3, <2>1, MadeKept, ClaimsKept DEF Complete, upstream
    <2>3. answered' = answered \cup {row.spec}
      BY <1>3, <2>1 DEF Complete
    <2>4. announced' = announced \/ (announced = 0 /\ announced' = 1)
      BY <1>3 DEF Complete, SaysCreated, CInv, TypeOK, OneInserter
    <2>5. Promise!Report
      BY <2>1, <2>2, <2>3, <2>4 DEF Promise!Report, Claims
    <2> QED BY <2>5 DEF Promise!Next
  <1>4. ASSUME NEW a \in Attempts, CreateSpace(a) PROVE [Promise!Next]_seen
    <2>1. row # Nothing /\ row.id \in posted
          /\ Made' = Made \cup {<<row.id, row.spec.kind>>}
      BY <1>4, UpstreamMakes
    <2>2. UNCHANGED <<Claims, posted, answered, announced>>
      BY <1>4, <2>1, ClaimsKept DEF CreateSpace, history
    <2>3. Promise!Make
      BY <2>1, <2>2 DEF Promise!Make, Claims
    <2> QED BY <2>3 DEF Promise!Next
  <1>5. ASSUME NEW i \in Ids, OwnerDeletes(i) PROVE [Promise!Next]_seen
    <2>1. UNCHANGED <<Claims, posted, answered, announced>>
      BY <1>5 DEF OwnerDeletes, Claims, history
    <2>2. Promise!Lose
      BY <1>5, <2>1, OwnerLoses DEF Promise!Lose
    <2> QED BY <2>2 DEF Promise!Next
  <1>6. ASSUME NEW i \in Ids, OwnerRenames(i) PROVE UNCHANGED seen
    BY <1>6, RenamedIsMade DEF OwnerRenames, Claims, history, seen
  <1>7. ASSUME NEW a \in Attempts, RecordFailure(a) PROVE UNCHANGED seen
    <2>1. row # Nothing
      BY <1>7, RowKnown DEF RecordFailure, At
    <2> QED BY <1>7, <2>1, MadeKept, ClaimsKept DEF RecordFailure, upstream, history, seen
  <1>8. ASSUME NEW a \in Attempts,
               Find(a) \/ Refind(a) \/ ReceiveSpace(a) \/ ReceiveRefusal(a)
                 \/ EnsureProfile(a) \/ CallFails(a) \/ LoseSpace(a) \/ Die(a)
                 \/ RefuseSpace(a)
        PROVE  UNCHANGED <<row, kb, posted, answered, announced>>
    BY <1>8
    DEF Find, Refind, ReceiveSpace, ReceiveRefusal, EnsureProfile, CallFails,
        LoseSpace, Die, RefuseSpace, upstream, history
  <1>9. ChangeVision \/ UNCHANGED vars
          => UNCHANGED <<row, kb, posted, answered, announced>>
    BY DEF ChangeVision, vars, upstream, history
  <1>10. UNCHANGED <<row, kb, posted, answered, announced>> => UNCHANGED seen
    BY MadeKept DEF Claims, seen
  <1> QED
    BY <1>1, <1>2, <1>3, <1>4, <1>5, <1>6, <1>7, <1>8, <1>9, <1>10 DEF Next, Proceed

\* The creation of spaces implements the promise of an idempotency key: the
\* key is claimed once, only the claimed base is asked for and made, and success
\* is reported only after that, once as "created" (Claim, Find, Complete).
THEOREM CreationKeepsPromise == Spec => KeyStandsForOneSpace
PROOF
  <1>1. Init => Promise!Init /\ AskedFirst
    <2> SUFFICES ASSUME Init PROVE Promise!Init /\ AskedFirst
      OBVIOUS
    <2>1. row = Nothing /\ kb = [i \in Ids |-> Nothing] /\ req = [a \in Attempts |-> Idle]
          /\ posted = {} /\ answered = {} /\ announced = 0
      BY DEF Init
    <2>2. Claims = {} /\ Made = {}
      BY <2>1, Zenon DEF Claims, Made
    <2>3. AskedFirst
      BY <2>1, IdleType DEF AskedFirst
    <2> QED BY <2>1, <2>2, <2>3 DEF Promise!Init
  <1>2. CInv /\ AskedFirst /\ [Next]_vars => AskedFirst'
    BY NothingAssumption, AskedFirstStep
  <1>3. CInv /\ AskedFirst /\ [Next]_vars => [Promise!Next]_seen
    BY NothingAssumption, KeyMoves
  <1>4. Spec => [](CInv /\ AskedFirst)
    BY <1>1, <1>2, CreationInvariant, PTL DEF Spec
  <1> QED
    BY <1>1, <1>3, <1>4, PTL DEF Spec, KeyStandsForOneSpace, Promise!Spec, seen
-----------------------------------------------------------------------------
(***************************************************************************)
(* The recovery of SpaceRecovery: the client's repetitions and every fault *)
(* are steps of SpaceCreation.                                             *)
(***************************************************************************)
LEMMA RecoveryIsNext == RecoveryNext => Next
PROOF
  <1> SUFFICES ASSUME RecoveryNext PROVE Next
    OBVIOUS
  <1>1. CASE Repeat
    BY <1>1 DEF Repeat, Next
  <1>2. CASE \E a \in Attempts : Proceed(a) \/ CreateSpace(a) \/ Conflict(a)
    BY <1>2 DEF Conflict, Next
  <1>3. CASE \E a \in Attempts : Fault(a)
    BY <1>3 DEF Fault, Next
  <1> QED BY <1>1, <1>2, <1>3 DEF RecoveryNext

\* A client that repeats its request with one key until it is answered gets one
\* knowledge base, and answers that stay true.
THEOREM RepeatedCreationIsSafe ==
  RecoverySpec => Spec /\ KeyStandsForOneSpace /\ [](OneSpacePerKey /\ AnswersAreKept)
PROOF
  <1>1. [RecoveryNext]_<<vars, faults>> => [Next]_vars
    BY RecoveryIsNext
  <1>2. RecoverySpec => Spec
    BY <1>1, PTL DEF RecoverySpec, RecoveryInit, Spec
  <1> QED BY <1>2, CreationKeepsPromise, KeyCreatesOnce, AnswersStayTrue, PTL
=============================================================================
