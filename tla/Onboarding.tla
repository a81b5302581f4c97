---------------------------- MODULE Onboarding ----------------------------
(***************************************************************************)
(* Onboarding of one employee into the default space                       *)
(* (internal/enterprise/onboarding.go, store.go).  GET reports the state,  *)
(* POST joins.  Both run under the session lock of the employee's subject, *)
(* held on one database connection that also carries their reads and       *)
(* saves: losing the connection loses the lock, and every later save of    *)
(* that request fails, but the request itself, and a POST it is about to   *)
(* send, go on.  Owners add and remove members and administrators suspend  *)
(* identities meanwhile, without the lock.                                 *)
(*                                                                         *)
(* Employees share nothing but the installation, which is "ready" here, so *)
(* one is modelled.  A request slot is used again once the POST of its     *)
(* last request has been processed.                                        *)
(***************************************************************************)
EXTENDS Naturals

CONSTANTS
  Slots,       \* slots for concurrent onboarding requests of the employee
  NoHolder     \* nobody holds the lock

ASSUME NoHolderAssumption == NoHolder \notin Slots

VARIABLES
  record,      \* the employee's row of mindcreek.employee_onboarding
  lock,        \* the request whose connection holds the employee's lock
  joinReq,     \* joinReq[r]: where request r is, with its locals
  post,        \* post[r]: what became of the members POST of r
  member,      \* upstream: the employee has a role in the default space
  active,      \* the corporate identity is active
  removed      \* history: an Owner removed the employee and has not added back

joinVars == <<record, lock, joinReq, post, member, active, removed>>

JoinPoints == {"idle", "lock", "refresh", "decide", "mark", "post", "await",
               "reread", "complete", "fail"}

\* "pending" is the state of an employee without a row.
JoinTypeOK ==
  /\ record \in [state : {"pending", "joining", "failed", "ready"},
                 unknown : BOOLEAN, completed : BOOLEAN]
  /\ lock \in Slots \cup {NoHolder}
  /\ joinReq \in [Slots -> [pc : JoinPoints, join : BOOLEAN, seen : BOOLEAN,
                            unknown : BOOLEAN, afterRemoval : BOOLEAN]]
  /\ post \in [Slots -> {"none", "sent", "done", "refused", "unclear"}]
  /\ member \in BOOLEAN /\ active \in BOOLEAN /\ removed \in BOOLEAN

Idle == [pc |-> "idle", join |-> FALSE, seen |-> FALSE, unknown |-> FALSE,
         afterRemoval |-> FALSE]

JoinInit ==
  /\ record = [state |-> "pending", unknown |-> FALSE, completed |-> FALSE]
  /\ lock = NoHolder
  /\ joinReq = [r \in Slots |-> Idle]
  /\ post = [r \in Slots |-> "none"]
  /\ member = FALSE /\ active = TRUE /\ removed = FALSE

---------------------------------------------------------------------------
Outside == <<member, active, removed>>

JoinAt(r, pc) == joinReq[r].pc = pc

JoinGoes(r, pc) == joinReq' = [joinReq EXCEPT ![r].pc = pc]

\* Return from Onboarding: the deferred unlock, if the lock is still held.
Return(r) ==
  /\ JoinGoes(r, "idle")
  /\ lock' = IF lock = r THEN NoHolder ELSE lock

\* CurrentPrincipal, CheckEmployee and Installation before the lock.
Start(r, join) ==
  /\ JoinAt(r, "idle")
  /\ post[r] # "sent"
  /\ active
  /\ joinReq' = [joinReq EXCEPT ![r] = [Idle EXCEPT !.pc = "lock", !.join = join,
                                                !.afterRemoval = removed]]
  /\ post' = [post EXCEPT ![r] = "none"]
  /\ UNCHANGED <<record, lock, Outside>>

Acquire(r) ==
  /\ JoinAt(r, "lock")
  /\ lock = NoHolder
  /\ lock' = r
  /\ JoinGoes(r, "refresh")
  /\ UNCHANGED <<record, post, Outside>>

\* The principal and the identity are read again under the lock.
Refresh(r) ==
  /\ JoinAt(r, "refresh")
  /\ IF active
       THEN /\ joinReq' = [joinReq EXCEPT ![r].pc = "decide", ![r].seen = member]
            /\ lock' = lock
       ELSE Return(r)
  /\ UNCHANGED <<record, post, Outside>>

\* A slip: an unknown outcome is simply tried again.
DecisionBlind(r) ==
  IF record.completed THEN "report"
  ELSE IF joinReq[r].seen THEN (IF joinReq[r].join THEN "complete" ELSE "report")
  ELSE IF ~joinReq[r].join THEN "report" ELSE "mark"

\* A slip: an unknown outcome is reported before the membership is looked at.
DecisionUnknownFirst(r) ==
  IF record.completed \/ record.unknown \/ ~joinReq[r].join THEN "report"
  ELSE IF joinReq[r].seen THEN "complete" ELSE "mark"

\* What to do, from the row and the membership just read.
Decision(r) ==
  IF record.completed THEN "report"
  ELSE IF joinReq[r].seen THEN (IF joinReq[r].join THEN "complete" ELSE "report")
  ELSE IF record.unknown \/ ~joinReq[r].join THEN "report" ELSE "mark"

Decide(r) ==
  /\ JoinAt(r, "decide")
  /\ IF lock = r /\ Decision(r) # "report"
       THEN JoinGoes(r, Decision(r)) /\ lock' = lock
       ELSE Return(r)
  /\ UNCHANGED <<record, post, Outside>>

\* ReadSecret fails: nothing is saved, the employee may retry.
KeyUnavailable(r) ==
  /\ JoinAt(r, "mark")
  /\ Return(r)
  /\ UNCHANGED <<record, post, Outside>>

\* The row says "joining", outcome unknown, before the POST goes out.
Mark(r) ==
  /\ JoinAt(r, "mark")
  /\ IF lock = r
       THEN /\ record' = [record EXCEPT !.state = "joining", !.unknown = TRUE]
            /\ joinReq' = [joinReq EXCEPT ![r].pc = "post", ![r].unknown = TRUE]
            /\ lock' = lock
       ELSE Return(r) /\ record' = record
  /\ UNCHANGED <<post, Outside>>

Post(r) ==
  /\ JoinAt(r, "post")
  /\ post' = [post EXCEPT ![r] = "sent"]
  /\ JoinGoes(r, "await")
  /\ UNCHANGED <<record, lock, Outside>>

\* A refusal with 400, 401, 403, 404 or 429 added nobody; any other outcome,
\* success included, leaves the question to the membership read next.
Receive(r) ==
  /\ JoinAt(r, "await")
  /\ post[r] # "sent"
  /\ joinReq' = [joinReq EXCEPT ![r].pc = "reread",
                                ![r].unknown = post[r] # "refused"]
  /\ UNCHANGED <<record, lock, post, Outside>>

\* A slip: no answer is taken for a refusal.
LoseAnswerRefused(r) ==
  /\ JoinAt(r, "await")
  /\ joinReq' = [joinReq EXCEPT ![r].pc = "reread", ![r].unknown = FALSE]
  /\ UNCHANGED <<record, lock, post, Outside>>

\* The connection to the upstream breaks, or the client times out.
LoseAnswer(r) ==
  /\ JoinAt(r, "await")
  /\ JoinGoes(r, "reread")
  /\ UNCHANGED <<record, lock, post, Outside>>

Reread(r) ==
  /\ JoinAt(r, "reread")
  /\ JoinGoes(r, IF member THEN "complete" ELSE "fail")
  /\ UNCHANGED <<record, lock, post, Outside>>

\* The second read of the principal fails.
RereadFails(r) ==
  /\ JoinAt(r, "reread")
  /\ JoinGoes(r, "fail")
  /\ UNCHANGED <<record, lock, post, Outside>>

\* A slip: saves go through the pool and not the connection with the lock.
SaveAnyway(r, row) ==
  record' = [row EXCEPT !.completed = @ \/ record.completed]

\* SaveOnboarding never takes completed_at back; a dead connection saves
\* nothing.
Save(r, row) ==
  record' = IF lock = r THEN [row EXCEPT !.completed = @ \/ record.completed]
            ELSE record

CompleteJoin(r) ==
  /\ JoinAt(r, "complete")
  /\ Save(r, [state |-> "ready", unknown |-> FALSE, completed |-> TRUE])
  /\ Return(r)
  /\ UNCHANGED <<post, Outside>>

FailJoin(r) ==
  /\ JoinAt(r, "fail")
  /\ Save(r, [state |-> "failed", unknown |-> joinReq[r].unknown,
              completed |-> FALSE])
  /\ Return(r)
  /\ UNCHANGED <<post, Outside>>

\* A crash, a cancelled request, an error of the database or the upstream.
Die(r) ==
  /\ ~JoinAt(r, "idle")
  /\ Return(r)
  /\ UNCHANGED <<record, post, Outside>>

\* The connection that holds the lock dies under the request.
LoseLock(r) ==
  /\ lock = r
  /\ lock' = NoHolder
  /\ UNCHANGED <<record, joinReq, post, Outside>>

Request(r) ==
  \/ \E join \in BOOLEAN : Start(r, join)
  \/ Acquire(r) \/ Refresh(r) \/ Decide(r) \/ KeyUnavailable(r) \/ Mark(r)
  \/ Post(r) \/ Receive(r) \/ LoseAnswer(r) \/ Reread(r) \/ RereadFails(r)
  \/ CompleteJoin(r) \/ FailJoin(r) \/ Die(r) \/ LoseLock(r)
---------------------------------------------------------------------------
\* The upstream, external.

Processed(r, outcome) ==
  /\ post[r] = "sent"
  /\ post' = [post EXCEPT ![r] = outcome]
  /\ UNCHANGED <<record, lock, joinReq, active, removed>>

\* The employee is added; the answer may still be a 5xx.
AddMember(r) ==
  /\ ~member /\ member' = TRUE
  /\ \E outcome \in {"done", "unclear"} : Processed(r, outcome)

\* 409: a member with a role is not added again.
AlreadyMember(r) == member /\ Processed(r, "unclear") /\ UNCHANGED member

\* A definitive refusal, or a 5xx that changed nothing.
AddNobody(r) ==
  /\ \E outcome \in {"refused", "unclear"} : Processed(r, outcome)
  /\ UNCHANGED member

\* Owners and administrators, external.
OwnerAdds ==
  /\ ~member
  /\ member' = TRUE /\ removed' = FALSE
  /\ UNCHANGED <<record, lock, joinReq, post, active>>

OwnerRemoves ==
  /\ member
  /\ member' = FALSE /\ removed' = TRUE
  /\ UNCHANGED <<record, lock, joinReq, post, active>>

ChangeActive ==
  /\ active' = ~active
  /\ UNCHANGED <<record, lock, joinReq, post, member, removed>>

JoinNext ==
  \/ \E r \in Slots :
       Request(r) \/ AddMember(r) \/ AlreadyMember(r) \/ AddNobody(r)
  \/ OwnerAdds \/ OwnerRemoves \/ ChangeActive

JoinSpec == JoinInit /\ [][JoinNext]_joinVars
---------------------------------------------------------------------------
\* Safety

\* The POST of r was sent, or is about to be, and has no known outcome.
Outstanding(r) == JoinAt(r, "post") \/ post[r] = "sent"

\* Two members POSTs are never on their way at once, whichever requests died,
\* lost their answer or lost their lock: an unknown outcome is not retried.
OneOutstanding ==
  \A r, s \in Slots : Outstanding(r) /\ Outstanding(s) => r = s

\* An outstanding POST is announced by the row until somebody has seen the
\* employee as a member, so no later request can take the outcome as known.
OutstandingIsRecorded ==
  (\E r \in Slots : Outstanding(r)) => record.unknown \/ record.completed

\* A completed row is final: no request, however late or however it lost its
\* lock, saves anything over it, and none announces another join.
KeepsCompletion == record.completed => record' = record
CompletionFinal == [][KeepsCompletion]_joinVars

\* What the recovery guide says of a removed employee: logging in again adds
\* nobody, only an Owner does.  So a join that was started after the removal
\* sends no POST.
RemovedStaysOut == \A r \in Slots : joinReq[r].afterRemoval => post[r] = "none"
---------------------------------------------------------------------------
\* The inductive invariant behind the theorems of OnboardingProofs.

Deciding == {"mark", "post", "await", "reread", "fail", "complete"}
Joining == {"post", "await", "reread", "fail"}

\* The lock is held inside the critical section only.
LockIsHeld == \A r \in Slots : lock = r => joinReq[r].pc \notin {"idle", "lock"}

\* While the request that read the row still has the lock, what it read is true.
RowIsFresh ==
  \A r \in Slots :
    lock = r /\ joinReq[r].pc \in Deciding =>
      /\ ~record.completed
      /\ joinReq[r].pc = "mark" => ~record.unknown

\* A joining request that still has the lock is the only one with a POST, and
\* takes the outcome for known only after an answer.
SoleJoin ==
  \A r \in Slots :
    lock = r /\ joinReq[r].pc \in Joining =>
      /\ \A s \in Slots : Outstanding(s) => s = r
      /\ joinReq[r].pc \in {"post", "await"} => joinReq[r].unknown
      /\ joinReq[r].pc \in {"reread", "fail"} /\ ~joinReq[r].unknown
           => post[r] # "sent"

OInv == JoinTypeOK /\ LockIsHeld /\ RowIsFresh /\ SoleJoin
        /\ OneOutstanding /\ OutstandingIsRecorded
===========================================================================
