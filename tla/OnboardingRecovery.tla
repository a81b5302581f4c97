------------------------ MODULE OnboardingRecovery ------------------------
(***************************************************************************)
(* Onboarding with the recovery guide's rule for an unknown outcome: the   *)
(* Owner adds the employee by hand once nothing is on its way, and the     *)
(* employee retries.  Everything that can go wrong does so at most         *)
(* MaxJoinFaults times in all: dying requests, lost answers, lost locks,   *)
(* failed reads, refusals, suspensions and removals.                       *)
(***************************************************************************)
EXTENDS Onboarding

CONSTANT MaxJoinFaults    \* bound: how many faults may happen

VARIABLE joinFaults       \* faults so far

JoinFault ==
  \/ \E r \in Slots :
       \/ KeyUnavailable(r) \/ LoseAnswer(r) \/ RereadFails(r) \/ Die(r)
       \/ LoseLock(r) \/ AddNobody(r)
  \/ active /\ ChangeActive
  \/ OwnerRemoves

\* A request that was started goes on to its end.
JoinProceeds(r) ==
  \/ Acquire(r) \/ Refresh(r) \/ Decide(r) \/ Mark(r) \/ Post(r) \/ Receive(r)
  \/ Reread(r) \/ CompleteJoin(r) \/ FailJoin(r)

Join(r) == Start(r, TRUE)

\* The Owner first checks who is a member, then adds the employee.
OwnerRepairs ==
  /\ record.unknown
  /\ \A r \in Slots : post[r] # "sent"
  /\ OwnerAdds

Reinstate == ~active /\ ChangeActive

AnswerJoin(r) == AddMember(r) \/ AlreadyMember(r)

JoiningNext ==
  \/ /\ \/ \E r \in Slots :
             \/ JoinProceeds(r) \/ AnswerJoin(r)
             \/ \E join \in BOOLEAN : Start(r, join)
        \/ OwnerRepairs \/ Reinstate
     /\ UNCHANGED joinFaults
  \/ JoinFault /\ joinFaults < MaxJoinFaults /\ joinFaults' = joinFaults + 1

\* The lock queue of the database serves every waiter, the upstream answers
\* every request that is not lost, and the employee and the Owner persist.
JoiningFairness ==
  /\ \A r \in Slots :
       /\ WF_joinVars(JoinProceeds(r))
       /\ SF_joinVars(Acquire(r))
       /\ WF_joinVars(AnswerJoin(r))
  /\ SF_joinVars(\E r \in Slots : Join(r))
  /\ SF_joinVars(OwnerRepairs) /\ WF_joinVars(Reinstate)

JoiningInit == JoinInit /\ joinFaults = 0
JoiningSpec ==
  JoiningInit /\ [][JoiningNext]_<<joinVars, joinFaults>> /\ JoiningFairness

\* However a join goes wrong, the retries of the employee and the Owner's
\* repair bring the row to "completed"; no combination of a dead request, an
\* unknown outcome and a removal leaves an active employee locked out.
EmployeeGetsIn == <>record.completed
===========================================================================
