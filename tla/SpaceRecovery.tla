--------------------------- MODULE SpaceRecovery ---------------------------
(***************************************************************************)
(* SpaceCreation with a client who repeats its request with the same key   *)
(* until it is answered, as the error messages of space/service.go tell    *)
(* it to.  Nobody renames or deletes the base or changes the managed       *)
(* models; everything else that can go wrong does so at most MaxFaults     *)
(* times in all: failed calls, lost answers, refusals and dying requests.  *)
(***************************************************************************)
EXTENDS SpaceCreation

CONSTANT MaxFaults    \* bound: how many faults may happen

VARIABLE faults       \* faults so far

Fault(a) ==
  \/ CallFails(a) \/ LoseSpace(a) \/ Die(a)
  \/ wire[a] # Nothing /\ kb[wire[a].id] = Nothing /\ RefuseSpace(a)

\* The upstream refuses an id that it has.
Conflict(a) == wire[a] # Nothing /\ kb[wire[a].id] # Nothing /\ RefuseSpace(a)

\* The first request of the client may be for a space of any kind; the hash
\* of the row keeps it to that kind from then on.
Repeat == \E a \in Attempts, kind \in Kinds, i \in Ids : Claim(a, kind, i)

RecoveryNext ==
  \/ /\ \/ Repeat
        \/ \E a \in Attempts : Proceed(a) \/ CreateSpace(a) \/ Conflict(a)
     /\ UNCHANGED faults
  \/ (\E a \in Attempts : Fault(a)) /\ faults < MaxFaults /\ faults' = faults + 1

\* Calls return, the upstream answers what is not lost, the client persists.
RecoveryFairness ==
  /\ WF_vars(Repeat)
  /\ \A a \in Attempts : WF_vars(Proceed(a)) /\ WF_vars(CreateSpace(a) \/ Conflict(a))

RecoveryInit == Init /\ faults = 0
RecoverySpec == RecoveryInit /\ [][RecoveryNext]_<<vars, faults>> /\ RecoveryFairness

\* The managed vision model was there when notes were first asked for.
NotesWithVision == row # Nothing /\ row.spec.kind = "notes" /\ row.spec.vision

\* A client who keeps repeating its request with the same key gets its space,
\* of whatever kind, whatever became of the earlier requests, and whichever
\* failures were recorded late over the completion of others; only notes that
\* were asked for while there was a managed vision model are not promised.
EveryRetrySucceeds == <>(answered # {} \/ NotesWithVision)

\* "retries create one upstream KB and one profile; partial failure reconciles
\* safely": every client who persists gets its space.  Notes asked for while
\* there is a managed vision model are never answered (verifyUpstreamOwnership).
EveryCreationSucceeds == <>(answered # {})
=============================================================================
