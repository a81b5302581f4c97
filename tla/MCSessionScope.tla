--------------------------- MODULE MCSessionScope ---------------------------
(***************************************************************************)
(* The assistant: `subject` says whether a behaviour is about its sessions *)
(* or its budgets; the other stays in its initial state.  The instances:   *)
(* two requests at once, of a person and of one of their keys, in a        *)
(* channel and outside it; and the questions of two users in three days of *)
(* two minutes.                                                            *)
(***************************************************************************)
EXTENDS SessionScope, RateWindow, TLC

VARIABLE subject

allVars == <<subject, vars, rateVars>>

MCInit ==
  /\ subject \in {"sessions", "questions"}
  /\ Init /\ RateInit

MCNext ==
  /\ UNCHANGED subject
  /\ \/ subject = "sessions" /\ Next /\ UNCHANGED rateVars
     \/ subject = "questions" /\ RateNext /\ UNCHANGED vars

MCSpec == MCInit /\ [][MCNext]_allVars

CONSTANTS alice, key, r1, r2

MCActors == {alice, key}
MCRequests == {r1, r2}

Symmetry == Permutations(MCActors) \cup Permutations(MCRequests)

\* The types of both components.
AllTypesOK == TypeOK /\ RateTypeOK
===========================================================================
