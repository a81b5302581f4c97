----------------------------- MODULE MCSharing -----------------------------
(***************************************************************************)
(* How owners share, and what the gate makes of it: `subject` says which   *)
(* component a behaviour is about; the others stay in their initial        *)
(* states.  The instances: a publication with two tabs of its owner, a     *)
(* subscriber with one request and two workspaces; the grants of a base    *)
(* for one user, with two tabs and two rows; and the gate, with two        *)
(* requests at once, a base of the employee's own and one of somebody else *)
(* who changes three times what it is shared with.                         *)
(***************************************************************************)
EXTENDS Publications, Grants, AccessGate, TLC

CONSTANTS o1, o2, v1, u1, t1, t2, g1, g2, k1, k2

MCTabs == {o1, o2}
MCBases == {k1, k2}
MCAudiences == {{t1}, {t1, t2}}

VARIABLE subject

allVars == <<subject, pubVars, grantVars, vars>>

MCInit ==
  /\ subject \in {"publication", "grants", "gate"}
  /\ PublicationsInit /\ GrantsInit /\ Init

\* Bounds of the gate: one request at a time, or two that are not about the
\* employee's own base.
OneRequest == \E r \in Requests : \A q \in Requests \ {r} : req'[q].pc = "idle"
OfOthers == \A r \in Requests : req'[r].asked \cup req'[r].kbs \subseteq {k1}

MCNext ==
  /\ UNCHANGED subject
  /\ \/ subject = "publication" /\ PublicationsNext /\ UNCHANGED <<grantVars, vars>>
     \/ subject = "grants" /\ GrantsNext /\ UNCHANGED <<pubVars, vars>>
     \/ /\ subject = "gate" /\ Next /\ (OneRequest \/ OfOthers)
        /\ UNCHANGED <<pubVars, grantVars>>

MCSpec == MCInit /\ [][MCNext]_allVars

MCSymmetry == Permutations(MCTabs) \cup Permutations({g1, g2})

\* The types of all components.
AllTypesOK == PublicationsTypeOK /\ GrantsTypeOK /\ TypeOK
============================================================================
