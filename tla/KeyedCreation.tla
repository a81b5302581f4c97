--------------------------- MODULE KeyedCreation ---------------------------
(***************************************************************************)
(* What an idempotency key promises to the client who sends it with a      *)
(* creation: the first request claims what is to be created and under      *)
(* which id.  From then on nothing else is asked for, made or reported     *)
(* under the key, success is reported only after the thing was asked for,  *)
(* and at most one answer says that it was created.                        *)
(***************************************************************************)
EXTENDS Naturals

CONSTANTS
  Wishes,      \* what may be asked for; a wish has a kind
  Ids          \* names of what is created

VARIABLES
  claims,      \* what the key stands for: one wish and id at most
  asked,       \* ids whose creation was asked for
  made,        \* what there is of them: id and kind
  told,        \* wishes that were reported as granted
  announced    \* reports that said "created"

Init ==
  /\ claims = {} /\ asked = {} /\ made = {} /\ told = {}
  /\ announced = 0

Claim ==
  /\ claims = {}
  /\ \E spec \in Wishes, id \in Ids : claims' = {[spec |-> spec, id |-> id]}
  /\ UNCHANGED <<asked, made, told, announced>>

Ask ==
  /\ \E c \in claims : asked' = asked \cup {c.id}
  /\ UNCHANGED <<claims, made, told, announced>>

Make ==
  /\ \E c \in claims : c.id \in asked /\ made' = made \cup {<<c.id, c.spec.kind>>}
  /\ UNCHANGED <<claims, asked, told, announced>>

\* What was created may be deleted by others.
Lose ==
  /\ \E thing \in made : made' = made \ {thing}
  /\ UNCHANGED <<claims, asked, told, announced>>

Report ==
  /\ \E c \in claims : c.id \in asked /\ told' = told \cup {c.spec}
  /\ \/ announced' = announced
     \/ announced = 0 /\ announced' = 1
  /\ UNCHANGED <<claims, asked, made>>

Next == Claim \/ Ask \/ Make \/ Lose \/ Report

Spec == Init /\ [][Next]_<<claims, asked, made, told, announced>>
===========================================================================
