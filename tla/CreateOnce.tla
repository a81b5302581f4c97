---------------------------- MODULE CreateOnce ----------------------------
(***************************************************************************)
(* What the installer promises about the things it creates upstream with   *)
(* calls that are not idempotent: in a fixed order, each is announced in   *)
(* the installation record, then requested at most once, then settled,     *)
(* either from the answer or by adopting what an operator names.  Whoever  *)
(* announced it may lose touch with the record first: its one request is   *)
(* then loose and may still go out when the thing is already settled.      *)
(***************************************************************************)
EXTENDS Naturals, Sequences

CONSTANT Order     \* the things, in the order in which they are created

Things == {Order[i] : i \in 1..Len(Order)}

VARIABLES
  phase,           \* phase[c] \in {"unmarked", "marked", "posted", "settled"}
  posts,           \* posts[c]: requests sent that create c
  loose            \* what may still be requested by somebody out of touch

Init ==
  /\ phase = [c \in Things |-> "unmarked"]
  /\ posts = [c \in Things |-> 0]
  /\ loose = {}

\* Everything before the n-th thing is settled.
Reached(n) == \A i \in 1..(n - 1) : phase[Order[i]] = "settled"

Mark(n) ==
  /\ Reached(n)
  /\ phase[Order[n]] = "unmarked"
  /\ phase' = [phase EXCEPT ![Order[n]] = "marked"]
  /\ UNCHANGED <<posts, loose>>

Request(n) ==
  /\ posts[Order[n]] = 0
  /\ posts' = [posts EXCEPT ![Order[n]] = 1]

Post(n) ==
  /\ phase[Order[n]] = "marked"
  /\ Request(n)
  /\ phase' = [phase EXCEPT ![Order[n]] = "posted"]
  /\ UNCHANGED loose

Settle(n) ==
  /\ phase[Order[n]] \in {"marked", "posted"}
  /\ phase' = [phase EXCEPT ![Order[n]] = "settled"]
  /\ UNCHANGED <<posts, loose>>

Lose(n) ==
  /\ phase[Order[n]] = "marked"
  /\ loose' = loose \cup {Order[n]}
  /\ UNCHANGED <<phase, posts>>

PostLoose(n) ==
  /\ Order[n] \in loose
  /\ Request(n)
  /\ phase' = [phase EXCEPT ![Order[n]] = IF @ = "settled" THEN @ ELSE "posted"]
  /\ loose' = loose \ {Order[n]}

Forget(n) ==
  /\ loose' = loose \ {Order[n]}
  /\ UNCHANGED <<phase, posts>>

Next ==
  \E n \in 1..Len(Order) :
    Mark(n) \/ Post(n) \/ Settle(n) \/ Lose(n) \/ PostLoose(n) \/ Forget(n)

Spec == Init /\ [][Next]_<<phase, posts, loose>>
===========================================================================
