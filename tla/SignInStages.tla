---------------------------- MODULE SignInStages ----------------------------
(***************************************************************************)
(* What the broker promises about a sign-in: it goes through its stages    *)
(* one at a time, from the first redirect to the access token.  It may be  *)
(* lost at any stage, but it never skips one, never goes back to one and   *)
(* is never in two, and it gets no code before it is in the audit trail.   *)
(***************************************************************************)
CONSTANT SignIns

VARIABLES
  begun,         \* sent to the provider
  called,        \* called back and being checked
  granted,       \* with an authorization code
  exchanging,    \* its code taken for a token
  held,          \* with an access token
  audited        \* in the audit trail

Init ==
  /\ begun = {} /\ called = {} /\ granted = {}
  /\ exchanging = {} /\ held = {} /\ audited = {}

\* A sign-in that is lost takes its name with it, which may be used again.
Begin(s) ==
  /\ s \notin begun \cup called \cup granted \cup exchanging \cup held
  /\ begun' = begun \cup {s}
  /\ audited' = audited \ {s}
  /\ UNCHANGED <<called, granted, exchanging, held>>

CallBack(s) ==
  /\ s \in begun
  /\ begun' = begun \ {s} /\ called' = called \cup {s}
  /\ UNCHANGED <<granted, exchanging, held, audited>>

Audit(s) ==
  /\ s \in called
  /\ audited' = audited \cup {s}
  /\ UNCHANGED <<begun, called, granted, exchanging, held>>

Grant(s) ==
  /\ s \in called \cap audited
  /\ called' = called \ {s} /\ granted' = granted \cup {s}
  /\ UNCHANGED <<begun, exchanging, held, audited>>

Exchange(s) ==
  /\ s \in granted
  /\ granted' = granted \ {s} /\ exchanging' = exchanging \cup {s}
  /\ UNCHANGED <<begun, called, held, audited>>

Hold(s) ==
  /\ s \in exchanging
  /\ exchanging' = exchanging \ {s} /\ held' = held \cup {s}
  /\ UNCHANGED <<begun, called, granted, audited>>

\* Refused, expired, or gone with the process.
Lose(lost) ==
  /\ begun' = begun \ lost /\ called' = called \ lost /\ granted' = granted \ lost
  /\ exchanging' = exchanging \ lost /\ held' = held \ lost
  /\ UNCHANGED audited

Next ==
  \/ \E s \in SignIns :
       Begin(s) \/ CallBack(s) \/ Audit(s) \/ Grant(s) \/ Exchange(s) \/ Hold(s)
  \/ \E lost \in SUBSET SignIns : Lose(lost)

Spec == Init /\ [][Next]_<<begun, called, granted, exchanging, held, audited>>
=============================================================================
