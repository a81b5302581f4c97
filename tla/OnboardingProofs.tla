------------------------- MODULE OnboardingProofs -------------------------
(***************************************************************************)
(* Proofs about Onboarding for every number of concurrent requests.  The   *)
(* argument: the row announces a join before it is sent, and only the      *)
(* request that holds the lock can clear the announcement, which it does   *)
(* when it saw a refusal of its own POST; a request that lost the lock     *)
(* saves nothing any more.                                                 *)
(***************************************************************************)
EXTENDS OnboardingRecovery, TLAPS

\* Nothing is outstanding and nobody holds the lock at the start.
LEMMA InitOInv == JoinInit => OInv
<1> SUFFICES ASSUME JoinInit PROVE OInv
  OBVIOUS
<1>1. JoinTypeOK
  BY DEF JoinInit, JoinTypeOK, Idle, JoinPoints
<1>2. \A r \in Slots : joinReq[r].pc = "idle" /\ post[r] = "none" /\ lock # r
  BY NoHolderAssumption DEF JoinInit, Idle
<1>3. ~record.completed /\ ~record.unknown
  BY DEF JoinInit
<1> QED
  BY <1>1, <1>2, <1>3
  DEF OInv, LockIsHeld, RowIsFresh, SoleJoin, OneOutstanding, JoinAt,
      OutstandingIsRecorded, Outstanding, Deciding, Joining

\* Every step keeps the types.
LEMMA JoinTypeStep == JoinTypeOK /\ [JoinNext]_joinVars => JoinTypeOK'
<1> SUFFICES ASSUME JoinTypeOK, [JoinNext]_joinVars PROVE JoinTypeOK'
  OBVIOUS
<1> USE DEF JoinTypeOK, JoinPoints, Outside, JoinGoes, JoinAt
<1>1. CASE UNCHANGED joinVars
  BY <1>1 DEF joinVars
<1>2. ASSUME NEW r \in Slots, NEW join \in BOOLEAN, Start(r, join)
      PROVE  JoinTypeOK'
  BY <1>2 DEF Start, Idle
<1>3. ASSUME NEW r \in Slots, Acquire(r) PROVE JoinTypeOK'
  BY <1>3 DEF Acquire
<1>4. ASSUME NEW r \in Slots, Refresh(r) PROVE JoinTypeOK'
  BY <1>4 DEF Refresh, Return
<1>5. ASSUME NEW r \in Slots, Decide(r) PROVE JoinTypeOK'
  BY <1>5 DEF Decide, Decision, Return
<1>6. ASSUME NEW r \in Slots, KeyUnavailable(r) PROVE JoinTypeOK'
  BY <1>6 DEF KeyUnavailable, Return
<1>7. ASSUME NEW r \in Slots, Mark(r) PROVE JoinTypeOK'
  <2>1. CASE lock = r
    <3> DEFINE next == [joinReq[r] EXCEPT !.pc = "post", !.unknown = TRUE]
    <3>1. next \in [pc : JoinPoints, join : BOOLEAN, seen : BOOLEAN,
                   unknown : BOOLEAN, afterRemoval : BOOLEAN]
      OBVIOUS
    <3>2. joinReq' = [joinReq EXCEPT ![r] = next]
      BY <1>7, <2>1 DEF Mark
    <3>3. record' = [record EXCEPT !.state = "joining", !.unknown = TRUE]
          /\ UNCHANGED <<lock, post, member, active, removed>>
      BY <1>7, <2>1 DEF Mark
    <3> HIDE DEF next
    <3> QED
      BY <3>1, <3>2, <3>3
  <2>2. CASE lock # r
    BY <1>7, <2>2 DEF Mark, Return
  <2> QED
    BY <2>1, <2>2
<1>8. ASSUME NEW r \in Slots, Post(r) PROVE JoinTypeOK'
  BY <1>8 DEF Post
<1>9. ASSUME NEW r \in Slots, Receive(r) PROVE JoinTypeOK'
  <2>1. CASE post[r] = "refused"
    <3> DEFINE next == [joinReq[r] EXCEPT !.pc = "reread", !.unknown = FALSE]
    <3>1. next \in [pc : JoinPoints, join : BOOLEAN, seen : BOOLEAN,
                   unknown : BOOLEAN, afterRemoval : BOOLEAN]
      OBVIOUS
    <3>2. joinReq' = [joinReq EXCEPT ![r] = next]
      BY <1>9, <2>1 DEF Receive
    <3>3. UNCHANGED <<record, lock, post, member, active, removed>>
      BY <1>9 DEF Receive
    <3> HIDE DEF next
    <3> QED
      BY <3>1, <3>2, <3>3
  <2>2. CASE post[r] # "refused"
    <3> DEFINE next == [joinReq[r] EXCEPT !.pc = "reread", !.unknown = TRUE]
    <3>1. next \in [pc : JoinPoints, join : BOOLEAN, seen : BOOLEAN,
                   unknown : BOOLEAN, afterRemoval : BOOLEAN]
      OBVIOUS
    <3>2. joinReq' = [joinReq EXCEPT ![r] = next]
      BY <1>9, <2>2 DEF Receive
    <3>3. UNCHANGED <<record, lock, post, member, active, removed>>
      BY <1>9 DEF Receive
    <3> HIDE DEF next
    <3> QED
      BY <3>1, <3>2, <3>3
  <2> QED
    BY <2>1, <2>2
<1>10. ASSUME NEW r \in Slots, LoseAnswer(r) PROVE JoinTypeOK'
  BY <1>10 DEF LoseAnswer
<1>11. ASSUME NEW r \in Slots, Reread(r) PROVE JoinTypeOK'
  BY <1>11 DEF Reread
<1>12. ASSUME NEW r \in Slots, RereadFails(r) PROVE JoinTypeOK'
  BY <1>12 DEF RereadFails
<1>13. ASSUME NEW r \in Slots, CompleteJoin(r) PROVE JoinTypeOK'
  <2>1. /\ record' \in [state : {"pending", "joining", "failed", "ready"},
                         unknown : BOOLEAN, completed : BOOLEAN]
        /\ lock' \in Slots \cup {NoHolder}
    BY <1>13 DEF CompleteJoin, Save, Return
  <2>2. /\ joinReq' = [joinReq EXCEPT ![r].pc = "idle"]
        /\ UNCHANGED <<post, member, active, removed>>
    BY <1>13 DEF CompleteJoin, Return
  <2> QED
    BY <2>1, <2>2
<1>14. ASSUME NEW r \in Slots, FailJoin(r) PROVE JoinTypeOK'
  <2>1. /\ record' \in [state : {"pending", "joining", "failed", "ready"},
                         unknown : BOOLEAN, completed : BOOLEAN]
        /\ lock' \in Slots \cup {NoHolder}
    BY <1>14 DEF FailJoin, Save, Return
  <2>2. /\ joinReq' = [joinReq EXCEPT ![r].pc = "idle"]
        /\ UNCHANGED <<post, member, active, removed>>
    BY <1>14 DEF FailJoin, Return
  <2> QED
    BY <2>1, <2>2
<1>15. ASSUME NEW r \in Slots, Die(r) PROVE JoinTypeOK'
  BY <1>15 DEF Die, Return
<1>16. ASSUME NEW r \in Slots, LoseLock(r) PROVE JoinTypeOK'
  BY <1>16 DEF LoseLock
<1>17. ASSUME NEW r \in Slots, AddMember(r) PROVE JoinTypeOK'
  BY <1>17 DEF AddMember, Processed
<1>18. ASSUME NEW r \in Slots, AlreadyMember(r) PROVE JoinTypeOK'
  BY <1>18 DEF AlreadyMember, Processed
<1>19. ASSUME NEW r \in Slots, AddNobody(r) PROVE JoinTypeOK'
  BY <1>19 DEF AddNobody, Processed
<1>20. CASE OwnerAdds \/ OwnerRemoves \/ ChangeActive
  BY <1>20 DEF OwnerAdds, OwnerRemoves, ChangeActive
<1> QED
  BY <1>1, <1>2, <1>3, <1>4, <1>5, <1>6, <1>7, <1>8, <1>9, <1>10,
     <1>11, <1>12, <1>13, <1>14, <1>15, <1>16, <1>17, <1>18, <1>19, <1>20
  DEF JoinNext, Request

\* Whoever returns gives the lock back, if it still holds it.
LEMMA LockStep == OInv /\ [JoinNext]_joinVars => LockIsHeld'
<1> SUFFICES ASSUME OInv, [JoinNext]_joinVars PROVE LockIsHeld'
  OBVIOUS
<1> USE NoHolderAssumption DEF OInv, JoinTypeOK, LockIsHeld, Outside, JoinGoes, JoinAt
<1>1. CASE UNCHANGED joinVars
  BY <1>1 DEF joinVars
<1>2. ASSUME NEW r \in Slots, NEW join \in BOOLEAN, Start(r, join)
      PROVE  LockIsHeld'
  BY <1>2 DEF Start, Idle
<1>3. ASSUME NEW r \in Slots, Acquire(r) PROVE LockIsHeld'
  BY <1>3 DEF Acquire
<1>4. ASSUME NEW r \in Slots, Refresh(r) PROVE LockIsHeld'
  BY <1>4 DEF Refresh, Return
<1>5. ASSUME NEW r \in Slots, Decide(r) PROVE LockIsHeld'
  BY <1>5 DEF Decide, Decision, Return
<1>6. ASSUME NEW r \in Slots, KeyUnavailable(r) PROVE LockIsHeld'
  BY <1>6 DEF KeyUnavailable, Return
<1>7. ASSUME NEW r \in Slots, Mark(r) PROVE LockIsHeld'
  BY <1>7 DEF Mark, Return
<1>8. ASSUME NEW r \in Slots, Post(r) PROVE LockIsHeld'
  BY <1>8 DEF Post
<1>9. ASSUME NEW r \in Slots, Receive(r) PROVE LockIsHeld'
  BY <1>9 DEF Receive
<1>10. ASSUME NEW r \in Slots, LoseAnswer(r) PROVE LockIsHeld'
  BY <1>10 DEF LoseAnswer
<1>11. ASSUME NEW r \in Slots, Reread(r) PROVE LockIsHeld'
  BY <1>11 DEF Reread
<1>12. ASSUME NEW r \in Slots, RereadFails(r) PROVE LockIsHeld'
  BY <1>12 DEF RereadFails
<1>13. ASSUME NEW r \in Slots, CompleteJoin(r) PROVE LockIsHeld'
  BY <1>13 DEF CompleteJoin, Save, Return
<1>14. ASSUME NEW r \in Slots, FailJoin(r) PROVE LockIsHeld'
  BY <1>14 DEF FailJoin, Save, Return
<1>15. ASSUME NEW r \in Slots, Die(r) PROVE LockIsHeld'
  BY <1>15 DEF Die, Return
<1>16. ASSUME NEW r \in Slots, LoseLock(r) PROVE LockIsHeld'
  BY <1>16 DEF LoseLock
<1>17. ASSUME NEW r \in Slots, AddMember(r) PROVE LockIsHeld'
  BY <1>17 DEF AddMember, Processed
<1>18. ASSUME NEW r \in Slots, AlreadyMember(r) PROVE LockIsHeld'
  BY <1>18 DEF AlreadyMember, Processed
<1>19. ASSUME NEW r \in Slots, AddNobody(r) PROVE LockIsHeld'
  BY <1>19 DEF AddNobody, Processed
<1>20. CASE OwnerAdds \/ OwnerRemoves \/ ChangeActive
  BY <1>20 DEF OwnerAdds, OwnerRemoves, ChangeActive
<1> QED
  BY <1>1, <1>2, <1>3, <1>4, <1>5, <1>6, <1>7, <1>8, <1>9, <1>10,
     <1>11, <1>12, <1>13, <1>14, <1>15, <1>16, <1>17, <1>18, <1>19, <1>20
  DEF JoinNext, Request

\* Only the holder of the lock writes the row, so a decision stays true.
LEMMA RowStep == OInv /\ [JoinNext]_joinVars => RowIsFresh'
<1> SUFFICES ASSUME OInv, [JoinNext]_joinVars PROVE RowIsFresh'
  OBVIOUS
<1> USE NoHolderAssumption
    DEF OInv, JoinTypeOK, LockIsHeld, RowIsFresh, Deciding, Outside, JoinGoes, JoinAt
<1>1. CASE UNCHANGED joinVars
  BY <1>1 DEF joinVars
<1>2. ASSUME NEW r \in Slots, NEW join \in BOOLEAN, Start(r, join)
      PROVE  RowIsFresh'
  BY <1>2 DEF Start, Idle
<1>3. ASSUME NEW r \in Slots, Acquire(r) PROVE RowIsFresh'
  BY <1>3 DEF Acquire
<1>4. ASSUME NEW r \in Slots, Refresh(r) PROVE RowIsFresh'
  BY <1>4 DEF Refresh, Return
<1>5. ASSUME NEW r \in Slots, Decide(r) PROVE RowIsFresh'
  BY <1>5 DEF Decide, Decision, Return
<1>6. ASSUME NEW r \in Slots, KeyUnavailable(r) PROVE RowIsFresh'
  BY <1>6 DEF KeyUnavailable, Return
<1>7. ASSUME NEW r \in Slots, Mark(r) PROVE RowIsFresh'
  <2>1. CASE lock = r
    <3>1. record'.completed = record.completed /\ lock' = r
      BY <1>7, <2>1 DEF Mark
    <3>2. joinReq'[r].pc = "post"
      BY <1>7, <2>1 DEF Mark
    <3> QED
      BY <1>7, <2>1, <3>1, <3>2 DEF Mark
  <2>2. CASE lock # r
    BY <1>7, <2>2 DEF Mark, Return
  <2> QED
    BY <2>1, <2>2
<1>8. ASSUME NEW r \in Slots, Post(r) PROVE RowIsFresh'
  BY <1>8 DEF Post
<1>9. ASSUME NEW r \in Slots, Receive(r) PROVE RowIsFresh'
  BY <1>9 DEF Receive
<1>10. ASSUME NEW r \in Slots, LoseAnswer(r) PROVE RowIsFresh'
  BY <1>10 DEF LoseAnswer
<1>11. ASSUME NEW r \in Slots, Reread(r) PROVE RowIsFresh'
  BY <1>11 DEF Reread
<1>12. ASSUME NEW r \in Slots, RereadFails(r) PROVE RowIsFresh'
  BY <1>12 DEF RereadFails
<1>13. ASSUME NEW r \in Slots, CompleteJoin(r) PROVE RowIsFresh'
  BY <1>13 DEF CompleteJoin, Save, Return
<1>14. ASSUME NEW r \in Slots, FailJoin(r) PROVE RowIsFresh'
  BY <1>14 DEF FailJoin, Save, Return
<1>15. ASSUME NEW r \in Slots, Die(r) PROVE RowIsFresh'
  BY <1>15 DEF Die, Return
<1>16. ASSUME NEW r \in Slots, LoseLock(r) PROVE RowIsFresh'
  BY <1>16 DEF LoseLock
<1>17. ASSUME NEW r \in Slots, AddMember(r) PROVE RowIsFresh'
  BY <1>17 DEF AddMember, Processed
<1>18. ASSUME NEW r \in Slots, AlreadyMember(r) PROVE RowIsFresh'
  BY <1>18 DEF AlreadyMember, Processed
<1>19. ASSUME NEW r \in Slots, AddNobody(r) PROVE RowIsFresh'
  BY <1>19 DEF AddNobody, Processed
<1>20. CASE OwnerAdds \/ OwnerRemoves \/ ChangeActive
  BY <1>20 DEF OwnerAdds, OwnerRemoves, ChangeActive
<1> QED
  BY <1>1, <1>2, <1>3, <1>4, <1>5, <1>6, <1>7, <1>8, <1>9, <1>10,
     <1>11, <1>12, <1>13, <1>14, <1>15, <1>16, <1>17, <1>18, <1>19, <1>20
  DEF JoinNext, Request

\* The holder of the lock marks a join only when none is outstanding.
LEMMA SoleStep == OInv /\ [JoinNext]_joinVars => SoleJoin'
<1> SUFFICES ASSUME OInv, [JoinNext]_joinVars PROVE SoleJoin'
  OBVIOUS
<1> USE NoHolderAssumption
    DEF OInv, JoinTypeOK, LockIsHeld, RowIsFresh, SoleJoin, OutstandingIsRecorded,
        Outstanding, Deciding, Joining, Outside, JoinGoes, JoinAt
<1>1. CASE UNCHANGED joinVars
  BY <1>1 DEF joinVars
<1>2. ASSUME NEW r \in Slots, NEW join \in BOOLEAN, Start(r, join)
      PROVE  SoleJoin'
  BY <1>2 DEF Start, Idle
<1>3. ASSUME NEW r \in Slots, Acquire(r) PROVE SoleJoin'
  BY <1>3 DEF Acquire
<1>4. ASSUME NEW r \in Slots, Refresh(r) PROVE SoleJoin'
  BY <1>4 DEF Refresh, Return
<1>5. ASSUME NEW r \in Slots, Decide(r) PROVE SoleJoin'
  BY <1>5 DEF Decide, Decision, Return
<1>6. ASSUME NEW r \in Slots, KeyUnavailable(r) PROVE SoleJoin'
  BY <1>6 DEF KeyUnavailable, Return
<1>7. ASSUME NEW r \in Slots, Mark(r) PROVE SoleJoin'
  BY <1>7 DEF Mark, Return
<1>8. ASSUME NEW r \in Slots, Post(r) PROVE SoleJoin'
  BY <1>8 DEF Post
<1>9. ASSUME NEW r \in Slots, Receive(r) PROVE SoleJoin'
  BY <1>9 DEF Receive
<1>10. ASSUME NEW r \in Slots, LoseAnswer(r) PROVE SoleJoin'
  BY <1>10 DEF LoseAnswer
<1>11. ASSUME NEW r \in Slots, Reread(r) PROVE SoleJoin'
  BY <1>11 DEF Reread
<1>12. ASSUME NEW r \in Slots, RereadFails(r) PROVE SoleJoin'
  BY <1>12 DEF RereadFails
<1>13. ASSUME NEW r \in Slots, CompleteJoin(r) PROVE SoleJoin'
  BY <1>13 DEF CompleteJoin, Save, Return
<1>14. ASSUME NEW r \in Slots, FailJoin(r) PROVE SoleJoin'
  BY <1>14 DEF FailJoin, Save, Return
<1>15. ASSUME NEW r \in Slots, Die(r) PROVE SoleJoin'
  BY <1>15 DEF Die, Return
<1>16. ASSUME NEW r \in Slots, LoseLock(r) PROVE SoleJoin'
  BY <1>16 DEF LoseLock
<1>17. ASSUME NEW r \in Slots, AddMember(r) PROVE SoleJoin'
  BY <1>17 DEF AddMember, Processed
<1>18. ASSUME NEW r \in Slots, AlreadyMember(r) PROVE SoleJoin'
  BY <1>18 DEF AlreadyMember, Processed
<1>19. ASSUME NEW r \in Slots, AddNobody(r) PROVE SoleJoin'
  BY <1>19 DEF AddNobody, Processed
<1>20. CASE OwnerAdds \/ OwnerRemoves \/ ChangeActive
  BY <1>20 DEF OwnerAdds, OwnerRemoves, ChangeActive
<1> QED
  BY <1>1, <1>2, <1>3, <1>4, <1>5, <1>6, <1>7, <1>8, <1>9, <1>10,
     <1>11, <1>12, <1>13, <1>14, <1>15, <1>16, <1>17, <1>18, <1>19, <1>20
  DEF JoinNext, Request

\* A second POST is never announced while one is outstanding.
LEMMA OneStep == OInv /\ [JoinNext]_joinVars => OneOutstanding'
<1> SUFFICES ASSUME OInv, [JoinNext]_joinVars PROVE OneOutstanding'
  OBVIOUS
<1> USE DEF OInv, JoinTypeOK, RowIsFresh, OneOutstanding, OutstandingIsRecorded,
        Outstanding, Deciding, Joining, Outside, JoinGoes, JoinAt
<1>1. CASE UNCHANGED joinVars
  BY <1>1 DEF joinVars
<1>2. ASSUME NEW r \in Slots, NEW join \in BOOLEAN, Start(r, join)
      PROVE  OneOutstanding'
  BY <1>2 DEF Start, Idle
<1>3. ASSUME NEW r \in Slots, Acquire(r) PROVE OneOutstanding'
  BY <1>3 DEF Acquire
<1>4. ASSUME NEW r \in Slots, Refresh(r) PROVE OneOutstanding'
  BY <1>4 DEF Refresh, Return
<1>5. ASSUME NEW r \in Slots, Decide(r) PROVE OneOutstanding'
  BY <1>5 DEF Decide, Decision, Return
<1>6. ASSUME NEW r \in Slots, KeyUnavailable(r) PROVE OneOutstanding'
  BY <1>6 DEF KeyUnavailable, Return
<1>7. ASSUME NEW r \in Slots, Mark(r) PROVE OneOutstanding'
  BY <1>7 DEF Mark, Return
<1>8. ASSUME NEW r \in Slots, Post(r) PROVE OneOutstanding'
  BY <1>8 DEF Post
<1>9. ASSUME NEW r \in Slots, Receive(r) PROVE OneOutstanding'
  BY <1>9 DEF Receive
<1>10. ASSUME NEW r \in Slots, LoseAnswer(r) PROVE OneOutstanding'
  BY <1>10 DEF LoseAnswer
<1>11. ASSUME NEW r \in Slots, Reread(r) PROVE OneOutstanding'
  BY <1>11 DEF Reread
<1>12. ASSUME NEW r \in Slots, RereadFails(r) PROVE OneOutstanding'
  BY <1>12 DEF RereadFails
<1>13. ASSUME NEW r \in Slots, CompleteJoin(r) PROVE OneOutstanding'
  BY <1>13 DEF CompleteJoin, Save, Return
<1>14. ASSUME NEW r \in Slots, FailJoin(r) PROVE OneOutstanding'
  BY <1>14 DEF FailJoin, Save, Return
<1>15. ASSUME NEW r \in Slots, Die(r) PROVE OneOutstanding'
  BY <1>15 DEF Die, Return
<1>16. ASSUME NEW r \in Slots, LoseLock(r) PROVE OneOutstanding'
  BY <1>16 DEF LoseLock
<1>17. ASSUME NEW r \in Slots, AddMember(r) PROVE OneOutstanding'
  BY <1>17 DEF AddMember, Processed
<1>18. ASSUME NEW r \in Slots, AlreadyMember(r) PROVE OneOutstanding'
  BY <1>18 DEF AlreadyMember, Processed
<1>19. ASSUME NEW r \in Slots, AddNobody(r) PROVE OneOutstanding'
  BY <1>19 DEF AddNobody, Processed
<1>20. CASE OwnerAdds \/ OwnerRemoves \/ ChangeActive
  BY <1>20 DEF OwnerAdds, OwnerRemoves, ChangeActive
<1> QED
  BY <1>1, <1>2, <1>3, <1>4, <1>5, <1>6, <1>7, <1>8, <1>9, <1>10,
     <1>11, <1>12, <1>13, <1>14, <1>15, <1>16, <1>17, <1>18, <1>19, <1>20
  DEF JoinNext, Request

\* The announcement is cleared by its own refusal or by completion only.
LEMMA RecordedStep == OInv /\ [JoinNext]_joinVars => OutstandingIsRecorded'
<1> SUFFICES ASSUME OInv, [JoinNext]_joinVars PROVE OutstandingIsRecorded'
  OBVIOUS
<1> USE DEF OInv, JoinTypeOK, RowIsFresh, SoleJoin, OutstandingIsRecorded,
        Outstanding, Deciding, Joining, Outside, JoinGoes, JoinAt
<1>1. CASE UNCHANGED joinVars
  BY <1>1 DEF joinVars
<1>2. ASSUME NEW r \in Slots, NEW join \in BOOLEAN, Start(r, join)
      PROVE  OutstandingIsRecorded'
  BY <1>2 DEF Start, Idle
<1>3. ASSUME NEW r \in Slots, Acquire(r) PROVE OutstandingIsRecorded'
  BY <1>3 DEF Acquire
<1>4. ASSUME NEW r \in Slots, Refresh(r) PROVE OutstandingIsRecorded'
  BY <1>4 DEF Refresh, Return
<1>5. ASSUME NEW r \in Slots, Decide(r) PROVE OutstandingIsRecorded'
  BY <1>5 DEF Decide, Decision, Return
<1>6. ASSUME NEW r \in Slots, KeyUnavailable(r) PROVE OutstandingIsRecorded'
  BY <1>6 DEF KeyUnavailable, Return
<1>7. ASSUME NEW r \in Slots, Mark(r) PROVE OutstandingIsRecorded'
  <2>1. CASE lock = r
    <3>1. record'.unknown
      BY <1>7, <2>1 DEF Mark
    <3> QED
      BY <3>1
  <2>2. CASE lock # r
    <3>1. \A s \in Slots : Outstanding(s)' => Outstanding(s)
      BY <1>7, <2>2 DEF Mark, Return
    <3> QED
      BY <1>7, <2>2, <3>1 DEF Mark
  <2> QED
    BY <2>1, <2>2
<1>8. ASSUME NEW r \in Slots, Post(r) PROVE OutstandingIsRecorded'
  BY <1>8 DEF Post
<1>9. ASSUME NEW r \in Slots, Receive(r) PROVE OutstandingIsRecorded'
  BY <1>9 DEF Receive
<1>10. ASSUME NEW r \in Slots, LoseAnswer(r) PROVE OutstandingIsRecorded'
  BY <1>10 DEF LoseAnswer
<1>11. ASSUME NEW r \in Slots, Reread(r) PROVE OutstandingIsRecorded'
  BY <1>11 DEF Reread
<1>12. ASSUME NEW r \in Slots, RereadFails(r) PROVE OutstandingIsRecorded'
  BY <1>12 DEF RereadFails
<1>13. ASSUME NEW r \in Slots, CompleteJoin(r) PROVE OutstandingIsRecorded'
  BY <1>13 DEF CompleteJoin, Save, Return
<1>14. ASSUME NEW r \in Slots, FailJoin(r) PROVE OutstandingIsRecorded'
  BY <1>14 DEF FailJoin, Save, Return
<1>15. ASSUME NEW r \in Slots, Die(r) PROVE OutstandingIsRecorded'
  BY <1>15 DEF Die, Return
<1>16. ASSUME NEW r \in Slots, LoseLock(r) PROVE OutstandingIsRecorded'
  BY <1>16 DEF LoseLock
<1>17. ASSUME NEW r \in Slots, AddMember(r) PROVE OutstandingIsRecorded'
  BY <1>17 DEF AddMember, Processed
<1>18. ASSUME NEW r \in Slots, AlreadyMember(r) PROVE OutstandingIsRecorded'
  BY <1>18 DEF AlreadyMember, Processed
<1>19. ASSUME NEW r \in Slots, AddNobody(r) PROVE OutstandingIsRecorded'
  BY <1>19 DEF AddNobody, Processed
<1>20. CASE OwnerAdds \/ OwnerRemoves \/ ChangeActive
  BY <1>20 DEF OwnerAdds, OwnerRemoves, ChangeActive
<1> QED
  BY <1>1, <1>2, <1>3, <1>4, <1>5, <1>6, <1>7, <1>8, <1>9, <1>10,
     <1>11, <1>12, <1>13, <1>14, <1>15, <1>16, <1>17, <1>18, <1>19, <1>20
  DEF JoinNext, Request

\* A completed row is kept by every step.
LEMMA FinalStep == OInv /\ [JoinNext]_joinVars => KeepsCompletion
<1> SUFFICES ASSUME OInv, [JoinNext]_joinVars PROVE KeepsCompletion
  OBVIOUS
<1> USE DEF OInv, JoinTypeOK, RowIsFresh, KeepsCompletion, Deciding, Outside,
            JoinGoes, JoinAt
<1>1. CASE UNCHANGED joinVars
  BY <1>1 DEF joinVars
<1>2. ASSUME NEW r \in Slots, NEW join \in BOOLEAN, Start(r, join)
      PROVE  KeepsCompletion
  BY <1>2 DEF Start, Idle
<1>3. ASSUME NEW r \in Slots, Acquire(r) PROVE KeepsCompletion
  BY <1>3 DEF Acquire
<1>4. ASSUME NEW r \in Slots, Refresh(r) PROVE KeepsCompletion
  BY <1>4 DEF Refresh, Return
<1>5. ASSUME NEW r \in Slots, Decide(r) PROVE KeepsCompletion
  BY <1>5 DEF Decide, Decision, Return
<1>6. ASSUME NEW r \in Slots, KeyUnavailable(r) PROVE KeepsCompletion
  BY <1>6 DEF KeyUnavailable, Return
<1>7. ASSUME NEW r \in Slots, Mark(r) PROVE KeepsCompletion
  BY <1>7 DEF Mark, Return
<1>8. ASSUME NEW r \in Slots, Post(r) PROVE KeepsCompletion
  BY <1>8 DEF Post
<1>9. ASSUME NEW r \in Slots, Receive(r) PROVE KeepsCompletion
  BY <1>9 DEF Receive
<1>10. ASSUME NEW r \in Slots, LoseAnswer(r) PROVE KeepsCompletion
  BY <1>10 DEF LoseAnswer
<1>11. ASSUME NEW r \in Slots, Reread(r) PROVE KeepsCompletion
  BY <1>11 DEF Reread
<1>12. ASSUME NEW r \in Slots, RereadFails(r) PROVE KeepsCompletion
  BY <1>12 DEF RereadFails
<1>13. ASSUME NEW r \in Slots, CompleteJoin(r) PROVE KeepsCompletion
  BY <1>13 DEF CompleteJoin, Save, Return
<1>14. ASSUME NEW r \in Slots, FailJoin(r) PROVE KeepsCompletion
  BY <1>14 DEF FailJoin, Save, Return
<1>15. ASSUME NEW r \in Slots, Die(r) PROVE KeepsCompletion
  BY <1>15 DEF Die, Return
<1>16. ASSUME NEW r \in Slots, LoseLock(r) PROVE KeepsCompletion
  BY <1>16 DEF LoseLock
<1>17. ASSUME NEW r \in Slots, AddMember(r) PROVE KeepsCompletion
  BY <1>17 DEF AddMember, Processed
<1>18. ASSUME NEW r \in Slots, AlreadyMember(r) PROVE KeepsCompletion
  BY <1>18 DEF AlreadyMember, Processed
<1>19. ASSUME NEW r \in Slots, AddNobody(r) PROVE KeepsCompletion
  BY <1>19 DEF AddNobody, Processed
<1>20. CASE OwnerAdds \/ OwnerRemoves \/ ChangeActive
  BY <1>20 DEF OwnerAdds, OwnerRemoves, ChangeActive
<1> QED
  BY <1>1, <1>2, <1>3, <1>4, <1>5, <1>6, <1>7, <1>8, <1>9, <1>10,
     <1>11, <1>12, <1>13, <1>14, <1>15, <1>16, <1>17, <1>18, <1>19, <1>20
  DEF JoinNext, Request

\* The inductive invariant holds of every reachable state.
THEOREM OnboardingInvariant == JoinSpec => []OInv
<1>1. OInv /\ [JoinNext]_joinVars => OInv'
  BY JoinTypeStep, LockStep, RowStep, SoleStep, OneStep, RecordedStep DEF OInv
<1> QED
  BY InitOInv, <1>1, PTL DEF JoinSpec

\* The variables keep their types.
THEOREM OnboardingTypeCorrect == JoinSpec => []JoinTypeOK
BY OnboardingInvariant, PTL DEF OInv

\* No two members POSTs of an employee are ever on their way at once.
THEOREM NeverJoinsTwice == JoinSpec => []OneOutstanding
BY OnboardingInvariant, PTL DEF OInv

\* A POST on its way is announced by the row, or the employee is through.
THEOREM NeverJoinsUnannounced == JoinSpec => []OutstandingIsRecorded
BY OnboardingInvariant, PTL DEF OInv

\* Nothing is ever saved over a completed row.
THEOREM CompletionIsFinal == JoinSpec => CompletionFinal
<1>1. OInv /\ [JoinNext]_joinVars => [KeepsCompletion]_joinVars
  BY FinalStep
<1> QED
  BY <1>1, OnboardingInvariant, PTL DEF JoinSpec, CompletionFinal
---------------------------------------------------------------------------
(***************************************************************************)
(* The recovery of OnboardingRecovery: the employee's retries, the Owner's *)
(* repair and every fault are steps of Onboarding.                         *)
(***************************************************************************)
LEMMA FaultIsNext == JoinFault => JoinNext
<1> SUFFICES ASSUME JoinFault PROVE JoinNext
  OBVIOUS
<1>1. CASE \E r \in Slots : AddNobody(r)
  BY <1>1 DEF JoinNext
<1>2. CASE \E r \in Slots :
             KeyUnavailable(r) \/ LoseAnswer(r) \/ RereadFails(r) \/ Die(r) \/ LoseLock(r)
  <2>1. PICK r \in Slots :
          KeyUnavailable(r) \/ LoseAnswer(r) \/ RereadFails(r) \/ Die(r) \/ LoseLock(r)
    BY <1>2
  <2>2. Request(r)
    BY <2>1 DEF Request
  <2> QED
    BY <2>2 DEF JoinNext
<1>3. CASE (active /\ ChangeActive) \/ OwnerRemoves
  BY <1>3 DEF JoinNext
<1> QED
  BY <1>1, <1>2, <1>3 DEF JoinFault

LEMMA JoiningIsNext == JoiningNext => JoinNext
<1> SUFFICES ASSUME JoiningNext PROVE JoinNext
  OBVIOUS
<1>1. CASE \E r \in Slots : JoinProceeds(r) \/ \E join \in BOOLEAN : Start(r, join)
  <2>1. PICK r \in Slots : JoinProceeds(r) \/ \E join \in BOOLEAN : Start(r, join)
    BY <1>1
  <2>2. Request(r)
    BY <2>1 DEF JoinProceeds, Request
  <2> QED
    BY <2>2 DEF JoinNext
<1>2. CASE \E r \in Slots : AnswerJoin(r)
  BY <1>2 DEF AnswerJoin, JoinNext
<1>3. CASE OwnerRepairs \/ Reinstate
  BY <1>3 DEF OwnerRepairs, Reinstate, JoinNext
<1>4. CASE JoinFault
  BY <1>4, FaultIsNext
<1> QED
  BY <1>1, <1>2, <1>3, <1>4 DEF JoiningNext

\* An employee who retries, and an Owner who repairs, never cause a second
\* members POST, an unannounced one or a save over a completed row.
THEOREM RepairedOnboardingIsSafe ==
  JoiningSpec => /\ JoinSpec
                  /\ [](OneOutstanding /\ OutstandingIsRecorded)
                  /\ CompletionFinal
<1>1. [JoiningNext]_<<joinVars, joinFaults>> => [JoinNext]_joinVars
  BY JoiningIsNext
<1>2. JoiningSpec => JoinSpec
  BY <1>1, PTL DEF JoiningSpec, JoiningInit, JoinSpec
<1> QED
  BY <1>2, NeverJoinsTwice, NeverJoinsUnannounced, CompletionIsFinal, PTL
===========================================================================
