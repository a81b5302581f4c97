------------------------ MODULE InstallationProofs ------------------------
(***************************************************************************)
(* Proofs about Installation for every set of spaces, keys and files and   *)
(* every number of runs that die or lose the lock: one inductive           *)
(* invariant, the safety invariants it implies, and the refinement of      *)
(* CreateOnce.                                                             *)
(*                                                                         *)
(* The inductive invariant has three groups: TypeOK, what the answers on   *)
(* the wire carry, and Record, which reads only the installation record,   *)
(* the runs, the POST counts and the settings.  The upstream and the       *)
(* operator change none of these.                                          *)
(***************************************************************************)
EXTENDS InstallRecovery, Sequences, TLAPS

Record ==
  /\ RunMatchesStage /\ FirstPost /\ StageMatchesRecord
  /\ LocalsComplete /\ SettingsWritten
  /\ AtMostOnePost /\ EveryPostIsMarked

recordVars == <<install, run, posts, policy>>

\* What happens outside the installer leaves its record and its run alone.
LEMMA OutsideKeepsRecord ==
  Upstream \/ Operator => UNCHANGED recordVars /\ UNCHANGED astray
BY DEF Upstream, Operator, ProcessAccount, ProcessSpace, ProcessKey, Reject,
       Answer, MoveWindow, Bootstrap, RegisterByHand, CreateSpaceByHand,
       TransferSpace, CreateKeyByHand, RevokeKey, ReplaceSecret, Outside,
       recordVars

\* The points before the three POSTs.
LEMMA PostPoints ==
  /\ PostPoint("account") = "postAccount"
  /\ PostPoint("space") = "postSpace"
  /\ PostPoint("key") = "postKey"
BY DEF PostPoint

\* What a run astray does leaves the record and the run with the lock alone.
LEMMA AstrayActions ==
  ASSUME Astray
  PROVE  /\ UNCHANGED <<install, run, aborts, upstream>>
         /\ \/ \E r \in astray, c \in Creations : PostAstray(r, c)
            \/ \E r \in astray : PutAstray(r)
            \/ /\ astray' \in SUBSET astray
               /\ UNCHANGED <<wire, posts, policy>>
               /\ \/ UNCHANGED secret
                  \/ \E r \in astray : WriteSecretAstray(r)
<1>1. PICK r \in astray :
        \/ \E c \in Creations : PostAstray(r, c)
        \/ PutAstray(r) \/ WriteSecretAstray(r) \/ EndAstray(r)
  BY DEF Astray
<1>2. UNCHANGED <<install, run, aborts, upstream>>
  BY <1>1 DEF PostAstray, PutAstray, WriteSecretAstray, EndAstray
<1>3. CASE WriteSecretAstray(r) \/ EndAstray(r)
  <2>1. astray' = astray \ {r} /\ UNCHANGED <<wire, posts, policy>>
    BY <1>3 DEF WriteSecretAstray, EndAstray
  <2>2. UNCHANGED secret \/ WriteSecretAstray(r)
    BY <1>3 DEF EndAstray
  <2> QED
    BY <1>2, <2>1, <2>2
<1> QED
  BY <1>1, <1>2, <1>3

\* The initial record satisfies all parts of the invariant.
LEMMA InitIInv == Init => IInv
<1> SUFFICES ASSUME Init PROVE IInv
  OBVIOUS
<1>1. TypeOK
  <2>1. InstallType /\ RunType /\ AstrayType
    BY DEF Init, InstallType, RunType, AstrayType, Runs, Stages, NoRun, Points,
           Settings
  <2>2. WireType
    BY DEF Init, WireType
  <2>3. OutsideType
    <3>1. aborts \in 0..MaxAborts
      BY AbortsAssumption DEF Init
    <3>2. account \in BOOLEAN /\ sysadmin \in BOOLEAN /\ window \in BOOLEAN
      BY DEF Init
    <3>3. /\ secret \in [Files -> Keys \cup {None}]
          /\ spaces \in [Tenants -> {"absent", "owned", "other"}]
          /\ keys \in [Keys -> {"absent", "members", "full", "revoked"}]
          /\ keySpace \in [Keys -> Tenants \cup {None}]
      BY DEF Init
    <3>4. policy \in 0..Settings
      BY DEF Init, Settings
    <3> QED
      BY <3>1, <3>2, <3>3, <3>4 DEF OutsideType
  <2> QED
    BY <2>1, <2>2, <2>3 DEF TypeOK
<1>2. RunMatchesStage /\ FirstPost /\ FirstPostAstray /\ AnswersHaveIds
  BY DEF Init, RunMatchesStage, FirstPost, FirstPostAstray, AnswersHaveIds, NoRun,
         Creations
<1>3. StageMatchesRecord /\ LocalsComplete /\ SettingsWritten
  BY DEF Init, StageMatchesRecord, LocalsComplete, SettingsWritten, NoRun,
         AccountSettled, SpaceSettled, KeyMarked
<1>4. AtMostOnePost /\ EveryPostIsMarked
  BY DEF Init, AtMostOnePost, EveryPostIsMarked, Creations
<1> QED
  BY <1>1, <1>2, <1>3, <1>4 DEF IInv

\* Every step of a run preserves the parts about its record: it saves the
\* marker before it POSTs, and it POSTs only from the point after the marker.
LEMMA RecordStep == IInv /\ [Next]_vars => Record'
<1> SUFFICES ASSUME IInv, [Next]_vars PROVE Record'
  OBVIOUS
<1> USE NoneAssumption
    DEF IInv, Record, TypeOK, InstallType, RunType, Runs, WireType, OutsideType,
        RunMatchesStage, FirstPost, AnswersHaveIds,
        StageMatchesRecord, LocalsComplete, SettingsWritten, AtMostOnePost,
        EveryPostIsMarked, Stages, Creations, Points, Settings, NoRun,
        AccountSettled, SpaceMarked, SpaceSettled, KeyMarked, Local
<1>1. CASE MarkAccount
  BY <1>1 DEF MarkAccount
<1>2. CASE PostAccount
  BY <1>2 DEF PostAccount, Send, Request
<1>3. CASE ReceiveAccount
  BY <1>3 DEF ReceiveAccount, Answered
<1>4. CASE AdoptAccount
  BY <1>4 DEF AdoptAccount
<1>5. CASE ConfirmAdmin
  BY <1>5 DEF ConfirmAdmin
<1>6. CASE PostSpace
  BY <1>6 DEF PostSpace, Send, Request
<1>7. CASE PutSetting
  BY <1>7 DEF PutSetting, Put
<1>8. CASE AdoptKey
  BY <1>8 DEF AdoptKey, SettingsDone
<1>9. CASE MarkKey
  BY <1>9 DEF MarkKey, SettingsDone
<1>10. CASE PostKey
  BY <1>10 DEF PostKey, Send, Request
<1>11. CASE ReceiveKey
  <2>1. CASE wire["key"].status = "accepted"
    <3> DEFINE k == wire["key"].id
    <3>1. /\ k \in Keys /\ k # None /\ run.file # None /\ run.pc = "awaitKey"
          /\ install' = [install EXCEPT !.keyId = k]
          /\ run' = [run EXCEPT !.pc = "writeSecret", !.key = k, !.ref = run.file]
          /\ policy' = policy /\ posts' = posts
      BY <1>11, <2>1 DEF ReceiveKey
    <3>2. (RunMatchesStage /\ FirstPost /\ LocalsComplete)'
      BY <3>1
    <3>3. (StageMatchesRecord /\ SettingsWritten)'
      BY <3>1
    <3>4. (AtMostOnePost /\ EveryPostIsMarked)'
      BY <3>1
    <3> QED
      BY <3>2, <3>3, <3>4
  <2>2. CASE ~(wire["key"].status = "accepted")
    BY <1>11, <2>2 DEF ReceiveKey
  <2> QED
    BY <2>1, <2>2
<1>12. CASE ResumeKey
  BY <1>12 DEF ResumeKey, SettingsDone
<1>13. CASE TestKey
  BY <1>13 DEF TestKey
<1>14. CASE GiveUp
  BY <1>14 DEF GiveUp
<1>15. CASE Abort \/ LoseLock
  BY <1>15 DEF Abort, LoseLock
<1>16. CASE ReceiveSpace
  <2>1. CASE wire["space"].status = "accepted"
    <3> DEFINE t == wire["space"].id
    <3>1. /\ t \in Tenants /\ t # None
          /\ install' = [install EXCEPT !.stage = "space_ready", !.tenant = t]
          /\ run' = [run EXCEPT !.pc = "settings"] /\ run.pc = "awaitSpace"
          /\ policy' = policy /\ posts' = posts
      BY <1>16, <2>1 DEF ReceiveSpace
    <3>2. (RunMatchesStage /\ FirstPost /\ LocalsComplete)'
      BY <3>1
    <3>3. StageMatchesRecord'
      BY <3>1
    <3>4. SettingsWritten'
      BY <3>1
    <3>5. (AtMostOnePost /\ EveryPostIsMarked)'
      BY <3>1
    <3> QED
      BY <3>2, <3>3, <3>4, <3>5
  <2>2. CASE ~(wire["space"].status = "accepted")
    BY <1>16, <2>2 DEF ReceiveSpace
  <2> QED
    BY <2>1, <2>2
<1>17. CASE WriteSecret
  <2>1. CASE secret[run.ref] = None
    <3>1. /\ install' = install /\ policy' = policy /\ posts' = posts
          /\ run' = [run EXCEPT !.pc = "testKey"]
          /\ run.pc = "writeSecret"
      BY <1>17, <2>1 DEF WriteSecret
    <3>2. (RunMatchesStage /\ FirstPost)'
      BY <3>1
    <3>3. LocalsComplete'
      BY <3>1
    <3>4. (StageMatchesRecord /\ AtMostOnePost /\ EveryPostIsMarked)'
      BY <3>1
    <3>5. SettingsWritten'
      BY <3>1
    <3> QED
      BY <3>2, <3>3, <3>4, <3>5
  <2>2. CASE ~(secret[run.ref] = None)
    BY <1>17, <2>2 DEF WriteSecret
  <2> QED
    BY <2>1, <2>2
<1>18. ASSUME NEW adopt \in Keys \cup {None}, NEW f \in Files,
             MarkSpace(adopt, f)
      PROVE  Record'
  BY <1>18 DEF MarkSpace, Workspace
<1>19. ASSUME NEW adopt \in Keys \cup {None}, NEW f \in Files,
             ResumeWorkspace(adopt, f)
      PROVE  Record'
  BY <1>19 DEF ResumeWorkspace, Workspace
<1>20. ASSUME NEW adopt \in Keys \cup {None}, NEW f \in Files, NEW t \in Tenants,
             AdoptSpace(t, adopt, f)
      PROVE  Record'
  BY <1>20 DEF AdoptSpace, Workspace
<1>21. ASSUME NEW k \in Keys, NEW f \in Files,
             RepairMemberKey(k, f)
      PROVE  Record'
  BY <1>21 DEF RepairMemberKey
<1>22. CASE UNCHANGED recordVars
  BY <1>22 DEF recordVars
<1>23. ASSUME NEW r \in astray, NEW c \in Creations, PostAstray(r, c)
       PROVE  Record'
  <2>1. /\ posts[c] = 0 /\ Marked[c] /\ run.pc # PostPoint(c)
        /\ posts' = [posts EXCEPT ![c] = @ + 1]
        /\ UNCHANGED <<install, run, policy>>
    BY <1>23 DEF FirstPostAstray, PostAstray, Request
  <2>2. /\ Marked["account"] <=> install.stage # "new"
        /\ Marked["space"] <=> install.stage \in SpaceMarked
        /\ Marked["key"] <=> install.stage \in KeyMarked
    BY DEF Marked
  <2>3. (RunMatchesStage /\ StageMatchesRecord /\ LocalsComplete)'
    BY <2>1
  <2>4. SettingsWritten'
    BY <2>1
  <2>5. (FirstPost /\ AtMostOnePost /\ EveryPostIsMarked)'
    BY <2>1, <2>2, PostPoints
  <2> QED
    BY <2>3, <2>4, <2>5
<1>24. ASSUME NEW r \in astray, PutAstray(r)
       PROVE  Record'
  <2>1. /\ UNCHANGED <<install, run, posts>> /\ r.put \in 0..3 /\ r.put < 3
        /\ policy' = IF r.put < policy THEN policy ELSE r.put + 1
    BY <1>24 DEF PutAstray, Put, AstrayType
  <2>2. policy' \in 0..3 /\ policy' >= policy
    BY <2>1
  <2>3. (RunMatchesStage /\ FirstPost /\ StageMatchesRecord /\ LocalsComplete
         /\ AtMostOnePost /\ EveryPostIsMarked)'
    BY <2>1
  <2>4. SettingsWritten'
    BY <2>1, <2>2
  <2> QED
    BY <2>3, <2>4
<1>25. CASE Astray
  BY <1>22, <1>23, <1>24, <1>25, AstrayActions DEF recordVars
<1> HIDE DEF IInv, Record, TypeOK, InstallType, RunType, Runs, WireType, OutsideType,
        RunMatchesStage, FirstPost, AnswersHaveIds, StageMatchesRecord,
        LocalsComplete, SettingsWritten, AtMostOnePost, EveryPostIsMarked
<1> QED
  BY OutsideKeepsRecord,
     <1>1, <1>2, <1>3, <1>4, <1>5, <1>6, <1>7, <1>8, <1>9, <1>10, <1>11, <1>12,
     <1>13, <1>14, <1>15, <1>16, <1>17, <1>18, <1>19, <1>20, <1>21, <1>22, <1>25
  DEF Next, Installer, Prepare, DefaultWorkspace, vars, recordVars

\* What the stages say of the markers.
LEMMA MarkedMeans ==
  /\ Marked["account"] <=> install.stage # "new"
  /\ Marked["space"] <=> install.stage \in SpaceMarked
  /\ Marked["key"] <=> install.stage \in KeyMarked
BY DEF Marked

\* A marked creation stays marked, and no step of the run with the lock leads to
\* its POST or sends it, except those of the run that marked it.
KeepsMarks ==
  /\ install.stage # "new" =>
       /\ install'.stage # "new"
       /\ run.pc # "postAccount" => /\ run'.pc # "postAccount"
                                    /\ posts'["account"] = posts["account"]
  /\ install.stage \in SpaceMarked =>
       /\ install'.stage \in SpaceMarked
       /\ run.pc # "postSpace" => /\ run'.pc # "postSpace"
                                  /\ posts'["space"] = posts["space"]
  /\ install.stage \in KeyMarked =>
       /\ install'.stage \in KeyMarked
       /\ run.pc # "postKey" => /\ run'.pc # "postKey"
                                /\ posts'["key"] = posts["key"]

LEMMA InstallerKeepsMarks == IInv /\ Installer => KeepsMarks
<1> SUFFICES ASSUME IInv, Installer PROVE KeepsMarks
  OBVIOUS
<1> USE DEF KeepsMarks, IInv, TypeOK, InstallType, RunType, Runs, WireType,
            RunMatchesStage, Creations, Stages, SpaceMarked, KeyMarked, NoRun, Local
<1>0. ASSUME posts' = posts, install'.stage = install.stage,
             run'.pc \in {"idle", "settings", "testKey", "writeSecret"}
      PROVE  KeepsMarks
  BY <1>0
<1>1. CASE MarkAccount
  BY <1>1 DEF MarkAccount
<1>2. CASE PostAccount
  BY <1>2 DEF PostAccount, Send, Request
<1>3. CASE PostSpace
  BY <1>3 DEF PostSpace, Send, Request
<1>4. CASE PostKey
  BY <1>4 DEF PostKey, Send, Request
<1>5. CASE PutSetting
  BY <1>0, <1>5 DEF PutSetting, Put
<1>16. CASE AdoptKey \/ ResumeKey
  BY <1>0, <1>16 DEF AdoptKey, ResumeKey
<1>17. CASE GiveUp
  BY <1>0, <1>17 DEF GiveUp
<1>18. CASE WriteSecret
  <2>1. posts' = posts /\ install' = install /\ run.pc = "writeSecret"
    BY <1>18 DEF WriteSecret
  <2>2. run' = [run EXCEPT !.pc = "testKey"] \/ run' = NoRun
    BY <1>18 DEF WriteSecret
  <2>3. run'.pc \in {"testKey", "idle"}
    BY <2>2
  <2> QED
    BY <1>0, <2>1, <2>3
<1>6. CASE ReceiveAccount
  BY <1>6 DEF ReceiveAccount
<1>15. CASE AdoptAccount
  BY <1>15 DEF AdoptAccount
<1>19. CASE ConfirmAdmin
  BY <1>19 DEF ConfirmAdmin
<1>7. CASE ReceiveSpace
  <2>1. posts' = posts /\ run.pc = "awaitSpace"
    BY <1>7 DEF ReceiveSpace
  <2>2. CASE wire["space"].status = "accepted"
    <3>1. install' = [install EXCEPT !.stage = "space_ready", !.tenant = wire["space"].id]
          /\ run' = [run EXCEPT !.pc = "settings"]
      BY <1>7, <2>2 DEF ReceiveSpace
    <3>2. install'.stage = "space_ready" /\ run'.pc = "settings"
      BY <3>1
    <3> QED
      BY <2>1, <3>2
  <2>3. CASE ~(wire["space"].status = "accepted")
    BY <1>0, <1>7, <2>1, <2>3 DEF ReceiveSpace
  <2> QED
    BY <2>2, <2>3
<1>8. CASE TestKey
  BY <1>8 DEF TestKey
<1>9. CASE MarkKey
  BY <1>9 DEF MarkKey, SettingsDone
<1>10. CASE ReceiveKey
  <2>1. posts' = posts /\ install'.stage = install.stage
    BY <1>10 DEF ReceiveKey
  <2>2. \/ run' = [run EXCEPT !.pc = "writeSecret", !.key = wire["key"].id,
                              !.ref = run.file]
        \/ run' = NoRun
    BY <1>10 DEF ReceiveKey
  <2>3. CASE run' = NoRun
    BY <1>0, <2>1, <2>3
  <2>4. CASE run' = [run EXCEPT !.pc = "writeSecret", !.key = wire["key"].id,
                                !.ref = run.file]
    <3>1. run'.pc = "writeSecret"
      BY <2>4 DEF RunType, Runs
    <3> QED
      BY <1>0, <2>1, <3>1
  <2> QED
    BY <2>2, <2>3, <2>4
<1>11. ASSUME NEW adopt, NEW f, MarkSpace(adopt, f) PROVE KeepsMarks
  BY <1>11 DEF MarkSpace, Workspace
<1>12. ASSUME NEW adopt, NEW f, ResumeWorkspace(adopt, f) PROVE KeepsMarks
  BY <1>12 DEF ResumeWorkspace, Workspace
<1>13. ASSUME NEW adopt, NEW f, NEW t, AdoptSpace(t, adopt, f) PROVE KeepsMarks
  BY <1>13 DEF AdoptSpace, Workspace
<1>14. ASSUME NEW k, NEW f, RepairMemberKey(k, f) PROVE KeepsMarks
  BY <1>14 DEF RepairMemberKey
<1> QED
  BY <1>1, <1>2, <1>3, <1>4, <1>5, <1>6, <1>7, <1>8, <1>9, <1>10, <1>11, <1>12,
     <1>13, <1>14, <1>15, <1>16, <1>17, <1>18, <1>19
  DEF Installer, Prepare, DefaultWorkspace

\* The run with the lock never touches those astray.
LEMMA InstallerIgnoresAstray == Installer => UNCHANGED astray
BY DEF Installer, Prepare, DefaultWorkspace, MarkAccount, PostAccount,
       ReceiveAccount, AdoptAccount, ConfirmAdmin, MarkSpace, PostSpace,
       ReceiveSpace, AdoptSpace, ResumeWorkspace, PutSetting, AdoptKey, MarkKey,
       PostKey, ReceiveKey, WriteSecret, ResumeKey, TestKey, RepairMemberKey,
       GiveUp, Send, Local

\* Whoever loses the lock before a POST is the only one who may still send it.
LEMMA AstrayStep == IInv /\ [Next]_vars => FirstPostAstray'
<1> SUFFICES ASSUME IInv, [Next]_vars PROVE FirstPostAstray'
  OBVIOUS
<1>old. FirstPostAstray
  BY DEF IInv
<1>1. CASE UNCHANGED <<install, posts>> /\ run'.pc \in {run.pc, "idle"}
           /\ astray' \in SUBSET astray
  <2>1. \A c \in Creations : run'.pc = PostPoint(c) => run.pc = PostPoint(c)
    BY <1>1, PostPoints DEF Creations
  <2>2. Marked' = Marked
    BY <1>1 DEF Marked
  <2> QED
    BY <1>old, <1>1, <2>1, <2>2 DEF FirstPostAstray
<1>2. CASE Installer
  <2>1. KeepsMarks /\ astray' = astray
    BY <1>2, InstallerKeepsMarks, InstallerIgnoresAstray
  <2>2. ASSUME NEW c \in Creations, Marked[c], run.pc # PostPoint(c)
        PROVE  Marked'[c] /\ run'.pc # PostPoint(c) /\ posts'[c] = posts[c]
    <3>1. MarkedMeans'
      BY MarkedMeans, PTL
    <3>2. CASE c = "account"
      BY <2>1, <2>2, <3>1, <3>2, PostPoints, MarkedMeans DEF KeepsMarks
    <3>3. CASE c = "space"
      BY <2>1, <2>2, <3>1, <3>3, PostPoints, MarkedMeans DEF KeepsMarks
    <3>4. CASE c = "key"
      BY <2>1, <2>2, <3>1, <3>4, PostPoints, MarkedMeans DEF KeepsMarks
    <3> QED
      BY <3>2, <3>3, <3>4 DEF Creations
  <2> QED
    BY <1>old, <2>1, <2>2 DEF FirstPostAstray
<1>3. CASE LoseLock
  <2> DEFINE lost == [run EXCEPT !.adopt = None]
  <2>1. /\ astray' = astray \cup {lost} /\ run'.pc = "idle"
        /\ UNCHANGED <<install, posts>> /\ Marked' = Marked
    BY <1>3 DEF LoseLock, NoRun, Marked
  <2>2. lost.pc = run.pc
    BY DEF IInv, TypeOK, RunType, Runs
  <2>3. ASSUME NEW c \in Creations, run.pc = PostPoint(c)
        PROVE  posts[c] = 0 /\ Marked[c] /\ \A r \in astray : r.pc # PostPoint(c)
    <3>1. posts[c] = 0
      BY <2>3, PostPoints DEF IInv, FirstPost, Creations
    <3>2. Marked[c]
      BY <2>3, PostPoints, MarkedMeans
      DEF IInv, RunMatchesStage, Creations, SpaceMarked, KeyMarked
    <3> QED
      BY <1>old, <2>3, <3>1, <3>2 DEF FirstPostAstray
  <2>4. \A c \in Creations : run'.pc # PostPoint(c)
    BY <2>1, PostPoints DEF Creations
  <2>5. ASSUME NEW r \in astray', NEW c \in Creations, r.pc = PostPoint(c)
        PROVE  /\ posts[c] = 0 /\ Marked[c]
               /\ \A q \in astray' : q.pc = PostPoint(c) => q = r
    <3>1. CASE r = lost
      BY <2>1, <2>2, <2>3, <2>5, <3>1
    <3>2. CASE r \in astray
      <4>1. run.pc # PostPoint(c)
        BY <1>old, <2>5, <3>2 DEF FirstPostAstray
      <4> QED
        BY <1>old, <2>1, <2>2, <2>5, <3>2, <4>1 DEF FirstPostAstray
    <3> QED
      BY <2>1, <3>1, <3>2
  <2> QED
    BY <2>1, <2>4, <2>5 DEF FirstPostAstray
<1>4. ASSUME NEW r \in astray, NEW d \in Creations, PostAstray(r, d)
      PROVE  FirstPostAstray'
  <2>1. /\ r.pc = PostPoint(d) /\ astray' = astray \ {r}
        /\ posts' = [posts EXCEPT ![d] = @ + 1] /\ UNCHANGED <<install, run>>
        /\ Marked' = Marked
    BY <1>4 DEF PostAstray, Request, Marked
  <2>2. ASSUME NEW q \in astray', NEW c \in Creations, q.pc = PostPoint(c)
        PROVE  c # d
    BY <1>old, <2>1, <2>2 DEF FirstPostAstray
  <2>3. \A c \in Creations : c # d => posts'[c] = posts[c]
    BY <2>1 DEF IInv, TypeOK, WireType
  <2> QED
    BY <1>old, <2>1, <2>2, <2>3 DEF FirstPostAstray
<1>5. ASSUME NEW r \in astray, PutAstray(r)
      PROVE  FirstPostAstray'
  <2>1. /\ UNCHANGED <<install, run, posts>> /\ Marked' = Marked
        /\ \A q \in astray' : q \in astray \/ q = [r EXCEPT !.put = @ + 1]
        /\ r.pc = "settings"
    BY <1>5 DEF PutAstray, Put, Marked
  <2>2. [r EXCEPT !.put = @ + 1].pc = "settings"
    BY <2>1 DEF IInv, TypeOK, RunType, Runs
  <2>3. \A q \in astray', c \in Creations : q.pc = PostPoint(c) => q \in astray
    BY <2>1, <2>2, PostPoints DEF Creations
  <2> QED
    BY <1>old, <2>1, <2>3 DEF FirstPostAstray
<1>6. CASE Abort
  BY <1>1, <1>6 DEF Abort, NoRun
<1>7. CASE Upstream \/ Operator \/ UNCHANGED vars
  BY <1>1, <1>7, OutsideKeepsRecord DEF recordVars, vars
<1>8. CASE Astray
  BY <1>1, <1>4, <1>5, <1>8, AstrayActions
<1> QED
  BY <1>2, <1>3, <1>6, <1>7, <1>8 DEF Next

\* An answer that accepts a creation carries an id of the kind created.
LEMMA AnswersStep == IInv /\ [Next]_vars => AnswersHaveIds'
<1> SUFFICES ASSUME IInv, [Next]_vars PROVE AnswersHaveIds'
  OBVIOUS
<1> USE DEF IInv, AnswersHaveIds, TypeOK, WireType, Creations
<1>1. CASE UNCHANGED wire
  BY <1>1
<1>2. CASE PostAccount \/ PostSpace \/ PostKey
  BY <1>2 DEF PostAccount, PostSpace, PostKey, Send, Request
<1>6. ASSUME NEW r, NEW c \in Creations, PostAstray(r, c) PROVE AnswersHaveIds'
  BY <1>6 DEF PostAstray, Request
<1>7. Astray => UNCHANGED wire \/ \E r \in astray, c \in Creations : PostAstray(r, c)
  BY AstrayActions DEF PutAstray
<1>3. CASE Upstream
  BY <1>3 DEF Upstream, ProcessAccount, ProcessSpace, ProcessKey, Reject, Answer
<1>4. Operator => UNCHANGED wire
  BY DEF Operator, MoveWindow, Bootstrap, RegisterByHand, CreateSpaceByHand,
         TransferSpace, CreateKeyByHand, RevokeKey, ReplaceSecret, Outside
<1>5. Installer => UNCHANGED wire \/ PostAccount \/ PostSpace \/ PostKey
  BY DEF Installer, Prepare, DefaultWorkspace, MarkAccount, ReceiveAccount,
         AdoptAccount, ConfirmAdmin, MarkSpace, ReceiveSpace, AdoptSpace,
         ResumeWorkspace, PutSetting, AdoptKey, MarkKey, ReceiveKey,
         WriteSecret, ResumeKey, TestKey, RepairMemberKey, GiveUp, Local
<1> QED
  BY <1>1, <1>2, <1>3, <1>4, <1>5, <1>6, <1>7 DEF Next, Abort, LoseLock, vars

\* The installation record keeps its type.
LEMMA InstallTypeStep == IInv /\ [Next]_vars => InstallType'
<1> SUFFICES ASSUME IInv, [Next]_vars PROVE InstallType'
  OBVIOUS
<1> USE DEF IInv, TypeOK, InstallType, Stages
<1>1. CASE UNCHANGED install
  BY <1>1
<1>2. CASE MarkAccount \/ AdoptAccount \/ ConfirmAdmin
  BY <1>2 DEF MarkAccount, AdoptAccount, ConfirmAdmin
<1>3. CASE ReceiveAccount
  BY <1>3 DEF ReceiveAccount
<1>4. CASE ReceiveSpace
  BY <1>4 DEF ReceiveSpace, AnswersHaveIds
<1>5. CASE ReceiveKey
  BY <1>5 DEF ReceiveKey, AnswersHaveIds
<1>6. CASE MarkKey \/ TestKey
  BY <1>6 DEF MarkKey, TestKey, RunType, Runs
<1>7. ASSUME NEW adopt, NEW f, MarkSpace(adopt, f) PROVE InstallType'
  BY <1>7 DEF MarkSpace
<1>8. ASSUME NEW adopt, NEW f, NEW t \in Tenants, AdoptSpace(t, adopt, f)
      PROVE  InstallType'
  BY <1>8 DEF AdoptSpace
<1>9. ASSUME NEW k \in Keys, NEW f \in Files, RepairMemberKey(k, f)
      PROVE  InstallType'
  BY <1>9 DEF RepairMemberKey
<1>10. Upstream \/ Operator => UNCHANGED install
  BY OutsideKeepsRecord DEF recordVars
<1>11. PostAccount \/ PostSpace \/ PostKey \/ PutSetting \/ AdoptKey
         \/ WriteSecret \/ ResumeKey \/ GiveUp \/ Abort \/ LoseLock \/ Astray
       => UNCHANGED install
  BY AstrayActions
  DEF PostAccount, PostSpace, PostKey, Send, PutSetting, AdoptKey,
      WriteSecret, ResumeKey, GiveUp, Abort, LoseLock
<1>12. ASSUME NEW adopt, NEW f, ResumeWorkspace(adopt, f)
       PROVE  UNCHANGED install
  BY <1>12 DEF ResumeWorkspace
<1> QED
  BY <1>1, <1>2, <1>3, <1>4, <1>5, <1>6, <1>7, <1>8, <1>9, <1>10, <1>11, <1>12
  DEF Next, Installer, Prepare, DefaultWorkspace, vars

\* The run with the lock keeps its type.
LEMMA RunTypeStep == IInv /\ [Next]_vars => RunType'
<1> SUFFICES ASSUME IInv, [Next]_vars PROVE RunType'
  OBVIOUS
<1> USE DEF IInv, TypeOK, RunType, Runs, Points, Settings, NoRun
<1>1. CASE UNCHANGED run
  BY <1>1
<1>2. CASE MarkAccount \/ PostAccount \/ ReceiveAccount \/ PostSpace \/ PostKey
  BY <1>2 DEF MarkAccount, PostAccount, ReceiveAccount, PostSpace, PostKey, Send
<1>3. CASE ReceiveSpace
  BY <1>3 DEF ReceiveSpace
<1>11. CASE ReceiveKey
  <2>1. CASE wire["key"].status = "accepted"
    <3> DEFINE k == wire["key"].id
    <3>1. k \in Keys
      BY <2>1 DEF AnswersHaveIds
    <3>2. run' = [run EXCEPT !.pc = "writeSecret", !.key = k, !.ref = run.file]
      BY <1>11, <2>1 DEF ReceiveKey
    <3> QED
      BY <3>1, <3>2
  <2>2. CASE ~(wire["key"].status = "accepted")
    BY <1>11, <2>2 DEF ReceiveKey
  <2> QED
    BY <2>1, <2>2
<1>4. ASSUME NEW adopt \in Keys \cup {None}, NEW f \in Files,
             \/ MarkSpace(adopt, f) \/ ResumeWorkspace(adopt, f)
             \/ \E t \in Tenants : AdoptSpace(t, adopt, f)
      PROVE  RunType'
  <2> DEFINE Started(pc) == [pc |-> pc, adopt |-> adopt, file |-> f, put |-> 0,
                             key |-> None, ref |-> None]
  <2>1. run' = Started("postSpace") \/ run' = Started("settings")
    BY <1>4 DEF MarkSpace, ResumeWorkspace, AdoptSpace, Workspace
  <2> QED
    BY <2>1
<1>5. CASE PutSetting
  BY <1>5 DEF PutSetting, Put
<1>6. CASE AdoptKey \/ MarkKey
  BY <1>6 DEF AdoptKey, MarkKey
<1>7. CASE WriteSecret \/ ResumeKey
  <2>1. install.keyId \in Keys \cup {None} /\ install.keyRef \in Files \cup {None}
    BY DEF InstallType
  <2>2. \/ run' = [run EXCEPT !.pc = "testKey", !.key = install.keyId,
                              !.ref = install.keyRef]
        \/ run' = [run EXCEPT !.pc = "testKey"]
        \/ run' = [pc |-> "idle", adopt |-> None, file |-> None, put |-> 0,
                   key |-> None, ref |-> None]
    BY <1>7 DEF WriteSecret, ResumeKey
  <2>3. CASE run' = [run EXCEPT !.pc = "testKey", !.key = install.keyId,
                                !.ref = install.keyRef]
    BY <2>1, <2>3
  <2> QED
    BY <2>2, <2>3
<1>8. CASE TestKey \/ GiveUp \/ Abort \/ LoseLock
  BY <1>8 DEF TestKey, GiveUp, Abort, LoseLock
<1>9. ASSUME \/ AdoptAccount \/ ConfirmAdmin
             \/ \E k \in Keys, f \in Files : RepairMemberKey(k, f)
      PROVE UNCHANGED run
  BY <1>9 DEF AdoptAccount, ConfirmAdmin, RepairMemberKey
<1>10. Upstream \/ Operator \/ Astray => UNCHANGED run
  BY OutsideKeepsRecord, AstrayActions DEF recordVars
<1> QED
  BY <1>1, <1>2, <1>3, <1>4, <1>5, <1>6, <1>7, <1>8, <1>9, <1>10, <1>11
  DEF Next, Installer, Prepare, DefaultWorkspace, vars

\* And so do those astray.
LEMMA AstrayTypeStep == IInv /\ [Next]_vars => AstrayType'
<1> SUFFICES ASSUME IInv, [Next]_vars PROVE AstrayType'
  OBVIOUS
<1> USE DEF IInv, TypeOK, RunType, AstrayType
<1>1. CASE astray' \in SUBSET astray
  BY <1>1
<1>2. CASE LoseLock
  BY <1>2 DEF LoseLock, Runs
<1>3. ASSUME NEW r \in astray, PutAstray(r)
      PROVE  AstrayType'
  <2>1. r \in Runs /\ r.put \in 0..2
    BY <1>3 DEF PutAstray, Put, Runs, Settings
  <2>2. [r EXCEPT !.put = @ + 1] \in Runs
    BY <2>1 DEF Runs, Settings
  <2>3. \A q \in astray' : q \in astray \/ q = [r EXCEPT !.put = @ + 1]
    BY <1>3 DEF PutAstray
  <2> QED
    BY <2>2, <2>3
<1>4. ASSUME NEW r \in astray, NEW c \in Creations, PostAstray(r, c)
      PROVE  astray' \in SUBSET astray
  BY <1>4 DEF PostAstray
<1>5. CASE Astray
  BY <1>1, <1>3, <1>4, <1>5, AstrayActions
<1>6. CASE Upstream \/ Operator \/ Installer \/ Abort \/ UNCHANGED vars
  BY <1>1, <1>6, OutsideKeepsRecord, InstallerIgnoresAstray DEF Abort, vars
<1> QED
  BY <1>2, <1>5, <1>6 DEF Next

\* The wire and the POST counts keep their types.
LEMMA WireTypeStep == IInv /\ [Next]_vars => WireType'
<1> SUFFICES ASSUME IInv, [Next]_vars PROVE WireType'
  OBVIOUS
<1> USE DEF IInv, TypeOK, WireType, Creations
<1>1. CASE UNCHANGED <<wire, posts>>
  BY <1>1
<1>2. CASE PostAccount \/ PostSpace \/ PostKey
  BY <1>2 DEF PostAccount, PostSpace, PostKey, Send, Request
<1>6. ASSUME NEW r, NEW c \in Creations, PostAstray(r, c) PROVE WireType'
  BY <1>6 DEF PostAstray, Request
<1>7. Astray => UNCHANGED <<wire, posts>>
                  \/ \E r \in astray, c \in Creations : PostAstray(r, c)
  BY AstrayActions DEF PutAstray
<1>3. CASE Upstream
  <2>1. PICK c \in Creations, status \in {"accepted", "rejected"},
             id \in Tenants \cup Keys \cup {None} : Answer(c, status, id)
    BY <1>3 DEF Upstream, ProcessAccount, ProcessSpace, ProcessKey, Reject
  <2> QED
    BY <2>1 DEF Answer
<1>4. Operator => UNCHANGED <<wire, posts>>
  BY DEF Operator, MoveWindow, Bootstrap, RegisterByHand, CreateSpaceByHand,
         TransferSpace, CreateKeyByHand, RevokeKey, ReplaceSecret, Outside
<1>5. Installer => UNCHANGED <<wire, posts>> \/ PostAccount \/ PostSpace \/ PostKey
  BY DEF Installer, Prepare, DefaultWorkspace, MarkAccount, ReceiveAccount,
         AdoptAccount, ConfirmAdmin, MarkSpace, ReceiveSpace, AdoptSpace,
         ResumeWorkspace, PutSetting, AdoptKey, MarkKey, ReceiveKey,
         WriteSecret, ResumeKey, TestKey, RepairMemberKey, GiveUp, Local
<1> QED
  BY <1>1, <1>2, <1>3, <1>4, <1>5, <1>6, <1>7 DEF Next, Abort, LoseLock, vars

\* What the rest of the world holds keeps its type.
LEMMA OutsideTypeStep == IInv /\ [Next]_vars => OutsideType'
<1> SUFFICES ASSUME IInv, [Next]_vars PROVE OutsideType'
  OBVIOUS
<1> USE DEF IInv, TypeOK, OutsideType, Settings
<1>1. CASE UNCHANGED <<secret, policy, aborts, upstream>>
  BY <1>1 DEF upstream
<1>2. CASE PutSetting
  BY <1>2 DEF PutSetting, Put, RunType, Runs, Local, upstream
<1>3. CASE WriteSecret
  BY <1>3 DEF WriteSecret, RunType, Runs, Local, upstream
<1>4. CASE Abort \/ LoseLock
  <2>1. aborts + 1 \in 0..MaxAborts
    BY <1>4, AbortsAssumption DEF Abort, LoseLock
  <2> QED
    BY <1>4, <2>1 DEF Abort, LoseLock, upstream
<1>8. ASSUME NEW r \in astray, PutAstray(r) PROVE OutsideType'
  <2>1. r.put \in 0..2 /\ policy' = IF r.put < policy THEN policy ELSE r.put + 1
    BY <1>8 DEF PutAstray, Put, AstrayType, Runs
  <2>2. policy' \in 0..3
    BY <2>1
  <2> QED
    BY <1>8, <2>2 DEF PutAstray, upstream
<1>9. ASSUME NEW r \in astray, WriteSecretAstray(r) PROVE OutsideType'
  BY <1>9 DEF WriteSecretAstray, AstrayType, Runs, upstream
<1>10. CASE Astray
  <2>1. ASSUME NEW r, NEW c, PostAstray(r, c)
        PROVE  UNCHANGED <<secret, policy, aborts, upstream>>
    BY <2>1 DEF PostAstray
  <2> QED
    BY <1>1, <1>8, <1>9, <1>10, <2>1, AstrayActions
<1>5. CASE Upstream
  <2>1. UNCHANGED <<secret, policy, aborts, sysadmin, window>>
    BY <1>5 DEF Upstream, ProcessAccount, ProcessSpace, ProcessKey, Reject, Answer
  <2>2. account' \in BOOLEAN
        /\ spaces' \in [Tenants -> {"absent", "owned", "other"}]
    BY <1>5 DEF Upstream, ProcessAccount, ProcessSpace, ProcessKey, Reject
  <2>3. keys' \in [Keys -> {"absent", "members", "full", "revoked"}]
        /\ keySpace' \in [Keys -> Tenants \cup {None}]
    BY <1>5 DEF Upstream, ProcessAccount, ProcessSpace, ProcessKey, Reject,
                InstallType
  <2> QED
    BY <2>1, <2>2, <2>3
<1>6. CASE Operator
  <2>1. CASE MoveWindow \/ Bootstrap \/ RegisterByHand
    BY <2>1 DEF MoveWindow, Bootstrap, RegisterByHand, Outside, upstream
  <2>2. ASSUME NEW t \in Tenants, CreateSpaceByHand(t) \/ TransferSpace(t)
        PROVE  OutsideType'
    BY <2>2 DEF CreateSpaceByHand, TransferSpace, Outside, upstream
  <2>3. ASSUME NEW k \in Keys, NEW t \in Tenants, NEW scope \in {"members", "full"},
               CreateKeyByHand(k, t, scope)
        PROVE  OutsideType'
    BY <2>3 DEF CreateKeyByHand, Outside, upstream
  <2>4. ASSUME NEW k \in Keys, RevokeKey(k) PROVE OutsideType'
    BY <2>4 DEF RevokeKey, Outside, upstream
  <2>5. ASSUME NEW f \in Files, NEW k \in Keys \cup {None}, ReplaceSecret(f, k)
        PROVE  OutsideType'
    BY <2>5 DEF ReplaceSecret, Outside, upstream
  <2> QED
    BY <1>6, <2>1, <2>2, <2>3, <2>4, <2>5 DEF Operator
<1>7. Installer => UNCHANGED <<secret, policy, aborts, upstream>>
                     \/ PutSetting \/ WriteSecret
  BY DEF Installer, Prepare, DefaultWorkspace, MarkAccount, PostAccount,
         ReceiveAccount, AdoptAccount, ConfirmAdmin, MarkSpace, PostSpace,
         ReceiveSpace, AdoptSpace, ResumeWorkspace, AdoptKey, MarkKey, PostKey,
         ReceiveKey, ResumeKey, TestKey, RepairMemberKey, GiveUp, Send, Local
<1> QED
  BY <1>1, <1>2, <1>3, <1>4, <1>5, <1>6, <1>7, <1>10 DEF Next, vars

\* The invariant is inductive.
LEMMA NextIInv == IInv /\ [Next]_vars => IInv'
BY InstallTypeStep, RunTypeStep, AstrayTypeStep, WireTypeStep, OutsideTypeStep,
   AnswersStep, RecordStep, AstrayStep
DEF IInv, TypeOK, Record

\* Every reachable state satisfies the inductive invariant.
THEOREM InstallationInvariant == Spec => []IInv
BY InitIInv, NextIInv, PTL DEF Spec

\* The variables keep their types.
THEOREM InstallationTypeCorrect == Spec => []TypeOK
BY InstallationInvariant, PTL DEF IInv

\* No creation is ever requested twice, for any number of dying runs.
THEOREM NeverCreatesTwice == Spec => []AtMostOnePost
BY InstallationInvariant, PTL DEF IInv

\* A request that was sent is announced by the saved stage.
THEOREM NeverPostsUnannounced == Spec => []EveryPostIsMarked
BY InstallationInvariant, PTL DEF IInv

\* "ready" is reached only with every part recorded and registration closed.
THEOREM ReadyMeansComplete == Spec => []ReadyIsComplete
<1>1. IInv => ReadyIsComplete
  BY NoneAssumption
  DEF IInv, ReadyIsComplete, StageMatchesRecord, SettingsWritten, Settings,
      RegistrationOpen, AccountSettled, SpaceSettled, KeyMarked
<1> QED
  BY InstallationInvariant, <1>1, PTL

\* The installation record grows with every step.
LEMMA GrowsStep == IInv /\ [Next]_vars => Grows
<1> SUFFICES ASSUME IInv, [Next]_vars PROVE Grows
  OBVIOUS
<1> USE NoneAssumption
    DEF IInv, TypeOK, InstallType, RunMatchesStage, FirstPost, LocalsComplete,
        StageMatchesRecord, Stages, AccountSettled, SpaceMarked, SpaceSettled,
        KeyMarked, Grows
<1>1. CASE UNCHANGED install
  BY <1>1
<1>2. CASE MarkAccount \/ AdoptAccount \/ ConfirmAdmin
  BY <1>2 DEF MarkAccount, AdoptAccount, ConfirmAdmin
<1>3. CASE ReceiveAccount
  BY <1>3 DEF ReceiveAccount
<1>4. CASE ReceiveSpace
  BY <1>4 DEF ReceiveSpace
<1>5. CASE ReceiveKey
  BY <1>5 DEF ReceiveKey, AnswersHaveIds
<1>6. CASE MarkKey \/ TestKey
  <2>1. CASE MarkKey
    BY <2>1 DEF MarkKey, SettingsDone
  <2>2. CASE TestKey
    BY <2>2 DEF TestKey
  <2> QED
    BY <1>6, <2>1, <2>2
<1>7. ASSUME NEW adopt, NEW f, MarkSpace(adopt, f) PROVE Grows
  BY <1>7 DEF MarkSpace
<1>8. ASSUME NEW adopt, NEW f, NEW t \in Tenants, AdoptSpace(t, adopt, f)
      PROVE  Grows
  BY <1>8 DEF AdoptSpace
<1>9. ASSUME NEW k \in Keys, NEW f \in Files, RepairMemberKey(k, f)
      PROVE  Grows
  BY <1>9 DEF RepairMemberKey
<1>10. Upstream \/ Operator => UNCHANGED install
  BY OutsideKeepsRecord DEF recordVars
<1>11. PostAccount \/ PostSpace \/ PostKey \/ PutSetting \/ AdoptKey
         \/ WriteSecret \/ ResumeKey \/ GiveUp \/ Abort \/ LoseLock \/ Astray
       => UNCHANGED install
  BY AstrayActions
  DEF PostAccount, PostSpace, PostKey, Send, PutSetting, AdoptKey,
      WriteSecret, ResumeKey, GiveUp, Abort, LoseLock
<1>12. ASSUME NEW adopt, NEW f, ResumeWorkspace(adopt, f)
       PROVE  UNCHANGED install
  BY <1>12 DEF ResumeWorkspace
<1> QED
  BY <1>1, <1>2, <1>3, <1>4, <1>5, <1>6, <1>7, <1>8, <1>9, <1>10, <1>11, <1>12
  DEF Next, Installer, Prepare, DefaultWorkspace, vars

\* The record is never taken back, whatever runs die and whoever recovers.
THEOREM RecordNeverShrinks == Spec => RecordOnlyGrows
<1>1. IInv /\ [Next]_vars => [Grows]_vars
  BY GrowsStep
<1> QED
  BY <1>1, InstallationInvariant, PTL DEF Spec, RecordOnlyGrows
---------------------------------------------------------------------------
\* The refinement of CreateOnce.  A step of a run changes the phase of at most
\* one creation; the rest of the world changes none.

phases == [c \in Creations |-> Phase(c)]
loose == {c \in Creations : Loose(c)}

\* The mapped step of each kind, from what it does to the phases.
LEMMA PromiseSteps ==
  ASSUME NEW n \in 1..3, NEW c \in Creations,
         c = CreationOrder[n]
  PROVE  /\ /\ phases[c] = "unmarked" /\ posts' = posts /\ loose' = loose
            /\ \A i \in 1..(n - 1) :
                 phases[CreationOrder[i]] = "settled"
            /\ phases' = [phases EXCEPT ![c] = "marked"]
            => Promise!Next
         /\ /\ phases[c] = "marked" /\ posts[c] = 0 /\ loose' = loose
            /\ phases' = [phases EXCEPT ![c] = "posted"]
            /\ posts' = [posts EXCEPT ![c] = 1]
            => Promise!Next
         /\ /\ phases[c] \in {"marked", "posted"} /\ posts' = posts
            /\ phases' = [phases EXCEPT ![c] = "settled"] /\ loose' = loose
            => Promise!Next
         /\ /\ phases[c] = "marked" /\ phases' = phases /\ posts' = posts
            /\ loose' = loose \cup {c}
            => Promise!Next
         /\ /\ c \in loose /\ posts[c] = 0 /\ posts' = [posts EXCEPT ![c] = 1]
            /\ phases' = [phases EXCEPT
                            ![c] = IF @ = "settled" THEN @ ELSE "posted"]
            /\ loose' = loose \ {c}
            => Promise!Next
         /\ /\ phases' = phases /\ posts' = posts /\ loose' = loose \ {c}
            => Promise!Next
<1>1. Len(CreationOrder) = 3
  BY DEF CreationOrder
<1> DEFINE Step(m) ==
      Promise!Mark(m) \/ Promise!Post(m) \/ Promise!Settle(m)
        \/ Promise!Lose(m) \/ Promise!PostLoose(m) \/ Promise!Forget(m)
<1>2. Step(n) => Promise!Next
  BY <1>1 DEF Promise!Next
<1> USE DEF phases, loose
<1>3. phases[c] = "unmarked" /\ posts' = posts /\ loose' = loose
        /\ (\A i \in 1..(n - 1) : phases[CreationOrder[i]] = "settled")
        /\ phases' = [phases EXCEPT ![c] = "marked"] => Promise!Mark(n)
  BY DEF Promise!Mark, Promise!Reached
<1>4. phases[c] = "marked" /\ posts[c] = 0 /\ loose' = loose
        /\ phases' = [phases EXCEPT ![c] = "posted"]
        /\ posts' = [posts EXCEPT ![c] = 1] => Promise!Post(n)
  BY DEF Promise!Post, Promise!Request
<1>5. phases[c] \in {"marked", "posted"} /\ posts' = posts
        /\ phases' = [phases EXCEPT ![c] = "settled"] /\ loose' = loose
        => Promise!Settle(n)
  BY DEF Promise!Settle
<1>6. phases[c] = "marked" /\ phases' = phases /\ posts' = posts
        /\ loose' = loose \cup {c} => Promise!Lose(n)
  BY DEF Promise!Lose
<1>7. c \in loose /\ posts[c] = 0 /\ posts' = [posts EXCEPT ![c] = 1]
        /\ phases' = [phases EXCEPT ![c] = IF @ = "settled" THEN @ ELSE "posted"]
        /\ loose' = loose \ {c} => Promise!PostLoose(n)
  BY DEF Promise!PostLoose, Promise!Request
<1>8. phases' = phases /\ posts' = posts /\ loose' = loose \ {c}
        => Promise!Forget(n)
  BY DEF Promise!Forget
<1> QED
  BY <1>2, <1>3, <1>4, <1>5, <1>6, <1>7, <1>8

\* The phases of the three creations, spelled out.
LEMMA PhaseValues ==
  /\ phases["account"] = IF install.adminId # None THEN "settled"
                         ELSE IF posts["account"] > 0 THEN "posted"
                         ELSE IF install.stage # "new" THEN "marked" ELSE "unmarked"
  /\ phases["space"] = IF install.tenant # None THEN "settled"
                       ELSE IF posts["space"] > 0 THEN "posted"
                       ELSE IF install.stage \in SpaceMarked THEN "marked"
                       ELSE "unmarked"
  /\ phases["key"] = IF install.keyId # None THEN "settled"
                     ELSE IF posts["key"] > 0 THEN "posted"
                     ELSE IF install.stage \in KeyMarked THEN "marked" ELSE "unmarked"
BY DEF phases, Phase, Settled, Marked, Creations

\* A phase vector that differs in one place.
LEMMA PhasesExcept ==
  ASSUME NEW c \in Creations, NEW value, phases'[c] = value,
         \A d \in Creations \ {c} : phases'[d] = phases[d]
  PROVE  phases' = [phases EXCEPT ![c] = value]
BY DEF phases

\* One phase moves, the other two stay, and nobody goes astray or comes back.
LEMMA InstallerMoves ==
  ASSUME IInv, IInv', Installer \/ Abort \/ Upstream \/ Operator \/ UNCHANGED vars
  PROVE  [Promise!Next]_<<phases, posts, loose>>
<1> USE NoneAssumption
    DEF IInv, TypeOK, InstallType, WireType, RunMatchesStage, FirstPost,
        StageMatchesRecord, Stages, AccountSettled, SpaceMarked, SpaceSettled,
        KeyMarked
<1> DEFINE Others(c) == \A d \in Creations \ {c} : phases'[d] = phases[d]
<1>order. /\ CreationOrder[1] = "account" /\ CreationOrder[2] = "space"
          /\ CreationOrder[3] = "key" /\ Creations = {"account", "space", "key"}
  BY DEF CreationOrder, Creations
<1>next. PhaseValues'
  BY PhaseValues, PTL
<1>loose. loose' = loose
  <2>1. astray' = astray
    BY InstallerIgnoresAstray, OutsideKeepsRecord DEF Abort, vars
  <2> QED
    BY <2>1 DEF loose, Loose
<1>1. CASE MarkAccount
  <2>1. /\ phases["account"] = "unmarked" /\ phases'["account"] = "marked"
        /\ phases'["space"] = phases["space"] /\ phases'["key"] = phases["key"]
        /\ posts' = posts
    BY <1>1, <1>next, PhaseValues DEF MarkAccount, EveryPostIsMarked, Local
  <2> QED
    BY <2>1, <1>order, <1>loose, PhasesExcept, PromiseSteps
<1>2. CASE PostAccount
  <2>1. /\ phases["account"] = "marked" /\ phases'["account"] = "posted"
        /\ phases'["space"] = phases["space"] /\ phases'["key"] = phases["key"]
        /\ posts' = [posts EXCEPT !["account"] = 1] /\ posts["account"] = 0
    <3>1. /\ posts["account"] = 0 /\ posts' = [posts EXCEPT !["account"] = @ + 1]
          /\ install' = install
      BY <1>2 DEF PostAccount, Send, Request
    <3>2. posts' = [posts EXCEPT !["account"] = 1]
      BY <3>1
    <3> QED
      BY <1>2, <1>next, <3>1, <3>2, PhaseValues DEF PostAccount, Creations
  <2> QED
    BY <2>1, <1>order, <1>loose, PhasesExcept, PromiseSteps
<1>3. CASE AdoptAccount
  <2>1. /\ phases["account"] \in {"marked", "posted"} /\ phases'["account"] = "settled"
        /\ phases'["space"] = phases["space"] /\ phases'["key"] = phases["key"]
        /\ posts' = posts
    BY <1>3, <1>next, PhaseValues DEF AdoptAccount, Local
  <2> QED
    BY <2>1, <1>order, <1>loose, PhasesExcept, PromiseSteps
<1>4. CASE ReceiveAccount /\ install' # install
  <2>1. /\ phases["account"] \in {"marked", "posted"} /\ phases'["account"] = "settled"
        /\ phases'["space"] = phases["space"] /\ phases'["key"] = phases["key"]
        /\ posts' = posts
    BY <1>4, <1>next, PhaseValues DEF ReceiveAccount, Local
  <2> QED
    BY <2>1, <1>order, <1>loose, PhasesExcept, PromiseSteps
<1>5. ASSUME NEW adopt, NEW f, MarkSpace(adopt, f)
      PROVE  [Promise!Next]_<<phases, posts, loose>>
  <2>1. /\ phases["space"] = "unmarked" /\ phases'["space"] = "marked"
        /\ phases'["account"] = phases["account"] /\ phases'["key"] = phases["key"]
        /\ posts' = posts /\ phases["account"] = "settled"
    BY <1>5, <1>next, PhaseValues DEF MarkSpace, EveryPostIsMarked, Local
  <2> QED
    BY <2>1, <1>order, <1>loose, PhasesExcept, PromiseSteps
<1>6. CASE PostSpace
  <2>1. /\ phases["space"] = "marked" /\ phases'["space"] = "posted"
        /\ phases'["account"] = phases["account"] /\ phases'["key"] = phases["key"]
        /\ posts' = [posts EXCEPT !["space"] = 1] /\ posts["space"] = 0
    <3>1. /\ posts["space"] = 0 /\ posts' = [posts EXCEPT !["space"] = @ + 1]
          /\ install' = install
      BY <1>6 DEF PostSpace, Send, Request
    <3>2. posts' = [posts EXCEPT !["space"] = 1]
      BY <3>1
    <3> QED
      BY <1>6, <1>next, <3>1, <3>2, PhaseValues DEF PostSpace, Creations
  <2> QED
    BY <2>1, <1>order, <1>loose, PhasesExcept, PromiseSteps
<1>7. ASSUME NEW adopt, NEW f, NEW t \in Tenants, AdoptSpace(t, adopt, f)
      PROVE  [Promise!Next]_<<phases, posts, loose>>
  <2>1. /\ phases["space"] \in {"marked", "posted"} /\ phases'["space"] = "settled"
        /\ phases'["account"] = phases["account"] /\ phases'["key"] = phases["key"]
        /\ posts' = posts
    BY <1>7, <1>next, PhaseValues DEF AdoptSpace, Local
  <2> QED
    BY <2>1, <1>order, <1>loose, PhasesExcept, PromiseSteps
<1>8. CASE ReceiveSpace /\ install' # install
  <2>1. /\ phases["space"] \in {"marked", "posted"} /\ phases'["space"] = "settled"
        /\ phases'["account"] = phases["account"] /\ phases'["key"] = phases["key"]
        /\ posts' = posts
    BY <1>8, <1>next, PhaseValues DEF ReceiveSpace, AnswersHaveIds, Local
  <2> QED
    BY <2>1, <1>order, <1>loose, PhasesExcept, PromiseSteps
<1>9. CASE MarkKey
  <2>1. /\ phases["key"] = "unmarked" /\ phases'["key"] = "marked"
        /\ phases'["account"] = phases["account"] /\ phases'["space"] = phases["space"]
        /\ posts' = posts /\ phases["account"] = "settled"
        /\ phases["space"] = "settled"
    BY <1>9, <1>next, PhaseValues DEF MarkKey, SettingsDone, EveryPostIsMarked, Local
  <2> QED
    BY <2>1, <1>order, <1>loose, PhasesExcept, PromiseSteps
<1>10. CASE PostKey
  <2>1. /\ phases["key"] = "marked" /\ phases'["key"] = "posted"
        /\ phases'["account"] = phases["account"] /\ phases'["space"] = phases["space"]
        /\ posts' = [posts EXCEPT !["key"] = 1] /\ posts["key"] = 0
    <3>1. /\ posts["key"] = 0 /\ posts' = [posts EXCEPT !["key"] = @ + 1]
          /\ install' = install
      BY <1>10 DEF PostKey, Send, Request
    <3>2. posts' = [posts EXCEPT !["key"] = 1]
      BY <3>1
    <3> QED
      BY <1>10, <1>next, <3>1, <3>2, PhaseValues DEF PostKey, Creations
  <2> QED
    BY <2>1, <1>order, <1>loose, PhasesExcept, PromiseSteps
<1>11. CASE ReceiveKey /\ install' # install
  <2>1. /\ phases["key"] \in {"marked", "posted"} /\ phases'["key"] = "settled"
        /\ phases'["account"] = phases["account"] /\ phases'["space"] = phases["space"]
        /\ posts' = posts
    BY <1>11, <1>next, PhaseValues DEF ReceiveKey, AnswersHaveIds, Local
  <2> QED
    BY <2>1, <1>order, <1>loose, PhasesExcept, PromiseSteps
<1>12. CASE TestKey /\ install.keyId = None
  <2>1. /\ phases["key"] \in {"marked", "posted"} /\ phases'["key"] = "settled"
        /\ phases'["account"] = phases["account"] /\ phases'["space"] = phases["space"]
        /\ posts' = posts
    BY <1>12, <1>next, PhaseValues DEF TestKey, LocalsComplete, Local
  <2> QED
    BY <2>1, <1>order, <1>loose, PhasesExcept, PromiseSteps
<1>13. CASE UNCHANGED <<install, posts>>
  BY <1>13, <1>loose, <1>next, PhaseValues DEF phases, Phase, Marked, Settled
<1>14. CASE ConfirmAdmin \/ (TestKey /\ install.keyId # None)
  <2>1. /\ posts' = posts /\ phases'["account"] = phases["account"]
        /\ phases'["space"] = phases["space"] /\ phases'["key"] = phases["key"]
    BY <1>14, <1>next, PhaseValues DEF ConfirmAdmin, TestKey, Local
  <2> QED
    BY <2>1, <1>order, <1>loose DEF phases
<1>15. ASSUME NEW k \in Keys, NEW f \in Files, RepairMemberKey(k, f)
       PROVE  [Promise!Next]_<<phases, posts, loose>>
  <2>1. /\ posts' = posts /\ phases'["account"] = phases["account"]
        /\ phases'["space"] = phases["space"] /\ phases'["key"] = phases["key"]
    BY <1>15, <1>next, PhaseValues DEF RepairMemberKey, Local
  <2> QED
    BY <2>1, <1>order, <1>loose DEF phases
<1>16. PutSetting \/ AdoptKey \/ WriteSecret \/ ResumeKey \/ GiveUp \/ Abort
        => UNCHANGED <<install, posts>>
  BY DEF PutSetting, AdoptKey, WriteSecret, ResumeKey, GiveUp, Abort, Local
<1>17. ReceiveAccount \/ ReceiveSpace \/ ReceiveKey => posts' = posts
  BY DEF ReceiveAccount, ReceiveSpace, ReceiveKey, Local
<1>18. ASSUME NEW adopt, NEW f, ResumeWorkspace(adopt, f)
       PROVE  UNCHANGED <<install, posts>>
  BY <1>18 DEF ResumeWorkspace, Local
<1> QED
  BY OutsideKeepsRecord,
     <1>1, <1>2, <1>3, <1>4, <1>5, <1>6, <1>7, <1>8, <1>9,
     <1>10, <1>11, <1>12, <1>13, <1>14, <1>15, <1>16, <1>17, <1>18
  DEF Installer, Prepare, DefaultWorkspace, vars, recordVars

\* A run that loses the lock, and what it still does.
LEMMA AstrayMoves ==
  ASSUME IInv, IInv', LoseLock \/ Astray
  PROVE  [Promise!Next]_<<phases, posts, loose>>
<1>order. /\ CreationOrder[1] = "account" /\ CreationOrder[2] = "space"
          /\ CreationOrder[3] = "key" /\ Creations = {"account", "space", "key"}
  BY DEF CreationOrder, Creations
<1>index. \A c \in Creations : \E n \in 1..3 : c = CreationOrder[n]
  BY <1>order
<1>phase. \A c \in Creations :
            Phase(c) = IF Settled[c] THEN "settled" ELSE IF posts[c] > 0 THEN "posted"
                       ELSE IF Marked[c] THEN "marked" ELSE "unmarked"
  BY DEF Phase
<1>1. CASE LoseLock
  <2> DEFINE lost == [run EXCEPT !.adopt = None]
  <2>1. /\ astray' = astray \cup {lost} /\ UNCHANGED <<install, posts>>
        /\ lost.pc = run.pc
    BY <1>1 DEF LoseLock, IInv, TypeOK, RunType, Runs
  <2>2. phases' = phases
    BY <2>1 DEF phases, Phase, Marked, Settled
  <2>3. CASE \E c \in Creations : run.pc = PostPoint(c)
    <3>1. PICK c \in Creations : run.pc = PostPoint(c)
      BY <2>3
    <3>2. Loose(c)' /\ \A d \in Creations : d # c => (Loose(d)' <=> Loose(d))
      BY <2>1, <3>1, PostPoints, <1>order DEF Loose
    <3>3. \A d \in Creations : Loose(d) => Loose(d)'
      BY <2>1 DEF Loose
    <3>4. loose' = loose \cup {c}
      BY <3>2, <3>3 DEF loose
    <3>5. phases[c] = "marked"
      <4>1. phases[c] = "marked" \/ ~(c \in Creations)
        BY <3>1, PostPoints, PhaseValues, NoneAssumption
        DEF IInv, FirstPost, RunMatchesStage, StageMatchesRecord, Creations,
            SpaceMarked, SpaceSettled, KeyMarked, AccountSettled
      <4> QED
        BY <4>1
    <3> QED
      BY <1>index, <2>1, <2>2, <3>4, <3>5, PromiseSteps
  <2>4. CASE \A c \in Creations : run.pc # PostPoint(c)
    <3>1. \A c \in Creations : Loose(c)' <=> Loose(c)
      BY <2>1, <2>4 DEF Loose
    <3>2. loose' = loose
      BY <3>1 DEF loose
    <3> QED
      BY <2>1, <2>2, <3>2
  <2> QED
    BY <2>3, <2>4
<1>2. ASSUME NEW r \in astray, NEW c \in Creations, PostAstray(r, c)
      PROVE  [Promise!Next]_<<phases, posts, loose>>
  <2>1. /\ r.pc = PostPoint(c) /\ astray' = astray \ {r} /\ install' = install
        /\ posts' = [posts EXCEPT ![c] = @ + 1] /\ posts[c] = 0 /\ Marked[c]
        /\ posts \in [Creations -> Nat]
        /\ \A q \in astray : q.pc = PostPoint(c) => q = r
    BY <1>2 DEF PostAstray, Request, IInv, FirstPostAstray, TypeOK, WireType
  <2>2. Marked' = Marked /\ Settled' = Settled
    BY <2>1 DEF Marked, Settled
  <2>3. posts' = [posts EXCEPT ![c] = 1]
    BY <2>1
  <2>4. /\ Phase(c)' = IF Settled[c] THEN "settled" ELSE "posted"
        /\ Phase(c) = IF Settled[c] THEN "settled" ELSE "marked"
        /\ \A d \in Creations : d # c => Phase(d)' = Phase(d)
    BY <2>1, <2>2, <2>3 DEF Phase
  <2>5. phases' = [phases EXCEPT ![c] = IF @ = "settled" THEN @ ELSE "posted"]
    BY <2>4 DEF phases
  <2>6. Loose(c) /\ ~Loose(c)'
        /\ \A d \in Creations : d # c => (Loose(d)' <=> Loose(d))
    BY <2>1, PostPoints, <1>order DEF Loose
  <2>7. c \in loose /\ loose' = loose \ {c}
    BY <2>6 DEF loose
  <2> QED
    BY <1>index, <2>1, <2>3, <2>5, <2>7, PromiseSteps
<1>3. ASSUME NEW r \in astray, PutAstray(r)
      PROVE  [Promise!Next]_<<phases, posts, loose>>
  <2>1. /\ r.pc = "settings" /\ UNCHANGED <<install, posts>>
        /\ astray' = (astray \ {r}) \cup
                     {s \in {[r EXCEPT !.put = @ + 1]} : s.put < Settings}
    BY <1>3 DEF PutAstray, Put
  <2>2. [r EXCEPT !.put = @ + 1].pc = "settings"
    BY <2>1 DEF IInv, TypeOK, AstrayType, Runs
  <2>3. \A c \in Creations : Loose(c)' <=> Loose(c)
    BY <2>1, <2>2, PostPoints, <1>order DEF Loose
  <2>4. loose' = loose /\ phases' = phases
    BY <2>1, <2>3 DEF loose, phases, Phase, Marked, Settled
  <2> QED
    BY <2>1, <2>4
<1>4. CASE UNCHANGED <<install, posts>> /\ astray' \in SUBSET astray
           /\ \E r \in astray : astray' = astray \ {r}
  <2>1. PICK r \in astray : astray' = astray \ {r}
    BY <1>4
  <2>2. phases' = phases /\ posts' = posts
    BY <1>4 DEF phases, Phase, Marked, Settled
  <2>3. CASE \E c \in Creations : r.pc = PostPoint(c)
    <3>1. PICK c \in Creations : r.pc = PostPoint(c)
      BY <2>3
    <3>2. ~Loose(c)' /\ \A d \in Creations : d # c => (Loose(d)' <=> Loose(d))
      BY <2>1, <3>1, PostPoints, <1>order DEF Loose, IInv, FirstPostAstray
    <3>3. loose' = loose \ {c}
      BY <3>2 DEF loose
    <3> QED
      BY <1>index, <2>2, <3>3, PromiseSteps
  <2>4. CASE \A c \in Creations : r.pc # PostPoint(c)
    <3>1. \A c \in Creations : Loose(c)' <=> Loose(c)
      BY <2>1, <2>4 DEF Loose
    <3>2. loose' = loose
      BY <3>1 DEF loose
    <3> QED
      BY <2>2, <3>2
  <2> QED
    BY <2>3, <2>4
<1>5. CASE Astray
  <2>1. PICK r \in astray :
          \/ \E c \in Creations : PostAstray(r, c)
          \/ PutAstray(r) \/ WriteSecretAstray(r) \/ EndAstray(r)
    BY <1>5 DEF Astray
  <2>2. WriteSecretAstray(r) \/ EndAstray(r) =>
          UNCHANGED <<install, posts>> /\ astray' = astray \ {r}
    BY DEF WriteSecretAstray, EndAstray
  <2> QED
    BY <1>2, <1>3, <1>4, <2>1, <2>2
<1> QED
  BY <1>1, <1>5

\* The installation implements the promise: account, space and key in order,
\* each announced before it is requested and requested at most once in all; only
\* a run that lost the lock after its announcement may still send its request
\* when the creation is already settled.
THEOREM InstallationCreatesOnce == Spec => CreatesOnce
<1>1. Init => Promise!Init
  <2>3. Init => loose = {}
    BY DEF Init, loose, Loose
  <2>1. Promise!Things = Creations
    <3>1. Len(CreationOrder) = 3
      BY DEF CreationOrder
    <3> QED
      BY <3>1 DEF Promise!Things, CreationOrder, Creations
  <2>2. Init => phases = [c \in Creations |-> "unmarked"]
    BY PhaseValues DEF Init, phases, Creations, SpaceMarked, KeyMarked
  <2> QED
    BY <2>1, <2>2, <2>3 DEF Init, Promise!Init, phases, loose
<1>2. IInv /\ IInv' /\ [Next]_vars => [Promise!Next]_<<phases, posts, loose>>
  BY InstallerMoves, AstrayMoves DEF Next
<1> QED
  BY <1>1, <1>2, InstallationInvariant, PTL
  DEF Spec, CreatesOnce, Promise!Spec, phases, loose
---------------------------------------------------------------------------
(***************************************************************************)
(* The recovery guide.  What it tells the operator to do by hand, and what *)
(* the upstream and the runs do meanwhile, are steps of Installation, so   *)
(* an installation that is recovered is as safe as one that never failed.  *)
(* That a key made by hand is for a space that exists is where the         *)
(* invariant is needed: the record names a space from space_ready on.      *)
(***************************************************************************)
LEMMA GuideIsOperator == IInv /\ Guide => Operator
<1> SUFFICES ASSUME IInv, Guide PROVE Operator
  OBVIOUS
<1>1. CASE OpenWindow \/ CloseWindow \/ Promote \/ HandRegister
  BY <1>1 DEF OpenWindow, CloseWindow, Promote, HandRegister, Operator
<1>2. CASE HandSpace
  BY <1>2 DEF HandSpace, Operator
<1>3. CASE HandKey
  <2>1. install.stage = "key_creating"
    BY <1>3 DEF HandKey
  <2>2. install.tenant \in Tenants
    BY <2>1 DEF IInv, TypeOK, InstallType, StageMatchesRecord, SpaceSettled
  <2>3. PICK k \in Keys : CreateKeyByHand(k, install.tenant, "members")
    BY <1>3 DEF HandKey
  <2> QED
    BY <2>2, <2>3 DEF Operator
<1>4. CASE HandSecret
  <2>1. PICK f \in Files, k \in Keys : ReplaceSecret(f, k)
    BY <1>4 DEF HandSecret
  <2> QED
    BY <2>1 DEF Operator
<1> QED
  BY <1>1, <1>2, <1>3, <1>4 DEF Guide

LEMMA GuidedIsNext == IInv /\ GuidedNext => Next
<1>1. ProcessTenantless => Upstream
  BY DEF ProcessTenantless, Upstream
<1> QED
  BY <1>1, GuideIsOperator DEF GuidedNext, Next

\* An installation that follows the recovery guide is a behaviour of the state
\* machine, and keeps what it promises: however often runs die and people help
\* out, nothing is created twice and "ready" is reached with everything done.
THEOREM RecoveredInstallIsSafe ==
  GuidedSpec => /\ Spec
                /\ [](AtMostOnePost /\ EveryPostIsMarked /\ ReadyIsComplete)
                /\ RecordOnlyGrows /\ CreatesOnce
<1>1. IInv /\ [GuidedNext]_vars => [Next]_vars
  BY GuidedIsNext
<1>2. IInv /\ [GuidedNext]_vars => IInv'
  BY <1>1, NextIInv
<1>3. GuidedSpec => Spec
  BY <1>1, <1>2, InitIInv, PTL DEF GuidedSpec, Spec
<1> QED
  BY <1>3, NeverCreatesTwice, NeverPostsUnannounced, ReadyMeansComplete,
     RecordNeverShrinks, InstallationCreatesOnce, PTL
===========================================================================
