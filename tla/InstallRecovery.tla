-------------------------- MODULE InstallRecovery --------------------------
(***************************************************************************)
(* Installation when the operator follows the recovery guide               *)
(* (scripts/r2-install.sh and the recovery table of deploy/r2/README.md)   *)
(* and nobody works against the installation: spaces are not transferred   *)
(* and keys not revoked before the install is complete.  Runs may still    *)
(* die or lose the lock at any step, at most MaxAborts times, and the      *)
(* upstream may reject, or answer too late, any creation.                  *)
(***************************************************************************)
EXTENDS Installation

NeedsAccount == install.stage \in {"new", "registering"}

\* The admin operation opens registration around prepare and closes it after.
OpenWindow == NeedsAccount /\ ~window /\ MoveWindow
CloseWindow == ~NeedsAccount /\ window /\ MoveWindow

\* The bootstrap restart uses the e-mail that prepare recorded.
Promote == install.adminId = Admin /\ ~sysadmin /\ Bootstrap

\* A creation that left nothing behind is done by hand, then adopted.
HandRegister ==
  /\ run.pc = "idle" /\ install.stage = "registering"
  /\ RegisterByHand

HandSpace ==
  /\ run.pc = "idle" /\ install.stage = "space_creating"
  /\ \A t \in Tenants : spaces[t] # "owned"
  /\ \E t \in Tenants : CreateSpaceByHand(t)

HandKey ==
  /\ run.pc = "idle" /\ install.stage = "key_creating"
  /\ \A k \in Keys : ~(keys[k] = "members" /\ keySpace[k] = install.tenant)
  /\ \E k \in Keys : CreateKeyByHand(k, install.tenant, "members")

\* The owner checks the key's id and scope and writes its token to the file.
HandSecret ==
  /\ run.pc = "idle" /\ install.stage = "key_creating"
  /\ \E f \in Files, k \in Keys :
       /\ \A j \in Keys : ~ScopedKeyIn(j, f)
       /\ keys[k] = "members" /\ keySpace[k] = install.tenant
       /\ ReplaceSecret(f, k)

Guide ==
  \/ OpenWindow \/ CloseWindow \/ Promote
  \/ HandRegister \/ HandSpace \/ HandKey \/ HandSecret

ProcessTenantless ==
  \/ ProcessAccount(None)
  \/ \E t \in Tenants : ProcessSpace(t)
  \/ \E k \in Keys : ProcessKey(k)
  \/ \E c \in Creations : Reject(c)

GuidedNext ==
  Installer \/ Abort \/ LoseLock \/ Astray \/ ProcessTenantless \/ Guide

\* A run that was started goes on to its end.
Proceed ==
  \/ PostAccount \/ ReceiveAccount \/ PostSpace \/ ReceiveSpace \/ PutSetting
  \/ AdoptKey \/ MarkKey \/ PostKey \/ ReceiveKey \/ WriteSecret \/ ResumeKey
  \/ TestKey \/ GiveUp

\* The operator repeats the command for the stage, with the id to adopt where
\* the guide asks for one; a wrong command in between does not stop that.
RepeatSpace == \E f \in Files :
  MarkSpace(None, f) \/ \E t \in Tenants : AdoptSpace(t, None, f)
RepeatKey == \E f \in Files :
  \/ install.stage = "space_ready" /\ ResumeWorkspace(None, f)
  \/ \E k \in Keys : ScopedKeyIn(k, f) /\ ResumeWorkspace(k, f)

GuidedFairness ==
  /\ WF_vars(ProcessTenantless)
  /\ WF_vars(Proceed)
  /\ SF_vars(Guide)
  /\ WF_vars(MarkAccount \/ ConfirmAdmin) /\ SF_vars(AdoptAccount)
  /\ SF_vars(RepeatSpace)
  /\ SF_vars(RepeatKey)

GuidedSpec == Init /\ [][GuidedNext]_vars /\ GuidedFairness

\* No crash point, lost answer or rejection leaves the installation in a stage
\* from which the commands of the guide cannot complete it.
EveryInstallCompletes == <>(install.stage = "ready")
===========================================================================
