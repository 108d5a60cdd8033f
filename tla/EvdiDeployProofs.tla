--------------------------- MODULE EvdiDeployProofs ---------------------------
(***************************************************************************)
(* What the install and rollback scripts guarantee for any set of kernels, *)
(* wherever a script stops and whichever is run next.                      *)
(***************************************************************************)
EXTENDS EvdiDeploy, TLAPS

\* What the install script has established when it arrives at a step.
Installing ==
  /\ pc \in InstallSteps => kernel \in Kernels /\ selected[kernel] # "absent"
  /\ pc \in {"add", "build", "identify", "select"} => patched_dir = "ready"
  /\ pc \in {"build", "identify", "select"} => "patched" \in registered
  /\ pc = "select" => artifact["patched"][kernel] = "good"

\* The rollback selects builds of the original module that passed the preflight.
Preflighted ==
  pc \in {"r_select", "r_refresh"} =>
    \A k \in targets : artifact["original"][k] = "good"

Control == TypeOK /\ Installing /\ Preflighted

\* A patched module in use, on disk or in an initramfs, is one DKMS still has
\* a build of, and DKMS knows every version it has a build of: the kernels
\* that PATCHED_KERNELS finds are all that need a rollback.
Deployed ==
  \A k \in Kernels, v \in Patched :
    /\ selected[k] = v \/ initrd[k] = v => artifact[v][k] # "none"
    /\ artifact[v][k] # "none" => v \in registered

Cleared(k) == selected[k] \notin Patched /\ initrd[k] \notin Patched

\* What the rollback has established: the kernels outside its list are clear
\* of patched modules, those it is done with are too, and all of them are once
\* it starts to remove versions.
RollingBack ==
  /\ pc \in RollbackSteps => \A k \in Kernels \ targets : Cleared(k)
  /\ pc \in {"r_select", "r_refresh"} => \A k \in targets \ todo : Cleared(k)
  /\ pc = "r_refresh" => kernel \in todo /\ selected[kernel] = "original"
  /\ pc \in {"r_remove", "r_final", "restored"} => \A k \in Kernels : Cleared(k)
  /\ \A k \in Kernels : selected[k] # "none"

Alone == Deployed /\ RollingBack

-----------------------------------------------------------------------------
USE DEF InstallSteps, RollbackSteps, Patched, Versions

LEMMA InitControl == Init => Control
BY DeployAssumption DEF Init, Control, TypeOK, Installing, Preflighted, Embedded

LEMMA TypeStep ==
  ASSUME Control, Next
  PROVE  TypeOK'
<1> USE DEF Control, TypeOK, disk, locals, NoLocals, Goto, AtRest
<1>1. CASE Stop  BY <1>1 DEF Stop
<1>2. ASSUME NEW k \in Kernels, AutoInstall(k)  PROVE TypeOK'
  BY <1>2 DEF AutoInstall, Embedded
<1>3. ASSUME NEW k \in Kernels, StartInstall(k)  PROVE TypeOK'
  BY <1>3 DEF StartInstall
<1>4. CASE CopySource \/ CopyDone \/ Secure \/ ValidateSource \/ AddPatched
  BY <1>4 DEF CopySource, CopyDone, Secure, ValidateSource, AddPatched
<1>5. CASE BuildPatched  BY <1>5 DEF BuildPatched, DkmsBuild, Installing
<1>6. CASE IdentifyPatched \/ SelectPatched
  BY <1>6 DEF IdentifyPatched, SelectPatched, DkmsInstall, Installing
<1>7. CASE RefreshPatched
  BY <1>7 DEF RefreshPatched, UpdateInitramfs, Embedded, Installing
<1>8. CASE VerifyPatched  BY <1>8 DEF VerifyPatched
<1>9. CASE StartRollback \/ AddOriginal \/ Preflight
  BY <1>9 DEF StartRollback, AddOriginal, Preflight, PATCHED_KERNELS
<1>10. CASE RefreshOriginal
  BY <1>10 DEF RefreshOriginal, UpdateInitramfs, Embedded
<1>11. CASE RemoveDone \/ VerifyOriginal  BY <1>11 DEF RemoveDone, VerifyOriginal
<1>12. ASSUME NEW k \in Kernels, BuildOriginal(k)  PROVE TypeOK'
  BY <1>12 DEF BuildOriginal, DkmsBuild
<1>13. ASSUME NEW k \in Kernels, SelectOriginal(k)  PROVE TypeOK'
  BY <1>13 DEF SelectOriginal, DkmsInstall
<1>14. ASSUME NEW v \in Versions, RemovePatched(v)  PROVE TypeOK'
  BY <1>14 DEF RemovePatched, DkmsRemove
<1> QED
  BY <1>1, <1>2, <1>3, <1>4, <1>5, <1>6, <1>7, <1>8, <1>9, <1>10, <1>11, <1>12,
     <1>13, <1>14 DEF Next
LEMMA ControlStep ==
  ASSUME Control, Next
  PROVE  Control'
<1> USE DEF Control, TypeOK, disk, locals, NoLocals, Goto, AtRest
<1>1. CASE Stop  BY <1>1, TypeStep DEF Stop, Installing, Preflighted
<1>2. ASSUME NEW k \in Kernels, AutoInstall(k)  PROVE Control'
  BY <1>2, TypeStep DEF AutoInstall, Installing, Preflighted
<1>3. ASSUME NEW k \in Kernels, StartInstall(k)  PROVE Control'
  BY <1>3, TypeStep DEF StartInstall, Installing, Preflighted
<1>4. CASE CopySource \/ CopyDone \/ Secure \/ ValidateSource \/ AddPatched
  BY <1>4, TypeStep DEF CopySource, CopyDone, Secure, ValidateSource, AddPatched,
     Installing, Preflighted
<1>5. CASE BuildPatched
  BY <1>5, TypeStep DEF BuildPatched, DkmsBuild, Installing, Preflighted
<1>6. CASE IdentifyPatched
  BY <1>6, TypeStep DEF IdentifyPatched, Installing, Preflighted
<1>7. CASE SelectPatched
  BY <1>7, TypeStep DEF SelectPatched, DkmsInstall, Installing, Preflighted
<1>8. CASE RefreshPatched \/ VerifyPatched
  BY <1>8, TypeStep DEF RefreshPatched, VerifyPatched, Installing, Preflighted
<1>9. CASE StartRollback \/ AddOriginal \/ Preflight
  BY <1>9, TypeStep DEF StartRollback, AddOriginal, Preflight, Installing, Preflighted
<1>10. CASE RefreshOriginal \/ RemoveDone \/ VerifyOriginal
  BY <1>10, TypeStep DEF RefreshOriginal, RemoveDone, VerifyOriginal, Installing,
     Preflighted
<1>11. ASSUME NEW k \in Kernels, BuildOriginal(k)  PROVE Control'
  BY <1>11, TypeStep DEF BuildOriginal, Installing, Preflighted
<1>12. ASSUME NEW k \in Kernels, SelectOriginal(k)  PROVE Control'
  BY <1>12, TypeStep DEF SelectOriginal, Installing, Preflighted
<1>13. ASSUME NEW v \in Versions, RemovePatched(v)  PROVE Control'
  BY <1>13, TypeStep DEF RemovePatched, Installing, Preflighted
<1> QED
  BY <1>1, <1>2, <1>3, <1>4, <1>5, <1>6, <1>7, <1>8, <1>9, <1>10, <1>11, <1>12,
     <1>13 DEF Next

LEMMA ControlInvariance == Spec => []Control
<1>1. Control /\ UNCHANGED vars => Control'
  BY DEF Control, TypeOK, Installing, Preflighted, vars, disk, locals
<1> QED  BY <1>1, InitControl, ControlStep, PTL DEF Spec

\* A module is put in use only once it passed its checks, and a patched one
\* only from a complete and secured tree: wherever a copy or a script was
\* stopped before, and although kernel packages may come at any time.
THEOREM Verified == Spec => OnlyVerifiedModules
<1> DEFINE Sound(k) ==
      selected[k] \notin {"absent", selected'[k]} /\ selected'[k] # "none" =>
        /\ artifact[selected'[k]][k] = "good"
        /\ selected'[k] = "patched" => patched_dir = "ready"
<1>1. ASSUME Control, [Next]_vars, NEW k \in Kernels  PROVE Sound(k)
  <2> USE DEF Control, TypeOK, disk, locals, Goto
  <2>1. CASE SelectPatched
    BY <1>1, <2>1 DEF SelectPatched, DkmsInstall, Installing
  <2>2. ASSUME NEW j \in Kernels, SelectOriginal(j)  PROVE Sound(k)
    BY <1>1, <2>2 DEF SelectOriginal, DkmsInstall, Preflighted
  <2>3. ASSUME NEW j \in Kernels, AutoInstall(j)  PROVE Sound(k)
    BY <1>1, <2>3 DEF AutoInstall
  <2>4. ASSUME NEW v \in Versions, RemovePatched(v)  PROVE Sound(k)
    BY <1>1, <2>4 DEF RemovePatched, DkmsRemove
  <2>5. CASE UNCHANGED selected  BY <2>5
  <2>6. ASSUME NEW j \in Kernels, StartInstall(j) \/ BuildOriginal(j)
        PROVE  UNCHANGED selected
    BY <2>6 DEF StartInstall, BuildOriginal
  <2>7. CASE Stop \/ CopySource \/ CopyDone \/ Secure \/ ValidateSource
             \/ AddPatched \/ BuildPatched \/ IdentifyPatched \/ RefreshPatched
             \/ VerifyPatched
    BY <2>5, <2>7 DEF Stop, CopySource, CopyDone, Secure, ValidateSource, AddPatched,
       BuildPatched, IdentifyPatched, RefreshPatched, VerifyPatched
  <2>8. CASE StartRollback \/ AddOriginal \/ Preflight \/ RefreshOriginal
             \/ RemoveDone \/ VerifyOriginal \/ UNCHANGED vars
    BY <2>5, <2>8 DEF StartRollback, AddOriginal, Preflight, RefreshOriginal,
       RemoveDone, VerifyOriginal, vars
  <2> QED
    BY <1>1, <2>1, <2>2, <2>3, <2>4, <2>5, <2>6, <2>7, <2>8 DEF Next
<1> DEFINE Step == \A k \in Kernels : Sound(k)
<1>2. Control /\ [Next]_vars => [Step]_vars  BY <1>1
<1> QED  BY <1>2, ControlInvariance, PTL DEF Spec, OnlyVerifiedModules

-----------------------------------------------------------------------------
(* No kernel package is installed while a script runs. *)

LEMMA DeployedStep ==
  ASSUME ~ Concurrent, Control, Alone, Next
  PROVE  Deployed'
<1> USE DEF Control, Alone, TypeOK, disk, locals, Goto
<1>1. CASE UNCHANGED <<registered, artifact, selected, initrd>>
  BY <1>1 DEF Deployed
<1>2. CASE Stop \/ CopySource \/ CopyDone \/ Secure \/ ValidateSource
           \/ IdentifyPatched \/ VerifyPatched \/ StartRollback \/ Preflight
           \/ RemoveDone \/ VerifyOriginal
  BY <1>1, <1>2 DEF Stop, CopySource, CopyDone, Secure, ValidateSource,
     IdentifyPatched, VerifyPatched, StartRollback, Preflight, RemoveDone,
     VerifyOriginal
<1>3. ASSUME NEW k \in Kernels, AutoInstall(k)  PROVE Deployed'
  BY <1>3 DEF AutoInstall, Deployed, Embedded
<1>4. ASSUME NEW k \in Kernels, StartInstall(k)  PROVE Deployed'
  BY <1>1, <1>4 DEF StartInstall
<1>5. CASE AddPatched \/ AddOriginal  BY <1>5 DEF AddPatched, AddOriginal, Deployed
<1>6. CASE BuildPatched
  BY <1>6 DEF BuildPatched, DkmsBuild, Deployed, Installing
<1>7. CASE SelectPatched
  BY <1>7 DEF SelectPatched, DkmsInstall, Deployed, Installing
<1>8. CASE RefreshPatched \/ RefreshOriginal
  BY <1>8 DEF RefreshPatched, RefreshOriginal, UpdateInitramfs, Embedded, Deployed
<1>9. ASSUME NEW k \in Kernels, BuildOriginal(k)  PROVE Deployed'
  BY <1>9 DEF BuildOriginal, DkmsBuild, Deployed
<1>10. ASSUME NEW k \in Kernels, SelectOriginal(k)  PROVE Deployed'
  BY <1>10 DEF SelectOriginal, DkmsInstall, Deployed
<1>11. ASSUME NEW v \in Versions, RemovePatched(v)  PROVE Deployed'
  BY <1>11 DEF RemovePatched, DkmsRemove, Deployed, RollingBack, Cleared
<1> QED
  BY <1>2, <1>3, <1>4, <1>5, <1>6, <1>7, <1>8, <1>9, <1>10, <1>11 DEF Next

LEMMA RollingBackStep ==
  ASSUME ~ Concurrent, Control, Alone, Next
  PROVE  RollingBack'
<1> USE DEF Control, Alone, TypeOK, disk, locals, NoLocals, Goto, AtRest, Cleared
<1>1. CASE Stop  BY <1>1 DEF Stop, RollingBack
<1>2. ASSUME NEW k \in Kernels, AutoInstall(k)  PROVE RollingBack'
  BY <1>2 DEF AutoInstall, RollingBack
<1>3. ASSUME NEW k \in Kernels, StartInstall(k)  PROVE RollingBack'
  BY <1>3 DEF StartInstall, RollingBack
<1>4. CASE CopySource \/ CopyDone \/ Secure \/ ValidateSource \/ AddPatched
           \/ BuildPatched \/ IdentifyPatched \/ RefreshPatched \/ VerifyPatched
  BY <1>4 DEF CopySource, CopyDone, Secure, ValidateSource, AddPatched,
     BuildPatched, IdentifyPatched, RefreshPatched, VerifyPatched, RollingBack
<1>5. CASE SelectPatched
  BY <1>5 DEF SelectPatched, DkmsInstall, RollingBack
<1>6. CASE StartRollback
  BY <1>6 DEF StartRollback, PATCHED_KERNELS, Deployed, RollingBack
<1>7. CASE AddOriginal \/ Preflight
  BY <1>7 DEF AddOriginal, Preflight, RollingBack
<1>8. ASSUME NEW k \in Kernels, BuildOriginal(k)  PROVE RollingBack'
  BY <1>8 DEF BuildOriginal, RollingBack
<1>9. ASSUME NEW k \in Kernels, SelectOriginal(k)  PROVE RollingBack'
  BY <1>9 DEF SelectOriginal, DkmsInstall, RollingBack
<1>10. CASE RefreshOriginal
  BY <1>10 DEF RefreshOriginal, UpdateInitramfs, Embedded, RollingBack
<1>11. ASSUME NEW v \in Versions, RemovePatched(v)  PROVE RollingBack'
  BY <1>11 DEF RemovePatched, DkmsRemove, RollingBack
<1>12. CASE RemoveDone \/ VerifyOriginal
  BY <1>12 DEF RemoveDone, VerifyOriginal, RollingBack
<1> QED
  BY <1>1, <1>2, <1>3, <1>4, <1>5, <1>6, <1>7, <1>8, <1>9, <1>10, <1>11, <1>12
  DEF Next

LEMMA AloneInvariance ==
  ASSUME ~ Concurrent
  PROVE  Spec => []Alone
<1>1. Init => Alone
  BY DeployAssumption DEF Init, Alone, Deployed, RollingBack, Cleared, Embedded
<1>2. Control /\ Alone /\ [Next]_vars => Alone'
  <2>1. Alone /\ UNCHANGED vars => Alone'
    BY DEF Alone, Deployed, RollingBack, Cleared, vars, disk, locals
  <2> QED  BY <2>1, DeployedStep, RollingBackStep DEF Alone
<1> QED  BY <1>1, <1>2, ControlInvariance, PTL DEF Spec

\* Wherever either script stops and whichever is run next, no kernel is left
\* without an EVDI module, as long as no kernel package is installed while a
\* script runs.
THEOREM ModuleEverywhere ==
  ASSUME ~ Concurrent
  PROVE  Spec => []EveryKernelHasModule
<1>1. Alone => EveryKernelHasModule
  BY DEF Alone, RollingBack, EveryKernelHasModule
<1> QED  BY <1>1, AloneInvariance, PTL

\* A rollback that reports success has restored every kernel, on disk and in
\* its initramfs, also after runs that were interrupted, as long as no kernel
\* package is installed while a script runs.
THEOREM Restored ==
  ASSUME ~ Concurrent
  PROVE  Spec => []RestoredEverywhere
<1>1. Alone => RestoredEverywhere
  BY DEF Alone, RollingBack, RestoredEverywhere, Cleared
<1> QED  BY <1>1, AloneInvariance, PTL
=============================================================================
