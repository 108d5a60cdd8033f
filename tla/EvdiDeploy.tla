------------------------------ MODULE EvdiDeploy ------------------------------
(***************************************************************************)
(* install-patched-evdi.sh and rollback-patched-evdi.sh: how the patched   *)
(* EVDI module replaces the vendor's for one kernel, and how the vendor's  *)
(* comes back for all of them.  Every command may fail and the operator    *)
(* may interrupt or lose power between two: the script stops there (`set   *)
(* -e') and either script may be run next.  Modules are told apart by      *)
(* version; DKMS, the initramfs tools and the file system are external.    *)
(***************************************************************************)
EXTENDS FiniteSets

CONSTANTS
  Kernels,     \* kernel releases
  Installed,   \* those installed at first; the others may come later
  Embeds,      \* those whose initramfs holds a copy of EVDI
  Concurrent   \* kernel packages may be installed while a script runs

ASSUME DeployAssumption ==
  Installed \subseteq Kernels /\ Embeds \subseteq Kernels /\ Concurrent \in BOOLEAN

Patched == {"patched", "legacy"}   \* PATCHED_VERSION, LEGACY_PATCHED_VERSION
Versions == Patched \union {"original"}

VARIABLES
  patched_dir,  \* /usr/src/evdi-1.14.16.smiusb2
  registered,   \* versions known to DKMS
  artifact,     \* artifact[v][k]: DKMS' build of version v for kernel k
  selected,     \* selected[k]: the version modinfo -k finds on disk
  initrd,       \* initrd[k]: the version inside the initramfs, or "none"
  kernel,       \* KERNEL_RELEASE
  targets,      \* PATCHED_KERNELS
  todo,         \* the kernels the current loop has left
  pc

disk == <<patched_dir, registered, artifact, selected, initrd>>
locals == <<kernel, targets, todo>>
vars == <<disk, locals, pc>>

InstallSteps ==
  {"stage", "copy", "secure", "validate", "add", "build", "identify",
   "select", "refresh", "verify"}

RollbackSteps ==
  {"r_add", "r_build", "r_preflight", "r_select", "r_refresh", "r_remove", "r_final"}

TypeOK ==
  /\ patched_dir \in {"absent", "partial", "unsafe", "ready"}
  /\ registered \subseteq Versions
  /\ artifact \in [Versions -> [Kernels -> {"none", "good", "bad"}]]
  /\ selected \in [Kernels -> Versions \union {"none", "absent"}]
  /\ initrd \in [Kernels -> Versions \union {"none"}]
  /\ kernel \in Kernels \union {"none"}
  /\ targets \subseteq Kernels /\ todo \subseteq targets
  /\ pc \in InstallSteps \union RollbackSteps \union {"idle", "patched", "restored"}

Embedded(k, v) == IF k \in Embeds THEN v ELSE "none"

\* The vendor's module, or the earlier patched one, is in use.
Init ==
  \E v \in {"original", "legacy"} :
    /\ patched_dir = "absent"
    /\ registered = {"original", v}
    /\ artifact = [w \in Versions |-> [k \in Kernels |->
                     IF k \in Installed /\ w \in {"original", v} THEN "good" ELSE "none"]]
    /\ selected = [k \in Kernels |-> IF k \in Installed THEN v ELSE "absent"]
    /\ initrd = [k \in Kernels |-> IF k \in Installed THEN Embedded(k, v) ELSE "none"]
    /\ kernel = "none"
    /\ targets = {} /\ todo = {}
    /\ pc = "idle"

AtRest == pc \in {"idle", "patched", "restored"}

Goto(from, to) == pc = from /\ pc' = to

\* The script's process is gone, and its variables with it.
NoLocals == kernel' = "none" /\ targets' = {} /\ todo' = {}

\* External: update-initramfs -u
UpdateInitramfs(k) == initrd' = [initrd EXCEPT ![k] = Embedded(k, selected[k])]

\* verify_initramfs_evdi: no copy, or the expected one.
verify_initramfs_evdi(k, v) == initrd[k] \in {"none", v}

\* External: dkms build --force leaves a module, which may not be the expected
\* one (wrong vermagic, no srcversion); a failed build leaves the previous one.
DkmsBuild(v, k) ==
  \E quality \in {"good", "bad"} : artifact' = [artifact EXCEPT ![v][k] = quality]

\* External: dkms install --force puts the built module where depmod finds it.
DkmsInstall(v, k) == selected' = [selected EXCEPT ![k] = v]

\* External: dkms remove --all unregisters a version, deletes its builds, and
\* uninstalls it from every kernel where it is the one in use.
DkmsRemove(v) ==
  /\ registered' = registered \ {v}
  /\ artifact' = [artifact EXCEPT ![v] = [k \in Kernels |-> "none"]]
  /\ selected' = [k \in Kernels |-> IF selected[k] = v THEN "none" ELSE selected[k]]

\* The script ends early: a command failed, a check refused, or a signal or a
\* power loss came.  What was done stays.
Stop ==
  /\ ~ AtRest
  /\ pc' = "idle"
  /\ NoLocals
  /\ UNCHANGED disk

\* External: a kernel package is installed; DKMS installs the newest
\* registered version for it (AUTOINSTALL=yes).
AutoInstall(k) ==
  /\ Concurrent \/ AtRest
  /\ selected[k] = "absent"
  /\ LET v == IF "patched" \in registered THEN "patched"
              ELSE IF "legacy" \in registered THEN "legacy" ELSE "original"
     IN  /\ artifact' = [artifact EXCEPT ![v][k] = "good"]
         /\ selected' = [selected EXCEPT ![k] = v]
         /\ initrd' = [initrd EXCEPT ![k] = Embedded(k, v)]
  /\ UNCHANGED <<patched_dir, registered, locals>>
  /\ pc' = IF AtRest THEN "idle" ELSE pc

-----------------------------------------------------------------------------
(* install-patched-evdi.sh *)

StartInstall(k) ==
  /\ AtRest
  /\ selected[k] # "absent"
  /\ kernel' = k
  /\ pc' = IF patched_dir = "absent" THEN "stage" ELSE "validate"
  /\ UNCHANGED <<disk, targets, todo>>

\* The staged tree is validated and built under /tmp, then copied.
CopySource ==
  /\ Goto("stage", "copy")
  /\ patched_dir' = "partial"
  /\ UNCHANGED <<registered, artifact, selected, initrd, locals>>

CopyDone ==
  /\ Goto("copy", "secure")
  /\ patched_dir' = "unsafe"
  /\ UNCHANGED <<registered, artifact, selected, initrd, locals>>

\* chown and chmod
Secure ==
  /\ Goto("secure", "validate")
  /\ patched_dir' = "ready"
  /\ UNCHANGED <<registered, artifact, selected, initrd, locals>>

\* Mutant: only the permissions of an existing tree are looked at.
BugNoManifest ==
  /\ Goto("validate", "add")
  /\ patched_dir # "unsafe"
  /\ UNCHANGED <<disk, locals>>

\* Ownership, permissions and the complete manifest.  Then the module in use
\* is copied to the backup directory, which no script reads.
ValidateSource ==
  /\ Goto("validate", "add")
  /\ patched_dir = "ready"
  /\ UNCHANGED <<disk, locals>>

AddPatched ==
  /\ Goto("add", "build")
  /\ registered' = registered \union {"patched"}
  /\ UNCHANGED <<patched_dir, artifact, selected, initrd, locals>>

BuildPatched ==
  /\ Goto("build", "identify")
  /\ DkmsBuild("patched", kernel)
  /\ UNCHANGED <<patched_dir, registered, selected, initrd, locals>>

IdentifyPatched ==
  /\ Goto("identify", "select")
  /\ artifact["patched"][kernel] = "good"
  /\ UNCHANGED <<disk, locals>>

\* dkms install, and the comparison of what is on disk with what was built.
SelectPatched ==
  /\ Goto("select", "refresh")
  /\ DkmsInstall("patched", kernel)
  /\ UNCHANGED <<patched_dir, registered, artifact, initrd, locals>>

RefreshPatched ==
  /\ Goto("refresh", "verify")
  /\ UpdateInitramfs(kernel)
  /\ UNCHANGED <<patched_dir, registered, artifact, selected, locals>>

VerifyPatched ==
  /\ Goto("verify", "patched")
  /\ verify_initramfs_evdi(kernel, "patched")
  /\ NoLocals
  /\ UNCHANGED disk

-----------------------------------------------------------------------------
(* rollback-patched-evdi.sh *)

\* Mutant: only the kernels that run a patched module.
BugInstalledOnly == {k \in Kernels : selected[k] \in Patched}

\* Mutant: the earlier patched version is forgotten.
BugForgetLegacy == {k \in Kernels : artifact["patched"][k] # "none"}

\* The kernels dkms status calls built or installed for a patched version.
PATCHED_KERNELS == {k \in Kernels : \E v \in Patched : artifact[v][k] # "none"}

\* The original source is validated first: nothing here writes it.
StartRollback ==
  /\ AtRest
  /\ targets' = PATCHED_KERNELS
  /\ todo' = {}
  /\ pc' = IF PATCHED_KERNELS = {} THEN "r_remove" ELSE "r_add"
  /\ UNCHANGED <<disk, kernel>>

AddOriginal ==
  /\ Goto("r_add", "r_build")
  /\ registered' = registered \union {"original"}
  /\ todo' = targets
  /\ UNCHANGED <<patched_dir, artifact, selected, initrd, kernel, targets>>

BuildOriginal(k) ==
  /\ pc = "r_build" /\ k \in todo
  /\ DkmsBuild("original", k)
  /\ todo' = todo \ {k}
  /\ pc' = IF todo' = {} THEN "r_preflight" ELSE "r_build"
  /\ UNCHANGED <<patched_dir, registered, selected, initrd, kernel, targets>>

Preflight ==
  /\ Goto("r_preflight", "r_select")
  /\ \A k \in targets : artifact["original"][k] = "good"
  /\ todo' = targets
  /\ UNCHANGED <<disk, kernel, targets>>

\* dkms install for the next kernel, and the comparison with what was built.
SelectOriginal(k) ==
  /\ Goto("r_select", "r_refresh") /\ k \in todo
  /\ kernel' = k
  /\ DkmsInstall("original", k)
  /\ UNCHANGED <<patched_dir, registered, artifact, initrd, targets, todo>>

\* update-initramfs and verify_initramfs_evdi, the end of the loop's body.
RefreshOriginal ==
  /\ pc = "r_refresh"
  /\ UpdateInitramfs(kernel)
  /\ initrd'[kernel] \in {"none", "original"}
  /\ todo' = todo \ {kernel}
  /\ pc' = IF todo' = {} THEN "r_remove" ELSE "r_select"
  /\ UNCHANGED <<patched_dir, registered, artifact, selected, kernel, targets>>

\* One dkms remove, in the loop's order.
RemovePatched(v) ==
  /\ pc = "r_remove"
  /\ v \in registered \intersect Patched
  /\ v = "legacy" => "patched" \notin registered
  /\ DkmsRemove(v)
  /\ UNCHANGED <<patched_dir, initrd, locals, pc>>

RemoveDone ==
  /\ pc = "r_remove" /\ registered \intersect Patched = {}
  /\ pc' = IF targets = {} THEN "restored" ELSE "r_final"
  /\ UNCHANGED <<disk, locals>>

\* The last loop verifies again what every kernel has.
VerifyOriginal ==
  /\ Goto("r_final", "restored")
  /\ \A k \in targets :
       /\ selected[k] = "original" /\ artifact["original"][k] # "none"
       /\ verify_initramfs_evdi(k, "original")
  /\ NoLocals
  /\ UNCHANGED disk

Next ==
  \/ Stop
  \/ \E k \in Kernels : AutoInstall(k) \/ StartInstall(k)
  \/ CopySource \/ CopyDone \/ Secure \/ ValidateSource \/ AddPatched \/ BuildPatched
  \/ IdentifyPatched \/ SelectPatched \/ RefreshPatched \/ VerifyPatched
  \/ StartRollback \/ AddOriginal \/ Preflight \/ RefreshOriginal \/ RemoveDone
  \/ VerifyOriginal
  \/ \E k \in Kernels : BuildOriginal(k) \/ SelectOriginal(k)
  \/ \E v \in Versions : RemovePatched(v)

Spec == Init /\ [][Next]_vars

-----------------------------------------------------------------------------
(* Properties *)

\* "Every intermediate kernel remains bootable": wherever either script stops
\* and whichever is run next, no kernel is left without an EVDI module; the
\* patched one is only deleted where the original has taken its place.
EveryKernelHasModule == \A k \in Kernels : selected[k] # "none"

\* When the rollback reports success, also after runs that were interrupted,
\* no kernel has a patched module on disk or in its initramfs.
RestoredEverywhere ==
  pc = "restored" =>
    \A k \in Kernels : selected[k] \notin Patched /\ initrd[k] \notin Patched

\* A module is put in use only once it passed its checks, and the patched one
\* only if it was built from a complete and secured tree, which a copy that
\* was interrupted never becomes.
OnlyVerifiedModules ==
  [][\A k \in Kernels : selected[k] \notin {"absent", selected'[k]} /\ selected'[k] # "none" =>
       /\ artifact[selected'[k]][k] = "good"
       /\ selected'[k] = "patched" => patched_dir = "ready"]_vars
=============================================================================
