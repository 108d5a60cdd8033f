------------------------------- MODULE EvdiGem -------------------------------
(***************************************************************************)
(* The persistent kernel mapping of one EVDI GEM object as patched by      *)
(* kernel/evdi/patches/0001-serialize-persistent-vmap.patch.  Callers of   *)
(* evdi_gem_vmap (the GRABPIX ioctl and evdi_cursor_set) hold a reference  *)
(* to the object; whoever drops the last one runs evdi_gem_free_object.    *)
(* The object is either imported (mapped through its dma-buf, whose final  *)
(* release is BUG_ON(vmapping_counter != 0)) or local (pinned pages and    *)
(* vmap).  The dma-buf, page and vmap primitives are external.             *)
(***************************************************************************)
EXTENDS Integers, FiniteSets

CONSTANTS
  Callers,    \* kernel threads
  Free        \* vmap_lock is not held

ASSUME CallersAssumption == Free \notin Callers

VARIABLES
  imported,          \* evdi_drm_gem_object_use_import_attach
  handle,            \* userspace can still reach the object
  holders,           \* the threads that hold a reference
  vmap_lock,         \* its owner
  vmapping,          \* obj->vmapping # NULL
  vmapping_counter,  \* external: the dma-buf's count
  pages_pin_count,   \* evdi_pin_pages / evdi_unpin_pages
  vmaps,             \* external: vmap() areas not yet vunmap()ed
  freed,             \* the object and its dma-buf reference are released
  ret,               \* evdi_gem_vmap's ret = 0, per thread
  pc

object == <<vmapping, vmapping_counter, pages_pin_count, vmaps>>
refsVars == <<handle, holders>>
vars == <<imported, refsVars, vmap_lock, object, freed, ret, pc>>

VmapPC == {"recheck", "dma_buf_vmap", "store", "pin", "vmap", "vmap_unlock"}
VunmapPC == {"vunmap_check", "unmap", "unpin", "vunmap_unlock"}

TypeOK ==
  /\ imported \in BOOLEAN
  /\ handle \in BOOLEAN
  /\ holders \subseteq Callers
  /\ vmap_lock \in Callers \cup {Free}
  /\ vmapping \in BOOLEAN
  /\ vmapping_counter \in Nat
  /\ pages_pin_count \in Nat
  /\ vmaps \in Nat
  /\ freed \in BOOLEAN
  /\ ret \in [Callers -> BOOLEAN]
  /\ pc \in [Callers -> {"idle", "vmap_lock", "use", "put", "vunmap_lock",
                         "release"} \cup VmapPC \cup VunmapPC]

Init ==
  /\ imported \in BOOLEAN
  /\ handle = TRUE
  /\ holders = {}
  /\ vmap_lock = Free
  /\ vmapping = FALSE
  /\ vmapping_counter = 0
  /\ pages_pin_count = 0
  /\ vmaps = 0
  /\ freed = FALSE
  /\ ret = [c \in Callers |-> TRUE]
  /\ pc = [c \in Callers |-> "idle"]

Goto(c, label) == pc' = [pc EXCEPT ![c] = label]

\* Dropping the last reference enters evdi_gem_free_object.
Drop(c, h, S) == Goto(c, IF ~ h /\ S = {} THEN "vunmap_lock" ELSE "idle")

-----------------------------------------------------------------------------
(* External: references to the object.                                     *)

\* A caller gets the object through its handle or framebuffer.
Get(c) ==
  /\ pc[c] = "idle"
  /\ handle
  /\ holders' = holders \cup {c}
  /\ Goto(c, "vmap_lock")
  /\ UNCHANGED <<imported, handle, vmap_lock, object, freed, ret>>

\* DRM_IOCTL_GEM_CLOSE, with the last framebuffer gone.
CloseHandle(c) ==
  /\ pc[c] = "idle"
  /\ handle
  /\ handle' = FALSE
  /\ Drop(c, FALSE, holders)
  /\ UNCHANGED <<imported, holders, vmap_lock, object, freed, ret>>

Put(c) ==
  /\ pc[c] = "put"
  /\ holders' = holders \ {c}
  /\ Drop(c, handle, holders \ {c})
  /\ UNCHANGED <<imported, handle, vmap_lock, object, freed, ret>>

-----------------------------------------------------------------------------
(* evdi_gem_vmap *)

\* Mutant: no mutex_lock, as before the patch.
BugVmapUnlocked(c) ==
  /\ pc[c] = "vmap_lock"
  /\ Goto(c, "recheck")
  /\ UNCHANGED <<imported, refsVars, vmap_lock, object, freed, ret>>

VmapLock(c) ==
  /\ pc[c] = "vmap_lock"
  /\ vmap_lock = Free
  /\ vmap_lock' = c
  /\ Goto(c, "recheck")
  /\ UNCHANGED <<imported, refsVars, object, freed, ret>>

Recheck(c) ==
  /\ pc[c] = "recheck"
  /\ ret' = [ret EXCEPT ![c] = TRUE]
  /\ Goto(c, IF vmapping THEN "vmap_unlock"
             ELSE IF imported THEN "dma_buf_vmap" ELSE "pin")
  /\ UNCHANGED <<imported, refsVars, vmap_lock, object, freed>>

\* An error goes to out_unlock with ret set.
Fail(c) ==
  /\ ret' = [ret EXCEPT ![c] = FALSE]
  /\ Goto(c, "vmap_unlock")

DmaBufVmap(c) ==
  /\ pc[c] = "dma_buf_vmap"
  /\ \/ /\ vmapping_counter' = vmapping_counter + 1
        /\ Goto(c, "store")
        /\ UNCHANGED ret
     \/ Fail(c) /\ UNCHANGED vmapping_counter
  /\ UNCHANGED <<imported, refsVars, vmap_lock, vmapping, pages_pin_count,
                 vmaps, freed>>

\* obj->vmapping = map.vaddr
Store(c) ==
  /\ pc[c] = "store"
  /\ vmapping' = TRUE
  /\ Goto(c, "vmap_unlock")
  /\ UNCHANGED <<imported, refsVars, vmap_lock, vmapping_counter,
                 pages_pin_count, vmaps, freed, ret>>

PinPages(c) ==
  /\ pc[c] = "pin"
  /\ \/ /\ pages_pin_count' = pages_pin_count + 1
        /\ Goto(c, "vmap")
        /\ UNCHANGED ret
     \/ Fail(c) /\ UNCHANGED pages_pin_count
  /\ UNCHANGED <<imported, refsVars, vmap_lock, vmapping, vmapping_counter,
                 vmaps, freed>>

\* Mutant: a failed vmap() keeps the pages pinned, as before the patch.
BugKeepPinned(c) ==
  /\ pc[c] = "vmap"
  /\ \/ /\ vmapping' = TRUE
        /\ vmaps' = vmaps + 1
        /\ Goto(c, "vmap_unlock")
        /\ UNCHANGED ret
     \/ Fail(c) /\ UNCHANGED <<vmapping, vmaps>>
  /\ UNCHANGED <<imported, refsVars, vmap_lock, vmapping_counter,
                 pages_pin_count, freed>>

\* vmap() of the pinned pages; on failure evdi_unpin_pages.
Vmap(c) ==
  /\ pc[c] = "vmap"
  /\ \/ /\ vmapping' = TRUE
        /\ vmaps' = vmaps + 1
        /\ Goto(c, "vmap_unlock")
        /\ UNCHANGED <<pages_pin_count, ret>>
     \/ /\ pages_pin_count' = pages_pin_count - 1
        /\ Fail(c)
        /\ UNCHANGED <<vmapping, vmaps>>
  /\ UNCHANGED <<imported, refsVars, vmap_lock, vmapping_counter, freed>>

\* Mutant: the caller retries a failed mapping.
BugRetryOnError(c) ==
  /\ pc[c] = "vmap_unlock"
  /\ vmap_lock' = Free
  /\ Goto(c, IF ret[c] THEN "use" ELSE "vmap_lock")
  /\ UNCHANGED <<imported, refsVars, object, freed, ret>>

\* Mutant: the caller ignores the error.
BugIgnoreError(c) ==
  /\ pc[c] = "vmap_unlock"
  /\ vmap_lock' = Free
  /\ Goto(c, "use")
  /\ UNCHANGED <<imported, refsVars, object, freed, ret>>

\* out_unlock: the caller goes on with the mapping, or to its error path.
VmapUnlock(c) ==
  /\ pc[c] = "vmap_unlock"
  /\ vmap_lock' = Free
  /\ Goto(c, IF ret[c] THEN "use" ELSE "put")
  /\ UNCHANGED <<imported, refsVars, object, freed, ret>>

\* The caller copies pixels through obj->vmapping, without the mutex.
Use(c) ==
  /\ pc[c] = "use"
  /\ Goto(c, "put")
  /\ UNCHANGED <<imported, refsVars, vmap_lock, object, freed, ret>>

-----------------------------------------------------------------------------
(* evdi_gem_free_object *)

VunmapLock(c) ==
  /\ pc[c] = "vunmap_lock"
  /\ vmap_lock = Free
  /\ vmap_lock' = c
  /\ Goto(c, "vunmap_check")
  /\ UNCHANGED <<imported, refsVars, object, freed, ret>>

VunmapCheck(c) ==
  /\ pc[c] = "vunmap_check"
  /\ Goto(c, IF vmapping THEN "unmap" ELSE "vunmap_unlock")
  /\ UNCHANGED <<imported, refsVars, vmap_lock, object, freed, ret>>

\* dma_buf_vunmap, or vunmap with the pages still to unpin.
Unmap(c) ==
  /\ pc[c] = "unmap"
  /\ vmapping' = FALSE
  /\ \/ /\ imported
        /\ vmapping_counter' = vmapping_counter - 1
        /\ Goto(c, "vunmap_unlock")
        /\ UNCHANGED vmaps
     \/ /\ ~ imported
        /\ vmaps' = vmaps - 1
        /\ Goto(c, "unpin")
        /\ UNCHANGED vmapping_counter
  /\ UNCHANGED <<imported, refsVars, vmap_lock, pages_pin_count, freed, ret>>

UnpinPages(c) ==
  /\ pc[c] = "unpin"
  /\ pages_pin_count' = pages_pin_count - 1
  /\ Goto(c, "vunmap_unlock")
  /\ UNCHANGED <<imported, refsVars, vmap_lock, vmapping, vmapping_counter,
                 vmaps, freed, ret>>

VunmapUnlock(c) ==
  /\ pc[c] = "vunmap_unlock"
  /\ vmap_lock' = Free
  /\ Goto(c, "release")
  /\ UNCHANGED <<imported, refsVars, object, freed, ret>>

\* drm_prime_gem_destroy, mutex_destroy, kfree; the dma-buf's last close.
Release(c) ==
  /\ pc[c] = "release"
  /\ freed' = TRUE
  /\ Goto(c, "idle")
  /\ UNCHANGED <<imported, refsVars, vmap_lock, object, ret>>

-----------------------------------------------------------------------------
evdi_gem_vmap(c) ==
  \/ VmapLock(c) \/ Recheck(c) \/ DmaBufVmap(c) \/ Store(c)
  \/ PinPages(c) \/ Vmap(c) \/ VmapUnlock(c)

evdi_gem_vunmap(c) ==
  \/ VunmapLock(c) \/ VunmapCheck(c) \/ Unmap(c) \/ UnpinPages(c)
  \/ VunmapUnlock(c)

Thread(c) == evdi_gem_vmap(c) \/ Use(c) \/ Put(c) \/ evdi_gem_vunmap(c) \/ Release(c)

Released == freed /\ UNCHANGED vars

Next ==
  \/ \E c \in Callers : Get(c) \/ CloseHandle(c) \/ Thread(c)
  \/ Released

Spec == Init /\ [][Next]_vars

\* A thread inside the driver keeps running; nobody has to open or close.
FairSpec == Spec /\ \A c \in Callers : WF_vars(Thread(c))

-----------------------------------------------------------------------------
(* Properties *)

\* evdi_gem_vmap's comment: concurrent callers share one mapping, so the
\* one vunmap of the teardown suffices.
OneSharedMapping == vmapping_counter + vmaps <= 1 /\ pages_pin_count <= 1

\* A caller that evdi_gem_vmap told it succeeded finds the mapping in place
\* for as long as it uses it, although it no longer holds the mutex.
UseIsMapped ==
  \A c \in Callers : pc[c] = "use" =>
    /\ vmapping
    /\ vmapping_counter + vmaps = 1
    /\ ~ freed

\* When the object is released nothing is left mapped or pinned: the
\* dma-buf's BUG_ON(vmapping_counter != 0) cannot fire, whatever failed.
ReleaseBalanced ==
  (freed \/ \E c \in Callers : pc[c] = "release") =>
    vmapping_counter = 0 /\ vmaps = 0 /\ pages_pin_count = 0

\* Every path through evdi_gem_vmap and evdi_gem_vunmap unlocks and ends:
\* once userspace has closed the object it is released.
ClosedIsReleased == ~ handle ~> freed
=============================================================================
