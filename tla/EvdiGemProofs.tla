---------------------------- MODULE EvdiGemProofs ----------------------------
(***************************************************************************)
(* Proofs about EvdiGem for any number of callers.                         *)
(***************************************************************************)
EXTENDS EvdiGem, TLAPS

\* vmap_lock is a mutex: it is held by exactly the thread that is between
\* its lock and its unlock.
MutexInv ==
  \A c \in Callers : (vmap_lock = c) <=> (pc[c] \in VmapPC \cup VunmapPC)

\* Who may touch the object: callers of evdi_gem_vmap hold a reference, the
\* teardown starts when nobody does, and is run by one thread.
Tearing(c) == pc[c] \in {"vunmap_lock", "release"} \cup VunmapPC

ReferenceInv ==
  /\ \A c \in Callers :
       pc[c] \in {"vmap_lock", "use", "put"} \cup VmapPC => c \in holders
  /\ ((\E c \in Callers : Tearing(c)) \/ freed) => holders = {} /\ ~ handle
  /\ \A c, d \in Callers : Tearing(c) /\ Tearing(d) => c = d
  /\ freed => \A c \in Callers : ~ Tearing(c)

\* What the counters are, given the mapping and the step of the lock owner.
Balanced ==
  /\ vmapping_counter = IF vmapping /\ imported THEN 1 ELSE 0
  /\ vmaps = IF vmapping /\ ~ imported THEN 1 ELSE 0
  /\ pages_pin_count = IF vmapping /\ ~ imported THEN 1 ELSE 0

OwnerInv ==
  \A c \in Callers :
    /\ pc[c] = "dma_buf_vmap" => Balanced /\ ~ vmapping /\ imported
    /\ pc[c] = "store" =>
         /\ ~ vmapping /\ imported
         /\ vmapping_counter = 1 /\ vmaps = 0 /\ pages_pin_count = 0
    /\ pc[c] = "pin" => Balanced /\ ~ vmapping /\ ~ imported
    /\ pc[c] = "vmap" =>
         /\ ~ vmapping /\ ~ imported
         /\ vmapping_counter = 0 /\ vmaps = 0 /\ pages_pin_count = 1
    /\ pc[c] = "vmap_unlock" => Balanced /\ (ret[c] => vmapping)
    /\ pc[c] \in {"recheck", "vunmap_check"} => Balanced
    /\ pc[c] = "use" => vmapping /\ Balanced
    /\ pc[c] = "unmap" => Balanced /\ vmapping
    /\ pc[c] = "unpin" =>
         /\ ~ vmapping /\ ~ imported
         /\ vmapping_counter = 0 /\ vmaps = 0 /\ pages_pin_count = 1
    /\ pc[c] \in {"vunmap_unlock", "release"} => Balanced /\ ~ vmapping

IInv ==
  /\ TypeOK
  /\ MutexInv
  /\ ReferenceInv
  /\ vmap_lock = Free => Balanced
  /\ OwnerInv
  /\ freed => Balanced /\ ~ vmapping

-----------------------------------------------------------------------------
\* A freshly allocated object has one reference and neither mapping nor pin.
LEMMA InitIInv == Init => IInv
<1> SUFFICES ASSUME Init PROVE IInv
  OBVIOUS
<1> USE DEF Init, VmapPC, VunmapPC
<1>1. TypeOK
  BY DEF TypeOK
<1>2. MutexInv
  BY CallersAssumption DEF MutexInv
<1>3. ReferenceInv
  BY DEF ReferenceInv, Tearing
<1>4. Balanced
  BY DEF Balanced
<1>5. OwnerInv
  BY DEF OwnerInv
<1> QED  BY <1>1, <1>2, <1>3, <1>4, <1>5 DEF IInv

\* Taking and dropping references.
LEMMA ReferencesIInv ==
  ASSUME IInv, NEW c \in Callers, Get(c) \/ CloseHandle(c) \/ Put(c)
  PROVE  IInv'
<1> USE DEF IInv, TypeOK, Goto, Drop, refsVars, object
<1>1. CASE Get(c)
  BY <1>1 DEF Get, MutexInv, ReferenceInv, Tearing, Balanced, OwnerInv, VmapPC, VunmapPC
<1>2. CASE CloseHandle(c)
  <2> USE <1>2 DEF CloseHandle, VmapPC, VunmapPC
  <2>1. TypeOK'
    BY DEF Balanced, OwnerInv
  <2>2. MutexInv'
    BY DEF MutexInv
  <2>3. ReferenceInv'
    BY DEF ReferenceInv, Tearing
  <2>4. (vmap_lock = Free => Balanced)' /\ (freed => Balanced /\ ~ vmapping)'
    BY CallersAssumption DEF MutexInv, ReferenceInv, Tearing, Balanced
  <2>5. OwnerInv'
    BY DEF MutexInv, ReferenceInv, Tearing, Balanced, OwnerInv
  <2> QED  BY <2>1, <2>2, <2>3, <2>4, <2>5
<1>3. CASE Put(c)
  BY <1>3 DEF Put, MutexInv, ReferenceInv, Tearing, Balanced, OwnerInv, VmapPC, VunmapPC
<1> QED  BY <1>1, <1>2, <1>3

\* Taking and releasing vmap_lock.
LEMMA LockIInv ==
  ASSUME IInv, NEW c \in Callers,
         VmapLock(c) \/ VmapUnlock(c) \/ VunmapLock(c) \/ VunmapUnlock(c)
  PROVE  IInv'
<1> USE DEF IInv, TypeOK, Goto, refsVars, object
<1>1. CASE VmapLock(c)
  BY <1>1, CallersAssumption
     DEF VmapLock, MutexInv, ReferenceInv, Tearing, Balanced, OwnerInv, VmapPC, VunmapPC
<1>2. CASE VmapUnlock(c)
  BY <1>2, CallersAssumption
     DEF VmapUnlock, MutexInv, ReferenceInv, Tearing, Balanced, OwnerInv, VmapPC, VunmapPC
<1>3. CASE VunmapLock(c)
  BY <1>3, CallersAssumption
     DEF VunmapLock, MutexInv, ReferenceInv, Tearing, Balanced, OwnerInv, VmapPC, VunmapPC
<1>4. CASE VunmapUnlock(c)
  BY <1>4, CallersAssumption
     DEF VunmapUnlock, MutexInv, ReferenceInv, Tearing, Balanced, OwnerInv, VmapPC, VunmapPC
<1> QED  BY <1>1, <1>2, <1>3, <1>4

\* The body of evdi_gem_vmap.
LEMMA VmapIInv ==
  ASSUME IInv, NEW c \in Callers,
         Recheck(c) \/ DmaBufVmap(c) \/ Store(c) \/ PinPages(c) \/ Vmap(c)
  PROVE  IInv'
<1> USE DEF IInv, TypeOK, Goto, refsVars, object
<1>1. CASE Recheck(c)
  BY <1>1, CallersAssumption
     DEF Recheck, MutexInv, ReferenceInv, Tearing, Balanced, OwnerInv, VmapPC, VunmapPC
<1>2. CASE DmaBufVmap(c)
  <2> USE <1>2 DEF DmaBufVmap, Fail, VmapPC, VunmapPC
  <2>1. TypeOK'
    <3>1. vmapping_counter' \in Nat /\ vmaps' \in Nat /\ pages_pin_count' \in Nat
      BY DEF Balanced, OwnerInv
    <3>2. vmapping' \in BOOLEAN /\ ret' \in [Callers -> BOOLEAN]
      OBVIOUS
    <3> QED  BY <3>1, <3>2
  <2>2. MutexInv'
    BY DEF MutexInv
  <2>3. ReferenceInv'
    BY DEF ReferenceInv, Tearing
  <2>4. (vmap_lock = Free => Balanced)' /\ (freed => Balanced /\ ~ vmapping)'
    BY CallersAssumption DEF MutexInv, ReferenceInv, Tearing, Balanced
  <2>5. OwnerInv'
    BY DEF MutexInv, ReferenceInv, Tearing, Balanced, OwnerInv
  <2> QED  BY <2>1, <2>2, <2>3, <2>4, <2>5
<1>3. CASE Store(c)
  BY <1>3, CallersAssumption
     DEF Store, MutexInv, ReferenceInv, Tearing, Balanced, OwnerInv, VmapPC, VunmapPC
<1>4. CASE PinPages(c)
  <2> USE <1>4 DEF PinPages, Fail, VmapPC, VunmapPC
  <2>1. TypeOK'
    <3>1. vmapping_counter' \in Nat /\ vmaps' \in Nat /\ pages_pin_count' \in Nat
      BY DEF Balanced, OwnerInv
    <3>2. vmapping' \in BOOLEAN /\ ret' \in [Callers -> BOOLEAN]
      OBVIOUS
    <3> QED  BY <3>1, <3>2
  <2>2. MutexInv'
    BY DEF MutexInv
  <2>3. ReferenceInv'
    BY DEF ReferenceInv, Tearing
  <2>4. (vmap_lock = Free => Balanced)' /\ (freed => Balanced /\ ~ vmapping)'
    BY CallersAssumption DEF MutexInv, ReferenceInv, Tearing, Balanced
  <2>5. OwnerInv'
    BY DEF MutexInv, ReferenceInv, Tearing, Balanced, OwnerInv
  <2> QED  BY <2>1, <2>2, <2>3, <2>4, <2>5
<1>5. CASE Vmap(c)
  <2> USE <1>5 DEF Vmap, Fail, VmapPC, VunmapPC
  <2>1. TypeOK'
    <3>1. vmapping_counter' \in Nat /\ vmaps' \in Nat /\ pages_pin_count' \in Nat
      BY DEF Balanced, OwnerInv
    <3>2. vmapping' \in BOOLEAN /\ ret' \in [Callers -> BOOLEAN]
      OBVIOUS
    <3> QED  BY <3>1, <3>2
  <2>2. MutexInv'
    BY DEF MutexInv
  <2>3. ReferenceInv'
    BY DEF ReferenceInv, Tearing
  <2>4. (vmap_lock = Free => Balanced)' /\ (freed => Balanced /\ ~ vmapping)'
    BY CallersAssumption DEF MutexInv, ReferenceInv, Tearing, Balanced
  <2>5. OwnerInv'
    BY DEF MutexInv, ReferenceInv, Tearing, Balanced, OwnerInv
  <2> QED  BY <2>1, <2>2, <2>3, <2>4, <2>5
<1> QED  BY <1>1, <1>2, <1>3, <1>4, <1>5

\* While one thread runs evdi_gem_free_object no other is inside the driver.
LEMMA TearingAlone ==
  ASSUME IInv, NEW c \in Callers, Tearing(c)
  PROVE  /\ \A d \in Callers : d # c => pc[d] = "idle"
         /\ holders = {} /\ ~ handle /\ ~ freed
<1>1. holders = {} /\ ~ handle /\ ~ freed
  BY DEF IInv, ReferenceInv
<1>2. ASSUME NEW d \in Callers, d # c PROVE pc[d] = "idle"
  <2>1. ~ Tearing(d)
    BY <1>2 DEF IInv, ReferenceInv
  <2>2. pc[d] \notin {"vmap_lock", "use", "put"} \cup VmapPC
    BY <1>1 DEF IInv, ReferenceInv
  <2>3. pc[d] \in {"idle", "vmap_lock", "use", "put", "vunmap_lock", "release"}
                    \cup VmapPC \cup VunmapPC
    BY DEF IInv, TypeOK
  <2> QED  BY <2>1, <2>2, <2>3 DEF Tearing
<1> QED  BY <1>1, <1>2

\* Using the mapping.
LEMMA UseIInv ==
  ASSUME IInv, NEW c \in Callers, Use(c)
  PROVE  IInv'
<1> USE DEF IInv, Use, Goto, refsVars, object
<1>1. TypeOK'
  BY DEF TypeOK
<1>2. MutexInv'
  BY DEF MutexInv, TypeOK, VmapPC, VunmapPC
<1>3. ReferenceInv'
  BY DEF ReferenceInv, Tearing, TypeOK, VmapPC, VunmapPC
<1>4. (vmap_lock = Free => Balanced)' /\ (freed => Balanced /\ ~ vmapping)'
  BY DEF Balanced
<1>5. OwnerInv'
  BY DEF OwnerInv, Balanced, TypeOK
<1> QED  BY <1>1, <1>2, <1>3, <1>4, <1>5

\* The body of evdi_gem_free_object.
LEMMA TeardownIInv ==
  ASSUME IInv, NEW c \in Callers,
         VunmapCheck(c) \/ Unmap(c) \/ UnpinPages(c) \/ Release(c)
  PROVE  IInv'
<1>1. Tearing(c)
  BY DEF VunmapCheck, Unmap, UnpinPages, Release, Tearing, VunmapPC
<1>2. /\ \A d \in Callers : d # c => pc[d] = "idle" /\ pc'[d] = "idle"
      /\ holders' = {} /\ ~ handle' /\ ~ freed
      /\ vmap_lock' = vmap_lock /\ imported' = imported /\ ret' = ret
      /\ handle' = handle
  BY <1>1, TearingAlone
     DEF VunmapCheck, Unmap, UnpinPages, Release, Goto, refsVars, object, IInv, TypeOK
<1>3. \/ pc'[c] \in {"unmap", "unpin", "vunmap_unlock"} /\ pc[c] \in VunmapPC /\ ~ freed'
      \/ pc'[c] = "idle" /\ pc[c] = "release"
  <2> USE <1>2 DEF Goto, IInv, TypeOK, VunmapPC
  <2>1. CASE VunmapCheck(c)
    BY <2>1 DEF VunmapCheck
  <2>2. CASE Unmap(c)
    BY <2>2 DEF Unmap
  <2>3. CASE UnpinPages(c)
    BY <2>3 DEF UnpinPages
  <2>4. CASE Release(c)
    BY <2>4 DEF Release
  <2> QED  BY <2>1, <2>2, <2>3, <2>4
<1>4. /\ vmapping_counter' \in Nat /\ vmaps' \in Nat /\ pages_pin_count' \in Nat
      /\ vmapping' \in BOOLEAN /\ freed' \in BOOLEAN
      /\ pc'[c] = "unmap" => Balanced' /\ vmapping'
      /\ pc'[c] = "unpin" =>
           /\ ~ vmapping' /\ ~ imported'
           /\ vmapping_counter' = 0 /\ vmaps' = 0 /\ pages_pin_count' = 1
      /\ pc'[c] \in {"vunmap_unlock", "idle"} => Balanced' /\ ~ vmapping'
  <2> USE DEF IInv, TypeOK, OwnerInv, Balanced, Goto, refsVars, object
  <2>1. CASE VunmapCheck(c)
    BY <2>1 DEF VunmapCheck
  <2>2. CASE Unmap(c)
    <3>1. Balanced /\ vmapping
      BY <2>2 DEF Unmap
    <3>2. CASE imported
      <4>1. vmapping_counter' = 0 /\ pc'[c] = "vunmap_unlock"
        BY <2>2, <3>1, <3>2 DEF Unmap
      <4>2. vmaps' = 0 /\ pages_pin_count' = 0
        BY <2>2, <3>1, <3>2 DEF Unmap
      <4> QED  BY <2>2, <4>1, <4>2 DEF Unmap
    <3>3. CASE ~ imported
      <4>1. vmaps' = 0 /\ pc'[c] = "unpin"
        BY <2>2, <3>1, <3>3 DEF Unmap
      <4>2. vmapping_counter' = 0 /\ pages_pin_count' = 1
        BY <2>2, <3>1, <3>3 DEF Unmap
      <4> QED  BY <2>2, <3>3, <4>1, <4>2 DEF Unmap
    <3> QED  BY <3>2, <3>3
  <2>3. CASE UnpinPages(c)
    BY <2>3 DEF UnpinPages
  <2>4. CASE Release(c)
    BY <2>4 DEF Release
  <2> QED  BY <2>1, <2>2, <2>3, <2>4
<1>5. TypeOK'
  <2>1. pc' \in [Callers -> {"idle", "vmap_lock", "use", "put", "vunmap_lock",
                             "release"} \cup VmapPC \cup VunmapPC]
    BY DEF VunmapCheck, Unmap, UnpinPages, Release, Goto, IInv, TypeOK, VunmapPC
  <2> QED  BY <1>2, <1>4, <2>1 DEF IInv, TypeOK
<1>6. MutexInv'
  BY <1>2, <1>3 DEF IInv, MutexInv, VmapPC, VunmapPC
<1>7. ReferenceInv'
  BY <1>2, <1>3 DEF ReferenceInv, Tearing, VmapPC, VunmapPC
<1>8. OwnerInv'
  BY <1>2, <1>3, <1>4 DEF OwnerInv
<1>9. (vmap_lock = Free => Balanced)' /\ (freed => Balanced /\ ~ vmapping)'
  BY <1>2, <1>3, <1>4, CallersAssumption DEF IInv, MutexInv
<1> QED  BY <1>5, <1>6, <1>7, <1>8, <1>9 DEF IInv

\* Every step of every thread preserves the invariant.
LEMMA NextIInv == IInv /\ [Next]_vars => IInv'
<1> SUFFICES ASSUME IInv, [Next]_vars PROVE IInv'
  OBVIOUS
<1>1. ASSUME NEW c \in Callers, Get(c) \/ CloseHandle(c) \/ Thread(c)
      PROVE  IInv'
  BY <1>1, ReferencesIInv, LockIInv, VmapIInv, UseIInv, TeardownIInv
     DEF Thread, evdi_gem_vmap, evdi_gem_vunmap
<1>2. CASE UNCHANGED vars
  <2> USE <1>2 DEF vars, refsVars, object, IInv
  <2>1. TypeOK' /\ MutexInv'
    BY DEF TypeOK, MutexInv
  <2>2. ReferenceInv'
    BY DEF ReferenceInv, Tearing
  <2>3. Balanced' = Balanced
    BY DEF Balanced
  <2>4. OwnerInv'
    BY <2>3 DEF OwnerInv
  <2> QED  BY <2>1, <2>2, <2>3, <2>4
<1> QED  BY <1>1, <1>2 DEF Next, Released

\* The strengthened invariant holds in every state the threads can reach.
THEOREM Invariance == Spec => []IInv
BY InitIInv, NextIInv, PTL DEF Spec

\* The counters stay natural numbers: nothing is unmapped or unpinned that
\* was not mapped or pinned.
THEOREM TypeCorrect == Spec => []TypeOK
<1>1. IInv => TypeOK
  BY DEF IInv
<1> QED  BY <1>1, Invariance, PTL

\* However many threads call evdi_gem_vmap, there is one shared mapping.
THEOREM SharedMapping == Spec => []OneSharedMapping
<1>1. ASSUME IInv PROVE OneSharedMapping
  <2>1. CASE vmap_lock = Free
    BY <1>1, <2>1 DEF IInv, Balanced, OneSharedMapping
  <2>2. CASE vmap_lock \in Callers
    <3>1. pc[vmap_lock] \in VmapPC \cup VunmapPC
      BY <1>1, <2>2 DEF IInv, MutexInv
    <3>2. \/ Balanced
          \/ vmapping_counter = 1 /\ vmaps = 0 /\ pages_pin_count = 0
          \/ vmapping_counter = 0 /\ vmaps = 0 /\ pages_pin_count = 1
      BY <1>1, <2>2, <3>1 DEF IInv, OwnerInv, VmapPC, VunmapPC
    <3> QED  BY <3>2 DEF Balanced, OneSharedMapping
  <2> QED  BY <1>1, <2>1, <2>2 DEF IInv, TypeOK
<1> QED  BY <1>1, Invariance, PTL

\* A caller uses the mapping only while it exists.
THEOREM MappedWhileUsed == Spec => []UseIsMapped
<1>1. ASSUME IInv PROVE UseIsMapped
  <2> SUFFICES ASSUME NEW c \in Callers, pc[c] = "use"
               PROVE  vmapping /\ vmapping_counter + vmaps = 1 /\ ~ freed
    BY DEF UseIsMapped
  <2>1. vmapping /\ Balanced
    BY <1>1 DEF IInv, OwnerInv
  <2>2. ~ freed
    <3>1. c \in holders /\ (freed => holders = {})
      BY <1>1 DEF IInv, ReferenceInv
    <3> QED  BY <3>1
  <2>3. vmapping_counter + vmaps = 1
    BY <2>1 DEF Balanced
  <2> QED  BY <2>1, <2>2, <2>3
<1> QED  BY <1>1, Invariance, PTL

\* The dma-buf's counter is zero when the object is released, whichever
\* mapping attempts failed before.
THEOREM BalancedRelease == Spec => []ReleaseBalanced
<1>1. ASSUME IInv PROVE ReleaseBalanced
  <2> SUFFICES ASSUME freed \/ \E c \in Callers : pc[c] = "release"
               PROVE  vmapping_counter = 0 /\ vmaps = 0 /\ pages_pin_count = 0
    BY DEF ReleaseBalanced
  <2>1. Balanced /\ ~ vmapping
    BY <1>1 DEF IInv, OwnerInv
  <2> QED  BY <2>1 DEF Balanced
<1> QED  BY <1>1, Invariance, PTL
=============================================================================
