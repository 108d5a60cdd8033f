------------------------- MODULE GuardedServiceProofs -------------------------
(***************************************************************************)
(* Proofs about GuardedService for any number of vendor workers.           *)
(***************************************************************************)
EXTENDS GuardedService, TLAPS

\* With the fence configured the cache never says "off"; where it also works no
\* object is destroyed; and a handle that passed the NULL check is not NULL.
FenceInv ==
  /\ pc \in [Workers -> {"none", "call", "guard", "real", "no_device", "resume"}]
  /\ handle \in [Workers -> {"valid", "null"}]
  /\ env => restart_on_disconnect \in {0, 2}
  /\ FenceWorks => gone = {} /\ thread # "callback"
  /\ \A w \in Workers : pc[w] = "real" => handle[w] = "valid"

IInv == FenceInv /\ NoCrashBehindFence

\* The end of the process keeps the invariant, if it is the right end.
LEMMA EndsIInv ==
  ASSUME IInv, NEW how, Ends(how), how \in {"restart", "crash"},
         FenceWorks => how = "restart"
  PROVE  IInv'
BY DEF IInv, FenceInv, NoCrashBehindFence, FenceWorks, Ends, host, calls

\* The event thread, systemd and the bus.
LEMMA SystemIInv ==
  ASSUME IInv, EventThread \/ Start \/ Plug \/ Unplug
  PROVE  IInv'
<1> USE DEF IInv, FenceInv, NoCrashBehindFence, FenceWorks, host, usb, vendor, calls
<1>1. CASE Dispatch
  BY <1>1 DEF Dispatch, Goto
<1>2. CASE DispatchLeft
  <2>1. CASE controlled_restart
    BY <2>1, EndsIInv DEF controlled_restart
  <2>2. CASE ~ controlled_restart
    <3>1. /\ ~ restart_fence_enabled \/ ~ readable
          /\ CacheFence
          /\ UNCHANGED <<env, readable, exit, pc, handle, vendor>>
      BY <1>2, <2>2 DEF DispatchLeft
    <3>2. ~ FenceWorks
      BY <3>1 DEF restart_fence_enabled
    <3>3. env => restart_on_disconnect' = 2
      BY <3>1 DEF CacheFence, restart_fence_enabled
    <3> QED  BY <3>1, <3>2, <3>3
  <2> QED  BY <2>1, <2>2
<1>3. CASE DetachCallback
  BY <1>3 DEF DetachCallback
<1>4. CASE Start
  BY <1>4 DEF Start, Fresh
<1>5. CASE Plug \/ Unplug
  BY <1>5 DEF Plug, Unplug
<1> QED  BY <1>1, <1>2, <1>3, <1>4, <1>5 DEF EventThread

\* A worker in the guard, in libusb or in the vendor's code.
LEMMA WorkerIInv ==
  ASSUME IInv, NEW w \in Workers, Worker(w)
  PROVE  IInv'
<1> USE DEF IInv, FenceInv, NoCrashBehindFence, FenceWorks, host, usb, vendor, calls, Goto
<1>1. CASE Call(w)
  BY <1>1 DEF Call
<1>2. CASE NullGuard(w)
  BY <1>2 DEF NullGuard
<1>3. CASE RealCall(w)
  <2>1. handle[w] = "valid"
    BY <1>3 DEF RealCall
  <2>2. CASE w \in gone
    BY <1>3, <2>1, <2>2, EndsIInv DEF RealCall
  <2>3. CASE w \notin gone
    <3>1. UNCHANGED <<env, readable, exit, thread, restart_on_disconnect, gone, handle>>
      BY <1>3, <2>1, <2>3 DEF RealCall
    <3>2. \E label \in {"no_device", "resume"} : pc' = [pc EXCEPT ![w] = label]
      BY <1>3, <2>1, <2>3 DEF RealCall
    <3> QED  BY <3>1, <3>2
  <2> QED  BY <2>2, <2>3
<1>4. CASE RestartAfterDisconnect(w)
  <2>1. CASE restart_fence_enabled
    BY <1>4, <2>1, EndsIInv DEF RestartAfterDisconnect, controlled_restart
  <2>2. CASE ~ restart_fence_enabled
    <3>1. ~ env
      BY <2>2 DEF restart_fence_enabled
    <3>2. UNCHANGED <<env, readable, exit, handle>> /\ pc' = [pc EXCEPT ![w] = "resume"]
      BY <1>4, <2>2 DEF RestartAfterDisconnect
    <3> QED  BY <3>1, <3>2
  <2> QED  BY <2>1, <2>2
<1>5. CASE Resume(w)
  <2>1. CASE w \in gone
    BY <1>5, <2>1, EndsIInv DEF Resume
  <2>2. CASE w \notin gone
    <3>1. UNCHANGED <<env, readable, exit, thread, restart_on_disconnect, vendor, handle>>
      BY <1>5, <2>2 DEF Resume
    <3>2. pc' = [pc EXCEPT ![w] = "call"]
      BY <1>5, <2>2 DEF Resume
    <3> QED  BY <3>1, <3>2
  <2> QED  BY <2>1, <2>2
<1> QED  BY <1>1, <1>2, <1>3, <1>4, <1>5 DEF Worker

\* The invariant holds initially and is preserved by every step.
THEOREM Invariance == Spec => []IInv
<1>1. Init => IInv
  BY DEF Init, IInv, FenceInv, NoCrashBehindFence, FenceWorks
<1>2. IInv /\ [Next]_vars => IInv'
  <2>1. ASSUME IInv, UNCHANGED vars PROVE IInv'
    BY <2>1 DEF IInv, FenceInv, NoCrashBehindFence, FenceWorks, vars, host, vendor, calls
  <2> QED  BY <2>1, SystemIInv, WorkerIInv DEF Next
<1> QED  BY <1>1, <1>2, PTL DEF Spec

\* For any number of workers: behind the fence the process ends before the
\* vendor's cleanup and never crashes, and no NULL handle reaches libusb with
\* or without it.
THEOREM NoCrash == Spec => []NoCrashBehindFence
<1>1. IInv => NoCrashBehindFence
  BY DEF IInv
<1> QED  BY <1>1, Invariance, PTL
=============================================================================
