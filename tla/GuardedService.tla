---------------------------- MODULE GuardedService ----------------------------
(***************************************************************************)
(* The vendor display service with src/guard/smiusb_guard.c preloaded and  *)
(* the systemd drop-in of packaging/: the libusb event thread dispatches   *)
(* hotplug events through guarded_hotplug_dispatch, detached vendor        *)
(* workers call libusb through the interposed functions, and systemd       *)
(* starts a new process whenever the old one ends.  The vendor daemon is   *)
(* external: its detach callback destroys the device object under workers  *)
(* that still use it, as docs/reverse-engineering.md reports.              *)
(***************************************************************************)
EXTENDS Integers, Sequences

CONSTANTS
  Workers,     \* detached vendor threads
  MaxPending   \* bound: hotplug messages waiting in libusb

ASSUME ServiceAssumption == MaxPending \in Nat \ {0}

VARIABLES
  env,        \* SMIUSB_GUARD_RESTART_ON_DISCONNECT is set and not "0"
  readable,   \* external: the descriptor of a departed device can be read
  present,    \* external: the adapter is plugged in
  running,    \* the service's process exists
  exit,       \* how the last process ended
  events,     \* hotplug messages of the process, oldest first
  thread,     \* where the event thread is
  restart_on_disconnect, \* the guard's cached decision: 0, 1 (off), 2 (on)
  dev,        \* external: the vendor's map holds an SMIDev object
  gone,       \* external: the workers whose object was destroyed
  stale,      \* external: its USB connection is gone
  ready,      \* external: the display is initialised
  pc,         \* where each worker is
  handle,     \* the handle it passed: NULL or not
  kind        \* the call: one that watches for NO_DEVICE, or another

host == <<env, readable>>
usb == <<present, events>>
vendor == <<dev, gone, stale, ready>>
calls == <<pc, handle, kind>>
vars == <<host, usb, running, exit, thread, restart_on_disconnect, vendor, calls>>

HotplugEvent == {"arrived", "left"}

TypeOK ==
  /\ {env, readable, present, running, dev, stale, ready} \subseteq BOOLEAN
  /\ exit \in {"none", "restart", "crash", "null_crash"}
  /\ events \in Seq(HotplugEvent)
  /\ thread \in {"wait", "fence", "callback"}
  /\ restart_on_disconnect \in {0, IF env THEN 2 ELSE 1}
  /\ gone \subseteq Workers
  /\ pc \in [Workers -> {"none", "call", "guard", "real", "no_device", "resume"}]
  /\ handle \in [Workers -> {"valid", "null"}]
  /\ kind \in [Workers -> {"transfer", "other"}]

\* The memory of a new process, and libusb's enumeration of the devices.
Fresh ==
  /\ events' = IF present THEN <<"arrived">> ELSE <<>>
  /\ thread' = "wait"
  /\ restart_on_disconnect' = 0
  /\ dev' = FALSE /\ gone' = {} /\ stale' = FALSE /\ ready' = FALSE
  /\ pc' = [w \in Workers |-> "none"]
  /\ handle' = [w \in Workers |-> "valid"]
  /\ kind' = [w \in Workers |-> "transfer"]

Init ==
  /\ env \in BOOLEAN
  /\ readable \in BOOLEAN
  /\ present \in BOOLEAN
  /\ running = FALSE
  /\ exit = "none"
  /\ events = <<>>
  /\ thread = "wait"
  /\ restart_on_disconnect = 0
  /\ dev = FALSE /\ gone = {} /\ stale = FALSE /\ ready = FALSE
  /\ pc = [w \in Workers |-> "none"]
  /\ handle = [w \in Workers |-> "valid"]
  /\ kind = [w \in Workers |-> "transfer"]

Goto(w, label) == pc' = [pc EXCEPT ![w] = label]

\* The process ends: the kernel stops all its threads at once.
Ends(how) ==
  /\ running' = FALSE
  /\ exit' = how
  /\ events' = <<>>
  /\ ready' = FALSE
  /\ UNCHANGED <<host, present, thread, restart_on_disconnect, dev, gone, stale,
                 calls>>

-----------------------------------------------------------------------------
(* The guard *)

\* restart_fence_enabled: the cached decision, or the environment's.
restart_fence_enabled ==
  IF restart_on_disconnect # 0 THEN restart_on_disconnect = 2 ELSE env

\* Its store.  Load, getenv and store are one step: the environment does not
\* change, so every caller stores the same value.
CacheFence == restart_on_disconnect' = IF restart_fence_enabled THEN 2 ELSE 1

controlled_restart == Ends("restart")

\* guarded_hotplug_dispatch for DEVICE_LEFT of the SM768.  Where the read of
\* its descriptor can fail, the vendor's callback runs in spite of the fence.
DispatchLeft ==
  /\ running
  /\ thread = "fence"
  /\ \/ restart_fence_enabled /\ controlled_restart
     \/ /\ ~ restart_fence_enabled \/ ~ readable
        /\ thread' = "callback"
        /\ CacheFence
        /\ UNCHANGED <<host, usb, running, exit, vendor, calls>>

\* Mutant: a NULL handle is passed on.
BugNoNullCheck(w) ==
  /\ running
  /\ pc[w] = "guard"
  /\ Goto(w, "real")
  /\ UNCHANGED <<host, usb, running, exit, thread, restart_on_disconnect, vendor,
                 handle, kind>>

\* An interposed call looks at its handle.  With NULL, the transfer calls
\* go to restart_after_usb_disconnect and the others return the error.
NullGuard(w) ==
  /\ running
  /\ pc[w] = "guard"
  /\ Goto(w, IF handle[w] = "valid" THEN "real"
             ELSE IF kind[w] = "transfer" THEN "no_device" ELSE "resume")
  /\ UNCHANGED <<host, usb, running, exit, thread, restart_on_disconnect, vendor,
                 handle, kind>>

\* restart_after_usb_disconnect with LIBUSB_ERROR_NO_DEVICE.
RestartAfterDisconnect(w) ==
  /\ running
  /\ pc[w] = "no_device"
  /\ \/ restart_fence_enabled /\ controlled_restart
     \/ /\ ~ restart_fence_enabled
        /\ Goto(w, "resume")
        /\ CacheFence
        /\ UNCHANGED <<host, usb, running, exit, thread, vendor, handle, kind>>

\* External: the real libusb function.  It dereferences its handle; the
\* transfers of a connection that is gone report NO_DEVICE.
RealCall(w) ==
  /\ running
  /\ pc[w] = "real"
  /\ \/ /\ handle[w] = "null" \/ w \in gone
        /\ Ends(IF handle[w] = "null" THEN "null_crash" ELSE "crash")
     \/ /\ handle[w] = "valid" /\ w \notin gone
        /\ Goto(w, IF stale /\ kind[w] = "transfer" THEN "no_device" ELSE "resume")
        /\ ready' = ~ stale
        /\ UNCHANGED <<host, usb, running, exit, thread, restart_on_disconnect,
                       dev, gone, stale, handle, kind>>

-----------------------------------------------------------------------------
(* External: the vendor daemon. *)

\* A worker reads the handle from its device object and calls libusb.
Call(w) ==
  /\ running
  /\ pc[w] = "call"
  /\ handle' = [handle EXCEPT ![w] = IF w \in gone THEN "null" ELSE "valid"]
  /\ \E k \in {"transfer", "other"} : kind' = [kind EXCEPT ![w] = k]
  /\ Goto(w, "guard")
  /\ UNCHANGED <<host, usb, running, exit, thread, restart_on_disconnect, vendor>>

\* Back in the worker: it looks its device up in the global map.
Resume(w) ==
  /\ running
  /\ pc[w] = "resume"
  /\ \/ /\ w \in gone
        /\ Ends("crash")
     \/ /\ w \notin gone
        /\ Goto(w, "call")
        /\ UNCHANGED <<host, usb, running, exit, thread, restart_on_disconnect,
                       vendor, handle, kind>>

\* The event thread takes the next message; only a departure meets the fence.
Dispatch ==
  /\ running
  /\ thread = "wait"
  /\ events # <<>>
  /\ events' = Tail(events)
  /\ \/ /\ Head(events) = "left"
        /\ thread' = "fence"
        /\ UNCHANGED <<dev, stale, pc>>
     \/ /\ Head(events) = "arrived"
        /\ dev' = TRUE
        /\ stale' = ("left" \in {events[i] : i \in DOMAIN events})
        /\ \/ \E w \in Workers : pc[w] = "none" /\ Goto(w, "call")
           \/ (\A w \in Workers : pc[w] # "none") /\ UNCHANGED pc
        /\ UNCHANGED thread
  /\ UNCHANGED <<host, present, running, exit, restart_on_disconnect, gone,
                 ready, handle, kind>>

\* The vendor's detach callback: erases the map entry and destroys SMIDev.
DetachCallback ==
  /\ running
  /\ thread = "callback"
  /\ dev' = FALSE
  /\ gone' = IF dev THEN gone \cup {w \in Workers : pc[w] # "none"} ELSE gone
  /\ ready' = FALSE
  /\ thread' = "wait"
  /\ UNCHANGED <<host, usb, running, exit, restart_on_disconnect, stale, calls>>

-----------------------------------------------------------------------------
(* External: systemd and the bus. *)

\* Mutant: a process that ended with status 0 is not started again.
BugRestartOnFailure ==
  /\ ~ running
  /\ exit # "restart"
  /\ running' = TRUE
  /\ Fresh
  /\ UNCHANGED <<host, present, exit>>

\* Restart=always after RestartSec, with no start limit.
Start ==
  /\ ~ running
  /\ running' = TRUE
  /\ Fresh
  /\ UNCHANGED <<host, present, exit>>

Unplug ==
  /\ present
  /\ Len(events) < MaxPending
  /\ present' = FALSE
  /\ events' = IF running THEN Append(events, "left") ELSE events
  /\ stale' = (stale \/ dev)
  /\ ready' = FALSE
  /\ UNCHANGED <<host, running, exit, thread, restart_on_disconnect, dev, gone, calls>>

Plug ==
  /\ ~ present
  /\ Len(events) < MaxPending
  /\ present' = TRUE
  /\ events' = IF running THEN Append(events, "arrived") ELSE events
  /\ UNCHANGED <<host, running, exit, thread, restart_on_disconnect, vendor, calls>>

-----------------------------------------------------------------------------
EventThread == Dispatch \/ DispatchLeft \/ DetachCallback

Worker(w) ==
  Call(w) \/ NullGuard(w) \/ RealCall(w) \/ RestartAfterDisconnect(w) \/ Resume(w)

Next ==
  \/ EventThread
  \/ \E w \in Workers : Worker(w)
  \/ Start \/ Plug \/ Unplug

Spec == Init /\ [][Next]_vars

\* The kernel schedules the threads and systemd restarts the service.
FairSpec ==
  /\ Spec
  /\ WF_vars(EventThread)
  /\ \A w \in Workers : WF_vars(Worker(w))
  /\ WF_vars(Start)

-----------------------------------------------------------------------------
(* Properties *)

\* The fence works when the process has it and descriptors can be read, which
\* since libusb 1.0.16 is always so.
FenceWorks == env /\ readable

\* Behind the fence the process ends before the vendor's detach callback can
\* destroy the object its workers use, whichever thread sees the removal
\* first, and so it never crashes; with or without it, and even where the
\* callback slips past it, a NULL handle never reaches libusb.
NoCrashBehindFence ==
  /\ FenceWorks =>
       /\ exit \in {"none", "restart"}
       /\ running => gone = {} /\ thread # "callback"
  /\ exit # "null_crash"

\* With the fence, once the adapter stays plugged in the display is
\* initialised and stays so, however many removals are still queued, and even
\* where a removal slips past the fence.
ServiceRecovers == (env /\ <>[]present) => <>[]ready
=============================================================================
