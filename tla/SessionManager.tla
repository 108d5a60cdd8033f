---------------------------- MODULE SessionManager ----------------------------
(***************************************************************************)
(* The observer daemon src/daemon/smiusbd.cpp: the main thread, which is   *)
(* also the libusb event thread, turns hotplug callbacks into a queue; the *)
(* worker thread opens and closes device sessions from it.  Every critical *)
(* section is one step; a notification is a step of its own, because it is *)
(* sent after the mutex is released.  The USB bus and libusb's reference   *)
(* counts are external, modelled from the calls the daemon makes.  A       *)
(* device is its libusb_device pointer: the allocator may hand the same    *)
(* pointer out again once its count is zero.                               *)
(***************************************************************************)
EXTENDS Integers, Sequences, FiniteSets, Functions

CONSTANTS
  Devices,     \* libusb_device pointers
  MaxPlugs     \* bound: how often devices are plugged in

ASSUME SessionAssumption ==
  MaxPlugs \in Nat /\ IsFiniteSet(Devices) /\ Devices # {}

VARIABLES
  attached,        \* external: the devices on libusb's list
  refs,            \* external: the reference count of each device object
  pending,         \* external: hotplug messages libusb has not dispatched
  plugs,           \* how many times a device was plugged in
  stop_requested,  \* set by the signal handler
  main, step,      \* where the main thread is
  batch,           \* the callbacks of the libusb call the main thread is in
  result,          \* main's result of the last libusb call
  worker, event,   \* where the worker is, and the event it popped
  queue_, sessions_, stopping_, generation_

usb == <<attached, refs, pending, plugs>>
mainVars == <<main, step, batch, result>>
workerVars == <<worker, event>>
managerVars == <<queue_, sessions_, stopping_, generation_>>
vars == <<usb, stop_requested, mainVars, workerVars, managerVars>>

UsbEvent == [device : Devices, event : {"arrived", "left"}]

NoSession == 0      \* sessions_ holds no entry for the device
\* generation_ before its initialiser runs: a session that used it would have
\* the number -1, which is neither NoSession nor a generation.
Uninitialised == -2

Arrived(d) == [device |-> d, event |-> "arrived"]
Left(d) == [device |-> d, event |-> "left"]

Count(s, d) == Cardinality({i \in DOMAIN s : s[i].device = d})

TypeOK ==
  /\ attached \subseteq Devices
  /\ refs \in [Devices -> Nat]
  /\ pending \in Seq(UsbEvent)
  /\ plugs \in 0 .. MaxPlugs
  /\ stop_requested \in BOOLEAN
  /\ main \in {"construct", "register", "enumerate", "loop", "events",
               "deregister", "stop", "stop_notify", "join", "exit", "exited"}
  /\ step \in {"call", "notify"}
  /\ batch \in Seq(UsbEvent)
  /\ result \in {"success", "error"}
  /\ worker \in {"check", "waiting", "handle", "unref", "drain", "done"}
  /\ event \in UsbEvent
  /\ queue_ \in Seq(UsbEvent)
  /\ sessions_ \in [Devices -> Nat]
  /\ stopping_ \in BOOLEAN
  /\ generation_ \in Nat \cup {Uninitialised}

\* The SessionManager constructor has started the worker, which is declared
\* before generation_, and not yet initialised generation_.
Init ==
  /\ attached \in SUBSET Devices
  /\ refs = [d \in Devices |-> IF d \in attached THEN 1 ELSE 0]
  /\ pending = <<>>
  /\ plugs = 0
  /\ stop_requested = FALSE
  /\ main = "construct" /\ step = "call" /\ batch = <<>> /\ result = "success"
  /\ worker = "check" /\ event = Left(CHOOSE d \in Devices : TRUE)
  /\ queue_ = <<>>
  /\ sessions_ = [d \in Devices |-> NoSession]
  /\ stopping_ = FALSE
  /\ generation_ = Uninitialised

-----------------------------------------------------------------------------
(* External: the bus as libusb's monitor thread reports it.                *)

Plug(d) ==
  /\ main # "exited"
  /\ refs[d] = 0
  /\ plugs < MaxPlugs
  /\ plugs' = plugs + 1
  /\ attached' = attached \cup {d}
  /\ refs' = [refs EXCEPT ![d] = 1]
  /\ pending' = Append(pending, Arrived(d))
  /\ UNCHANGED <<stop_requested, mainVars, workerVars, managerVars>>

\* libusb keeps its own reference until it has dispatched the departure.
Unplug(d) ==
  /\ main # "exited"
  /\ d \in attached
  /\ attached' = attached \ {d}
  /\ pending' = Append(pending, Left(d))
  /\ UNCHANGED <<refs, plugs, stop_requested, mainVars, workerVars, managerVars>>

\* request_stop, from SIGINT or SIGTERM.
request_stop ==
  /\ main # "exited"
  /\ ~ stop_requested
  /\ stop_requested' = TRUE
  /\ UNCHANGED <<usb, mainVars, workerVars, managerVars>>

-----------------------------------------------------------------------------
(* The main thread.                                                        *)

Construct ==
  /\ main = "construct"
  /\ generation_' = 0
  /\ main' = "register"
  /\ UNCHANGED <<usb, stop_requested, step, batch, result, workerVars,
                 queue_, sessions_, stopping_>>

\* An arrival for each device of D, in any order.
Enumerations(D) ==
  {[i \in DOMAIN order |-> Arrived(order[i])] :
     order \in Bijection(1 .. Cardinality(D), D)}

\* libusb_hotplug_register_callback with LIBUSB_HOTPLUG_ENUMERATE calls back
\* for every listed device, in any order, while it holds a reference to each.
Register ==
  /\ main = "register"
  /\ \/ /\ main' = "enumerate"
        /\ batch' \in Enumerations(attached)
        /\ refs' = [d \in Devices |-> IF d \in attached THEN refs[d] + 1 ELSE refs[d]]
        /\ UNCHANGED result
     \/ /\ main' = "stop"
        /\ result' = "error"
        /\ UNCHANGED <<batch, refs>>
  /\ UNCHANGED <<attached, pending, plugs, stop_requested, step, workerVars,
                 managerVars>>

Registered ==
  /\ main = "enumerate" /\ batch = <<>>
  /\ main' = "loop"
  /\ UNCHANGED <<usb, stop_requested, step, batch, result, workerVars, managerVars>>

\* hotplug_callback: enqueue up to the end of its critical section.  A
\* stopped manager gives the reference back at once.
enqueue ==
  /\ main \in {"enumerate", "events"} /\ step = "call" /\ batch # <<>>
  /\ IF stopping_
       THEN UNCHANGED <<refs, queue_>>
       ELSE /\ refs' = [refs EXCEPT ![Head(batch).device] = @ + 1]
            /\ queue_' = Append(queue_, Head(batch))
  /\ step' = "notify"
  /\ UNCHANGED <<attached, pending, plugs, stop_requested, main, batch, result,
                 workerVars, sessions_, stopping_, generation_>>

\* Mutant: nobody notifies.
BugNoNotify == UNCHANGED worker

\* ready_.notify_one() moves the worker only if it waits.
notify_one == worker' = IF worker = "waiting" THEN "check" ELSE worker

\* enqueue's notification, which a stopped manager returns before; back in
\* libusb, the list's or the departed device's reference is dropped.
EnqueueNotify ==
  /\ step = "notify"
  /\ IF stopping_ THEN UNCHANGED worker ELSE notify_one
  /\ refs' = IF main = "enumerate" \/ Head(batch).event = "left"
               THEN [refs EXCEPT ![Head(batch).device] = @ - 1]
               ELSE refs
  /\ batch' = Tail(batch)
  /\ step' = "call"
  /\ UNCHANGED <<attached, pending, plugs, stop_requested, main, result, event,
                 managerVars>>

\* One turn of the event loop: libusb_handle_events_timeout_completed takes
\* the messages there are and calls back for each.
HandleEvents ==
  /\ main = "loop"
  /\ ~ stop_requested
  /\ batch' = pending
  /\ pending' = <<>>
  /\ main' = "events"
  /\ UNCHANGED <<attached, refs, plugs, stop_requested, step, result, workerVars,
                 managerVars>>

EventsHandled ==
  /\ main = "events" /\ batch = <<>>
  /\ \/ /\ main' = "loop"
        /\ UNCHANGED result
     \/ /\ main' = "deregister"
        /\ result' = "error"
  /\ UNCHANGED <<usb, stop_requested, step, batch, workerVars, managerVars>>

\* The loop ends on a signal or, at any turn, because the deadline passed.
LeaveLoop ==
  /\ main = "loop"
  /\ main' = "deregister"
  /\ UNCHANGED <<usb, stop_requested, step, batch, result, workerVars, managerVars>>

Deregister ==
  /\ main = "deregister"
  /\ main' = "stop"
  /\ UNCHANGED <<usb, stop_requested, step, batch, result, workerVars, managerVars>>

\* stop: the critical section, the notification, the join.
stop ==
  /\ main = "stop"
  /\ stopping_' = TRUE
  /\ main' = "stop_notify"
  /\ UNCHANGED <<usb, stop_requested, step, batch, result, workerVars, queue_,
                 sessions_, generation_>>

\* Mutant: stop() does not notify.
BugStopSilently ==
  /\ main = "stop_notify"
  /\ main' = "join"
  /\ UNCHANGED <<usb, stop_requested, step, batch, result, workerVars, managerVars>>

StopNotify ==
  /\ main = "stop_notify"
  /\ notify_one
  /\ main' = "join"
  /\ UNCHANGED <<usb, stop_requested, step, batch, result, event, managerVars>>

\* Mutant: main does not wait for the worker.
BugNoJoin ==
  /\ main = "join"
  /\ main' = "exit"
  /\ UNCHANGED <<usb, stop_requested, step, batch, result, workerVars, managerVars>>

Join ==
  /\ main = "join"
  /\ worker = "done"
  /\ main' = "exit"
  /\ UNCHANGED <<usb, stop_requested, step, batch, result, workerVars, managerVars>>

\* libusb_exit and the return from main; the destructor's stop() returns at
\* once because stopping_ is set.
Exit ==
  /\ main = "exit"
  /\ main' = "exited"
  /\ UNCHANGED <<usb, stop_requested, step, batch, result, workerVars, managerVars>>

-----------------------------------------------------------------------------
(* The worker thread.                                                      *)

\* ready_.wait(lock, pred): with the mutex held the worker either finds the
\* predicate true and goes on, or starts to wait, in one step.
Wait ==
  /\ worker = "check"
  /\ ~ stopping_ /\ queue_ = <<>>
  /\ worker' = "waiting"
  /\ UNCHANGED <<usb, stop_requested, mainVars, event, managerVars>>

SpuriousWakeup ==
  /\ worker = "waiting"
  /\ worker' = "check"
  /\ UNCHANGED <<usb, stop_requested, mainVars, event, managerVars>>

\* Mutant: the newest event is popped.
BugPopNewest ==
  /\ worker = "check"
  /\ queue_ # <<>>
  /\ event' = queue_[Len(queue_)]
  /\ queue_' = SubSeq(queue_, 1, Len(queue_) - 1)
  /\ worker' = "handle"
  /\ UNCHANGED <<usb, stop_requested, mainVars, sessions_, stopping_, generation_>>

Pop ==
  /\ worker = "check"
  /\ queue_ # <<>>
  /\ event' = Head(queue_)
  /\ queue_' = Tail(queue_)
  /\ worker' = "handle"
  /\ UNCHANGED <<usb, stop_requested, mainVars, sessions_, stopping_, generation_>>

\* Mutant: stopping_ alone ends the loop.
BugBreakAtOnce ==
  /\ worker = "check"
  /\ stopping_
  /\ worker' = "drain"
  /\ UNCHANGED <<usb, stop_requested, mainVars, event, managerVars>>

Break ==
  /\ worker = "check"
  /\ queue_ = <<>> /\ stopping_
  /\ worker' = "drain"
  /\ UNCHANGED <<usb, stop_requested, mainVars, event, managerVars>>

\* Mutant: sessions_.contains(device) is not checked, and the new session
\* replaces the old one.
BugReplaceSession ==
  /\ worker = "handle" /\ event.event = "arrived"
  /\ \/ UNCHANGED <<refs, sessions_, generation_>>
     \/ /\ generation_' = generation_ + 1
        /\ sessions_' = [sessions_ EXCEPT ![event.device] = generation_']
        /\ refs' = [refs EXCEPT ![event.device] = @ + 2]
  /\ worker' = "unref"
  /\ UNCHANGED <<attached, pending, plugs, stop_requested, mainVars, event,
                 queue_, stopping_>>

\* Mutant: generations are numbered by the sessions there are.
BugGenerationFromSize ==
  /\ worker = "handle" /\ event.event = "arrived"
  /\ \/ UNCHANGED <<refs, sessions_, generation_>>
     \/ /\ sessions_[event.device] = NoSession
        /\ generation_' = 1 + Cardinality({d \in Devices : sessions_[d] # NoSession})
        /\ sessions_' = [sessions_ EXCEPT ![event.device] = generation_']
        /\ refs' = [refs EXCEPT ![event.device] = @ + 2]
  /\ worker' = "unref"
  /\ UNCHANGED <<attached, pending, plugs, stop_requested, mainVars, event,
                 queue_, stopping_>>

\* handle_arrival: nothing for a device that has a session or cannot be
\* opened.  is_target repeats the filter of the registration, so every
\* queued device passes it.  The handle libusb_open returns refers to the
\* device, and so does the session.
handle_arrival ==
  /\ worker = "handle" /\ event.event = "arrived"
  /\ \/ UNCHANGED <<refs, sessions_, generation_>>
     \/ /\ sessions_[event.device] = NoSession
        /\ generation_' = generation_ + 1
        /\ sessions_' = [sessions_ EXCEPT ![event.device] = generation_']
        /\ refs' = [refs EXCEPT ![event.device] = @ + 2]
  /\ worker' = "unref"
  /\ UNCHANGED <<attached, pending, plugs, stop_requested, mainVars, event,
                 queue_, stopping_>>

\* ~DeviceSession: libusb_close and libusb_unref_device for each session of D.
CloseSessions(D) ==
  /\ sessions_' = [d \in Devices |-> IF d \in D THEN NoSession ELSE sessions_[d]]
  /\ refs' = [d \in Devices |->
                IF d \in D /\ sessions_[d] # NoSession THEN refs[d] - 2 ELSE refs[d]]

handle_departure ==
  /\ worker = "handle" /\ event.event = "left"
  /\ CloseSessions({event.device})
  /\ worker' = "unref"
  /\ UNCHANGED <<attached, pending, plugs, stop_requested, mainVars, event,
                 queue_, stopping_, generation_>>

UnrefEvent ==
  /\ worker = "unref"
  /\ refs' = [refs EXCEPT ![event.device] = @ - 1]
  /\ worker' = "check"
  /\ UNCHANGED <<attached, pending, plugs, stop_requested, mainVars, event,
                 managerVars>>

\* The end of worker_loop, without the mutex: queued events are dropped
\* and every session is destroyed.
Drain ==
  /\ worker = "drain"
  /\ sessions_' = [d \in Devices |-> NoSession]
  /\ refs' = [d \in Devices |->
                refs[d] - Count(queue_, d)
                        - (IF sessions_[d] # NoSession THEN 2 ELSE 0)]
  /\ queue_' = <<>>
  /\ worker' = "done"
  /\ UNCHANGED <<attached, pending, plugs, stop_requested, mainVars, event,
                 stopping_, generation_>>

-----------------------------------------------------------------------------
Main ==
  \/ Construct \/ Register \/ Registered \/ enqueue \/ EnqueueNotify
  \/ HandleEvents \/ EventsHandled \/ LeaveLoop \/ Deregister
  \/ stop \/ StopNotify \/ Join \/ Exit

worker_loop ==
  \/ Wait \/ Pop \/ Break \/ handle_arrival \/ handle_departure
  \/ UnrefEvent \/ Drain

Bus == \E d \in Devices : Plug(d) \/ Unplug(d)

Exited == main = "exited" /\ UNCHANGED vars

Next == Main \/ worker_loop \/ SpuriousWakeup \/ Bus \/ request_stop \/ Exited

Spec == Init /\ [][Next]_vars

\* Both threads are scheduled: libusb_handle_events returns after 250 ms at
\* the latest, and libusb_open and libusb_close return.  Nothing is assumed
\* of spurious wakeups, signals, the deadline or the bus.
FairSpec == Spec /\ WF_vars(Main) /\ WF_vars(worker_loop)

-----------------------------------------------------------------------------
(* Properties *)

Listed(d) ==
  \/ d \in attached
  \/ \E i \in DOMAIN pending : pending[i] = Left(d)
  \/ main = "events" /\ \E i \in DOMAIN batch : batch[i] = Left(d)

Holders(d) ==
    (IF Listed(d) THEN 1 ELSE 0)
  + (IF main = "enumerate" THEN Count(batch, d) ELSE 0)
  + Count(queue_, d)
  + (IF worker \in {"handle", "unref"} /\ event.device = d THEN 1 ELSE 0)
  + (IF sessions_[d] # NoSession THEN 2 ELSE 0)

\* Every reference that libusb_ref_device and libusb_open take is held by
\* exactly one holder and dropped by it: a device object is neither leaked
\* nor freed, and its pointer reused, while the queue, the worker or a
\* session still uses it, whatever the order of callbacks and worker steps.
RefsBalance == \A d \in Devices : refs[d] = Holders(d)

\* No session outlives its device unnoticed: if a session's device is gone
\* then its departure is still on the way to the worker, behind every
\* arrival of the same device, duplicates of the enumeration included.
NoZombieSession ==
  \A d \in Devices : sessions_[d] # NoSession =>
    \/ d \in attached
    \/ \E i \in DOMAIN pending : pending[i] = Left(d)
    \/ \E i \in DOMAIN batch : batch[i] = Left(d)
    \/ \E i \in DOMAIN queue_ : queue_[i] = Left(d)
    \/ worker = "handle" /\ event = Left(d)

\* Sessions carry distinct generations, counted from 1: the worker never
\* reads generation_ before its initialiser ran, although the worker starts
\* first.
FreshGenerations ==
  \A d \in Devices : sessions_[d] # NoSession =>
    /\ sessions_[d] \in 1 .. generation_
    /\ \A o \in Devices \ {d} : sessions_[o] # sessions_[d]

\* When worker_loop touches the queue without the mutex after its loop, the
\* queue is empty and nothing can be added to it: no event is dropped.
DrainUncontended ==
  worker \in {"drain", "done"} => stopping_ /\ queue_ = <<>> /\ batch = <<>>

\* libusb_exit finds every session closed, by the worker as ~DeviceSession
\* says, and no device reference left but libusb's own.
ExitIsClean ==
  main \in {"exit", "exited"} =>
    /\ worker = "done"
    /\ \A d \in Devices : sessions_[d] = NoSession
    /\ \A d \in Devices : refs[d] = IF Listed(d) THEN 1 ELSE 0

\* A signal ends the daemon: no lost wakeup leaves the worker waiting and
\* main joining it.
ShutdownCompletes == stop_requested ~> (main = "exited")

\* A session whose device was unplugged is eventually closed.
DepartureClosesSession ==
  \A d \in Devices :
    (sessions_[d] # NoSession /\ d \notin attached) ~> (sessions_[d] = NoSession)
=============================================================================
