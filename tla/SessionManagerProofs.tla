------------------------- MODULE SessionManagerProofs -------------------------
(***************************************************************************)
(* The control of SessionManager, and where departures are, for any number *)
(* of devices and arrivals; then the libusb references, counted by holder. *)
(***************************************************************************)
EXTENDS SessionManager, FiniteSetTheorems, TLAPS

Stopped == {"stop_notify", "join", "exit", "exited"}

\* Who can be where: callbacks only run inside the two libusb calls, stopping_
\* is set after the last of them, and the worker ends only after that.
Shape ==
  /\ attached \subseteq Devices
  /\ pending \in Seq(UsbEvent) /\ batch \in Seq(UsbEvent) /\ queue_ \in Seq(UsbEvent)
  /\ worker \in {"handle", "unref"} => event \in UsbEvent
  /\ step \in {"call", "notify"}
  /\ step = "notify" => batch # <<>>
  /\ batch # <<>> => main \in {"enumerate", "events"}
  /\ main = "enumerate" => \A i \in DOMAIN batch : batch[i].event = "arrived"
  /\ stopping_ \in BOOLEAN
  /\ stopping_ <=> main \in Stopped
  /\ worker \in {"drain", "done"} => stopping_ /\ queue_ = <<>>

\* generation_ is initialised before there can be an event to handle.
Numbering ==
  /\ sessions_ \in [Devices -> Nat]
  /\ main # "construct" => generation_ \in Nat
  /\ main = "construct" =>
       /\ queue_ = <<>> /\ worker \in {"check", "waiting"}
       /\ \A d \in Devices : sessions_[d] = NoSession
  /\ FreshGenerations

\* A worker that is done has closed every session, and main waits for it.
Finished ==
  /\ worker = "done" => \A d \in Devices : sessions_[d] = NoSession
  /\ main \in {"exit", "exited"} => worker = "done"

\* What a sequence of events is, and what Append and Tail make of it.
LEMMA EventSeq ==
  ASSUME NEW s \in Seq(UsbEvent)
  PROVE  /\ Len(s) \in Nat /\ DOMAIN s = 1 .. Len(s)
         /\ s # <<>> => Len(s) > 0
OBVIOUS

LEMMA AppendedSeq ==
  ASSUME NEW s \in Seq(UsbEvent), NEW e \in UsbEvent
  PROVE  /\ Append(s, e) \in Seq(UsbEvent)
         /\ DOMAIN Append(s, e) = 1 .. (Len(s) + 1)
         /\ \A i \in 1 .. Len(s) : Append(s, e)[i] = s[i]
         /\ Append(s, e)[Len(s) + 1] = e
OBVIOUS

LEMMA PoppedSeq ==
  ASSUME NEW s \in Seq(UsbEvent), s # <<>>
  PROVE  /\ Head(s) = s[1] /\ Head(s) \in UsbEvent
         /\ Tail(s) \in Seq(UsbEvent)
         /\ DOMAIN Tail(s) = 1 .. (Len(s) - 1)
         /\ \A i \in 1 .. (Len(s) - 1) : Tail(s)[i] = s[i + 1]
OBVIOUS

\* A sequence of arrivals, one for each listed device.
LEMMA EnumerationIsArrivals ==
  ASSUME NEW D \in SUBSET Devices, NEW s \in Enumerations(D)
  PROVE  /\ s \in Seq(UsbEvent)
         /\ \A i \in DOMAIN s : \E d \in D : s[i] = Arrived(d)
         /\ \A i, j \in DOMAIN s : s[i] = s[j] => i = j
         /\ \A d \in D : \E i \in DOMAIN s : s[i] = Arrived(d)
<1> DEFINE I == 1 .. Cardinality(D)
<1>1. Cardinality(D) \in Nat
  BY SessionAssumption, FS_Subset, FS_CardinalityType
<1>2. PICK order \in Bijection(I, D) : s = [i \in DOMAIN order |-> Arrived(order[i])]
  BY DEF Enumerations
<1>3. /\ order \in [I -> D]
      /\ \A i, j \in I : order[i] = order[j] => i = j
      /\ \A d \in D : \E i \in I : order[i] = d
  BY DEF Bijection, Injection, Surjection, IsInjective
<1>4. DOMAIN s = I /\ \A i \in I : order[i] \in D /\ s[i] = Arrived(order[i])
  BY <1>2, <1>3
<1>5. s \in Seq(UsbEvent)
  <2>1. s \in [I -> UsbEvent]
    BY <1>2, <1>3 DEF UsbEvent, Arrived
  <2>2. \E n \in Nat : s \in [1 .. n -> UsbEvent]
    BY <1>1, <2>1
  <2> QED  BY <2>2, SMT
<1>6. \A i, j \in I : s[i] = s[j] => i = j
  BY <1>3, <1>4 DEF Arrived
<1>7. \A d \in D : \E i \in I : s[i] = Arrived(d)
  BY <1>3, <1>4
<1> QED  BY <1>4, <1>5, <1>6, <1>7

\* Closing sessions leaves integers for reference counts, each lower by two or
\* as it was.
LEMMA ClosedRefs ==
  ASSUME refs \in [Devices -> Int], NEW D, CloseSessions(D)
  PROVE  /\ refs' \in [Devices -> Int]
         /\ \A d \in Devices :
              /\ sessions_'[d] = IF d \in D THEN NoSession ELSE sessions_[d]
              /\ refs'[d] = IF d \in D /\ sessions_[d] # NoSession
                              THEN refs[d] - 2 ELSE refs[d]
<1>1. \A d \in Devices : refs[d] \in Int /\ refs[d] - 2 \in Int
  OBVIOUS
<1>2. refs' \in [Devices -> Int]
  BY <1>1 DEF CloseSessions
<1> QED  BY <1>2, Zenon DEF CloseSessions

-----------------------------------------------------------------------------
(* Control *)

\* The control invariant holds at first and is kept by the main thread, the
\* worker and the bus.
LEMMA InitShape == Init => Shape /\ Numbering /\ Finished
<1> SUFFICES ASSUME Init PROVE Shape /\ Numbering /\ Finished
  OBVIOUS
<1>1. Shape
  <2>1. <<>> \in Seq(UsbEvent)
    OBVIOUS
  <2>2. ~ (stopping_ = TRUE) /\ main \notin Stopped
    BY DEF Init, Stopped
  <2> QED  BY <2>1, <2>2, Zenon DEF Init, Shape
<1>2. Numbering
  BY DEF Init, Numbering, FreshGenerations, NoSession
<1>3. Finished
  BY DEF Init, Finished
<1> QED  BY <1>1, <1>2, <1>3

LEMMA MainShape ==
  ASSUME Shape, Main
  PROVE  Shape'
<1> USE DEF Shape, Stopped, usb, mainVars, workerVars, managerVars
<1>1. CASE Construct
  BY <1>1 DEF Construct
<1>2. CASE Register
  <2>1. CASE main' = "stop"
    BY <1>2, <2>1 DEF Register
  <2>2. CASE main' = "enumerate"
    <3>1. batch' \in Enumerations(attached)
      BY <1>2, <2>2 DEF Register
    <3>2. /\ batch' \in Seq(UsbEvent)
          /\ \A i \in DOMAIN batch' : batch'[i].event = "arrived"
      <4>1. attached \in SUBSET Devices
        OBVIOUS
      <4>2. /\ batch' \in Seq(UsbEvent)
            /\ \A i \in DOMAIN batch' : \E d \in attached : batch'[i] = Arrived(d)
        BY <3>1, <4>1, EnumerationIsArrivals
      <4> QED  BY <4>2 DEF Arrived
    <3> QED  BY <1>2, <2>2, <3>2 DEF Register
  <2> QED  BY <1>2, <2>1, <2>2 DEF Register
<1>3. CASE Registered
  BY <1>3 DEF Registered
<1>4. CASE enqueue
  <2>1. Head(batch) \in UsbEvent
    BY <1>4 DEF enqueue
  <2>2. queue_' \in Seq(UsbEvent)
    <3>1. queue_' = queue_ \/ queue_' = Append(queue_, Head(batch))
      BY <1>4 DEF enqueue
    <3>2. queue_ \in Seq(UsbEvent)
      OBVIOUS
    <3>3. Append(queue_, Head(batch)) \in Seq(UsbEvent)
      BY <2>1, <3>2, AppendedSeq, Zenon
    <3> QED  BY <3>1, <3>2, <3>3, Zenon
  <2>3. ~ stopping_ /\ stopping_' = stopping_ /\ worker' = worker
    BY <1>4 DEF enqueue
  <2>4. UNCHANGED <<attached, pending, batch, event, main>> /\ step' = "notify" /\ batch # <<>>
    BY <1>4 DEF enqueue
  <2> QED  BY <2>2, <2>3, <2>4
<1>5. CASE EnqueueNotify
  <2>1. /\ batch' = Tail(batch) /\ batch # <<>> /\ batch' \in Seq(UsbEvent)
        /\ \A i \in DOMAIN batch' : i + 1 \in DOMAIN batch /\ batch'[i] = batch[i + 1]
    BY <1>5 DEF EnqueueNotify
  <2>2. worker' \in {"drain", "done"} => worker = worker'
    BY <1>5 DEF EnqueueNotify, notify_one
  <2>3. worker' \in {"handle", "unref"} => worker = worker'
    BY <1>5 DEF EnqueueNotify, notify_one
  <2> QED  BY <1>5, <2>1, <2>2, <2>3 DEF EnqueueNotify
<1>6. CASE HandleEvents
  BY <1>6 DEF HandleEvents
<1>7. CASE EventsHandled \/ LeaveLoop \/ Deregister
  BY <1>7 DEF EventsHandled, LeaveLoop, Deregister
<1>8. CASE stop
  BY <1>8 DEF stop
<1>9. CASE StopNotify
  BY <1>9 DEF StopNotify, notify_one
<1>10. CASE Join \/ Exit
  BY <1>10 DEF Join, Exit
<1> QED
  BY <1>1, <1>2, <1>3, <1>4, <1>5, <1>6, <1>7, <1>8, <1>9, <1>10 DEF Main

LEMMA WorkerShape ==
  ASSUME Shape, worker_loop \/ SpuriousWakeup
  PROVE  Shape'
<1> USE DEF Shape, Stopped, usb, mainVars, managerVars
<1>1. CASE Wait \/ SpuriousWakeup \/ Break
  BY <1>1 DEF Wait, SpuriousWakeup, Break
<1>2. CASE Pop
  <2>1. Head(queue_) \in UsbEvent /\ Tail(queue_) \in Seq(UsbEvent)
    BY <1>2 DEF Pop
  <2> QED  BY <1>2, <2>1 DEF Pop
<1>3. CASE handle_arrival
  BY <1>3 DEF handle_arrival
<1>4. CASE handle_departure
  BY <1>4 DEF handle_departure
<1>5. CASE UnrefEvent
  BY <1>5 DEF UnrefEvent
<1>6. CASE Drain
  BY <1>6 DEF Drain
<1> QED  BY <1>1, <1>2, <1>3, <1>4, <1>5, <1>6 DEF worker_loop

LEMMA BusShape ==
  ASSUME Shape, Bus \/ request_stop \/ UNCHANGED vars
  PROVE  Shape'
<1> USE DEF Shape, Stopped, usb, mainVars, workerVars, managerVars
<1>1. ASSUME NEW d \in Devices, Plug(d) PROVE Shape'
  BY <1>1 DEF Plug, Arrived, UsbEvent
<1>2. ASSUME NEW d \in Devices, Unplug(d) PROVE Shape'
  BY <1>2 DEF Unplug, Left, UsbEvent
<1>3. CASE request_stop \/ UNCHANGED vars
  BY <1>3 DEF request_stop, vars
<1> QED  BY <1>1, <1>2, <1>3 DEF Bus
-----------------------------------------------------------------------------
(* Generations *)

\* Steps that touch neither the sessions nor generation_.
QuietStep ==
  /\ UNCHANGED <<sessions_, generation_>>
  /\ main = "construct" <=> main' = "construct"
  /\ main = "construct" => queue_' = queue_ /\ worker' \in {"check", "waiting"}

LEMMA QuietNumbering ==
  ASSUME Numbering, QuietStep
  PROVE  Numbering'
BY DEF Numbering, QuietStep, FreshGenerations

LEMMA QuietSteps ==
  ASSUME Shape, Numbering,
         \/ Main /\ ~ Construct
         \/ Wait \/ Pop \/ Break \/ UnrefEvent \/ SpuriousWakeup
         \/ Bus \/ request_stop \/ UNCHANGED vars
  PROVE  QuietStep
<1> USE DEF QuietStep, usb, mainVars, workerVars, managerVars
<1>1. main = "construct" => queue_ = <<>> /\ worker \in {"check", "waiting"}
  BY DEF Numbering
<1>2. main = "construct" => ~ stopping_ /\ batch = <<>> /\ step = "call"
  BY DEF Shape, Stopped
<1>3. CASE Register \/ Registered \/ enqueue \/ HandleEvents \/ EventsHandled
  BY <1>3 DEF Register, Registered, enqueue, HandleEvents, EventsHandled
<1>4. CASE EnqueueNotify
  BY <1>2, <1>4 DEF EnqueueNotify
<1>5. CASE LeaveLoop \/ Deregister \/ stop \/ StopNotify \/ Join \/ Exit
  BY <1>5 DEF LeaveLoop, Deregister, stop, StopNotify, Join, Exit
<1>6. CASE Wait \/ Pop \/ Break \/ UnrefEvent \/ SpuriousWakeup
  BY <1>1, <1>2, <1>6 DEF Wait, Pop, Break, UnrefEvent, SpuriousWakeup
<1>7. CASE Bus \/ request_stop \/ UNCHANGED vars
  BY <1>1, <1>7 DEF Bus, Plug, Unplug, request_stop, vars
<1> QED  BY <1>3, <1>4, <1>5, <1>6, <1>7 DEF Main

\* A session gets the number after the last one, and closing one frees none.
LEMMA NumberingStep ==
  ASSUME Shape, Numbering, [Next]_vars
  PROVE  Numbering'
<1> USE DEF NoSession
<1>1. CASE Construct
  <2>1. \A d \in Devices : sessions_'[d] = NoSession
    BY <1>1 DEF Construct, Numbering
  <2> QED  BY <1>1, <2>1 DEF Construct, Numbering, FreshGenerations
<1>2. CASE handle_arrival
  <2>1. /\ main # "construct" /\ main' = main /\ generation_ \in Nat
        /\ event \in UsbEvent
    BY <1>2 DEF handle_arrival, Numbering, mainVars, Shape
  <2>2. CASE UNCHANGED <<sessions_, generation_>>
    BY <2>1, <2>2 DEF Numbering, FreshGenerations
  <2>3. CASE /\ generation_' = generation_ + 1
             /\ sessions_' = [sessions_ EXCEPT ![event.device] = generation_']
    <3>1. event.device \in Devices
      BY <2>1 DEF UsbEvent
    <3>2. \A d \in Devices : sessions_[d] \in Nat /\ sessions_[d] <= generation_
      BY <2>1 DEF Numbering, FreshGenerations
    <3>3. \A d \in Devices : sessions_'[d] =
                   IF d = event.device THEN generation_ + 1 ELSE sessions_[d]
      BY <2>3, <3>1 DEF Numbering
    <3>4. FreshGenerations'
      BY <2>1, <2>3, <3>2, <3>3 DEF Numbering, FreshGenerations
    <3>5. sessions_' \in [Devices -> Nat] /\ generation_' \in Nat
      BY <2>1, <2>3, <3>1 DEF Numbering
    <3> QED  BY <2>1, <3>4, <3>5 DEF Numbering
  <2> QED  BY <1>2, <2>2, <2>3 DEF handle_arrival
<1>3. CASE handle_departure \/ Drain
  <2>1. /\ main # "construct" /\ main' = main
        /\ generation_ \in Nat /\ generation_' = generation_
    BY <1>3 DEF handle_departure, Drain, Numbering, mainVars
  <2>2. /\ sessions_' \in [Devices -> Nat]
        /\ \A d \in Devices : sessions_'[d] \in {NoSession, sessions_[d]}
    BY <1>3 DEF handle_departure, CloseSessions, Drain, Numbering
  <2>3. FreshGenerations'
    BY <2>1, <2>2 DEF Numbering, FreshGenerations
  <2> QED  BY <2>1, <2>2, <2>3 DEF Numbering
<1> QED
  BY <1>1, <1>2, <1>3, QuietSteps, QuietNumbering DEF Next, worker_loop, Exited

\* main only returns after a worker that is done and has closed every session.
LEMMA FinishedStep ==
  ASSUME Shape, Finished, [Next]_vars
  PROVE  Finished'
<1> USE DEF Finished, usb, mainVars, workerVars, managerVars
<1>1. CASE Construct \/ Register \/ Registered \/ enqueue \/ HandleEvents
  BY <1>1 DEF Construct, Register, Registered, enqueue, HandleEvents
<1>2. CASE EnqueueNotify \/ StopNotify
  BY <1>2 DEF EnqueueNotify, StopNotify, notify_one
<1>3. CASE EventsHandled \/ LeaveLoop \/ Deregister \/ stop \/ Join \/ Exit
  BY <1>3 DEF EventsHandled, LeaveLoop, Deregister, stop, Join, Exit
<1>4. CASE Wait \/ Pop \/ Break \/ UnrefEvent \/ SpuriousWakeup
  BY <1>4 DEF Wait, Pop, Break, UnrefEvent, SpuriousWakeup
<1>5. CASE handle_arrival \/ handle_departure
  BY <1>5 DEF handle_arrival, handle_departure
<1>6. CASE Drain
  BY <1>6 DEF Drain
<1>7. CASE Bus \/ request_stop \/ UNCHANGED vars
  BY <1>7 DEF Bus, Plug, Unplug, request_stop, vars
<1> QED
  BY <1>1, <1>2, <1>3, <1>4, <1>5, <1>6, <1>7 DEF Next, Main, worker_loop, Exited
-----------------------------------------------------------------------------
(* Departures on their way to the worker *)

\* The callbacks of the running libusb call that have not reached the queue.
rest == IF step = "notify" THEN Tail(batch) ELSE batch

Has(s, d) == \E i \in DOMAIN s : s[i] = Left(d)

\* Every arrival of d in s is followed by its departure.
Covered(s, d) ==
  \A i \in DOMAIN s : s[i] = Arrived(d) =>
    \E j \in DOMAIN s : i < j /\ s[j] = Left(d)

\* The queue, the rest of the callbacks and libusb's messages form one stream
\* to the worker.  For a device that is gone, every arrival in the stream or
\* in the worker's hands, and every session, has a departure behind it.
StreamOf(d) ==
  /\ Covered(pending, d)
  /\ Covered(rest, d) \/ Has(pending, d)
  /\ Covered(queue_, d) \/ Has(rest, d) \/ Has(pending, d)
  /\ worker = "handle" /\ event = Arrived(d) =>
       Has(queue_, d) \/ Has(rest, d) \/ Has(pending, d)
  /\ sessions_[d] # NoSession =>
       \/ worker = "handle" /\ event = Left(d)
       \/ Has(queue_, d) \/ Has(rest, d) \/ Has(pending, d)

Stream == \A d \in Devices \ attached : StreamOf(d)

LEMMA EventsDiffer ==
  /\ \A d, e : Arrived(d) # Left(e)
  /\ \A d, e : Left(d) = Left(e) => d = e
  /\ \A d, e : Arrived(d) = Arrived(e) => d = e
  /\ \A d : Left(d).device = d /\ Arrived(d).device = d
  /\ \A d : Left(d).event = "left" /\ Arrived(d).event = "arrived"
  /\ \A d \in Devices : Left(d) \in UsbEvent /\ Arrived(d) \in UsbEvent
BY DEF Arrived, Left, UsbEvent

LEMMA EmptyStream ==
  ASSUME NEW d
  PROVE  ~ Has(<<>>, d) /\ Covered(<<>>, d)
BY DEF Has, Covered

LEMMA AppendStream ==
  ASSUME NEW s \in Seq(UsbEvent), NEW e \in UsbEvent, NEW d
  PROVE  /\ Has(Append(s, e), d) <=> Has(s, d) \/ e = Left(d)
         /\ e = Left(d) => Covered(Append(s, e), d)
         /\ e # Arrived(d) /\ Covered(s, d) => Covered(Append(s, e), d)
<1>1. /\ Len(s) \in Nat /\ DOMAIN s = 1 .. Len(s)
      /\ DOMAIN Append(s, e) = 1 .. (Len(s) + 1)
      /\ \A i \in 1 .. Len(s) : Append(s, e)[i] = s[i]
      /\ Append(s, e)[Len(s) + 1] = e
  BY EventSeq, AppendedSeq
<1>2. \A i \in 1 .. (Len(s) + 1) : i \in 1 .. Len(s) \/ i = Len(s) + 1
  BY <1>1
<1>3. /\ \A i \in 1 .. Len(s) : i \in 1 .. (Len(s) + 1) /\ i < Len(s) + 1
      /\ Len(s) + 1 \in 1 .. (Len(s) + 1)
  BY <1>1
<1> HIDE DEF Left, Arrived
<1>4. Has(Append(s, e), d) <=> Has(s, d) \/ e = Left(d)
  BY <1>1, <1>2, <1>3 DEF Has
<1>5. e = Left(d) => Covered(Append(s, e), d)
  BY <1>1, <1>2, <1>3, EventsDiffer DEF Covered
<1>6. e # Arrived(d) /\ Covered(s, d) => Covered(Append(s, e), d)
  BY <1>1, <1>2, <1>3 DEF Covered
<1> QED  BY <1>4, <1>5, <1>6

LEMMA TailStream ==
  ASSUME NEW s \in Seq(UsbEvent), s # <<>>, NEW d
  PROVE  /\ Has(s, d) <=> Head(s) = Left(d) \/ Has(Tail(s), d)
         /\ Covered(s, d) => Covered(Tail(s), d)
         /\ Covered(s, d) /\ Head(s) = Arrived(d) => Has(Tail(s), d)
<1> DEFINE t == Tail(s)
<1>1. /\ Len(s) \in Nat /\ Len(s) > 0 /\ DOMAIN s = 1 .. Len(s)
      /\ DOMAIN t = 1 .. (Len(s) - 1)
      /\ \A i \in 1 .. (Len(s) - 1) : t[i] = s[i + 1]
      /\ Head(s) = s[1]
  BY EventSeq, PoppedSeq
<1> HIDE DEF t
<1>2. /\ \A i \in DOMAIN t : i + 1 \in DOMAIN s /\ t[i] = s[i + 1]
      /\ \A i \in DOMAIN s : i = 1 \/ (i - 1 \in DOMAIN t /\ t[i - 1] = s[i])
      /\ 1 \in DOMAIN s
  BY <1>1
<1>3. Has(s, d) <=> Head(s) = Left(d) \/ Has(t, d)
  BY <1>1, <1>2 DEF Has
<1>4. Covered(s, d) => Covered(t, d)
  <2> SUFFICES ASSUME Covered(s, d), NEW i \in DOMAIN t, t[i] = Arrived(d)
               PROVE  \E j \in DOMAIN t : i < j /\ t[j] = Left(d)
    BY DEF Covered
  <2>1. PICK j \in DOMAIN s : i + 1 < j /\ s[j] = Left(d)
    BY <1>2 DEF Covered
  <2>2. j - 1 \in DOMAIN t /\ i < j - 1 /\ t[j - 1] = Left(d)
    BY <1>1, <1>2, <2>1
  <2> QED  BY <2>2
<1>5. Covered(s, d) /\ Head(s) = Arrived(d) => Has(t, d)
  <2> SUFFICES ASSUME Covered(s, d), Head(s) = Arrived(d) PROVE Has(t, d)
    OBVIOUS
  <2>1. PICK j \in DOMAIN s : 1 < j /\ s[j] = Left(d)
    BY <1>1, <1>2 DEF Covered
  <2> QED  BY <1>1, <1>2, <2>1 DEF Has
<1> QED  BY <1>3, <1>4, <1>5 DEF t

\* StreamOf(d)' with the primes on the variables.
NextStream(d) ==
  /\ Covered(pending', d)
  /\ Covered(rest', d) \/ Has(pending', d)
  /\ Covered(queue_', d) \/ Has(rest', d) \/ Has(pending', d)
  /\ worker' = "handle" /\ event' = Arrived(d) =>
       Has(queue_', d) \/ Has(rest', d) \/ Has(pending', d)
  /\ sessions_'[d] # NoSession =>
       \/ worker' = "handle" /\ event' = Left(d)
       \/ Has(queue_', d) \/ Has(rest', d) \/ Has(pending', d)

LEMMA StreamNext ==
  ASSUME \A d \in Devices \ attached' : NextStream(d)
  PROVE  Stream'
BY DEF NextStream, Stream, StreamOf, Has, Covered, NoSession, Left, Arrived

\* A step that moves an event along the stream, or moves none.
LEMMA MainStream ==
  ASSUME Shape, Stream, Main
  PROVE  Stream'
<1> SUFFICES ASSUME NEW d \in Devices, d \notin attached'  PROVE NextStream(d)
  BY StreamNext
<1> USE DEF usb, mainVars, workerVars, managerVars
<1>0. attached' = attached /\ StreamOf(d)
  <2>1. attached' = attached
    BY ZenonT(30) DEF Main, Construct, Register, Registered, enqueue, EnqueueNotify,
           HandleEvents, EventsHandled, LeaveLoop, Deregister, stop,
           StopNotify, Join, Exit
  <2> QED  BY <2>1, SMTT(30) DEF Stream
<1>1. CASE Construct \/ Registered \/ EventsHandled \/ LeaveLoop
           \/ Deregister \/ stop \/ Join \/ Exit
  <2>1. UNCHANGED <<pending, step, batch, workerVars, queue_, sessions_>>
    BY <1>1 DEF Construct, Registered, EventsHandled, LeaveLoop, Deregister,
                stop, Join, Exit
  <2>2. rest' = rest
    BY <2>1 DEF rest
  <2> QED  BY <1>0, <2>1, <2>2 DEF StreamOf, NextStream
<1>2. CASE StopNotify
  <2>1. /\ UNCHANGED <<pending, step, batch, event, queue_, sessions_>>
        /\ worker' = "handle" <=> worker = "handle"
    BY <1>2 DEF StopNotify, notify_one
  <2>2. rest' = rest
    BY <2>1, SMTT(30) DEF rest
  <2> QED  BY <1>0, <2>1, <2>2 DEF StreamOf, NextStream
<1>3. CASE EnqueueNotify
  <2>1. /\ UNCHANGED <<pending, event, queue_, sessions_>>
        /\ worker' = "handle" <=> worker = "handle"
    BY <1>3 DEF EnqueueNotify, notify_one
  <2>2. rest' = rest
    BY <1>3, SMTT(30) DEF EnqueueNotify, rest
  <2> QED  BY <1>0, <2>1, <2>2, SMTT(30) DEF StreamOf, NextStream
<1>4. CASE enqueue
  <2> DEFINE e == Head(batch)
  <2>1. /\ batch \in Seq(UsbEvent) /\ batch # <<>> /\ queue_ \in Seq(UsbEvent)
        /\ ~ stopping_
    BY <1>4 DEF enqueue, Shape, Stopped
  <2>2. e \in UsbEvent
    BY <2>1, PoppedSeq
  <2>3. /\ rest = batch /\ rest' = Tail(batch)
        /\ queue_' = Append(queue_, e)
        /\ UNCHANGED <<pending, workerVars, sessions_>>
    BY <1>4, <2>1 DEF enqueue, rest
  <2> HIDE DEF e
  <2>4. /\ Has(queue_', d) <=> Has(queue_, d) \/ e = Left(d)
        /\ e = Left(d) => Covered(queue_', d)
        /\ e # Arrived(d) /\ Covered(queue_, d) => Covered(queue_', d)
    BY <2>1, <2>2, <2>3, AppendStream, SMTT(30)
  <2>5. /\ Has(rest, d) <=> e = Left(d) \/ Has(rest', d)
        /\ Covered(rest, d) => Covered(rest', d)
        /\ Covered(rest, d) /\ e = Arrived(d) => Has(rest', d)
    BY <2>1, <2>3, TailStream, SMTT(30) DEF e
  <2>6. Covered(pending', d) /\ (Has(pending', d) <=> Has(pending, d))
    BY <1>0, <2>3 DEF StreamOf
  <2>7. Covered(rest', d) \/ Has(pending', d)
    BY <1>0, <2>5, <2>6, SMTT(30) DEF StreamOf
  <2>8. Covered(queue_', d) \/ Has(rest', d) \/ Has(pending', d)
    BY <1>0, <2>4, <2>5, <2>6, SMTT(30) DEF StreamOf
  <2>9. Has(queue_, d) \/ Has(rest, d) \/ Has(pending, d) =>
          Has(queue_', d) \/ Has(rest', d) \/ Has(pending', d)
    BY <2>4, <2>5, <2>6
  <2>10. UNCHANGED <<worker, event, sessions_>>
    BY <2>3, SMTT(30)
  <2> QED
    <3>1. /\ worker' = "handle" /\ event' = Arrived(d) =>
                Has(queue_', d) \/ Has(rest', d) \/ Has(pending', d)
          /\ sessions_'[d] # NoSession =>
                \/ worker' = "handle" /\ event' = Left(d)
                \/ Has(queue_', d) \/ Has(rest', d) \/ Has(pending', d)
      BY <1>0, <2>9, <2>10, SMTT(30) DEF StreamOf
    <3> QED  BY <2>6, <2>7, <2>8, <3>1 DEF NextStream
<1>5. CASE Register
  <2>1. /\ batch = <<>> /\ step = "call" /\ step' = step
        /\ UNCHANGED <<pending, workerVars, queue_, sessions_>>
    BY <1>5 DEF Register, Shape
  <2>2. batch' = <<>> \/ batch' \in Enumerations(attached)
    BY <1>5, <2>1 DEF Register
  <2>3. \A i \in DOMAIN batch' : batch'[i] # Arrived(d)
    <3>1. CASE batch' = <<>>
      BY <3>1
    <3>2. CASE batch' \in Enumerations(attached)
      <4>0. attached \in SUBSET Devices
        BY DEF Shape
      <4>1. \A i \in DOMAIN batch' : \E a \in attached : batch'[i] = Arrived(a)
        BY <3>2, <4>0, EnumerationIsArrivals, Zenon
      <4> QED  BY <1>0, <4>1, EventsDiffer
    <3> QED  BY <2>2, <3>1, <3>2
  <2>4. Covered(rest', d)
    BY <2>1, <2>3 DEF Covered, rest
  <2>5. ~ Has(rest, d)
    BY <2>1, EmptyStream, SMTT(30) DEF rest
  <2> QED  BY <1>0, <2>1, <2>4, <2>5 DEF StreamOf, NextStream
<1>6. CASE HandleEvents
  <2>1. /\ rest = <<>> /\ rest' = pending /\ pending' = <<>>
        /\ UNCHANGED <<workerVars, queue_, sessions_>>
    BY <1>6, Zenon DEF HandleEvents, Shape, rest
  <2>2. /\ ~ Has(rest, d) /\ ~ Has(pending', d) /\ Covered(pending', d)
        /\ (Has(rest', d) <=> Has(pending, d))
        /\ Covered(rest', d)
    BY <1>0, <2>1, EmptyStream DEF StreamOf
  <2>3. Covered(queue_', d) \/ Has(rest', d)
    BY <1>0, <2>1, <2>2 DEF StreamOf
  <2>4. worker' = "handle" /\ event' = Arrived(d) => Has(queue_', d) \/ Has(rest', d)
    BY <1>0, <2>1, <2>2 DEF StreamOf
  <2>5. sessions_'[d] # NoSession =>
          (worker' = "handle" /\ event' = Left(d)) \/ Has(queue_', d) \/ Has(rest', d)
    BY <1>0, <2>1, <2>2 DEF StreamOf
  <2> QED  BY <2>2, <2>3, <2>4, <2>5 DEF NextStream
<1> QED  BY <1>1, <1>2, <1>3, <1>4, <1>5, <1>6 DEF Main

LEMMA WorkerStream ==
  ASSUME Shape, Numbering, Stream, worker_loop \/ SpuriousWakeup
  PROVE  Stream'
<1> SUFFICES ASSUME NEW d \in Devices, d \notin attached'  PROVE NextStream(d)
  BY StreamNext
<1> USE DEF usb, mainVars, managerVars
<1>0. UNCHANGED <<attached, pending, rest>> /\ StreamOf(d)
  <2>1. UNCHANGED <<attached, pending, step, batch>>
    BY ZenonT(30) DEF worker_loop, Wait, Pop, Break, handle_arrival, handle_departure,
           UnrefEvent, Drain, SpuriousWakeup
  <2> QED  BY <2>1, SMTT(30) DEF Stream, rest
<1>1. CASE Wait \/ Break \/ UnrefEvent \/ SpuriousWakeup
  <2>1. /\ UNCHANGED <<event, queue_, sessions_>>
        /\ worker # "handle" /\ worker' # "handle"
    BY <1>1, SMTT(30) DEF Wait, Break, UnrefEvent, SpuriousWakeup
  <2> QED  BY <1>0, <2>1 DEF StreamOf, NextStream
<1>2. CASE Pop
  <2> DEFINE e == Head(queue_)
  <2>1. /\ queue_ \in Seq(UsbEvent) /\ queue_ # <<>>
        /\ worker # "handle" /\ worker' = "handle" /\ event' = e
        /\ queue_' = Tail(queue_) /\ sessions_' = sessions_
    BY <1>2 DEF Pop, Shape
  <2>2. /\ Has(queue_, d) <=> e = Left(d) \/ Has(queue_', d)
        /\ Covered(queue_, d) => Covered(queue_', d)
        /\ Covered(queue_, d) /\ e = Arrived(d) => Has(queue_', d)
    BY <2>1, TailStream
  <2> HIDE DEF e
  <2>3. /\ Covered(pending', d) /\ (Has(pending', d) <=> Has(pending, d))
        /\ (Covered(rest', d) <=> Covered(rest, d))
        /\ (Has(rest', d) <=> Has(rest, d))
    BY <1>0, SMTT(30) DEF StreamOf
  <2>4. /\ Covered(rest', d) \/ Has(pending', d)
        /\ Covered(queue_', d) \/ Has(rest', d) \/ Has(pending', d)
        /\ event' = Arrived(d) =>
             Has(queue_', d) \/ Has(rest', d) \/ Has(pending', d)
    BY <1>0, <2>1, <2>2, <2>3, SMTT(30) DEF StreamOf
  <2>5. sessions_'[d] # NoSession =>
          event' = Left(d) \/ Has(queue_', d) \/ Has(rest', d) \/ Has(pending', d)
    BY <1>0, <2>1, <2>2, <2>3, SMTT(30) DEF StreamOf
  <2> QED  BY <2>1, <2>3, <2>4, <2>5, ZenonT(30) DEF NextStream
<1>3. CASE handle_arrival
  <2>1. /\ worker = "handle" /\ worker' = "unref" /\ event \in UsbEvent
        /\ event.event = "arrived" /\ UNCHANGED <<event, queue_>>
        /\ event # Left(d)
    BY <1>3, EventsDiffer DEF handle_arrival, Shape
  <2>2. sessions_'[d] # NoSession => sessions_[d] # NoSession \/ event = Arrived(d)
    <3>1. CASE event.device = d
      BY <2>1, <3>1, SMTT(30) DEF UsbEvent, Arrived
    <3>2. CASE event.device # d
      BY <1>3, <3>2, ZenonT(30) DEF handle_arrival, Numbering
    <3> QED  BY <3>1, <3>2, Zenon
  <2> QED  BY <1>0, <2>1, <2>2, SMTT(30) DEF StreamOf, NextStream
<1>4. CASE handle_departure
  <2>1. /\ worker = "handle" /\ worker' = "unref" /\ UNCHANGED <<event, queue_>>
    BY <1>4, SMTT(30) DEF handle_departure
  <2>2. sessions_'[d] # NoSession => sessions_[d] # NoSession /\ event # Left(d)
    <3>1. sessions_'[d] = IF d = event.device THEN NoSession ELSE sessions_[d]
      BY <1>4, ZenonT(30) DEF handle_departure, CloseSessions
    <3>2. event = Left(d) => d = event.device
      BY SMTT(30) DEF Left
    <3> QED  BY <3>1, <3>2, Zenon
  <2> QED  BY <1>0, <2>1, <2>2 DEF StreamOf, NextStream
<1>5. CASE Drain
  <2>1. /\ worker' = "done" /\ queue_' = <<>> /\ queue_ = <<>>
        /\ sessions_'[d] = NoSession
    BY <1>5 DEF Drain, Shape
  <2> QED  BY <1>0, <2>1, ZenonT(30) DEF StreamOf, NextStream
<1> QED  BY <1>1, <1>2, <1>3, <1>4, <1>5 DEF worker_loop

\* A device that leaves puts its departure behind all that is in the stream.
LEMMA BusStream ==
  ASSUME Shape, Stream, Bus \/ request_stop \/ UNCHANGED vars
  PROVE  Stream'
<1> SUFFICES ASSUME NEW d \in Devices, d \notin attached'  PROVE NextStream(d)
  BY StreamNext
<1> USE DEF usb, mainVars, workerVars, managerVars
<1>0. UNCHANGED <<worker, event, queue_, sessions_, rest>>
  <2>1. UNCHANGED <<step, batch, worker, event, queue_, sessions_>>
    BY SMTT(30) DEF Bus, Plug, Unplug, request_stop, vars
  <2> QED  BY <2>1 DEF rest
<1>1. CASE request_stop \/ UNCHANGED vars
  <2>1. UNCHANGED <<attached, pending>>
    BY <1>1, SMTT(30) DEF request_stop, vars
  <2> QED  BY <1>0, <2>1 DEF Stream, StreamOf, NextStream
<1>2. ASSUME NEW a \in Devices, Plug(a)  PROVE NextStream(d)
  <2>1. /\ d # a /\ d \notin attached /\ pending \in Seq(UsbEvent)
        /\ pending' = Append(pending, Arrived(a)) /\ Arrived(a) # Arrived(d)
        /\ Arrived(a) # Left(d) /\ Arrived(a) \in UsbEvent
    BY <1>2, EventsDiffer DEF Plug, Shape
  <2>2. /\ Has(pending', d) <=> Has(pending, d)
        /\ Covered(pending, d) => Covered(pending', d)
    BY <2>1, AppendStream
  <2> QED  BY <1>0, <2>1, <2>2, ZenonT(30) DEF Stream, StreamOf, NextStream
<1>3. ASSUME NEW a \in Devices, Unplug(a)  PROVE NextStream(d)
  <2>1. /\ pending \in Seq(UsbEvent) /\ Left(a) \in UsbEvent
        /\ pending' = Append(pending, Left(a)) /\ Left(a) # Arrived(d)
        /\ d = a \/ d \notin attached
    BY <1>3, EventsDiffer DEF Unplug, Shape
  <2>2. /\ Has(pending', d) <=> Has(pending, d) \/ Left(a) = Left(d)
        /\ Left(a) = Left(d) => Covered(pending', d)
        /\ Covered(pending, d) => Covered(pending', d)
    BY <2>1, AppendStream, SMTT(30)
  <2>3. CASE d = a
    <3>1. Has(pending', d) /\ Covered(pending', d)
      BY <2>2, <2>3, SMTT(30)
    <3> QED  BY <3>1 DEF NextStream
  <2>4. CASE d \notin attached
    <3>1. /\ StreamOf(d)
          /\ Has(pending, d) => Has(pending', d)
          /\ Covered(pending, d) => Covered(pending', d)
      BY <2>2, <2>4 DEF Stream
    <3> QED  BY <1>0, <3>1, Zenon DEF StreamOf, NextStream
  <2> QED  BY <2>1, <2>3, <2>4, SMTT(30)
<1> QED  BY <1>1, <1>2, <1>3 DEF Bus

\* Nothing is on its way at first.
LEMMA InitStream == Init => Stream
<1> SUFFICES ASSUME Init PROVE Stream
  OBVIOUS
<1>1. /\ pending = <<>> /\ rest = <<>> /\ queue_ = <<>> /\ worker = "check"
      /\ sessions_ = [d \in Devices |-> NoSession]
  BY DEF Init, rest
<1> QED  BY <1>1, EmptyStream DEF Stream, StreamOf

-----------------------------------------------------------------------------
(* Theorems *)

Control == Shape /\ Numbering /\ Finished /\ Stream

\* Control is inductive.
LEMMA ControlStep ==
  ASSUME Control, [Next]_vars
  PROVE  Control'
<1> USE DEF Control
<1>1. Shape'
  BY MainShape, WorkerShape, BusShape DEF Next, Exited
<1>2. Numbering' /\ Finished'
  BY NumberingStep, FinishedStep
<1>3. Stream'
  BY MainStream, WorkerStream, BusStream DEF Next, Exited
<1> QED  BY <1>1, <1>2, <1>3

LEMMA ControlInvariance == Spec => []Control
<1>1. Init => Control
  BY InitShape, InitStream DEF Control
<1>2. Control /\ [Next]_vars => Control'
  BY ControlStep
<1> QED  BY <1>1, <1>2, PTL DEF Spec

\* No session outlives its device without a departure on its way to the
\* worker, in whatever order enumeration and hotplug callbacks queue events.
THEOREM NoZombie == Spec => []NoZombieSession
<1>1. Control => NoZombieSession
  <2> SUFFICES ASSUME Control, NEW d \in Devices, sessions_[d] # NoSession, d \notin attached
               PROVE  \/ Has(pending, d) \/ Has(batch, d) \/ Has(queue_, d)
                      \/ worker = "handle" /\ event = Left(d)
    BY DEF NoZombieSession, Has
  <2>1. \/ worker = "handle" /\ event = Left(d)
        \/ Has(queue_, d) \/ Has(rest, d) \/ Has(pending, d)
    BY DEF Control, Stream, StreamOf
  <2>2. Has(rest, d) => Has(batch, d)
    BY TailStream DEF rest, Control, Shape
  <2> QED  BY <2>1, <2>2
<1> QED  BY <1>1, ControlInvariance, PTL

\* Sessions carry distinct generations from 1 on, although the worker starts
\* before generation_ is initialised.
THEOREM GenerationsFresh == Spec => []FreshGenerations
<1>1. Control => FreshGenerations
  BY DEF Control, Numbering
<1> QED  BY <1>1, ControlInvariance, PTL

\* When worker_loop walks the queue without the mutex nothing is in it and no
\* callback can add to it.
THEOREM DrainAlone == Spec => []DrainUncontended
<1>1. Control => DrainUncontended
  BY DEF Control, Shape, Stopped, DrainUncontended
<1> QED  BY <1>1, ControlInvariance, PTL

-----------------------------------------------------------------------------
(* The libusb references of SessionManager, for any number of devices and  *)
(* arrivals: a count for each holder, and the sum of the counts.           *)

LEMMA CountNat ==
  ASSUME NEW s \in Seq(UsbEvent), NEW d
  PROVE  Count(s, d) \in Nat /\ IsFiniteSet({i \in DOMAIN s : s[i].device = d})
<1> DEFINE S == {i \in DOMAIN s : s[i].device = d}
<1>1. DOMAIN s = 1 .. Len(s) /\ Len(s) \in Nat
  BY EventSeq
<1>2. IsFiniteSet(DOMAIN s)
  BY <1>1, FS_Interval
<1>3. IsFiniteSet(S)
  BY <1>2, FS_Subset
<1> QED  BY <1>3, FS_CardinalityType DEF Count

LEMMA CountEmpty == \A d : Count(<<>>, d) = 0
<1> TAKE d
<1>1. {i \in DOMAIN <<>> : <<>>[i].device = d} = {}
  OBVIOUS
<1> QED  BY <1>1, FS_EmptySet DEF Count

LEMMA CountAppend ==
  ASSUME NEW s \in Seq(UsbEvent), NEW e \in UsbEvent, NEW d
  PROVE  Count(Append(s, e), d) = Count(s, d) + (IF e.device = d THEN 1 ELSE 0)
<1> DEFINE t == Append(s, e)
           S == {i \in DOMAIN s : s[i].device = d}
           T == {i \in DOMAIN t : t[i].device = d}
           n == Len(s) + 1
<1>1. /\ Len(s) \in Nat /\ DOMAIN s = 1 .. Len(s) /\ DOMAIN t = 1 .. n
      /\ \A i \in 1 .. Len(s) : t[i] = s[i]
      /\ t[n] = e
  BY EventSeq, AppendedSeq
<1> HIDE DEF t
<1>2. /\ n \notin DOMAIN s /\ \A i : i \in DOMAIN t <=> i \in DOMAIN s \/ i = n
      /\ \A i \in DOMAIN s : t[i] = s[i]
  BY <1>1, SMTT(30)
<1> HIDE DEF n
<1>3. T = IF e.device = d THEN S \cup {n} ELSE S
  BY <1>1, <1>2
<1>4. IsFiniteSet(S) /\ n \notin S /\ Cardinality(S) \in Nat
  BY <1>2, CountNat, Zenon DEF Count
<1>5. Cardinality(S \cup {n}) = Cardinality(S) + 1
  BY <1>4, FS_AddElement, Zenon
<1> HIDE DEF S, T
<1>6. Cardinality(T) = Cardinality(S) + (IF e.device = d THEN 1 ELSE 0)
  BY <1>3, <1>4, <1>5
<1> QED  BY <1>6, Zenon DEF Count, S, T, t

LEMMA CountTail ==
  ASSUME NEW s \in Seq(UsbEvent), s # <<>>, NEW d
  PROVE  Count(s, d) = Count(Tail(s), d) + (IF Head(s).device = d THEN 1 ELSE 0)
<1> DEFINE t == Tail(s)
           S == {i \in DOMAIN s : s[i].device = d}
           T == {i \in DOMAIN t : t[i].device = d}
           f == [i \in T |-> i + 1]
<1>1. /\ Len(s) \in Nat /\ Len(s) > 0 /\ DOMAIN s = 1 .. Len(s)
      /\ t \in Seq(UsbEvent) /\ DOMAIN t = 1 .. (Len(s) - 1)
      /\ \A i \in 1 .. (Len(s) - 1) : t[i] = s[i + 1]
      /\ Head(s) = s[1]
  BY EventSeq, PoppedSeq
<1>2. IsFiniteSet(S) /\ IsFiniteSet(T) /\ Cardinality(T) \in Nat
  <2>1. IsFiniteSet(S)
    BY CountNat, Zenon
  <2>2. IsFiniteSet(T)
    BY <1>1, CountNat, Zenon
  <2> QED  BY <2>1, <2>2, FS_CardinalityType, Zenon
<1> HIDE DEF t
<1>3. /\ \A i \in DOMAIN t : i \in Int /\ i + 1 \in DOMAIN s /\ i + 1 # 1
                             /\ t[i] = s[i + 1]
      /\ \A i \in DOMAIN s : i \in Int
            /\ (i = 1 \/ (i - 1 \in DOMAIN t /\ t[i - 1] = s[i] /\ i = (i - 1) + 1))
      /\ 1 \in DOMAIN s
  BY <1>1
<1>4. f \in [T -> S \ {1}]
  BY <1>3, SMTT(30)
<1>5. IsInjective(f)
  BY <1>3 DEF IsInjective
<1>6. ASSUME NEW j \in S \ {1}  PROVE \E i \in T : f[i] = j
  <2>1. j - 1 \in T /\ f[j - 1] = j
    BY <1>3, <1>6, SMTT(30)
  <2> QED  BY <2>1
<1>7. f \in Bijection(T, S \ {1})
  BY <1>4, <1>5, <1>6 DEF Bijection, Injection, Surjection
<1>8. ExistsBijection(T, S \ {1})
  BY <1>7 DEF ExistsBijection
<1>9. Cardinality(S \ {1}) = Cardinality(T)
  BY <1>2, <1>8, FS_Bijection
<1>10. 1 \in S <=> Head(s).device = d
  BY <1>1, <1>3
<1>11. /\ Cardinality(S) \in Nat
       /\ Cardinality(S \ {1}) = IF 1 \in S THEN Cardinality(S) - 1 ELSE Cardinality(S)
  BY <1>2, FS_RemoveElement, FS_CardinalityType, ZenonT(30)
<1>12. Cardinality(S) = Cardinality(T) + (IF Head(s).device = d THEN 1 ELSE 0)
  BY <1>2, <1>9, <1>10, <1>11
<1> QED  BY <1>12, Zenon DEF Count, t

\* The enumeration calls back once for each listed device.
LEMMA CountEnumeration ==
  ASSUME NEW D \in SUBSET Devices, NEW s \in Enumerations(D), NEW d
  PROVE  Count(s, d) = IF d \in D THEN 1 ELSE 0
<1> DEFINE C == {i \in DOMAIN s : s[i].device = d}
<1>1. /\ \A i \in DOMAIN s : \E a \in D : s[i] = Arrived(a)
      /\ \A i, j \in DOMAIN s : s[i] = s[j] => i = j
      /\ \A a \in D : \E i \in DOMAIN s : s[i] = Arrived(a)
  BY EnumerationIsArrivals
<1>2. ASSUME NEW i \in DOMAIN s, s[i].device = d  PROVE s[i] = Arrived(d) /\ d \in D
  <2>1. PICK a \in D : s[i] = Arrived(a)
    BY <1>1
  <2>2. a = d
    BY <1>2, <2>1, EventsDiffer
  <2> QED  BY <2>1, <2>2
<1>3. CASE d \in D
  <2>1. PICK i \in DOMAIN s : s[i] = Arrived(d)
    BY <1>1, <1>3
  <2>2. i \in C
    BY <2>1, EventsDiffer
  <2>3. C = {i}
    BY <1>1, <1>2, <2>1, <2>2
  <2> QED  BY <1>3, <2>3, FS_Singleton, Zenon DEF Count
<1>4. CASE d \notin D
  <2>1. C = {}
    BY <1>2, <1>4
  <2> QED  BY <1>4, <2>1, FS_EmptySet, Zenon DEF Count
<1> QED  BY <1>3, <1>4

Single(s, d) ==
  \A i, j \in DOMAIN s : s[i] = Left(d) /\ s[j] = Left(d) => i = j

\* A device leaves libusb's list once: it is attached, or its departure waits
\* to be dispatched, or is being dispatched.
Departure(d) ==
  /\ Single(pending, d)
  /\ d \in attached => ~ Has(pending, d)
  /\ main = "events" => Single(batch, d)
  /\ main = "events" /\ Has(batch, d) => d \notin attached /\ ~ Has(pending, d)

\* The holders of references, one by one.
ListRef(d) == IF Listed(d) THEN 1 ELSE 0
Enumerated(d) == IF main = "enumerate" THEN Count(batch, d) ELSE 0
Queued(d) == Count(queue_, d)
InHand(d) == IF worker \in {"handle", "unref"} /\ event.device = d THEN 1 ELSE 0
Opened(d) == IF sessions_[d] # NoSession THEN 2 ELSE 0

BalanceOf(d) ==
  /\ Departure(d)
  /\ refs[d] = ListRef(d) + Enumerated(d) + Queued(d) + InHand(d) + Opened(d)

Balance == refs \in [Devices -> Int] /\ \A d \in Devices : BalanceOf(d)

LEMMA AppendSingle ==
  ASSUME NEW s \in Seq(UsbEvent), NEW e \in UsbEvent, NEW d,
         Single(s, d), e = Left(d) => ~ Has(s, d)
  PROVE  Single(Append(s, e), d)
<1>1. /\ Len(s) \in Nat /\ DOMAIN s = 1 .. Len(s)
      /\ DOMAIN Append(s, e) = 1 .. (Len(s) + 1)
      /\ \A i \in 1 .. Len(s) : Append(s, e)[i] = s[i]
      /\ Append(s, e)[Len(s) + 1] = e
  BY EventSeq, AppendedSeq
<1>2. \A i \in 1 .. (Len(s) + 1) : i \in 1 .. Len(s) \/ i = Len(s) + 1
  BY <1>1
<1> QED  BY <1>1, <1>2 DEF Single, Has

LEMMA TailSingle ==
  ASSUME NEW s \in Seq(UsbEvent), s # <<>>, NEW d, Single(s, d)
  PROVE  Single(Tail(s), d) /\ (Head(s) = Left(d) => ~ Has(Tail(s), d))
<1> DEFINE t == Tail(s)
<1>1. /\ Len(s) \in Nat /\ Len(s) > 0 /\ DOMAIN s = 1 .. Len(s)
      /\ DOMAIN t = 1 .. (Len(s) - 1)
      /\ \A i \in 1 .. (Len(s) - 1) : t[i] = s[i + 1]
      /\ Head(s) = s[1]
  BY EventSeq, PoppedSeq
<1> HIDE DEF t
<1>2. /\ \A i \in DOMAIN t : i \in Int /\ i + 1 \in DOMAIN s /\ i + 1 # 1
                             /\ t[i] = s[i + 1]
      /\ 1 \in DOMAIN s
  BY <1>1
<1>3. Single(t, d)
  BY <1>2 DEF Single
<1>4. Head(s) = Left(d) => ~ Has(t, d)
  BY <1>1, <1>2 DEF Single, Has
<1> QED  BY <1>3, <1>4 DEF t

LEMMA EmptySingle == \A d : Single(<<>>, d)
BY DEF Single

LEMMA ListedIs ==
  ASSUME NEW d
  PROVE  Listed(d) <=> \/ d \in attached \/ Has(pending, d)
                       \/ main = "events" /\ Has(batch, d)
BY DEF Listed, Has

LEMMA HolderTypes ==
  ASSUME Shape, NEW d
  PROVE  /\ ListRef(d) \in 0 .. 1 /\ Enumerated(d) \in Nat /\ Queued(d) \in Nat
         /\ InHand(d) \in 0 .. 1 /\ Opened(d) \in Nat
<1>1. Count(queue_, d) \in Nat /\ Count(batch, d) \in Nat
  BY CountNat, Zenon DEF Shape
<1> QED  BY <1>1 DEF ListRef, Enumerated, Queued, InHand, Opened

LEMMA InitBalance == Init => Balance
<1> SUFFICES ASSUME Init PROVE Balance
  OBVIOUS
<1>1. /\ pending = <<>> /\ batch = <<>> /\ queue_ = <<>> /\ rest = <<>>
      /\ main = "construct" /\ worker = "check"
      /\ sessions_ = [d \in Devices |-> NoSession]
      /\ refs = [d \in Devices |-> IF d \in attached THEN 1 ELSE 0]
  BY DEF Init, rest
<1>3. refs \in [Devices -> Int]
  BY <1>1
<1>4. ASSUME NEW d \in Devices  PROVE BalanceOf(d)
  <2>1. Departure(d)
    BY <1>1, EmptySingle, EmptyStream DEF Departure
  <2>2. Listed(d) <=> d \in attached
    BY <1>1, EmptyStream, ListedIs
  <2>3. /\ ListRef(d) = (IF d \in attached THEN 1 ELSE 0)
        /\ Enumerated(d) = 0 /\ Queued(d) = 0
        /\ InHand(d) = 0 /\ Opened(d) = 0
    BY <1>1, <2>2, CountEmpty DEF ListRef, Enumerated, Queued, InHand, Opened
  <2> QED  BY <1>1, <2>1, <2>3 DEF BalanceOf
<1> QED  BY <1>3, <1>4 DEF Balance

\* The steps of the main thread that call back nobody.
LEMMA MainSilent ==
  ASSUME Shape, Balance, NEW d \in Devices,
         \/ Construct \/ Registered \/ EventsHandled \/ LeaveLoop \/ Deregister
         \/ stop \/ StopNotify \/ Join \/ Exit
  PROVE  BalanceOf(d)' /\ refs' = refs
<1> USE DEF usb, mainVars, workerVars, managerVars
<1>1. /\ batch = <<>> /\ main' # "enumerate" /\ main' # "events"
      /\ UNCHANGED <<attached, refs, pending, batch, event, queue_, sessions_>>
      /\ worker' \in {"handle", "unref"} <=> worker \in {"handle", "unref"}
  BY DEF Shape, Construct, Registered, EventsHandled, LeaveLoop, Deregister,
         stop, StopNotify, notify_one, Join, Exit
<1>2. ~ Has(batch, d) /\ Count(batch, d) = 0
  BY <1>1, EmptyStream, CountEmpty
<1>3. Listed(d)' <=> Listed(d)
  BY <1>1, <1>2 DEF Listed, Has
<1>4. /\ ListRef(d)' = ListRef(d) /\ Enumerated(d)' = Enumerated(d)
      /\ Queued(d)' = Queued(d) /\ InHand(d)' = InHand(d) /\ Opened(d)' = Opened(d)
  BY <1>1, <1>2, <1>3 DEF ListRef, Enumerated, Queued, InHand, Opened
<1>5. BalanceOf(d)
  BY DEF Balance
<1>6. Departure(d)'
  BY <1>1, <1>5 DEF BalanceOf, Departure, Single, Has
<1> QED  BY <1>1, <1>4, <1>5, <1>6, ZenonT(60) DEF BalanceOf

LEMMA EnqueueBalance ==
  ASSUME Shape, Balance, NEW d \in Devices, enqueue
  PROVE  BalanceOf(d)' /\ refs' \in [Devices -> Int]
<1> USE DEF usb, mainVars, workerVars, managerVars
<1> DEFINE e == Head(batch)
<1>1. /\ batch \in Seq(UsbEvent) /\ batch # <<>> /\ queue_ \in Seq(UsbEvent)
      /\ ~ stopping_
  BY Zenon DEF enqueue, Shape, Stopped
<1>2. e \in UsbEvent /\ e.device \in Devices
  <2>1. e \in UsbEvent
    BY <1>1, PoppedSeq
  <2> QED  BY <2>1 DEF UsbEvent
<1>3. /\ refs' = [refs EXCEPT ![e.device] = @ + 1]
      /\ queue_' = Append(queue_, e)
      /\ UNCHANGED <<attached, pending, main, batch, worker, event, sessions_>>
  BY <1>1 DEF enqueue
<1> HIDE DEF e
<1>4. BalanceOf(d) /\ refs \in [Devices -> Int]
  BY DEF Balance
<1>5. refs' \in [Devices -> Int] /\ refs'[d] = refs[d] + (IF e.device = d THEN 1 ELSE 0)
  BY <1>2, <1>3, <1>4
<1>6. Queued(d)' = Queued(d) + (IF e.device = d THEN 1 ELSE 0)
  BY <1>1, <1>2, <1>3, CountAppend, SMTT(60) DEF Queued
<1>7. /\ ListRef(d)' = ListRef(d) /\ Enumerated(d)' = Enumerated(d)
      /\ InHand(d)' = InHand(d) /\ Opened(d)' = Opened(d)
  BY <1>3, SMTT(60) DEF ListRef, Listed, Enumerated, InHand, Opened
<1>8. Departure(d)'
  BY <1>3, <1>4 DEF BalanceOf, Departure, Single, Has
<1> QED  BY <1>4, <1>5, <1>6, <1>7, <1>8, HolderTypes, SMTT(60) DEF BalanceOf

LEMMA NotifyBalance ==
  ASSUME Shape, Balance, NEW d \in Devices, EnqueueNotify
  PROVE  BalanceOf(d)' /\ refs' \in [Devices -> Int]
<1> USE DEF usb, mainVars, workerVars, managerVars
<1> DEFINE e == Head(batch)
           drop == main = "enumerate" \/ e.event = "left"
<1>1. /\ batch \in Seq(UsbEvent) /\ batch # <<>> /\ main \in {"enumerate", "events"}
      /\ main = "enumerate" => \A i \in DOMAIN batch : batch[i].event = "arrived"
  BY DEF EnqueueNotify, Shape
<1>2. e \in UsbEvent /\ e.device \in Devices
  <2>1. e \in UsbEvent
    BY <1>1, PoppedSeq, SMTT(60)
  <2> QED  BY <2>1 DEF UsbEvent
<1>3. /\ refs' = IF drop THEN [refs EXCEPT ![e.device] = @ - 1] ELSE refs
      /\ batch' = Tail(batch)
      /\ UNCHANGED <<attached, pending, main, event, queue_, sessions_>>
      /\ worker' \in {"handle", "unref"} <=> worker \in {"handle", "unref"}
  BY DEF EnqueueNotify, notify_one
<1>4. BalanceOf(d) /\ refs \in [Devices -> Int] /\ refs[d] \in Int
  BY DEF Balance
<1>5. /\ Count(batch, d) = Count(batch', d) + (IF e.device = d THEN 1 ELSE 0)
      /\ Count(batch', d) \in Nat
  BY <1>1, <1>3, CountTail, CountNat, PoppedSeq, ZenonT(60)
<1>6. Has(batch, d) <=> e = Left(d) \/ Has(batch', d)
  BY <1>1, <1>3, TailStream, SMTT(60)
<1>7. main = "events" => Single(batch', d) /\ (e = Left(d) => ~ Has(batch', d))
  BY <1>1, <1>3, <1>4, TailSingle, SMTT(60) DEF BalanceOf, Departure
<1>8. e = Left(d) <=> e.device = d /\ e.event = "left"
  BY <1>2 DEF UsbEvent, Left
<1> HIDE DEF e
<1>9. /\ refs' \in [Devices -> Int]
      /\ refs'[d] = refs[d] - (IF drop /\ e.device = d THEN 1 ELSE 0)
  BY <1>2, <1>3, <1>4, SMTT(60)
<1>10. Departure(d)
  BY <1>4, SMTT(60) DEF BalanceOf
<1>11. /\ Queued(d)' = Queued(d) /\ InHand(d)' = InHand(d) /\ Opened(d)' = Opened(d)
  BY <1>3, SMTT(60) DEF Queued, InHand, Opened
<1>12. Departure(d)'
  BY <1>3, <1>6, <1>7, <1>10, SMTT(60) DEF Departure, Single, Has
<1>13. CASE main = "enumerate"
  <2>1. ListRef(d)' = ListRef(d)
    BY <1>3, <1>13, ZenonT(60) DEF ListRef, Listed
  <2>2. Enumerated(d)' = Enumerated(d) - (IF e.device = d THEN 1 ELSE 0)
    BY <1>3, <1>5, <1>13, SMTT(60) DEF Enumerated
  <2> QED
    BY <1>4, <1>9, <1>11, <1>12, <1>13, <2>1, <2>2, HolderTypes, SMTT(60) DEF BalanceOf
<1>14. CASE main = "events"
  <2>1. Enumerated(d)' = Enumerated(d)
    BY <1>3, <1>14 DEF Enumerated
  <2>2. Listed(d) <=> d \in attached \/ Has(pending, d) \/ Has(batch, d)
    BY <1>14, ListedIs, ZenonT(60)
  <2>3. Listed(d)' <=> d \in attached \/ Has(pending, d) \/ Has(batch', d)
    BY <1>3, <1>14, SMTT(60) DEF Listed, Has
  <2>4. ListRef(d)' = ListRef(d) - (IF e = Left(d) THEN 1 ELSE 0)
    BY <1>6, <1>7, <1>10, <1>14, <2>2, <2>3, SMTT(60) DEF ListRef, Departure
  <2> QED
    BY <1>4, <1>8, <1>9, <1>11, <1>12, <1>14, <2>1, <2>4, HolderTypes, SMTT(60) DEF BalanceOf
<1> QED  BY <1>1, <1>9, <1>13, <1>14, ZenonT(60)

LEMMA HandleEventsBalance ==
  ASSUME Shape, Balance, NEW d \in Devices, HandleEvents
  PROVE  BalanceOf(d)' /\ refs' = refs
<1> USE DEF usb, mainVars, workerVars, managerVars
<1>1. /\ batch = <<>> /\ main = "loop" /\ main' = "events"
      /\ batch' = pending /\ pending' = <<>>
      /\ UNCHANGED <<attached, refs, worker, event, queue_, sessions_>>
  BY DEF HandleEvents, Shape
<1>2. ~ Has(pending', d) /\ Single(pending', d)
  BY <1>1, EmptyStream, EmptySingle
<1>3. BalanceOf(d)
  BY DEF Balance
<1>4. Listed(d)' <=> Listed(d)
  BY <1>1, <1>2, SMTT(60) DEF Listed, Has
<1>5. /\ ListRef(d)' = ListRef(d) /\ Enumerated(d)' = Enumerated(d)
      /\ Queued(d)' = Queued(d) /\ InHand(d)' = InHand(d) /\ Opened(d)' = Opened(d)
  BY <1>1, <1>4, SMTT(60) DEF ListRef, Enumerated, Queued, InHand, Opened
<1>6. Departure(d)'
  BY <1>1, <1>2, <1>3, SMTT(60) DEF BalanceOf, Departure, Single, Has
<1> QED  BY <1>1, <1>3, <1>5, <1>6, SMTT(60) DEF BalanceOf

LEMMA RegisterBalance ==
  ASSUME Shape, Balance, NEW d \in Devices, Register
  PROVE  BalanceOf(d)' /\ refs' \in [Devices -> Int]
<1> USE DEF usb, mainVars, workerVars, managerVars
<1>1. /\ batch = <<>> /\ main = "register" /\ main' # "events"
      /\ UNCHANGED <<attached, pending, worker, event, queue_, sessions_>>
  BY DEF Register, Shape
<1>2. BalanceOf(d) /\ refs \in [Devices -> Int] /\ attached \in SUBSET Devices
  BY ZenonT(60) DEF Balance, Shape
<1>3. Departure(d)'
  BY <1>1, <1>2, SMTT(60) DEF BalanceOf, Departure, Single, Has
<1>4. Listed(d)' <=> Listed(d)
  BY <1>1, SMTT(60) DEF Listed
<1>5. /\ ListRef(d)' = ListRef(d) /\ Enumerated(d) = 0
      /\ Queued(d)' = Queued(d) /\ InHand(d)' = InHand(d) /\ Opened(d)' = Opened(d)
  BY <1>1, <1>4, SMTT(60) DEF ListRef, Enumerated, Queued, InHand, Opened
<1>6. CASE /\ main' = "enumerate"
           /\ batch' \in Enumerations(attached)
           /\ refs' = [a \in Devices |-> IF a \in attached THEN refs[a] + 1 ELSE refs[a]]
  <2>1. Count(batch', d) = IF d \in attached THEN 1 ELSE 0
    BY <1>2, <1>6, CountEnumeration, ZenonT(60)
  <2>2. Enumerated(d)' = IF d \in attached THEN 1 ELSE 0
    BY <1>6, <2>1 DEF Enumerated
  <2>3. /\ refs' \in [Devices -> Int]
        /\ refs'[d] = refs[d] + (IF d \in attached THEN 1 ELSE 0)
    BY <1>2, <1>6, SMTT(60)
  <2> QED  BY <1>2, <1>3, <1>5, <2>2, <2>3, HolderTypes, SMTT(60) DEF BalanceOf
<1>7. CASE main' = "stop" /\ UNCHANGED <<batch, refs>>
  <2>1. Enumerated(d)' = 0
    BY <1>7 DEF Enumerated
  <2> QED  BY <1>2, <1>3, <1>5, <1>7, <2>1, HolderTypes, SMTT(60) DEF BalanceOf
<1> QED  BY <1>6, <1>7, ZenonT(60) DEF Register

LEMMA WorkerBalance ==
  ASSUME Shape, Numbering, Balance, NEW d \in Devices, worker_loop \/ SpuriousWakeup
  PROVE  BalanceOf(d)' /\ refs' \in [Devices -> Int]
<1> USE DEF usb, mainVars, managerVars
<1>0. UNCHANGED <<attached, pending, main, batch>>
  BY Zenon DEF worker_loop, Wait, Pop, Break, handle_arrival, handle_departure,
         UnrefEvent, Drain, SpuriousWakeup
<1>1. BalanceOf(d) /\ refs \in [Devices -> Int] /\ refs[d] \in Int
  BY SMTT(60) DEF Balance
<1>2. Departure(d)' /\ ListRef(d)' = ListRef(d) /\ Enumerated(d)' = Enumerated(d)
  BY <1>0, <1>1, ZenonT(60) DEF BalanceOf, Departure, Single, Has, ListRef, Listed, Enumerated
<1>3. CASE Wait \/ Break \/ SpuriousWakeup
  <2>1. /\ UNCHANGED <<refs, event, queue_, sessions_>>
        /\ worker \notin {"handle", "unref"} /\ worker' \notin {"handle", "unref"}
    BY <1>3 DEF Wait, Break, SpuriousWakeup
  <2>2. Queued(d)' = Queued(d) /\ InHand(d)' = InHand(d) /\ Opened(d)' = Opened(d)
    BY <2>1, SMTT(60) DEF Queued, InHand, Opened
  <2> QED  BY <1>1, <1>2, <2>1, <2>2, SMTT(60) DEF BalanceOf
<1>4. CASE Pop
  <2>1. /\ queue_ \in Seq(UsbEvent) /\ queue_ # <<>> /\ queue_' = Tail(queue_)
        /\ worker = "check" /\ worker' = "handle" /\ event' = Head(queue_)
        /\ UNCHANGED <<refs, sessions_>>
    BY <1>4 DEF Pop, Shape
  <2>2. Queued(d) = Queued(d)' + (IF event'.device = d THEN 1 ELSE 0)
    BY <2>1, CountTail DEF Queued
  <2>3. InHand(d) = 0 /\ InHand(d)' = IF event'.device = d THEN 1 ELSE 0
    BY <2>1 DEF InHand
  <2>4. Queued(d)' \in Nat
    BY <2>1, CountNat, PoppedSeq, ZenonT(60) DEF Queued
  <2>5. Opened(d)' = Opened(d) /\ refs' = refs
    BY <2>1 DEF Opened
  <2> QED
    BY <1>1, <1>2, <2>2, <2>3, <2>4, <2>5, HolderTypes, SMTT(60) DEF BalanceOf
<1>5. CASE handle_arrival \/ handle_departure
  <2>1. /\ worker = "handle" /\ worker' = "unref" /\ event \in UsbEvent
        /\ event.device \in Devices /\ UNCHANGED <<event, queue_>>
    BY <1>5 DEF handle_arrival, handle_departure, Shape, UsbEvent
  <2>2. Queued(d)' = Queued(d) /\ InHand(d)' = InHand(d)
    BY <2>1 DEF Queued, InHand
  <2>3. refs' \in [Devices -> Int] /\ refs'[d] - refs[d] = Opened(d)' - Opened(d)
    <3>1. CASE handle_arrival
      BY <1>1, <2>1, <3>1, SMTT(60) DEF handle_arrival, Opened, NoSession, Numbering
    <3>2. CASE handle_departure
      <4>1. /\ sessions_'[d] = IF d = event.device THEN NoSession ELSE sessions_[d]
            /\ refs'[d] = IF d = event.device /\ sessions_[d] # NoSession
                            THEN refs[d] - 2 ELSE refs[d]
            /\ refs' \in [Devices -> Int]
        <5>1. CloseSessions({event.device})
          BY <3>2, ZenonT(60) DEF handle_departure
        <5>2. d \in {event.device} <=> d = event.device
          BY ZenonT(60)
        <5>3. /\ refs' \in [Devices -> Int]
              /\ sessions_'[d] = IF d \in {event.device} THEN NoSession ELSE sessions_[d]
              /\ refs'[d] = IF d \in {event.device} /\ sessions_[d] # NoSession
                              THEN refs[d] - 2 ELSE refs[d]
          BY <1>1, <5>1, ClosedRefs, ZenonT(60)
        <5> QED  BY <5>2, <5>3, ZenonT(60)
      <4>2. CASE d = event.device
        BY <1>1, <4>1, <4>2, SMTT(60) DEF Opened
      <4>3. CASE d # event.device
        BY <1>1, <4>1, <4>3, SMTT(60) DEF Opened
      <4> QED  BY <4>1, <4>2, <4>3, ZenonT(60)
    <3> QED  BY <1>5, <3>1, <3>2, ZenonT(60)
  <2> DEFINE others == ListRef(d) + Enumerated(d) + Queued(d) + InHand(d)
  <2>4. others \in Int /\ Opened(d) \in Int /\ Opened(d)' \in Int
    BY HolderTypes DEF Opened
  <2>5. refs[d] = others + Opened(d)
    BY <1>1 DEF BalanceOf
  <2>6. refs[d] \in Int /\ refs'[d] \in Int /\ refs'[d] - refs[d] = Opened(d)' - Opened(d)
    BY <1>1, <2>3
  <2>7. refs'[d] = others + Opened(d)'
    <3> HIDE DEF others
    <3> QED  BY <2>4, <2>5, <2>6
  <2>8. refs'[d] = ListRef(d)' + Enumerated(d)' + Queued(d)' + InHand(d)' + Opened(d)'
    BY <1>2, <2>2, <2>7, ZenonT(60)
  <2> QED  BY <1>2, <2>3, <2>8, ZenonT(60) DEF BalanceOf
<1>6. CASE UnrefEvent
  <2>1. /\ worker = "unref" /\ worker' = "check"
        /\ event \in UsbEvent /\ event.device \in Devices
        /\ UNCHANGED <<event, queue_, sessions_>>
        /\ refs' = [refs EXCEPT ![event.device] = @ - 1]
    <3>1. /\ worker = "unref" /\ worker' = "check"
          /\ UNCHANGED <<event, queue_, sessions_>>
          /\ refs' = [refs EXCEPT ![event.device] = @ - 1]
      BY <1>6 DEF UnrefEvent
    <3>2. event \in UsbEvent  BY <3>1 DEF Shape
    <3>3. event.device \in Devices  BY <3>2 DEF UsbEvent
    <3> QED  BY <3>1, <3>2, <3>3
  <2>2. /\ Queued(d)' = Queued(d) /\ Opened(d)' = Opened(d) /\ InHand(d)' = 0
        /\ InHand(d) = IF event.device = d THEN 1 ELSE 0
    BY <2>1 DEF Queued, Opened, InHand
  <2>3. /\ refs' \in [Devices -> Int]
        /\ refs'[d] = refs[d] - (IF event.device = d THEN 1 ELSE 0)
    BY <1>1, <2>1, SMTT(60)
  <2> QED
    BY <1>1, <1>2, <2>2, <2>3, HolderTypes, SMTT(60) DEF BalanceOf
<1>7. CASE Drain
  <2>1. /\ worker = "drain" /\ worker' = "done" /\ queue_ = <<>> /\ queue_' = <<>>
        /\ sessions_' = [a \in Devices |-> NoSession]
        /\ refs' = [a \in Devices |-> refs[a] - Count(queue_, a)
                       - (IF sessions_[a] # NoSession THEN 2 ELSE 0)]
    BY <1>7 DEF Drain, Shape
  <2>2. \A a \in Devices : Count(queue_, a) = 0
    BY <2>1, CountEmpty
  <2>3. /\ refs' \in [Devices -> Int] /\ refs'[d] = refs[d] - Opened(d)
        /\ Opened(d)' = 0
    BY <1>1, <2>1, <2>2, SMTT(60) DEF Opened
  <2>4. Queued(d)' = Queued(d) /\ InHand(d)' = InHand(d)
    BY <2>1 DEF Queued, InHand
  <2> QED
    BY <1>1, <1>2, <2>3, <2>4, HolderTypes, SMTT(60) DEF BalanceOf
<1> QED  BY <1>3, <1>4, <1>5, <1>6, <1>7, ZenonT(60) DEF worker_loop

\* The bus reuses a pointer only when no holder is left.
LEMMA BusBalance ==
  ASSUME Shape, Balance, NEW d \in Devices, Bus \/ request_stop \/ UNCHANGED vars
  PROVE  BalanceOf(d)' /\ refs' \in [Devices -> Int]
<1> USE DEF usb, mainVars, workerVars, managerVars
<1>0. UNCHANGED <<main, batch, worker, event, queue_, sessions_>>
  BY DEF Bus, Plug, Unplug, request_stop, vars
<1>1. BalanceOf(d) /\ refs \in [Devices -> Int] /\ refs[d] \in Int
  BY DEF Balance
<1>2. /\ Enumerated(d)' = Enumerated(d) /\ Queued(d)' = Queued(d)
      /\ InHand(d)' = InHand(d) /\ Opened(d)' = Opened(d)
  BY <1>0 DEF Enumerated, Queued, InHand, Opened
<1>3. Departure(d)
  BY <1>1 DEF BalanceOf
<1>4. Listed(d)' <=> \/ d \in attached' \/ Has(pending', d)
                     \/ main = "events" /\ Has(batch, d)
  BY <1>0 DEF Listed, Has
<1>5. CASE request_stop \/ UNCHANGED vars
  <2>1. UNCHANGED <<attached, refs, pending>>
    BY <1>5, SMTT(60) DEF request_stop, vars
  <2>2. Departure(d)' /\ ListRef(d)' = ListRef(d)
    BY <1>0, <1>3, <2>1, ZenonT(60) DEF Departure, Single, Has, ListRef, Listed
  <2> QED  BY <1>1, <1>2, <2>1, <2>2, SMTT(60) DEF BalanceOf
<1>6. ASSUME NEW a \in Devices, Plug(a)
      PROVE  BalanceOf(d)' /\ refs' \in [Devices -> Int]
  <2>1. /\ pending \in Seq(UsbEvent) /\ pending' = Append(pending, Arrived(a))
        /\ Arrived(a) \in UsbEvent /\ Arrived(a) # Left(d)
        /\ attached' = attached \cup {a} /\ refs' = [refs EXCEPT ![a] = 1]
        /\ refs[a] = 0
    BY <1>6, EventsDiffer, SMTT(60) DEF Plug, Shape
  <2>2. (Has(pending', d) <=> Has(pending, d)) /\ Single(pending', d)
    BY <1>3, <2>1, AppendStream, AppendSingle, SMTT(60) DEF Departure
  <2>3. refs' \in [Devices -> Int] /\ refs'[d] = IF d = a THEN 1 ELSE refs[d]
    BY <1>1, <2>1, SMTT(60)
  <2>4. CASE d = a
    <3>1. /\ ListRef(d) = 0 /\ Enumerated(d) = 0 /\ Queued(d) = 0
          /\ InHand(d) = 0 /\ Opened(d) = 0
      <4>1. ListRef(d) + Enumerated(d) + Queued(d) + InHand(d) + Opened(d) = 0
        BY <1>1, <2>1, <2>4, SMTT(60) DEF BalanceOf
      <4>2. /\ ListRef(d) \in Nat /\ Enumerated(d) \in Nat /\ Queued(d) \in Nat
            /\ InHand(d) \in Nat /\ Opened(d) \in Nat
        BY HolderTypes
      <4> QED  BY <4>1, <4>2, SMTT(60)
    <3>2. ~ Listed(d)
      BY <3>1 DEF ListRef
    <3>3. ~ Has(pending, d) /\ ~ (main = "events" /\ Has(batch, d))
      BY <3>2, ListedIs, SMTT(60)
    <3>4. Departure(d)'
      <4>1. /\ Single(pending', d) /\ ~ Has(pending', d)
            /\ main' = "events" => Single(batch', d) /\ ~ Has(batch', d)
        BY <1>0, <1>3, <2>2, <3>3, SMTT(60) DEF Departure
      <4> QED  BY <4>1, SMTT(60) DEF Departure, Single, Has
    <3>5. ListRef(d)' = 1
      BY <1>4, <2>1, <2>4 DEF ListRef
    <3>6. refs'[d] = 1
      BY <2>3, <2>4, SMTT(60)
    <3> QED  BY <1>2, <2>3, <3>1, <3>4, <3>5, <3>6, SMTT(60) DEF BalanceOf
  <2>5. CASE d # a
    <3>1. Departure(d)'
      <4>1. d \in attached' <=> d \in attached BY <2>1, <2>5
      <4>2. /\ Single(pending', d)
            /\ d \in attached' => ~ Has(pending', d)
            /\ main' = "events" => Single(batch', d)
            /\ main' = "events" /\ Has(batch', d) => d \notin attached' /\ ~ Has(pending', d)
        BY <1>0, <1>3, <2>2, <4>1, Zenon DEF Departure
      <4> QED  BY <4>2, SMTT(60) DEF Departure, Single, Has
    <3>2. Listed(d)' <=> Listed(d)
      BY <1>4, <2>1, <2>2, <2>5, ListedIs, SMTT(60)
    <3>3. ListRef(d)' = ListRef(d)
      BY <3>2, SMTT(60) DEF ListRef
    <3> QED  BY <1>1, <1>2, <2>3, <2>5, <3>1, <3>3, SMTT(60) DEF BalanceOf
  <2> QED  BY <2>4, <2>5, ZenonT(60)
<1>7. ASSUME NEW a \in Devices, Unplug(a)
      PROVE  BalanceOf(d)' /\ refs' \in [Devices -> Int]
  <2>1. /\ pending \in Seq(UsbEvent) /\ pending' = Append(pending, Left(a))
        /\ Left(a) \in UsbEvent /\ (Left(a) = Left(d) <=> a = d)
        /\ a \in attached /\ attached' = attached \ {a} /\ refs' = refs
    BY <1>7, EventsDiffer DEF Unplug, Shape
  <2>2. Has(pending', d) <=> Has(pending, d) \/ a = d
    BY <2>1, AppendStream, SMTT(60)
  <2>3. Single(pending', d)
    BY <1>3, <2>1, AppendSingle, SMTT(60) DEF Departure
  <2>4. Departure(d)'
    <3>1. d \in attached' <=> d \in attached /\ d # a BY <2>1
    <3>2. /\ Single(pending', d)
          /\ d \in attached' => ~ Has(pending', d)
          /\ main' = "events" => Single(batch', d)
          /\ main' = "events" /\ Has(batch', d) => d \notin attached' /\ ~ Has(pending', d)
      BY <1>0, <1>3, <2>1, <2>2, <2>3, <3>1, Zenon DEF Departure
    <3> QED  BY <3>2, SMTT(60) DEF Departure, Single, Has
  <2>5. Listed(d)' <=> Listed(d)
    BY <1>4, <2>1, <2>2, ListedIs, SMTT(60)
  <2>6. ListRef(d)' = ListRef(d)
    BY <2>5 DEF ListRef
  <2> QED  BY <1>1, <1>2, <2>1, <2>4, <2>6, SMTT(60) DEF BalanceOf
<1> QED  BY <1>5, <1>6, <1>7, ZenonT(60) DEF Bus

-----------------------------------------------------------------------------
(* Theorems *)

Inv == Control /\ Balance

LEMMA Invariance == Spec => []Inv
<1>1. Init => Inv
  BY InitShape, InitStream, InitBalance DEF Inv, Control
<1>2. ASSUME Inv, [Next]_vars  PROVE Inv'
  <2>1. Shape /\ Numbering /\ Balance
    BY <1>2 DEF Inv, Control
  <2>2. Control'
    BY <1>2, ControlStep DEF Inv
  <2>3. ASSUME NEW d \in Devices  PROVE BalanceOf(d)' /\ refs' \in [Devices -> Int]
    <3>1. CASE Main
      BY <2>1, <2>3, <3>1, MainSilent, EnqueueBalance, NotifyBalance, HandleEventsBalance,
         RegisterBalance, SMTT(60) DEF Main, Balance
    <3>2. CASE worker_loop \/ SpuriousWakeup
      BY <2>1, <2>3, <3>2, WorkerBalance, SMTT(60)
    <3>3. CASE Bus \/ request_stop \/ UNCHANGED vars
      BY <2>1, <2>3, <3>3, BusBalance, SMTT(60)
    <3> QED  BY <1>2, <3>1, <3>2, <3>3, ZenonT(60) DEF Next, Exited
  <2>4. refs' \in [Devices -> Int]
    <3>1. PICK d \in Devices : TRUE  BY SessionAssumption, Zenon
    <3> QED  BY <2>3, <3>1, Zenon
  <2> QED  BY <2>2, <2>3, <2>4 DEF Inv, Balance
<1> QED  BY <1>1, <1>2, PTL DEF Spec

\* The reference counts: with any number of devices, arrivals and departures,
\* every reference is held by exactly one of libusb's list, the enumeration,
\* the queue, the worker and a session.
THEOREM RefsBalanced == Spec => []RefsBalance
<1>1. Inv => RefsBalance
  <2> SUFFICES ASSUME Inv, NEW d \in Devices  PROVE refs[d] = Holders(d)
    BY Zenon DEF RefsBalance
  <2>1. BalanceOf(d)  BY Zenon DEF Inv, Balance
  <2> QED
    BY <2>1, Zenon DEF BalanceOf, Holders, ListRef, Enumerated, Queued, InHand, Opened
<1> QED  BY <1>1, Invariance, PTL

\* libusb_exit finds the worker done, every session closed and no reference
\* left but those of libusb's own list.
THEOREM CleanExit == Spec => []ExitIsClean
<1>1. Inv => ExitIsClean
  <2> SUFFICES ASSUME Inv, main \in {"exit", "exited"}, NEW d \in Devices
               PROVE  /\ worker = "done" /\ sessions_[d] = NoSession
                      /\ refs[d] = IF Listed(d) THEN 1 ELSE 0
    BY DEF ExitIsClean, Inv, Control, Finished
  <2>1. worker = "done" /\ sessions_[d] = NoSession /\ queue_ = <<>>
    BY DEF Inv, Control, Finished, Shape
  <2>2. Enumerated(d) = 0 /\ Queued(d) = 0 /\ InHand(d) = 0 /\ Opened(d) = 0
    BY <2>1, CountEmpty, SMTT(60) DEF Enumerated, Queued, InHand, Opened
  <2>3. /\ refs[d] = ListRef(d) + Enumerated(d) + Queued(d) + InHand(d) + Opened(d)
        /\ ListRef(d) \in 0 .. 1
    BY HolderTypes DEF Inv, Control, Balance, BalanceOf
  <2>4. refs[d] = ListRef(d)
    BY <2>2, <2>3
  <2> QED  BY <2>1, <2>4 DEF ListRef
<1> QED  BY <1>1, Invariance, PTL
=============================================================================
