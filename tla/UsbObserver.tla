------------------------------ MODULE UsbObserver ------------------------------
(***************************************************************************)
(* smiusbd-rs --observe: observe of rust/src/main.rs polls the device list *)
(* through UsbContext of rust/src/usb.rs every 250 ms and gives each       *)
(* adapter that it had not seen a new generation.  Adapters come and go    *)
(* between polls.  A reset in place changes nothing in the device list, so *)
(* it is no step here.                                                     *)
(***************************************************************************)
EXTENDS Integers, FiniteSets

CONSTANTS
  Ports,        \* where adapters are plugged in, all on one bus
  Addresses,    \* external: USB addresses
  MaxArrivals,  \* bound: arrivals
  MaxGeneration \* bound: polls stop once it is reached

VARIABLES
  address,      \* external: address[p], 0 where no adapter is
  arrival,      \* external: which arrival brought the adapter at p, from 1
  arrivals,     \* external: how many there were
  aliased,      \* external: the arrivals that were given an address of the last poll
  previous,     \* observe: the keys of the last poll
  generation,
  stop_requested, pc,
  reports       \* history: port, arrival and generation of what each poll found

bus == <<address, arrival, arrivals, aliased>>
observer == <<previous, generation, pc, reports>>
vars == <<bus, observer, stop_requested>>

Report == [port : Ports, arrival : 1 .. MaxArrivals,
           generation : 0 .. MaxGeneration + Cardinality(Ports)]

TypeOK ==
  /\ address \in [Ports -> Addresses \union {0}]
  /\ arrival \in [Ports -> 0 .. MaxArrivals]
  /\ arrivals \in 0 .. MaxArrivals
  /\ aliased \subseteq 1 .. MaxArrivals
  /\ previous \subseteq Addresses
  /\ generation \in 0 .. MaxGeneration + Cardinality(Ports)
  /\ stop_requested \in BOOLEAN
  /\ pc \in {"start", "poll", "sleep", "end"}
  /\ reports \subseteq Report

Init ==
  /\ address = [p \in Ports |-> 0]
  /\ arrival = [p \in Ports |-> 0]
  /\ arrivals = 0 /\ aliased = {}
  /\ previous = {} /\ generation = 0
  /\ stop_requested = FALSE
  /\ pc = "start"
  /\ reports = {}

-----------------------------------------------------------------------------
(* The bus *)

\* The adapter gets an address that no adapter has, perhaps one that an
\* adapter had before.
Arrive(p) ==
  /\ address[p] = 0
  /\ arrivals < MaxArrivals
  /\ \E a \in Addresses \ {address[q] : q \in Ports} :
       /\ address' = [address EXCEPT ![p] = a]
       /\ aliased' = IF a \in previous THEN aliased \union {arrivals + 1} ELSE aliased
  /\ arrival' = [arrival EXCEPT ![p] = arrivals + 1]
  /\ arrivals' = arrivals + 1
  /\ UNCHANGED <<observer, stop_requested>>

Depart(p) ==
  /\ address[p] # 0
  /\ address' = [address EXCEPT ![p] = 0]
  /\ UNCHANGED <<arrival, arrivals, aliased, observer, stop_requested>>

-----------------------------------------------------------------------------
(* The observer *)

\* UsbContext::new and install_signal_handlers, or the error of libusb_init.
Open ==
  /\ pc = "start"
  /\ pc' \in {"poll", "end"}
  /\ UNCHANGED <<bus, previous, generation, stop_requested, reports>>

request_stop ==
  /\ pc \in {"poll", "sleep"}
  /\ stop_requested' = TRUE
  /\ UNCHANGED <<bus, observer>>

\* The loop ends on a signal or at the deadline, or by the error of
\* libusb_get_device_list; the context is dropped.
Finish ==
  /\ pc = "poll"
  /\ pc' = "end"
  /\ UNCHANGED <<bus, previous, generation, stop_requested, reports>>

\* The adapters whose descriptor can be read, of those on the bus.
Found(readable) == {p \in readable : address[p] # 0}

\* The keys in target_devices' map: the address of each adapter, on the one bus.
target_devices(readable) == {address[p] : p \in Found(readable)}

\* Mutant: arrivals are told by the number of devices.
BugMoreDevices(current) ==
  IF Cardinality(current) > Cardinality(previous)
  THEN Cardinality(current) - Cardinality(previous) ELSE 0

\* How many keys of a poll are not in the map of the last one.
NewKeys(current) == Cardinality(current \ previous)

\* One round of the loop: the keys that are new each advance the generation.
Poll ==
  /\ pc = "poll"
  /\ ~ stop_requested
  /\ generation < MaxGeneration
  /\ \E readable \in SUBSET Ports :
       /\ generation' = generation + NewKeys(target_devices(readable))
       /\ previous' = target_devices(readable)
       /\ reports' = reports \union
            {[port |-> p, arrival |-> arrival[p], generation |-> generation'] :
               p \in Found(readable)}
  /\ pc' = "sleep"
  /\ UNCHANGED <<bus, stop_requested>>

Sleep ==
  /\ pc = "sleep" /\ pc' = "poll"
  /\ UNCHANGED <<bus, previous, generation, stop_requested, reports>>

Next ==
  \/ \E p \in Ports : Arrive(p) \/ Depart(p)
  \/ Open \/ request_stop \/ Poll \/ Sleep \/ Finish

Spec == Init /\ [][Next]_vars

-----------------------------------------------------------------------------
(* Properties *)

\* The observer sees reconnects: an adapter that left and came back is found in
\* a later generation than before, although no poll need have found it gone,
\* the descriptor may not be readable for some polls, and its address may be
\* one that was seen earlier.  Only an adapter that was given an address of the
\* very last poll may be taken for the one that had it.
ReconnectIsNewGeneration ==
  \A r, s \in reports :
    r.port = s.port /\ r.arrival < s.arrival /\ s.arrival \notin aliased
      => r.generation < s.generation
=============================================================================
