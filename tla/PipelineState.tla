---------------------------- MODULE PipelineState ----------------------------
(***************************************************************************)
(* The mutex-protected state of the capture-to-encoder queue of            *)
(* rust/src/frame.rs and what each method of FramePipeline does to it      *)
(* while it holds the mutex.  A frame is its FrameId: pixels and layout    *)
(* never influence the queue.  Threads, and who holds the mutex, are       *)
(* modelled by the modules that extend this one.                           *)
(***************************************************************************)
EXTENDS Integers, Sequences

CONSTANTS
  Capacity,          \* PipelineState::capacity
  StatMax,           \* u64::MAX, where the statistics saturate
  Generations,       \* the device generations that occur
  SequenceNumbers    \* the frame sequence numbers that occur

\* FramePipeline::new refuses capacity 0 (ZeroCapacity).
ASSUME PipelineAssumption ==
  /\ Capacity \in Nat \ {0}
  /\ StatMax \in Nat \ {0}
  /\ Generations \subseteq Nat
  /\ SequenceNumbers \subseteq Nat

VARIABLES generation, last_sequence, frames, stats

queue == <<generation, last_sequence, frames, stats>>

\* last_sequence: Option<u64> with None below every sequence number.
None == -1

FrameId == [generation : Generations, sequence : SequenceNumbers]

Counter == 0 .. StatMax

PipelineStats ==
  [accepted : Counter, dequeued : Counter, dropped_capacity : Counter,
   discarded_generation : Counter, rejected_generation : Counter,
   rejected_sequence : Counter, rejected_sink_generation : Counter]

QueueTypeOK ==
  /\ generation \in Generations
  /\ last_sequence \in SequenceNumbers \cup {None}
  /\ frames \in Seq(FrameId)
  /\ stats \in PipelineStats

\* Mutant: a plain addition.
BugAddUnbounded(n, k) == n + k

SaturatingAdd(n, k) == IF n + k > StatMax THEN StatMax ELSE n + k

\* FramePipeline::new(capacity, initial_generation).
new(initial_generation) ==
  /\ generation = initial_generation
  /\ last_sequence = None
  /\ frames = <<>>
  /\ stats = [accepted |-> 0, dequeued |-> 0, dropped_capacity |-> 0,
              discarded_generation |-> 0, rejected_generation |-> 0,
              rejected_sequence |-> 0, rejected_sink_generation |-> 0]

-----------------------------------------------------------------------------
(* submit *)

RejectGeneration(id) ==
  /\ id.generation # generation
  /\ stats' = [stats EXCEPT !.rejected_generation = SaturatingAdd(@, 1)]
  /\ UNCHANGED <<generation, last_sequence, frames>>

RejectSequence(id) ==
  /\ id.generation = generation
  /\ last_sequence # None
  /\ id.sequence <= last_sequence
  /\ stats' = [stats EXCEPT !.rejected_sequence = SaturatingAdd(@, 1)]
  /\ UNCHANGED <<generation, last_sequence, frames>>

Acceptable(id) ==
  /\ id.generation = generation
  /\ last_sequence = None \/ id.sequence > last_sequence

\* SubmitOutcome::Queued
Enqueue(id) ==
  /\ Acceptable(id)
  /\ Len(frames) # Capacity
  /\ last_sequence' = id.sequence
  /\ stats' = [stats EXCEPT !.accepted = SaturatingAdd(@, 1)]
  /\ frames' = Append(frames, id)
  /\ UNCHANGED generation

\* Mutant: a full queue drops the incoming frame.
BugDropIncoming(id) ==
  /\ Acceptable(id)
  /\ Len(frames) = Capacity
  /\ last_sequence' = id.sequence
  /\ stats' = [stats EXCEPT !.accepted = SaturatingAdd(@, 1),
                            !.dropped_capacity = SaturatingAdd(@, 1)]
  /\ UNCHANGED <<generation, frames>>

\* Mutant: pop_back where the code has pop_front.
BugPopBack(id) ==
  /\ Acceptable(id)
  /\ Len(frames) = Capacity
  /\ last_sequence' = id.sequence
  /\ stats' = [stats EXCEPT !.accepted = SaturatingAdd(@, 1),
                            !.dropped_capacity = SaturatingAdd(@, 1)]
  /\ frames' = [frames EXCEPT ![Len(frames)] = id]
  /\ UNCHANGED generation

\* SubmitOutcome::DroppedOldest
DropOldest(id) ==
  /\ Acceptable(id)
  /\ Len(frames) = Capacity
  /\ last_sequence' = id.sequence
  /\ stats' = [stats EXCEPT !.accepted = SaturatingAdd(@, 1),
                            !.dropped_capacity = SaturatingAdd(@, 1)]
  /\ frames' = Append(Tail(frames), id)
  /\ UNCHANGED generation

submit(id) ==
  \/ RejectGeneration(id)
  \/ RejectSequence(id)
  \/ Enqueue(id)
  \/ DropOldest(id)

-----------------------------------------------------------------------------
\* Mutant: a dequeued frame is not counted.
BugTakeUncounted ==
  /\ frames # <<>>
  /\ frames' = Tail(frames)
  /\ UNCHANGED <<generation, last_sequence, stats>>

\* try_take on a non-empty queue; on an empty one it returns None and
\* changes nothing.
try_take ==
  /\ frames # <<>>
  /\ stats' = [stats EXCEPT !.dequeued = SaturatingAdd(@, 1)]
  /\ frames' = Tail(frames)
  /\ UNCHANGED <<generation, last_sequence>>

\* with_current_generation: the check under the mutex, and its failure.
GenerationIsCurrent(id) == id.generation = generation

RejectAtSink(id) ==
  /\ ~ GenerationIsCurrent(id)
  /\ stats' = [stats EXCEPT !.rejected_sink_generation = SaturatingAdd(@, 1)]
  /\ UNCHANGED <<generation, last_sequence, frames>>

\* Mutant: the active generation may be begun again.
BugGenerationRepeats(g) == g < generation

\* Mutant: any other generation may be begun.
BugGenerationDiffers(g) == g = generation

\* begin_generation: an error leaves everything alone.
GenerationNotIncreasing(g) == g <= generation

begin_generation(g) ==
  IF GenerationNotIncreasing(g)
    THEN UNCHANGED queue
    ELSE /\ stats' = [stats EXCEPT !.discarded_generation =
                                      SaturatingAdd(@, Len(frames))]
         /\ frames' = <<>>
         /\ generation' = g
         /\ last_sequence' = None

snapshot ==
  [generation |-> generation, queued |-> Len(frames),
   capacity |-> Capacity, stats |-> stats]

-----------------------------------------------------------------------------
(* Properties of the queue, whoever drives it.                             *)

\* What the queue holds after any history of submit, try_take and
\* begin_generation: at most Capacity frames, all of the active generation,
\* oldest first with strictly increasing sequence numbers, and the newest
\* accepted frame last - the bound is kept by dropping the oldest frame,
\* never the newest.
QueueHoldsNewest ==
  /\ Len(frames) <= Capacity
  /\ \A i \in DOMAIN frames :
       /\ frames[i].generation = generation
       /\ \A j \in DOMAIN frames : i < j => frames[i].sequence < frames[j].sequence
  /\ frames # <<>> => frames[Len(frames)].sequence = last_sequence

\* Every accepted frame is accounted for in a snapshot: it was dequeued,
\* dropped for capacity, discarded by a new generation, or is still queued.
\* The counters saturate, so the equation is exact until `accepted' does and
\* never understates the fate of the accepted frames afterwards.
StatsAccountForFrames ==
  LET s == snapshot.stats
      fates == s.dequeued + s.dropped_capacity + s.discarded_generation
                 + snapshot.queued
  IN  /\ s.accepted <= fates
      /\ s.accepted < StatMax => s.accepted = fates
=============================================================================
