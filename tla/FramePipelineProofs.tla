-------------------------- MODULE FramePipelineProofs --------------------------
(***************************************************************************)
(* The safety properties of FramePipeline, for every capacity, every set   *)
(* of encoders, generations and sequence numbers, and that it implements   *)
(* NewestFrames.                                                           *)
(***************************************************************************)
EXTENDS FramePipeline, FiniteSetTheorems, TLAPS

(* Every method of FramePipeline preserves the queue's invariants. *)

QueueInv ==
  /\ QueueTypeOK
  /\ QueueHoldsNewest
  /\ StatsAccountForFrames

\* saturating_add stays in range, never exceeds the exact sum and is exact
\* below the maximum.
LEMMA SaturatingAddFacts ==
  ASSUME NEW n \in Counter, NEW k \in Nat
  PROVE  /\ SaturatingAdd(n, k) \in Counter
         /\ SaturatingAdd(n, k) <= n + k
         /\ SaturatingAdd(n, k) >= n
         /\ SaturatingAdd(n, k) # StatMax => SaturatingAdd(n, k) = n + k
BY PipelineAssumption DEF SaturatingAdd, Counter

\* The fields of a frame id.
LEMMA FrameIdFields ==
  ASSUME NEW id \in FrameId
  PROVE  /\ id.generation \in Generations /\ id.generation \in Nat
         /\ id.sequence \in SequenceNumbers /\ id.sequence \in Nat
BY PipelineAssumption, Zenon DEF FrameId

\* The counters are natural numbers.
LEMMA CountersAreNat ==
  ASSUME QueueTypeOK
  PROVE  /\ stats.accepted \in Counter
         /\ stats.dequeued \in Counter
         /\ stats.dropped_capacity \in Counter
         /\ stats.discarded_generation \in Counter
         /\ Len(frames) \in Nat
BY DEF QueueTypeOK, PipelineStats

\* Adding k to a fate counter: either exact, or the counter is now StatMax.
LEMMA SaturatesOrAdds ==
  ASSUME NEW n \in Counter, NEW k \in Nat
  PROVE  \/ SaturatingAdd(n, k) = n + k
         \/ SaturatingAdd(n, k) = StatMax /\ StatMax < n + k
BY PipelineAssumption DEF SaturatingAdd, Counter

\* The arithmetic of the account, with the queue's length q and the fates
\* f1, f2, f3: k queued frames move to fate f1 (try_take, begin_generation).
LEMMA AccountMove ==
  ASSUME NEW a \in Counter, NEW f1 \in Counter, NEW f2 \in Counter,
         NEW f3 \in Counter, NEW q \in Nat, NEW k \in Nat, k <= q,
         a <= f1 + f2 + f3 + q,
         a < StatMax => a = f1 + f2 + f3 + q
  PROVE  LET sum == SaturatingAdd(f1, k) + f2 + f3 + (q - k)
         IN  a <= sum /\ (a < StatMax => a = sum)
<1>1. StatMax \in Nat /\ a \in 0 .. StatMax /\ f1 \in Nat /\ f2 \in Nat /\ f3 \in Nat
  BY PipelineAssumption DEF Counter
<1>2. CASE SaturatingAdd(f1, k) = f1 + k
  BY <1>1, <1>2
<1>3. CASE SaturatingAdd(f1, k) = StatMax /\ StatMax < f1 + k
  BY <1>1, <1>3
<1> QED  BY <1>2, <1>3, SaturatesOrAdds

\* The same when the oldest of a full queue makes room for a new frame.
LEMMA AccountDrop ==
  ASSUME NEW a \in Counter, NEW f1 \in Counter, NEW f2 \in Counter,
         NEW f3 \in Counter, NEW q \in Nat \ {0},
         a <= f1 + f2 + f3 + q,
         a < StatMax => a = f1 + f2 + f3 + q
  PROVE  LET b == SaturatingAdd(a, 1)
             sum == SaturatingAdd(f1, 1) + f2 + f3 + q
         IN  b <= sum /\ (b < StatMax => b = sum)
<1>1. StatMax \in Nat /\ a \in 0 .. StatMax /\ f1 \in Nat /\ f2 \in Nat /\ f3 \in Nat
  BY PipelineAssumption DEF Counter
<1>2. SaturatingAdd(a, 1) <= StatMax /\ SaturatingAdd(a, 1) \in Nat
  BY <1>1, SaturatingAddFacts DEF Counter
<1>3. CASE SaturatingAdd(f1, 1) = f1 + 1
  <2>1. CASE SaturatingAdd(a, 1) = a + 1
    BY <1>1, <1>2, <1>3, <2>1
  <2>2. CASE SaturatingAdd(a, 1) = StatMax /\ StatMax < a + 1
    BY <1>1, <1>2, <1>3, <2>2
  <2> QED  BY <2>1, <2>2, SaturatesOrAdds
<1>4. CASE SaturatingAdd(f1, 1) = StatMax /\ StatMax < f1 + 1
  <2>1. CASE SaturatingAdd(a, 1) = a + 1
    BY <1>1, <1>2, <1>4, <2>1
  <2>2. CASE SaturatingAdd(a, 1) = StatMax /\ StatMax < a + 1
    BY <1>1, <1>2, <1>4, <2>2
  <2> QED  BY <2>1, <2>2, SaturatesOrAdds
<1> QED  BY <1>3, <1>4, SaturatesOrAdds

\* The same when a queue with room takes a new frame.
LEMMA AccountAdd ==
  ASSUME NEW a \in Counter, NEW f1 \in Counter, NEW f2 \in Counter,
         NEW f3 \in Counter, NEW q \in Nat,
         a <= f1 + f2 + f3 + q,
         a < StatMax => a = f1 + f2 + f3 + q
  PROVE  LET b == SaturatingAdd(a, 1)
             sum == f1 + f2 + f3 + (q + 1)
         IN  b <= sum /\ (b < StatMax => b = sum)
<1>1. StatMax \in Nat /\ a \in 0 .. StatMax /\ f1 \in Nat /\ f2 \in Nat /\ f3 \in Nat
  BY PipelineAssumption DEF Counter
<1>2. CASE SaturatingAdd(a, 1) = a + 1
  BY <1>1, <1>2
<1>3. CASE SaturatingAdd(a, 1) = StatMax /\ StatMax < a + 1
  BY <1>1, <1>3
<1> QED  BY <1>2, <1>3, SaturatesOrAdds

Fates ==
  stats.dequeued + stats.dropped_capacity + stats.discarded_generation
    + Len(frames)

\* A new pipeline satisfies the invariants.
LEMMA NewQueueInv ==
  ASSUME NEW g \in Generations, new(g)
  PROVE  QueueInv
<1>1. QueueTypeOK
  BY PipelineAssumption DEF new, QueueTypeOK, PipelineStats, Counter
<1>2. QueueHoldsNewest
  BY PipelineAssumption DEF new, QueueHoldsNewest
<1>3. StatsAccountForFrames
  BY PipelineAssumption DEF new, StatsAccountForFrames, snapshot
<1> QED  BY <1>1, <1>2, <1>3 DEF QueueInv

\* A rejection (submit, with_current_generation) only touches its counter.
LEMMA RejectQueueInv ==
  ASSUME NEW id \in FrameId, QueueInv,
         RejectGeneration(id) \/ RejectSequence(id) \/ RejectAtSink(id)
  PROVE  QueueInv'
<1>1. /\ UNCHANGED <<generation, last_sequence, frames>>
      /\ stats' \in PipelineStats
      /\ stats'.accepted = stats.accepted
      /\ stats'.dequeued = stats.dequeued
      /\ stats'.dropped_capacity = stats.dropped_capacity
      /\ stats'.discarded_generation = stats.discarded_generation
  BY SaturatingAddFacts
     DEF QueueInv, QueueTypeOK, PipelineStats,
         RejectGeneration, RejectSequence, RejectAtSink
<1>2. QueueTypeOK'
  BY <1>1 DEF QueueInv, QueueTypeOK
<1>3. QueueHoldsNewest'
  BY <1>1 DEF QueueInv, QueueHoldsNewest
<1>4. StatsAccountForFrames'
  BY <1>1 DEF QueueInv, StatsAccountForFrames, snapshot
<1> QED  BY <1>2, <1>3, <1>4 DEF QueueInv

\* An acceptable frame is newer than everything queued.
LEMMA AcceptableIsNewer ==
  ASSUME NEW id \in FrameId, QueueInv, Acceptable(id)
  PROVE  \A i \in DOMAIN frames : frames[i].sequence < id.sequence
<1> SUFFICES ASSUME NEW i \in DOMAIN frames
             PROVE  frames[i].sequence < id.sequence
  OBVIOUS
<1>1. /\ frames \in Seq(FrameId)
      /\ frames # <<>>
      /\ Len(frames) \in Nat
      /\ Len(frames) \in DOMAIN frames
  <2>1. frames \in Seq(FrameId)
    BY DEF QueueInv, QueueTypeOK
  <2> QED  BY <2>1
<1>2. frames[i].sequence <= last_sequence
  <2>1. frames[Len(frames)].sequence = last_sequence
    BY <1>1 DEF QueueInv, QueueHoldsNewest
  <2>2. /\ i \in 1 .. Len(frames)
        /\ frames[i] \in FrameId
        /\ frames[Len(frames)] \in FrameId
    BY <1>1
  <2>3. i < Len(frames) => frames[i].sequence < frames[Len(frames)].sequence
    BY <1>1, <2>2 DEF QueueInv, QueueHoldsNewest
  <2>4. /\ frames[i].sequence \in Nat
        /\ frames[Len(frames)].sequence \in Nat
    BY <2>2, FrameIdFields
  <2> QED  BY <1>1, <2>1, <2>2, <2>3, <2>4
<1>3. frames[i].sequence \in Nat /\ id.sequence \in Nat
  BY <1>1, FrameIdFields
<1>4. last_sequence \in Int
  BY PipelineAssumption DEF QueueInv, QueueTypeOK, None
<1> QED  BY <1>2, <1>3, <1>4 DEF Acceptable, None

\* submit on a queue with room (SubmitOutcome::Queued).
LEMMA EnqueueQueueInv ==
  ASSUME NEW id \in FrameId, QueueInv, Enqueue(id)
  PROVE  QueueInv'
<1>1. /\ Len(frames) \in Nat
      /\ frames \in Seq(FrameId)
      /\ id.generation = generation
      /\ id.sequence \in SequenceNumbers
      /\ Len(frames) < Capacity
  BY PipelineAssumption
     DEF QueueInv, QueueTypeOK, Enqueue, Acceptable, QueueHoldsNewest, FrameId
<1>2. QueueTypeOK'
  BY <1>1, SaturatingAddFacts
     DEF Enqueue, QueueInv, QueueTypeOK, PipelineStats
<1>3. QueueHoldsNewest'
  BY <1>1, AcceptableIsNewer, PipelineAssumption
     DEF QueueInv, QueueHoldsNewest, Enqueue
<1>4. StatsAccountForFrames'
  <2>1. /\ Len(frames') = Len(frames) + 1
        /\ stats'.accepted = SaturatingAdd(stats.accepted, 1)
        /\ stats'.dequeued = stats.dequeued
        /\ stats'.dropped_capacity = stats.dropped_capacity
        /\ stats'.discarded_generation = stats.discarded_generation
    BY <1>1 DEF Enqueue, QueueInv, QueueTypeOK, PipelineStats
  <2>2. /\ stats.accepted <= Fates
        /\ stats.accepted < StatMax => stats.accepted = Fates
    BY DEF QueueInv, StatsAccountForFrames, snapshot, Fates
  <2>3. /\ stats'.accepted <= Fates'
        /\ stats'.accepted < StatMax => stats'.accepted = Fates'
    <3>1. /\ stats.accepted \in Counter /\ stats.dropped_capacity \in Counter
          /\ stats.dequeued \in Counter /\ stats.discarded_generation \in Counter
      BY CountersAreNat DEF QueueInv
    <3>2. LET b == SaturatingAdd(stats.accepted, 1)
              sum == stats.dequeued + stats.dropped_capacity
                     + stats.discarded_generation + (Len(frames) + 1)
          IN  b <= sum /\ (b < StatMax => b = sum)
      BY <1>1, <2>2, <3>1, AccountAdd, SMTT(30) DEF Fates
    <3>3. Fates' = stats.dequeued + stats.dropped_capacity
                     + stats.discarded_generation + (Len(frames) + 1)
      BY <2>1 DEF Fates
    <3> QED  BY <2>1, <3>2, <3>3
  <2> QED  BY <2>3 DEF StatsAccountForFrames, snapshot, Fates
<1> QED  BY <1>2, <1>3, <1>4 DEF QueueInv

\* submit on a full queue (SubmitOutcome::DroppedOldest).
LEMMA DropOldestQueueInv ==
  ASSUME NEW id \in FrameId, QueueInv, DropOldest(id)
  PROVE  QueueInv'
<1>1. /\ Len(frames) \in Nat
      /\ frames \in Seq(FrameId)
      /\ frames # <<>>
      /\ id.generation = generation
      /\ id.sequence \in SequenceNumbers
      /\ Len(frames) = Capacity
  BY PipelineAssumption
     DEF QueueInv, QueueTypeOK, DropOldest, Acceptable, FrameId
<1>2. QueueTypeOK'
  <2>1. frames' \in Seq(FrameId)
    BY <1>1 DEF DropOldest
  <2>2. stats' \in PipelineStats
    BY SaturatingAddFacts, Zenon
       DEF DropOldest, QueueInv, QueueTypeOK, PipelineStats
  <2> QED  BY <1>1, <2>1, <2>2 DEF DropOldest, QueueInv, QueueTypeOK
<1>3. QueueHoldsNewest'
  <2>1. \A i \in DOMAIN frames : frames[i].sequence < id.sequence
    BY AcceptableIsNewer DEF DropOldest
  <2>2. /\ Len(frames') = Capacity
        /\ DOMAIN frames' = 1 .. Capacity
        /\ frames'[Capacity] = id
        /\ \A i \in 1 .. (Capacity - 1) :
             frames'[i] = frames[i + 1] /\ i + 1 \in DOMAIN frames
    BY <1>1, PipelineAssumption DEF DropOldest
  <2>3. \A i \in 1 .. Capacity : frames'[i].generation = generation'
    BY <1>1, <2>2, PipelineAssumption
       DEF QueueInv, QueueHoldsNewest, DropOldest
  <2>4. ASSUME NEW i \in 1 .. Capacity, NEW j \in 1 .. Capacity, i < j
        PROVE  frames'[i].sequence < frames'[j].sequence
    <3>1. i \in 1 .. (Capacity - 1)
      BY <2>4, PipelineAssumption
    <3>2. CASE j = Capacity
      BY <2>1, <2>2, <3>1, <3>2
    <3>3. CASE j # Capacity
      <4>1. j \in 1 .. (Capacity - 1) /\ i + 1 < j + 1
        BY <2>4, <3>3, PipelineAssumption
      <4> QED  BY <2>2, <3>1, <4>1, SMTT(30) DEF QueueInv, QueueHoldsNewest
    <3> QED  BY <3>2, <3>3
  <2>5. frames'[Len(frames')].sequence = last_sequence'
    BY <2>2 DEF DropOldest
  <2> QED
    BY <2>2, <2>3, <2>4, <2>5, PipelineAssumption DEF QueueHoldsNewest
<1>4. StatsAccountForFrames'
  <2>1. /\ Len(frames') = Len(frames)
        /\ stats'.accepted = SaturatingAdd(stats.accepted, 1)
        /\ stats'.dequeued = stats.dequeued
        /\ stats'.dropped_capacity = SaturatingAdd(stats.dropped_capacity, 1)
        /\ stats'.discarded_generation = stats.discarded_generation
    BY <1>1 DEF DropOldest, QueueInv, QueueTypeOK, PipelineStats
  <2>2. /\ stats.accepted <= Fates
        /\ stats.accepted < StatMax => stats.accepted = Fates
    BY DEF QueueInv, StatsAccountForFrames, snapshot, Fates
  <2>3. /\ stats'.accepted <= Fates'
        /\ stats'.accepted < StatMax => stats'.accepted = Fates'
    <3>1. /\ stats.accepted \in Counter /\ stats.dropped_capacity \in Counter
          /\ stats.dequeued \in Counter /\ stats.discarded_generation \in Counter
          /\ Len(frames) \in Nat \ {0}
      BY <1>1, CountersAreNat, PipelineAssumption DEF QueueInv
    <3>2. Fates = stats.dropped_capacity + stats.dequeued
                    + stats.discarded_generation + Len(frames)
      BY <3>1, PipelineAssumption DEF Fates, Counter
    <3>3. LET b == SaturatingAdd(stats.accepted, 1)
              sum == SaturatingAdd(stats.dropped_capacity, 1) + stats.dequeued
                     + stats.discarded_generation + Len(frames)
          IN  b <= sum /\ (b < StatMax => b = sum)
      BY <2>2, <3>1, <3>2, AccountDrop
    <3>4. SaturatingAdd(stats.dropped_capacity, 1) \in Counter
      BY <3>1, SaturatingAddFacts
    <3>5. Fates' = SaturatingAdd(stats.dropped_capacity, 1) + stats.dequeued
                     + stats.discarded_generation + Len(frames)
      BY <2>1, <3>1, <3>4, PipelineAssumption DEF Fates, Counter
    <3> QED  BY <2>1, <3>3, <3>5
  <2> QED  BY <2>3 DEF StatsAccountForFrames, snapshot, Fates
<1> QED  BY <1>2, <1>3, <1>4 DEF QueueInv

\* submit, whatever its outcome.
LEMMA SubmitQueueInv ==
  ASSUME NEW id \in FrameId, QueueInv, submit(id)
  PROVE  QueueInv'
BY RejectQueueInv, EnqueueQueueInv, DropOldestQueueInv DEF submit

\* try_take.
LEMMA TakeQueueInv ==
  ASSUME QueueInv, try_take
  PROVE  QueueInv'
<1>1. /\ Len(frames) \in Nat \ {0}
      /\ frames \in Seq(FrameId)
      /\ frames # <<>>
  BY DEF QueueInv, QueueTypeOK, try_take
<1>2. QueueTypeOK'
  BY <1>1, SaturatingAddFacts DEF try_take, QueueInv, QueueTypeOK, PipelineStats
<1>3. QueueHoldsNewest'
  BY <1>1, PipelineAssumption DEF QueueInv, QueueHoldsNewest, try_take
<1>4. StatsAccountForFrames'
  <2>1. /\ Len(frames') = Len(frames) - 1
        /\ stats'.accepted = stats.accepted
        /\ stats'.dequeued = SaturatingAdd(stats.dequeued, 1)
        /\ stats'.dropped_capacity = stats.dropped_capacity
        /\ stats'.discarded_generation = stats.discarded_generation
    BY <1>1 DEF try_take, QueueInv, QueueTypeOK, PipelineStats
  <2>2. /\ stats.accepted <= Fates
        /\ stats.accepted < StatMax => stats.accepted = Fates
    BY DEF QueueInv, StatsAccountForFrames, snapshot, Fates
  <2>3. /\ stats'.accepted <= Fates'
        /\ stats'.accepted < StatMax => stats'.accepted = Fates'
    <3>1. /\ stats.accepted \in Counter /\ stats.dropped_capacity \in Counter
          /\ stats.dequeued \in Counter /\ stats.discarded_generation \in Counter
          /\ Len(frames) \in Nat /\ 1 <= Len(frames)
      BY <1>1, CountersAreNat DEF QueueInv
    <3>2. LET sum == SaturatingAdd(stats.dequeued, 1) + stats.dropped_capacity
                     + stats.discarded_generation + (Len(frames) - 1)
          IN  stats.accepted <= sum /\ (stats.accepted < StatMax => stats.accepted = sum)
      BY <2>2, <3>1, AccountMove DEF Fates
    <3> QED  BY <2>1, <3>2 DEF Fates
  <2> QED  BY <2>3 DEF StatsAccountForFrames, snapshot, Fates
<1> QED  BY <1>2, <1>3, <1>4 DEF QueueInv

\* begin_generation, refused or not.
LEMMA BeginQueueInv ==
  ASSUME NEW g \in Generations, QueueInv, begin_generation(g)
  PROVE  QueueInv'
<1>1. CASE GenerationNotIncreasing(g)
  BY <1>1 DEF QueueInv, QueueTypeOK, begin_generation, queue,
              QueueHoldsNewest, StatsAccountForFrames, snapshot
<1>2. CASE ~ GenerationNotIncreasing(g)
  <2>1. Len(frames) \in Nat
    BY DEF QueueInv, QueueTypeOK
  <2>2. QueueTypeOK'
    BY <1>2, <2>1, SaturatingAddFacts
       DEF begin_generation, QueueInv, QueueTypeOK, PipelineStats
  <2>3. QueueHoldsNewest'
    BY <1>2, PipelineAssumption DEF QueueHoldsNewest, begin_generation
  <2>4. StatsAccountForFrames'
    <3>1. /\ Len(frames') = 0
          /\ stats'.accepted = stats.accepted
          /\ stats'.dequeued = stats.dequeued
          /\ stats'.dropped_capacity = stats.dropped_capacity
          /\ stats'.discarded_generation =
               SaturatingAdd(stats.discarded_generation, Len(frames))
      BY <1>2, <2>1 DEF begin_generation, QueueInv, QueueTypeOK, PipelineStats
    <3>2. /\ stats.accepted <= Fates
          /\ stats.accepted < StatMax => stats.accepted = Fates
      BY DEF QueueInv, StatsAccountForFrames, snapshot, Fates
    <3>3. /\ stats'.accepted <= Fates'
          /\ stats'.accepted < StatMax => stats'.accepted = Fates'
      <4>1. /\ stats.accepted \in Counter /\ stats.dropped_capacity \in Counter
            /\ stats.dequeued \in Counter /\ stats.discarded_generation \in Counter
            /\ Len(frames) \in Nat /\ Len(frames) <= Len(frames)
        BY CountersAreNat DEF QueueInv
      <4>2. Fates = stats.discarded_generation + stats.dequeued
                      + stats.dropped_capacity + Len(frames)
        BY <4>1, PipelineAssumption DEF Fates, Counter
      <4>3. LET sum == SaturatingAdd(stats.discarded_generation, Len(frames))
                       + stats.dequeued + stats.dropped_capacity
                       + (Len(frames) - Len(frames))
            IN  stats.accepted <= sum /\ (stats.accepted < StatMax => stats.accepted = sum)
        BY <3>2, <4>1, <4>2, AccountMove
      <4>4. SaturatingAdd(stats.discarded_generation, Len(frames)) \in Counter
        BY <4>1, SaturatingAddFacts
      <4>5. Fates' = SaturatingAdd(stats.discarded_generation, Len(frames))
                       + stats.dequeued + stats.dropped_capacity
                       + (Len(frames) - Len(frames))
        BY <3>1, <4>1, <4>4, PipelineAssumption DEF Fates, Counter
      <4> QED  BY <3>1, <4>3, <4>5
    <3> QED  BY <3>3 DEF StatsAccountForFrames, snapshot, Fates
  <2> QED  BY <2>2, <2>3, <2>4 DEF QueueInv
<1> QED  BY <1>1, <1>2

-----------------------------------------------------------------------------
(* The threads that share the queue *)

Holding == {"encode", "gate", "sink"}

\* A frame that left the queue is older than everything still in it.
Behind(id) ==
  \/ id.generation < generation
  \/ /\ id.generation = generation
     /\ id.sequence <= last_sequence
     /\ \A i \in DOMAIN frames : id.sequence < frames[i].sequence

\* An encoder holds a frame exactly between try_take and the end of the gate.
HandInv ==
  \A e \in Encoders : (pc[e] \in Holding) <=> (hand[e] \in FrameId)

\* While a closure runs, its encoder owns the mutex and its frame belongs to
\* the active generation.
GateInv ==
  \A e \in Encoders :
    pc[e] = "sink" => owner = e /\ hand[e].generation = generation

LeftTheQueue ==
  /\ \A e \in Encoders : hand[e] # NoFrame => Behind(hand[e])
  /\ \A i \in DOMAIN sink : Behind(sink[i].id)

Distinct ==
  /\ \A i, j \in DOMAIN sink : i # j => sink[i].id # sink[j].id
  /\ \A e \in Encoders : hand[e] # NoFrame =>
       /\ \A i \in DOMAIN sink : sink[i].id # hand[e]
       /\ \A f \in Encoders : f # e => hand[f] # hand[e]

IInv ==
  /\ TypeOK
  /\ QueueInv
  /\ HandInv
  /\ GateInv
  /\ LeftTheQueue
  /\ Distinct
  /\ NothingStaleAtSink
  /\ GenerationsInOrder

-----------------------------------------------------------------------------
(* What a step of the queue does to the frames that left it.               *)

\* A step that leaves generation, last_sequence and frames alone.
LEMMA BehindUnchanged ==
  ASSUME NEW id, Behind(id), UNCHANGED <<generation, last_sequence, frames>>
  PROVE  Behind(id)'
BY DEF Behind

\* submit appends only frames newer than everything that was accepted.
LEMMA BehindSubmit ==
  ASSUME NEW id \in FrameId, NEW new_id \in FrameId,
         QueueInv, Behind(id), submit(new_id)
  PROVE  Behind(id)'
<1>1. /\ frames \in Seq(FrameId)
      /\ Len(frames) \in Nat
      /\ last_sequence \in Int
      /\ id.sequence \in Nat /\ new_id.sequence \in Nat
  BY FrameIdFields, PipelineAssumption DEF QueueInv, QueueTypeOK, None
<1>2. CASE RejectGeneration(new_id) \/ RejectSequence(new_id)
  BY <1>2, BehindUnchanged DEF RejectGeneration, RejectSequence
<1>3. CASE id.generation < generation
  BY <1>3 DEF submit, RejectGeneration, RejectSequence, Enqueue, DropOldest, Behind
<1>4. ASSUME ~ (id.generation < generation), Enqueue(new_id) \/ DropOldest(new_id)
      PROVE  Behind(id)'
  <2>1. /\ id.generation = generation
        /\ id.sequence <= last_sequence
        /\ \A i \in DOMAIN frames : id.sequence < frames[i].sequence
    BY <1>4 DEF Behind
  <2>2. id.sequence < new_id.sequence
    BY <1>1, <1>4, <2>1 DEF Enqueue, DropOldest, Acceptable, None
  <2>3. last_sequence' = new_id.sequence /\ generation' = generation
    BY <1>4 DEF Enqueue, DropOldest
  <2>4. \A i \in DOMAIN frames' :
           frames'[i] = new_id \/ \E j \in DOMAIN frames : frames'[i] = frames[j]
    <3>1. CASE Enqueue(new_id)
      BY <1>1, <3>1 DEF Enqueue
    <3>2. CASE DropOldest(new_id)
      <4>1. frames # <<>>
        BY <1>1, <3>2, PipelineAssumption DEF DropOldest
      <4> QED  BY <1>1, <3>2, <4>1 DEF DropOldest
    <3> QED  BY <1>4, <3>1, <3>2
  <2> QED  BY <1>1, <2>1, <2>2, <2>3, <2>4 DEF Behind
<1> QED  BY <1>2, <1>3, <1>4 DEF submit

\* try_take only removes from the queue.
LEMMA BehindTake ==
  ASSUME NEW id, QueueInv, Behind(id), try_take
  PROVE  Behind(id)'
<1>1. frames \in Seq(FrameId) /\ frames # <<>>
  BY DEF QueueInv, QueueTypeOK, try_take
<1>2. \A i \in DOMAIN frames' : \E j \in DOMAIN frames : frames'[i] = frames[j]
  BY <1>1 DEF try_take
<1> QED  BY <1>2 DEF Behind, try_take

\* The frame try_take hands out is behind the rest of the queue.
LEMMA HeadIsBehind ==
  ASSUME NEW id, id = Head(frames), QueueInv, try_take
  PROVE  id \in FrameId /\ Behind(id)'
<1>1. /\ frames \in Seq(FrameId) /\ frames # <<>>
      /\ Len(frames) \in Nat \ {0}
      /\ Head(frames) = frames[1]
      /\ 1 \in DOMAIN frames /\ Len(frames) \in DOMAIN frames
  BY DEF QueueInv, QueueTypeOK, try_take
<1>2. \A i \in DOMAIN frames' : i + 1 \in DOMAIN frames /\ frames'[i] = frames[i + 1]
                                  /\ 1 < i + 1
  BY <1>1 DEF try_take
<1>3. \A i \in DOMAIN frames' : frames[1].sequence < frames'[i].sequence
  BY <1>1, <1>2 DEF QueueInv, QueueHoldsNewest
<1>4. frames[1].generation = generation
  BY <1>1 DEF QueueInv, QueueHoldsNewest
<1>5. frames[1].sequence <= last_sequence
  <2>1. frames[1] \in FrameId /\ frames[Len(frames)] \in FrameId
    BY <1>1
  <2>2. frames[1].sequence \in Nat /\ frames[Len(frames)].sequence \in Nat
    BY <2>1, FrameIdFields
  <2>3. last_sequence = frames[Len(frames)].sequence
    BY <1>1 DEF QueueInv, QueueHoldsNewest
  <2>4. 1 < Len(frames) => frames[1].sequence < frames[Len(frames)].sequence
    BY <1>1 DEF QueueInv, QueueHoldsNewest
  <2> QED  BY <1>1, <2>2, <2>3, <2>4
<1> QED  BY <1>1, <1>3, <1>4, <1>5 DEF Behind, try_take

\* No queued frame is behind the queue.
LEMMA QueuedIsNotBehind ==
  ASSUME QueueInv, NEW i \in DOMAIN frames, NEW id \in FrameId, Behind(id)
  PROVE  frames[i] # id
<1>1. frames[i] \in FrameId /\ frames[i].generation = generation
  BY DEF QueueInv, QueueTypeOK, QueueHoldsNewest
<1>2. /\ frames[i].sequence \in Nat /\ frames[i].generation \in Nat
      /\ id.sequence \in Nat /\ id.generation \in Nat
  BY <1>1, FrameIdFields
<1> QED  BY <1>1, <1>2 DEF Behind

\* begin_generation moves everything of the old generations behind.
LEMMA BehindBegin ==
  ASSUME NEW id \in FrameId, NEW g \in Generations,
         QueueInv, Behind(id), begin_generation(g)
  PROVE  Behind(id)'
<1>1. CASE GenerationNotIncreasing(g)
  BY <1>1, BehindUnchanged DEF begin_generation, queue
<1>2. CASE ~ GenerationNotIncreasing(g)
  <2>1. g \in Nat /\ generation \in Nat /\ id.generation \in Nat
    BY FrameIdFields, PipelineAssumption DEF QueueInv, QueueTypeOK
  <2>2. generation < g /\ generation' = g
    BY <1>2, <2>1 DEF begin_generation, GenerationNotIncreasing
  <2> QED  BY <2>1, <2>2 DEF Behind
<1> QED  BY <1>1, <1>2

-----------------------------------------------------------------------------
(* The inductive invariant. *)

\* The initial state satisfies it.
LEMMA InitIInv == Init => IInv
<1> SUFFICES ASSUME Init PROVE IInv
  OBVIOUS
<1>1. QueueInv
  BY NewQueueInv, ThreadAssumption DEF Init
<1>2. TypeOK
  <2>1. sink \in Seq(SinkSubmission) /\ requested \in Generations \cup {NoRequest}
    BY DEF Init
  <2>2. /\ owner \in Encoders \cup {Free}
        /\ pc \in [Encoders -> {"idle", "encode", "gate", "sink", "dead"}]
        /\ hand \in [Encoders -> FrameId \cup {NoFrame}]
        /\ poisoned \in BOOLEAN
    BY Zenon DEF Init
  <2> QED  BY <1>1, <2>1, <2>2 DEF TypeOK, QueueInv
<1>3. HandInv /\ GateInv /\ LeftTheQueue /\ Distinct
  BY ThreadAssumption DEF Init, HandInv, GateInv, LeftTheQueue, Distinct, Holding
<1>4. NothingStaleAtSink /\ GenerationsInOrder
  BY DEF Init, NothingStaleAtSink, GenerationsInOrder
<1> QED  BY <1>1, <1>2, <1>3, <1>4 DEF IInv

\* A frame held or delivered is an id of a frame.
LEMMA Ids ==
  ASSUME TypeOK
  PROVE  /\ \A e \in Encoders : hand[e] # NoFrame => hand[e] \in FrameId
         /\ \A i \in DOMAIN sink : sink[i].id \in FrameId
                                     /\ sink[i].active \in Generations
<1>1. \A e \in Encoders : hand[e] # NoFrame => hand[e] \in FrameId
  BY DEF TypeOK
<1>2. \A i \in DOMAIN sink : sink[i] \in SinkSubmission
  BY DEF TypeOK
<1> QED  BY <1>1, <1>2 DEF SinkSubmission

\* How LeftTheQueue is re-established: a frame held or delivered after the
\* step was behind the queue before it, or is now.
LEMMA LeftTheQueueStep ==
  ASSUME \A x \in FrameId : Behind(x) => Behind(x)',
         \A e \in Encoders : hand'[e] # NoFrame =>
            \E x \in FrameId : x = hand'[e] /\ (Behind(x) \/ Behind(x)'),
         \A i \in DOMAIN sink' :
            \E x \in FrameId : x = sink'[i].id /\ (Behind(x) \/ Behind(x)')
  PROVE  LeftTheQueue'
<1>1. ASSUME NEW e \in Encoders, hand'[e] # NoFrame
      PROVE  Behind(hand[e])'
  <2>1. PICK x \in FrameId : x = hand'[e] /\ Behind(x)'
    BY <1>1
  <2> QED  BY <2>1 DEF Behind
<1>2. ASSUME NEW i \in DOMAIN sink'
      PROVE  Behind(sink[i].id)'
  <2>1. PICK x \in FrameId : x = sink'[i].id /\ Behind(x)'
    BY <1>2
  <2> QED  BY <2>1 DEF Behind
<1> QED  BY <1>1, <1>2 DEF LeftTheQueue

\* The usual case: nothing new is held or delivered.
LEMMA LeftTheQueueKept ==
  ASSUME TypeOK, LeftTheQueue,
         \A x \in FrameId : Behind(x) => Behind(x)',
         \A e \in Encoders : hand'[e] \in {hand[e], NoFrame},
         UNCHANGED sink
  PROVE  LeftTheQueue'
<1>1. \A e \in Encoders : hand'[e] # NoFrame =>
         \E x \in FrameId : x = hand'[e] /\ (Behind(x) \/ Behind(x)')
  BY Ids DEF LeftTheQueue
<1>2. \A i \in DOMAIN sink' :
         \E x \in FrameId : x = sink'[i].id /\ (Behind(x) \/ Behind(x)')
  BY Ids DEF LeftTheQueue
<1> QED  BY <1>1, <1>2, LeftTheQueueStep

\* submit moves nothing out of the queue.
LEMMA SubmitIInv ==
  ASSUME IInv, NEW id \in FrameId, Submit(id)
  PROVE  IInv'
<1> USE DEF IInv
<1>1. QueueInv'
  BY SubmitQueueInv DEF Submit
<1>2. TypeOK'
  BY <1>1 DEF Submit, TypeOK, QueueInv
<1>3. generation' = generation
  BY DEF Submit, submit, RejectGeneration, RejectSequence, Enqueue, DropOldest
<1>4. HandInv' /\ GateInv' /\ Distinct' /\ NothingStaleAtSink' /\ GenerationsInOrder'
  BY <1>3 DEF Submit, HandInv, GateInv, Distinct, NothingStaleAtSink,
              GenerationsInOrder
<1>5. LeftTheQueue'
  <2>1. \A x \in FrameId : Behind(x) => Behind(x)'
    BY BehindSubmit DEF Submit
  <2> QED  BY <2>1, LeftTheQueueKept DEF Submit
<1> QED  BY <1>1, <1>2, <1>4, <1>5

\* try_take moves the head of the queue into the encoder's hand.
LEMMA TryTakeIInv ==
  ASSUME IInv, NEW e \in Encoders, TryTake(e)
  PROVE  IInv'
<1> USE DEF IInv
<1> DEFINE id == Head(frames)
<1>1. QueueInv'
  BY TakeQueueInv DEF TryTake
<1>2. id \in FrameId /\ frames # <<>> /\ id = frames[1] /\ 1 \in DOMAIN frames
  BY DEF TryTake, try_take, TypeOK, QueueTypeOK
<1>3. /\ hand' = [hand EXCEPT ![e] = id]
      /\ pc' = [pc EXCEPT ![e] = "encode"]
      /\ UNCHANGED <<owner, poisoned, sink, requested, generation>>
  BY DEF TryTake, try_take
<1>4. TypeOK'
  BY <1>1, <1>2, <1>3 DEF TypeOK, QueueInv
<1>5. HandInv' /\ GateInv'
  BY <1>2, <1>3 DEF HandInv, GateInv, Holding, TypeOK, TryTake
<1>6. Distinct'
  <2>1. \A f \in Encoders : hand[f] # id
    BY <1>2, QueuedIsNotBehind, ThreadAssumption, SMTT(30) DEF LeftTheQueue
  <2>2. \A i \in DOMAIN sink : sink[i].id # id
    BY <1>2, QueuedIsNotBehind, Ids, SMTT(30) DEF LeftTheQueue
  <2> HIDE DEF id
  <2> QED  BY <1>3, <2>1, <2>2 DEF Distinct, TypeOK
<1>7. LeftTheQueue'
  <2>1. \A x \in FrameId : Behind(x) => Behind(x)'
    BY BehindTake DEF TryTake
  <2>2. \A x : x = id => Behind(x)'
    BY HeadIsBehind DEF TryTake
  <2> HIDE DEF id
  <2>3. \A f \in Encoders : hand'[f] # NoFrame =>
           \E x \in FrameId : x = hand'[f] /\ (Behind(x) \/ Behind(x)')
    <3> SUFFICES ASSUME NEW f \in Encoders, hand'[f] # NoFrame
                 PROVE  \E x \in FrameId : x = hand'[f] /\ (Behind(x) \/ Behind(x)')
      OBVIOUS
    <3>1. CASE f = e
      <4>1. hand'[f] = id
        BY <1>3, <3>1 DEF TypeOK
      <4> QED  BY <1>2, <2>2, <4>1
    <3>2. CASE f # e
      <4>1. hand'[f] = hand[f]
        BY <1>3, <3>2 DEF TypeOK
      <4> QED  BY <4>1, Ids DEF LeftTheQueue
    <3> QED  BY <3>1, <3>2
  <2>4. \A i \in DOMAIN sink' :
           \E x \in FrameId : x = sink'[i].id /\ (Behind(x) \/ Behind(x)')
    BY <1>3, Ids DEF LeftTheQueue
  <2> QED  BY <2>1, <2>3, <2>4, LeftTheQueueStep
<1>8. NothingStaleAtSink' /\ GenerationsInOrder'
  BY <1>3 DEF NothingStaleAtSink, GenerationsInOrder
<1> QED  BY <1>1, <1>4, <1>5, <1>6, <1>7, <1>8, SMTT(30)

\* A step that keeps the queue and the sink and may only empty hands.
LEMMA QuietIInv ==
  ASSUME IInv, TypeOK', HandInv', GateInv',
         UNCHANGED <<generation, last_sequence, frames, sink>>,
         QueueInv',
         \A e \in Encoders : hand'[e] \in {hand[e], NoFrame}
  PROVE  IInv'
<1> USE DEF IInv
<1>1. LeftTheQueue'
  <2>1. \A x \in FrameId : Behind(x) => Behind(x)'
    BY BehindUnchanged
  <2> QED  BY <2>1, LeftTheQueueKept
<1>2. Distinct'
  BY DEF Distinct
<1>3. NothingStaleAtSink' /\ GenerationsInOrder'
  BY SMTT(30) DEF NothingStaleAtSink, GenerationsInOrder
<1> QED  BY <1>1, <1>2, <1>3

\* The queue's invariant when the queue does not change.
LEMMA QueueInvUnchanged ==
  ASSUME QueueInv, UNCHANGED queue
  PROVE  QueueInv'
BY DEF QueueInv, queue, QueueTypeOK, QueueHoldsNewest, StatsAccountForFrames,
       snapshot

\* Compression, successful or not.
LEMMA EncodeIInv ==
  ASSUME IInv, NEW e \in Encoders, Encode(e)
  PROVE  IInv'
<1> USE DEF IInv
<1>1. QueueInv' /\ UNCHANGED <<generation, last_sequence, frames, sink>>
  BY QueueInvUnchanged DEF Encode, queue
<1>2. TypeOK'
  BY <1>1 DEF Encode, TypeOK, QueueInv
<1>3. HandInv' /\ GateInv'
  BY <1>1, ThreadAssumption DEF Encode, HandInv, GateInv, Holding, TypeOK
<1>4. \A f \in Encoders : hand'[f] \in {hand[f], NoFrame}
  BY DEF Encode, TypeOK
<1> QED  BY <1>1, <1>2, <1>3, <1>4, QuietIInv

\* The check of with_current_generation.
LEMMA EnterGateIInv ==
  ASSUME IInv, NEW e \in Encoders, EnterGate(e)
  PROVE  IInv'
<1> USE DEF IInv
<1>1. hand[e] \in FrameId
  BY DEF EnterGate, HandInv, Holding
<1>2. CASE RejectAtSink(hand[e])
  <2>1. QueueInv'
    BY <1>1, <1>2, RejectQueueInv
  <2>2. /\ UNCHANGED <<generation, last_sequence, frames, sink, owner,
                       poisoned, requested>>
        /\ pc' = [pc EXCEPT ![e] = "idle"]
        /\ hand' = [hand EXCEPT ![e] = NoFrame]
    BY <1>2 DEF EnterGate, RejectAtSink, lock_state
  <2>3. TypeOK'
    BY <2>1, <2>2 DEF TypeOK, QueueInv
  <2>4. HandInv' /\ GateInv'
    BY <2>2, ThreadAssumption DEF HandInv, GateInv, Holding, TypeOK
  <2>5. \A f \in Encoders : hand'[f] \in {hand[f], NoFrame}
    BY <2>2 DEF TypeOK
  <2> QED  BY <2>1, <2>2, <2>3, <2>4, <2>5, QuietIInv, SMTT(30)
<1>3. CASE GenerationIsCurrent(hand[e])
  <2>1. /\ UNCHANGED <<queue, hand, poisoned, sink, requested>>
        /\ owner' = e /\ owner = Free
        /\ pc' = [pc EXCEPT ![e] = "sink"]
        /\ pc[e] = "gate"
    BY <1>3 DEF EnterGate, RejectAtSink, lock_state
  <2>2. QueueInv' /\ UNCHANGED <<generation, last_sequence, frames, sink>>
    BY <2>1, QueueInvUnchanged DEF queue
  <2>3. TypeOK'
    BY <2>1, <2>2 DEF TypeOK, QueueInv
  <2>4. HandInv'
    BY <1>1, <2>1 DEF HandInv, Holding, TypeOK
  <2>5. GateInv'
    <3>1. \A f \in Encoders : pc[f] # "sink"
      BY <2>1, ThreadAssumption DEF GateInv
    <3> QED  BY <1>3, <2>1, <2>2, <3>1 DEF GateInv, GenerationIsCurrent, TypeOK
  <2> QED  BY <2>1, <2>2, <2>3, <2>4, <2>5, QuietIInv
<1> QED  BY <1>2, <1>3 DEF EnterGate, RejectAtSink

\* The end of a closure: the mutex is released, the hand is empty, and the
\* frame was delivered or (after a panic) lost.
LEMMA ClosureIInv ==
  ASSUME IInv, NEW e \in Encoders, pc[e] = "sink",
         sink' \in {sink, Append(sink, Delivery(e))},
         owner' = Free, poisoned' \in BOOLEAN,
         NEW next \in {"idle", "dead"}, pc' = [pc EXCEPT ![e] = next],
         hand' = [hand EXCEPT ![e] = NoFrame],
         UNCHANGED <<queue, requested>>
  PROVE  IInv'
<1> USE DEF IInv
<1>1. /\ hand[e] \in FrameId /\ hand[e] # NoFrame /\ owner = e
      /\ hand[e].generation = generation
  BY ThreadAssumption DEF GateInv, HandInv, Holding
<1>2. QueueInv' /\ UNCHANGED <<generation, last_sequence, frames, stats>>
  BY QueueInvUnchanged DEF queue
<1>3. Delivery(e) \in SinkSubmission
  BY <1>1 DEF Delivery, SinkSubmission, TypeOK, QueueTypeOK
<1>4. TypeOK'
  <2>1. sink' \in Seq(SinkSubmission)
    BY <1>3 DEF TypeOK
  <2> QED  BY <1>2, <2>1 DEF TypeOK, QueueInv
<1>5. HandInv' /\ GateInv'
  <2>1. \A f \in Encoders : f # e => pc[f] # "sink"
    BY <1>1, SMTT(30) DEF GateInv
  <2> QED
    BY <2>1, ThreadAssumption DEF HandInv, GateInv, Holding, TypeOK
<1>6. CASE sink' = sink
  <2>1. \A f \in Encoders : hand'[f] \in {hand[f], NoFrame}
    BY DEF TypeOK
  <2> QED  BY <1>2, <1>4, <1>5, <1>6, <2>1, QuietIInv, SMTT(30)
<1>7. CASE sink' = Append(sink, Delivery(e))
  <2>1. /\ DOMAIN sink' = 1 .. Len(sink) + 1
        /\ DOMAIN sink = 1 .. Len(sink)
        /\ Len(sink) \in Nat
        /\ \A i \in DOMAIN sink : sink'[i] = sink[i]
        /\ sink'[Len(sink) + 1] = Delivery(e)
    BY <1>3, <1>7 DEF TypeOK
  <2>2. \A i \in DOMAIN sink' :
           \/ i \in DOMAIN sink /\ sink'[i] = sink[i]
           \/ i = Len(sink) + 1 /\ sink'[i] = Delivery(e)
    BY <2>1
  <2>3. Delivery(e).id = hand[e] /\ Delivery(e).active = generation
    BY SMTT(30) DEF Delivery
  <2>4. LeftTheQueue'
    <3>1. \A x \in FrameId : Behind(x) => Behind(x)'
      BY <1>2, BehindUnchanged, SMTT(30)
    <3>2. \A f \in Encoders : hand'[f] # NoFrame =>
             \E x \in FrameId : x = hand'[f] /\ (Behind(x) \/ Behind(x)')
      BY Ids, SMTT(30) DEF LeftTheQueue, TypeOK
    <3>3. \A i \in DOMAIN sink' :
             \E x \in FrameId : x = sink'[i].id /\ (Behind(x) \/ Behind(x)')
      BY <1>1, <2>2, <2>3, Ids, SMTT(30) DEF LeftTheQueue
    <3> QED  BY <3>1, <3>2, <3>3, LeftTheQueueStep, SMTT(30)
  <2>5. Distinct'
    <3>1. ASSUME NEW i \in DOMAIN sink', NEW j \in DOMAIN sink', i # j
          PROVE  sink'[i].id # sink'[j].id
      BY <1>1, <2>1, <2>2, <2>3, <3>1, SMTT(30) DEF Distinct
    <3>2. ASSUME NEW f \in Encoders, hand'[f] # NoFrame
          PROVE  /\ \A i \in DOMAIN sink' : sink'[i].id # hand'[f]
                 /\ \A g \in Encoders : g # f => hand'[g] # hand'[f]
      <4>1. f # e /\ hand'[f] = hand[f]
        BY <3>2 DEF TypeOK
      <4>2. \A g \in Encoders : hand'[g] \in {hand[g], NoFrame}
        BY SMTT(30) DEF TypeOK
      <4> QED  BY <1>1, <2>2, <2>3, <3>2, <4>1, <4>2, SMTT(30) DEF Distinct
    <3> QED  BY <3>1, <3>2, SMTT(30) DEF Distinct
  <2>6. NothingStaleAtSink'
    BY <1>1, <2>2, <2>3, SMTT(30) DEF NothingStaleAtSink
  <2>7. GenerationsInOrder'
    <3>1. \A i \in DOMAIN sink : /\ sink[i].id.generation <= generation
                                 /\ sink[i].id.generation \in Nat
      BY Ids, FrameIdFields, PipelineAssumption, SMTT(30)
         DEF LeftTheQueue, Behind, TypeOK, QueueTypeOK
    <3>2. generation \in Nat
      BY PipelineAssumption DEF TypeOK, QueueTypeOK
    <3> QED
      BY <1>1, <2>1, <2>2, <2>3, <3>1, <3>2, SMTT(30) DEF GenerationsInOrder
  <2> QED  BY <1>2, <1>4, <1>5, <2>4, <2>5, <2>6, <2>7, SMTT(30)
<1> QED  BY <1>6, <1>7

\* begin_generation runs only while no closure holds the mutex.
LEMMA BeginGenerationIInv ==
  ASSUME IInv, BeginGeneration
  PROVE  IInv'
<1> USE DEF IInv
<1>1. requested \in Generations
  BY DEF BeginGeneration, TypeOK
<1>2. QueueInv'
  BY <1>1, BeginQueueInv, SMTT(30) DEF BeginGeneration
<1>3. TypeOK'
  BY <1>2 DEF BeginGeneration, TypeOK, QueueInv
<1>4. HandInv'
  BY DEF HandInv, BeginGeneration
<1>5. GateInv'
  BY ThreadAssumption DEF GateInv, BeginGeneration, lock_state
<1>6. LeftTheQueue'
  <2>1. \A x \in FrameId : Behind(x) => Behind(x)'
    BY <1>1, BehindBegin, SMTT(30) DEF BeginGeneration
  <2> QED  BY <2>1, LeftTheQueueKept DEF BeginGeneration
<1>7. Distinct' /\ NothingStaleAtSink' /\ GenerationsInOrder'
  BY DEF BeginGeneration, Distinct, NothingStaleAtSink, GenerationsInOrder
<1> QED  BY <1>2, <1>3, <1>4, <1>5, <1>6, <1>7, SMTT(30)

\* The teardown path asking for a generation touches nothing else.
LEMMA RequestIInv ==
  ASSUME IInv, NEW g \in Generations, Request(g)
  PROVE  IInv'
<1>1. QueueInv' /\ UNCHANGED <<generation, last_sequence, frames, sink>>
  BY QueueInvUnchanged DEF IInv, Request, queue
<1>2. TypeOK' /\ HandInv' /\ GateInv'
  BY <1>1 DEF IInv, Request, TypeOK, QueueInv, HandInv, GateInv
<1> QED  BY <1>1, <1>2, QuietIInv DEF Request

\* Every step of every thread preserves the invariant.
LEMMA NextIInv == IInv /\ [Next]_vars => IInv'
<1> SUFFICES ASSUME IInv, [Next]_vars PROVE IInv'
  OBVIOUS
<1>1. ASSUME NEW id \in FrameId, Submit(id) PROVE IInv'
  BY <1>1, SubmitIInv
<1>2. ASSUME NEW e \in Encoders, Encoder(e) PROVE IInv'
  <2>1. CASE TryTake(e)
    BY <2>1, TryTakeIInv
  <2>2. CASE Encode(e)
    BY <2>2, EncodeIInv, SMTT(30)
  <2>3. CASE EnterGate(e)
    BY <2>3, EnterGateIInv
  <2>4. CASE RunClosure(e)
    <3>1. poisoned' \in BOOLEAN
      BY <2>4 DEF RunClosure, IInv, TypeOK
    <3> QED  BY <2>4, <3>1, ClosureIInv, Zenon DEF RunClosure
  <2>5. CASE PanicInClosure(e)
    BY <2>5, ClosureIInv, Zenon DEF PanicInClosure
  <2> QED  BY <1>2, <2>1, <2>2, <2>3, <2>4, <2>5, SMTT(30) DEF Encoder
<1>3. ASSUME NEW g \in Generations, Request(g) PROVE IInv'
  BY <1>3, RequestIInv
<1>4. CASE BeginGeneration
  BY <1>4, BeginGenerationIInv
<1>5. CASE UNCHANGED vars
  <2>1. QueueInv' /\ UNCHANGED <<generation, last_sequence, frames, sink, hand>>
    BY <1>5, QueueInvUnchanged, SMTT(30) DEF vars, IInv, queue
  <2>2. TypeOK' /\ HandInv' /\ GateInv'
    BY <1>5, <2>1 DEF vars, IInv, TypeOK, QueueInv, HandInv, GateInv
  <2> QED  BY <2>1, <2>2, QuietIInv
<1> QED  BY <1>1, <1>2, <1>3, <1>4, <1>5 DEF Next

\* FramePipeline keeps its inductive invariant in every reachable state.
THEOREM Invariance == Spec => []IInv
BY InitIInv, NextIInv, PTL DEF Spec

\* Every variable keeps its type.
THEOREM TypeCorrect == Spec => []TypeOK
<1>1. IInv => TypeOK
  BY DEF IInv
<1> QED  BY <1>1, Invariance, PTL

\* The queue is bounded, ordered, of one generation, and keeps the newest
\* frames, for every capacity (submit, try_take, begin_generation).
THEOREM QueueBounded == Spec => []QueueHoldsNewest
<1>1. IInv => QueueHoldsNewest
  BY DEF IInv, QueueInv
<1> QED  BY <1>1, Invariance, PTL

\* The statistics account for every accepted frame, saturated or not.
THEOREM StatsAccount == Spec => []StatsAccountForFrames
<1>1. IInv => StatsAccountForFrames
  BY DEF IInv, QueueInv
<1> QED  BY <1>1, Invariance, PTL

\* with_current_generation lets nothing stale through, for any number of
\* encoders.
THEOREM NothingStale == Spec => []NothingStaleAtSink
<1>1. IInv => NothingStaleAtSink
  BY DEF IInv
<1> QED  BY <1>1, Invariance, PTL

\* Deliveries of an older generation never follow those of a newer one.
THEOREM GenerationOrder == Spec => []GenerationsInOrder
<1>1. IInv => GenerationsInOrder
  BY DEF IInv
<1> QED  BY <1>1, Invariance, PTL

\* No frame is ever in two places: queue, one encoder's hand, or sink.
THEOREM Ownership == Spec => []FramesAreMoved
<1>1. ASSUME IInv PROVE FramesAreMoved
  <2>1. \A e \in Encoders : hand[e] # NoFrame =>
          \A i \in DOMAIN frames : frames[i] # hand[e]
    BY <1>1, QueuedIsNotBehind, Ids, SMTT(30) DEF IInv, LeftTheQueue
  <2>2. \A i \in DOMAIN sink, j \in DOMAIN frames : sink[i].id # frames[j]
    BY <1>1, QueuedIsNotBehind, Ids DEF IInv, LeftTheQueue
  <2> QED  BY <1>1, <2>1, <2>2, SMTT(30) DEF IInv, Distinct, FramesAreMoved
<1> QED  BY <1>1, Invariance, PTL

\* The active generation only advances, never under a running closure, and
\* leaves an empty queue (begin_generation).
THEOREM GenerationAdvances == Spec => GenerationChange
<1> DEFINE Change == generation # generation' =>
                       /\ generation < generation'
                       /\ owner = Free
                       /\ frames' = <<>>
<1>1. IInv /\ [Next]_vars => [Change]_vars
  <2> SUFFICES ASSUME IInv, [Next]_vars, generation # generation'
               PROVE  generation < generation' /\ owner = Free /\ frames' = <<>>
    OBVIOUS
  <2>1. BeginGeneration
    BY DEF Next, vars, queue, Submit, submit, RejectGeneration, RejectSequence,
           Enqueue, DropOldest, Encoder, TryTake, try_take, Encode, EnterGate,
           RejectAtSink, RunClosure, PanicInClosure, Request
  <2>2. requested \in Nat /\ generation \in Nat
    BY <2>1, PipelineAssumption DEF BeginGeneration, IInv, TypeOK, QueueTypeOK
  <2> QED
    BY <2>1, <2>2 DEF BeginGeneration, lock_state, begin_generation, queue,
                      GenerationNotIncreasing
<1> QED  BY <1>1, Invariance, PTL DEF Spec, GenerationChange
-----------------------------------------------------------------------------
(* One encoder worker *)

\* The sink is in capture order, and so is what the encoder holds behind it.
InOrder ==
  /\ SinkInCaptureOrder
  /\ \A e \in Encoders : hand[e] # NoFrame =>
       \A i \in DOMAIN sink : Older(sink[i].id, hand[e])

\* What try_take hands out is newer than everything that left the queue before.
LEMMA HeadIsNewer ==
  ASSUME QueueInv, frames # <<>>, NEW id \in FrameId, Behind(id)
  PROVE  Older(id, Head(frames))
<1>1. 1 \in DOMAIN frames /\ Head(frames) = frames[1]
  BY SMTT(30) DEF QueueInv, QueueTypeOK
<1> QED  BY <1>1 DEF Behind, Older, QueueInv, QueueHoldsNewest

\* A step that delivers nothing and gives the encoder nothing new.
LEMMA QuietInOrder ==
  ASSUME InOrder, UNCHANGED sink,
         \A e \in Encoders : hand'[e] \in {hand[e], NoFrame}
  PROVE  InOrder'
BY DEF InOrder, SinkInCaptureOrder, Older

LEMMA ClosureInOrder ==
  ASSUME IInv, InOrder, \A e, f \in Encoders : e = f,
         NEW e \in Encoders, pc[e] = "sink",
         sink' \in {sink, Append(sink, Delivery(e))},
         hand' = [hand EXCEPT ![e] = NoFrame]
  PROVE  InOrder'
<1>1. \A f \in Encoders : hand'[f] = NoFrame
  BY DEF IInv, TypeOK
<1>2. CASE sink' = sink  BY <1>1, <1>2, QuietInOrder, SMTT(30)
<1>3. CASE sink' = Append(sink, Delivery(e))
  <2>1. hand[e] # NoFrame
    BY ThreadAssumption, SMTT(30) DEF IInv, HandInv, Holding
  <2>2. \A i \in DOMAIN sink : Older(sink[i].id, hand[e])
    BY <2>1 DEF InOrder
  <2>3. Delivery(e).id = hand[e]
    BY DEF Delivery
  <2>4. /\ sink \in Seq(SinkSubmission) /\ Len(sink) \in Nat
        /\ DOMAIN sink = 1 .. Len(sink) /\ DOMAIN sink' = 1 .. Len(sink) + 1
        /\ \A i \in DOMAIN sink : sink'[i] = sink[i]
        /\ sink'[Len(sink) + 1] = Delivery(e)
    BY <1>3 DEF IInv, TypeOK
  <2>5. ASSUME NEW i \in DOMAIN sink', NEW j \in DOMAIN sink', i < j
        PROVE  Older(sink'[i].id, sink'[j].id)
    <3>1. i \in DOMAIN sink /\ sink'[i] = sink[i]
      BY <2>4, <2>5, SMTT(30)
    <3>2. CASE j \in DOMAIN sink
      BY <2>4, <2>5, <3>1, <3>2, SMTT(30) DEF InOrder, SinkInCaptureOrder
    <3>3. CASE j = Len(sink) + 1
      BY <2>2, <2>3, <2>4, <3>1, <3>3, SMTT(30)
    <3> QED  BY <2>4, <3>2, <3>3, SMTT(30)
  <2> QED  BY <1>1, <2>5, SMTT(30) DEF InOrder, SinkInCaptureOrder, Older
<1> QED  BY <1>2, <1>3

LEMMA InOrderStep ==
  ASSUME IInv, InOrder, [Next]_vars, \A e, f \in Encoders : e = f
  PROVE  InOrder'
<1>1. ASSUME NEW e \in Encoders, TryTake(e)  PROVE InOrder'
  <2>1. /\ frames # <<>> /\ UNCHANGED sink
        /\ hand' = [hand EXCEPT ![e] = Head(frames)]
    BY <1>1, SMTT(30) DEF TryTake, try_take
  <2>2. \A i \in DOMAIN sink : Older(sink[i].id, Head(frames))
    BY <2>1, HeadIsNewer, Ids, SMTT(30) DEF IInv, LeftTheQueue
  <2>3. \A f \in Encoders : hand'[f] = Head(frames)
    BY <2>1 DEF IInv, TypeOK
  <2> QED  BY <2>1, <2>2, <2>3 DEF InOrder, SinkInCaptureOrder, Older
<1>2. ASSUME NEW e \in Encoders, RunClosure(e) \/ PanicInClosure(e)  PROVE InOrder'
  BY <1>2, ClosureInOrder, SMTT(30) DEF RunClosure, PanicInClosure
<1>3. ASSUME NEW e \in Encoders, Encode(e) \/ EnterGate(e)  PROVE InOrder'
  <2>1. UNCHANGED sink /\ \A f \in Encoders : hand'[f] \in {hand[f], NoFrame}
    BY <1>3 DEF Encode, EnterGate, IInv, TypeOK
  <2> QED  BY <2>1, QuietInOrder, SMTT(30)
<1>4. CASE UNCHANGED <<hand, sink>>
  <2>1. \A f \in Encoders : hand'[f] \in {hand[f], NoFrame}
    BY <1>4
  <2> QED  BY <1>4, <2>1, QuietInOrder
<1>5. CASE UNCHANGED vars  BY <1>4, <1>5 DEF vars
<1>6. ASSUME NEW id \in FrameId, Submit(id)  PROVE InOrder'
  BY <1>4, <1>6 DEF Submit
<1>7. ASSUME NEW g \in Generations, Request(g)  PROVE InOrder'
  BY <1>4, <1>7 DEF Request
<1>8. CASE BeginGeneration  BY <1>4, <1>8 DEF BeginGeneration
<1> QED  BY <1>1, <1>2, <1>3, <1>5, <1>6, <1>7, <1>8, SMTT(30) DEF Next, Encoder

\* With one encoder worker the sink sees frames in capture order, whatever is
\* dropped, rejected or discarded on the way and however often the generation
\* changes.
THEOREM CaptureOrder ==
  ASSUME \A e, f \in Encoders : e = f
  PROVE  Spec => []SinkInCaptureOrder
<1>1. Init => InOrder
  BY DEF Init, InOrder, SinkInCaptureOrder
<1>2. IInv /\ InOrder /\ [Next]_vars => InOrder'
  BY InOrderStep
<1>3. InOrder => SinkInCaptureOrder  BY SMTT(30) DEF InOrder
<1> QED  BY <1>1, <1>2, <1>3, Invariance, PTL DEF Spec

-----------------------------------------------------------------------------
(* The refinement: a queue that drops from its front keeps exactly the     *)
(* newest frames, whatever the capacity.                                   *)

Members(s) == {s[i] : i \in DOMAIN s}

Increasing(s) ==
  \A i, j \in DOMAIN s : i < j => s[i].sequence < s[j].sequence

\* In a queue in capture order, exactly the frames behind the i-th are newer
\* than it.
LEMMA NewerIsBehind ==
  ASSUME NEW s \in Seq(FrameId), Increasing(s), NEW i \in DOMAIN s
  PROVE  Abstract!Newer(Members(s), s[i]) = {s[j] : j \in i + 1 .. Len(s)}
<1>1. \A j \in DOMAIN s : s[j].sequence \in Nat
  BY FrameIdFields
<1>2. \A j \in DOMAIN s : s[j].sequence > s[i].sequence <=> j > i
  BY <1>1, SMTT(30) DEF Increasing
<1> QED  BY <1>2 DEF Abstract!Newer, Members

\* There are as many of them as follow it.
LEMMA NewerCount ==
  ASSUME NEW s \in Seq(FrameId), Increasing(s), NEW i \in DOMAIN s
  PROVE  Cardinality(Abstract!Newer(Members(s), s[i])) = Len(s) - i
<1> DEFINE S == {s[j] : j \in i + 1 .. Len(s)}
           n == Len(s) - i
           f == [k \in 1 .. n |-> s[i + k]]
<1>1. n \in Nat
  OBVIOUS
<1>2. \A j \in DOMAIN s : s[j].sequence \in Nat
  BY FrameIdFields
<1>3. f \in [1 .. n -> S]
  OBVIOUS
<1>4. \A a, b \in 1 .. n : f[a] = f[b] => a = b
  <2> SUFFICES ASSUME NEW a \in 1 .. n, NEW b \in 1 .. n, a < b
               PROVE  f[a] # f[b]
    OBVIOUS
  <2>1. s[i + a].sequence < s[i + b].sequence
    BY DEF Increasing
  <2>2. s[i + a].sequence \in Nat /\ s[i + b].sequence \in Nat
    BY <1>2
  <2> QED  BY <2>1, <2>2
<1>5. \A x \in S : \E a \in 1 .. n : f[a] = x
  <2> SUFFICES ASSUME NEW j \in i + 1 .. Len(s)
               PROVE  \E a \in 1 .. n : f[a] = s[j]
    OBVIOUS
  <2>1. j - i \in 1 .. n /\ i + (j - i) = j
    BY SMTT(30)
  <2> QED  BY <2>1
<1>6. f \in Bijection(1 .. n, S)
  BY <1>3, <1>4, <1>5, Zenon DEF Bijection, Injection, Surjection, IsInjective
<1>7. ExistsBijection(1 .. n, S)
  BY <1>6 DEF ExistsBijection
<1>8. Cardinality(S) = n
  BY <1>1, <1>7, FS_CountingElements
<1> QED  BY <1>8, NewerIsBehind, Zenon

\* The Capacity last frames of such a queue are its newest.
LEMMA LastAreNewest ==
  ASSUME NEW s \in Seq(FrameId), Increasing(s)
  PROVE  Abstract!Newest(Members(s)) = {s[i] : i \in {j \in DOMAIN s : Len(s) - j < Capacity}}
<1>1. ASSUME NEW i \in DOMAIN s
      PROVE  s[i] \in Abstract!Newest(Members(s)) <=> Len(s) - i < Capacity
  <2>1. s[i] \in Members(s)
    BY DEF Members
  <2>2. Cardinality(Abstract!Newer(Members(s), s[i])) = Len(s) - i
    BY NewerCount
  <2>3. \A S : Abstract!Cardinality(S) = Cardinality(S)
    BY DEF Abstract!Cardinality, Cardinality
  <2> QED  BY <2>1, <2>2, <2>3 DEF Abstract!Newest
<1>2. Abstract!Newest(Members(s)) \subseteq Members(s)
  BY DEF Abstract!Newest
<1> QED  BY <1>1, <1>2 DEF Members

\* The queue is in capture order.
LEMMA QueueIncreasing ==
  ASSUME QueueInv
  PROVE  frames \in Seq(FrameId) /\ Increasing(frames)
BY SMTT(30) DEF QueueInv, QueueTypeOK, QueueHoldsNewest, Increasing

\* So it is with an acceptable frame at its end.
LEMMA AppendIncreasing ==
  ASSUME QueueInv, NEW id \in FrameId, Acceptable(id)
  PROVE  /\ Append(frames, id) \in Seq(FrameId)
         /\ Increasing(Append(frames, id))
         /\ Members(Append(frames, id)) = Members(frames) \cup {id}
<1> DEFINE s == Append(frames, id)
<1>1. frames \in Seq(FrameId) /\ Increasing(frames)
  BY QueueIncreasing
<1>2. /\ s \in Seq(FrameId) /\ Len(s) = Len(frames) + 1 /\ s[Len(s)] = id
      /\ \A i \in DOMAIN frames : s[i] = frames[i]
      /\ DOMAIN s = DOMAIN frames \cup {Len(s)}
      /\ \A i \in DOMAIN frames : i \in Nat /\ i < Len(s)
  BY <1>1
<1>3. \A i \in DOMAIN frames : frames[i].sequence < id.sequence
  BY AcceptableIsNewer, SMTT(30)
<1>4. Increasing(s)
  <2> SUFFICES ASSUME NEW i \in DOMAIN s, NEW j \in DOMAIN s, i < j
               PROVE  s[i].sequence < s[j].sequence
    BY DEF Increasing
  <2>1. i \in DOMAIN frames
    BY <1>1, <1>2, SMTT(30)
  <2>2. CASE j \in DOMAIN frames
    BY <1>1, <1>2, <2>1, <2>2, SMTT(30) DEF Increasing
  <2>3. CASE j = Len(s)
    BY <1>2, <1>3, <2>1, <2>3, SMTT(30)
  <2> QED  BY <1>2, <2>2, <2>3, SMTT(30)
<1>5. Members(s) = Members(frames) \cup {id}
  BY <1>2 DEF Members
<1> QED  BY <1>2, <1>4, <1>5

-----------------------------------------------------------------------------
(* Each method of the queue is a step of NewestFrames, or none. *)

\* submit with room, and submit on a full queue.
LEMMA OfferStep ==
  ASSUME QueueInv, NEW id \in FrameId, Enqueue(id) \/ DropOldest(id)
  PROVE  Abstract!Offer(id)
<1> DEFINE s == Append(frames, id)
<1>1. Acceptable(id) /\ Len(frames) <= Capacity /\ Len(frames) \in Nat
  BY QueueIncreasing DEF Enqueue, DropOldest, QueueInv, QueueHoldsNewest
<1>2. /\ s \in Seq(FrameId) /\ Increasing(s)
      /\ Members(s) = Members(frames) \cup {id}
  BY <1>1, AppendIncreasing, SMTT(30)
<1>3. Members(frames') = {s[i] : i \in {j \in DOMAIN s : Len(s) - j < Capacity}}
  <2>1. Capacity \in Nat /\ Capacity > 0 /\ frames \in Seq(FrameId)
    BY PipelineAssumption, QueueIncreasing, SMTT(30)
  <2>2. CASE Enqueue(id)
    <3>1. frames' = s /\ Len(s) <= Capacity
      BY <1>1, <2>1, <2>2, SMTT(30) DEF Enqueue
    <3>2. \A j \in DOMAIN s : Len(s) - j < Capacity
      BY <1>2, <2>1, <3>1, SMTT(30)
    <3> QED  BY <3>1, <3>2 DEF Members
  <2>3. CASE DropOldest(id)
    <3>1. frames' = Append(Tail(frames), id) /\ Len(s) = Capacity + 1
      BY <2>1, <2>3 DEF DropOldest
    <3>2. /\ DOMAIN frames' = 1 .. Capacity
          /\ \A i \in 1 .. Capacity : frames'[i] = s[i + 1]
      BY <2>1, <2>3, <3>1 DEF DropOldest
    <3>3. {j \in DOMAIN s : Len(s) - j < Capacity} = 2 .. Capacity + 1
      BY <1>2, <2>1, <3>1
    <3>4. {s[i] : i \in 2 .. Capacity + 1} = {s[i + 1] : i \in 1 .. Capacity}
      <4>1. \A i \in 2 .. Capacity + 1 : i - 1 \in 1 .. Capacity /\ (i - 1) + 1 = i
        BY <2>1
      <4>2. \A i \in 1 .. Capacity : i + 1 \in 2 .. Capacity + 1
        BY <2>1
      <4> QED  BY <4>1, <4>2, Zenon
    <3>5. Members(frames') = {s[i + 1] : i \in 1 .. Capacity}
      BY <3>2, Zenon DEF Members
    <3> QED  BY <3>3, <3>4, <3>5, Zenon
  <2> QED  BY <2>2, <2>3
<1>4. Members(frames') = Abstract!Newest(Members(frames) \cup {id})
  BY <1>2, <1>3, LastAreNewest, Zenon
<1>5. id.sequence > last_sequence /\ id.generation = generation
  BY <1>1, FrameIdFields DEF Acceptable, None
<1> QED
  BY <1>4, <1>5 DEF Abstract!Offer, Enqueue, DropOldest, Members

\* try_take hands out the oldest frame.
LEMMA TakeStep ==
  ASSUME QueueInv, try_take
  PROVE  Abstract!Take
<1>1. /\ frames \in Seq(FrameId) /\ Increasing(frames)
      /\ frames # <<>> /\ frames' = Tail(frames)
      /\ UNCHANGED <<generation, last_sequence>>
  BY QueueIncreasing DEF try_take
<1>2. /\ 1 \in DOMAIN frames
      /\ \A i \in DOMAIN frames : frames[i].sequence \in Nat
  BY <1>1, FrameIdFields
<1>3. \A i \in DOMAIN frames : i # 1 => frames[1].sequence < frames[i].sequence
  BY <1>1, <1>2 DEF Increasing
<1>4. Members(frames') = Members(frames) \ {frames[1]}
  <2>1. /\ DOMAIN frames' = 1 .. Len(frames) - 1
        /\ \A i \in DOMAIN frames' : frames'[i] = frames[i + 1] /\ i + 1 \in DOMAIN frames /\ i + 1 # 1
    BY <1>1
  <2>2. \A i \in DOMAIN frames : i # 1 => i - 1 \in DOMAIN frames' /\ frames'[i - 1] = frames[i]
    BY <1>1, <2>1, SMTT(30)
  <2>3. \A i \in DOMAIN frames : i # 1 => frames[i] # frames[1]
    BY <1>2, <1>3, SMTT(30)
  <2>4. Members(frames') \subseteq Members(frames) \ {frames[1]}
    BY <2>1, <2>3, SMTT(30) DEF Members
  <2>5. Members(frames) \ {frames[1]} \subseteq Members(frames')
    BY <2>2 DEF Members
  <2> QED  BY <2>4, <2>5
<1>5. \A other \in Members(frames) : frames[1].sequence <= other.sequence
  BY <1>2, <1>3 DEF Members
<1>6. frames[1] \in Members(frames)
  BY <1>2 DEF Members
<1> QED  BY <1>1, <1>4, <1>5, <1>6, Zenon DEF Abstract!Take, Members

\* begin_generation forgets everything, or nothing.
LEMMA AdvanceStep ==
  ASSUME QueueInv, NEW g \in Generations, begin_generation(g)
  PROVE  Abstract!Advance(g) \/ UNCHANGED <<generation, last_sequence, frames>>
<1>1. g \in Nat /\ generation \in Nat
  BY PipelineAssumption DEF QueueInv, QueueTypeOK
<1> QED
  BY <1>1 DEF Abstract!Advance, begin_generation, GenerationNotIncreasing, queue, None

-----------------------------------------------------------------------------
\* Whatever the threads do, the queue takes a step of NewestFrames or none.
LEMMA StepSimulation ==
  ASSUME IInv, [Next]_vars
  PROVE  [Abstract!Next]_Abstract!vars
<1> DEFINE Hidden == UNCHANGED <<generation, last_sequence, frames>>
<1>1. QueueInv
  BY DEF IInv
<1>2. Hidden => UNCHANGED Abstract!vars
  BY DEF Abstract!vars
<1>3. ASSUME NEW id \in FrameId, Submit(id)
      PROVE  Abstract!Next \/ Hidden
  <2>1. CASE RejectGeneration(id) \/ RejectSequence(id)
    BY <2>1 DEF RejectGeneration, RejectSequence
  <2>2. CASE Enqueue(id) \/ DropOldest(id)
    <3>1. Abstract!Offer(id)
      BY <1>1, <2>2, OfferStep
    <3>2. id \in Abstract!FrameId
      BY DEF FrameId, Abstract!FrameId
    <3> QED  BY <3>1, <3>2 DEF Abstract!Next
  <2> QED  BY <1>3, <2>1, <2>2 DEF Submit, submit
<1>4. ASSUME NEW e \in Encoders, Encoder(e)
      PROVE  Abstract!Next \/ Hidden
  <2>1. CASE TryTake(e)
    BY <1>1, <2>1, TakeStep DEF TryTake, Abstract!Next
  <2>2. CASE Encode(e) \/ EnterGate(e) \/ RunClosure(e) \/ PanicInClosure(e)
    BY <2>2 DEF Encode, EnterGate, RejectAtSink, RunClosure, PanicInClosure, queue
  <2> QED  BY <1>4, <2>1, <2>2, SMTT(30) DEF Encoder
<1>5. ASSUME BeginGeneration
      PROVE  Abstract!Next \/ Hidden
  <2>1. requested \in Generations /\ begin_generation(requested)
    BY <1>5 DEF BeginGeneration, IInv, TypeOK
  <2> QED  BY <1>1, <2>1, AdvanceStep, SMTT(30) DEF Abstract!Next
<1>6. ASSUME (\E g \in Generations : Request(g)) \/ UNCHANGED vars
      PROVE  Hidden
  BY <1>6 DEF Request, vars, queue
<1> QED  BY <1>2, <1>3, <1>4, <1>5, <1>6, SMTT(30) DEF Next

\* FramePipeline implements NewestFrames for every capacity and any number of
\* encoders: submit keeps the newest frames, try_take hands out the oldest and
\* begin_generation forgets them all.
THEOREM Refinement == Spec => ImplementsNewestFrames
<1>1. Init => Abstract!Init
  BY DEF Init, new, None, Abstract!Init
<1>2. IInv /\ [Next]_vars => [Abstract!Next]_Abstract!vars
  BY StepSimulation
<1> QED  BY <1>1, <1>2, Invariance, PTL DEF Spec, ImplementsNewestFrames, Abstract!Spec
=============================================================================
