---------------------------- MODULE FramePipeline ----------------------------
(***************************************************************************)
(* FramePipeline shared by its threads: capture threads call submit, each  *)
(* encoder worker calls try_take, compresses outside the mutex and hands   *)
(* the result to a sink through with_current_generation, and the USB       *)
(* teardown path calls begin_generation.  Every method holds the mutex for *)
(* its whole body, so it is one step, except with_current_generation: the  *)
(* closure runs between the check and the unlock, and may panic, which     *)
(* poisons the mutex.                                                      *)
(***************************************************************************)
EXTENDS PipelineState

CONSTANTS
  Encoders,          \* encoder workers
  InitialGeneration, \* the generation given to FramePipeline::new
  Free,              \* no closure runs under the mutex
  NoFrame            \* an encoder holds no frame

ASSUME ThreadAssumption ==
  /\ InitialGeneration \in Generations
  /\ Free \notin Encoders
  /\ NoFrame \notin FrameId

VARIABLES
  owner,      \* the encoder whose closure runs under the mutex
  poisoned,   \* a closure has panicked under the mutex
  pc,         \* what each encoder is doing
  hand,       \* the frame each encoder owns
  sink,       \* the sink submissions made so far, in order
  requested   \* the generation the teardown path wants to begin

vars == <<queue, owner, poisoned, pc, hand, sink, requested>>

NoRequest == -1

SinkSubmission == [id : FrameId, active : Generations]

TypeOK ==
  /\ QueueTypeOK
  /\ owner \in Encoders \cup {Free}
  /\ poisoned \in BOOLEAN
  /\ pc \in [Encoders -> {"idle", "encode", "gate", "sink", "dead"}]
  /\ hand \in [Encoders -> FrameId \cup {NoFrame}]
  /\ sink \in Seq(SinkSubmission)
  /\ requested \in Generations \cup {NoRequest}

Init ==
  /\ new(InitialGeneration)
  /\ owner = Free
  /\ poisoned = FALSE
  /\ pc = [e \in Encoders |-> "idle"]
  /\ hand = [e \in Encoders |-> NoFrame]
  /\ sink = <<>>
  /\ requested = NoRequest

\* lock_state: waits for the mutex and takes it whether or not it is poisoned.
lock_state == owner = Free

-----------------------------------------------------------------------------
Submit(id) ==
  /\ lock_state
  /\ submit(id)
  /\ UNCHANGED <<owner, poisoned, pc, hand, sink, requested>>

\* Mutant: the newest frame is taken, not the oldest.
BugTakeNewest(e) ==
  /\ pc[e] = "idle"
  /\ lock_state
  /\ frames # <<>>
  /\ stats' = [stats EXCEPT !.dequeued = SaturatingAdd(@, 1)]
  /\ hand' = [hand EXCEPT ![e] = frames[Len(frames)]]
  /\ frames' = SubSeq(frames, 1, Len(frames) - 1)
  /\ pc' = [pc EXCEPT ![e] = "encode"]
  /\ UNCHANGED <<generation, last_sequence, owner, poisoned, sink, requested>>

TryTake(e) ==
  /\ pc[e] = "idle"
  /\ lock_state
  /\ try_take
  /\ hand' = [hand EXCEPT ![e] = Head(frames)]
  /\ pc' = [pc EXCEPT ![e] = "encode"]
  /\ UNCHANGED <<owner, poisoned, sink, requested>>

\* compress_bgrx keeps the frame's id, or fails and the frame is dropped.
Encode(e) ==
  /\ pc[e] = "encode"
  /\ \/ /\ pc' = [pc EXCEPT ![e] = "gate"]
        /\ UNCHANGED hand
     \/ /\ pc' = [pc EXCEPT ![e] = "idle"]
        /\ hand' = [hand EXCEPT ![e] = NoFrame]
  /\ UNCHANGED <<queue, owner, poisoned, sink, requested>>

\* Mutant: the mutex is released before the closure runs.
BugGateUnlocks(e) ==
  /\ pc[e] = "gate"
  /\ lock_state
  /\ \/ /\ RejectAtSink(hand[e])
        /\ pc' = [pc EXCEPT ![e] = "idle"]
        /\ hand' = [hand EXCEPT ![e] = NoFrame]
     \/ /\ GenerationIsCurrent(hand[e])
        /\ pc' = [pc EXCEPT ![e] = "sink"]
        /\ UNCHANGED <<queue, hand>>
  /\ UNCHANGED <<owner, poisoned, sink, requested>>

\* with_current_generation up to the call of the closure.
EnterGate(e) ==
  /\ pc[e] = "gate"
  /\ lock_state
  /\ \/ /\ RejectAtSink(hand[e])
        /\ pc' = [pc EXCEPT ![e] = "idle"]
        /\ hand' = [hand EXCEPT ![e] = NoFrame]
        /\ UNCHANGED owner
     \/ /\ GenerationIsCurrent(hand[e])
        /\ owner' = e
        /\ pc' = [pc EXCEPT ![e] = "sink"]
        /\ UNCHANGED <<queue, hand>>
  /\ UNCHANGED <<poisoned, sink, requested>>

Delivery(e) == [id |-> hand[e], active |-> generation]

\* The closure submits the frame and returns, and the mutex is released.
RunClosure(e) ==
  /\ pc[e] = "sink"
  /\ sink' = Append(sink, Delivery(e))
  /\ owner' = Free
  /\ pc' = [pc EXCEPT ![e] = "idle"]
  /\ hand' = [hand EXCEPT ![e] = NoFrame]
  /\ UNCHANGED <<queue, poisoned, requested>>

\* The closure panics, before or after it submits the frame: the guard is
\* dropped while unwinding, which poisons the mutex, and the worker ends.
PanicInClosure(e) ==
  /\ pc[e] = "sink"
  /\ sink' \in {sink, Append(sink, Delivery(e))}
  /\ owner' = Free
  /\ poisoned' = TRUE
  /\ pc' = [pc EXCEPT ![e] = "dead"]
  /\ hand' = [hand EXCEPT ![e] = NoFrame]
  /\ UNCHANGED <<queue, requested>>

\* The teardown path decides on a generation, then waits for the mutex.
Request(g) ==
  /\ requested = NoRequest
  /\ requested' = g
  /\ UNCHANGED <<queue, owner, poisoned, pc, hand, sink>>

\* Mutant: begin_generation does not take the mutex.
BugBeginUnlocked ==
  /\ requested # NoRequest
  /\ begin_generation(requested)
  /\ requested' = NoRequest
  /\ UNCHANGED <<owner, poisoned, pc, hand, sink>>

\* Mutant: begin_generation gives up on a poisoned mutex.
BugBeginUnwrap ==
  /\ requested # NoRequest
  /\ lock_state
  /\ ~ poisoned
  /\ begin_generation(requested)
  /\ requested' = NoRequest
  /\ UNCHANGED <<owner, poisoned, pc, hand, sink>>

BeginGeneration ==
  /\ requested # NoRequest
  /\ lock_state
  /\ begin_generation(requested)
  /\ requested' = NoRequest
  /\ UNCHANGED <<owner, poisoned, pc, hand, sink>>

Encoder(e) ==
  TryTake(e) \/ Encode(e) \/ EnterGate(e) \/ RunClosure(e) \/ PanicInClosure(e)

Next ==
  \/ \E id \in FrameId : Submit(id)
  \/ \E e \in Encoders : Encoder(e)
  \/ \E g \in Generations : Request(g)
  \/ BeginGeneration

Spec == Init /\ [][Next]_vars

\* Once a closure runs it ends (it is short and non-blocking), and a thread
\* waiting for a mutex that becomes free again and again gets it.
Fairness ==
  /\ SF_vars(BeginGeneration)
  /\ \A e \in Encoders : WF_vars(RunClosure(e) \/ PanicInClosure(e))

FairSpec == Spec /\ Fairness

-----------------------------------------------------------------------------
(* Properties *)

\* with_current_generation: a submission reaches the sink only while the
\* frame's generation is the active one, although begin_generation may be
\* waiting when the closure starts.
NothingStaleAtSink ==
  \A i \in DOMAIN sink : sink[i].id.generation = sink[i].active

\* A frame is moved, never copied: no id is delivered twice, delivered and
\* still held, held by two encoders, or held and still queued.
FramesAreMoved ==
  /\ \A i, j \in DOMAIN sink : i # j => sink[i].id # sink[j].id
  /\ \A e \in Encoders : hand[e] # NoFrame =>
       /\ \A i \in DOMAIN sink : sink[i].id # hand[e]
       /\ \A f \in Encoders : f # e => hand[f] # hand[e]
       /\ \A i \in DOMAIN frames : frames[i] # hand[e]
  /\ \A i \in DOMAIN sink, j \in DOMAIN frames :
       sink[i].id # frames[j]

Older(a, b) ==
  \/ a.generation < b.generation
  \/ a.generation = b.generation /\ a.sequence < b.sequence

\* Once a frame of some generation was delivered, no frame of an earlier
\* generation ever is, however many encoders run.
GenerationsInOrder ==
  \A i, j \in DOMAIN sink :
    i < j => sink[i].id.generation <= sink[j].id.generation

\* With the one encoder worker of this design the sink sees frames in
\* capture order: a display never shows an older picture after a newer one.
SinkInCaptureOrder ==
  \A i, j \in DOMAIN sink : i < j => Older(sink[i].id, sink[j].id)

\* The active generation only advances, never while a sink closure runs, and
\* no frame survives the change (begin_generation).
GenerationChange ==
  [][generation # generation' =>
       /\ generation < generation'
       /\ owner = Free
       /\ frames' = <<>>]_vars

\* The queue, seen from outside, is the bounded keep-the-newest channel of
\* NewestFrames; everything the encoders and the sink do is invisible there.
Abstract ==
  INSTANCE NewestFrames WITH
    newest <- last_sequence,
    pending <- {frames[i] : i \in DOMAIN frames}

\* FramePipeline implements NewestFrames: which frames submit keeps, which
\* one try_take hands out and what begin_generation forgets.
ImplementsNewestFrames == Abstract!Spec

\* lock_state's promise: a panic in a closure does not strand the teardown
\* path; a requested generation is eventually begun (or already passed).
TeardownNotStranded ==
  \A g \in Generations : (requested = g) ~> (generation >= g)
=============================================================================
