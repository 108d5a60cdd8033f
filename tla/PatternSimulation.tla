-------------------------- MODULE PatternSimulation --------------------------
(***************************************************************************)
(* simulate_pattern of rust/src/main.rs: the offline driver of the frame   *)
(* pipeline.  It checks the workload, begins generation 1, submits every   *)
(* frame before it takes the first one, then takes, optionally encodes,    *)
(* and passes each through the generation gate.  One thread: every call of *)
(* the pipeline is one step of PipelineState.  CommandLine starts it.      *)
(***************************************************************************)
EXTENDS PipelineState, FrameLayout

CONSTANTS
  MAX_PATTERN_FRAMES,
  MAX_PATTERN_WORK_BYTES,
  USIZE_MAX               \* usize::MAX

ASSUME SimulationAssumption ==
  /\ {0, 1} \subseteq Generations
  /\ 0 .. MAX_PATTERN_FRAMES - 1 \subseteq SequenceNumbers
  /\ MAX_PATTERN_FRAMES \in Nat \ {0}
  /\ MAX_PATTERN_FRAMES <= StatMax
  /\ MAX_PATTERN_WORK_BYTES \in Nat
  /\ USIZE_MAX \in Nat

VARIABLES
  options,    \* PatternOptions, and encode
  layout,
  pc,
  sequence,   \* the submit loop's variable
  hand,       \* the frame in the take loop
  output,     \* the frames reported by the take loop
  outcome

locals == <<options, layout, sequence, hand, output>>

NoFrame == [generation |-> 0, sequence |-> None]

SimulationInit ==
  /\ new(0)
  /\ layout = InvalidLayout
  /\ sequence = 0
  /\ hand = NoFrame
  /\ output = <<>>

Return(what) ==
  /\ pc' = "exit"
  /\ outcome' = what

resident_frames == MinOf(options.queue_capacity, options.frames)

\* checked_mul, then the limit.
Checked(product, overflow, limit, next) ==
  IF product > USIZE_MAX THEN Return(overflow)
  ELSE IF product > MAX_PATTERN_WORK_BYTES THEN Return(limit)
  ELSE pc' = next /\ UNCHANGED outcome

CheckLayout ==
  /\ pc = "layout"
  /\ layout' = NewLayout(options.width, options.height)
  /\ IF LayoutError(options.width, options.height) # "none"
       THEN Return(LayoutError(options.width, options.height))
       ELSE pc' = "work" /\ UNCHANGED outcome
  /\ UNCHANGED <<queue, options, sequence, hand, output>>

CheckWork ==
  /\ pc = "work"
  /\ Checked(layout.byte_len * options.frames, "work overflow", "work limit", "resident")
  /\ UNCHANGED <<queue, options, layout, sequence, hand, output>>

CheckResident ==
  /\ pc = "resident"
  /\ Checked(layout.byte_len * resident_frames, "resident overflow", "resident limit", "begin")
  /\ UNCHANGED <<queue, options, layout, sequence, hand, output>>

\* Mutant: generation 0, which is the pipeline's already.
BugBeginZero ==
  /\ pc = "begin"
  /\ begin_generation(0)
  /\ pc' = "submit"
  /\ UNCHANGED <<options, layout, sequence, hand, output, outcome>>

BeginGeneration ==
  /\ pc = "begin"
  /\ begin_generation(1)
  /\ IF GenerationNotIncreasing(1) THEN Return("generation")
     ELSE pc' = "submit" /\ UNCHANGED outcome
  /\ UNCHANGED <<options, layout, sequence, hand, output>>

Current == [generation |-> 1, sequence |-> sequence]

\* Mutant: 0..=options.frames.
BugInclusiveLoop ==
  /\ pc = "submit" /\ sequence <= options.frames
  /\ \/ Return("allocation") /\ UNCHANGED <<queue, sequence>>
     \/ /\ submit(Current)
        /\ IF Acceptable(Current)
             THEN sequence' = sequence + 1 /\ UNCHANGED <<pc, outcome>>
             ELSE Return("rejected") /\ UNCHANGED sequence
  /\ UNCHANGED <<options, layout, hand, output>>

\* One turn of the submit loop.  The test pattern's buffer may not be
\* allocated (allocate_zeroed), and is checked against the layout; an outcome
\* other than Queued and DroppedOldest ends the program.
SubmitFrame ==
  /\ pc = "submit" /\ sequence < options.frames
  /\ \/ Return("allocation") /\ UNCHANGED <<queue, sequence>>
     \/ LET refused == from_bgrx(layout, layout.byte_len)
        IN  IF refused # "none" THEN Return(refused) /\ UNCHANGED <<queue, sequence>>
            ELSE /\ submit(Current)
                 /\ IF Acceptable(Current)
                      THEN sequence' = sequence + 1 /\ UNCHANGED <<pc, outcome>>
                      ELSE Return("rejected") /\ UNCHANGED sequence
  /\ UNCHANGED <<options, layout, hand, output>>

\* The loop ends, and Compressor::new may fail.
Submitted ==
  /\ pc = "submit" /\ sequence >= options.frames
  /\ \/ options.encode /\ Return("encoder")
     \/ pc' = "take" /\ UNCHANGED outcome
  /\ UNCHANGED <<queue, options, layout, sequence, hand, output>>

\* One turn of the take loop; without an encoder the frame is reported here.
TakeFrame ==
  /\ pc = "take" /\ try_take
  /\ hand' = Head(frames)
  /\ \/ /\ options.encode /\ pc' = "encode" /\ UNCHANGED output
     \/ /\ ~ options.encode /\ output' = Append(output, Head(frames).sequence)
        /\ UNCHANGED pc
  /\ UNCHANGED <<options, layout, sequence, outcome>>

\* compress_bgrx: it refuses a quality, or fails, or the frame is encoded.
EncodeFrame ==
  /\ pc = "encode"
  /\ IF options.quality \notin 1 .. 100 THEN Return("quality")
     ELSE Return("encode") \/ (pc' = "gate" /\ UNCHANGED outcome)
  /\ UNCHANGED <<queue, options, layout, sequence, hand, output>>

\* with_current_generation around an empty closure.
PassGate ==
  /\ pc = "gate"
  /\ IF GenerationIsCurrent(hand)
       THEN /\ pc' = "take" /\ output' = Append(output, hand.sequence)
            /\ UNCHANGED <<queue, outcome>>
       ELSE RejectAtSink(hand) /\ Return("stale") /\ UNCHANGED output
  /\ UNCHANGED <<options, layout, sequence, hand>>

\* try_take returns None; the summary is printed from a snapshot.
Summarise ==
  /\ pc = "take" /\ frames = <<>>
  /\ Return("simulated")
  /\ UNCHANGED <<queue, options, layout, sequence, hand, output>>

simulate_pattern ==
  \/ CheckLayout \/ CheckWork \/ CheckResident \/ BeginGeneration \/ SubmitFrame
  \/ Submitted \/ TakeFrame \/ EncodeFrame \/ PassGate \/ Summarise

-----------------------------------------------------------------------------
(* Properties *)

\* Errors of simulate_pattern that cannot happen, because what was checked
\* earlier, by parse_pattern_args too, excludes them: the resident bytes
\* neither overflow nor exceed a limit the whole work stays within, the buffer
\* fits the layout, the pipeline never rejects a generated frame, before or
\* after encoding, and the compressor never refuses the quality.
NoImpossibleError ==
  outcome \notin {"resident overflow", "resident limit", "generation", "rejected",
                  "stale", "InconsistentLayout", "PixelLength", "quality"}

\* A run that succeeds reports the newest frames, as many as the queue holds,
\* in order, and a summary whose counters say so.
SummaryIsExact ==
  outcome = "simulated" =>
    LET kept == resident_frames
        dropped == options.frames - kept
    IN  /\ output = [i \in 1 .. kept |-> dropped + i - 1]
        /\ snapshot.queued = 0
        /\ snapshot.stats.accepted = options.frames
        /\ snapshot.stats.dequeued = kept
        /\ snapshot.stats.dropped_capacity = dropped
=============================================================================
