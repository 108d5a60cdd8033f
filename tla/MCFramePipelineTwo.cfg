\* Two encoder workers share the queue.
SPECIFICATION Spec
CONSTANTS
  Capacity = 2
  StatMax = 2
  Generations <- OneToTwo
  SequenceNumbers <- ZeroToTwo
  InitialGeneration = 1
  e1 = e1
  e2 = e2
  Encoders = {e1, e2}
  Free = Free
  NoFrame = NoFrame
SYMMETRY EncoderSymmetry
INVARIANTS TypeOK QueueHoldsNewest StatsAccountForFrames NothingStaleAtSink FramesAreMoved GenerationsInOrder
PROPERTIES GenerationChange ImplementsNewestFrames
