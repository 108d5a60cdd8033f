\* The design's single encoder worker, and a queue of two, so that its order matters.
SPECIFICATION FairSpec
CONSTANTS
  Capacity = 2
  StatMax = 3
  Generations <- OneToTwo
  SequenceNumbers <- ZeroToTwo
  InitialGeneration = 1
  e1 = e1
  Encoders = {e1}
  Free = Free
  NoFrame = NoFrame
INVARIANT SinkInCaptureOrder
PROPERTIES TeardownNotStranded
