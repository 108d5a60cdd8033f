\* A queue of two for up to seven frames; frame sizes whose work is within the
\* limit for every frame count, for some and for none, or overflows; texts of
\* up to four characters are within the limit.
SPECIFICATION Spec
CONSTANTS
  Capacity = 2
  StatMax = 15
  Generations = {0, 1}
  SequenceNumbers = {0, 1, 2, 3, 4, 5, 6}
  MAX_PATTERN_FRAMES = 7
  MAX_PATTERN_WORK_BYTES = 100
  USIZE_MAX = 255
  MAX_HEX_TEXT_BYTES = 4
  InputBytes = {1, 15, 16, 17, 18}
  Arguments <- MCArguments
INVARIANTS NoImpossibleError SummaryIsExact AcceptedTextIsWhole HexIsLossless OptionsAsGiven
