\* Payloads of up to four pieces, and up to two with metadata and padding.
SPECIFICATION FairSpec
CONSTANTS
  Packets <- MCPackets
  Pieces = 4
  LongPieces = 2
INVARIANTS TypeOK EndIsStructural AcceptsExactlyFrames BuiltRequestsParse ModesBeforeTrailer
PROPERTIES DecodeTerminates
