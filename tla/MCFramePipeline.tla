--------------------------- MODULE MCFramePipeline ---------------------------
(* Small instances of FramePipeline.                                       *)
EXTENDS FramePipeline, TLC

OneToTwo == 1 .. 2
ZeroToTwo == 0 .. 2
EncoderSymmetry == Permutations(Encoders)
=============================================================================
