------------------------------ MODULE FrameLayout ------------------------------
(***************************************************************************)
(* The geometry of BGRx frames in rust/src/frame.rs: FrameLayout::new and  *)
(* validate, and where Frame::test_pattern writes.  Pure functions of u32  *)
(* dimensions; the colours are left out.                                   *)
(***************************************************************************)
EXTENDS Integers

BGRX_BYTES_PER_PIXEL == 4
MAX_DIMENSION == 16384
MAX_FRAME_BYTES == 268435456

InvalidLayout == [width |-> 0, height |-> 0, stride |-> 0, byte_len |-> 0]

ValidDimensions(width, height) ==
  /\ width # 0 /\ height # 0
  /\ width <= MAX_DIMENSION /\ height <= MAX_DIMENSION

\* FrameLayout::new; every error is InvalidLayout.  The products are those of
\* checked_mul: LayoutNeverOverflows says that they fit 32 bits.
NewLayout(width, height) ==
  LET stride == width * BGRX_BYTES_PER_PIXEL
      byte_len == stride * height
  IN  IF ~ ValidDimensions(width, height) THEN InvalidLayout
      ELSE IF byte_len > MAX_FRAME_BYTES THEN InvalidLayout
      ELSE [width |-> width, height |-> height, stride |-> stride,
            byte_len |-> byte_len]

\* FrameLayout::validate
validate(layout) ==
  /\ NewLayout(layout.width, layout.height) # InvalidLayout
  /\ layout = NewLayout(layout.width, layout.height)

\* The FrameError that FrameLayout::new returns, "none" if it succeeds.
\* SizeOverflow is left out: see LayoutNeverOverflows.
LayoutError(width, height) ==
  IF width = 0 \/ height = 0 THEN "ZeroDimension"
  ELSE IF ~ ValidDimensions(width, height) THEN "DimensionTooLarge"
  ELSE IF NewLayout(width, height) = InvalidLayout THEN "FrameTooLarge"
  ELSE "none"

\* Frame::from_bgrx and Frame::validate, for a buffer of so many bytes.
from_bgrx(layout, bytes) ==
  IF ~ validate(layout) THEN "InconsistentLayout"
  ELSE IF bytes # layout.byte_len THEN "PixelLength"
  ELSE "none"

MinOf(a, b) == IF a <= b THEN a ELSE b

\* test_pattern's moving square: its size, and where it starts along an edge
\* of the given length (step is 37 for x and 23 for y).
square_size(width, height) == MinOf(MinOf(width, height), 64)

Start(edge, size, step, sequence) ==
  LET span == edge - size + 1
  IN  ((sequence % span) * step) % span

\* The colour bar of a column, and the offset of a pixel.
Bar(x, width) == (x * 8) \div width

Offset(layout, x, y) == y * layout.stride + x * BGRX_BYTES_PER_PIXEL
=============================================================================
