--------------------------- MODULE CompressorProofs ---------------------------
(***************************************************************************)
(* Proofs about FrameLayout and Compressor: the arithmetic of every layout *)
(* stays in range, the test pattern writes within the pixels, and the      *)
(* scratch buffer is always what TurboJPEG is told.                        *)
(***************************************************************************)
EXTENDS Compressor, TLAPS

\* FrameLayout::new's products fit 32 bits for every pair of dimensions it
\* lets through, so checked_mul never reports SizeOverflow, whatever usize is.
THEOREM LayoutNeverOverflows ==
  ASSUME NEW width \in Nat, NEW height \in Nat, ValidDimensions(width, height)
  PROVE  /\ width * BGRX_BYTES_PER_PIXEL <= 65536
         /\ (width * BGRX_BYTES_PER_PIXEL) * height <= 1073741824
<1> DEFINE stride == width * BGRX_BYTES_PER_PIXEL
<1>1. /\ stride \in Nat /\ stride <= 65536
      /\ height \in Nat /\ height <= 16384
  BY DEF ValidDimensions, BGRX_BYTES_PER_PIXEL, MAX_DIMENSION
<1> HIDE DEF stride
<1>2. stride * height <= 65536 * height
  BY <1>1
<1>3. 65536 * height <= 1073741824 /\ stride * height \in Nat
  BY <1>1
<1>4. stride * height <= 1073741824
  BY <1>1, <1>2, <1>3
<1>5. QED
  BY <1>1, <1>4 DEF stride

\* What a canonical layout says of itself.
Canonical(l) ==
  /\ l.width \in Nat /\ l.height \in Nat
  /\ ValidDimensions(l.width, l.height)
  /\ l.stride = l.width * 4
  /\ l.byte_len = l.stride * l.height

\* FrameLayout::new makes canonical layouts only.
LEMMA NewLayoutCanonical ==
  ASSUME NEW width \in Nat, NEW height \in Nat,
         NewLayout(width, height) # InvalidLayout
  PROVE  Canonical(NewLayout(width, height))
<1>1. ValidDimensions(width, height)
  BY DEF NewLayout
<1>2. NewLayout(width, height) =
        [width |-> width, height |-> height, stride |-> width * BGRX_BYTES_PER_PIXEL,
         byte_len |-> (width * BGRX_BYTES_PER_PIXEL) * height]
  BY <1>1 DEF NewLayout
<1>3. QED
  BY <1>1, <1>2 DEF Canonical, BGRX_BYTES_PER_PIXEL

\* Every pixel that test_pattern writes lies within the layout's byte_len, so
\* its slice index never panics.
THEOREM PatternInBounds ==
  ASSUME NEW l, Canonical(l),
         NEW x \in Nat, x < l.width, NEW y \in Nat, y < l.height
  PROVE  Offset(l, x, y) >= 0 /\ Offset(l, x, y) + BGRX_BYTES_PER_PIXEL <= l.byte_len
<1>1. l.width \in Nat /\ l.height \in Nat /\ l.stride \in Nat /\ l.stride = l.width * 4
  BY DEF Canonical
<1>2. x * 4 + 4 <= l.stride
  BY <1>1
<1>3. y * l.stride >= 0
  BY <1>1
<1>4. (y + 1) * l.stride <= l.height * l.stride
  BY <1>1
<1>5. (y + 1) * l.stride = y * l.stride + l.stride /\ l.height * l.stride = l.stride * l.height
  BY <1>1
<1>6. l.byte_len = l.stride * l.height /\ y * l.stride \in Int /\ l.stride * l.height \in Int
  BY <1>1 DEF Canonical
<1>7. QED
  BY <1>1, <1>2, <1>3, <1>4, <1>5, <1>6 DEF Offset, BGRX_BYTES_PER_PIXEL

\* test_pattern's square is inside the picture for every sequence number, and
\* its span is never zero, so no remainder divides by zero.
THEOREM SquareInside ==
  ASSUME NEW width \in Nat, NEW height \in Nat, ValidDimensions(width, height),
         NEW sequence \in Nat, NEW step \in Nat, NEW edge \in {width, height}
  PROVE  LET size == square_size(width, height)
         IN  /\ size >= 1 /\ edge - size + 1 >= 1
             /\ Start(edge, size, step, sequence) \in 0 .. edge - size
<1> DEFINE size == square_size(width, height)
           span == edge - size + 1
<1>1. size \in Nat /\ size >= 1 /\ size <= edge
  BY DEF square_size, MinOf, ValidDimensions
<1>2. span \in Nat /\ span >= 1
  BY <1>1
<1> HIDE DEF size, span
<1>3. sequence % span \in Nat
  BY <1>2
<1>4. (sequence % span) * step \in Nat
  BY <1>3
<1>5. ((sequence % span) * step) % span \in 0 .. span - 1
  BY <1>2, <1>4
<1>6. Start(edge, size, step, sequence) = ((sequence % span) * step) % span
  BY DEF Start, span
<1>7. QED
  BY <1>1, <1>2, <1>5, <1>6 DEF span, size

\* Every column of the picture falls in one of the eight colour bars, so the
\* index into BARS never panics.
THEOREM BarInRange ==
  ASSUME NEW width \in Nat, NEW x \in Nat, x < width
  PROVE  Bar(x, width) \in Int /\ Bar(x, width) >= 0 /\ Bar(x, width) < 8
<1> DEFINE bar == (x * 8) \div width
<1>1. /\ bar \in Int
      /\ width * bar <= x * 8 /\ x * 8 < width * bar + width
  OBVIOUS
<1> HIDE DEF bar
<1>2. ASSUME bar < 0 PROVE FALSE
  <2>1. width * (bar + 1) <= 0
    BY <1>1, <1>2
  <2>2. width * (bar + 1) = width * bar + width
    BY <1>1
  <2>3. QED
    BY <1>1, <2>1, <2>2
<1>3. ASSUME bar >= 8 PROVE FALSE
  <2>1. width * bar >= width * 8
    BY <1>1, <1>3
  <2>2. QED
    BY <1>1, <2>1
<1>4. QED
  BY <1>1, <1>2, <1>3 DEF Bar, bar

-----------------------------------------------------------------------------
(* The scratch buffer *)

Busy == {"size", "limit", "reserve", "resize", "compress", "check", "copy"}

\* The inductive invariant: what each step of compress_bgrx has established
\* for the steps that follow it.
IInv ==
  /\ len \in Nat /\ cap \in Nat /\ len <= cap
  /\ maximum \in Nat /\ jpeg_size \in Nat
  /\ pc \in Busy \union {"idle", "encoded"}
  /\ pc \in Busy => Canonical(layout)
  /\ pc \in {"reserve", "resize", "compress", "check", "copy"} =>
       maximum # 0 /\ maximum <= MAX_JPEG_BUFFER_BYTES
  /\ pc = "resize" => maximum <= cap
  /\ pc \in {"compress", "check", "copy"} => len = maximum
  /\ pc = "copy" => jpeg_size <= maximum

\* Compressor::new leaves an empty buffer.
LEMMA InitIInv == Init => IInv
BY DEF Init, IInv, Busy

\* No step of compress_bgrx, failed or not, breaks the invariant.
LEMMA NextIInv == IInv /\ [Next]_vars => IInv'
<1> SUFFICES ASSUME IInv, [Next]_vars PROVE IInv'
  OBVIOUS
<1> USE CompressorAssumption
<1>1. ASSUME NEW width \in Dimensions, NEW height \in Dimensions,
             CompressBgrx(width, height)
      PROVE  IInv'
  <2>1. width \in Nat /\ height \in Nat
    OBVIOUS
  <2>2. NewLayout(width, height) # InvalidLayout
    <3>1. validate(NewLayout(width, height))
      BY <1>1 DEF CompressBgrx
    <3>2. NewLayout(0, 0) = InvalidLayout
      BY DEF NewLayout, ValidDimensions
    <3>3. InvalidLayout.width = 0 /\ InvalidLayout.height = 0
      BY DEF InvalidLayout
    <3>4. QED
      BY <3>1, <3>2, <3>3 DEF validate
  <2>3. Canonical(NewLayout(width, height))
    BY <2>1, <2>2, NewLayoutCanonical
  <2>4. Canonical(layout)'
    BY <1>1, <2>3 DEF CompressBgrx, Canonical
  <2>5. QED
    BY <1>1, <2>4 DEF CompressBgrx, IInv, Busy
<1>2. CASE BufSize
  BY <1>2 DEF BufSize, IInv, Busy, Canonical
<1>3. CASE CheckLimit
  BY <1>3 DEF CheckLimit, IInv, Busy, Canonical
<1>4. CASE Reserve
  BY <1>4 DEF Reserve, additional, IInv, Busy, Canonical
<1>5. CASE Resize
  BY <1>5 DEF Resize, IInv, Busy, Canonical
<1>6. CASE TjCompress
  BY <1>6 DEF TjCompress, IInv, Busy, Canonical
<1>7. CASE CheckResult
  BY <1>7 DEF CheckResult, IInv, Busy, Canonical
<1>8. CASE Copy
  BY <1>8 DEF Copy, IInv, Busy, Canonical
<1>9. CASE UNCHANGED vars
  BY <1>9 DEF vars, IInv, Busy, Canonical
<1>10. QED
  BY <1>1, <1>2, <1>3, <1>4, <1>5, <1>6, <1>7, <1>8, <1>9 DEF Next

\* The invariant holds in every state of every run.
LEMMA Invariance == Spec => []IInv
<1>1. QED
  BY InitIInv, NextIInv, PTL DEF Spec

\* resize never has to allocate, for every sequence of frame sizes and of
\* allocation failures.
THEOREM ScratchGrowsFallibly == Spec => []ResizeInPlace
<1>1. IInv => ResizeInPlace
  BY DEF IInv, ResizeInPlace, additional, Busy
<1>2. QED
  BY <1>1, Invariance, PTL

\* TurboJPEG is always told the sizes of the buffers it is given.
THEOREM CallIsSound == Spec => []BuffersMatchCall
<1>1. IInv => BuffersMatchCall
  <2> SUFFICES ASSUME IInv PROVE BuffersMatchCall
    OBVIOUS
  <2>1. pc \in {"compress", "check", "copy"} =>
          /\ layout.width <= C_INT_MAX /\ layout.height <= C_INT_MAX
          /\ layout.stride <= C_INT_MAX
          /\ layout.byte_len = layout.stride * layout.height
    BY DEF IInv, Busy, Canonical, ValidDimensions, MAX_DIMENSION, C_INT_MAX
  <2>2. QED
    BY <2>1 DEF IInv, BuffersMatchCall, Busy
<1>2. QED
  BY <1>1, Invariance, PTL
=============================================================================
