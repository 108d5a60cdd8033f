------------------------------ MODULE Compressor ------------------------------
(***************************************************************************)
(* Compressor of rust/src/jpeg.rs: one TurboJPEG handle and one scratch    *)
(* buffer that is kept from frame to frame.  compress_bgrx is followed     *)
(* call by call; its error paths leave the buffer as it is at that point.  *)
(* TurboJPEG and the allocator are external.  Buffer sizes are in units of *)
(* the bound MAX_JPEG_BUFFER_BYTES.                                        *)
(***************************************************************************)
EXTENDS FrameLayout

CONSTANTS
  Dimensions,            \* the widths and heights that are asked for
  BufferSizes,           \* external: what tjBufSize returns
  MAX_JPEG_BUFFER_BYTES,
  ULONG_MAX              \* c_ulong::MAX, tjBufSize's error

ASSUME CompressorAssumption ==
  /\ Dimensions \subseteq Nat
  /\ BufferSizes \subseteq Nat
  /\ MAX_JPEG_BUFFER_BYTES \in Nat
  /\ ULONG_MAX \in Nat /\ ULONG_MAX > MAX_JPEG_BUFFER_BYTES

C_INT_MAX == 2147483647

VARIABLES
  layout,      \* the frame's layout; its pixel buffer has layout.byte_len bytes
  len, cap,    \* self.scratch.len() and capacity()
  maximum,     \* the destination size this frame needs
  jpeg_size,   \* what tjCompress2 reported
  pc

vars == <<layout, len, cap, maximum, jpeg_size, pc>>

TypeOK ==
  /\ layout = InvalidLayout \/ validate(layout)
  /\ len \in Nat /\ cap \in Nat /\ len <= cap
  /\ maximum \in 0 .. ULONG_MAX
  /\ jpeg_size \in 0 .. MAX_JPEG_BUFFER_BYTES + 1
  /\ pc \in {"idle", "size", "limit", "reserve", "resize", "compress", "check",
             "copy", "encoded"}

\* Compressor::new
Init ==
  /\ layout = InvalidLayout
  /\ len = 0 /\ cap = 0
  /\ maximum = 0 /\ jpeg_size = 0
  /\ pc = "idle"

\* A frame is built (a layout that new refuses makes none) and handed over.
\* compress_bgrx checks it again; a quality out of range returns with nothing
\* changed.
CompressBgrx(width, height) ==
  /\ pc \in {"idle", "encoded"}
  /\ validate(NewLayout(width, height))
  /\ layout' = NewLayout(width, height)
  /\ pc' = "size"
  /\ UNCHANGED <<len, cap, maximum, jpeg_size>>

\* tjBufSize, or its error.
BufSize ==
  /\ pc = "size"
  /\ maximum' \in BufferSizes
  /\ pc' = IF maximum' = ULONG_MAX THEN "idle" ELSE "limit"
  /\ UNCHANGED <<layout, len, cap, jpeg_size>>

CheckLimit ==
  /\ pc = "limit"
  /\ pc' = IF maximum = 0 \/ maximum > MAX_JPEG_BUFFER_BYTES THEN "idle" ELSE "reserve"
  /\ UNCHANGED <<layout, len, cap, maximum, jpeg_size>>

\* Mutant: the missing bytes are counted from the capacity.
BugFromCapacity == maximum - cap

additional == maximum - len

\* try_reserve_exact, when the capacity is too small: it fails, or the
\* capacity is at least len + additional (the allocator may round up).
Reserve ==
  /\ pc = "reserve"
  /\ \/ cap >= maximum /\ pc' = "resize" /\ UNCHANGED cap
     \/ cap < maximum /\ pc' = "idle" /\ UNCHANGED cap
     \/ /\ cap < maximum
        /\ cap' \in len + additional .. len + additional + 1
        /\ pc' = "resize"
  /\ UNCHANGED <<layout, len, maximum, jpeg_size>>

\* scratch.resize(maximum, 0): in place if the capacity allows it, otherwise
\* it reallocates, and aborts if that fails.
Resize ==
  /\ pc = "resize"
  /\ len' = maximum
  /\ cap' = IF maximum <= cap THEN cap ELSE maximum
  /\ pc' = "compress"
  /\ UNCHANGED <<layout, maximum, jpeg_size>>

\* External: tjCompress2 fails, or reports the size of what it wrote; nothing
\* forces it to stay within the destination.
TjCompress ==
  /\ pc = "compress"
  /\ \/ pc' = "idle" /\ UNCHANGED jpeg_size
     \/ jpeg_size' \in 0 .. maximum + 1 /\ pc' = "check"
  /\ UNCHANGED <<layout, len, cap, maximum>>

\* Mutant: the reported size is trusted.
BugTrustSize ==
  /\ pc = "check"
  /\ \/ pc' = "idle"
     \/ jpeg_size >= 4 /\ pc' = "copy"
  /\ UNCHANGED <<layout, len, cap, maximum, jpeg_size>>

\* The pointer, the size and the SOI and EOI of the result are checked.
CheckResult ==
  /\ pc = "check"
  /\ \/ pc' = "idle"
     \/ jpeg_size <= maximum /\ jpeg_size >= 4 /\ pc' = "copy"
  /\ UNCHANGED <<layout, len, cap, maximum, jpeg_size>>

\* The compact result is allocated and copied from scratch[..jpeg_size].
Copy ==
  /\ pc = "copy"
  /\ pc' \in {"idle", "encoded"}
  /\ UNCHANGED <<layout, len, cap, maximum, jpeg_size>>

Next ==
  \/ \E width, height \in Dimensions : CompressBgrx(width, height)
  \/ BufSize \/ CheckLimit \/ Reserve \/ Resize \/ TjCompress \/ CheckResult \/ Copy

Spec == Init /\ [][Next]_vars

-----------------------------------------------------------------------------
(* Properties *)

\* Whatever sizes the frames before needed and whatever failed, resize finds
\* the capacity there: the buffer is only ever allocated by try_reserve_exact,
\* which reports failure, and `additional' does not underflow.
ResizeInPlace ==
  /\ pc = "resize" => maximum <= cap
  /\ pc = "reserve" /\ cap < maximum => additional > 0

\* What TurboJPEG is given: dimensions and pitch that fit its int, a source of
\* exactly pitch * height bytes, a destination of `maximum' bytes within the
\* limit; and only bytes of the destination are copied out.
BuffersMatchCall ==
  /\ pc \in {"compress", "check", "copy"} =>
       /\ layout.width <= C_INT_MAX /\ layout.height <= C_INT_MAX
       /\ layout.stride <= C_INT_MAX
       /\ layout.byte_len = layout.stride * layout.height
       /\ len = maximum /\ maximum # 0 /\ maximum <= MAX_JPEG_BUFFER_BYTES
  /\ pc = "copy" => jpeg_size <= len
=============================================================================
