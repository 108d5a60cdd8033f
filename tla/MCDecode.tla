------------------------------- MODULE MCDecode -------------------------------
(***************************************************************************)
(* Captured packets for Decode: payloads put together from the pieces that *)
(* parse_jpeg_end treats differently, whole and cut, and headers with each *)
(* field wrong in turn.                                                    *)
(***************************************************************************)
EXTENDS Decode

CONSTANTS Pieces,   \* bound: pieces after the SOI, with short tails
          LongPieces \* bound: pieces after the SOI, with metadata and padding

Scan == <<255, 218, 0, 8, 1, 7, 0, 0, 0, 0>>

Piece ==
  {Scan, <<255, 224, 0, 4, 255, 217>>, <<255, 217>>, <<255>>, <<255, 0>>,
   <<255, 208>>, <<255, 1>>, <<7>>, <<255, 224, 0, 1>>, <<255, 224, 0>>,
   <<255, 218, 0, 2>>}

Payloads ==
  LET P[n \in Nat] ==
        IF n = 0 THEN {<<255, 216>>}
        ELSE P[n - 1] \cup {p \o q : p \in P[n - 1], q \in Piece}
  IN  P

Frame(payload, n, odd) ==
  Packet(HEADER_SIZE + n, TRUE, HEADER_SIZE + n, "frame", FRAME_TYPE, FRAME_SUBTYPE,
         payload, odd)

\* Payload lengths around the two alignments.
Lengths(n) ==
  LET content == n + JPEG_DECODER_METADATA_SIZE
      HighEnd == align_payload_length(content, HIGH_SPEED_MAX_PACKET_SIZE)
  IN  {n, content - 1, content, HighEnd - 1, HighEnd, HighEnd + 1, HighEnd + 512,
       HighEnd + 1024}

\* The one odd byte: none, the last of the metadata or one of the padding.
Odd(n, len) == {o \in {None, n + JPEG_DECODER_METADATA_SIZE - 1, len - 1} : o < len}

FramePackets ==
  {Frame(p, Len(p), None) : p \in Payloads[Pieces] \cup {<<>>, <<255>>, <<255, 217>>}}
    \cup UNION {UNION {{Frame(p, n, o) : o \in Odd(Len(p), n)} : n \in Lengths(Len(p))} :
                 p \in Payloads[LongPieces]}

OtherPackets ==
  {Packet(len, magic, word12, word16, byte20, 1, <<>>, None) :
     len \in {20, 21, 44, 47, 48, 1024}, magic \in BOOLEAN, word12 \in {44, 48, 1024},
     word16 \in {"frame", "ack", "command", "other"}, byte20 \in {4, 101}}

\* Rows inside every range, at its ends and just outside.
ModeRows ==
  {Mode(320, 200, 1, 8), Mode(16384, 16384, 1000, 32), Mode(319, 200, 60, 32),
   Mode(16385, 200, 60, 32), Mode(640, 199, 60, 30), Mode(640, 16385, 60, 30),
   Mode(640, 480, 0, 16), Mode(640, 480, 1001, 16), Mode(640, 480, 60, 12), ZeroRow}

\* Responses of up to three rows, cut in a row or followed by zeros, and one
\* with more rows than are looked at.
ModePackets ==
  LET Response(rows, n) ==
        [Packet(HEADER_SIZE + n, TRUE, 8, "other", 69, 0, <<>>, None) EXCEPT !.rows = rows]
  IN  {Response(rows, 16 * Len(rows) + extra) :
         rows \in [1 .. 3 -> ModeRows] \cup [1 .. 2 -> ModeRows], extra \in {-1, 0, 16}}
        \cup {Response([i \in 1 .. 258 |-> Mode(640, 480, 60, 32)], 16 * 258)}

MCPackets == FramePackets \cup OtherPackets \cup ModePackets
=============================================================================
