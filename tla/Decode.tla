-------------------------------- MODULE Decode --------------------------------
(***************************************************************************)
(* The offline packet decoder: decode of rust/src/main.rs with the parsers *)
(* and request builders of rust/src/protocol.rs it relies on.  A packet is *)
(* the header fields the code looks at, its length, and its payload (the   *)
(* bytes from offset 48, see JpegScan); read as a list of modes, the       *)
(* payload is given row by row instead, and zero rows follow.              *)
(***************************************************************************)
EXTENDS JpegScan

CONSTANT Packets    \* the captured packets that occur

HEADER_SIZE == 48
HEARTBEAT_SIZE == 44
HEARTBEAT_TAG_OFFSET == 35
HEARTBEAT_TAG_CAPACITY == HEARTBEAT_SIZE - HEARTBEAT_TAG_OFFSET - 1
JPEG_DECODER_METADATA_SIZE == 20480
HIGH_SPEED_MAX_PACKET_SIZE == 512
SUPER_SPEED_MAX_PACKET_SIZE == 1024
FRAME_ACK_SIZE == 1024
FRAME_TYPE == 4
FRAME_SUBTYPE == 1
CAPABILITIES_OPCODE == 101
BULK_HEARTBEAT_OPCODE == 236

VARIABLES
  packet,
  row,        \* the row parse_observed_modes looks at, from 0
  modes,      \* the modes it has collected
  pc,         \* where decode is
  outcome     \* what it reports

vars == <<packet, bytes, stray, length, scanVars, row, modes, pc, outcome>>

\* word16: the frame signature, the frame ACK signature, the command class or
\* something else.
Packet(len, magic, word12, word16, byte20, byte21, payload, odd) ==
  [len |-> len, magic |-> magic, word12 |-> word12, word16 |-> word16,
   byte20 |-> byte20, byte21 |-> byte21, payload |-> payload,
   stray |-> odd, rows |-> <<>>]

\* The payload of a captured packet lies behind its header.
ASSUME PacketAssumption ==
  \A p \in Packets :
    /\ p.len \in Nat
    /\ p.payload \in Seq(0 .. 255)
    /\ p.payload = <<>> \/ HEADER_SIZE + Len(p.payload) <= p.len

-----------------------------------------------------------------------------
(* Building requests *)

\* Mutant: the declared length is the one of the header.
BugDeclareHeader(n, opcode) ==
  Packet(n, TRUE, HEADER_SIZE, "command", opcode, 0, <<>>, None)

build_zeroed_request(n, opcode) == Packet(n, TRUE, n, "command", opcode, 0, <<>>, None)

\* to_string().len()
Digits(n) == Min({d \in 1 .. 10 : n \div 10^(d - 1) < 10})

\* The heartbeat's tag occupies the bytes up to TagEnd, if it fits.
TagEnd(client_tag) == HEARTBEAT_TAG_OFFSET + Digits(client_tag)

TagFits(client_tag) == Digits(client_tag) <= HEARTBEAT_TAG_CAPACITY

build_bulk_heartbeat_request == build_zeroed_request(HEARTBEAT_SIZE, BULK_HEARTBEAT_OPCODE)

build_capabilities_request == build_zeroed_request(HEADER_SIZE, CAPABILITIES_OPCODE)

Built == {build_bulk_heartbeat_request, build_capabilities_request}

-----------------------------------------------------------------------------
Init ==
  /\ packet \in Packets \cup Built
  /\ bytes = packet.payload /\ stray = packet.stray
  /\ length = Max({0, packet.len - HEADER_SIZE})
  /\ cursor = 0 /\ in_scan = FALSE /\ saw_scan = FALSE /\ marker = 0
  /\ at = "idle" /\ jpeg = 0 /\ error = "none"
  /\ row = 0 /\ modes = <<>>
  /\ pc = "header"
  /\ outcome = "none"

Report(what) ==
  /\ pc' = "done"
  /\ outcome' = what

\* parse_header; then decode tells the packets apart.
ParseHeader ==
  /\ pc = "header"
  /\ \/ packet.len < 21 /\ Report("TooShort")
     \/ packet.len >= 21 /\ ~ packet.magic /\ Report("BadMagic")
     \/ /\ packet.len >= 21 /\ packet.magic
        /\ pc' = IF packet.word16 = "frame" THEN "frame"
                 ELSE IF packet.len = FRAME_ACK_SIZE /\ packet.word16 = "ack"
                   THEN "ack" ELSE "request"
        /\ UNCHANGED outcome
  /\ UNCHANGED <<packet, bytes, stray, length, scanVars, row, modes>>

\* parse_frame_ack, whose other checks have been made.
ParseAck ==
  /\ pc = "ack"
  /\ Report(IF packet.word12 = FRAME_ACK_SIZE THEN "ack" ELSE "InvalidDeclaredLength")
  /\ UNCHANGED <<packet, bytes, stray, length, scanVars, row, modes>>

\* parse_canonical_command_request, whose failure is not an error; a short
\* packet ends there, any other is parsed for modes.
ParseRequest ==
  /\ pc = "request"
  /\ LET canonical == packet.word12 = packet.len /\ packet.word16 = "command"
     IN  \/ canonical /\ Report("request")
         \/ ~ canonical /\ packet.len < HEADER_SIZE /\ Report("metadata")
         \/ ~ canonical /\ packet.len >= HEADER_SIZE /\ pc' = "modes" /\ UNCHANGED outcome
  /\ UNCHANGED <<packet, bytes, stray, length, scanVars, row, modes>>

-----------------------------------------------------------------------------
(* parse_observed_modes *)

Mode(width, height, refresh_hz, bits_per_pixel) ==
  [width |-> width, height |-> height, refresh_hz |-> refresh_hz,
   bits_per_pixel |-> bits_per_pixel]

ZeroRow == Mode(0, 0, 0, 0)

\* The four words of the i-th row, from 0.
Row(i) == IF i < Len(packet.rows) THEN packet.rows[i + 1] ELSE ZeroRow

\* packet[HEADER_SIZE..].chunks_exact(16).take(256)
IsRow(i) == i < 256 /\ 16 * (i + 1) <= length

plausible(mode) ==
  /\ mode.width >= 320 /\ mode.width <= 16384
  /\ mode.height >= 200 /\ mode.height <= 16384
  /\ mode.refresh_hz >= 1 /\ mode.refresh_hz <= 1000
  /\ mode.bits_per_pixel \in {8, 16, 24, 30, 32}

\* Mutant: an implausible row is skipped and the next one is looked at.
BugSkipRow ==
  /\ pc = "modes"
  /\ \/ /\ IsRow(row) /\ Row(row) # ZeroRow
        /\ modes' = IF plausible(Row(row)) THEN Append(modes, Row(row)) ELSE modes
        /\ row' = row + 1
        /\ UNCHANGED <<pc, outcome>>
     \/ /\ ~ IsRow(row) \/ Row(row) = ZeroRow
        /\ Report("modes")
        /\ UNCHANGED <<row, modes>>
  /\ UNCHANGED <<packet, bytes, stray, length, scanVars>>

\* One pass of the loop over the rows.
ParseRow ==
  /\ pc = "modes"
  /\ \/ /\ IsRow(row) /\ Row(row) # ZeroRow /\ plausible(Row(row))
        /\ modes' = Append(modes, Row(row))
        /\ row' = row + 1
        /\ UNCHANGED <<pc, outcome>>
     \/ /\ ~ IsRow(row) \/ Row(row) = ZeroRow \/ ~ plausible(Row(row))
        /\ Report("modes")
        /\ UNCHANGED <<row, modes>>
  /\ UNCHANGED <<packet, bytes, stray, length, scanVars>>

-----------------------------------------------------------------------------
(* parse_frame_envelope *)

\* The checks before parse_jpeg_end.
EnvelopeHeader ==
  /\ pc = "frame"
  /\ \/ packet.len < HEADER_SIZE /\ Report("TooShort") /\ UNCHANGED at
     \/ /\ packet.len >= HEADER_SIZE /\ packet.word12 # packet.len
        /\ Report("DeclaredLengthMismatch")
        /\ UNCHANGED at
     \/ /\ packet.len >= HEADER_SIZE /\ packet.word12 = packet.len
        /\ packet.byte20 # FRAME_TYPE \/ packet.byte21 # FRAME_SUBTYPE
        /\ Report("InvalidFrameType")
        /\ UNCHANGED at
     \/ /\ packet.len >= HEADER_SIZE /\ packet.word12 = packet.len
        /\ packet.byte20 = FRAME_TYPE /\ packet.byte21 = FRAME_SUBTYPE
        /\ pc' = "jpeg" /\ at' = "start"
        /\ UNCHANGED outcome
  /\ UNCHANGED <<packet, bytes, stray, length, cursor, in_scan, saw_scan, marker, jpeg, error,
                 row, modes>>

ParseJpeg ==
  /\ pc = "jpeg"
  /\ parse_jpeg_end
  /\ UNCHANGED <<packet, row, modes, pc, outcome>>

\* Mutant: a payload of whole High Speed packets is taken for High Speed.
BugPreferHighSpeed ==
  IF length % HIGH_SPEED_MAX_PACKET_SIZE = 0
    THEN HIGH_SPEED_MAX_PACKET_SIZE ELSE SUPER_SPEED_MAX_PACKET_SIZE

\* decode's guess of the bulk endpoint's packet size.
max_packet_size ==
  IF length % SUPER_SPEED_MAX_PACKET_SIZE = 0
    THEN SUPER_SPEED_MAX_PACKET_SIZE ELSE HIGH_SPEED_MAX_PACKET_SIZE

align_payload_length(content_length, size) ==
  LET remainder == content_length % size
  IN  IF remainder = 0 THEN content_length
      ELSE content_length + (size - remainder)

\* The layout behind the JPEG: what parse_frame_envelope finds wrong with it.
EnvelopeLayout(jpeg_length, size) ==
  LET decoder_end == jpeg_length + JPEG_DECODER_METADATA_SIZE
      padding == length - decoder_end
  IN  IF decoder_end > length THEN "TruncatedDecoderMetadata"
      ELSE IF padding >= size THEN "PaddingTooLong"
      ELSE IF \E i \in decoder_end .. length - 1 : At(i) # 0 THEN "NonZeroPadding"
      ELSE IF length # align_payload_length(decoder_end, size) THEN "UnalignedPayload"
      ELSE "frame"

EnvelopeTail ==
  /\ pc = "jpeg"
  /\ \/ at = "err" /\ Report(error)
     \/ at = "ok" /\ Report(EnvelopeLayout(jpeg, max_packet_size))
  /\ UNCHANGED <<packet, bytes, stray, length, scanVars, row, modes>>

Done == pc = "done" /\ UNCHANGED vars

decode ==
  \/ ParseHeader \/ ParseAck \/ ParseRequest \/ ParseRow
  \/ EnvelopeHeader \/ ParseJpeg \/ EnvelopeTail

Next == decode \/ Done

Spec == Init /\ [][Next]_vars

\* decode is one thread and keeps running.
FairSpec == Spec /\ WF_vars(decode)

-----------------------------------------------------------------------------
(* Reference: the language of frames.  Pieces [i, j) of the payload.       *)

Fill(i, j) == i < j /\ \A k \in i .. j - 1 : At(k) = 255

Marker(i, j, m) == Fill(i, j - 1) /\ At(j - 1) = m /\ m # 255

\* A marker segment: a marker and as many bytes as its length field says.
IsSegment(i, j, m) ==
  \E k \in i + 2 .. j - 2 :
    /\ Marker(i, k, m)
    /\ 256 * At(k) + At(k + 1) = j - k
    /\ m = SOS => j - k = 6 + 2 * At(k + 2) /\ At(k + 2) # 0

\* Entropy-coded data: every 0xff leads to a stuffed zero or restart marker.
Entropy(i, j) ==
  \A k \in i .. j - 1 :
    At(k) = 255 => \E l \in k + 1 .. j - 1 :
                     Fill(k, l) /\ (At(l) = 0 \/ At(l) \in Restart)

SegmentMarkers == 0 .. 254 \ ({0, 1, SOI, EOI} \cup Restart)

IsScan(i, j) == \E k \in i .. j : IsSegment(i, k, SOS) /\ Entropy(k, j)

IsTables(i, j) == \E m \in {At(k) : k \in i .. j - 1} :
  m \in SegmentMarkers \ {SOS} /\ IsSegment(i, j, m)

\* Reached[j] holds when segments and scans fill the payload from the SOI to
\* j; with "scan" among them or without.
Reached ==
  LET R[j \in 2 .. Len(bytes)] ==
        IF j = 2 THEN {"tables"}
        ELSE UNION {IF IsScan(i, j) /\ R[i] # {} THEN {"scan"}
                    ELSE IF IsTables(i, j) THEN R[i] ELSE {} : i \in 2 .. j - 1}
  IN  R

\* The first n bytes are a JPEG: SOI, tables and at least one scan, EOI.
IsJpeg(n) ==
  /\ n \in 4 .. Len(bytes) /\ At(0) = 255 /\ At(1) = SOI
  /\ \E i \in 2 .. n - 2 : Marker(i, n, EOI) /\ "scan" \in Reached[i]

\* The payload is a JPEG, the decoder's metadata and the zero padding that
\* completes the last bulk packet of the given size.
IsFrame(size) ==
  \E n \in 4 .. Len(bytes) :
    LET padding == length - n - JPEG_DECODER_METADATA_SIZE
    IN  /\ padding \in 0 .. size - 1
        /\ length % size = 0
        /\ \A i \in n + JPEG_DECODER_METADATA_SIZE .. length - 1 : At(i) = 0
        /\ IsJpeg(n)

-----------------------------------------------------------------------------
(* Properties *)

TypeOK ==
  /\ ScanTypeOK
  /\ pc \in {"header", "frame", "ack", "request", "modes", "jpeg", "done"}
  /\ row \in 0 .. 256 /\ Len(modes) <= row

\* parse_jpeg_end finds the end of the JPEG exactly when there is one, and it
\* is the structural end: neither an EOI inside a segment nor the metadata
\* behind the JPEG moves it.
EndIsStructural ==
  /\ at = "ok" => IsJpeg(jpeg)
  /\ at = "err" => \A n \in 4 .. Len(bytes) : ~ IsJpeg(n)

\* decode accepts a packet with the frame signature exactly when it is a
\* frame of one of the two bus speeds, although it has to guess the speed
\* from the length.
AcceptsExactlyFrames ==
  pc = "done" /\ at \in {"ok", "err"} =>
    (outcome = "frame" <=>
       IsFrame(HIGH_SPEED_MAX_PACKET_SIZE) \/ IsFrame(SUPER_SPEED_MAX_PACKET_SIZE))

\* Every request the builders emit is decoded as the request it is, and a
\* heartbeat's tag of any u32 that is let in keeps its terminating zero.
BuiltRequestsParse ==
  pc = "done" /\ packet \in Built =>
    /\ outcome = "request"
    /\ \A d \in 0 .. 9 : \A tag \in {10^d - 1, 10^d} :
         TagFits(tag) <=> TagEnd(tag) < HEARTBEAT_SIZE

\* "an opaque response trailer cannot be mistaken for ... mode data": what
\* parse_observed_modes returns are the packet's first rows, all of them whole
\* and plausible, and it returns the longest such list of at most 256.
ModesBeforeTrailer ==
  LET Good(n) == \A i \in 0 .. n - 1 : 16 * (i + 1) <= length /\ plausible(Row(i))
  IN  /\ modes = [i \in 1 .. Len(modes) |-> Row(i - 1)]
      /\ Len(modes) <= 256 /\ Good(Len(modes))
      /\ outcome = "modes" => Len(modes) = 256 \/ ~ Good(Len(modes) + 1)

\* decode always ends.
DecodeTerminates == <>(pc = "done")
=============================================================================
