------------------------------- MODULE JpegScan -------------------------------
(***************************************************************************)
(* parse_jpeg_end of rust/src/protocol.rs: the structural search for the   *)
(* end of the JPEG at the start of a frame's payload.  Offsets count from  *)
(* 0 as in the code.  A payload is its first bytes, given one by one, then *)
(* zeros, of which at most one is replaced, up to its length.  One step    *)
(* per pass of a loop; usize arithmetic on offsets into a slice cannot     *)
(* overflow, so LengthOverflow is left out.                                *)
(***************************************************************************)
EXTENDS Integers, Sequences, FiniteSetsExt

VARIABLES
  bytes,      \* the payload's first bytes; what follows is zero,
  stray,      \* except at this offset (None: nowhere)
  length,     \* jpeg_and_tail.len()
  cursor, in_scan, saw_scan,
  marker,     \* the marker being looked at
  at,         \* where parse_jpeg_end is
  jpeg,       \* its result: the length of the JPEG,
  error       \* or what is wrong with it

scanVars == <<cursor, in_scan, saw_scan, marker, at, jpeg, error>>

Restart == 208 .. 215              \* 0xd0 ..= 0xd7
SOI == 216
EOI == 217
SOS == 218

None == -1

Has(i) == i < length
At(i) == IF i < Len(bytes) THEN bytes[i + 1] ELSE IF i = stray THEN 1 ELSE 0

ScanAt == {"idle", "start", "marker", "dispatch", "segment", "ok", "err"}

JpegError ==
  {"MissingJpegStart", "MissingJpegEnd", "TruncatedJpegMarker",
   "ExpectedJpegMarker", "JpegEndBeforeScan", "UnexpectedJpegMarker",
   "TruncatedJpegSegmentLength", "InvalidJpegSegmentLength",
   "TruncatedJpegSegment", "InvalidJpegScanHeader"}

\* Every slice and index of the parser is in bounds when cursor is.
ScanTypeOK ==
  /\ length \in Nat /\ length >= Len(bytes)
  /\ cursor \in 0 .. length
  /\ in_scan \in BOOLEAN /\ saw_scan \in BOOLEAN
  /\ marker \in 0 .. 255
  /\ at \in ScanAt
  /\ jpeg \in 0 .. length
  /\ error \in JpegError \cup {"none"}

Err(e) ==
  /\ at' = "err"
  /\ error' = e

\* The end of a run of fill bytes that starts at i.
AfterFill(i) == Min({j \in i .. Max({i, Len(bytes)}) : ~ Has(j) \/ At(j) # 255})

-----------------------------------------------------------------------------
Start ==
  /\ at = "start"
  /\ IF Has(1) /\ At(0) = 255 /\ At(1) = SOI
       THEN at' = "marker" /\ cursor' = 2 /\ UNCHANGED error
       ELSE Err("MissingJpegStart") /\ UNCHANGED cursor
  /\ UNCHANGED <<in_scan, saw_scan, marker, jpeg>>

\* Mutant: restart markers end the entropy-coded data.
BugRestartEnds(m) == m = 0

\* 0x00 | 0xd0..=0xd7 => continue
StaysInScan(m) == m = 0 \/ m \in Restart

\* Mutant: a stuffed byte or restart marker is looked at again.
BugNoAdvance ==
  LET prefixes == {i \in cursor .. Len(bytes) - 1 : At(i) = 255}
      found == AfterFill(Min(prefixes) + 1)
  IN  /\ at = "marker" /\ in_scan
      /\ \/ prefixes = {} /\ Err("MissingJpegEnd") /\ UNCHANGED <<cursor, in_scan, marker>>
         \/ /\ prefixes # {} /\ ~ Has(found)
            /\ Err("TruncatedJpegMarker")
            /\ UNCHANGED <<cursor, in_scan, marker>>
         \/ /\ prefixes # {} /\ Has(found)
            /\ marker' = At(found)
            /\ cursor' = IF StaysInScan(marker') THEN Min(prefixes) ELSE found + 1
            /\ in_scan' = StaysInScan(marker')
            /\ at' = IF StaysInScan(marker') THEN "marker" ELSE "dispatch"
            /\ UNCHANGED error
      /\ UNCHANGED <<saw_scan, jpeg>>

\* One pass of the inner loop: the next 0xff of the entropy-coded data, the
\* fill bytes after it and the byte that ends them.
ScanMarker ==
  LET prefixes == {i \in cursor .. Len(bytes) - 1 : At(i) = 255}
      found == AfterFill(Min(prefixes) + 1)
  IN  /\ at = "marker" /\ in_scan
      /\ \/ prefixes = {} /\ Err("MissingJpegEnd") /\ UNCHANGED <<cursor, in_scan, marker>>
         \/ /\ prefixes # {} /\ ~ Has(found)
            /\ Err("TruncatedJpegMarker")
            /\ UNCHANGED <<cursor, in_scan, marker>>
         \/ /\ prefixes # {} /\ Has(found)
            /\ marker' = At(found)
            /\ cursor' = found + 1
            /\ in_scan' = StaysInScan(marker')
            /\ at' = IF StaysInScan(marker') THEN "marker" ELSE "dispatch"
            /\ UNCHANGED error
      /\ UNCHANGED <<saw_scan, jpeg>>

\* Outside a scan a marker must follow at once.
HeaderMarker ==
  LET found == AfterFill(cursor + 1)
  IN  /\ at = "marker" /\ ~ in_scan
      /\ \/ /\ ~ Has(cursor)
            /\ Err(IF saw_scan THEN "MissingJpegEnd" ELSE "TruncatedJpegMarker")
            /\ UNCHANGED <<cursor, marker>>
         \/ /\ Has(cursor) /\ At(cursor) # 255
            /\ Err("ExpectedJpegMarker")
            /\ UNCHANGED <<cursor, marker>>
         \/ /\ Has(cursor) /\ At(cursor) = 255 /\ ~ Has(found)
            /\ Err("TruncatedJpegMarker")
            /\ UNCHANGED <<cursor, marker>>
         \/ /\ Has(cursor) /\ At(cursor) = 255 /\ Has(found)
            /\ marker' = At(found)
            /\ cursor' = found + 1
            /\ at' = "dispatch"
            /\ UNCHANGED error
      /\ UNCHANGED <<in_scan, saw_scan, jpeg>>

\* match marker
Dispatch ==
  /\ at = "dispatch"
  /\ \/ marker = EOI /\ saw_scan /\ at' = "ok" /\ jpeg' = cursor /\ UNCHANGED error
     \/ marker = EOI /\ ~ saw_scan /\ Err("JpegEndBeforeScan") /\ UNCHANGED jpeg
     \/ /\ marker \in {0, 1, SOI} \cup Restart
        /\ Err("UnexpectedJpegMarker")
        /\ UNCHANGED jpeg
     \/ /\ marker \notin {0, 1, SOI, EOI} \cup Restart
        /\ at' = "segment"
        /\ UNCHANGED <<jpeg, error>>
  /\ UNCHANGED <<cursor, in_scan, saw_scan, marker>>

segment_length == 256 * At(cursor) + At(cursor + 1)     \* read_u16_be

components == IF segment_length >= 3 THEN At(cursor + 2) ELSE 0

\* Mutant: the end of the segment is not compared with the payload's.
BugSegmentFits == TRUE

SegmentFits == cursor + segment_length <= length

Segment ==
  /\ at = "segment"
  /\ \/ ~ Has(cursor + 1) /\ Err("TruncatedJpegSegmentLength")
        /\ UNCHANGED <<cursor, in_scan, saw_scan>>
     \/ /\ Has(cursor + 1) /\ segment_length < 2
        /\ Err("InvalidJpegSegmentLength")
        /\ UNCHANGED <<cursor, in_scan, saw_scan>>
     \/ /\ Has(cursor + 1) /\ segment_length >= 2 /\ ~ SegmentFits
        /\ Err("TruncatedJpegSegment")
        /\ UNCHANGED <<cursor, in_scan, saw_scan>>
     \/ /\ Has(cursor + 1) /\ segment_length >= 2 /\ SegmentFits
        /\ marker = SOS
        /\ components = 0 \/ segment_length # 2 * components + 6
        /\ Err("InvalidJpegScanHeader")
        /\ UNCHANGED <<cursor, in_scan, saw_scan>>
     \/ /\ Has(cursor + 1) /\ segment_length >= 2 /\ SegmentFits
        /\ marker = SOS => components # 0 /\ segment_length = 2 * components + 6
        /\ saw_scan' = (saw_scan \/ marker = SOS)
        /\ in_scan' = (marker = SOS)
        /\ cursor' = cursor + segment_length
        /\ at' = "marker"
        /\ UNCHANGED error
  /\ UNCHANGED <<marker, jpeg>>

parse_jpeg_end ==
  /\ Start \/ ScanMarker \/ HeaderMarker \/ Dispatch \/ Segment
  /\ UNCHANGED <<bytes, stray, length>>
=============================================================================
