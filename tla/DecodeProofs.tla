------------------------------- MODULE DecodeProofs -----------------------------
(***************************************************************************)
(* Theorems about decode and parse_jpeg_end, for every captured packet.    *)
(* What has to be shown by induction over the payload is shown by looking  *)
(* at a least counterexample.                                              *)
(***************************************************************************)
EXTENDS Decode, WellFoundedInduction, TLAPS

\* A set of naturals that is not empty has a least element.
LEMMA Least ==
  ASSUME NEW T \in SUBSET Nat, T # {}
  PROVE  \E m \in T : \A n \in T : m <= n
<1> DEFINE R == OpToRel(<, Nat)
<1>1. IsWellFoundedOn(R, Nat) BY NatLessThanWellFounded, Zenon
<1>2. \A x, y \in Nat : <<y, x>> \in R <=> y < x BY DEF OpToRel
<1> HIDE DEF R
<1>3. PICK m \in T : \A y \in T : ~ (<<y, m>> \in R) BY <1>1, WFMin, Zenon
<1>4. \A y \in T : ~ (y < m) BY <1>3, <1>2, Zenon
<1> QED BY <1>4

\* What Min chooses.
LEMMA MinIs ==
  ASSUME NEW T \in SUBSET Nat, T # {}
  PROVE  Min(T) \in T /\ \A n \in T : Min(T) <= n
<1>1. PICK m \in T : \A n \in T : m <= n BY Least
<1> QED BY <1>1, Zenon DEF Min

-----------------------------------------------------------------------------
(* The payload's bytes and markers *)

Payload == bytes \in Seq(0 .. 255) /\ length \in Nat /\ Len(bytes) <= length

LEMMA AtType ==
  ASSUME Payload, NEW i \in Nat
  PROVE  /\ At(i) \in 0 .. 255
         /\ At(i) \notin {0, 1} => i < Len(bytes)
<1>1. Len(bytes) \in Nat BY DEF Payload
<1>2. \A j \in 1 .. Len(bytes) : bytes[j] \in 0 .. 255
  <2> DEFINE Byte == 0 .. 255
  <2>1. bytes \in Seq(Byte) BY DEF Payload
  <2> HIDE DEF Byte
  <2>2. \A j \in 1 .. Len(bytes) : bytes[j] \in Byte BY <2>1
  <2> QED BY <2>2 DEF Byte
<1>3. i < Len(bytes) => bytes[i + 1] \in 0 .. 255 BY <1>1, <1>2
<1> QED BY <1>3 DEF At

LEMMA AtNat ==
  ASSUME Payload
  PROVE  \A i \in Nat : At(i) \in Nat
<1>1. SUFFICES ASSUME NEW i \in Nat PROVE At(i) \in Nat OBVIOUS
<1>2. At(i) \in 0 .. 255 BY AtType, SMTT(30)
<1> QED BY <1>2

\* AfterFill skips the fill bytes and nothing else.
LEMMA AfterFillIs ==
  ASSUME Payload, NEW i \in Nat
  PROVE  /\ AfterFill(i) \in Nat /\ i <= AfterFill(i)
         /\ \A k \in i .. AfterFill(i) - 1 : Has(k) /\ At(k) = 255
         /\ ~ Has(AfterFill(i)) \/ At(AfterFill(i)) # 255
<1> DEFINE top == Max({i, Len(bytes)})
           T == {j \in i .. top : ~ Has(j) \/ At(j) # 255}
<1>1. top \in Nat /\ i <= top /\ Len(bytes) <= top
  <2>1. Len(bytes) \in Nat BY DEF Payload
  <2>2. top \in {i, Len(bytes)} /\ top >= i /\ top >= Len(bytes)
    <3>1. \E x \in {i, Len(bytes)} : \A y \in {i, Len(bytes)} : x >= y BY <2>1
    <3> QED BY <3>1 DEF Max
  <2> QED BY <2>1, <2>2
<1> HIDE DEF top
<1>2. At(top) # 255
  <2>1. Len(bytes) \in Nat BY DEF Payload
  <2> QED BY <1>1, <2>1, AtType
<1>3. T \in SUBSET Nat /\ top \in T BY <1>1, <1>2
<1>4. AfterFill(i) = Min(T) BY DEF AfterFill, top
<1> HIDE DEF T
<1>5. Min(T) \in T /\ \A n \in T : Min(T) <= n BY <1>3, MinIs
<1>6. ASSUME NEW k \in i .. Min(T) - 1 PROVE Has(k) /\ At(k) = 255
  <2>1. Min(T) \in i .. top BY <1>5 DEF T
  <2>2. k \in i .. top /\ k < Min(T) /\ k \in Nat BY <1>1, <2>1
  <2>3. k \notin T BY <1>5, <2>2, <2>1, <1>1
  <2> QED BY <2>2, <2>3 DEF T
<1> QED BY <1>1, <1>4, <1>5, <1>6 DEF T

\* A run of fill bytes leads to one marker.
LEMMA MarkerUnique ==
  ASSUME NEW i \in Nat, NEW c \in Nat, NEW d \in Nat, NEW m, NEW n,
         Marker(i, c, m), Marker(i, d, n)
  PROVE  c = d /\ m = n
<1>1. i < c - 1 /\ i < d - 1 BY DEF Marker, Fill
<1>2. At(c - 1) # 255 /\ At(d - 1) # 255 BY DEF Marker
<1>3. ~ (c < d) BY <1>1, <1>2 DEF Marker, Fill
<1>4. ~ (d < c) BY <1>1, <1>2 DEF Marker, Fill
<1>5. c = d BY <1>3, <1>4
<1> QED BY <1>5 DEF Marker

\* The length field of a segment whose marker ends at c.
SegmentLength(c) == 256 * At(c) + At(c + 1)

GoodHeader(c, m) == m = SOS => SegmentLength(c) = 6 + 2 * At(c + 2) /\ At(c + 2) # 0

\* A marker determines its segment.
LEMMA SegmentFrom ==
  ASSUME Payload, NEW i \in Nat, NEW c \in Nat, NEW m, Marker(i, c, m),
         NEW y \in Nat, NEW n
  PROVE  IsSegment(i, y, n) <=>
           /\ n = m /\ y = c + SegmentLength(c)
           /\ SegmentLength(c) >= 2 /\ GoodHeader(c, m)
<1>1. i + 2 <= c BY DEF Marker, Fill
<1>2. At(c) \in Nat /\ At(c + 1) \in Nat /\ At(c + 2) \in Nat BY AtNat
<1>3. ASSUME IsSegment(i, y, n)
      PROVE  /\ n = m /\ y = c + SegmentLength(c)
             /\ SegmentLength(c) >= 2 /\ GoodHeader(c, m)
  <2>1. PICK k \in i + 2 .. y - 2 :
          /\ Marker(i, k, n)
          /\ 256 * At(k) + At(k + 1) = y - k
          /\ n = SOS => y - k = 6 + 2 * At(k + 2) /\ At(k + 2) # 0
    BY <1>3 DEF IsSegment
  <2>2. k = c /\ n = m BY <2>1, MarkerUnique
  <2> QED BY <1>2, <2>1, <2>2 DEF SegmentLength, GoodHeader
<1>4. ASSUME n = m, y = c + SegmentLength(c), SegmentLength(c) >= 2, GoodHeader(c, m)
      PROVE  IsSegment(i, y, n)
  <2>1. c \in i + 2 .. y - 2 BY <1>1, <1>2, <1>4 DEF SegmentLength
  <2>2. 256 * At(c) + At(c + 1) = y - c BY <1>2, <1>4 DEF SegmentLength
  <2> QED BY <2>1, <2>2, <1>4 DEF IsSegment, GoodHeader, SegmentLength
<1> QED BY <1>3, <1>4

Piece(i, y) == IsScan(i, y) \/ IsTables(i, y)

\* Pieces of the payload start with the marker of a segment.
LEMMA PieceMarker ==
  ASSUME NEW i \in Nat, NEW y \in Nat, Piece(i, y)
  PROVE  \E c \in Nat : \E m \in SegmentMarkers : Marker(i, c, m)
<1>1. SOS \in SegmentMarkers BY DEF SOS, SegmentMarkers, SOI, EOI, Restart
<1>2. \A z, m : z \in Nat /\ IsSegment(i, z, m) => \E c \in Nat : Marker(i, c, m)
  BY DEF IsSegment
<1>3. CASE IsScan(i, y)
  <2>1. PICK k \in i .. y : IsSegment(i, k, SOS) BY <1>3 DEF IsScan
  <2>2. k \in Nat BY <2>1
  <2> QED BY <2>1, <2>2, <1>1, <1>2
<1>4. CASE IsTables(i, y) BY <1>4, <1>2 DEF IsTables
<1> QED BY <1>3, <1>4 DEF Piece

\* The one piece after the marker of a table segment: the segment.
LEMMA TablesFrom ==
  ASSUME Payload, NEW i \in Nat, NEW c \in Nat, NEW m \in SegmentMarkers \ {SOS},
         Marker(i, c, m), NEW y \in Nat
  PROVE  /\ ~ IsScan(i, y)
         /\ IsTables(i, y) <=> y = c + SegmentLength(c) /\ SegmentLength(c) >= 2
<1>1. ~ IsScan(i, y)
  <2>1. SUFFICES ASSUME NEW k \in i .. y, IsSegment(i, k, SOS) PROVE FALSE BY DEF IsScan
  <2>2. k \in Nat OBVIOUS
  <2> QED BY <2>1, <2>2, SegmentFrom
<1>2. \A n : IsSegment(i, y, n) <=>
        n = m /\ y = c + SegmentLength(c) /\ SegmentLength(c) >= 2
  BY SegmentFrom DEF GoodHeader
<1>3. ASSUME y = c + SegmentLength(c), SegmentLength(c) >= 2
      PROVE  m \in {At(k) : k \in i .. y - 1}
  <2>1. i + 2 <= c /\ At(c - 1) = m BY DEF Marker, Fill
  <2>2. At(c) \in Nat /\ At(c + 1) \in Nat BY AtNat
  <2>3. c - 1 \in i .. y - 1 BY <1>3, <2>1, <2>2 DEF SegmentLength
  <2> QED BY <2>1, <2>3
<1> QED BY <1>1, <1>2, <1>3 DEF IsTables

\* The pieces after the marker of a scan: its header and entropy-coded data.
LEMMA ScanFrom ==
  ASSUME Payload, NEW i \in Nat, NEW c \in Nat, Marker(i, c, SOS), NEW y \in Nat
  PROVE  /\ ~ IsTables(i, y)
         /\ IsScan(i, y) <=>
              LET k == c + SegmentLength(c)
              IN  k <= y /\ SegmentLength(c) >= 2 /\ GoodHeader(c, SOS) /\ Entropy(k, y)
<1>1. ~ IsTables(i, y) BY SegmentFrom DEF IsTables
<1>2. At(c) \in Nat /\ At(c + 1) \in Nat /\ i + 2 <= c BY AtNat DEF Marker, Fill
<1>3. SegmentLength(c) \in Nat BY <1>2 DEF SegmentLength
<1>4. \A k \in Nat : IsSegment(i, k, SOS) <=>
        k = c + SegmentLength(c) /\ SegmentLength(c) >= 2 /\ GoodHeader(c, SOS)
  BY SegmentFrom
<1> QED BY <1>1, <1>2, <1>3, <1>4 DEF IsScan

-----------------------------------------------------------------------------
(* The recursion of Reached *)

\* What a piece [i, j) makes of the ways r to reach i.
Via(r, i, j) == IF IsScan(i, j) /\ r # {} THEN {"scan"}
                ELSE IF IsTables(i, j) THEN r ELSE {}

ReachedStep(f, j) ==
  IF j = 2 THEN {"tables"} ELSE UNION {Via(f[i], i, j) : i \in 2 .. j - 1}

Satisfies(f, n) == f = [j \in 2 .. n |-> ReachedStep(f, j)]

\* The recursion has a solution on every initial part of the payload.
LEMMA SolutionExists ==
  ASSUME NEW n \in Nat
  PROVE  \E f : Satisfies(f, n)
<1> DEFINE T == {k \in Nat : ~ \E f : Satisfies(f, k)}
<1>1. SUFFICES ASSUME T # {} PROVE FALSE OBVIOUS
<1>2. T \in SUBSET Nat OBVIOUS
<1> HIDE DEF T
<1>3. PICK m \in T : \A k \in T : m <= k BY <1>1, <1>2, Least
<1>4. m \in Nat /\ ~ \E f : Satisfies(f, m) BY <1>3 DEF T
<1>5. CASE m < 2
  <2>1. 2 .. m = {} BY <1>4, <1>5
  <2> DEFINE f == [j \in 2 .. m |-> {}]
  <2>2. f = [j \in 2 .. m |-> ReachedStep(f, j)] BY <2>1
  <2> QED BY <2>2, <1>4 DEF Satisfies
<1>6. CASE m >= 2
  <2>1. m - 1 \in Nat /\ m - 1 \notin T BY <1>4, <1>6, <1>3
  <2>2. PICK f : Satisfies(f, m - 1) BY <2>1 DEF T
  <2> DEFINE g == [j \in 2 .. m |-> IF j = m THEN ReachedStep(f, m) ELSE f[j]]
  <2>3. \A i \in 2 .. m - 1 : g[i] = f[i] BY <1>4
  <2>4. ASSUME NEW j \in 2 .. m PROVE ReachedStep(g, j) = ReachedStep(f, j)
    <3>1. \A i \in 2 .. j - 1 : g[i] = f[i] BY <2>3, <1>4
    <3> HIDE DEF g
    <3>2. {Via(g[i], i, j) : i \in 2 .. j - 1} = {Via(f[i], i, j) : i \in 2 .. j - 1}
      BY <3>1
    <3> QED BY <3>2, Zenon DEF ReachedStep
  <2>5. \A j \in 2 .. m - 1 : f[j] = ReachedStep(f, j) BY <2>2, Zenon DEF Satisfies
  <2>6. ASSUME NEW j \in 2 .. m PROVE g[j] = ReachedStep(g, j)
    <3>1. g[j] = ReachedStep(f, j)
      <4>1. CASE j = m BY <4>1
      <4>2. CASE j # m
        <5>1. j \in 2 .. m - 1 BY <4>2, <1>4
        <5> QED BY <5>1, <2>5, <4>2
      <4> QED BY <4>1, <4>2
    <3> HIDE DEF g
    <3> QED BY <3>1, <2>4
  <2>7. g = [j \in 2 .. m |-> ReachedStep(g, j)]
    <3>1. g = [j \in 2 .. m |-> g[j]] OBVIOUS
    <3> HIDE DEF g
    <3> QED BY <3>1, <2>6
  <2> HIDE DEF g
  <2> QED BY <2>7, <1>4 DEF Satisfies
<1> QED BY <1>4, <1>5, <1>6

LEMMA ReachedIs ==
  ASSUME Payload
  PROVE  \A j \in 2 .. Len(bytes) : Reached[j] = ReachedStep(Reached, j)
<1>1. Reached = CHOOSE f : Satisfies(f, Len(bytes))
  BY Zenon DEF Reached, Satisfies, ReachedStep, Via
<1>2. Len(bytes) \in Nat BY DEF Payload
<1>3. \E f : Satisfies(f, Len(bytes)) BY <1>2, SolutionExists
<1>4. Satisfies(Reached, Len(bytes)) BY <1>1, <1>3, Zenon
<1>5. Reached = [j \in 2 .. Len(bytes) |-> ReachedStep(Reached, j)] BY <1>4 DEF Satisfies
<1> QED BY <1>5, Zenon

\* A position is reached from an earlier one by a piece between them.
LEMMA ReachedFrom ==
  ASSUME Payload, NEW j \in 3 .. Len(bytes)
  PROVE  \A x : x \in Reached[j] <=> \E i \in 2 .. j - 1 : x \in Via(Reached[i], i, j)
<1>1. Len(bytes) \in Nat BY DEF Payload
<1>2. j \in 2 .. Len(bytes) /\ j # 2 BY <1>1
<1>3. Reached[j] = ReachedStep(Reached, j) BY <1>2, ReachedIs
<1>4. Reached[j] = UNION {Via(Reached[i], i, j) : i \in 2 .. j - 1}
  BY <1>2, <1>3 DEF ReachedStep
<1> QED BY <1>4, Zenon

LEMMA ReachedStart ==
  ASSUME Payload, 2 <= Len(bytes)
  PROVE  Reached[2] = {"tables"}
<1>1. Len(bytes) \in Nat BY DEF Payload
<1>2. 2 \in 2 .. Len(bytes) BY <1>1
<1> QED BY <1>2, ReachedIs, Zenon DEF ReachedStep

-----------------------------------------------------------------------------
(* The boundaries between pieces that parse_jpeg_end stops at *)

Live(j) == j \in 2 .. Len(bytes) /\ Reached[j] # {}

\* b is where a marker must follow: pieces fill the payload up to it, with a
\* scan among them exactly when s, no other way to cut the payload up jumps
\* over it, and the JPEG does not end before it.
Boundary(b, s) ==
  /\ b \in Nat /\ 2 <= b
  /\ b <= Len(bytes) => Reached[b] # {} /\ ("scan" \in Reached[b] <=> s)
  /\ \A j \in 2 .. b - 1 : Live(j) =>
       /\ \A y \in b + 1 .. Len(bytes) : ~ Piece(j, y)
       /\ \A n \in Nat : ~ Marker(j, n, EOI)

\* A position that is reached has a piece before it.
LEMMA LiveFrom ==
  ASSUME Payload, NEW j, Live(j), j # 2
  PROVE  \E i \in 2 .. j - 1 : Live(i) /\ Piece(i, j)
<1>1. Len(bytes) \in Nat BY DEF Payload
<1>2. j \in 3 .. Len(bytes) /\ Reached[j] # {} BY <1>1 DEF Live
<1>3. PICK x : x \in Reached[j] BY <1>2
<1>4. PICK i \in 2 .. j - 1 : x \in Via(Reached[i], i, j) BY <1>2, <1>3, ReachedFrom
<1>5. Reached[i] # {} /\ Piece(i, j) BY <1>4 DEF Via, Piece
<1>6. i \in 2 .. Len(bytes) BY <1>1, <1>2
<1> QED BY <1>4, <1>5, <1>6 DEF Live

\* Nothing is reached between a boundary and the first end of a piece that
\* starts there.
LEMMA Gap ==
  ASSUME Payload, NEW b, NEW s, Boundary(b, s), NEW e \in Nat,
         \A y \in b + 1 .. e - 1 : y <= Len(bytes) => ~ Piece(b, y)
  PROVE  \A j \in b + 1 .. e - 1 : ~ Live(j)
<1> DEFINE T == {j \in b + 1 .. e - 1 : Live(j)}
<1>1. SUFFICES ASSUME T # {} PROVE FALSE OBVIOUS
<1>2. b \in Nat /\ 2 <= b BY DEF Boundary
<1>3. T \in SUBSET Nat BY <1>2
<1> HIDE DEF T
<1>4. PICK m \in T : \A k \in T : m <= k BY <1>1, <1>3, Least
<1>5. m \in b + 1 .. e - 1 /\ Live(m) BY <1>4 DEF T
<1>6. Len(bytes) \in Nat /\ m \in 2 .. Len(bytes) BY <1>5 DEF Live, Payload
<1>7. PICK i \in 2 .. m - 1 : Live(i) /\ Piece(i, m) BY <1>2, <1>5, LiveFrom
<1>8. CASE i < b
  <2>1. i \in 2 .. b - 1 /\ m \in b + 1 .. Len(bytes) BY <1>8, <1>2, <1>5, <1>6
  <2> QED BY <2>1, <1>7 DEF Boundary
<1>9. CASE i = b BY <1>9, <1>5, <1>6, <1>7
<1>10. CASE i > b
  <2>1. i \in b + 1 .. e - 1 BY <1>2, <1>5, <1>10
  <2>2. i \in T BY <2>1, <1>7 DEF T
  <2> QED BY <2>2, <1>4, <1>5, <1>2
<1> QED BY <1>2, <1>8, <1>9, <1>10

\* Where no piece starts at a boundary the payload is a JPEG only if the EOI
\* marker follows at once, behind a scan.
LEMMA LastBoundary ==
  ASSUME Payload, NEW b, NEW s, Boundary(b, s),
         \A y \in b + 1 .. Len(bytes) : ~ Piece(b, y),
         NEW n, IsJpeg(n)
  PROVE  s /\ Marker(b, n, EOI)
<1>1. Len(bytes) \in Nat /\ b \in Nat /\ 2 <= b BY DEF Payload, Boundary
<1>2. n \in 4 .. Len(bytes) BY DEF IsJpeg
<1>3. PICK i \in 2 .. n - 2 : Marker(i, n, EOI) /\ "scan" \in Reached[i] BY DEF IsJpeg
<1>4. i \in 2 .. Len(bytes) /\ i \in Nat /\ n \in Nat BY <1>1, <1>2, <1>3
<1>5. Live(i) BY <1>3, <1>4 DEF Live
<1>6. ~ (i < b)
  <2>1. SUFFICES ASSUME i < b PROVE FALSE OBVIOUS
  <2>2. i \in 2 .. b - 1 BY <1>1, <1>4, <2>1
  <2> QED BY <2>2, <1>3, <1>4, <1>5 DEF Boundary
<1>7. ~ (i > b)
  <2>1. \A j \in b + 1 .. (Len(bytes) + 1) - 1 : ~ Live(j)
    <3>1. Len(bytes) + 1 \in Nat BY <1>1
    <3>2. \A y \in b + 1 .. (Len(bytes) + 1) - 1 : y <= Len(bytes) => ~ Piece(b, y)
      BY <1>1
    <3> QED BY <3>1, <3>2, Gap
  <2> QED BY <2>1, <1>1, <1>4, <1>5
<1>8. i = b BY <1>1, <1>4, <1>6, <1>7
<1> QED BY <1>3, <1>4, <1>8 DEF Boundary

\* The end of a table segment is a boundary.
LEMMA TablesBoundary ==
  ASSUME Payload, NEW b, NEW s, Boundary(b, s),
         NEW c \in Nat, NEW m \in SegmentMarkers \ {SOS}, Marker(b, c, m),
         SegmentLength(c) >= 2
  PROVE  Boundary(c + SegmentLength(c), s)
<1> DEFINE e == c + SegmentLength(c)
<1>1. Len(bytes) \in Nat /\ b \in Nat /\ 2 <= b BY DEF Payload, Boundary
<1>2. b + 2 <= c /\ At(b) = 255
  <2>1. b < c - 1 BY DEF Marker, Fill
  <2> QED BY <1>1, <2>1 DEF Marker, Fill
<1>3. b < Len(bytes) BY <1>1, <1>2, AtType
<1>4. SegmentLength(c) \in Nat BY AtNat DEF SegmentLength
<1>5. e \in Nat /\ b + 4 <= e BY <1>1, <1>2, <1>4
<1>6. \A y \in Nat : ~ IsScan(b, y) /\ (IsTables(b, y) <=> y = e) BY <1>1, TablesFrom
<1> HIDE DEF e
<1>7. \A y \in Nat : Piece(b, y) <=> y = e BY <1>6 DEF Piece
<1>8. \A j \in b + 1 .. e - 1 : ~ Live(j)
  <2>1. \A y \in b + 1 .. e - 1 : y <= Len(bytes) => ~ Piece(b, y) BY <1>1, <1>5, <1>7
  <2> QED BY <2>1, <1>5, Gap
<1>9. ASSUME e <= Len(bytes) PROVE Reached[e] = Reached[b]
  <2>1. e \in 3 .. Len(bytes) BY <1>1, <1>5, <1>9
  <2>2. b \in 2 .. e - 1 BY <1>1, <1>5
  <2>3. ASSUME NEW i \in 2 .. e - 1, i # b PROVE Via(Reached[i], i, e) = {}
    <3>1. Live(i) => ~ Piece(i, e)
      <4>1. CASE i < b
        <5>1. i \in 2 .. b - 1 /\ e \in b + 1 .. Len(bytes) BY <4>1, <1>1, <1>5, <1>9
        <5> QED BY <5>1 DEF Boundary
      <4>2. CASE i > b
        <5>1. i \in b + 1 .. e - 1 BY <4>2, <1>1, <1>5
        <5> QED BY <5>1, <1>8
      <4> QED BY <4>1, <4>2, <2>3, <1>1, <1>5
    <3>2. i \in 2 .. Len(bytes) BY <1>1, <1>5, <1>9
    <3> QED BY <3>1, <3>2 DEF Live, Piece, Via
  <2>4. Via(Reached[b], b, e) = Reached[b] BY <1>5, <1>6 DEF Via
  <2>5. \A x : x \in Reached[e] <=> \E i \in 2 .. e - 1 : x \in Via(Reached[i], i, e)
    BY <2>1, ReachedFrom
  <2>6. \A x : x \in Reached[e] <=> x \in Reached[b] BY <2>2, <2>3, <2>4, <2>5
  <2> QED BY <2>6
<1>10. ASSUME NEW j \in 2 .. e - 1, Live(j)
       PROVE  /\ \A y \in e + 1 .. Len(bytes) : ~ Piece(j, y)
              /\ \A n \in Nat : ~ Marker(j, n, EOI)
  <2>1. CASE j < b
    <3>1. j \in 2 .. b - 1 BY <2>1, <1>1
    <3>2. \A y \in e + 1 .. Len(bytes) : y \in b + 1 .. Len(bytes) BY <1>1, <1>5
    <3> QED BY <3>1, <3>2, <1>10 DEF Boundary
  <2>2. CASE j = b
    <3>1. \A y \in e + 1 .. Len(bytes) : ~ Piece(j, y) BY <2>2, <1>5, <1>7
    <3>2. m # EOI BY DEF SegmentMarkers
    <3> QED BY <2>2, <3>1, <3>2, <1>1, MarkerUnique
  <2>3. CASE j > b
    <3>1. j \in b + 1 .. e - 1 BY <2>3, <1>1, <1>5
    <3> QED BY <3>1, <1>8, <1>10
  <2> QED BY <2>1, <2>2, <2>3, <1>1, <1>5
<1>11. e <= Len(bytes) => Reached[e] # {} /\ ("scan" \in Reached[e] <=> s)
  BY <1>1, <1>3, <1>9 DEF Boundary
<1>12. Boundary(e, s) BY <1>1, <1>5, <1>10, <1>11 DEF Boundary
<1> QED BY <1>12 DEF e

\* In entropy-coded data a 0xff leads to a marker the parser skips.
LEMMA EntropyMarker ==
  ASSUME Payload, NEW k \in Nat, NEW p \in Nat, Entropy(k, p), NEW j \in k .. p - 1,
         NEW c \in Nat, NEW m, Marker(j, c, m)
  PROVE  m = 0 \/ m \in Restart
<1>1. j \in Nat /\ j < c - 1 BY DEF Marker, Fill
<1>2. At(j) = 255 BY <1>1 DEF Marker, Fill
<1>3. PICK l \in j + 1 .. p - 1 : Fill(j, l) /\ (At(l) = 0 \/ At(l) \in Restart)
  BY <1>2 DEF Entropy
<1>4. l \in Nat /\ l + 1 \in Nat /\ (l + 1) - 1 = l BY <1>1, <1>3
<1>5. At(l) # 255 BY <1>3 DEF Restart
<1>6. Marker(j, l + 1, At(l)) BY <1>3, <1>4, <1>5 DEF Marker
<1>7. m = At(l) BY <1>1, <1>4, <1>6, MarkerUnique
<1> QED BY <1>3, <1>7

\* A scan whose header ends at k and whose entropy-coded data reaches p.
InScan(b, s, k, p) ==
  /\ Boundary(b, s)
  /\ k \in Nat /\ p \in Nat /\ b < k /\ k <= p
  /\ IsSegment(b, k, SOS) /\ Entropy(k, p)

\* Before p a piece starts only at the boundaries before the scan and at the
\* scan itself, and the JPEG does not end.
LEMMA BeforeInScan ==
  ASSUME Payload, NEW b, NEW s, NEW k, NEW p, InScan(b, s, k, p),
         NEW j \in 2 .. p - 1, Live(j)
  PROVE  /\ j < b => \A y \in b + 1 .. Len(bytes) : ~ Piece(j, y)
         /\ j > b => \A y \in Nat : ~ Piece(j, y)
         /\ \A n \in Nat : ~ Marker(j, n, EOI)
<1>1. Len(bytes) \in Nat /\ b \in Nat /\ 2 <= b BY DEF Payload, Boundary, InScan
<1>2. k \in Nat /\ p \in Nat /\ b < k /\ k <= p /\ j \in Nat BY DEF InScan
<1>3. PICK c \in Nat : Marker(b, c, SOS)
  BY <1>1, <1>2 DEF InScan, IsSegment
<1>4. SOS # EOI BY DEF SOS, EOI
<1>5. CASE j < b
  <2>1. j \in 2 .. b - 1 BY <1>5, <1>1
  <2> QED BY <1>5, <2>1, <1>1 DEF InScan, Boundary
<1>6. CASE j = b BY <1>1, <1>3, <1>4, <1>6, MarkerUnique
<1>7. CASE b < j /\ j < k
  <2>1. ASSUME NEW y \in b + 1 .. k - 1, Piece(b, y) PROVE FALSE
    <3>1. y \in Nat BY <1>1
    <3>2. k = c + SegmentLength(c) BY <1>1, <1>2, <1>3, SegmentFrom DEF InScan
    <3>3. ~ IsTables(b, y) /\ (IsScan(b, y) => c + SegmentLength(c) <= y)
      BY <3>1, <1>1, <1>3, ScanFrom
    <3> QED BY <2>1, <3>1, <3>2, <3>3, <1>2 DEF Piece
  <2>2. Boundary(b, s) BY DEF InScan
  <2>3. \A i \in b + 1 .. k - 1 : ~ Live(i) BY <2>1, <2>2, <1>2, Gap
  <2>4. j \in b + 1 .. k - 1 BY <1>1, <1>2, <1>7
  <2> QED BY <2>3, <2>4
<1>8. CASE k <= j
  <2>1. j \in k .. p - 1 BY <1>2, <1>8
  <2>2. Entropy(k, p) BY DEF InScan
  <2>3. \A d \in Nat : \A m : Marker(j, d, m) => m = 0 \/ m \in Restart
    BY <2>1, <2>2, <1>2, EntropyMarker
  <2>4. \A m \in SegmentMarkers \cup {EOI} : m # 0 /\ m \notin Restart
    BY DEF SegmentMarkers, EOI, Restart
  <2>5. \A y \in Nat : ~ Piece(j, y) BY <1>2, <2>3, <2>4, PieceMarker
  <2> QED BY <1>1, <1>2, <1>8, <2>3, <2>4, <2>5
<1> QED BY <1>1, <1>2, <1>5, <1>6, <1>7, <1>8

\* A marker that is not skipped ends the entropy-coded data: it starts at a
\* boundary behind a scan.
LEMMA ScanBoundary ==
  ASSUME Payload, NEW b, NEW s, NEW k, NEW p, InScan(b, s, k, p),
         NEW q \in Nat, NEW m, Marker(p, q, m), m # 0, m \notin Restart
  PROVE  Boundary(p, TRUE)
<1>1. Len(bytes) \in Nat /\ b \in Nat /\ 2 <= b BY DEF Payload, Boundary, InScan
<1>2. k \in Nat /\ p \in Nat /\ b < k /\ k <= p BY DEF InScan
<1>3. p < Len(bytes)
  <2>1. p < q - 1 BY DEF Marker, Fill
  <2>2. At(p) = 255 BY <1>2, <2>1 DEF Marker, Fill
  <2> QED BY <2>2, <1>2, AtType
<1>4. Reached[b] # {} BY <1>1, <1>2, <1>3 DEF InScan, Boundary
<1>5. "scan" \in Reached[p]
  <2>1. IsScan(b, p) BY <1>1, <1>2 DEF InScan, IsScan
  <2>2. "scan" \in Via(Reached[b], b, p) BY <1>4, <2>1 DEF Via
  <2>3. p \in 3 .. Len(bytes) /\ b \in 2 .. p - 1 BY <1>1, <1>2, <1>3
  <2> QED BY <2>2, <2>3, ReachedFrom
<1>6. ASSUME NEW y \in p + 1 .. Len(bytes), Piece(b, y) PROVE FALSE
  <2>1. PICK c \in Nat : Marker(b, c, SOS) BY <1>1, <1>2 DEF InScan, IsSegment
  <2>2. y \in Nat BY <1>2
  <2>3. k = c + SegmentLength(c) BY <1>1, <1>2, <2>1, SegmentFrom DEF InScan
  <2>4. ~ IsTables(b, y) /\ (IsScan(b, y) => Entropy(k, y))
    BY <2>1, <2>2, <2>3, <1>1, ScanFrom
  <2>5. Entropy(k, y) BY <1>6, <2>4 DEF Piece
  <2>6. p \in k .. y - 1 BY <1>1, <1>2
  <2> QED BY <2>2, <2>5, <2>6, <1>2, EntropyMarker
<1>7. ASSUME NEW j \in 2 .. p - 1, Live(j)
      PROVE  /\ \A y \in p + 1 .. Len(bytes) : ~ Piece(j, y)
             /\ \A n \in Nat : ~ Marker(j, n, EOI)
  <2>1. /\ j < b => \A y \in b + 1 .. Len(bytes) : ~ Piece(j, y)
        /\ j > b => \A y \in Nat : ~ Piece(j, y)
        /\ \A n \in Nat : ~ Marker(j, n, EOI)
    BY <1>7, BeforeInScan
  <2>2. \A y \in p + 1 .. Len(bytes) : y \in Nat /\ y \in b + 1 .. Len(bytes)
    BY <1>1, <1>2
  <2>3. j < b \/ j = b \/ j > b BY <1>1, <1>2
  <2> QED BY <2>1, <2>2, <2>3, <1>6
<1> QED BY <1>1, <1>2, <1>5, <1>7 DEF Boundary

\* Without an EOI marker behind the entropy-coded data there is no JPEG.
LEMMA ScanNoEnd ==
  ASSUME Payload, NEW b, NEW s, NEW k, NEW p, InScan(b, s, k, p),
         \A i, n \in Nat : p <= i /\ n <= Len(bytes) => ~ Marker(i, n, EOI)
  PROVE  \A n : ~ IsJpeg(n)
<1>1. SUFFICES ASSUME NEW n, IsJpeg(n) PROVE FALSE OBVIOUS
<1>2. Len(bytes) \in Nat /\ p \in Nat BY DEF Payload, InScan
<1>3. n \in 4 .. Len(bytes) BY <1>1 DEF IsJpeg
<1>4. PICK i \in 2 .. n - 2 : Marker(i, n, EOI) /\ "scan" \in Reached[i]
  BY <1>1 DEF IsJpeg
<1>5. i \in 2 .. Len(bytes) /\ i \in Nat /\ n \in Nat /\ n <= Len(bytes)
  BY <1>2, <1>3, <1>4
<1>6. Live(i) BY <1>4, <1>5 DEF Live
<1>7. CASE i < p
  <2>1. i \in 2 .. p - 1 BY <1>2, <1>5, <1>7
  <2> QED BY <2>1, <1>4, <1>5, <1>6, BeforeInScan
<1>8. CASE p <= i BY <1>4, <1>5, <1>8
<1> QED BY <1>2, <1>5, <1>7, <1>8

\* Bytes other than 0xff, and then a marker that is skipped, prolong the
\* entropy-coded data.
LEMMA EntropyGrows ==
  ASSUME NEW k \in Nat, NEW c \in Nat, Entropy(k, c), k <= c,
         NEW p \in Nat, c <= p, \A i \in c .. p - 1 : At(i) # 255
  PROVE  /\ Entropy(k, p)
         /\ \A q \in Nat : \A m :
              Marker(p, q, m) /\ (m = 0 \/ m \in Restart) => Entropy(k, q)
<1>1. Entropy(k, p)
  <2>1. SUFFICES ASSUME NEW i \in k .. p - 1, At(i) = 255
                 PROVE  \E l \in i + 1 .. p - 1 :
                          Fill(i, l) /\ (At(l) = 0 \/ At(l) \in Restart)
    BY DEF Entropy
  <2>2. i \in k .. c - 1 BY <2>1
  <2>3. PICK l \in i + 1 .. c - 1 : Fill(i, l) /\ (At(l) = 0 \/ At(l) \in Restart)
    BY <2>1, <2>2 DEF Entropy
  <2>4. l \in i + 1 .. p - 1 BY <2>2, <2>3
  <2> QED BY <2>3, <2>4
<1>2. ASSUME NEW q \in Nat, NEW m, Marker(p, q, m), m = 0 \/ m \in Restart
      PROVE  Entropy(k, q)
  <2>1. SUFFICES ASSUME NEW i \in k .. q - 1, At(i) = 255
                 PROVE  \E l \in i + 1 .. q - 1 :
                          Fill(i, l) /\ (At(l) = 0 \/ At(l) \in Restart)
    BY DEF Entropy
  <2>2. p < q - 1 /\ At(q - 1) = m /\ m # 255 BY <1>2 DEF Marker, Fill
  <2>3. CASE i < p
    <3>1. i \in k .. p - 1 BY <2>3
    <3>2. PICK l \in i + 1 .. p - 1 : Fill(i, l) /\ (At(l) = 0 \/ At(l) \in Restart)
      BY <1>1, <2>1, <3>1 DEF Entropy
    <3>3. l \in i + 1 .. q - 1 BY <3>1, <3>2, <2>2
    <3> QED BY <3>2, <3>3
  <2>4. CASE p <= i
    <3>1. i # q - 1 BY <2>1, <2>2
    <3>2. i \in p .. q - 2 /\ q - 1 \in i + 1 .. q - 1 BY <2>1, <2>4, <3>1
    <3>3. Fill(i, q - 1) BY <1>2, <3>2 DEF Marker, Fill
    <3> QED BY <1>2, <2>2, <3>2, <3>3
  <2> QED BY <2>3, <2>4
<1> QED BY <1>1, <1>2

\* What the parser finds after a 0xff: the marker it leads to, if the payload
\* does not end first.
LEMMA MarkerAt ==
  ASSUME Payload, NEW p \in Nat, At(p) = 255
  PROVE  LET found == AfterFill(p + 1)
         IN  /\ found \in Nat /\ p < found
             /\ Has(found) => Marker(p, found + 1, At(found))
             /\ ~ Has(found) =>
                  \A i, n \in Nat : \A m : p <= i /\ n <= Len(bytes) => ~ Marker(i, n, m)
<1> DEFINE found == AfterFill(p + 1)
<1>1. /\ found \in Nat /\ p + 1 <= found
      /\ \A k \in p + 1 .. found - 1 : Has(k) /\ At(k) = 255
      /\ ~ Has(found) \/ At(found) # 255
  BY AfterFillIs
<1> HIDE DEF found
<1>2. \A k \in p .. found - 1 : At(k) = 255 BY <1>1
<1>3. ASSUME Has(found) PROVE Marker(p, found + 1, At(found))
  <2>1. Fill(p, found) BY <1>1, <1>2 DEF Fill
  <2> QED BY <1>1, <1>3, <2>1 DEF Marker
<1>4. ASSUME ~ Has(found), NEW i \in Nat, NEW n \in Nat, NEW m, p <= i,
             n <= Len(bytes), Marker(i, n, m)
      PROVE  FALSE
  <2>1. i < n - 1 /\ At(n - 1) # 255 BY <1>4 DEF Marker, Fill
  <2>2. length <= found /\ length \in Nat /\ Len(bytes) \in Nat /\ Len(bytes) <= length
    BY <1>1, <1>4 DEF Has, Payload
  <2>3. n - 1 \in p .. found - 1 BY <1>1, <1>4, <2>1, <2>2
  <2> QED BY <2>1, <2>3, <1>2
<1> QED BY <1>1, <1>3, <1>4 DEF found

-----------------------------------------------------------------------------
(* parse_jpeg_end *)
\* No step of decode changes the payload.
LEMMA SamePayload ==
  ASSUME UNCHANGED <<bytes, stray, length>>
  PROVE  /\ Payload' <=> Payload
         /\ \A i : At(i)' = At(i)
         /\ \A i, j, m : Marker(i, j, m)' <=> Marker(i, j, m)
         /\ \A b, s : Boundary(b, s)' <=> Boundary(b, s)
         /\ \A b, s, k, p : InScan(b, s, k, p)' <=> InScan(b, s, k, p)
         /\ \A n : IsJpeg(n)' <=> IsJpeg(n)
<1>1. Len(bytes') = Len(bytes) /\ (Payload' <=> Payload) BY Zenon DEF Payload
<1>2. \A i : At(i)' = At(i) BY Zenon DEF At
<1>3. \A i, j : Fill(i, j)' <=> Fill(i, j) BY <1>2, Zenon DEF Fill
<1>4. \A i, j, m : Marker(i, j, m)' <=> Marker(i, j, m) BY <1>2, <1>3, Zenon DEF Marker
<1>5. \A i, j, m : IsSegment(i, j, m)' <=> IsSegment(i, j, m)
  BY <1>2, <1>4, SMT DEF IsSegment
<1>6. \A i, j : Entropy(i, j)' <=> Entropy(i, j) BY <1>2, <1>3, ZenonT(30) DEF Entropy
<1>7. \A i, j : IsScan(i, j)' <=> IsScan(i, j) BY <1>5, <1>6, Zenon DEF IsScan
<1>8. \A i, j : IsTables(i, j)' <=> IsTables(i, j) BY <1>2, <1>5, Zenon DEF IsTables
<1>9. \A r, i, j : Via(r, i, j)' = Via(r, i, j) BY <1>7, <1>8, Zenon DEF Via
<1>10. Reached' = Reached
  <2>1. Reached = CHOOSE f : Satisfies(f, Len(bytes))
    BY Zenon DEF Reached, Satisfies, ReachedStep, Via
  <2>2. Reached' = CHOOSE f : Satisfies(f, Len(bytes))'
    BY Zenon DEF Reached, Satisfies, ReachedStep, Via
  <2>3. \A f, j : ReachedStep(f, j)' = ReachedStep(f, j) BY <1>9, Zenon DEF ReachedStep
  <2>4. \A f : Satisfies(f, Len(bytes))' <=> Satisfies(f, Len(bytes))
    BY <1>1, <2>3, Zenon DEF Satisfies
  <2>5. (CHOOSE f : Satisfies(f, Len(bytes))') = CHOOSE f : Satisfies(f, Len(bytes))
    BY <2>4, Zenon
  <2> QED BY <2>1, <2>2, <2>5, Zenon
<1>11. \A i, j : Piece(i, j)' <=> Piece(i, j) BY <1>7, <1>8, Zenon DEF Piece
<1>12. \A j : Live(j)' <=> Live(j) BY <1>1, <1>10, Zenon DEF Live
<1>13. \A b, s : Boundary(b, s)' <=> Boundary(b, s)
  BY <1>1, <1>4, <1>10, <1>11, <1>12, Zenon DEF Boundary
<1>14. \A b, s, k, p : InScan(b, s, k, p)' <=> InScan(b, s, k, p)
  BY <1>5, <1>6, <1>13, ZenonT(30) DEF InScan
<1>15. \A n : IsJpeg(n)' <=> IsJpeg(n) BY <1>1, <1>2, <1>4, <1>10, SMT DEF IsJpeg
<1> QED BY <1>1, <1>2, <1>4, <1>13, <1>14, <1>15

\* Where parse_jpeg_end is in the payload, in terms of its boundaries; behind
\* them it has found the one JPEG there is, or there is none.
ScanInv ==
  /\ at \in {"idle", "start"} => ~ in_scan /\ ~ saw_scan
  /\ at \in {"marker", "dispatch", "segment"} => At(0) = 255 /\ At(1) = SOI
  /\ at = "marker" /\ ~ in_scan => Boundary(cursor, saw_scan)
  /\ at = "marker" /\ in_scan =>
       saw_scan /\ \E b, k \in Nat : \E s \in BOOLEAN : InScan(b, s, k, cursor)
  /\ at \in {"dispatch", "segment"} =>
       ~ in_scan /\ \E b \in Nat : Boundary(b, saw_scan) /\ Marker(b, cursor, marker)
  /\ at = "segment" => marker \in SegmentMarkers
  /\ at = "ok" => IsJpeg(jpeg) /\ \A n : IsJpeg(n) => n = jpeg
  /\ at = "err" => \A n : ~ IsJpeg(n)

\* No marker, no piece and no EOI.
LEMMA NoMarker ==
  ASSUME Payload, NEW b, NEW s, Boundary(b, s),
         \A n \in Nat : \A m : n <= Len(bytes) => ~ Marker(b, n, m)
  PROVE  \A n : ~ IsJpeg(n)
<1>1. SUFFICES ASSUME NEW n, IsJpeg(n) PROVE FALSE OBVIOUS
<1>2. Len(bytes) \in Nat /\ b \in Nat BY DEF Payload, Boundary
<1>3. n \in Nat /\ n <= Len(bytes) BY <1>1, <1>2 DEF IsJpeg
<1>4. ASSUME NEW y \in b + 1 .. Len(bytes), Piece(b, y) PROVE FALSE
  <2>1. y \in Nat /\ y <= Len(bytes) BY <1>2
  <2>2. \A z, m : z \in Nat /\ z <= y /\ IsSegment(b, z, m) =>
          \E c \in Nat : c <= y /\ Marker(b, c, m)
    BY <1>2, <2>1 DEF IsSegment
  <2>3. \E z, m : z \in Nat /\ z <= y /\ IsSegment(b, z, m)
    BY <1>2, <1>4, <2>1 DEF Piece, IsScan, IsTables
  <2>4. PICK c \in Nat : \E m : c <= y /\ Marker(b, c, m) BY <2>2, <2>3
  <2> QED BY <2>4, <2>1, <1>2
<1> QED BY <1>1, <1>3, <1>4, LastBoundary

LEMMA StartStep ==
  ASSUME Payload, ScanInv, ScanTypeOK, Start, UNCHANGED <<bytes, stray, length>>
  PROVE  ScanInv' /\ ScanTypeOK'
<1>1. Len(bytes) \in Nat /\ length \in Nat /\ Len(bytes) <= length BY DEF Payload
<1>2. CASE Has(1) /\ At(0) = 255 /\ At(1) = SOI
  <2>1. 2 <= Len(bytes) BY <1>1, <1>2, AtType DEF SOI
  <2>2. Reached[2] = {"tables"} BY <2>1, ReachedStart
  <2>3. Boundary(2, FALSE) BY <2>2 DEF Boundary
  <2>4. at' = "marker" /\ cursor' = 2 /\ ~ in_scan' /\ saw_scan' = FALSE
    BY <1>2 DEF Start, ScanInv, ScanTypeOK
  <2>5. Boundary(cursor', saw_scan') BY <2>3, <2>4, Zenon
  <2>6. ScanInv' BY <1>2, <2>4, <2>5, SamePayload DEF ScanInv
  <2> QED BY <1>1, <2>1, <2>4, <2>6, <1>2 DEF Start, ScanTypeOK, ScanAt
<1>3. CASE ~ (Has(1) /\ At(0) = 255 /\ At(1) = SOI)
  <2>1. \A n : ~ IsJpeg(n) BY <1>1, <1>3 DEF IsJpeg, Has
  <2>2. at' = "err" BY <1>3 DEF Start, Err
  <2>3. ScanInv' BY <2>1, <2>2, SamePayload DEF ScanInv
  <2> QED BY <1>3, <2>3 DEF Start, Err, ScanTypeOK, ScanAt, JpegError
<1> QED BY <1>2, <1>3

LEMMA ScanMarkerStep ==
  ASSUME Payload, ScanInv, ScanTypeOK, ScanMarker, UNCHANGED <<bytes, stray, length>>
  PROVE  ScanInv' /\ ScanTypeOK'
<1> DEFINE prefixes == {i \in cursor .. Len(bytes) - 1 : At(i) = 255}
           p == Min(prefixes)
           found == AfterFill(p + 1)
<1>1. /\ Len(bytes) \in Nat /\ length \in Nat /\ Len(bytes) <= length
      /\ cursor \in Nat /\ cursor <= length
  BY DEF Payload, ScanTypeOK
<1>2. at = "marker" /\ in_scan /\ saw_scan' = saw_scan /\ jpeg' = jpeg BY DEF ScanMarker
<1>3. /\ saw_scan /\ At(0) = 255 /\ At(1) = SOI
      /\ \E b, k \in Nat : \E s \in BOOLEAN : InScan(b, s, k, cursor)
  BY <1>2 DEF ScanInv
<1>4. PICK b, k \in Nat : \E s \in BOOLEAN : InScan(b, s, k, cursor) BY <1>3
<1>5. PICK s \in BOOLEAN : InScan(b, s, k, cursor) BY <1>4
<1>6. k \in Nat /\ k <= cursor /\ Entropy(k, cursor) BY <1>5 DEF InScan
<1>7. \/ prefixes = {} /\ Err("MissingJpegEnd") /\ UNCHANGED <<cursor, in_scan, marker>>
      \/ /\ prefixes # {} /\ ~ Has(found)
         /\ Err("TruncatedJpegMarker")
         /\ UNCHANGED <<cursor, in_scan, marker>>
      \/ /\ prefixes # {} /\ Has(found)
         /\ marker' = At(found)
         /\ cursor' = found + 1
         /\ in_scan' = StaysInScan(marker')
         /\ at' = IF StaysInScan(marker') THEN "marker" ELSE "dispatch"
         /\ UNCHANGED error
  BY Zenon DEF ScanMarker
<1>8. prefixes \in SUBSET Nat BY <1>1
<1>9. \A i \in Nat : \A n \in Nat : \A m : Marker(i, n, m) => At(i) = 255 /\ i < Len(bytes)
  <2>1. SUFFICES ASSUME NEW i \in Nat, NEW n \in Nat, NEW m, Marker(i, n, m)
                 PROVE  At(i) = 255 /\ i < Len(bytes)
    OBVIOUS
  <2>2. i < n - 1 BY <2>1 DEF Marker, Fill
  <2>3. At(i) = 255 BY <2>1, <2>2 DEF Marker, Fill
  <2> QED BY <2>3, AtType
<1>10. CASE prefixes = {} 
  <2>1. \A i, n \in Nat : cursor <= i /\ n <= Len(bytes) => ~ Marker(i, n, EOI)
    BY <1>1, <1>9, <1>10
  <2>2. \A n : ~ IsJpeg(n) BY <1>5, <2>1, ScanNoEnd
  <2>3. at' = "err" /\ error' = "MissingJpegEnd" /\ UNCHANGED <<cursor, in_scan, marker>>
    BY <1>7, <1>10, SMTT(30) DEF Err
  <2>4. ScanInv' BY <2>2, <2>3, SamePayload DEF ScanInv
  <2> QED BY <1>2, <2>3, <2>4 DEF ScanTypeOK, ScanAt, JpegError
<1>11. CASE prefixes # {}
  <2> HIDE DEF prefixes
  <2>1. p \in prefixes /\ \A n \in prefixes : p <= n BY <1>8, <1>11, MinIs
  <2>2. p \in Nat /\ cursor <= p /\ p < Len(bytes) /\ At(p) = 255
    BY <1>1, <2>1 DEF prefixes
  <2>3. \A i \in cursor .. p - 1 : At(i) # 255
    <3>1. SUFFICES ASSUME NEW i \in cursor .. p - 1, At(i) = 255 PROVE FALSE OBVIOUS
    <3>2. i \in prefixes BY <1>1, <2>2, <3>1 DEF prefixes
    <3> QED BY <2>1, <2>2, <3>1, <3>2, <1>1
  <2> HIDE DEF p
  <2>4. /\ Entropy(k, p)
        /\ \A q \in Nat : \A m :
             Marker(p, q, m) /\ (m = 0 \/ m \in Restart) => Entropy(k, q)
    BY <1>1, <1>6, <2>2, <2>3, EntropyGrows
  <2>5. InScan(b, s, k, p) BY <1>1, <1>5, <2>2, <2>4 DEF InScan
  <2>6. /\ found \in Nat /\ p < found
        /\ Has(found) => Marker(p, found + 1, At(found))
        /\ ~ Has(found) =>
             \A i, n \in Nat : \A m : p <= i /\ n <= Len(bytes) => ~ Marker(i, n, m)
    BY <2>2, MarkerAt
  <2> HIDE DEF found
  <2>7. CASE ~ Has(found)
    <3>1. \A n : ~ IsJpeg(n) BY <2>5, <2>6, <2>7, ScanNoEnd
    <3>2. /\ at' = "err" /\ error' = "TruncatedJpegMarker"
          /\ UNCHANGED <<cursor, in_scan, marker>>
      BY <1>7, <1>11, <2>7 DEF Err
    <3>3. ScanInv' BY <3>1, <3>2, SamePayload DEF ScanInv
    <3> QED BY <1>2, <3>2, <3>3 DEF ScanTypeOK, ScanAt, JpegError
  <2>8. CASE Has(found)
    <3>1. /\ marker' = At(found) /\ cursor' = found + 1
          /\ in_scan' = StaysInScan(marker')
          /\ at' = IF StaysInScan(marker') THEN "marker" ELSE "dispatch"
          /\ error' = error
      BY <1>7, <1>11, <2>8
    <3>2. Marker(p, cursor', marker') /\ cursor' \in Nat /\ p < cursor'
      BY <2>2, <2>6, <2>8, <3>1, SMTT(30)
    <3>3. marker' \in 0 .. 255 /\ cursor' \in 0 .. length
      BY <1>1, <2>6, <2>8, <3>1, AtType, SMTT(30) DEF Has
    <3>4. ScanTypeOK'
      BY <1>1, <1>2, <3>1, <3>3, SMTT(30) DEF ScanTypeOK, ScanAt, StaysInScan
    <3>5. CASE StaysInScan(marker')
      <4>1. at' = "marker" /\ in_scan' BY <3>1, <3>5
      <4>2. Entropy(k, cursor') BY <2>4, <3>2, <3>5 DEF StaysInScan
      <4>3. InScan(b, s, k, cursor') BY <1>1, <1>6, <2>2, <2>5, <3>2, <4>2 DEF InScan
      <4>4. \E b1, k1 \in Nat : \E s1 \in BOOLEAN : InScan(b1, s1, k1, cursor')
        BY <4>3
      <4>5. saw_scan' BY <1>2, <1>3, SMTT(30)
      <4> QED BY <1>3, <3>4, <4>1, <4>4, <4>5, SamePayload DEF ScanInv
    <3>6. CASE ~ StaysInScan(marker')
      <4>1. at' = "dispatch" /\ ~ in_scan' /\ saw_scan' = TRUE
        BY <1>2, <1>3, <3>1, <3>6 DEF ScanTypeOK
      <4>2. Boundary(p, TRUE)
        BY <2>5, <3>2, <3>6, ScanBoundary, Zenon DEF StaysInScan
      <4>3. \E b1 \in Nat : Boundary(b1, saw_scan') /\ Marker(b1, cursor', marker')
        BY <2>2, <3>2, <4>1, <4>2, Zenon
      <4> QED BY <1>3, <3>4, <4>1, <4>3, SamePayload, Zenon DEF ScanInv
    <3> QED BY <3>5, <3>6
  <2> QED BY <2>7, <2>8
<1> QED BY <1>10, <1>11

LEMMA HeaderMarkerStep ==
  ASSUME Payload, ScanInv, ScanTypeOK, HeaderMarker, UNCHANGED <<bytes, stray, length>>
  PROVE  ScanInv' /\ ScanTypeOK'
<1> DEFINE found == AfterFill(cursor + 1)
<1>1. /\ Len(bytes) \in Nat /\ length \in Nat /\ Len(bytes) <= length
      /\ cursor \in Nat /\ cursor <= length
  BY DEF Payload, ScanTypeOK
<1>2. at = "marker" /\ ~ in_scan /\ UNCHANGED <<in_scan, saw_scan, jpeg>>
  BY DEF HeaderMarker
<1>3. Boundary(cursor, saw_scan) /\ At(0) = 255 /\ At(1) = SOI BY <1>2 DEF ScanInv
<1>4. CASE ~ Has(cursor) \/ At(cursor) # 255
  <2>1. \A n \in Nat : \A m : n <= Len(bytes) => ~ Marker(cursor, n, m)
    <3>1. SUFFICES ASSUME NEW n \in Nat, NEW m, n <= Len(bytes), Marker(cursor, n, m)
                   PROVE  FALSE
      OBVIOUS
    <3>2. cursor < n - 1 BY <3>1 DEF Marker, Fill
    <3>3. At(cursor) = 255 BY <3>1, <3>2, <1>1 DEF Marker, Fill
    <3> QED BY <1>1, <1>4, <3>1, <3>2, <3>3 DEF Has
  <2>2. \A n : ~ IsJpeg(n) BY <1>3, <2>1, NoMarker
  <2>3. at' = "err" /\ error' \in JpegError /\ UNCHANGED <<cursor, marker>>
    BY <1>4 DEF HeaderMarker, Err, JpegError
  <2>4. ScanInv' BY <2>2, <2>3, SamePayload DEF ScanInv
  <2> QED BY <1>2, <2>3, <2>4 DEF ScanTypeOK, ScanAt
<1>5. CASE Has(cursor) /\ At(cursor) = 255
  <2>1. /\ found \in Nat /\ cursor < found
        /\ Has(found) => Marker(cursor, found + 1, At(found))
        /\ ~ Has(found) =>
             \A i, n \in Nat : \A m : cursor <= i /\ n <= Len(bytes) => ~ Marker(i, n, m)
    BY <1>1, <1>5, MarkerAt
  <2>2. \/ /\ ~ Has(found) /\ Err("TruncatedJpegMarker") /\ UNCHANGED <<cursor, marker>>
        \/ /\ Has(found) /\ marker' = At(found) /\ cursor' = found + 1
           /\ at' = "dispatch" /\ UNCHANGED error
    BY <1>5 DEF HeaderMarker
  <2> HIDE DEF found
  <2>3. CASE ~ Has(found)
    <3>1. \A n : ~ IsJpeg(n) BY <1>1, <1>3, <2>1, <2>3, NoMarker
    <3>2. at' = "err" /\ error' = "TruncatedJpegMarker" /\ UNCHANGED <<cursor, marker>>
      BY <2>2, <2>3 DEF Err
    <3>3. ScanInv' BY <3>1, <3>2, SamePayload DEF ScanInv
    <3> QED BY <1>2, <3>2, <3>3 DEF ScanTypeOK, ScanAt, JpegError
  <2>4. CASE Has(found)
    <3>1. /\ marker' = At(found) /\ cursor' = found + 1
          /\ at' = "dispatch" /\ error' = error
      BY <2>2, <2>4
    <3>2. marker' \in 0 .. 255 /\ cursor' \in 0 .. length
      BY <1>1, <2>1, <2>4, <3>1, AtType, SMTT(30) DEF Has
    <3>3. \E b \in Nat : Boundary(b, saw_scan') /\ Marker(b, cursor', marker')
      BY <1>1, <1>2, <1>3, <2>1, <2>4, <3>1
    <3>4. ScanInv' BY <1>2, <1>3, <3>1, <3>3, SamePayload DEF ScanInv
    <3> QED BY <1>2, <3>1, <3>2, <3>4 DEF ScanTypeOK, ScanAt
  <2> QED BY <2>3, <2>4
<1> QED BY <1>4, <1>5

LEMMA DispatchStep ==
  ASSUME Payload, ScanInv, ScanTypeOK, Dispatch, UNCHANGED <<bytes, stray, length>>
  PROVE  ScanInv' /\ ScanTypeOK'
<1>1. Len(bytes) \in Nat /\ cursor \in Nat /\ marker \in 0 .. 255 BY DEF Payload, ScanTypeOK
<1>2. at = "dispatch" /\ UNCHANGED <<cursor, in_scan, saw_scan, marker>> BY DEF Dispatch
<1>3. /\ ~ in_scan /\ At(0) = 255 /\ At(1) = SOI
      /\ \E b \in Nat : Boundary(b, saw_scan) /\ Marker(b, cursor, marker)
  BY <1>2 DEF ScanInv
<1>4. PICK b \in Nat : Boundary(b, saw_scan) /\ Marker(b, cursor, marker) BY <1>3
<1>5. marker # 255 BY <1>4 DEF Marker
<1>6. ASSUME marker \notin SegmentMarkers
      PROVE  \A n : IsJpeg(n) => saw_scan /\ n = cursor /\ marker = EOI
  <2>1. \A y \in Nat : ~ Piece(b, y)
    <3>1. SUFFICES ASSUME NEW y \in Nat, Piece(b, y) PROVE FALSE OBVIOUS
    <3>2. PICK c \in Nat : \E m \in SegmentMarkers : Marker(b, c, m) BY <3>1, PieceMarker
    <3> QED BY <3>2, <1>1, <1>4, <1>6, MarkerUnique
  <2>2. SUFFICES ASSUME NEW n, IsJpeg(n) PROVE saw_scan /\ n = cursor /\ marker = EOI
    OBVIOUS
  <2>3. n \in Nat BY <2>2, <1>1 DEF IsJpeg
  <2>4. \A y \in b + 1 .. Len(bytes) : ~ Piece(b, y) BY <2>1
  <2>5. saw_scan /\ Marker(b, n, EOI) BY <1>4, <2>2, <2>4, LastBoundary
  <2> QED BY <2>3, <2>5, <1>1, <1>4, MarkerUnique
<1>7. CASE marker = EOI /\ saw_scan
  <2>1. at' = "ok" /\ jpeg' = cursor /\ error' = error
    BY <1>7 DEF Dispatch, EOI, SOI, Restart
  <2>2. marker \notin SegmentMarkers BY <1>7, SMTT(30) DEF SegmentMarkers
  <2>3. IsJpeg(cursor)
    <3>1. b < cursor - 1 /\ At(cursor - 1) = EOI BY <1>4, <1>7 DEF Marker, Fill
    <3>2. 2 <= b BY <1>4 DEF Boundary
    <3>3. cursor - 1 < Len(bytes) BY <3>1, <3>2, <1>1, AtType DEF EOI
    <3>4. cursor \in 4 .. Len(bytes) /\ b \in 2 .. cursor - 2
      BY <1>1, <3>1, <3>2, <3>3
    <3>5. "scan" \in Reached[b] BY <1>1, <1>4, <1>7, <3>1, <3>3 DEF Boundary
    <3> QED BY <1>3, <1>4, <1>7, <3>4, <3>5 DEF IsJpeg
  <2>4. \A n : IsJpeg(n) => n = cursor BY <1>6, <2>2, SMTT(30)
  <2>5. ScanInv' BY <2>1, <2>3, <2>4, SamePayload, SMTT(30) DEF ScanInv
  <2> QED BY <1>1, <1>2, <2>1, <2>5 DEF ScanTypeOK, ScanAt
<1>8. CASE \/ marker = EOI /\ ~ saw_scan
           \/ marker \in {0, 1, SOI} \cup Restart
  <2>1. at' = "err" /\ error' \in JpegError /\ jpeg' = jpeg
    BY <1>8 DEF Dispatch, Err, EOI, SOI, Restart, JpegError
  <2>2. marker \notin SegmentMarkers BY <1>8 DEF SegmentMarkers
  <2>3. \A n : ~ IsJpeg(n) BY <1>6, <1>8, <2>2 DEF EOI, SOI, Restart
  <2>4. ScanInv' BY <2>1, <2>3, SamePayload DEF ScanInv
  <2> QED BY <1>2, <2>1, <2>4 DEF ScanTypeOK, ScanAt
<1>9. CASE marker \notin {0, 1, SOI, EOI} \cup Restart
  <2>1. at' = "segment" /\ UNCHANGED <<jpeg, error>> BY <1>9 DEF Dispatch
  <2>2. marker \in SegmentMarkers BY <1>1, <1>5, <1>9 DEF SegmentMarkers
  <2>3. \E c \in Nat : Boundary(c, saw_scan') /\ Marker(c, cursor', marker')
    BY <1>2, <1>4, SMTT(30)
  <2>4. ScanInv' BY <1>2, <1>3, <2>1, <2>2, <2>3, SamePayload DEF ScanInv, SegmentMarkers
  <2> QED BY <1>2, <2>1, <2>4 DEF ScanTypeOK, ScanAt
<1> QED BY <1>7, <1>8, <1>9

LEMMA SegmentStep ==
  ASSUME Payload, ScanInv, ScanTypeOK, Segment, UNCHANGED <<bytes, stray, length>>
  PROVE  ScanInv' /\ ScanTypeOK'
<1>1. /\ Len(bytes) \in Nat /\ length \in Nat /\ Len(bytes) <= length
      /\ cursor \in Nat /\ saw_scan \in BOOLEAN
  BY DEF Payload, ScanTypeOK
<1>2. at = "segment" /\ UNCHANGED <<marker, jpeg>> BY DEF Segment
<1>3. marker \in SegmentMarkers /\ At(0) = 255 /\ At(1) = SOI BY <1>2 DEF ScanInv
<1>4. PICK b \in Nat : Boundary(b, saw_scan) /\ Marker(b, cursor, marker)
  BY <1>2 DEF ScanInv
<1>5. /\ At(cursor) \in Nat /\ At(cursor + 1) \in Nat /\ At(cursor + 2) \in Nat
      /\ segment_length = SegmentLength(cursor)
  <2>1. cursor + 1 \in Nat /\ cursor + 2 \in Nat BY <1>1
  <2>2. segment_length = SegmentLength(cursor) BY DEF segment_length, SegmentLength
  <2> QED BY <1>1, <2>1, <2>2, AtNat, Zenon
<1>6. SegmentLength(cursor) \in Nat BY <1>5 DEF SegmentLength
<1>7. \A n : IsJpeg(n) => \E y \in b + 1 .. Len(bytes) : Piece(b, y)
  <2>1. SUFFICES ASSUME NEW n, IsJpeg(n), \A y \in b + 1 .. Len(bytes) : ~ Piece(b, y)
                 PROVE  FALSE
    OBVIOUS
  <2>2. Marker(b, n, EOI) BY <1>4, <2>1, LastBoundary
  <2>3. n \in Nat /\ marker # EOI BY <1>1, <1>3, <2>1 DEF IsJpeg, SegmentMarkers
  <2> QED BY <2>2, <2>3, <1>1, <1>4, MarkerUnique
<1>8. \A y \in Nat : Piece(b, y) =>
        /\ cursor + SegmentLength(cursor) <= y
        /\ SegmentLength(cursor) >= 2 /\ GoodHeader(cursor, marker)
  <2>1. SUFFICES ASSUME NEW y \in Nat, Piece(b, y)
                 PROVE  /\ cursor + SegmentLength(cursor) <= y
                        /\ SegmentLength(cursor) >= 2 /\ GoodHeader(cursor, marker)
    OBVIOUS
  <2>2. CASE marker = SOS
    <3>1. Marker(b, cursor, SOS) BY <1>4, <2>2
    <3> QED BY <1>1, <2>1, <2>2, <3>1, ScanFrom DEF Piece
  <2>3. CASE marker # SOS
    <3>1. marker \in SegmentMarkers \ {SOS} BY <1>3, <2>3
    <3>2. ~ IsScan(b, y) /\
          (IsTables(b, y) <=>
             y = cursor + SegmentLength(cursor) /\ SegmentLength(cursor) >= 2)
      BY <1>1, <1>4, <3>1, TablesFrom, SMTT(30)
    <3> QED BY <1>1, <1>6, <2>1, <2>3, <3>2 DEF Piece, GoodHeader
  <2> QED BY <2>2, <2>3
<1>9. CASE \/ ~ Has(cursor + 1) \/ segment_length < 2 \/ ~ SegmentFits
           \/ marker = SOS /\ (components = 0 \/ segment_length # 2 * components + 6)
  <2>1. /\ at' = "err" /\ error' \in JpegError
        /\ UNCHANGED <<cursor, in_scan, saw_scan>>
    <3>1. ~ (segment_length >= 2 /\ segment_length < 2) BY <1>5, <1>6
    <3> QED BY <1>9, <3>1 DEF Segment, Err, JpegError
  <2>2. ASSUME NEW y \in b + 1 .. Len(bytes), Piece(b, y) PROVE FALSE
    <3>1. y \in Nat /\ y <= length BY <1>1
    <3>2. /\ cursor + SegmentLength(cursor) <= length
          /\ SegmentLength(cursor) >= 2 /\ GoodHeader(cursor, marker)
      BY <1>1, <1>6, <1>8, <2>2, <3>1
    <3>3. Has(cursor + 1) /\ segment_length >= 2 /\ SegmentFits
      BY <1>1, <1>5, <1>6, <3>2 DEF Has, SegmentFits
    <3>4. marker = SOS => components # 0 /\ segment_length = 2 * components + 6
      BY <1>5, <3>2 DEF GoodHeader, components
    <3> QED BY <1>5, <1>6, <1>9, <3>3, <3>4
  <2>3. \A n : ~ IsJpeg(n) BY <1>7, <2>2, SMTT(30)
  <2>4. ScanInv' BY <2>1, <2>3, SamePayload DEF ScanInv
  <2> QED BY <1>2, <2>1, <2>4, SMTT(30) DEF ScanTypeOK, ScanAt
<1>10. CASE /\ Has(cursor + 1) /\ segment_length >= 2 /\ SegmentFits
            /\ marker = SOS => components # 0 /\ segment_length = 2 * components + 6
  <2>1. /\ saw_scan' = (saw_scan \/ marker = SOS) /\ in_scan' = (marker = SOS)
        /\ cursor' = cursor + SegmentLength(cursor)
        /\ at' = "marker" /\ error' = error
    BY <1>5, <1>6, <1>10, SMTT(30) DEF Segment
  <2>2. ScanTypeOK'
    <3>1. cursor' \in 0 .. length BY <1>1, <1>5, <1>6, <1>10, <2>1, SMTT(30) DEF SegmentFits
    <3> QED BY <1>2, <2>1, <3>1 DEF ScanTypeOK, ScanAt
  <2>3. CASE marker = SOS
    <3>1. Marker(b, cursor, SOS) BY <1>4, <2>3
    <3>2. GoodHeader(cursor, SOS) BY <1>5, <1>10, <2>3 DEF GoodHeader, components
    <3>3. cursor' \in Nat /\ IsSegment(b, cursor', SOS)
      BY <1>1, <1>5, <1>6, <1>10, <2>1, <3>1, <3>2, SegmentFrom
    <3>4. b < cursor' BY <1>1, <1>4, <1>6, <2>1 DEF Marker, Fill
    <3>5. \A k \in Nat : Entropy(k, k) BY DEF Entropy
    <3>6. InScan(b, saw_scan, cursor', cursor') BY <1>4, <3>3, <3>4, <3>5 DEF InScan
    <3>7. \E b1, k1 \in Nat : \E s1 \in BOOLEAN : InScan(b1, s1, k1, cursor')
      BY <1>1, <3>3, <3>6, SMTT(30)
    <3> QED BY <1>3, <2>1, <2>2, <2>3, <3>7, SamePayload, ZenonT(30) DEF ScanInv
  <2>4. CASE marker # SOS
    <3>1. marker \in SegmentMarkers \ {SOS} BY <1>3, <2>4
    <3>2. Boundary(cursor + SegmentLength(cursor), saw_scan)
      BY <1>1, <1>4, <1>5, <1>6, <1>10, <3>1, TablesBoundary
    <3>3. saw_scan' = saw_scan /\ ~ in_scan' BY <1>1, <2>1, <2>4, Zenon
    <3>4. Boundary(cursor', saw_scan') BY <2>1, <3>2, <3>3
    <3> QED BY <1>3, <2>1, <2>2, <3>3, <3>4, SamePayload DEF ScanInv
  <2> QED BY <2>3, <2>4, SMTT(30)
<1> QED BY <1>9, <1>10, <1>5, <1>6

\* Padding is a zero byte from the end of the metadata on.
ZeroFrom(i) == ~ \E k \in i .. length - 1 : At(k) # 0

\* What parse_frame_envelope accepts behind a JPEG of n bytes: the metadata,
\* less than one packet of zeros, and whole packets.
LEMMA LayoutAccepts ==
  ASSUME length \in Nat, NEW n \in Nat,
         NEW size \in {HIGH_SPEED_MAX_PACKET_SIZE, SUPER_SPEED_MAX_PACKET_SIZE}
  PROVE  EnvelopeLayout(n, size) = "frame" <=>
           /\ n + JPEG_DECODER_METADATA_SIZE <= length
           /\ length - (n + JPEG_DECODER_METADATA_SIZE) < size
           /\ ZeroFrom(n + JPEG_DECODER_METADATA_SIZE)
           /\ length % size = 0
<1> DEFINE end == n + JPEG_DECODER_METADATA_SIZE
<1>1. end \in Nat BY DEF JPEG_DECODER_METADATA_SIZE
<1>2. EnvelopeLayout(n, size) = "frame" <=>
        /\ end <= length
        /\ length - end < size
        /\ ZeroFrom(end)
        /\ length = align_payload_length(end, size)
  <2> HIDE DEF end
  <2>1. size \in Nat
    BY DEF HIGH_SPEED_MAX_PACKET_SIZE, SUPER_SPEED_MAX_PACKET_SIZE
  <2> QED BY <1>1, <2>1 DEF EnvelopeLayout, ZeroFrom, end
<1>3. ASSUME end <= length, length - end < size
      PROVE  length = align_payload_length(end, size) <=> length % size = 0
  <2> HIDE DEF end
  <2>1. CASE size = 512 BY <1>1, <1>3, <2>1 DEF align_payload_length
  <2>2. CASE size = 1024 BY <1>1, <1>3, <2>2 DEF align_payload_length
  <2> QED BY <2>1, <2>2 DEF HIGH_SPEED_MAX_PACKET_SIZE, SUPER_SPEED_MAX_PACKET_SIZE
<1> QED BY <1>2, <1>3

\* decode's guess of the bus speed from the payload's length is as good as
\* knowing it: a JPEG's envelope is accepted with the guessed packet size
\* exactly when it is accepted with one of the two sizes there are.
THEOREM SpeedGuess ==
  ASSUME length \in Nat, NEW n \in Nat
  PROVE  EnvelopeLayout(n, max_packet_size) = "frame" <=>
           \/ EnvelopeLayout(n, HIGH_SPEED_MAX_PACKET_SIZE) = "frame"
           \/ EnvelopeLayout(n, SUPER_SPEED_MAX_PACKET_SIZE) = "frame"
<1> DEFINE end == n + JPEG_DECODER_METADATA_SIZE
           Accepted(size) == /\ end <= length
                             /\ length - end < size
                             /\ ZeroFrom(end)
                             /\ length % size = 0
<1>1. end \in Nat BY DEF JPEG_DECODER_METADATA_SIZE
<1>2. EnvelopeLayout(n, HIGH_SPEED_MAX_PACKET_SIZE) = "frame" <=> Accepted(512)
  BY LayoutAccepts DEF HIGH_SPEED_MAX_PACKET_SIZE
<1>3. EnvelopeLayout(n, SUPER_SPEED_MAX_PACKET_SIZE) = "frame" <=> Accepted(1024)
  BY LayoutAccepts DEF SUPER_SPEED_MAX_PACKET_SIZE
<1>4. Accepted(1024) => length % 1024 = 0 OBVIOUS
<1>5. length % 1024 = 0 /\ Accepted(512) => Accepted(1024)
  <2> HIDE DEF end
  <2> QED BY <1>1
<1>6. CASE length % 1024 = 0
  BY <1>2, <1>3, <1>5, <1>6 DEF max_packet_size, SUPER_SPEED_MAX_PACKET_SIZE
<1>7. CASE length % 1024 # 0
  BY <1>2, <1>3, <1>4, <1>7, SMTT(30) DEF max_packet_size, SUPER_SPEED_MAX_PACKET_SIZE
<1> QED BY <1>6, <1>7

-----------------------------------------------------------------------------
(* decode *)

\* decode leaves the JPEG to parse_jpeg_end and judges what it returns.
Verdict ==
  /\ pc \in {"header", "frame", "ack", "request", "modes"} => at = "idle"
  /\ pc = "done" /\ at = "ok" => outcome = EnvelopeLayout(jpeg, max_packet_size)
  /\ pc = "done" /\ at = "err" => outcome # "frame"
  /\ outcome # "none" => pc = "done"

\* The modes collected are the rows looked at so far, and the next row is not
\* one of them when the list is returned.
Collected ==
  /\ row \in 0 .. 256
  /\ modes = [i \in 1 .. row |-> Row(i - 1)]
  /\ \A i \in 0 .. row - 1 : 16 * (i + 1) <= length /\ plausible(Row(i))
  /\ outcome = "modes" => ~ IsRow(row) \/ ~ plausible(Row(row))

\* The way of a request through decode.
RequestPath ==
  packet \in Built =>
    /\ pc \in {"header", "request", "done"}
    /\ pc = "done" => outcome = "request"

PcOK == pc \in {"header", "frame", "ack", "request", "modes", "jpeg", "done"}

DecodeInv ==
  Payload /\ ScanTypeOK /\ PcOK /\ ScanInv /\ Verdict /\ Collected /\ RequestPath

\* What parse_header and parse_canonical_command_request see of a built request.
LEMMA BuiltIs ==
  ASSUME packet \in Built
  PROVE  /\ ~ (packet.len < 21) /\ packet.magic
         /\ packet.word16 # "frame" /\ packet.word16 # "ack"
         /\ packet.word12 = packet.len /\ packet.word16 = "command"
BY DEF Built, build_bulk_heartbeat_request, build_capabilities_request,
       build_zeroed_request, Packet, HEADER_SIZE, HEARTBEAT_SIZE

LEMMA InitDecode == Init => DecodeInv
<1> SUFFICES ASSUME Init PROVE DecodeInv OBVIOUS
<1>1. /\ packet.len \in Nat /\ packet.payload \in Seq(0 .. 255)
      /\ packet.payload = <<>> \/ HEADER_SIZE + Len(packet.payload) <= packet.len
  <2>1. CASE packet \in Packets BY <2>1, PacketAssumption
  <2>2. CASE packet \in Built
    <3>1. packet.len \in Nat /\ packet.payload = <<>>
      BY <2>2 DEF Built, build_bulk_heartbeat_request, build_capabilities_request,
                  build_zeroed_request, Packet, HEADER_SIZE, HEARTBEAT_SIZE
    <3> QED BY <3>1, SMTT(30)
  <2> QED BY <2>1, <2>2 DEF Init
<1>2. bytes = packet.payload /\ length = Max({0, packet.len - HEADER_SIZE}) BY DEF Init
<1>3. length \in Nat /\ packet.len - HEADER_SIZE <= length
  <2>1. packet.len - HEADER_SIZE \in Int BY <1>1 DEF HEADER_SIZE
  <2>2. \A x \in Int : Max({0, x}) \in Nat /\ x <= Max({0, x})
    <3>1. SUFFICES ASSUME NEW x \in Int PROVE Max({0, x}) \in Nat /\ x <= Max({0, x})
      OBVIOUS
    <3>2. \E y \in {0, x} : \A z \in {0, x} : y >= z OBVIOUS
    <3>3. Max({0, x}) \in {0, x} /\ \A z \in {0, x} : Max({0, x}) >= z
      BY <3>2 DEF Max
    <3> QED BY <3>3
  <2> QED BY <1>2, <2>1, <2>2
<1>4. Payload
  <2>1. Len(bytes) \in Nat /\ (bytes = <<>> => Len(bytes) = 0) BY <1>1, <1>2
  <2>2. Len(bytes) <= length BY <1>1, <1>2, <1>3, <2>1 DEF HEADER_SIZE
  <2> QED BY <1>1, <1>2, <1>3, <2>2 DEF Payload
<1>5. ScanTypeOK
  <2>1. /\ cursor = 0 /\ in_scan = FALSE /\ saw_scan = FALSE /\ marker = 0
        /\ at = "idle" /\ jpeg = 0 /\ error = "none"
    BY DEF Init
  <2>2. length \in Nat /\ Len(bytes) \in Nat /\ Len(bytes) <= length BY <1>4 DEF Payload
  <2>3. length >= Len(bytes) /\ 0 \in 0 .. length /\ 0 \in 0 .. 255 BY <2>2
  <2> QED BY <2>1, <2>2, <2>3, Zenon DEF ScanTypeOK, ScanAt
<1>6. ScanInv BY DEF Init, ScanInv
<1>7. Collected
  <2>1. row = 0 /\ modes = <<>> /\ outcome = "none" BY DEF Init
  <2>2. <<>> = [i \in 1 .. 0 |-> Row(i - 1)] OBVIOUS
  <2> QED BY <2>1, <2>2 DEF Collected
<1>8. PcOK /\ Verdict /\ RequestPath BY DEF Init, PcOK, Verdict, RequestPath
<1> QED BY <1>4, <1>5, <1>6, <1>7, <1>8 DEF DecodeInv

LEMMA ScanStep ==
  ASSUME Payload, ScanInv, ScanTypeOK, parse_jpeg_end
  PROVE  ScanInv' /\ ScanTypeOK'
BY StartStep, ScanMarkerStep, HeaderMarkerStep, DispatchStep, SegmentStep
   DEF parse_jpeg_end

\* Steps outside parse_jpeg_end.
LEMMA QuietScan ==
  ASSUME ScanInv, ScanTypeOK, UNCHANGED <<bytes, stray, length, scanVars>>
  PROVE  ScanInv' /\ ScanTypeOK'
<1>1. UNCHANGED <<bytes, stray, length>> /\ UNCHANGED <<cursor, in_scan, saw_scan>>
      /\ UNCHANGED <<marker, at, jpeg, error>>
  BY DEF scanVars
<1>2. ScanTypeOK' BY <1>1, SMTT(30) DEF ScanTypeOK
<1>3. ScanInv' BY <1>1, SamePayload DEF ScanInv
<1> QED BY <1>2, <1>3

\* Nothing decode reports about a frame is a list of modes.
LEMMA LayoutReports == EnvelopeLayout(jpeg, max_packet_size) \notin {"modes", "none"}
BY SMTT(30) DEF EnvelopeLayout

LEMMA QuietModes ==
  ASSUME Collected, UNCHANGED <<packet, length, row, modes>>,
         outcome' = outcome \/ outcome' # "modes"
  PROVE  Collected'
BY DEF Collected, Row, IsRow

LEMMA ParseRowStep ==
  ASSUME DecodeInv, ParseRow
  PROVE  DecodeInv'
<1>1. UNCHANGED <<packet, bytes, stray, length, scanVars>> /\ pc = "modes" BY DEF ParseRow
<1>2. Payload' /\ ScanInv' /\ ScanTypeOK'
  BY <1>1, QuietScan, SamePayload DEF DecodeInv
<1>3. at = "idle" /\ at' = "idle" /\ outcome = "none"
  BY <1>1 DEF DecodeInv, Verdict, scanVars
<1>4. PcOK' /\ Verdict' /\ RequestPath'
  BY <1>1, <1>3 DEF ParseRow, DecodeInv, PcOK, Verdict, RequestPath, Report
<1>5. /\ row \in 0 .. 256
      /\ modes = [i \in 1 .. row |-> Row(i - 1)]
      /\ \A i \in 0 .. row - 1 : 16 * (i + 1) <= length /\ plausible(Row(i))
  BY DEF DecodeInv, Collected
<1>6. length' = length /\ \A i : Row(i)' = Row(i) BY <1>1 DEF Row
<1>7. CASE IsRow(row) /\ plausible(Row(row)) /\ Row(row) # ZeroRow
  <2>1. modes' = Append(modes, Row(row)) /\ row' = row + 1 /\ outcome' = outcome
    BY <1>7 DEF ParseRow
  <2>2. row < 256 /\ 16 * (row + 1) <= length BY <1>7 DEF IsRow
  <2>3. row' \in 0 .. 256 BY <1>5, <2>1, <2>2
  <2>4. modes' = [i \in 1 .. row + 1 |-> Row(i - 1)]
    <3> DEFINE S == {Row(i) : i \in Int}
               A == Append(modes, Row(row))
    <3>1. modes \in [1 .. row -> S] /\ Row(row) \in S
      <4>1. row \in Int /\ \A i \in 1 .. row : i - 1 \in Int BY <1>5
      <4>2. Row(row) \in S /\ \A i \in 1 .. row : Row(i - 1) \in S BY <4>1, Zenon
      <4> HIDE DEF S
      <4> QED BY <1>5, <4>2
    <3>2. row \in Nat /\ (row + 1) - 1 = row BY <1>5
    <3>3. modes \in Seq(S) /\ Len(modes) = row BY <3>1, <3>2
    <3> HIDE DEF S
    <3>4. /\ A \in Seq(S) /\ Len(A) = row + 1
          /\ \A i \in 1 .. row : A[i] = modes[i]
          /\ A[row + 1] = Row(row)
      BY <3>1, <3>2, <3>3
    <3> HIDE DEF A
    <3>5. A = [i \in 1 .. row + 1 |-> A[i]] BY <3>4
    <3>6. ASSUME NEW i \in 1 .. row + 1 PROVE A[i] = Row(i - 1)
      <4>1. CASE i = row + 1 BY <3>2, <3>4, <4>1
      <4>2. CASE i # row + 1
        <5>1. i \in 1 .. row BY <3>2, <4>2
        <5> QED BY <1>5, <3>4, <5>1
      <4> QED BY <4>1, <4>2
    <3>7. A = [i \in 1 .. row + 1 |-> Row(i - 1)] BY <3>5, <3>6
    <3> QED BY <2>1, <3>7 DEF A
  <2>5. \A i \in 0 .. (row + 1) - 1 : 16 * (i + 1) <= length /\ plausible(Row(i))
    <3>1. SUFFICES ASSUME NEW i \in 0 .. (row + 1) - 1
                   PROVE  16 * (i + 1) <= length /\ plausible(Row(i))
      OBVIOUS
    <3>2. i = row \/ i \in 0 .. row - 1 BY <1>5
    <3> QED BY <1>5, <1>7, <2>2, <3>2, Zenon
  <2>6. Collected'
    BY <1>3, <1>6, <2>1, <2>3, <2>4, <2>5, SMTT(30) DEF Collected, plausible
  <2> QED BY <1>2, <1>4, <2>6 DEF DecodeInv
<1>8. CASE ~ IsRow(row) \/ ~ plausible(Row(row)) \/ Row(row) = ZeroRow
  <2>1. UNCHANGED <<row, modes>> BY <1>8 DEF ParseRow
  <2>2. ~ plausible(ZeroRow) BY DEF plausible, ZeroRow, Mode
  <2>3. ~ IsRow(row) \/ ~ plausible(Row(row)) BY <1>8, <2>2, SMTT(30)
  <2>4. Collected'
    BY <1>1, <1>5, <1>6, <2>1, <2>3 DEF Collected, IsRow, Row
  <2> QED BY <1>2, <1>4, <2>4 DEF DecodeInv
<1> QED BY <1>7, <1>8

LEMMA DecodeStep == DecodeInv /\ [Next]_vars => DecodeInv'
<1> SUFFICES ASSUME DecodeInv, [Next]_vars PROVE DecodeInv' OBVIOUS
<1>1. ASSUME UNCHANGED <<packet, bytes, stray, length, scanVars, row, modes>>
      PROVE  /\ Payload' /\ ScanInv' /\ ScanTypeOK' /\ at' = at
             /\ outcome' = outcome \/ outcome' # "modes" => Collected'
  <2>1. Payload' /\ ScanInv' /\ ScanTypeOK' BY <1>1, QuietScan, SamePayload DEF DecodeInv
  <2> QED BY <1>1, <2>1, QuietModes DEF DecodeInv, scanVars
<1>2. CASE ParseHeader
  <2>1. PcOK' /\ Verdict' /\ outcome' # "modes"
    BY <1>2, SMTT(30) DEF ParseHeader, DecodeInv, PcOK, Verdict, Report, scanVars
  <2>2. RequestPath'
    <3>1. UNCHANGED packet /\ RequestPath BY <1>2 DEF ParseHeader, DecodeInv
    <3>2. packet \in Built => UNCHANGED outcome /\ pc' = "request"
      BY <1>2, BuiltIs, Zenon DEF ParseHeader
    <3> QED BY <3>1, <3>2 DEF RequestPath, Built
  <2> QED BY <1>1, <1>2, <2>1, <2>2, SMTT(30) DEF ParseHeader, DecodeInv
<1>3. CASE ParseAck
  <2>1. PcOK' /\ Verdict' /\ RequestPath' /\ outcome' # "modes"
    BY <1>3, SMTT(30) DEF ParseAck, DecodeInv, PcOK, Verdict, RequestPath, Report, scanVars
  <2> QED BY <1>1, <1>3, <2>1, SMTT(30) DEF ParseAck, DecodeInv
<1>4. CASE ParseRequest
  <2>1. PcOK' /\ Verdict' /\ outcome' # "modes"
    BY <1>4, SMTT(30) DEF ParseRequest, DecodeInv, PcOK, Verdict, Report, scanVars
  <2>2. RequestPath'
    <3>1. UNCHANGED packet BY <1>4 DEF ParseRequest
    <3>2. packet \in Built => outcome' = "request" /\ pc' = "done"
      BY <1>4, BuiltIs, Zenon DEF ParseRequest, Report
    <3> QED BY <3>1, <3>2 DEF RequestPath, Built
  <2> QED BY <1>1, <1>4, <2>1, <2>2, SMTT(30) DEF ParseRequest, DecodeInv
<1>5. CASE ParseRow BY <1>5, ParseRowStep
<1>6. CASE EnvelopeHeader
  <2>1. /\ UNCHANGED <<packet, bytes, stray, length, row, modes>>
        /\ UNCHANGED <<cursor, in_scan, saw_scan, marker, jpeg, error>>
        /\ pc = "frame"
    BY <1>6, SMTT(30) DEF EnvelopeHeader
  <2>2. at = "idle" /\ at' \in {"idle", "start"} /\ outcome = "none"
    BY <1>6, <2>1, SMTT(30) DEF EnvelopeHeader, DecodeInv, Verdict
  <2>3. ScanInv' BY <2>1, <2>2, SMTT(30) DEF DecodeInv, ScanInv
  <2>4. ScanTypeOK' BY <2>1, <2>2 DEF DecodeInv, ScanTypeOK, ScanAt
  <2>5. Payload' BY <2>1, SamePayload, SMTT(30) DEF DecodeInv
  <2>6. PcOK' /\ Verdict' /\ RequestPath' /\ outcome' # "modes"
    BY <1>6, <2>1, <2>2, SMTT(30)
       DEF EnvelopeHeader, DecodeInv, PcOK, Verdict, RequestPath, Report
  <2>7. Collected' BY <2>1, <2>6, QuietModes DEF DecodeInv
  <2> QED BY <2>3, <2>4, <2>5, <2>6, <2>7, SMTT(30) DEF DecodeInv
<1>7. CASE ParseJpeg
  <2>1. /\ UNCHANGED <<packet, row, modes, pc, outcome>> /\ pc = "jpeg"
        /\ parse_jpeg_end /\ UNCHANGED <<bytes, stray, length>>
    BY <1>7, SMTT(30) DEF ParseJpeg, parse_jpeg_end
  <2>2. ScanInv' /\ ScanTypeOK' /\ Payload'
    BY <2>1, ScanStep, SamePayload DEF DecodeInv
  <2>3. Collected' BY <2>1, QuietModes DEF DecodeInv
  <2>4. PcOK' /\ Verdict' /\ RequestPath'
    BY <2>1, SMTT(30) DEF DecodeInv, PcOK, Verdict, RequestPath
  <2> QED BY <2>2, <2>3, <2>4 DEF DecodeInv
<1>8. CASE EnvelopeTail
  <2>1. /\ UNCHANGED <<packet, bytes, stray, length, scanVars, row, modes>>
        /\ pc = "jpeg" /\ pc' = "done"
        /\ \/ at = "err" /\ outcome' = error
           \/ at = "ok" /\ outcome' = EnvelopeLayout(jpeg, max_packet_size)
    BY <1>8 DEF EnvelopeTail, Report
  <2>2. error \notin {"frame", "modes"} BY DEF DecodeInv, ScanTypeOK, JpegError
  <2>3. outcome' # "modes" BY <2>1, <2>2, LayoutReports
  <2>4. EnvelopeLayout(jpeg, max_packet_size)' = EnvelopeLayout(jpeg, max_packet_size)
    BY <2>1, ZenonT(30) DEF EnvelopeLayout, max_packet_size, At, scanVars
  <2>5. Verdict' BY <1>1, <2>1, <2>2, <2>4, SMTT(30) DEF Verdict
  <2>6. PcOK' /\ RequestPath' BY <2>1, SMTT(30) DEF DecodeInv, PcOK, RequestPath
  <2> QED BY <1>1, <2>1, <2>3, <2>5, <2>6, SMTT(30) DEF DecodeInv
<1>9. CASE Done \/ UNCHANGED vars
  <2>1. /\ UNCHANGED <<packet, bytes, stray, length, scanVars, row, modes>>
        /\ UNCHANGED <<pc, outcome>>
    BY <1>9 DEF Done, vars
  <2>2. EnvelopeLayout(jpeg, max_packet_size)' = EnvelopeLayout(jpeg, max_packet_size)
    BY <2>1, ZenonT(30) DEF EnvelopeLayout, max_packet_size, At, scanVars
  <2>3. Verdict' BY <1>1, <2>1, <2>2 DEF DecodeInv, Verdict
  <2>4. PcOK' /\ RequestPath' BY <2>1 DEF DecodeInv, PcOK, RequestPath
  <2> QED BY <1>1, <2>1, <2>3, <2>4, SMTT(30) DEF DecodeInv
<1> QED BY <1>2, <1>3, <1>4, <1>5, <1>6, <1>7, <1>8, <1>9 DEF Next, decode

LEMMA DecodeInvariance == Spec => []DecodeInv
BY InitDecode, DecodeStep, PTL DEF Spec

\* Every slice and index of decode and parse_jpeg_end is in bounds.
THEOREM Types == Spec => []TypeOK
<1>1. DecodeInv => TypeOK
  <2>1. SUFFICES ASSUME DecodeInv PROVE TypeOK OBVIOUS
  <2>2. row \in 0 .. 256 /\ modes = [i \in 1 .. row |-> Row(i - 1)]
    BY <2>1 DEF DecodeInv, Collected
  <2>3. Len(modes) = row BY <2>2
  <2>4. Len(modes) <= row BY <2>2, <2>3, SMTT(30)
  <2> QED BY <2>1, <2>2, <2>4 DEF DecodeInv, TypeOK, PcOK
<1> QED BY <1>1, DecodeInvariance, PTL

\* parse_jpeg_end finds the structural end of the JPEG at the start of every
\* payload that has one, and fails on every other.
THEOREM StructuralEnd == Spec => []EndIsStructural
<1>1. DecodeInv => EndIsStructural BY DEF DecodeInv, ScanInv, EndIsStructural
<1> QED BY <1>1, DecodeInvariance, PTL

\* decode accepts exactly the frames of the two bus speeds.
THEOREM ExactlyFrames == Spec => []AcceptsExactlyFrames
<1>1. DecodeInv => AcceptsExactlyFrames
  <2>1. SUFFICES ASSUME DecodeInv, pc = "done", at \in {"ok", "err"}
                 PROVE  outcome = "frame" <=>
                          \/ IsFrame(HIGH_SPEED_MAX_PACKET_SIZE)
                          \/ IsFrame(SUPER_SPEED_MAX_PACKET_SIZE)
    BY DEF AcceptsExactlyFrames
  <2>2. CASE at = "err"
    <3>1. \A n : ~ IsJpeg(n) BY <2>1, <2>2 DEF DecodeInv, ScanInv
    <3>2. \A size : ~ IsFrame(size) BY <3>1, Zenon DEF IsFrame
    <3>3. outcome # "frame" BY <2>1, <2>2 DEF DecodeInv, Verdict
    <3> QED BY <3>2, <3>3
  <2>3. CASE at = "ok"
    <3>1. IsJpeg(jpeg) /\ \A n : IsJpeg(n) => n = jpeg
      BY <2>1, <2>3, SMTT(30) DEF DecodeInv, ScanInv
    <3>2. length \in Nat /\ jpeg \in Nat /\ jpeg \in 4 .. Len(bytes)
      BY <2>1, <3>1, SMTT(30) DEF DecodeInv, ScanTypeOK, IsJpeg
    <3>3. ASSUME NEW size \in {HIGH_SPEED_MAX_PACKET_SIZE, SUPER_SPEED_MAX_PACKET_SIZE}
          PROVE  IsFrame(size) <=> EnvelopeLayout(jpeg, size) = "frame"
      <4> DEFINE end == jpeg + JPEG_DECODER_METADATA_SIZE
      <4>1. size \in Nat /\ end \in Nat /\ JPEG_DECODER_METADATA_SIZE \in Nat
        BY <3>2 DEF HIGH_SPEED_MAX_PACKET_SIZE, SUPER_SPEED_MAX_PACKET_SIZE,
                    JPEG_DECODER_METADATA_SIZE
      <4>2. IsFrame(size) <=>
              /\ length - jpeg - JPEG_DECODER_METADATA_SIZE \in 0 .. size - 1
              /\ length % size = 0
              /\ \A i \in end .. length - 1 : At(i) = 0
        BY <3>1, <3>2, Zenon DEF IsFrame
      <4>3. length - jpeg - JPEG_DECODER_METADATA_SIZE \in 0 .. size - 1 <=>
              end <= length /\ length - end < size
        BY <3>2, <4>1
      <4>4. EnvelopeLayout(jpeg, size) = "frame" <=>
              /\ end <= length /\ length - end < size
              /\ ZeroFrom(end) /\ length % size = 0
        BY <3>2, LayoutAccepts
      <4> HIDE DEF end
      <4> QED BY <4>2, <4>3, <4>4 DEF ZeroFrom
    <3>4. outcome = EnvelopeLayout(jpeg, max_packet_size)
      BY <2>1, <2>3 DEF DecodeInv, Verdict
    <3> QED BY <3>2, <3>3, <3>4, SpeedGuess
  <2> QED BY <2>1, <2>2, <2>3
<1> QED BY <1>1, DecodeInvariance, PTL

\* The mode list of a response is its longest prefix of plausible rows.
THEOREM ModeList == Spec => []ModesBeforeTrailer
<1>1. DecodeInv => ModesBeforeTrailer
  <2>1. SUFFICES ASSUME DecodeInv PROVE ModesBeforeTrailer OBVIOUS
  <2>2. /\ row \in 0 .. 256
        /\ modes = [i \in 1 .. row |-> Row(i - 1)]
        /\ \A i \in 0 .. row - 1 : 16 * (i + 1) <= length /\ plausible(Row(i))
        /\ outcome = "modes" => ~ IsRow(row) \/ ~ plausible(Row(row))
    BY <2>1 DEF DecodeInv, Collected
  <2>3. Len(modes) = row BY <2>2
  <2>4. ASSUME outcome = "modes", row # 256
        PROVE  \E i \in 0 .. (row + 1) - 1 : ~ (16 * (i + 1) <= length /\ plausible(Row(i)))
    <3>1. row \in 0 .. (row + 1) - 1 BY <2>2
    <3>2. ~ (16 * (row + 1) <= length /\ plausible(Row(row)))
      BY <2>2, <2>4 DEF IsRow
    <3> QED BY <3>1, <3>2
  <2>5. Len(modes) <= 256 BY <2>2, <2>3
  <2>6. modes = [i \in 1 .. Len(modes) |-> Row(i - 1)] BY <2>2, <2>3
  <2> QED BY <2>2, <2>3, <2>4, <2>5, <2>6, ZenonT(30) DEF ModesBeforeTrailer
<1> QED BY <1>1, DecodeInvariance, PTL

\* Every request the builders emit is decoded as a request, and a heartbeat's
\* tag that is let in leaves room for its terminating zero.
THEOREM RequestsParse == Spec => []BuiltRequestsParse
<1>1. ASSUME NEW d \in 0 .. 9, NEW tag \in {10^d - 1, 10^d}
      PROVE  TagFits(tag) <=> TagEnd(tag) < HEARTBEAT_SIZE
  <2>1. tag \in Nat /\ tag \div 10^(10 - 1) < 10
    <3>1. 10^d \in Nat /\ 1 <= 10^d /\ 10^d <= 1000000000
      <4>0. CASE d = 0
        <5>1. 10^d = 10^0 BY <4>0, Zenon
        <5> QED BY <5>1, SMT
      <4>1. CASE d = 1
        <5>1. 10^d = 10^1 BY <4>1, Zenon
        <5> QED BY <5>1, SMT
      <4>2. CASE d = 2
        <5>1. 10^d = 10^2 BY <4>2, Zenon
        <5> QED BY <5>1, SMT
      <4>3. CASE d = 3
        <5>1. 10^d = 10^3 BY <4>3, Zenon
        <5> QED BY <5>1, SMT
      <4>4. CASE d = 4
        <5>1. 10^d = 10^4 BY <4>4, Zenon
        <5> QED BY <5>1, SMT
      <4>5. CASE d = 5
        <5>1. 10^d = 10^5 BY <4>5, Zenon
        <5> QED BY <5>1, SMT
      <4>6. CASE d = 6
        <5>1. 10^d = 10^6 BY <4>6, Zenon
        <5> QED BY <5>1, SMT
      <4>7. CASE d = 7
        <5>1. 10^d = 10^7 BY <4>7, Zenon
        <5> QED BY <5>1, SMT
      <4>8. CASE d = 8
        <5>1. 10^d = 10^8 BY <4>8, Zenon
        <5> QED BY <5>1, SMT
      <4>9. CASE d = 9
        <5>1. 10^d = 10^9 BY <4>9, Zenon
        <5> QED BY <5>1, SMT
      <4> QED BY <4>0, <4>1, <4>2, <4>3, <4>4, <4>5, <4>6, <4>7, <4>8, <4>9, SMTT(30)
    <3>2. tag \in Nat /\ tag <= 1000000000 BY <3>1, SMTT(30)
    <3>3. tag \div 10^(10 - 1) < 10 BY <3>2, SMTT(30)
    <3> QED BY <3>2, <3>3, SMTT(30)
  <2> DEFINE T == {e \in 1 .. 10 : tag \div 10^(e - 1) < 10}
  <2>2. T \in SUBSET Nat /\ 10 \in T BY <2>1
  <2> HIDE DEF T
  <2>3. Min(T) \in T BY <2>2, MinIs
  <2>4. Min(T) \in Nat BY <2>2, <2>3
  <2>5. Digits(tag) = Min(T) BY DEF Digits, T
  <2> QED BY <2>4, <2>5
      DEF TagFits, TagEnd, HEARTBEAT_SIZE, HEARTBEAT_TAG_OFFSET, HEARTBEAT_TAG_CAPACITY
<1>2. DecodeInv => BuiltRequestsParse
  BY <1>1 DEF DecodeInv, RequestPath, BuiltRequestsParse
<1> QED BY <1>2, DecodeInvariance, PTL
=============================================================================
