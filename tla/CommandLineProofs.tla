--------------------------- MODULE CommandLineProofs ---------------------------
(***************************************************************************)
(* Theorems about main: the hexadecimal input it decodes, the options it   *)
(* accepts and the simulation it runs with them, for every argument list,  *)
(* input and limit.                                                        *)
(***************************************************************************)
EXTENDS CommandLine, WellFoundedInduction, TLAPS

\* A set of naturals that is not empty has a least element.
LEMMA Least ==
  ASSUME NEW T \in SUBSET Nat, T # {}
  PROVE  \E m \in T : \A n \in T : m <= n
<1> DEFINE R == OpToRel(<, Nat)
<1>1. IsWellFoundedOn(R, Nat) BY NatLessThanWellFounded, Zenon
<1>2. \A x, y \in Nat : <<y, x>> \in R <=> y < x BY DEF OpToRel
<1> HIDE DEF R
<1>3. PICK m \in T : \A y \in T : ~ (<<y, m>> \in R) BY <1>1, WFMin, Zenon
<1>4. \A y \in T : ~ (y < m) BY <1>3, <1>2, Zenon
<1> QED BY <1>4

LEMMA ElementIs == ASSUME NEW S, NEW s \in Seq(S), NEW i \in 1 .. Len(s) PROVE s[i] \in S
OBVIOUS

LEMMA RestIs ==
  ASSUME NEW S, NEW s \in Seq(S), NEW m \in Nat, 1 <= m, m <= Len(s) + 1
  PROVE  LET r == SubSeq(s, m, Len(s))
         IN  /\ r \in Seq(S) /\ Len(r) = Len(s) + 1 - m
             /\ \A k \in 1 .. Len(r) : r[k] = s[m + k - 1]
<1> DEFINE r == SubSeq(s, m, Len(s))
<1>1. r \in Seq(S) /\ Len(r) = Len(s) + 1 - m OBVIOUS
<1>2. \A k \in 1 .. Len(s) + 1 - m : r[k] = s[m + k - 1] OBVIOUS
<1> QED BY <1>1, <1>2

-----------------------------------------------------------------------------
(* parse_hex *)

NibblesStep(f, t, i) ==
  IF i = 0 THEN <<>>
  ELSE IF t[i] = Separator THEN f[i - 1] ELSE Append(f[i - 1], t[i])

Collects(f, t, n) == f = [i \in 0 .. n |-> NibblesStep(f, t, i)]

\* The loop over the characters has a result on every part of the input.
LEMMA CollectsExists ==
  ASSUME NEW t, NEW n \in Nat
  PROVE  \E f : Collects(f, t, n)
<1> DEFINE T == {k \in Nat : ~ \E f : Collects(f, t, k)}
<1>1. SUFFICES ASSUME T # {} PROVE FALSE OBVIOUS
<1>2. T \in SUBSET Nat OBVIOUS
<1> HIDE DEF T
<1>3. PICK m \in T : \A k \in T : m <= k BY <1>1, <1>2, Least
<1>4. m \in Nat /\ ~ \E f : Collects(f, t, m) BY <1>3 DEF T
<1>5. CASE m = 0
  <2> DEFINE f == [i \in 0 .. m |-> <<>>]
  <2>1. \A i \in 0 .. m : i = 0 BY <1>5
  <2>2. f = [i \in 0 .. m |-> NibblesStep(f, t, i)] BY <2>1, Zenon DEF NibblesStep
  <2> QED BY <2>2, <1>4 DEF Collects
<1>6. CASE m # 0
  <2>1. m - 1 \in Nat /\ m - 1 \notin T BY <1>4, <1>6, <1>3
  <2>2. PICK f : Collects(f, t, m - 1) BY <2>1 DEF T
  <2> DEFINE g == [i \in 0 .. m |-> IF i = m THEN NibblesStep(f, t, m) ELSE f[i]]
  <2>3. \A i \in 0 .. m - 1 : g[i] = f[i] BY <1>4
  <2>4. ASSUME NEW i \in 0 .. m PROVE NibblesStep(g, t, i) = NibblesStep(f, t, i)
    <3>1. i = 0 \/ g[i - 1] = f[i - 1] BY <2>3, <1>4
    <3> HIDE DEF g
    <3> QED BY <3>1, Zenon DEF NibblesStep
  <2>5. \A i \in 0 .. m - 1 : f[i] = NibblesStep(f, t, i) BY <2>2, Zenon DEF Collects
  <2>6. ASSUME NEW i \in 0 .. m PROVE g[i] = NibblesStep(g, t, i)
    <3>1. g[i] = NibblesStep(f, t, i)
      <4>1. CASE i = m BY <4>1
      <4>2. CASE i # m
        <5>1. i \in 0 .. m - 1 BY <4>2, <1>4
        <5> QED BY <5>1, <2>5, <4>2
      <4> QED BY <4>1, <4>2
    <3> HIDE DEF g
    <3> QED BY <3>1, <2>4
  <2>7. g = [i \in 0 .. m |-> NibblesStep(g, t, i)]
    <3>1. g = [i \in 0 .. m |-> g[i]] OBVIOUS
    <3> HIDE DEF g
    <3> QED BY <3>1, <2>6
  <2> HIDE DEF g
  <2> QED BY <2>7, <1>4 DEF Collects
<1> QED BY <1>5, <1>6

Character == 0 .. NotUtf8

\* nibbles returns characters of its input, and no separator.
LEMMA NibblesIs ==
  ASSUME NEW t \in Seq(Character)
  PROVE  /\ nibbles(t) \in Seq(Character)
         /\ \A k \in 1 .. Len(nibbles(t)) :
              /\ nibbles(t)[k] # Separator
              /\ \E i \in 1 .. Len(t) : nibbles(t)[k] = t[i]
<1> DEFINE N == CHOOSE f : Collects(f, t, Len(t))
           Good(s) == /\ s \in Seq(Character)
                      /\ \A k \in 1 .. Len(s) :
                           s[k] # Separator /\ \E i \in 1 .. Len(t) : s[k] = t[i]
<1>1. nibbles(t) = N[Len(t)] BY Zenon DEF nibbles, Collects, NibblesStep
<1>2. Len(t) \in Nat OBVIOUS
<1>3. \E f : Collects(f, t, Len(t)) BY <1>2, CollectsExists, Zenon
<1>4. Collects(N, t, Len(t)) BY <1>3, Zenon
<1> HIDE DEF N
<1>5. \A i \in 0 .. Len(t) : N[i] = NibblesStep(N, t, i) BY <1>4, Zenon DEF Collects
<1> DEFINE T == {i \in 0 .. Len(t) : ~ Good(N[i])}
<1>6. ASSUME T # {} PROVE FALSE
  <2>1. T \in SUBSET Nat BY <1>2
  <2> HIDE DEF T
  <2>2. PICK m \in T : \A k \in T : m <= k BY <1>6, <2>1, Least
  <2>3. m \in 0 .. Len(t) /\ ~ Good(N[m]) BY <2>2 DEF T
  <2>4. CASE m = 0
    <3>1. N[m] = <<>> BY <1>2, <1>5, <2>4 DEF NibblesStep
    <3>2. Good(<<>>) OBVIOUS
    <3> QED BY <3>1, <3>2, <2>3
  <2>5. CASE m # 0
    <3>1. m - 1 \in 0 .. Len(t) /\ m - 1 \notin T /\ m \in 1 .. Len(t)
      BY <1>2, <2>2, <2>3, <2>5
    <3>2. Good(N[m - 1]) BY <3>1 DEF T
    <3>3. t[m] \in Character BY <3>1
    <3>4. t[m] # Separator => Good(Append(N[m - 1], t[m]))
      <4> DEFINE s == N[m - 1]
      <4>1. Good(s) BY <3>2
      <4> HIDE DEF s
      <4>2. SUFFICES ASSUME t[m] # Separator PROVE Good(Append(s, t[m])) BY DEF s
      <4>3. Append(s, t[m]) \in Seq(Character) BY <4>1, <3>3
      <4>4. /\ Len(Append(s, t[m])) = Len(s) + 1 /\ Len(s) \in Nat
            /\ \A k \in 1 .. Len(s) : Append(s, t[m])[k] = s[k]
            /\ Append(s, t[m])[Len(s) + 1] = t[m]
        BY <4>1, <3>3
      <4>5. ASSUME NEW k \in 1 .. Len(Append(s, t[m]))
            PROVE  /\ Append(s, t[m])[k] # Separator
                   /\ \E i \in 1 .. Len(t) : Append(s, t[m])[k] = t[i]
        <5>1. k \in 1 .. Len(s) \/ k = Len(s) + 1 BY <4>4
        <5>2. CASE k \in 1 .. Len(s) BY <5>2, <4>1, <4>4
        <5>3. CASE k = Len(s) + 1 BY <5>3, <4>2, <4>4, <3>1
        <5> QED BY <5>1, <5>2, <5>3
      <4> QED BY <4>3, <4>5
    <3>5. N[m] = IF t[m] = Separator THEN N[m - 1] ELSE Append(N[m - 1], t[m])
      BY <1>5, <2>3, <2>5 DEF NibblesStep
    <3> HIDE DEF Good
    <3> QED BY <3>2, <3>4, <3>5, <2>3
  <2> QED BY <2>4, <2>5
<1>7. Len(t) \in 0 .. Len(t) BY <1>2
<1>8. Good(N[Len(t)]) BY <1>6, <1>7
<1> QED BY <1>1, <1>8

\* A byte and its two digits.
LEMMA Digits ==
  ASSUME NEW a \in 0 .. 15, NEW b \in 0 .. 15
  PROVE  16 * a + b \in 0 .. 255 /\ (16 * a + b) \div 16 = a /\ (16 * a + b) % 16 = b
<1>1. 16 * a + b \in 0 .. 255 OBVIOUS
<1>2. (16 * a + b) \div 16 = a OBVIOUS
<1>3. (16 * a + b) % 16 = b OBVIOUS
<1> QED BY <1>1, <1>2, <1>3

\* Formatting the bytes made of pairs of digits gives the digits back.
LEMMA PairsFormat ==
  ASSUME NEW d \in Seq(0 .. 15), Len(d) % 2 = 0
  PROVE  format(Pairs(d)) = d /\ Range(Pairs(d)) \subseteq 0 .. 255
<1> DEFINE n == Len(d) \div 2
           p == Pairs(d)
<1>1. Len(d) \in Nat /\ n \in Nat /\ 2 * n = Len(d) OBVIOUS
<1>2. \A i \in 1 .. Len(d) : d[i] \in 0 .. 15
  <2> DEFINE D == 0 .. 15
  <2>1. d \in Seq(D) OBVIOUS
  <2> HIDE DEF D
  <2>2. \A i \in 1 .. Len(d) : d[i] \in D BY <2>1
  <2> QED BY <2>2 DEF D
<1> HIDE DEF n
<1>3. p = [i \in 1 .. n |-> 16 * d[2 * i - 1] + d[2 * i]] BY DEF Pairs, n
<1>4. \A i \in 1 .. n : d[2 * i - 1] \in 0 .. 15 /\ d[2 * i] \in 0 .. 15 BY <1>1, <1>2, SMTT(30)
<1>5. Len(p) = n BY <1>1, <1>3
<1> HIDE DEF p
<1>6. ASSUME NEW i \in 1 .. n PROVE p[i] \in 0 .. 255
  <2>1. p[i] = 16 * d[2 * i - 1] + d[2 * i] BY <1>3
  <2> DEFINE x == d[2 * i - 1]
             y == d[2 * i]
  <2>2. x \in 0 .. 15 /\ y \in 0 .. 15 BY <1>4
  <2>3. p[i] = 16 * x + y BY <2>1
  <2> HIDE DEF x, y
  <2>4. 16 * x + y \in 0 .. 255 BY <2>2, Digits
  <2> QED BY <2>3, <2>4
<1>7. Range(p) \subseteq 0 .. 255
  <2>1. DOMAIN p = 1 .. n BY <1>3
  <2>2. ASSUME NEW b \in Range(p) PROVE b \in 0 .. 255
    <3>1. PICK i \in 1 .. n : b = p[i] BY <2>1, Zenon DEF Range
    <3> QED BY <3>1, <1>6
  <2> QED BY <2>2, SMTT(30)
<1>8. ASSUME NEW i \in 1 .. 2 * n
      PROVE  (IF i % 2 = 1 THEN p[(i + 1) \div 2] \div 16 ELSE p[(i + 1) \div 2] % 16) = d[i]
  <2>1. PICK j \in 1 .. n : i = 2 * j - 1 \/ i = 2 * j
    <3>1. (i + 1) \div 2 \in 1 .. n BY <1>1
    <3>2. i = 2 * ((i + 1) \div 2) - 1 \/ i = 2 * ((i + 1) \div 2) BY <1>1
    <3> QED BY <3>1, <3>2
  <2>2. (i + 1) \div 2 = j /\ (i % 2 = 1 <=> i = 2 * j - 1) BY <2>1
  <2>3. p[j] = 16 * d[2 * j - 1] + d[2 * j] BY <1>3
  <2>4. d[2 * j - 1] \in 0 .. 15 /\ d[2 * j] \in 0 .. 15 BY <1>4
  <2>6. p[j] \div 16 = d[2 * j - 1] /\ p[j] % 16 = d[2 * j]
    <3> DEFINE x == d[2 * j - 1]
               y == d[2 * j]
    <3>1. x \in 0 .. 15 /\ y \in 0 .. 15 /\ p[j] = 16 * x + y BY <2>3, <2>4
    <3> SUFFICES p[j] \div 16 = x /\ p[j] % 16 = y OBVIOUS
    <3> HIDE DEF x, y
    <3>2. (16 * x + y) \div 16 = x /\ (16 * x + y) % 16 = y BY <3>1, Digits
    <3> QED BY <3>1, <3>2
  <2> QED BY <2>1, <2>2, <2>6, Zenon
<1>9. format(p) = [i \in 1 .. 2 * n |-> d[i]]
  BY <1>5, <1>8, Zenon DEF format
<1>10. d = [i \in 1 .. 2 * n |-> d[i]] BY <1>1
<1> QED BY <1>7, <1>9, <1>10, Zenon DEF p
-----------------------------------------------------------------------------
(* Control, and the hexadecimal input *)

SimulationPc ==
  {"layout", "work", "resident", "begin", "submit", "take", "encode", "gate"}

PatternPc == {"dimensions", "option"} \union SimulationPc

SimulationOutcome ==
  {"ZeroDimension", "DimensionTooLarge", "FrameTooLarge", "work overflow", "work limit",
   "resident overflow", "resident limit", "generation", "allocation",
   "InconsistentLayout", "PixelLength", "rejected", "encoder", "quality", "encode",
   "stale", "simulated"}

\* A step of simulate_pattern stays within it or ends the program, with an
\* outcome that is not one of the parsers'.
LEMMA SimulationControl ==
  ASSUME simulate_pattern
  PROVE  /\ pc \in SimulationPc
         /\ UNCHANGED options
         /\ \/ pc' \in SimulationPc /\ UNCHANGED outcome
            \/ pc' = "exit" /\ outcome' \in SimulationOutcome
<1>1. CASE CheckLayout
  <2>1. LayoutError(options.width, options.height) \in
          {"ZeroDimension", "DimensionTooLarge", "FrameTooLarge", "none"}
    BY Zenon DEF LayoutError
  <2> DEFINE e == LayoutError(options.width, options.height)
  <2>2. /\ pc = "layout" /\ UNCHANGED options
        /\ \/ pc' = "exit" /\ outcome' = e /\ e # "none"
           \/ pc' = "work" /\ UNCHANGED outcome
    BY <1>1, Zenon DEF CheckLayout, Return
  <2> HIDE DEF e
  <2>3. e \in {"ZeroDimension", "DimensionTooLarge", "FrameTooLarge", "none"} BY <2>1 DEF e
  <2> QED BY <2>2, <2>3, Zenon DEF SimulationPc, SimulationOutcome
<1>2. CASE CheckWork
  <2>1. /\ pc = "work" /\ UNCHANGED options
        /\ \/ pc' = "exit" /\ outcome' \in {"work overflow", "work limit"}
           \/ pc' = "resident" /\ UNCHANGED outcome
    BY <1>2, Zenon DEF CheckWork, Checked, Return
  <2> QED BY <2>1, Zenon DEF SimulationPc, SimulationOutcome
<1>3. CASE CheckResident
  <2>1. /\ pc = "resident" /\ UNCHANGED options
        /\ \/ pc' = "exit" /\ outcome' \in {"resident overflow", "resident limit"}
           \/ pc' = "begin" /\ UNCHANGED outcome
    BY <1>3, Zenon DEF CheckResident, Checked, Return
  <2> QED BY <2>1, Zenon DEF SimulationPc, SimulationOutcome
<1>4. CASE BeginGeneration
  <2>1. /\ pc = "begin" /\ UNCHANGED options
        /\ \/ pc' = "exit" /\ outcome' = "generation"
           \/ pc' = "submit" /\ UNCHANGED outcome
    BY <1>4, Zenon DEF BeginGeneration, Return
  <2> QED BY <2>1, Zenon DEF SimulationPc, SimulationOutcome
<1>5. CASE SubmitFrame
  <2> DEFINE e == from_bgrx(layout, layout.byte_len)
  <2>1. e \in {"InconsistentLayout", "PixelLength", "none"} BY Zenon DEF from_bgrx
  <2>2. /\ pc = "submit" /\ UNCHANGED options
        /\ \/ pc' = "exit" /\ outcome' = "allocation"
           \/ pc' = "exit" /\ outcome' = e /\ e # "none"
           \/ pc' = "exit" /\ outcome' = "rejected"
           \/ UNCHANGED <<pc, outcome>>
    BY <1>5, Zenon DEF SubmitFrame, Return
  <2> HIDE DEF e
  <2> QED BY <2>1, <2>2, Zenon DEF SimulationPc, SimulationOutcome
<1>6. CASE Submitted
  BY <1>6, Zenon DEF Submitted, Return, SimulationPc, SimulationOutcome
<1>7. CASE TakeFrame
  <2>1. pc = "take" /\ UNCHANGED <<options, outcome>> /\ pc' \in {"take", "encode"}
    BY <1>7, Zenon DEF TakeFrame
  <2> QED BY <2>1 DEF SimulationPc
<1>8. CASE EncodeFrame
  <2>1. /\ pc = "encode" /\ UNCHANGED options
        /\ \/ pc' = "exit" /\ outcome' \in {"quality", "encode"}
           \/ pc' = "gate" /\ UNCHANGED outcome
    BY <1>8, Zenon DEF EncodeFrame, Return
  <2> QED BY <2>1, Zenon DEF SimulationPc, SimulationOutcome
<1>9. CASE PassGate
  <2>1. /\ pc = "gate" /\ UNCHANGED options
        /\ \/ pc' = "exit" /\ outcome' = "stale"
           \/ pc' = "take" /\ UNCHANGED outcome
    BY <1>9, Zenon DEF PassGate, Return
  <2> QED BY <2>1, Zenon DEF SimulationPc, SimulationOutcome
<1>10. CASE Summarise
  BY <1>10 DEF Summarise, Return, SimulationPc, SimulationOutcome
<1> QED BY <1>1, <1>2, <1>3, <1>4, <1>5, <1>6, <1>7, <1>8, <1>9, <1>10 DEF simulate_pattern

HexFile == Invoked("--decode-hex-file", 2)

HexArgument == Invoked("--decode-hex", 2)

HexPc == {"argument", "open", "read", "hex", "decode"}

\* Which command a control point belongs to, and what the text is there.  The
\* text is still there when the program has ended.
HexInv ==
  /\ arguments \in Seq(Argument)
  /\ text \in Seq(Character)
  /\ outcome = "none" \/ pc = "exit"
  /\ pc \in PatternPc => PatternMode
  /\ pc = "argument" => HexArgument
  /\ pc \in {"open", "read"} => HexFile
  /\ HexFile => Len(text) <= MAX_HEX_TEXT_BYTES + 1
  /\ pc \in {"hex", "decode"} =>
       /\ ended /\ NotUtf8 \notin Range(text)
       /\ HexFile => Len(text) <= MAX_HEX_TEXT_BYTES
  /\ pc = "hex" => HexFile \/ HexArgument
  /\ pc = "decode" => ValidDigits(nibbles(text)) /\ packet = Pairs(nibbles(text))
  /\ pc = "exit" => outcome # "none"
  /\ \/ outcome = "hex"
     \/ outcome = "usage" /\ HexArgument
     => ~ ValidDigits(nibbles(text)) /\ NotUtf8 \notin Range(text)

\* The commands exclude each other.
LEMMA OneCommand == ~ (HexFile /\ HexArgument) /\ ~ (PatternMode /\ (HexFile \/ HexArgument))
BY DEF HexFile, HexArgument, PatternMode, Invoked

\* A step that leaves the arguments and the text alone, and reaches no control
\* point of the hexadecimal commands.
LEMMA QuietHex ==
  ASSUME HexInv, UNCHANGED <<arguments, text>>,
         pc' \notin HexPc, pc' \in PatternPc => PatternMode,
         \/ UNCHANGED outcome /\ (pc' = "exit" <=> pc = "exit")
         \/ /\ pc' = "exit" /\ outcome' \notin {"none", "hex"}
            /\ outcome' = "usage" => ~ HexArgument
  PROVE  HexInv'
<1>1. UNCHANGED <<HexFile, HexArgument, PatternMode>>
  BY Zenon DEF HexFile, HexArgument, PatternMode, Invoked
<1> QED BY <1>1, Zenon DEF HexInv, HexPc
\* The text handed to parse_hex and what becomes of it.
LEMMA HexStep == ASSUME HexInv, [Next]_vars PROVE HexInv'
<1>1. CASE UNCHANGED vars
  <2>1. UNCHANGED <<arguments, text, ended, packet, pc, outcome>> BY <1>1 DEF vars, input
  <2> QED BY <2>1, Zenon DEF HexInv, HexFile, HexArgument, PatternMode, Invoked
<1>2. CASE parse_args
  <2>1. pc = "args" /\ UNCHANGED <<arguments, text, outcome>> /\ outcome = "none"
    BY <1>2 DEF parse_args, Dispatch, input, HexInv
  <2>2. UNCHANGED <<HexFile, HexArgument, PatternMode>>
    BY <2>1, Zenon DEF HexFile, HexArgument, PatternMode, Invoked
  <2>3. \/ pc' = "argument" /\ HexArgument
        \/ pc' = "open" /\ HexFile
        \/ pc' = "dimensions" /\ PatternMode
        \/ pc' \in {"observe", "info", "gdbus"}
    BY <1>2, Zenon DEF parse_args, Dispatch, HexFile, HexArgument
  <2>4. pc' \notin {"read", "hex", "decode", "exit"} /\ pc' # "none"
    BY <2>3
  <2>5. pc' = "argument" => HexArgument BY <2>3
  <2>6. pc' = "open" => HexFile BY <2>3
  <2>7. pc' \in PatternPc => PatternMode BY <2>3 DEF PatternPc, SimulationPc
  <2> QED BY <2>1, <2>2, <2>4, <2>5, <2>6, <2>7, Zenon DEF HexInv
<1>3. CASE PrintUsage
  <2>1. /\ UNCHANGED <<arguments, text>> /\ pc' = "exit" /\ outcome' = "usage"
        /\ ~ HexArgument
    BY <1>3, Zenon DEF PrintUsage, Usage, Return, input, Command, HexArgument
  <2> QED BY <2>1, QuietHex DEF HexPc, PatternPc, SimulationPc
<1>4. CASE ParseDimensions \/ ParseOption \/ CheckOptions
  <2>1. /\ UNCHANGED <<arguments, text>> /\ pc \in {"dimensions", "option"}
        /\ \/ pc' = "exit" /\ outcome' = "usage"
           \/ pc' \in {"option", "layout"} /\ UNCHANGED outcome
    BY <1>4, Zenon DEF ParseDimensions, ParseOption, CheckOptions, Usage, Return, input
  <2>2. PatternMode /\ ~ HexArgument
    <3>1. pc \in PatternPc BY <2>1 DEF PatternPc
    <3> QED BY <3>1, OneCommand DEF HexInv
  <2> QED BY <2>1, <2>2, QuietHex DEF HexPc, PatternPc, SimulationPc
<1>5. CASE Simulate
  <2>1. UNCHANGED <<arguments, text>> /\ simulate_pattern BY <1>5 DEF Simulate, input
  <2>2. /\ pc \in SimulationPc
        /\ \/ pc' \in SimulationPc /\ UNCHANGED outcome
           \/ pc' = "exit" /\ outcome' \in SimulationOutcome
    BY <2>1, SimulationControl
  <2>3. PatternMode BY <2>2 DEF HexInv, PatternPc
  <2>4. outcome' \in SimulationOutcome => outcome' \notin {"none", "hex", "usage"}
    BY Zenon DEF SimulationOutcome
  <2>5. pc # "exit" /\ pc' \notin HexPc BY <2>2 DEF HexPc, SimulationPc
  <2>6. pc' \in SimulationPc => pc' # "exit" BY DEF SimulationPc
  <2> QED BY <2>1, <2>2, <2>3, <2>4, <2>5, <2>6, QuietHex
<1>6. CASE TakeArgument
  <2>1. /\ pc = "argument" /\ pc' = "hex" /\ ended' /\ UNCHANGED <<arguments, outcome>>
        /\ text' = arguments[2].hex
    BY <1>6 DEF TakeArgument
  <2>2. HexArgument /\ outcome = "none" /\ arguments \in Seq(Argument) BY <2>1 DEF HexInv
  <2>3. ~ HexFile /\ UNCHANGED <<HexFile, HexArgument, PatternMode>>
    BY <2>1, <2>2, OneCommand, Zenon DEF HexFile, HexArgument, PatternMode, Invoked
  <2>4. arguments[2] \in Argument
    <3>1. Len(arguments) = 2 BY <2>2 DEF HexArgument, Invoked
    <3>2. 2 \in 1 .. Len(arguments) BY <3>1
    <3> QED BY <2>2, <3>2, ElementIs, Zenon
  <2>5. text' \in Seq(0 .. NotHex) BY <2>1, <2>4 DEF Argument
  <2>6. text' \in Seq(Character) /\ NotUtf8 \notin Range(text)'
    <3> DEFINE t == text'
    <3>1. t \in Seq(0 .. NotHex) BY <2>5
    <3> HIDE DEF t
    <3>2. \A i \in 1 .. Len(t) : t[i] \in 0 .. 17
      <4> DEFINE C == 0 .. 17
      <4>1. t \in Seq(C) BY <3>1 DEF NotHex
      <4> HIDE DEF C
      <4>2. \A i \in 1 .. Len(t) : t[i] \in C BY <4>1
      <4> QED BY <4>2 DEF C
    <3>3. t \in Seq(Character)
      <4>1. t = [i \in 1 .. Len(t) |-> t[i]] /\ Len(t) \in Nat BY <3>1
      <4>2. \A i \in 1 .. Len(t) : t[i] \in Character BY <3>2 DEF Character, NotUtf8
      <4> QED BY <4>1, <4>2
    <3>4. DOMAIN t = 1 .. Len(t) BY <3>1
    <3>5. NotUtf8 \notin Range(t) BY <3>2, <3>4, SMTT(30) DEF NotUtf8, Range
    <3> QED BY <3>3, <3>5 DEF t
  <2>7. pc' \notin PatternPc BY <2>1 DEF PatternPc, SimulationPc
  <2> QED BY <2>1, <2>2, <2>3, <2>6, <2>7 DEF HexInv
<1>7. CASE read_hex_file
  <2>1. /\ pc = "open" /\ UNCHANGED <<arguments, text>>
        /\ \/ pc' = "read" /\ UNCHANGED outcome
           \/ pc' = "exit" /\ outcome' \in {"open", "metadata", "length"}
    BY <1>7, Zenon DEF read_hex_file, Return, input
  <2>2. HexFile /\ outcome = "none" BY <2>1 DEF HexInv
  <2>3. UNCHANGED <<HexFile, HexArgument, PatternMode>>
    BY <2>1, Zenon DEF HexFile, HexArgument, PatternMode, Invoked
  <2>4. CASE pc' = "read" /\ UNCHANGED outcome
    <3>1. pc' \notin PatternPc BY <2>4 DEF PatternPc, SimulationPc
    <3> QED BY <2>1, <2>2, <2>3, <2>4, <3>1 DEF HexInv
  <2>5. CASE pc' = "exit" /\ outcome' \in {"open", "metadata", "length"}
    BY <2>1, <2>5, QuietHex DEF HexPc, PatternPc, SimulationPc
  <2> QED BY <2>1, <2>4, <2>5
<1>8. CASE ReadByte
  <2>1. /\ pc = "read" /\ UNCHANGED <<arguments, pc, outcome>>
        /\ Len(text) < MAX_HEX_TEXT_BYTES + 1
    BY <1>8 DEF ReadByte, read_limit
  <2>2. PICK byte \in InputBytes : text' = Append(text, byte) BY <1>8 DEF ReadByte
  <2>3. byte \in Character BY CommandAssumption DEF Character
  <2>4. text \in Seq(Character) /\ outcome = "none" BY <2>1 DEF HexInv
  <2>5. text' \in Seq(Character) /\ Len(text)' = Len(text) + 1 /\ Len(text) \in Nat
    BY <2>2, <2>3, <2>4
  <2>6. Len(text)' <= MAX_HEX_TEXT_BYTES + 1 BY <2>1, <2>5, CommandAssumption
  <2>7. UNCHANGED <<HexFile, HexArgument, PatternMode>>
    BY <2>1, Zenon DEF HexFile, HexArgument, PatternMode, Invoked
  <2> QED BY <2>1, <2>4, <2>5, <2>6, <2>7 DEF HexInv
<1>9. CASE EndOfRead
  <2>1. /\ pc = "read" /\ UNCHANGED <<arguments, text>>
        /\ \/ pc' = "exit" /\ outcome' \in {"read", "limit", "encoding"}
           \/ /\ pc' = "hex" /\ UNCHANGED outcome /\ ended' = (Len(text) < read_limit)
              /\ ~ (Len(text) > MAX_HEX_TEXT_BYTES) /\ NotUtf8 \notin Range(text)
    BY <1>9, Zenon DEF EndOfRead, Return
  <2>2. CASE pc' = "exit" /\ outcome' \in {"read", "limit", "encoding"}
    BY <2>1, <2>2, QuietHex DEF HexPc, PatternPc, SimulationPc
  <2>3. CASE /\ pc' = "hex" /\ UNCHANGED outcome /\ ended' = (Len(text) < read_limit)
             /\ ~ (Len(text) > MAX_HEX_TEXT_BYTES) /\ NotUtf8 \notin Range(text)
    <3>1. text \in Seq(Character) /\ HexFile /\ outcome = "none" BY <2>1 DEF HexInv
    <3>2. Len(text) <= MAX_HEX_TEXT_BYTES /\ Len(text) < read_limit
      BY <3>1, <2>3, CommandAssumption DEF read_limit
    <3>3. ended' BY <3>2, <2>3, Zenon
    <3>4. UNCHANGED <<HexFile, HexArgument, PatternMode>>
      BY <2>1, Zenon DEF HexFile, HexArgument, PatternMode, Invoked
    <3>5. pc' \notin PatternPc BY <2>3 DEF PatternPc, SimulationPc
    <3> QED BY <2>1, <2>3, <3>1, <3>2, <3>3, <3>4, <3>5 DEF HexInv
  <2> QED BY <2>1, <2>2, <2>3
<1>10. CASE parse_hex
  <2>1. /\ pc = "hex" /\ UNCHANGED <<arguments, text, ended>>
        /\ \/ /\ pc' = "decode" /\ UNCHANGED outcome
              /\ ValidDigits(nibbles(text)) /\ packet' = Pairs(nibbles(text))
           \/ /\ pc' = "exit" /\ outcome' \in {"usage", "hex"}
              /\ ~ ValidDigits(nibbles(text))
    BY <1>10, Zenon DEF parse_hex, Return
  <2>2. outcome = "none" BY <2>1 DEF HexInv
  <2>3. UNCHANGED <<HexFile, HexArgument, PatternMode>>
    BY <2>1, Zenon DEF HexFile, HexArgument, PatternMode, Invoked
  <2>4. pc' \notin PatternPc BY <2>1 DEF PatternPc, SimulationPc
  <2> QED BY <2>1, <2>2, <2>3, <2>4 DEF HexInv
<1>11. CASE discover \/ Ends("decode", {"decoded", "packet"})
            \/ Ends("observe", {"observed", "usb"}) \/ Ends("info", {"printed"})
  <2> DEFINE Other == {"decoded", "packet", "observed", "usb", "printed", "execute",
                       "gdbus", "encoding", "version", "compatible", "incompatible"}
  <2>1. /\ UNCHANGED <<arguments, text>> /\ pc' = "exit" /\ outcome' \in Other
    BY <1>11 DEF discover, Ends, Return, input
  <2>2. outcome' \notin {"none", "hex", "usage"} BY <2>1
  <2> QED BY <2>1, <2>2, QuietHex DEF HexPc, PatternPc, SimulationPc
<1> QED BY <1>1, <1>2, <1>3, <1>4, <1>5, <1>6, <1>7, <1>8, <1>9, <1>10, <1>11
        DEF Next, main, Done

LEMMA HexInit == Init => HexInv
<1> SUFFICES ASSUME Init PROVE HexInv OBVIOUS
<1>1. /\ arguments \in Arguments /\ text = <<>> /\ pc = "args" /\ outcome = "none"
  BY DEF Init
<1>2. arguments \in Seq(Argument) BY <1>1, CommandAssumption
<1>3. text \in Seq(Character) /\ Len(text) <= MAX_HEX_TEXT_BYTES + 1
  BY <1>1, CommandAssumption
<1>4. pc \notin PatternPc BY <1>1 DEF PatternPc, SimulationPc
<1> QED BY <1>1, <1>2, <1>3, <1>4 DEF HexInv

LEMMA HexInvariance == Spec => []HexInv
BY HexInit, HexStep, PTL DEF Spec

\* read_hex_text never holds more than a byte above its limit, and what is
\* decoded is the whole input: one that grows after its length was checked is
\* refused, not cut off.  Every limit, every argument list, every input.
THEOREM WholeText == Spec => []AcceptedTextIsWhole
<1>1. HexInv => AcceptedTextIsWhole BY DEF HexInv, AcceptedTextIsWhole, HexFile
<1> QED BY <1>1, HexInvariance, PTL

\* parse_hex neither loses nor invents a digit, and refuses a text of digits
\* and separators only if its digits are odd in number.
THEOREM Lossless == Spec => []HexIsLossless
<1>1. ASSUME HexInv PROVE HexIsLossless
  <2> DEFINE n == nibbles(text)
  <2>1. text \in Seq(Character) BY <1>1 DEF HexInv
  <2>2. /\ n \in Seq(Character)
        /\ \A k \in 1 .. Len(n) :
             n[k] # Separator /\ \E i \in 1 .. Len(text) : n[k] = text[i]
    BY <2>1, NibblesIs
  <2> HIDE DEF n
  <2>3. NotUtf8 \notin Range(text) => \A k \in 1 .. Len(n) : n[k] # NotUtf8
    <3>1. DOMAIN text = 1 .. Len(text) BY <2>1
    <3> QED BY <2>2, <3>1, Zenon DEF Range
  <2>4. DOMAIN n = 1 .. Len(n) BY <2>2
  <2>5. ASSUME pc = "decode"
        PROVE  format(packet) = n /\ Range(packet) \subseteq 0 .. 255
    <3>1. ValidDigits(n) /\ packet = Pairs(n) /\ NotUtf8 \notin Range(text)
      BY <1>1, <2>5 DEF HexInv, n
    <3>2. \A k \in 1 .. Len(n) : n[k] # NotHex
      BY <3>1, <2>4, Zenon DEF ValidDigits, Range
    <3>3. \A k \in 1 .. Len(n) : n[k] \in Character BY <2>2
    <3>4. \A k \in 1 .. Len(n) : n[k] \in 0 .. 15
      BY <2>2, <2>3, <3>1, <3>2, <3>3 DEF Character, NotUtf8, NotHex, Separator
    <3>5. n \in Seq(0 .. 15) /\ Len(n) % 2 = 0
      <4> DEFINE D == 0 .. 15
      <4>1. n = [i \in 1 .. Len(n) |-> n[i]] /\ Len(n) \in Nat BY <2>2
      <4>2. \A k \in 1 .. Len(n) : n[k] \in D BY <3>4
      <4> HIDE DEF D
      <4>3. n \in Seq(D) BY <4>1, <4>2
      <4>4. Len(n) % 2 = 0 BY <3>1 DEF ValidDigits
      <4> QED BY <4>3, <4>4 DEF D
    <3> QED BY <3>1, <3>5, PairsFormat, SMTT(30)
  <2>6. ASSUME outcome = "hex" \/ (outcome = "usage" /\ Invoked("--decode-hex", 2)),
               Range(n) \subseteq 0 .. 15
        PROVE  Len(n) % 2 = 1
    <3>1. ~ ValidDigits(n) BY <1>1, <2>6 DEF HexInv, HexArgument, n
    <3>2. NotHex \notin Range(n) BY <2>6 DEF NotHex
    <3>3. Len(n) \in Nat /\ Len(n) % 2 # 0 BY <2>2, <3>1, <3>2 DEF ValidDigits
    <3> QED BY <3>3
  <2> QED BY <2>5, <2>6, SMTT(30) DEF HexIsLossless, n
<1> QED BY <1>1, HexInvariance, PTL
-----------------------------------------------------------------------------
(* parse_pattern_args *)

OptionField == {"width", "height", "frames", "queue_capacity", "quality", "encode"}

\* The options' names and the fields they set.
LEMMA Fields ==
  /\ Field["--frames"] = "frames" /\ Field["--queue"] = "queue_capacity"
  /\ Field["--quality"] = "quality"
  /\ \A o \in PatternOption : Field[o] \in {"frames", "queue_capacity", "quality"}
  /\ \A o, q \in PatternOption : Field[o] = Field[q] => o = q
BY DEF Field, PatternOption

LEMMA DefaultsDomain == Defaults = [f \in OptionField |-> Defaults[f]]
BY DEF Defaults, OptionField

\* The places of the options that stand before place p.
Odd(p) == {i \in 3 .. p - 1 : i % 2 = 1}

\* parse_pattern_args has read the options before place p.
Parsed(p) ==
  /\ p \in Nat /\ p >= 3 /\ p <= Len(arguments) + 1 /\ p % 2 = 1
  /\ rest \in Seq(Argument) /\ Len(rest) = Len(arguments) + 1 - p
  /\ \A k \in 1 .. Len(rest) : rest[k] = arguments[p + k - 1]
  /\ \A o : o \in saw <=> \E i \in Odd(p) : arguments[i].word = o
  /\ \A i \in Odd(p) :
       /\ arguments[i].word \in PatternOption
       /\ \A j \in Odd(i) : arguments[j].word # arguments[i].word
       /\ options[Field[arguments[i].word]] = parse(arguments[i + 1])
  /\ \A o \in PatternOption \ saw : options[Field[o]] = Defaults[Field[o]]

\* The list was accepted, and the options are what it says.
Accepted ==
  WellFormed /\ InRange(options) /\ \A o \in PatternOption : options[Field[o]] = Given(o)

OptionInv ==
  /\ options = [f \in OptionField |-> options[f]]
  /\ options.encode \in BOOLEAN
  /\ PatternMode => pc \in PatternPc \union {"args", "exit"}
  /\ pc \in {"args", "dimensions"} =>
       saw = {} /\ \A o \in PatternOption : options[Field[o]] = Defaults[Field[o]]
  /\ pc = "option" =>
       /\ Len(arguments) >= 2 /\ Dimensions(arguments[2])
       /\ \E p \in Nat : Parsed(p)
  /\ pc = "option" \/ pc \in SimulationPc => options.width \in Nat /\ options.height \in Nat
  /\ pc \in SimulationPc \/ (PatternMode /\ pc = "exit" /\ outcome # "usage") => Accepted
  /\ PatternMode /\ outcome = "usage" => ~ WellFormed

\* What the arguments say of an option, when they do not contradict each other.
LEMMA GivenIs ==
  ASSUME NEW o, NEW v, NEW i \in 3 .. Len(arguments) - 1, i % 2 = 1, arguments[i].word = o,
         \A j \in 3 .. Len(arguments) - 1 :
           j % 2 = 1 /\ arguments[j].word = o => parse(arguments[j + 1]) = v
  PROVE  Given(o) = v
<1> DEFINE places == {j \in 3 .. Len(arguments) - 1 : j % 2 = 1 /\ arguments[j].word = o}
           c == CHOOSE j \in places : TRUE
<1>1. i \in places OBVIOUS
<1>2. c \in places BY <1>1, Zenon
<1>3. parse(arguments[c + 1]) = v BY <1>2, Zenon
<1>4. places # {} BY <1>1
<1> QED BY <1>3, <1>4, Zenon DEF Given

LEMMA GivenDefault ==
  ASSUME NEW o, \A j \in 3 .. Len(arguments) - 1 : ~ (j % 2 = 1 /\ arguments[j].word = o)
  PROVE  Given(o) = Defaults[Field[o]]
BY Zenon DEF Given

\* A well-formed list gives every option a value that is a number.
LEMMA WellFormedNumbers ==
  ASSUME WellFormed, arguments \in Seq(Argument),
         NEW i \in 3 .. Len(arguments) - 1, i % 2 = 1
  PROVE  parse(arguments[i + 1]) # Unparsable
<1> DEFINE o == arguments[i].word
<1>0. Len(arguments) \in Nat OBVIOUS
<1>1. o \in PatternOption BY <1>0, SMTT(30) DEF WellFormed
<1>2. ASSUME NEW j \in 3 .. Len(arguments) - 1, j % 2 = 1, arguments[j].word = o
      PROVE  j = i
  <2>1. CASE j < i
    <3>1. i \in 3 .. Len(arguments) /\ j \in 3 .. i - 1 BY <2>1, <1>0
    <3> QED BY <3>1, <1>2, Zenon DEF WellFormed
  <2>2. CASE i < j
    <3>1. j \in 3 .. Len(arguments) /\ i \in 3 .. j - 1 BY <2>2, <1>0
    <3> QED BY <3>1, <1>2, Zenon DEF WellFormed
  <2> QED BY <2>1, <2>2, <1>0
<1>3. Given(o) = parse(arguments[i + 1])
  <2>1. \A j \in 3 .. Len(arguments) - 1 :
          j % 2 = 1 /\ arguments[j].word = o => parse(arguments[j + 1]) = parse(arguments[i + 1])
    BY <1>2, Zenon
  <2> HIDE DEF o
  <2>2. arguments[i].word = o BY DEF o
  <2> QED BY <2>1, <2>2, GivenIs, ZenonT(30)
<1> HIDE DEF o
<1>4. Given(o) # Unparsable
  <2>1. /\ Given("--frames") \in 1 .. MAX_PATTERN_FRAMES
        /\ Given("--queue") \in 1 .. MAX_QUEUE_CAPACITY
        /\ Given("--quality") \in 1 .. 100
    BY DEF WellFormed, InRange
  <2>2. o = "--frames" \/ o = "--queue" \/ o = "--quality" BY <1>1 DEF PatternOption
  <2>3. \A n \in Int : \A x \in 1 .. n : x # Unparsable BY DEF Unparsable
  <2>4. MAX_PATTERN_FRAMES \in Int /\ MAX_QUEUE_CAPACITY \in Int
    BY SimulationAssumption DEF MAX_QUEUE_CAPACITY
  <2>5. Given("--frames") # Unparsable BY <2>1, <2>3, <2>4
  <2>6. Given("--queue") # Unparsable BY <2>1, <2>3, <2>4
  <2>7. Given("--quality") # Unparsable
    <3>1. \A x \in 1 .. 100 : x # Unparsable BY DEF Unparsable
    <3> QED BY <2>1, <3>1, Zenon
  <2> QED BY <2>2, <2>5, <2>6, <2>7
<1> QED BY <1>3, <1>4
\* At the end of the list the options are what the list says, whatever the
\* order in which it says it.
LEMMA ParsedAll ==
  ASSUME arguments \in Seq(Argument), Len(arguments) >= 2, Dimensions(arguments[2]),
         options = [f \in OptionField |-> options[f]],
         NEW p \in Nat, Parsed(p), rest = <<>>
  PROVE  /\ \A o \in PatternOption : options[Field[o]] = Given(o)
         /\ WellFormed <=> InRange(options)
<1>1. Len(arguments) \in Nat OBVIOUS
<1>2. p = Len(arguments) + 1 /\ p % 2 = 1 BY <1>1 DEF Parsed
<1>3. Len(arguments) % 2 = 0 BY <1>1, <1>2
<1>4. \A i : i \in Odd(p) <=> i \in 3 .. Len(arguments) /\ i % 2 = 1 BY <1>1, <1>2 DEF Odd
<1>5. \A i \in Odd(p) : i \in 3 .. Len(arguments) - 1 BY <1>1, <1>3, <1>4
<1>6. \A i \in Odd(p) : options[Field[arguments[i].word]] = parse(arguments[i + 1])
  BY Zenon DEF Parsed
<1>7. \A i \in 3 .. Len(arguments) - 1 : i % 2 = 1 => i \in Odd(p) BY <1>1, <1>4
<1>8. ASSUME NEW o \in PatternOption PROVE options[Field[o]] = Given(o)
  <2> DEFINE v == options[Field[o]]
  <2>1. CASE \E i \in Odd(p) : arguments[i].word = o
    <3>1. PICK i \in Odd(p) : arguments[i].word = o BY <2>1
    <3>2. i \in 3 .. Len(arguments) - 1 /\ i % 2 = 1 BY <1>4, <1>5
    <3>3. \A j \in 3 .. Len(arguments) - 1 :
            j % 2 = 1 /\ arguments[j].word = o => parse(arguments[j + 1]) = v
      BY <1>6, <1>7, Zenon
    <3> HIDE DEF v
    <3>4. Given(o) = v BY <3>1, <3>2, <3>3, GivenIs, Zenon
    <3> QED BY <3>4 DEF v
  <2>2. CASE ~ \E i \in Odd(p) : arguments[i].word = o
    <3>1. o \in PatternOption \ saw BY <2>2 DEF Parsed
    <3>2. options[Field[o]] = Defaults[Field[o]] BY <3>1 DEF Parsed
    <3>3. \A j \in 3 .. Len(arguments) - 1 : ~ (j % 2 = 1 /\ arguments[j].word = o)
      BY <2>2, <1>7, Zenon
    <3>4. Given(o) = Defaults[Field[o]] BY <3>3, GivenDefault, Zenon
    <3> QED BY <3>2, <3>4
  <2> QED BY <2>1, <2>2
<1>9. \A i \in 3 .. Len(arguments) : i % 2 = 1 =>
        /\ arguments[i].word \in PatternOption
        /\ \A j \in 3 .. i - 1 : j % 2 = 1 => arguments[j].word # arguments[i].word
  <2>1. \A i \in 3 .. Len(arguments) : i % 2 = 1 => i \in Odd(p) BY <1>4
  <2>2. \A i : \A j \in 3 .. i - 1 : j % 2 = 1 => j \in Odd(i) BY Zenon DEF Odd
  <2>3. \A i \in Odd(p) : /\ arguments[i].word \in PatternOption
                          /\ \A j \in Odd(i) : arguments[j].word # arguments[i].word
    BY Zenon DEF Parsed
  <2> QED BY <2>1, <2>2, <2>3, Zenon
<1>10. /\ options.frames = Given("--frames") /\ options.queue_capacity = Given("--queue")
       /\ options.quality = Given("--quality")
  <2>1. "--frames" \in PatternOption /\ "--queue" \in PatternOption
        /\ "--quality" \in PatternOption
    BY DEF PatternOption
  <2> QED BY <2>1, <1>8, Fields
<1>11. InRange([frames |-> Given("--frames"), queue_capacity |-> Given("--queue"),
                quality |-> Given("--quality")]) <=> InRange(options)
  BY <1>10, SMTT(30) DEF InRange
<1> QED BY <1>3, <1>8, <1>9, <1>11, Zenon DEF WellFormed

LEMMA Parity == ASSUME NEW n \in Nat, n % 2 = 1 PROVE (n + 1) % 2 # 1
OBVIOUS

\* One option and its value, read or refused.
LEMMA ParseOptionStep ==
  ASSUME HexInv, OptionInv, ParseOption
  PROVE  /\ options' = [f \in OptionField |-> options'[f]]
         /\ UNCHANGED <<options.width, options.height, options.encode>>
         /\ \/ pc' = "exit" /\ outcome' = "usage" /\ ~ WellFormed
            \/ pc' = "option" /\ UNCHANGED outcome /\ \E p \in Nat : Parsed(p)'
<1>0. pc = "option" /\ rest # <<>> /\ UNCHANGED arguments BY DEF ParseOption
<1>1. /\ arguments \in Seq(Argument) /\ Len(arguments) \in Nat
      /\ options = [f \in OptionField |-> options[f]]
  BY DEF HexInv, OptionInv
<1>2. PICK p \in Nat : Parsed(p) BY <1>0 DEF OptionInv
<1>3. /\ p >= 3 /\ p % 2 = 1 /\ rest \in Seq(Argument)
      /\ Len(rest) = Len(arguments) + 1 - p
      /\ \A k \in 1 .. Len(rest) : rest[k] = arguments[p + k - 1]
  BY <1>2 DEF Parsed
<1>4. Len(rest) \in Nat /\ Len(rest) >= 1 /\ p <= Len(arguments) /\ rest[1] = arguments[p]
  BY <1>0, <1>1, <1>3, SMTT(30)
<1>5. p \in 3 .. Len(arguments) BY <1>1, <1>3, <1>4
<1>6. ASSUME Len(rest) > 1 PROVE p \in 3 .. Len(arguments) - 1 /\ rest[2] = arguments[p + 1]
  <2>1. 2 \in 1 .. Len(rest) /\ p + 2 - 1 = p + 1 BY <1>4, <1>6
  <2>2. rest[2] = arguments[p + 2 - 1] BY <2>1, <1>3
  <2>3. p \in 3 .. Len(arguments) - 1 BY <1>1, <1>3, <1>6
  <2> QED BY <2>1, <2>2, <2>3
<1>7. CASE ~ (Len(rest) > 1 /\ NewOption(rest[1].word) /\ parse(rest[2]) # Unparsable)
  <2>1. pc' = "exit" /\ outcome' = "usage" /\ UNCHANGED options
    BY <1>7, Zenon DEF ParseOption, Usage, Return
  <2>2. ASSUME WellFormed PROVE FALSE
    <3>1. CASE ~ (Len(rest) > 1)
      <4>1. Len(arguments) = p BY <3>1, <1>1, <1>3, <1>4
      <4>2. Len(arguments) % 2 = 0 BY <2>2 DEF WellFormed
      <4> QED BY <4>1, <4>2, <1>3
    <3>2. CASE ~ NewOption(rest[1].word)
      <4>1. arguments[p].word \in PatternOption BY <2>2, <1>5, <1>3, Zenon DEF WellFormed
      <4>2. arguments[p].word \in saw BY <4>1, <3>2, <1>4 DEF NewOption
      <4>3. PICK j \in Odd(p) : arguments[j].word = arguments[p].word
        BY <4>2, <1>2, Zenon DEF Parsed
      <4>4. j \in 3 .. p - 1 /\ j % 2 = 1 BY <4>3 DEF Odd
      <4> QED BY <4>3, <4>4, <2>2, <1>5, <1>3, Zenon DEF WellFormed
    <3>3. CASE Len(rest) > 1 /\ parse(rest[2]) = Unparsable
      <4>1. p \in 3 .. Len(arguments) - 1 /\ parse(arguments[p + 1]) = Unparsable
        BY <3>3, <1>6
      <4> QED BY <4>1, <1>1, <1>3, <2>2, WellFormedNumbers
    <3> QED BY <1>7, <3>1, <3>2, <3>3
  <2> QED BY <2>1, <2>2, <1>1
<1>8. CASE Len(rest) > 1 /\ NewOption(rest[1].word) /\ parse(rest[2]) # Unparsable
  <2> DEFINE o == arguments[p].word
             v == parse(arguments[p + 1])
  <2>1. /\ options' = [options EXCEPT ![Field[o]] = v]
        /\ saw' = saw \union {o} /\ rest' = SubSeq(rest, 3, Len(rest))
        /\ UNCHANGED <<pc, outcome, arguments>>
    BY <1>8, <1>4, <1>6, Zenon DEF ParseOption
  <2>2. o \in PatternOption /\ o \notin saw BY <1>8, <1>4 DEF NewOption
  <2>3. p + 1 <= Len(arguments) BY <1>8, <1>1, <1>6
  <2> HIDE DEF o, v
  <2>4. /\ options' = [f \in OptionField |-> options'[f]]
        /\ \A f \in OptionField : options'[f] = IF f = Field[o] THEN v ELSE options[f]
    <3> DEFINE g == [f \in OptionField |-> IF f = Field[o] THEN v ELSE options[f]]
    <3>1. DOMAIN options = OptionField BY <1>1
    <3>2. options' = g BY <2>1, <3>1, Zenon
    <3> QED BY <3>2
  <2>5. Field[o] \in {"frames", "queue_capacity", "quality"} BY <2>2, Fields
  <2>6. UNCHANGED <<options.width, options.height, options.encode>>
    <3>1. "width" \in OptionField /\ "height" \in OptionField /\ "encode" \in OptionField
      BY DEF OptionField
    <3>2. Field[o] # "width" /\ Field[o] # "height" /\ Field[o] # "encode" BY <2>5
    <3> QED BY <3>1, <3>2, <2>4
  <2>7. \A q \in PatternOption :
          options'[Field[q]] = IF q = o THEN v ELSE options[Field[q]]
    <3>1. \A q \in PatternOption : Field[q] \in OptionField BY Fields DEF OptionField
    <3>2. \A q \in PatternOption : Field[q] = Field[o] <=> q = o BY <2>2, Fields, Zenon
    <3> QED BY <2>4, <3>1, <3>2, Zenon
  <2> DEFINE r == p + 2
  <2>8. /\ r \in Nat /\ r >= 3 /\ r <= Len(arguments) + 1 /\ r % 2 = 1
    BY <1>1, <1>3, <2>3
  <2>9. /\ rest' \in Seq(Argument) /\ Len(rest') = Len(arguments) + 1 - r
        /\ \A k \in 1 .. Len(rest') : rest'[k] = arguments[r + k - 1]
    <3>1. /\ rest' \in Seq(Argument) /\ Len(rest') = Len(rest) - 2
          /\ \A k \in 1 .. Len(rest) - 2 : rest'[k] = rest[k + 2]
      BY <2>1, <1>3, <1>8, SMTT(30)
    <3>2. ASSUME NEW k \in 1 .. Len(rest') PROVE rest'[k] = arguments[r + k - 1]
      <4>1. k \in 1 .. Len(rest) - 2 /\ k + 2 \in 1 .. Len(rest) BY <3>1, <1>4
      <4>2. rest[k + 2] = arguments[p + (k + 2) - 1] BY <4>1, <1>3
      <4>3. p + (k + 2) - 1 = r + k - 1 BY <4>1
      <4> QED BY <3>1, <4>1, <4>2, <4>3, Zenon
    <3>3. Len(rest') = Len(arguments) + 1 - r BY <3>1, <1>1, <1>3
    <3> QED BY <3>1, <3>2, <3>3, Zenon
  <2>10. \A i : i \in Odd(r) <=> i \in Odd(p) \/ i = p
    <3>0. (p + 1) % 2 # 1 BY <1>3, Parity, Zenon
    <3>1. (p + 1) % 2 # 1 /\ r - 1 = p + 1 BY <3>0
    <3>2. \A i : i \in 3 .. r - 1 <=> i \in 3 .. p - 1 \/ i = p \/ i = p + 1 BY <1>3, <3>1
    <3> QED BY <3>1, <3>2, <1>3, Zenon DEF Odd
  <2> HIDE DEF r
  <2>11. \A q : q \in saw' <=> \E i \in Odd(r) : arguments[i].word = q
    <3>1. \A q : q \in saw <=> \E i \in Odd(p) : arguments[i].word = q
      BY <1>2, Zenon DEF Parsed
    <3> QED BY <3>1, <2>1, <2>10, Zenon DEF o
  <2>12. ASSUME NEW i \in Odd(r)
         PROVE  /\ arguments[i].word \in PatternOption
                /\ \A j \in Odd(i) : arguments[j].word # arguments[i].word
                /\ options'[Field[arguments[i].word]] = parse(arguments[i + 1])
    <3>1. CASE i = p
      <4>1. \A j \in Odd(p) : arguments[j].word # o BY <2>2, <1>2, Zenon DEF Parsed
      <4>2. options'[Field[o]] = v BY <2>2, <2>7
      <4> QED BY <3>1, <4>1, <4>2, <2>2 DEF o, v
    <3>2. CASE i # p
      <4>1. i \in Odd(p) BY <3>2, <2>10
      <4>2. /\ arguments[i].word \in PatternOption
            /\ \A j \in Odd(i) : arguments[j].word # arguments[i].word
            /\ options[Field[arguments[i].word]] = parse(arguments[i + 1])
            /\ arguments[i].word \in saw
        BY <4>1, <1>2, Zenon DEF Parsed
      <4>3. arguments[i].word # o BY <4>2, <2>2
      <4>4. options'[Field[arguments[i].word]] = options[Field[arguments[i].word]]
        BY <4>2, <4>3, <2>7, Zenon
      <4> QED BY <4>2, <4>4
    <3> QED BY <3>1, <3>2
  <2>13. \A q \in PatternOption \ saw' : options'[Field[q]] = Defaults[Field[q]]
    <3>1. \A q \in PatternOption \ saw : options[Field[q]] = Defaults[Field[q]]
      BY <1>2, Zenon DEF Parsed
    <3>2. \A q \in PatternOption \ saw' : q \in PatternOption \ saw /\ q # o BY <2>1
    <3>3. \A q \in PatternOption : q # o => options'[Field[q]] = options[Field[q]] BY <2>7
    <3>4. ASSUME NEW q \in PatternOption \ saw' PROVE options'[Field[q]] = Defaults[Field[q]]
      <4>1. q \in PatternOption /\ q \in PatternOption \ saw /\ q # o BY <3>2
      <4>2. options[Field[q]] = Defaults[Field[q]] BY <4>1, <3>1, Zenon
      <4>3. options'[Field[q]] = options[Field[q]] BY <4>1, <3>3, Zenon
      <4> QED BY <4>2, <4>3
    <3> QED BY <3>4
  <2>14. Parsed(r)'
    BY <2>1, <2>8, <2>9, <2>11, <2>12, <2>13, ZenonT(30) DEF Parsed, Odd
  <2> QED BY <1>0, <2>1, <2>4, <2>6, <2>8, <2>14
<1> QED BY <1>7, <1>8
\* What Given and WellFormed say depends on the arguments alone.
GivenIn(a, o) ==
  LET places == {i \in 3 .. Len(a) - 1 : i % 2 = 1 /\ a[i].word = o}
  IN  IF places = {} THEN Defaults[Field[o]] ELSE parse(a[(CHOOSE i \in places : TRUE) + 1])

WellFormedIn(a) ==
  /\ Len(a) >= 2 /\ Len(a) % 2 = 0 /\ Dimensions(a[2])
  /\ \A i \in 3 .. Len(a) : i % 2 = 1 =>
       /\ a[i].word \in PatternOption
       /\ \A j \in 3 .. i - 1 : j % 2 = 1 => a[j].word # a[i].word
  /\ InRange([frames |-> GivenIn(a, "--frames"), queue_capacity |-> GivenIn(a, "--queue"),
              quality |-> GivenIn(a, "--quality")])

LEMMA SameArguments ==
  ASSUME UNCHANGED arguments
  PROVE  UNCHANGED <<PatternMode, WellFormed>> /\ \A o : Given(o)' = Given(o)
<1>1. \A o : Given(o) = GivenIn(arguments, o) BY Zenon DEF Given, GivenIn
<1>2. \A o : Given(o)' = GivenIn(arguments', o) BY Zenon DEF Given, GivenIn
<1>3. WellFormed <=> WellFormedIn(arguments) BY Zenon DEF WellFormed, WellFormedIn, Given, GivenIn
<1>4. WellFormed' <=> WellFormedIn(arguments')
  BY Zenon DEF WellFormed, WellFormedIn, Given, GivenIn
<1>5. UNCHANGED PatternMode BY Zenon DEF PatternMode
<1>6. WellFormed \in BOOLEAN /\ WellFormed' \in BOOLEAN BY Zenon DEF WellFormed
<1> QED BY <1>1, <1>2, <1>3, <1>4, <1>5, <1>6, Zenon

LEMMA SameAccepted ==
  ASSUME UNCHANGED <<arguments, options>>
  PROVE  Accepted' <=> Accepted
<1>1. UNCHANGED WellFormed /\ \A o : Given(o)' = Given(o) BY SameArguments
<1>2. InRange(options)' <=> InRange(options) BY Zenon DEF InRange
<1>3. Accepted' <=> /\ WellFormed' /\ InRange(options)'
                    /\ \A o \in PatternOption : options'[Field[o]] = Given(o)'
  BY DEF Accepted, PatternOption, Field
<1> QED BY <1>1, <1>2, <1>3, Zenon DEF Accepted

\* A step that leaves the arguments and the options alone.
LEMMA QuietOptions ==
  ASSUME OptionInv, UNCHANGED <<arguments, options, saw>>,
         pc' \notin {"args", "dimensions", "option"},
         PatternMode => pc' \in PatternPc \union {"exit"},
         pc' \in SimulationPc => pc \in SimulationPc,
         PatternMode => pc \in SimulationPc \/ (pc = "exit" /\ pc' = "exit"),
         \/ UNCHANGED outcome /\ (pc' = "exit" <=> pc = "exit")
         \/ PatternMode => outcome' # "usage" /\ pc \in SimulationPc
  PROVE  OptionInv'
<1>1. UNCHANGED <<PatternMode, WellFormed>> /\ (Accepted' <=> Accepted)
  BY SameArguments, SameAccepted, Zenon
<1>2. /\ pc' \in SimulationPc \/ (PatternMode /\ pc' = "exit" /\ outcome' # "usage") => Accepted
      /\ PatternMode /\ outcome' = "usage" => ~ WellFormed
  BY DEF OptionInv
<1>3. pc' \in SimulationPc => options.width \in Nat /\ options.height \in Nat BY DEF OptionInv
<1>4. /\ options = [f \in OptionField |-> options[f]] /\ options.encode \in BOOLEAN
  BY DEF OptionInv
<1>5. PatternMode => pc' \in PatternPc \union {"args", "exit"} BY Zenon
<1> QED BY <1>1, <1>2, <1>3, <1>4, <1>5, Zenon DEF OptionInv

LEMMA OptionStep == ASSUME HexInv, HexInv', OptionInv, [Next]_vars PROVE OptionInv'
<1>1. CASE UNCHANGED vars
  <2>1. UNCHANGED <<arguments, options, rest, saw, pc, outcome>> BY <1>1 DEF vars
  <2>2. UNCHANGED <<PatternMode, WellFormed>> /\ (Accepted' <=> Accepted)
    BY <2>1, SameArguments, SameAccepted, Zenon
  <2>3. ASSUME NEW p PROVE UNCHANGED Parsed(p) BY <2>1, ZenonT(30) DEF Parsed, parse
  <2>4. UNCHANGED Dimensions(arguments[2]) BY <2>1, Zenon DEF Dimensions
  <2> QED BY <2>1, <2>2, <2>3, <2>4, Zenon DEF OptionInv
<1>2. CASE parse_args
  <2>1. pc = "args" /\ UNCHANGED <<arguments, options, saw, outcome>> /\ outcome = "none"
    BY <1>2 DEF parse_args, Dispatch, HexInv
  <2>2. \/ pc' = "dimensions"
        \/ pc' \in {"observe", "argument", "open", "info", "gdbus"} /\ ~ PatternMode
    BY <1>2, Zenon DEF parse_args, Dispatch, ObserveMode, Invoked, PatternMode
  <2>3. UNCHANGED <<PatternMode>> BY <2>1, Zenon DEF PatternMode
  <2>4. pc' \notin SimulationPc /\ pc' # "option" /\ pc' # "exit"
        /\ (PatternMode => pc' \in PatternPc)
    BY <2>2 DEF SimulationPc, PatternPc
  <2>5. /\ options = [f \in OptionField |-> options[f]] /\ options.encode \in BOOLEAN
        /\ saw = {} /\ \A o \in PatternOption : options[Field[o]] = Defaults[Field[o]]
    BY <2>1 DEF OptionInv
  <2>6. outcome' # "usage" BY <2>1
  <2> QED BY <2>1, <2>3, <2>4, <2>5, <2>6, Zenon DEF OptionInv
<1>3. CASE PrintUsage
  <2>1. /\ UNCHANGED <<arguments, options, saw>> /\ pc' = "exit" /\ ~ PatternMode
    BY <1>3, Zenon DEF PrintUsage, Usage, Return, Command
  <2> QED BY <2>1, QuietOptions DEF PatternPc, SimulationPc
<1>4. CASE ParseDimensions
  <2>1. /\ pc = "dimensions" /\ UNCHANGED <<arguments, saw>> BY <1>4 DEF ParseDimensions
  <2>2. /\ PatternMode /\ outcome = "none" /\ arguments \in Seq(Argument)
        /\ arguments' \in Seq(Argument)
    BY <2>1 DEF HexInv, PatternPc
  <2>3. UNCHANGED <<PatternMode, WellFormed>>
    BY <2>1, SameArguments
  <2>4. /\ options = [f \in OptionField |-> options[f]] /\ options.encode \in BOOLEAN
        /\ saw = {} /\ \A o \in PatternOption : options[Field[o]] = Defaults[Field[o]]
    BY <2>1 DEF OptionInv
  <2>5. CASE Len(arguments) > 1 /\ Dimensions(arguments[2])
    <3> DEFINE w == arguments[2].parts[1]
               h == arguments[2].parts[2]
               e == Head(arguments).word = "--encode-plan"
               n == Len(arguments)
    <3>1. /\ options' = [options EXCEPT !.width = w, !.height = h, !.encode = e]
          /\ rest' = SubSeq(arguments, 3, n) /\ pc' = "option" /\ UNCHANGED outcome
      BY <1>4, <2>5, Zenon DEF ParseDimensions
    <3>2. w \in Nat /\ h \in Nat
      <4>1. n \in Nat /\ 2 \in 1 .. n BY <2>2, <2>5
      <4>2. arguments[2] \in Argument BY <2>2, <4>1, ElementIs, Zenon
      <4>3. arguments[2].parts \in Seq(Nat \union {Unparsable}) BY <4>2 DEF Argument
      <4> DEFINE s == arguments[2].parts
                 N == Nat \union {Unparsable}
      <4>4. Len(s) = 2 /\ Unparsable \notin Range(s) BY <2>5 DEF Dimensions
      <4>5. s \in Seq(N) BY <4>3
      <4> HIDE DEF s, N
      <4>6. s[1] \in N /\ s[2] \in N /\ 1 \in DOMAIN s /\ 2 \in DOMAIN s BY <4>4, <4>5
      <4>7. s[1] # Unparsable /\ s[2] # Unparsable BY <4>4, <4>6, Zenon DEF Range
      <4> QED BY <4>6, <4>7 DEF s, N
    <3>3. n \in Nat /\ n >= 2 BY <2>2, <2>5
    <3>4. e \in BOOLEAN OBVIOUS
    <3> HIDE DEF w, h, e
    <3>5. /\ options' = [f \in OptionField |-> options'[f]]
          /\ \A f \in OptionField :
               options'[f] = IF f = "width" THEN w ELSE IF f = "height" THEN h
                             ELSE IF f = "encode" THEN e ELSE options[f]
      <4> DEFINE g == [f \in OptionField |->
                         IF f = "width" THEN w ELSE IF f = "height" THEN h
                         ELSE IF f = "encode" THEN e ELSE options[f]]
      <4>1. DOMAIN options = OptionField BY <2>4
      <4>2. options' = g BY <3>1, <4>1, Zenon
      <4> QED BY <4>2
    <3>6. options'["width"] = w /\ options'["height"] = h /\ options'["encode"] = e
      BY <3>5 DEF OptionField
    <3>7. \A o \in PatternOption : options'[Field[o]] = Defaults[Field[o]]
      <4>1. \A o \in PatternOption : /\ Field[o] \in OptionField /\ Field[o] # "width"
                                     /\ Field[o] # "height" /\ Field[o] # "encode"
        BY Fields DEF OptionField
      <4> QED BY <2>4, <3>5, <4>1, Zenon
    <3>8. Parsed(3)'
      <4>1. /\ rest' \in Seq(Argument) /\ Len(rest') = n + 1 - 3
            /\ \A k \in 1 .. Len(rest') : rest'[k] = arguments[3 + k - 1]
        <5>1. 3 \in Nat /\ 1 <= 3 /\ 3 <= Len(arguments) + 1 BY <3>3
        <5>2. /\ SubSeq(arguments, 3, n) \in Seq(Argument)
              /\ Len(SubSeq(arguments, 3, n)) = n + 1 - 3
              /\ \A k \in 1 .. Len(SubSeq(arguments, 3, n)) :
                   SubSeq(arguments, 3, n)[k] = arguments[3 + k - 1]
          BY <2>2, <5>1, RestIs, ZenonT(30)
        <5> QED BY <5>2, <3>1, Zenon
      <4>2. \A i : i \notin Odd(3) BY DEF Odd
      <4>3. 3 \in Nat /\ 3 >= 3 /\ 3 <= n + 1 /\ 3 % 2 = 1 BY <3>3
      <4> QED BY <2>1, <2>4, <3>7, <4>1, <4>2, <4>3 DEF Parsed, Odd
    <3>9. Len(arguments)' >= 2 /\ Dimensions(arguments[2])' BY <2>1, <2>5, <3>3 DEF Dimensions
    <3>10. options.width' \in Nat /\ options.height' \in Nat /\ options.encode' \in BOOLEAN
      BY <3>2, <3>4, <3>6
    <3>11. pc' \in PatternPc /\ pc' \notin SimulationPc /\ pc' = "option" BY <3>1 DEF PatternPc, SimulationPc
    <3>12. outcome' # "usage" BY <3>1, <2>2
    <3>13. \E p \in Nat : Parsed(p)' BY <3>8
    <3> QED BY <3>5, <3>9, <3>10, <3>11, <3>12, <3>13 DEF OptionInv
  <2>6. CASE ~ (Len(arguments) > 1 /\ Dimensions(arguments[2]))
    <3>1. pc' = "exit" /\ outcome' = "usage" /\ UNCHANGED options
      BY <1>4, <2>6, Zenon DEF ParseDimensions, Usage, Return
    <3>2. ~ WellFormed BY <2>2, <2>6 DEF WellFormed
    <3>3. pc' \notin SimulationPc BY <3>1 DEF SimulationPc
    <3> QED BY <2>3, <2>4, <3>1, <3>2, <3>3 DEF OptionInv
  <2> QED BY <2>5, <2>6
<1>5. CASE ParseOption
  <2>1. pc = "option" /\ UNCHANGED <<arguments>> BY <1>5 DEF ParseOption
  <2>2. PatternMode /\ outcome = "none" BY <2>1 DEF HexInv, PatternPc
  <2>3. UNCHANGED <<PatternMode, WellFormed>>
    BY <2>1, SameArguments
  <2>4. /\ options' = [f \in OptionField |-> options'[f]]
        /\ UNCHANGED <<options.width, options.height, options.encode>>
        /\ \/ pc' = "exit" /\ outcome' = "usage" /\ ~ WellFormed
           \/ pc' = "option" /\ UNCHANGED outcome /\ \E p \in Nat : Parsed(p)'
    BY <1>5, ParseOptionStep
  <2>5. /\ options.width' \in Nat /\ options.height' \in Nat /\ options.encode' \in BOOLEAN
        /\ Len(arguments)' >= 2 /\ Dimensions(arguments[2])'
    BY <2>1, <2>4 DEF OptionInv, Dimensions
  <2>6. pc' \notin SimulationPc /\ pc' \in PatternPc \union {"exit"}
        /\ pc' # "args" /\ pc' # "dimensions"
    BY <2>4 DEF SimulationPc, PatternPc
  <2> QED BY <2>2, <2>3, <2>4, <2>5, <2>6, SMTT(30) DEF OptionInv
<1>6. CASE CheckOptions
  <2>1. pc = "option" /\ rest = <<>> /\ UNCHANGED <<arguments, options>>
    BY <1>6 DEF CheckOptions
  <2>2. PatternMode /\ outcome = "none" /\ arguments \in Seq(Argument)
    BY <2>1 DEF HexInv, PatternPc
  <2>3. PICK p \in Nat : Parsed(p) BY <2>1 DEF OptionInv
  <2>4. /\ Len(arguments) >= 2 /\ Dimensions(arguments[2])
        /\ options = [f \in OptionField |-> options[f]] /\ options.encode \in BOOLEAN
        /\ options.width \in Nat /\ options.height \in Nat
    BY <2>1 DEF OptionInv
  <2>5. /\ \A o \in PatternOption : options[Field[o]] = Given(o)
        /\ WellFormed <=> InRange(options)
    BY <2>1, <2>2, <2>3, <2>4, ParsedAll
  <2>6. UNCHANGED <<PatternMode, WellFormed>> /\ (Accepted' <=> Accepted)
    BY <2>1, SameArguments, SameAccepted, Zenon
  <2>7. \/ pc' = "layout" /\ UNCHANGED outcome /\ InRange(options)
        \/ pc' = "exit" /\ outcome' = "usage" /\ ~ InRange(options)
    BY <1>6, Zenon DEF CheckOptions, Usage, Return
  <2>8. InRange(options) => Accepted BY <2>5 DEF Accepted
  <2>9. pc' \in PatternPc \union {"exit"} /\ pc' # "option" /\ pc' # "args"
        /\ pc' # "dimensions" /\ ("exit" \notin SimulationPc)
    BY <2>7 DEF SimulationPc, PatternPc
  <2> QED BY <2>1, <2>2, <2>4, <2>5, <2>6, <2>7, <2>8, <2>9 DEF OptionInv
<1>7. CASE Simulate
  <2>1. UNCHANGED <<arguments, saw>> /\ simulate_pattern BY <1>7 DEF Simulate
  <2>2. /\ pc \in SimulationPc /\ UNCHANGED options
        /\ \/ pc' \in SimulationPc /\ UNCHANGED outcome
           \/ pc' = "exit" /\ outcome' \in SimulationOutcome
    BY <2>1, SimulationControl
  <2>3. outcome' \in SimulationOutcome => outcome' # "usage" BY Zenon DEF SimulationOutcome
  <2>4. pc' \notin {"args", "dimensions", "option"} /\ pc' \in PatternPc \union {"exit"}
        /\ pc # "exit" /\ (pc' \in SimulationPc => pc' # "exit")
    BY <2>2 DEF SimulationPc, PatternPc
  <2> QED BY <2>1, <2>2, <2>3, <2>4, QuietOptions
<1>8. CASE \/ TakeArgument \/ read_hex_file \/ ReadByte \/ EndOfRead \/ parse_hex \/ discover
           \/ Ends("decode", {"decoded", "packet"})
           \/ Ends("observe", {"observed", "usb"}) \/ Ends("info", {"printed"})
  <2>1. /\ UNCHANGED <<arguments, options, saw>>
        /\ pc \in {"argument", "open", "read", "hex", "decode", "observe", "info", "gdbus"}
        /\ pc' \in {"read", "hex", "decode", "exit"}
    BY <1>8, Zenon DEF TakeArgument, read_hex_file, ReadByte, EndOfRead, parse_hex, Return,
         discover, Ends
  <2>2. ~ PatternMode
    <3>1. pc \notin PatternPc \union {"args", "exit"} BY <2>1 DEF PatternPc, SimulationPc
    <3> QED BY <3>1 DEF OptionInv
  <2>3. pc' \notin {"args", "dimensions", "option"} /\ pc' \notin SimulationPc
    BY <2>1 DEF SimulationPc
  <2> QED BY <2>1, <2>2, <2>3, QuietOptions
<1> QED BY <1>1, <1>2, <1>3, <1>4, <1>5, <1>6, <1>7, <1>8 DEF Next, main, Done

LEMMA OptionInit == Init => OptionInv
<1> SUFFICES ASSUME Init PROVE OptionInv OBVIOUS
<1>1. options = Defaults /\ saw = {} /\ pc = "args" /\ outcome = "none" BY DEF Init
<1>2. options = [f \in OptionField |-> options[f]] BY <1>1, DefaultsDomain, Zenon
<1>3. options.encode \in BOOLEAN BY <1>1 DEF Defaults
<1>4. pc \notin SimulationPc BY <1>1 DEF SimulationPc
<1> QED BY <1>1, <1>2, <1>3, <1>4 DEF OptionInv

LEMMA OptionInvariance == Spec => []OptionInv
BY HexInvariance, OptionInit, OptionStep, PTL DEF Spec

\* parse_pattern_args accepts exactly the well-formed argument lists, and what
\* the simulation gets is what the list says, read by position.
THEOREM AsGiven == Spec => []OptionsAsGiven
<1>1. ASSUME HexInv, OptionInv PROVE OptionsAsGiven
  <2> SUFFICES ASSUME PatternMode, pc \notin {"args", "dimensions", "option"}
               PROVE  /\ exit_code # 2 <=> WellFormed
                      /\ WellFormed => \A o \in PatternOption : options[Field[o]] = Given(o)
    BY DEF OptionsAsGiven
  <2>1. exit_code # 2 <=> outcome # "usage" BY DEF exit_code
  <2>2. pc \in SimulationPc \/ pc = "exit" BY <1>1 DEF OptionInv, PatternPc
  <2>3. outcome = "usage" => ~ WellFormed BY <1>1 DEF OptionInv
  <2>4. pc \in SimulationPc => outcome # "usage" BY <1>1 DEF HexInv, SimulationPc
  <2>5. outcome # "usage" => Accepted BY <1>1, <2>2 DEF OptionInv
  <2> QED BY <2>1, <2>3, <2>5 DEF Accepted
<1> QED BY <1>1, HexInvariance, OptionInvariance, PTL
-----------------------------------------------------------------------------
(* simulate_pattern *)

LEMMA ProductNat == ASSUME NEW a \in Nat, NEW b \in Nat PROVE a * b \in Nat
OBVIOUS

LEMMA ProductGrows ==
  ASSUME NEW a \in Nat, NEW x \in Nat, NEW y \in Nat, x <= y
  PROVE  a * x <= a * y
<1>1. y - x \in Nat /\ y = x + (y - x) OBVIOUS
<1>2. a * (y - x) \in Nat BY <1>1, ProductNat, Zenon
<1>3. a * y = a * x + a * (y - x) BY <1>1
<1>4. a * x \in Nat BY ProductNat, Zenon
<1> QED BY <1>2, <1>3, <1>4

\* What FrameLayout::new accepts, validate accepts.
LEMMA LayoutValid ==
  ASSUME NEW w \in Nat, NEW h \in Nat, LayoutError(w, h) = "none"
  PROVE  validate(NewLayout(w, h)) /\ NewLayout(w, h).byte_len \in Nat
<1> DEFINE l == [width |-> w, height |-> h, stride |-> w * BGRX_BYTES_PER_PIXEL,
                 byte_len |-> w * BGRX_BYTES_PER_PIXEL * h]
<1>1. NewLayout(w, h) # InvalidLayout BY Zenon DEF LayoutError
<1>2. NewLayout(w, h) = l BY <1>1, Zenon DEF NewLayout
<1>3. l.width = w /\ l.height = h /\ l.byte_len = w * BGRX_BYTES_PER_PIXEL * h OBVIOUS
<1>4. w * BGRX_BYTES_PER_PIXEL \in Nat BY DEF BGRX_BYTES_PER_PIXEL
<1>5. l.byte_len \in Nat BY <1>3, <1>4, ProductNat
<1> HIDE DEF l
<1> QED BY <1>1, <1>2, <1>3, <1>5, Zenon DEF validate

SimulatedFrame(q) == [generation |-> 1, sequence |-> q]

\* s holds the n frames of generation 1 from sequence number q on.
Consecutive(s, q, n) ==
  /\ s \in Seq([generation : {1}, sequence : Nat]) /\ Len(s) = n
  /\ \A i \in 1 .. n : s[i] = SimulatedFrame(q + i - 1)

LEMMA ConsecutiveAppend ==
  ASSUME NEW s, NEW q \in Nat, NEW n \in Nat, Consecutive(s, q, n)
  PROVE  Consecutive(Append(s, SimulatedFrame(q + n)), q, n + 1)
<1> DEFINE S == [generation : {1}, sequence : Nat]
           x == SimulatedFrame(q + n)
<1>1. x \in S BY DEF SimulatedFrame
<1>2. s \in Seq(S) /\ Len(s) = n BY DEF Consecutive
<1>3. \A i \in 1 .. n : s[i] = SimulatedFrame(q + i - 1) BY DEF Consecutive
<1>4. x = SimulatedFrame(q + (n + 1) - 1)
  <2>1. q + (n + 1) - 1 = q + n OBVIOUS
  <2> QED BY <2>1, Zenon
<1> HIDE DEF x, S
<1>5. /\ Append(s, x) \in Seq(S) /\ Len(Append(s, x)) = n + 1
      /\ \A i \in 1 .. n : Append(s, x)[i] = s[i]
      /\ Append(s, x)[n + 1] = x
  BY <1>1, <1>2
<1>6. \A i \in 1 .. n + 1 : i \in 1 .. n \/ i = n + 1 OBVIOUS
<1>7. \A i \in 1 .. n + 1 : Append(s, x)[i] = SimulatedFrame(q + i - 1)
  BY <1>3, <1>4, <1>5, <1>6, Zenon
<1> QED BY <1>5, <1>7 DEF Consecutive, x, S

LEMMA ConsecutiveTail ==
  ASSUME NEW s, NEW q \in Nat, NEW n \in Nat, n # 0, Consecutive(s, q, n)
  PROVE  Head(s) = SimulatedFrame(q) /\ Consecutive(Tail(s), q + 1, n - 1)
<1> DEFINE S == [generation : {1}, sequence : Nat]
<1>2. s \in Seq(S) /\ Len(s) = n BY DEF Consecutive
<1>3. \A i \in 1 .. n : s[i] = SimulatedFrame(q + i - 1) BY DEF Consecutive
<1> HIDE DEF S
<1>4. /\ Head(s) = s[1] /\ Tail(s) \in Seq(S) /\ Len(Tail(s)) = n - 1
      /\ \A i \in 1 .. n - 1 : Tail(s)[i] = s[i + 1]
  BY <1>2
<1>5. ASSUME NEW i \in 1 .. n - 1 PROVE Tail(s)[i] = SimulatedFrame(q + 1 + i - 1)
  <2>1. i + 1 \in 1 .. n /\ q + (i + 1) - 1 = q + 1 + i - 1 OBVIOUS
  <2>2. s[i + 1] = SimulatedFrame(q + (i + 1) - 1) BY <2>1, <1>3, Zenon
  <2> QED BY <1>4, <2>1, <2>2
<1>6. s[1] = SimulatedFrame(q)
  <2>1. 1 \in 1 .. n /\ q + 1 - 1 = q OBVIOUS
  <2>2. s[1] = SimulatedFrame(q + 1 - 1) BY <2>1, <1>3, Zenon
  <2> QED BY <2>1, <2>2
<1> QED BY <1>4, <1>5, <1>6 DEF Consecutive, S

Kept(n) == MinOf(Capacity, n)

LEMMA KeptIs ==
  ASSUME NEW n \in Nat
  PROVE  /\ Kept(n) \in Nat /\ Kept(n) <= n /\ Kept(n) <= Capacity
         /\ Kept(n) # Capacity => Kept(n) = n /\ Kept(n + 1) = n + 1
         /\ Kept(n) = Capacity => Kept(n + 1) = Capacity
BY PipelineAssumption DEF Kept, MinOf

Fresh ==
  /\ generation = 0 /\ last_sequence = None /\ frames = <<>>
  /\ stats.accepted = 0 /\ stats.dropped_capacity = 0 /\ stats.dequeued = 0
  /\ sequence = 0 /\ output = <<>>

\* After some turns of the submit loop: the newest frames are queued.
Submitting ==
  /\ sequence <= options.frames /\ last_sequence = sequence - 1
  /\ Consecutive(frames, sequence - Kept(sequence), Kept(sequence))
  /\ stats.accepted = sequence /\ stats.dropped_capacity = sequence - Kept(sequence)
  /\ stats.dequeued = 0 /\ output = <<>>

Reported(n) ==
  output = [i \in 1 .. n |-> options.frames - Kept(options.frames) + i - 1]

\* After some turns of the take loop: what was taken, in order, is reported,
\* the frame in hand apart, and the rest is queued.
Taking ==
  LET kept == Kept(options.frames)
      dropped == options.frames - kept
      taken == stats.dequeued
  IN  /\ taken <= kept
      /\ Consecutive(frames, dropped + taken, kept - taken)
      /\ stats.accepted = options.frames /\ stats.dropped_capacity = dropped
      /\ pc = "take" => Reported(taken)
      /\ pc # "take" => /\ taken # 0 /\ Reported(taken - 1)
                        /\ hand = SimulatedFrame(dropped + taken - 1)

LatePc == {"submit", "take", "encode", "gate"}

SimulationInv ==
  /\ stats \in PipelineStats /\ sequence \in Nat
  /\ pc \notin LatePc \union {"exit"} => Fresh
  /\ pc \in {"work", "resident", "begin", "submit"} =>
       validate(layout) /\ layout.byte_len \in Nat
  /\ pc = "resident" =>
       /\ layout.byte_len * options.frames <= USIZE_MAX
       /\ layout.byte_len * options.frames <= MAX_PATTERN_WORK_BYTES
  /\ pc \in LatePc => generation = 1 /\ options.queue_capacity = Capacity
  /\ pc = "submit" => Submitting
  /\ pc \in {"take", "encode", "gate"} => Taking
  /\ NoImpossibleError
  /\ SummaryIsExact
\* A step that leaves the simulation alone, before it begins.
LEMMA QuietSimulation ==
  ASSUME SimulationInv, UNCHANGED <<simulation>>, pc \notin LatePc \union {"exit"},
         pc' \notin LatePc, pc' \notin {"work", "resident", "begin"},
         outcome' \notin {"resident overflow", "resident limit", "generation", "rejected",
                          "stale", "InconsistentLayout", "PixelLength", "quality",
                          "simulated"}
  PROVE  SimulationInv'
<1>1. UNCHANGED <<generation, last_sequence, frames, stats, sequence, output>>
  BY Zenon DEF simulation, queue
<1>2. stats \in PipelineStats /\ sequence \in Nat /\ Fresh BY Zenon DEF SimulationInv
<1>3. Fresh' BY <1>1, <1>2, Zenon DEF Fresh
<1>4. pc' # "submit" /\ pc' \notin {"take", "encode", "gate"} BY Zenon DEF LatePc
<1>5. NoImpossibleError' /\ SummaryIsExact' BY Zenon DEF NoImpossibleError, SummaryIsExact
<1>6. stats' \in PipelineStats /\ sequence' \in Nat BY <1>1, <1>2, Zenon
<1> QED BY <1>3, <1>4, <1>5, <1>6, Zenon DEF SimulationInv

\* What the statistics are after a call.
LEMMA CountersAre ==
  ASSUME stats \in PipelineStats
  PROVE  /\ \A n \in {stats.accepted, stats.dropped_capacity, stats.dequeued} : n \in Nat
         /\ \A n \in Nat : n < StatMax => SaturatingAdd(n, 1) = n + 1
BY PipelineAssumption DEF PipelineStats, Counter, SaturatingAdd

\* An accepted frame is queued behind the newest, and replaces the oldest one
\* of a full queue.
LEMMA SubmitStep ==
  ASSUME SimulationInv, Accepted, pc = "submit", sequence < options.frames, submit(Current)
  PROVE  /\ Acceptable(Current) /\ stats' \in PipelineStats /\ generation' = 1
         /\ last_sequence' = sequence
         /\ Consecutive(frames', (sequence + 1) - Kept(sequence + 1), Kept(sequence + 1))
         /\ stats.accepted' = sequence + 1
         /\ stats.dropped_capacity' = (sequence + 1) - Kept(sequence + 1)
         /\ stats.dequeued' = 0
<1>1. /\ stats \in PipelineStats /\ sequence \in Nat /\ generation = 1 /\ Submitting
  BY DEF SimulationInv, LatePc
<1>2. /\ last_sequence = sequence - 1
      /\ Consecutive(frames, sequence - Kept(sequence), Kept(sequence))
      /\ stats.accepted = sequence /\ stats.dropped_capacity = sequence - Kept(sequence)
      /\ stats.dequeued = 0
  BY <1>1 DEF Submitting
<1>3. Current = SimulatedFrame(sequence) BY DEF Current, SimulatedFrame
<1>4. Current.generation = 1 /\ Current.sequence = sequence BY DEF Current
<1>5. Acceptable(Current) BY <1>1, <1>2, <1>4 DEF Acceptable
<1>6. Enqueue(Current) \/ DropOldest(Current)
  BY <1>1, <1>2, <1>4 DEF submit, RejectGeneration, RejectSequence
<1>7. sequence < StatMax
  <2>1. options.frames \in 1 .. MAX_PATTERN_FRAMES BY DEF Accepted, InRange
  <2> QED BY <1>1, <2>1, SimulationAssumption, PipelineAssumption
<1>8. /\ Kept(sequence) \in Nat /\ Kept(sequence) <= sequence
      /\ Kept(sequence) # Capacity =>
           Kept(sequence) = sequence /\ Kept(sequence + 1) = sequence + 1
      /\ Kept(sequence) = Capacity => Kept(sequence + 1) = Capacity
  BY <1>1, KeptIs
<1>9. SaturatingAdd(sequence, 1) = sequence + 1
  BY <1>1, <1>7, CountersAre, Zenon
<1>10. sequence + 1 \in Counter
  BY <1>1, <1>7, PipelineAssumption DEF Counter
<1>11. Len(frames) = Kept(sequence) BY <1>2 DEF Consecutive
<1>12. CASE Enqueue(Current)
  <2>1. /\ last_sequence' = sequence /\ generation' = 1
        /\ stats' = [stats EXCEPT !.accepted = sequence + 1]
        /\ frames' = Append(frames, SimulatedFrame(sequence))
        /\ Kept(sequence) # Capacity
    BY <1>12, <1>1, <1>2, <1>3, <1>4, <1>9, <1>11 DEF Enqueue
  <2>2. Kept(sequence) = sequence /\ Kept(sequence + 1) = sequence + 1 BY <2>1, <1>8
  <2>3. Consecutive(frames, 0, sequence)
    <3>1. sequence - Kept(sequence) = 0 BY <2>2, <1>1
    <3> QED BY <3>1, <2>2, <1>2
  <2>4. Consecutive(frames', 0, sequence + 1)
    <3>1. 0 + sequence = sequence /\ 0 \in Nat BY <1>1
    <3>2. Consecutive(Append(frames, SimulatedFrame(0 + sequence)), 0, sequence + 1)
      BY <2>3, <3>1, <1>1, ConsecutiveAppend, Zenon
    <3> QED BY <2>1, <3>1, <3>2
  <2>5. /\ stats' \in PipelineStats /\ stats.accepted' = sequence + 1
        /\ stats.dropped_capacity' = stats.dropped_capacity
        /\ stats.dequeued' = stats.dequeued
    BY <1>1, <2>1, <1>10 DEF PipelineStats
  <2>6. (sequence + 1) - Kept(sequence + 1) = 0 /\ sequence - Kept(sequence) = 0
    BY <2>2, <1>1
  <2>7. Consecutive(frames', (sequence + 1) - Kept(sequence + 1), Kept(sequence + 1))
    BY <2>2, <2>4, <2>6
  <2> QED BY <1>2, <1>5, <2>1, <2>5, <2>6, <2>7
<1>13. CASE DropOldest(Current)
  <2> DEFINE d == sequence - Kept(sequence)
  <2>0. d \in Nat /\ d < StatMax /\ d + 1 \in Counter
    BY <1>1, <1>7, <1>8, PipelineAssumption DEF Counter
  <2>1. SaturatingAdd(stats.dropped_capacity, 1) = d + 1
    BY <1>1, <1>2, <2>0, CountersAre
  <2>2. /\ last_sequence' = sequence /\ generation' = 1
        /\ stats' = [stats EXCEPT !.accepted = sequence + 1, !.dropped_capacity = d + 1]
        /\ frames' = Append(Tail(frames), SimulatedFrame(sequence))
        /\ Kept(sequence) = Capacity
    BY <1>13, <1>1, <1>2, <1>3, <1>4, <1>9, <1>11, <2>1, Zenon DEF DropOldest
  <2>3. Kept(sequence + 1) = Capacity /\ sequence = d + Capacity
    BY <2>2, <1>8, <1>1, PipelineAssumption
  <2>4. Consecutive(frames, d, Capacity) BY <1>2, <2>2
  <2> HIDE DEF d
  <2>5. Consecutive(Tail(frames), d + 1, Capacity - 1)
    BY <2>0, <2>4, ConsecutiveTail, PipelineAssumption, Zenon
  <2>6. Consecutive(Append(Tail(frames), SimulatedFrame(d + 1 + (Capacity - 1))), d + 1,
                    Capacity - 1 + 1)
    <3>1. d + 1 \in Nat /\ Capacity - 1 \in Nat BY <2>0, PipelineAssumption
    <3> QED BY <3>1, <2>5, ConsecutiveAppend, Zenon
  <2>7. /\ d + 1 + (Capacity - 1) = sequence /\ Capacity - 1 + 1 = Capacity
        /\ (sequence + 1) - Kept(sequence + 1) = d + 1
    BY <2>0, <2>3, PipelineAssumption
  <2>8. /\ stats' \in PipelineStats /\ stats.accepted' = sequence + 1
        /\ stats.dropped_capacity' = d + 1
        /\ stats.dequeued' = stats.dequeued
    BY <1>1, <2>2, <1>10, <2>0, Zenon DEF PipelineStats
  <2>9. Consecutive(frames', d + 1, Capacity) BY <2>2, <2>6, <2>7
  <2> QED BY <1>2, <1>5, <2>2, <2>3, <2>7, <2>8, <2>9
<1> QED BY <1>6, <1>12, <1>13
\* A frame is taken, and reported or encoded.
LEMMA TakeStep ==
  ASSUME SimulationInv, Accepted, TakeFrame
  PROVE  /\ stats' \in PipelineStats /\ pc' \in {"take", "encode"} /\ Taking'
         /\ UNCHANGED <<generation, sequence, outcome>>
<1> DEFINE N == options.frames
           k == Kept(N)
           d == N - k
           t == stats.dequeued
<1>1. pc = "take" /\ stats \in PipelineStats /\ Taking
  BY DEF TakeFrame, SimulationInv
<1>2. /\ t <= k /\ Consecutive(frames, d + t, k - t)
      /\ stats.accepted = N /\ stats.dropped_capacity = d /\ Reported(t)
  BY <1>1 DEF Taking
<1>3. /\ stats' = [stats EXCEPT !.dequeued = SaturatingAdd(@, 1)]
      /\ frames' = Tail(frames) /\ hand' = Head(frames) /\ frames # <<>>
      /\ UNCHANGED <<generation, options, sequence, outcome>>
      /\ \/ pc' = "encode" /\ UNCHANGED output
         \/ pc' = "take" /\ output' = Append(output, Head(frames).sequence)
  BY <1>1 DEF TakeFrame, try_take
<1>4. N \in Nat /\ N <= StatMax
  <2>1. N \in 1 .. MAX_PATTERN_FRAMES BY DEF Accepted, InRange
  <2> QED BY <2>1, SimulationAssumption, PipelineAssumption
<1>5. k \in Nat /\ k <= N BY <1>4, KeptIs
<1>6. t \in Nat BY <1>1, CountersAre
<1>7. k - t # 0 /\ k - t \in Nat /\ d \in Nat /\ d + t \in Nat
  <2>1. Len(frames) = k - t /\ frames \in Seq([generation : {1}, sequence : Nat])
    BY <1>2 DEF Consecutive
  <2>2. Len(frames) # 0
    <3> DEFINE S == [generation : {1}, sequence : Nat]
    <3>1. frames \in Seq(S) BY <2>1
    <3> HIDE DEF S
    <3> QED BY <3>1, <1>3
  <2>3. k - t \in Nat /\ d \in Nat /\ d + t \in Nat BY <1>2, <1>4, <1>5, <1>6
  <2> QED BY <2>1, <2>2, <2>3
<1> HIDE DEF k, t
<1>8. Head(frames) = SimulatedFrame(d + t) /\ Consecutive(frames', d + t + 1, k - t - 1)
  BY <1>2, <1>3, <1>7, ConsecutiveTail, SMTT(30)
<1>9. /\ t + 1 \in Counter /\ SaturatingAdd(t, 1) = t + 1 /\ t + 1 <= k
  <2>1. t < StatMax /\ t + 1 <= k BY <1>2, <1>4, <1>5, <1>6, <1>7, PipelineAssumption
  <2>2. SaturatingAdd(t, 1) = t + 1 BY <2>1, <1>1, <1>6, CountersAre
  <2> QED BY <2>1, <2>2, <1>6, PipelineAssumption DEF Counter
<1>10. /\ stats' \in PipelineStats /\ stats.dequeued' = t + 1
       /\ stats.accepted' = N /\ stats.dropped_capacity' = d
  <2>1. stats' = [stats EXCEPT !.dequeued = t + 1] BY <1>3, <1>9 DEF t
  <2> QED BY <1>1, <1>2, <1>9, <2>1 DEF PipelineStats
<1>11. Consecutive(frames', d + (t + 1), k - (t + 1))
  <2>1. d + t + 1 = d + (t + 1) /\ k - t - 1 = k - (t + 1) BY <1>4, <1>5, <1>6, <1>7
  <2> QED BY <1>8, <2>1
<1>12. options.frames' = N /\ Kept(options.frames)' = k BY <1>3 DEF Kept, k, MinOf
<1>13. output = [i \in 1 .. t |-> d + i - 1] BY <1>2 DEF Reported, k
<1>14. ASSUME pc' = "take" PROVE output' = [i \in 1 .. t + 1 |-> d + i - 1]
  <2>1. output' = Append(output, d + t) BY <1>3, <1>8, <1>14 DEF SimulatedFrame
  <2>2. \A i \in 1 .. t : d + i - 1 \in Int BY <1>6, <1>7
  <2>3. output \in Seq(Int) /\ Len(output) = t BY <1>6, <1>13, <2>2
  <2>4. /\ output' \in Seq(Int) /\ Len(output') = t + 1
        /\ \A i \in 1 .. t : output'[i] = output[i]
        /\ output'[t + 1] = d + t
    BY <2>1, <2>3, <1>6, <1>7
  <2>5. \A i \in 1 .. t + 1 : output'[i] = d + i - 1 BY <1>6, <1>7, <1>13, <2>4, SMTT(30)
  <2>6. output' = [i \in 1 .. t + 1 |-> output'[i]] BY <2>4
  <2> QED BY <2>5, <2>6
<1>15. ASSUME pc' # "take"
       PROVE  /\ output' = [i \in 1 .. t |-> d + i - 1]
              /\ hand' = SimulatedFrame(d + (t + 1) - 1) /\ t + 1 # 0
  <2>1. d + (t + 1) - 1 = d + t /\ t + 1 # 0 BY <1>6, <1>7
  <2>2. UNCHANGED output BY <1>3, <1>15
  <2> QED BY <1>3, <1>8, <1>13, <2>1, <2>2
<1> HIDE DEF d, N
<1>18. Taking'
  <2>1. options.frames' - Kept(options.frames)' = d BY <1>12 DEF d
  <2>2. pc' = "take" => Reported(stats.dequeued)' BY <1>10, <1>14, <2>1 DEF Reported
  <2>3. ASSUME pc' # "take" PROVE Reported(stats.dequeued - 1)'
    <3>0. stats.dequeued' - 1 = t BY <1>6, <1>10
    <3>1. output' = [i \in 1 .. stats.dequeued' - 1 |-> d + i - 1] BY <3>0, <1>15, <2>3, SMTT(30)
    <3> QED BY <3>1, <2>1 DEF Reported
  <2>4. /\ stats.dequeued' <= Kept(options.frames)'
        /\ Consecutive(frames', d + stats.dequeued', Kept(options.frames)' - stats.dequeued')
        /\ stats.accepted' = options.frames' /\ stats.dropped_capacity' = d
        /\ pc' # "take" => /\ stats.dequeued' # 0
                           /\ hand' = SimulatedFrame(d + stats.dequeued' - 1)
    BY <1>9, <1>10, <1>11, <1>12, <1>15
  <2> QED BY <2>1, <2>2, <2>3, <2>4 DEF Taking
<1> QED BY <1>3, <1>10, <1>18

\* The frame in hand is reported.
LEMMA GateStep ==
  ASSUME SimulationInv, Accepted, PassGate
  PROVE  /\ pc' = "take" /\ Taking' /\ UNCHANGED <<queue, outcome, sequence>>
<1> DEFINE N == options.frames
           k == Kept(N)
           d == N - k
           t == stats.dequeued
<1>1. /\ pc = "gate" /\ stats \in PipelineStats /\ Taking /\ generation = 1
  BY DEF PassGate, SimulationInv, LatePc
<1>2. /\ t <= k /\ Consecutive(frames, d + t, k - t)
      /\ stats.accepted = N /\ stats.dropped_capacity = d
      /\ t # 0 /\ Reported(t - 1) /\ hand = SimulatedFrame(d + t - 1)
  BY <1>1 DEF Taking
<1>3. hand.generation = 1 /\ hand.sequence = d + t - 1 BY <1>2 DEF SimulatedFrame
<1>4. /\ pc' = "take" /\ output' = Append(output, d + t - 1)
      /\ UNCHANGED <<queue, outcome, options, sequence>>
  BY <1>1, <1>3 DEF PassGate, GenerationIsCurrent
<1>5. N \in Nat
  <2>1. N \in 1 .. MAX_PATTERN_FRAMES BY DEF Accepted, InRange
  <2> QED BY <2>1, SimulationAssumption
<1>6. k \in Nat /\ k <= N /\ t \in Nat BY <1>1, <1>5, KeptIs, CountersAre
<1>7. d \in Nat BY <1>5, <1>6
<1>8. output = [i \in 1 .. t - 1 |-> d + i - 1] BY <1>2 DEF Reported
<1> HIDE DEF k, t, d
<1>9. output' = [i \in 1 .. t |-> d + i - 1]
  <2>1. \A i \in 1 .. t - 1 : d + i - 1 \in Int BY <1>6, <1>7
  <2>2. t - 1 \in Nat BY <1>2, <1>6
  <2>3. output \in Seq(Int) /\ Len(output) = t - 1 BY <2>2, <1>8, <2>1
  <2>4. /\ output' \in Seq(Int) /\ Len(output') = t
        /\ \A i \in 1 .. t - 1 : output'[i] = output[i]
        /\ output'[t] = d + t - 1
    BY <1>4, <2>2, <2>3, <1>6, <1>7
  <2>5. ASSUME NEW i \in 1 .. t PROVE output'[i] = d + i - 1
    <3>1. CASE i = t BY <3>1, <2>4
    <3>2. CASE i # t
      <4>1. i \in 1 .. t - 1 BY <3>2, <1>6
      <4>2. output[i] = d + i - 1 BY <4>1, <1>8
      <4> QED BY <4>1, <4>2, <2>4
    <3> QED BY <3>1, <3>2
  <2>6. output' = [i \in 1 .. t |-> output'[i]] BY <2>4
  <2> QED BY <2>5, <2>6
<1>10. UNCHANGED <<frames, stats, options>> BY <1>4 DEF queue
<1>11. options.frames' = N /\ Kept(options.frames)' = k /\ stats.dequeued' = t
  BY <1>10 DEF Kept, k, t, MinOf
<1>12. options.frames' - Kept(options.frames)' = d BY <1>11, SMTT(30) DEF d
<1>13. Taking'
  BY <1>2, <1>4, <1>9, <1>10, <1>11, <1>12, Zenon DEF Taking, Reported
<1> QED BY <1>4, <1>13
LEMMA SimulationStep ==
  ASSUME HexInv, OptionInv, SimulationInv, [Next]_vars PROVE SimulationInv'
<1> DEFINE Impossible == {"resident overflow", "resident limit", "generation", "rejected",
                          "stale", "InconsistentLayout", "PixelLength", "quality"}
<1>0. /\ stats \in PipelineStats /\ sequence \in Nat /\ NoImpossibleError /\ SummaryIsExact
  BY DEF SimulationInv
<1>1. CASE UNCHANGED vars
  <2>1. /\ UNCHANGED <<generation, last_sequence, frames, stats, options, layout, pc>>
        /\ UNCHANGED <<sequence, hand, output, outcome>>
    BY <1>1 DEF vars, simulation, queue
  <2>2. Fresh' <=> Fresh BY <2>1, SMTT(30) DEF Fresh
  <2>3. Submitting' <=> Submitting BY <2>1, SMTT(30) DEF Submitting, Kept, Consecutive, SimulatedFrame
  <2>4. Taking' <=> Taking BY <2>1, ZenonT(30) DEF Taking, Reported, Kept, Consecutive, SimulatedFrame
  <2>5. validate(layout)' <=> validate(layout) BY <2>1 DEF validate
  <2>6. NoImpossibleError' <=> NoImpossibleError BY <2>1, SMTT(30) DEF NoImpossibleError
  <2>7. SummaryIsExact' <=> SummaryIsExact
    BY <2>1 DEF SummaryIsExact, resident_frames, snapshot, MinOf
  <2> QED BY <2>1, <2>2, <2>3, <2>4, <2>5, <2>6, <2>7 DEF SimulationInv
<1>2. CASE Simulate
  <2>0. simulate_pattern /\ Followed BY <1>2 DEF Simulate
  <2>1. pc \in SimulationPc /\ UNCHANGED options BY <2>0, SimulationControl
  <2>2. Accepted /\ options.width \in Nat /\ options.height \in Nat /\ outcome = "none"
    BY <2>1, SMTT(30) DEF OptionInv, HexInv, SimulationPc
  <2>3. /\ options.frames \in Nat /\ options.queue_capacity \in Nat
        /\ options.quality \in 1 .. 100
    BY <2>2, SimulationAssumption DEF Accepted, InRange, MAX_QUEUE_CAPACITY
  <2>4. outcome' = outcome => NoImpossibleError' /\ SummaryIsExact'
    BY <2>2, SMTT(30) DEF NoImpossibleError, SummaryIsExact
  \* An error ends the program.
  <2>5. ASSUME pc' = "exit", outcome' \notin Impossible, outcome' # "simulated",
               stats' \in PipelineStats, sequence' \in Nat
        PROVE  SimulationInv'
    <3>1. NoImpossibleError' /\ SummaryIsExact' BY <2>5, Zenon DEF NoImpossibleError, SummaryIsExact
    <3> QED BY <2>5, <3>1, ZenonT(30) DEF SimulationInv, LatePc
  <2>6. UNCHANGED <<queue, sequence, output>> => stats' \in PipelineStats /\ sequence' \in Nat
        /\ (Fresh => Fresh')
    BY <1>0 DEF queue, Fresh
  <2>7. CASE CheckLayout
    <3> DEFINE w == options.width
               h == options.height
    <3>1. pc = "layout" /\ layout' = NewLayout(w, h) /\ UNCHANGED <<queue, sequence, output>>
      BY <2>7 DEF CheckLayout
    <3>2. Fresh BY <3>1 DEF SimulationInv, LatePc
    <3>3. CASE LayoutError(w, h) # "none"
      <4>1. pc' = "exit" /\ outcome' = LayoutError(w, h)
        BY <2>7, <3>3, Zenon DEF CheckLayout, Return
      <4>2. LayoutError(w, h) \in {"ZeroDimension", "DimensionTooLarge", "FrameTooLarge", "none"}
        BY Zenon DEF LayoutError
      <4>3. outcome' \in {"ZeroDimension", "DimensionTooLarge", "FrameTooLarge", "none"}
        BY <4>1, <4>2, ZenonT(30)
      <4> QED BY <2>5, <2>6, <3>1, <4>1, <4>3, Zenon
    <3>4. CASE LayoutError(w, h) = "none"
      <4>1. pc' = "work" /\ UNCHANGED outcome
        BY <2>7, <3>4, Zenon DEF CheckLayout
      <4>2. validate(layout') /\ layout'.byte_len \in Nat
        BY <3>1, <3>4, <2>2, LayoutValid, Zenon
      <4>3. validate(layout)' /\ layout.byte_len' \in Nat BY <4>2 DEF validate
      <4> QED BY <2>4, <2>6, <3>1, <3>2, <4>1, <4>3 DEF SimulationInv, LatePc
    <3> QED BY <3>3, <3>4
  <2>8. CASE CheckWork
    <3> DEFINE product == layout.byte_len * options.frames
    <3>1. pc = "work" /\ UNCHANGED <<queue, sequence, output, layout, options>>
      BY <2>8, Zenon DEF CheckWork
    <3>2. Fresh /\ validate(layout) /\ layout.byte_len \in Nat
      BY <3>1 DEF SimulationInv, LatePc
    <3>3. product \in Nat BY <3>2, <2>3, ProductNat
    <3>4. \/ pc' = "exit" /\ outcome' \in {"work overflow", "work limit"}
          \/ /\ pc' = "resident" /\ UNCHANGED outcome
             /\ ~ (product > USIZE_MAX) /\ ~ (product > MAX_PATTERN_WORK_BYTES)
      BY <2>8, Zenon DEF CheckWork, Checked, Return
    <3>5. CASE pc' = "exit" /\ outcome' \in {"work overflow", "work limit"}
      BY <3>5, <2>5, <2>6, <3>1, ZenonT(30)
    <3>6. CASE /\ pc' = "resident" /\ UNCHANGED outcome
               /\ ~ (product > USIZE_MAX) /\ ~ (product > MAX_PATTERN_WORK_BYTES)
      <4>1. product <= USIZE_MAX /\ product <= MAX_PATTERN_WORK_BYTES
        BY <3>3, <3>6, SimulationAssumption
      <4>2. layout.byte_len' * options.frames' = product BY <3>1
      <4>3. validate(layout)' /\ layout.byte_len' \in Nat BY <3>1, <3>2, SMTT(30) DEF validate
      <4> QED BY <2>4, <2>6, <3>1, <3>2, <3>6, <4>1, <4>2, <4>3, SMTT(30) DEF SimulationInv, LatePc
    <3> QED BY <3>4, <3>5, <3>6, Zenon
  <2>9. CASE CheckResident
    <3> DEFINE product == layout.byte_len * resident_frames
    <3>1. pc = "resident" /\ UNCHANGED <<queue, sequence, output, layout, options>>
      BY <2>9, Zenon DEF CheckResident
    <3>2. /\ Fresh /\ validate(layout) /\ layout.byte_len \in Nat
          /\ layout.byte_len * options.frames <= USIZE_MAX
          /\ layout.byte_len * options.frames <= MAX_PATTERN_WORK_BYTES
      BY <3>1 DEF SimulationInv, LatePc
    <3>3. resident_frames \in Nat /\ resident_frames <= options.frames
      BY <2>3 DEF resident_frames, MinOf
    <3>4. product <= layout.byte_len * options.frames
      BY <2>3, <3>2, <3>3, ProductGrows, Zenon
    <3>5. product \in Nat /\ layout.byte_len * options.frames \in Nat
      BY <2>3, <3>2, <3>3, ProductNat, ZenonT(30)
    <3>6. ~ (product > USIZE_MAX) /\ ~ (product > MAX_PATTERN_WORK_BYTES)
      BY <3>2, <3>4, <3>5, SimulationAssumption
    <3>7. pc' = "begin" /\ UNCHANGED outcome
      BY <2>9, <3>6, ZenonT(30) DEF CheckResident, Checked
    <3>8. validate(layout)' /\ layout.byte_len' \in Nat BY <3>1, <3>2 DEF validate
    <3> QED BY <2>4, <2>6, <3>1, <3>2, <3>7, <3>8 DEF SimulationInv, LatePc
  <2>10. CASE BeginGeneration
    <3>1. pc = "begin" /\ UNCHANGED <<sequence, output, layout, options>>
      BY <2>10 DEF BeginGeneration
    <3>2. Fresh /\ validate(layout) /\ layout.byte_len \in Nat
      BY <3>1 DEF SimulationInv, LatePc
    <3>3. ~ GenerationNotIncreasing(1) BY <3>2 DEF Fresh, GenerationNotIncreasing
    <3>4. /\ pc' = "submit" /\ UNCHANGED outcome
          /\ stats' = [stats EXCEPT !.discarded_generation = SaturatingAdd(@, Len(frames))]
          /\ frames' = <<>> /\ generation' = 1 /\ last_sequence' = None
      BY <2>10, <3>3 DEF BeginGeneration, begin_generation
    <3>5. SaturatingAdd(stats.discarded_generation, Len(frames)) \in Counter
      BY <1>0, <3>2, PipelineAssumption DEF Fresh, SaturatingAdd, PipelineStats, Counter
    <3>6. /\ stats' \in PipelineStats /\ stats.accepted' = 0
          /\ stats.dropped_capacity' = 0 /\ stats.dequeued' = 0
      BY <1>0, <3>2, <3>4, <3>5 DEF Fresh, PipelineStats
    <3>7. sequence' = 0 /\ output' = <<>> BY <3>1, <3>2 DEF Fresh
    <3>8. Kept(0) = 0 BY PipelineAssumption DEF Kept, MinOf
    <3>9. Consecutive(<<>>, 0, 0) BY DEF Consecutive
    <3>10. Submitting'
      <4>1. Kept(sequence)' = 0 BY <3>7, <3>8 DEF Kept, MinOf
      <4>2. Consecutive(frames', 0, 0) BY <3>4, <3>9
      <4>3. /\ sequence' <= options.frames' /\ last_sequence' = sequence' - 1
        BY <2>3, <3>1, <3>4, <3>7 DEF None
      <4>4. sequence' - Kept(sequence)' = 0 BY <4>1, <3>7
      <4> QED BY <3>6, <3>7, <4>1, <4>2, <4>3, <4>4 DEF Submitting
    <3>11. options.queue_capacity' = Capacity BY <2>0, <3>1 DEF Followed
    <3>12. validate(layout)' /\ layout.byte_len' \in Nat BY <3>1, <3>2 DEF validate
    <3>13. sequence' \in Nat BY <3>7
    <3> QED BY <2>4, <3>4, <3>6, <3>10, <3>11, <3>12, <3>13 DEF SimulationInv, LatePc
  <2>11. CASE SubmitFrame
    <3>1. /\ pc = "submit" /\ sequence < options.frames
          /\ UNCHANGED <<options, layout, output>>
      BY <2>11 DEF SubmitFrame
    <3>2. /\ validate(layout) /\ layout.byte_len \in Nat /\ generation = 1 /\ Submitting
          /\ options.queue_capacity = Capacity
      BY <3>1 DEF SimulationInv, LatePc
    <3>3. from_bgrx(layout, layout.byte_len) = "none" BY <3>2, Zenon DEF from_bgrx
    <3>4. CASE Return("allocation") /\ UNCHANGED <<queue, sequence>>
      <4>1. stats' \in PipelineStats /\ sequence' \in Nat BY <3>4, <1>0 DEF queue
      <4>2. pc' = "exit" /\ outcome' = "allocation" BY <3>4, SMTT(30) DEF Return
      <4> QED BY <2>5, <4>1, <4>2
    <3>5. CASE /\ submit(Current)
               /\ IF Acceptable(Current)
                    THEN sequence' = sequence + 1 /\ UNCHANGED <<pc, outcome>>
                    ELSE Return("rejected") /\ UNCHANGED sequence
      <4>1. /\ Acceptable(Current) /\ stats' \in PipelineStats /\ generation' = 1
            /\ last_sequence' = sequence
            /\ Consecutive(frames', (sequence + 1) - Kept(sequence + 1), Kept(sequence + 1))
            /\ stats.accepted' = sequence + 1
            /\ stats.dropped_capacity' = (sequence + 1) - Kept(sequence + 1)
            /\ stats.dequeued' = 0
        BY <2>2, <3>1, <3>5, SubmitStep
      <4>2. sequence' = sequence + 1 /\ UNCHANGED <<pc, outcome>> BY <3>5, <4>1
      <4>4. Submitting'
        <5>1. sequence' <= options.frames' /\ last_sequence' = sequence' - 1
          BY <1>0, <2>3, <3>1, <4>1, <4>2
        <5>2. output' = <<>> BY <3>1, <3>2 DEF Submitting
        <5>3. /\ Consecutive(frames', sequence' - Kept(sequence'), Kept(sequence'))
              /\ stats.accepted' = sequence' /\ stats.dequeued' = 0
              /\ stats.dropped_capacity' = sequence' - Kept(sequence')
          <6> DEFINE q == sequence + 1
          <6>1. /\ Consecutive(frames', q - Kept(q), Kept(q)) /\ stats.dequeued' = 0
                /\ stats.accepted' = q /\ stats.dropped_capacity' = q - Kept(q)
            BY <4>1
          <6>2. sequence' = q BY <4>2
          <6> HIDE DEF q
          <6> QED BY <6>1, <6>2
        <5> QED BY <5>1, <5>2, <5>3 DEF Submitting, Kept, MinOf
      <4>5. validate(layout)' /\ layout.byte_len' \in Nat BY <3>1, <3>2 DEF validate
      <4>6. sequence' \in Nat BY <1>0, <4>2
      <4>7. options.queue_capacity' = Capacity BY <3>1, <3>2
      <4> QED BY <2>4, <3>1, <4>1, <4>2, <4>4, <4>5, <4>6, <4>7, SMTT(30) DEF SimulationInv, LatePc
    <3> QED BY <2>11, <3>3, <3>4, <3>5, SMTT(30) DEF SubmitFrame
  <2>12. CASE Submitted
    <3>1. /\ pc = "submit" /\ sequence >= options.frames
          /\ UNCHANGED <<queue, options, sequence, output>>
          /\ \/ pc' = "exit" /\ outcome' = "encoder"
             \/ pc' = "take" /\ UNCHANGED outcome
      BY <2>12, Zenon DEF Submitted, Return
    <3>2. generation = 1 /\ Submitting /\ options.queue_capacity = Capacity
      BY <3>1 DEF SimulationInv, LatePc
    <3>3. stats' \in PipelineStats /\ sequence' \in Nat BY <2>6, <3>1
    <3>4. CASE pc' = "exit" /\ outcome' = "encoder" BY <2>5, <3>3, <3>4, SMTT(30)
    <3>5. CASE pc' = "take" /\ UNCHANGED outcome
      <4> DEFINE N == options.frames
                 d == N - Kept(N)
      <4>1. sequence = N BY <1>0, <2>3, <3>1, <3>2 DEF Submitting
      <4>2. /\ Consecutive(frames, d, Kept(N)) /\ stats.accepted = N
            /\ stats.dropped_capacity = d /\ stats.dequeued = 0 /\ output = <<>>
        BY <3>2, <4>1 DEF Submitting
      <4>3. Kept(N) \in Nat /\ d \in Nat BY <2>3, KeptIs
      <4>4. UNCHANGED <<frames, stats, generation>> BY <3>1 DEF queue
      <4>5. options.frames' = N /\ Kept(options.frames)' = Kept(N)
        BY <3>1 DEF Kept, MinOf
      <4>6. Reported(stats.dequeued)'
        <5>1. output' = <<>> /\ stats.dequeued' = 0 BY <3>1, <4>2, <4>4
        <5>2. output' = [i \in 1 .. stats.dequeued' |->
                           options.frames' - Kept(options.frames)' + i - 1]
          BY <5>1
        <5> QED BY <5>2 DEF Reported
      <4>7. /\ stats.dequeued' <= Kept(options.frames)'
            /\ Consecutive(frames', options.frames' - Kept(options.frames)' + stats.dequeued',
                           Kept(options.frames)' - stats.dequeued')
            /\ stats.accepted' = options.frames'
            /\ stats.dropped_capacity' = options.frames' - Kept(options.frames)'
        <5>1. d + 0 = d /\ Kept(N) - 0 = Kept(N) /\ 0 <= Kept(N) BY <4>3
        <5> HIDE DEF d
        <5>2. options.frames' - Kept(options.frames)' = d BY <4>5 DEF d
        <5> QED BY <4>2, <4>4, <4>5, <5>1, <5>2
      <4>8. Taking' BY <3>5, <4>6, <4>7 DEF Taking
      <4>9. generation' = 1 /\ options.queue_capacity' = Capacity BY <3>1, <3>2, <4>4
      <4> QED BY <2>4, <3>3, <3>5, <4>8, <4>9 DEF SimulationInv, LatePc
    <3> QED BY <3>1, <3>4, <3>5
  <2>13. CASE TakeFrame
    <3>1. /\ stats' \in PipelineStats /\ pc' \in {"take", "encode"} /\ Taking'
          /\ UNCHANGED <<generation, sequence, outcome>>
      BY <2>2, <2>13, TakeStep
    <3>2. pc = "take" BY <2>13 DEF TakeFrame
    <3>3. generation = 1 /\ options.queue_capacity = Capacity
      BY <3>2 DEF SimulationInv, LatePc
    <3>4. generation' = 1 /\ options.queue_capacity' = Capacity BY <2>1, <3>1, <3>3
    <3>5. sequence' \in Nat BY <1>0, <3>1
    <3> QED BY <2>4, <3>1, <3>4, <3>5 DEF SimulationInv, LatePc
  <2>14. CASE EncodeFrame
    <3>1. /\ pc = "encode" /\ UNCHANGED <<queue, options, sequence, hand, output>>
          /\ \/ pc' = "exit" /\ outcome' = "encode"
             \/ pc' = "gate" /\ UNCHANGED outcome
      BY <2>3, <2>14, Zenon DEF EncodeFrame, Return
    <3>2. generation = 1 /\ Taking /\ options.queue_capacity = Capacity
      BY <3>1 DEF SimulationInv, LatePc
    <3>3. stats' \in PipelineStats /\ sequence' \in Nat BY <2>6, <3>1
    <3>4. CASE pc' = "exit" /\ outcome' = "encode" BY <2>5, <3>3, <3>4, SMTT(30)
    <3>5. CASE pc' = "gate" /\ UNCHANGED outcome
      <4>1. UNCHANGED <<frames, stats, generation>> BY <3>1, SMTT(30) DEF queue
      <4>2. Taking' BY <3>1, <3>2, <3>5, <4>1, ZenonT(30)
        DEF Taking, Reported, Kept, Consecutive, SimulatedFrame
      <4>3. generation' = 1 /\ options.queue_capacity' = Capacity BY <3>1, <3>2, <4>1, SMTT(30)
      <4> QED BY <2>4, <3>3, <3>5, <4>2, <4>3 DEF SimulationInv, LatePc
    <3> QED BY <3>1, <3>4, <3>5
  <2>15. CASE PassGate
    <3>1. pc' = "take" /\ Taking' /\ UNCHANGED <<queue, outcome, sequence>>
      BY <2>2, <2>15, GateStep
    <3>2. pc = "gate" BY <2>15 DEF PassGate
    <3>3. generation = 1 /\ options.queue_capacity = Capacity
      BY <3>2 DEF SimulationInv, LatePc
    <3>4. /\ generation' = 1 /\ options.queue_capacity' = Capacity
          /\ stats' \in PipelineStats /\ sequence' \in Nat
      BY <1>0, <2>1, <3>1, <3>3, SMTT(30) DEF queue
    <3> QED BY <2>4, <3>1, <3>4 DEF SimulationInv, LatePc
  <2>16. CASE Summarise
    <3>1. /\ pc = "take" /\ frames = <<>> /\ UNCHANGED <<queue, options, sequence, output>>
          /\ pc' = "exit" /\ outcome' = "simulated"
      BY <2>16 DEF Summarise, Return
    <3>2. Taking /\ options.queue_capacity = Capacity BY <3>1, SMTT(30) DEF SimulationInv, LatePc
    <3> DEFINE N == options.frames
               k == Kept(N)
               d == N - k
    <3>3. /\ stats.dequeued <= k /\ Consecutive(frames, d + stats.dequeued, k - stats.dequeued)
          /\ stats.accepted = N /\ stats.dropped_capacity = d
          /\ output = [i \in 1 .. stats.dequeued |-> d + i - 1]
      BY <3>1, <3>2, SMTT(30) DEF Taking, Reported
    <3>4. k \in Nat /\ stats.dequeued \in Nat BY <1>0, <2>3, KeptIs, CountersAre
    <3>5. stats.dequeued = k
      <4>1. Len(frames) = k - stats.dequeued BY <3>3 DEF Consecutive
      <4>2. Len(frames) = 0 BY <3>1
      <4> QED BY <3>4, <4>1, <4>2
    <3>6. resident_frames = k BY <2>3, <3>2 DEF resident_frames, Kept
    <3>7. UNCHANGED <<frames, stats, options, output>> BY <3>1 DEF queue
    <3>8. resident_frames' = k /\ options.frames' = N BY <3>6, <3>7, SMTT(30) DEF resident_frames, MinOf
    <3>9. /\ snapshot.queued' = 0 /\ snapshot.stats.accepted' = N
          /\ snapshot.stats.dequeued' = k /\ snapshot.stats.dropped_capacity' = d
      BY <3>1, <3>3, <3>5, <3>7, SMTT(30) DEF snapshot
    <3>10. output' = [i \in 1 .. k |-> d + i - 1] BY <3>3, <3>5, <3>7, SMTT(30)
    <3>11. SummaryIsExact' BY <3>8, <3>9, <3>10 DEF SummaryIsExact
    <3>12. NoImpossibleError' BY <3>1 DEF NoImpossibleError
    <3>13. stats' \in PipelineStats /\ sequence' \in Nat BY <2>6, <3>1
    <3> QED BY <3>1, <3>11, <3>12, <3>13 DEF SimulationInv, LatePc
  <2> QED BY <2>0, <2>7, <2>8, <2>9, <2>10, <2>11, <2>12, <2>13, <2>14, <2>15, <2>16
          DEF simulate_pattern
<1>3. CASE parse_args \/ PrintUsage \/ ParseDimensions \/ ParseOption \/ CheckOptions
  <2>1. /\ UNCHANGED <<simulation>> /\ pc \in {"args", "dimensions", "option"}
        /\ pc' \in {"observe", "argument", "open", "info", "gdbus", "dimensions", "option",
                    "layout", "exit"}
        /\ UNCHANGED outcome \/ outcome' = "usage"
    BY <1>3, ZenonT(30) DEF parse_args, Dispatch, PrintUsage, ParseDimensions, ParseOption,
         CheckOptions, Usage, Return
  <2>2. outcome = "none" BY <2>1 DEF HexInv
  <2> QED BY <2>1, <2>2, QuietSimulation, Zenon DEF LatePc
<1>4. CASE \/ TakeArgument \/ read_hex_file \/ ReadByte \/ EndOfRead \/ parse_hex \/ discover
           \/ Ends("decode", {"decoded", "packet"})
           \/ Ends("observe", {"observed", "usb"}) \/ Ends("info", {"printed"})
  <2> DEFINE Other == {"open", "metadata", "length", "read", "limit", "encoding", "usage",
                       "hex", "decoded", "packet", "observed", "usb", "printed", "execute",
                       "gdbus", "version", "compatible", "incompatible"}
  <2>1. /\ UNCHANGED <<simulation>>
        /\ pc \in {"argument", "open", "read", "hex", "decode", "observe", "info", "gdbus"}
        /\ pc' \in {"read", "hex", "decode", "exit"}
    BY <1>4, Zenon DEF TakeArgument, read_hex_file, ReadByte, EndOfRead, parse_hex, Return,
         discover, Ends
  <2>2. UNCHANGED outcome \/ outcome' \in Other
    <3>1. CASE TakeArgument \/ read_hex_file \/ ReadByte
      BY <3>1 DEF TakeArgument, read_hex_file, ReadByte, Return
    <3>2. CASE EndOfRead BY <3>2, Zenon DEF EndOfRead, Return
    <3>3. CASE parse_hex BY <3>3, ZenonT(30) DEF parse_hex, Return
    <3>4. CASE \/ Ends("decode", {"decoded", "packet"}) \/ Ends("info", {"printed"})
               \/ Ends("observe", {"observed", "usb"})
               \/ discover
      BY <3>4 DEF discover, Ends, Return
    <3> QED BY <1>4, <3>1, <3>2, <3>3, <3>4, SMTT(30)
  <2>3. outcome = "none" BY <2>1 DEF HexInv
  <2> QED BY <2>1, <2>2, <2>3, QuietSimulation, ZenonT(30) DEF LatePc
<1> QED BY <1>1, <1>2, <1>3, <1>4 DEF Next, main, Done

LEMMA SimulationInitially == Init => SimulationInv
<1> SUFFICES ASSUME Init PROVE SimulationInv OBVIOUS
<1>1. new(0) /\ sequence = 0 /\ output = <<>> /\ pc = "args" /\ outcome = "none"
  BY SMTT(30) DEF Init, SimulationInit
<1>2. Fresh BY <1>1, SMTT(30) DEF new, Fresh
<1>3. stats \in PipelineStats
  BY <1>1, PipelineAssumption DEF new, PipelineStats, Counter
<1>4. NoImpossibleError /\ SummaryIsExact BY <1>1 DEF NoImpossibleError, SummaryIsExact
<1> QED BY <1>1, <1>2, <1>3, <1>4 DEF SimulationInv, LatePc

LEMMA SimulationInvariance == Spec => []SimulationInv
BY HexInvariance, OptionInvariance, SimulationInitially, SimulationStep, PTL DEF Spec

\* What parse_pattern_args and the checks before the loops establish excludes
\* the errors that simulate_pattern still tests for, for every limit on the
\* work, every layout and every list of options.
THEOREM Unreachable == Spec => []NoImpossibleError
<1>1. SimulationInv => NoImpossibleError BY DEF SimulationInv
<1> QED BY <1>1, SimulationInvariance, PTL

\* A simulation that succeeds reports the newest frames, oldest first, and
\* counters that agree with them, whatever the number of frames and the
\* capacity.
THEOREM ExactSummary == Spec => []SummaryIsExact
<1>1. SimulationInv => SummaryIsExact BY DEF SimulationInv
<1> QED BY <1>1, SimulationInvariance, PTL
=============================================================================
