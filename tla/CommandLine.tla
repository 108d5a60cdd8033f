------------------------------ MODULE CommandLine ------------------------------
(***************************************************************************)
(* main of rust/src/main.rs: parse_args and what it dispatches to.  The    *)
(* pattern commands go on with PatternSimulation; hexadecimal input is     *)
(* read and converted here, byte by byte, from an argument, a file that    *)
(* may grow or be a device, or a pipe.  What observe and decode do is in   *)
(* UsbObserver and Decode; here they, and the ScreenCast query, end in one *)
(* of their outcomes.                                                      *)
(*                                                                         *)
(* An argument is its word, the numbers between its x's (Unparsable where  *)
(* there is none, or one that does not fit) and its characters.  A         *)
(* character is a hexadecimal digit's value or one of three classes.       *)
(***************************************************************************)
EXTENDS PatternSimulation, Functions

CONSTANTS
  Arguments,            \* the argument lists that occur
  InputBytes,           \* the characters a file or pipe may hold
  MAX_HEX_TEXT_BYTES

VARIABLES
  arguments,
  rest,       \* the options that parse_pattern_args has not looked at
  saw,        \* saw_frames, saw_queue, saw_quality
  text,       \* text_bytes, or the characters of the argument
  ended,      \* read_to_end saw the end of the input, not its own limit
  packet      \* the bytes parse_hex made of the text

input == <<text, ended, packet>>
simulation == <<queue, layout, sequence, hand, output>>
vars == <<simulation, options, arguments, rest, saw, input, pc, outcome>>

Unparsable == -1
Separator == 16     \* ASCII white space or a colon
NotHex == 17        \* any other UTF-8 text
NotUtf8 == 18

\* An argument is a String, and thus UTF-8.
Argument == [word : STRING, parts : Seq(Nat \union {Unparsable}), hex : Seq(0 .. NotHex)]

ASSUME CommandAssumption ==
  /\ MAX_HEX_TEXT_BYTES \in Nat
  /\ Arguments \subseteq Seq(Argument)
  /\ InputBytes \subseteq 0 .. NotUtf8

MAX_QUEUE_CAPACITY == 256

PatternOption == {"--frames", "--queue", "--quality"}

Field == [o \in PatternOption |->
  IF o = "--frames" THEN "frames" ELSE IF o = "--queue" THEN "queue_capacity" ELSE "quality"]

\* DEFAULT_PATTERN_FRAMES, DEFAULT_QUEUE_CAPACITY, DEFAULT_JPEG_QUALITY
Defaults == [width |-> 0, height |-> 0, frames |-> 6, queue_capacity |-> 2,
             quality |-> 80, encode |-> FALSE]

\* str::parse
parse(argument) == IF Len(argument.parts) = 1 THEN argument.parts[1] ELSE Unparsable

Init ==
  /\ arguments \in Arguments
  /\ SimulationInit
  /\ options = Defaults
  /\ rest = <<>> /\ saw = {}
  /\ text = <<>> /\ ended = FALSE /\ packet = <<>>
  /\ pc = "args"
  /\ outcome = "none"

-----------------------------------------------------------------------------
(* parse_args: its errors are outcome "usage" *)

Usage == Return("usage")

Invoked(mode, n) == Len(arguments) = n /\ arguments[1].word = mode

PatternMode == arguments # <<>> /\ arguments[1].word \in {"--pattern", "--encode-plan"}

ObserveMode ==
  \/ Invoked("--observe", 1)
  \/ /\ Invoked("--observe", 3)
     /\ arguments[2].word = "--duration" /\ parse(arguments[3]) > 0

Dispatch(next) ==
  /\ pc = "args" /\ pc' = next
  /\ UNCHANGED <<simulation, options, arguments, rest, saw, input, outcome>>

parse_args ==
  \/ ObserveMode /\ Dispatch("observe")
  \/ Invoked("--decode-hex", 2) /\ Dispatch("argument")
  \/ Invoked("--decode-hex-file", 2) /\ Dispatch("open")
  \/ Invoked("--protocol-info", 1) /\ Dispatch("info")
  \/ Invoked("--screen-cast-version", 1) /\ Dispatch("gdbus")
  \/ PatternMode /\ Dispatch("dimensions")

Command ==
  \/ ObserveMode \/ PatternMode
  \/ Invoked("--decode-hex", 2) \/ Invoked("--decode-hex-file", 2)
  \/ Invoked("--protocol-info", 1) \/ Invoked("--screen-cast-version", 1)

PrintUsage ==
  /\ pc = "args" /\ ~ Command
  /\ Usage
  /\ UNCHANGED <<simulation, options, arguments, rest, saw, input>>

-----------------------------------------------------------------------------
(* parse_pattern_args *)

\* Two numbers with one x between them.
Dimensions(argument) ==
  Len(argument.parts) = 2 /\ Unparsable \notin Range(argument.parts)

ParseDimensions ==
  /\ pc = "dimensions"
  /\ IF Len(arguments) > 1 /\ Dimensions(arguments[2])
       THEN /\ options' = [options EXCEPT !.width = arguments[2].parts[1],
                                          !.height = arguments[2].parts[2],
                                          !.encode = Head(arguments).word = "--encode-plan"]
            /\ rest' = SubSeq(arguments, 3, Len(arguments))
            /\ pc' = "option" /\ UNCHANGED outcome
       ELSE Usage /\ UNCHANGED <<options, rest>>
  /\ UNCHANGED <<simulation, arguments, saw, input>>

\* Mutant: an option may be given again.
BugRepeatedOption(option) == option \in PatternOption

NewOption(option) == option \in PatternOption \ saw

\* One turn of the loop: an option and its value.
ParseOption ==
  /\ pc = "option" /\ rest # <<>>
  /\ IF Len(rest) > 1 /\ NewOption(rest[1].word) /\ parse(rest[2]) # Unparsable
       THEN /\ options' = [options EXCEPT ![Field[rest[1].word]] = parse(rest[2])]
            /\ saw' = saw \union {rest[1].word}
            /\ rest' = SubSeq(rest, 3, Len(rest))
            /\ UNCHANGED <<pc, outcome>>
       ELSE Usage /\ UNCHANGED <<options, saw, rest>>
  /\ UNCHANGED <<simulation, arguments, input>>

InRange(given) ==
  /\ given.frames \in 1 .. MAX_PATTERN_FRAMES
  /\ given.queue_capacity \in 1 .. MAX_QUEUE_CAPACITY
  /\ given.quality \in 1 .. 100

CheckOptions ==
  /\ pc = "option" /\ rest = <<>>
  /\ IF InRange(options) THEN pc' = "layout" /\ UNCHANGED outcome ELSE Usage
  /\ UNCHANGED <<simulation, options, arguments, rest, saw, input>>

-----------------------------------------------------------------------------
(* Hexadecimal input *)

TakeArgument ==
  /\ pc = "argument"
  /\ text' = arguments[2].hex /\ ended' = TRUE
  /\ pc' = "hex"
  /\ UNCHANGED <<simulation, options, arguments, rest, saw, packet, outcome>>

\* read_hex_file: standard input is read at once; a file may not open, its
\* metadata may not be read, and the length in them, which need not be that
\* of what is read later, may exceed the limit.
read_hex_file ==
  /\ pc = "open"
  /\ \/ pc' = "read" /\ UNCHANGED outcome
     \/ arguments[2].word # "-" /\ \E e \in {"open", "metadata", "length"} : Return(e)
  /\ UNCHANGED <<simulation, options, arguments, rest, saw, input>>

\* Mutant: take(limit).
BugTakeLimit == MAX_HEX_TEXT_BYTES

read_limit == MAX_HEX_TEXT_BYTES + 1

\* read_to_end gets another byte.
ReadByte ==
  /\ pc = "read" /\ Len(text) < read_limit
  /\ \E byte \in InputBytes : text' = Append(text, byte)
  /\ UNCHANGED <<simulation, options, arguments, rest, saw, ended, packet, pc, outcome>>

\* read_to_end returns: at the limit without asking for more, or at the end of
\* the input, or with an error.  Then the length and the encoding are checked.
EndOfRead ==
  /\ pc = "read"
  /\ \/ /\ Len(text) < read_limit
        /\ Return("read") /\ UNCHANGED ended
     \/ /\ ended' = (Len(text) < read_limit)
        /\ IF Len(text) > MAX_HEX_TEXT_BYTES THEN Return("limit")
           ELSE IF NotUtf8 \in Range(text) THEN Return("encoding")
           ELSE pc' = "hex" /\ UNCHANGED outcome
  /\ UNCHANGED <<simulation, options, arguments, rest, saw, text, packet>>

\* The digits of an input, and whatever else in it is no separator.
nibbles(characters) ==
  LET N[i \in 0 .. Len(characters)] ==
        IF i = 0 THEN <<>>
        ELSE IF characters[i] = Separator THEN N[i - 1]
        ELSE Append(N[i - 1], characters[i])
  IN  N[Len(characters)]

\* chunks_exact(2)
Pairs(digits) == [i \in 1 .. Len(digits) \div 2 |-> 16 * digits[2 * i - 1] + digits[2 * i]]

\* Mutant: the digits need not be even in number.
BugOddDigits(digits) == NotHex \notin Range(digits)

ValidDigits(digits) == NotHex \notin Range(digits) /\ Len(digits) % 2 = 0

\* An error is one of parse_args for --decode-hex.
parse_hex ==
  /\ pc = "hex"
  /\ IF ValidDigits(nibbles(text))
       THEN packet' = Pairs(nibbles(text)) /\ pc' = "decode" /\ UNCHANGED outcome
       ELSE /\ Return(IF Invoked("--decode-hex", 2) THEN "usage" ELSE "hex")
            /\ UNCHANGED packet
  /\ UNCHANGED <<simulation, options, arguments, rest, saw, text, ended>>

-----------------------------------------------------------------------------
(* The other commands *)

Ends(at, outcomes) ==
  /\ pc = at /\ \E o \in outcomes : Return(o)
  /\ UNCHANGED <<simulation, options, arguments, rest, saw, input>>

\* gdbus does not start, fails or prints no UTF-8 text; or it prints a version,
\* which parse_version_output may not find and which may be too old.
discover ==
  Ends("gdbus", {"execute", "gdbus", "encoding", "version", "compatible", "incompatible"})

Successes == {"observed", "decoded", "printed", "simulated", "compatible", "incompatible"}

exit_code == IF outcome = "usage" THEN 2 ELSE IF outcome \in Successes THEN 0 ELSE 1

\* The queue of the model holds Capacity frames: a simulation with another
\* capacity is followed as far as its checks.
Followed == pc = "begin" => options.queue_capacity = Capacity

Simulate ==
  /\ Followed
  /\ simulate_pattern
  /\ UNCHANGED <<arguments, rest, saw, input>>

Done == (pc = "exit" \/ ~ Followed) /\ UNCHANGED vars

main ==
  \/ parse_args \/ PrintUsage
  \/ ParseDimensions \/ ParseOption \/ CheckOptions \/ Simulate
  \/ TakeArgument \/ read_hex_file \/ ReadByte \/ EndOfRead \/ parse_hex
  \/ Ends("decode", {"decoded", "packet"})
  \/ Ends("observe", {"observed", "usb"})
  \/ Ends("info", {"printed"})
  \/ discover

Next == main \/ Done

Spec == Init /\ [][Next]_vars
-----------------------------------------------------------------------------
(* Properties *)

\* read_hex_text never holds more than one byte above MAX_HEX_TEXT_BYTES,
\* however long the input, and a packet is only decoded from text that is
\* within the limit and was read to the end of the input: a file that grows
\* after its length was checked, or a pipe, is refused rather than cut off.
AcceptedTextIsWhole ==
  /\ Invoked("--decode-hex-file", 2) => Len(text) <= MAX_HEX_TEXT_BYTES + 1
  /\ pc = "decode" =>
       ended /\ (Invoked("--decode-hex-file", 2) => Len(text) <= MAX_HEX_TEXT_BYTES)

\* The {:02x} of print_protocol_info.
format(bytes) ==
  [i \in 1 .. 2 * Len(bytes) |->
     LET byte == bytes[(i + 1) \div 2] IN IF i % 2 = 1 THEN byte \div 16 ELSE byte % 16]

\* parse_hex loses and invents nothing: formatted the way print_protocol_info
\* formats packets, what is decoded is the digits of the input again, every
\* value is a byte, and a text of digits and separators is refused only when
\* its digits are odd in number.
HexIsLossless ==
  /\ pc = "decode" => format(packet) = nibbles(text) /\ Range(packet) \subseteq 0 .. 255
  /\ /\ outcome = "hex" \/ (outcome = "usage" /\ Invoked("--decode-hex", 2))
     /\ Range(nibbles(text)) \subseteq 0 .. 15
     => Len(nibbles(text)) % 2 = 1

\* What the arguments say of an option, read by position and not in a loop.
Given(option) ==
  LET places == {i \in 3 .. Len(arguments) - 1 : i % 2 = 1 /\ arguments[i].word = option}
  IN  IF places = {} THEN Defaults[Field[option]]
      ELSE parse(arguments[(CHOOSE i \in places : TRUE) + 1])

WellFormed ==
  /\ Len(arguments) >= 2 /\ Len(arguments) % 2 = 0 /\ Dimensions(arguments[2])
  /\ \A i \in 3 .. Len(arguments) : i % 2 = 1 =>
       /\ arguments[i].word \in PatternOption
       /\ \A j \in 3 .. i - 1 : j % 2 = 1 => arguments[j].word # arguments[i].word
  /\ InRange([frames |-> Given("--frames"), queue_capacity |-> Given("--queue"),
              quality |-> Given("--quality")])

\* parse_pattern_args accepts exactly the well-formed lists (each option at
\* most once, in any order, every value within its range), and the simulation
\* gets what they say; anything else is reported by exit code 2 and nothing
\* else is.
OptionsAsGiven ==
  PatternMode /\ pc \notin {"args", "dimensions", "option"} =>
    /\ exit_code # 2 <=> WellFormed
    /\ WellFormed => \A o \in PatternOption : options[Field[o]] = Given(o)
=============================================================================
