---------------------------- MODULE MCCommandLine ----------------------------
(***************************************************************************)
(* CommandLine on the argument lists below: every mode, complete and       *)
(* incomplete; dimensions on both sides of each limit; options in every    *)
(* order, repeated, unknown, without a value, and out of range.            *)
(***************************************************************************)
EXTENDS CommandLine

Word(w) == [word |-> w, parts |-> <<Unparsable>>, hex |-> <<NotHex>>]
Number(n) == [word |-> "", parts |-> <<n>>, hex |-> <<n % 10>>]
Hex(digits) == [word |-> "", parts |-> <<Unparsable>>, hex |-> digits]
Size(parts) == [word |-> "", parts |-> parts, hex |-> <<NotHex>>]

Sizes == {Size(<<1, 1>>), Size(<<1, 3>>), Size(<<5, 1>>), Size(<<5, 3>>),
          Size(<<0, 3>>), Size(<<16385, 1>>), Size(<<4096, 4096>>), Size(<<1, Unparsable>>), Number(3),
          Size(<<1, 2, 3>>)}

Options == {Word("--frames"), Word("--queue"), Word("--quality")}
Values == {Number(0), Number(1), Number(2), Number(5), Number(8)}
Pair(option, value) == <<option, value>>
Tails ==
  {<<>>, <<Word("--frames")>>, <<Word("--colour"), Number(1)>>,
   <<Word("--queue"), Word("two")>>, <<Word("--quality"), Number(101)>>,
   <<Word("--queue"), Number(257)>>, <<Word("--queue"), Number(256)>>,
   <<Word("--frames"), Number(2), Word("--queue")>>}
  \union {Pair(o, v) : o \in Options, v \in Values}
  \union {Pair(o, Number(v)) \o Pair(p, Number(w)) :
            o \in Options, p \in Options, v \in {1, 2}, w \in {0, 7}}
  \union {Pair(o[1], Number(2)) \o Pair(o[2], Number(2)) \o Pair(o[3], Number(2)) :
            o \in [1 .. 3 -> Options]}

PatternLists ==
  {<<Word(m)>> : m \in {"--pattern", "--encode-plan"}}
  \union {<<Word(m), s>> \o t : m \in {"--pattern", "--encode-plan"}, s \in Sizes, t \in Tails}

OtherLists ==
  {<<>>, <<Word("--help")>>, <<Word("--observe")>>, <<Word("--observe"), Word("--duration")>>,
   <<Word("--decode-hex")>>, <<Word("--decode-hex-file"), Word("-")>>,
   <<Word("--decode-hex-file"), Word("packet.hex")>>,
   <<Word("--protocol-info")>>, <<Word("--protocol-info"), Word("--observe")>>,
   <<Word("--screen-cast-version")>>}
  \union {<<Word("--observe"), Word("--duration"), v>> : v \in {Number(0), Number(1), Word("x")}}
  \union {<<Word("--decode-hex"), Hex(d)>> :
            d \in UNION {[1 .. n -> {0, 10, 15, Separator, NotHex}] : n \in 0 .. 4}}

MCArguments == PatternLists \union OtherLists
=============================================================================
