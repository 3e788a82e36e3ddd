------------------------------- MODULE CmdLine -------------------------------
(***************************************************************************)
(* parse_options of src/src/cmdline.c: one walk over argv, in which a word *)
(* is the name of an option, the value of the one before it, a positional  *)
(* argument, or nothing that the program knows.                            *)
(*                                                                         *)
(* An option is known by the variable of main that it points to.  A word   *)
(* is a string; what the conversions make of it is data of the input, as   *)
(* far as the C library decides it, and so are the names of the options.   *)
(***************************************************************************)
EXTENDS Integers, SequencesExt

CONSTANTS
  CommandLines,   (* the inputs: argv without the program's name           *)
  named_options,  (* sequence of [names, type, var]                    *)
  pos_options,    (* the same, for positional arguments                    *)
  Dashed,         (* the words longer than one character that begin with - *)
  strtoul,        (* strtoul[base][word]                                   *)
  RegTuple,       (* RegTuple[word]: the numbers of a hex:ulong:ulong word *)
  ULONG_MAX,      (* what strtoul returns when a number is out of range    *)
  OffsetRange,    (* 2^16: values of tcg_instruction_offset                *)
  OperandRange    (* 2^8: values of operand_index                          *)

NULL == "NULL"

VARIABLES
  argv,           (* the input, never changed                              *)
  i,              (* the loop index                                        *)
  pos_index,      (* positional arguments taken so far                     *)
  parsed,         (* the options with `parsed' set                         *)
  value,          (* the variables that the options point to               *)
  parse           (* "running", or what parse_options returned             *)

cmdVars == <<argv, i, pos_index, parsed, value, parse>>

AllOptions == named_options \o pos_options
Options == Range(named_options) \cup Range(pos_options)

(* Each option points to a variable of its own.                            *)
ASSUME CmdLineAssumption ==
  /\ named_options \in Seq(Range(named_options)) /\ pos_options \in Seq(Range(pos_options))
  /\ \A o \in Options : o.type \in {"STR", "BOOL", "ULONG", "HEX", "REG_TUPLE"}
  /\ \A j, k \in DOMAIN AllOptions : AllOptions[j].var = AllOptions[k].var => j = k

(* A number that strtoul returns is an unsigned long; no word is NULL.     *)
ASSUME WordsAssumption ==
  /\ ULONG_MAX \in Nat /\ {OffsetRange, OperandRange} \subseteq Nat \ {0}
  /\ \A line \in CommandLines :
       /\ line \in Seq(Range(line)) /\ NULL \notin Range(line)
       /\ \A word \in Range(line), base \in {10, 16} : strtoul[base][word] \in 0 .. ULONG_MAX
  /\ \A word \in DOMAIN RegTuple : RegTuple[word] \in [1 .. 3 -> Nat]

Default(option) ==
  CASE option.type = "STR"           -> NULL
    [] option.type = "BOOL"          -> FALSE
    [] option.type \in {"ULONG", "HEX"} -> 0
    [] option.type = "REG_TUPLE"     -> [present |-> FALSE]

CmdInit ==
  /\ argv \in CommandLines
  /\ i = 1 /\ pos_index = 0 /\ parsed = {} /\ parse = "running"
  /\ value = [v \in {o.var : o \in Options} |->
                Default(CHOOSE o \in Options : o.var = v)]

-----------------------------------------------------------------------------
(* What parse_option stores for a word: nothing when there is no word or   *)
(* it is not a register tuple.  A number out of range is refused too, but  *)
(* after it was stored; what is refused is only reported.  The parts of a  *)
(* tuple are cut to the width of their fields.                             *)
Converted(type, word) ==
  IF type = "BOOL" THEN {TRUE}
  ELSE IF word = NULL THEN {}
  ELSE CASE type = "STR"   -> {word}
         [] type = "ULONG" -> {strtoul[10][word]}
         [] type = "HEX"   -> {strtoul[16][word]}
         [] type = "REG_TUPLE" ->
              {[present |-> TRUE, address |-> RegTuple[w][1],
                offset |-> RegTuple[w][2] % OffsetRange,
                operand |-> RegTuple[w][3] % OperandRange] : w \in {word} \cap DOMAIN RegTuple}

(* The options that a word names and that were not given yet.              *)
MatchingAny(word) ==                               (* mutant of Matching   *)
  {j \in DOMAIN named_options : word \in named_options[j].names}

Matching(word) ==
  {j \in DOMAIN named_options :
     word \in named_options[j].names /\ named_options[j].var \notin parsed}

parse_option(option, word) ==
  /\ parsed' = parsed \cup {option.var}
  /\ LET stored == Converted(option.type, word)
     IN  value' = [value EXCEPT ![option.var] =
                     IF stored = {} THEN @ ELSE CHOOSE x \in stored : TRUE]

Parsing == parse = "running" /\ i <= Len(argv)

(* A word with a dash names an option that has not been given yet; the     *)
(* first such.  The word after it is its value unless it takes none.       *)
NamedTakesNone ==                                  (* mutant of Named      *)
  /\ Parsing /\ argv[i] \in Dashed
  /\ \E j \in Matching(argv[i]) :
       LET option == named_options[j]
           valued == i < Len(argv) /\ option.type # "BOOL"
       IN  /\ \A k \in Matching(argv[i]) : j <= k
           /\ parse_option(option, IF valued THEN argv[i + 1] ELSE NULL)
           /\ i' = i + 1
  /\ UNCHANGED <<argv, pos_index, parse>>

Named ==
  /\ Parsing /\ argv[i] \in Dashed
  /\ \E j \in Matching(argv[i]) :
       LET option == named_options[j]
           valued == i < Len(argv) /\ option.type # "BOOL"
       IN  /\ \A k \in Matching(argv[i]) : j <= k
           /\ parse_option(option, IF valued THEN argv[i + 1] ELSE NULL)
           /\ i' = IF valued THEN i + 2 ELSE i + 1
  /\ UNCHANGED <<argv, pos_index, parse>>

(* A word with a dash that names nothing, or an option given before.       *)
UnknownStays ==                                    (* mutant of Unknown    *)
  /\ Parsing /\ argv[i] \in Dashed /\ Matching(argv[i]) = {}
  /\ UNCHANGED cmdVars

Unknown ==
  /\ Parsing /\ argv[i] \in Dashed /\ Matching(argv[i]) = {}
  /\ i' = i + 1
  /\ UNCHANGED <<argv, pos_index, parsed, value, parse>>

Positional ==
  /\ Parsing /\ argv[i] \notin Dashed /\ pos_index < Len(pos_options)
  /\ parse_option(pos_options[pos_index + 1], argv[i])
  /\ pos_index' = pos_index + 1
  /\ i' = i + 1
  /\ UNCHANGED <<argv, parse>>

TooMany ==
  /\ Parsing /\ argv[i] \notin Dashed /\ pos_index = Len(pos_options)
  /\ parse' = "false"
  /\ UNCHANGED <<argv, i, pos_index, parsed, value>>

(* All words are read.  Options that are required and missing are only     *)
(* reported.                                                               *)
ParseEnd ==
  /\ parse = "running" /\ i > Len(argv)
  /\ parse' = "true"
  /\ UNCHANGED <<argv, i, pos_index, parsed, value>>

parse_options == Named \/ Unknown \/ Positional \/ TooMany \/ ParseEnd

-----------------------------------------------------------------------------
(* The words that option o takes when it is named, or stands, at k.        *)
Words(o, k) ==
  IF o \in Range(named_options) /\ o.type # "BOOL" /\ k < Len(argv) THEN {k, k + 1} ELSE {k}

(* What option o is set to when it takes the words from k on.              *)
SetFrom(o, k) ==
  LET word == IF o \in Range(pos_options) THEN argv[k]
              ELSE IF k < Len(argv) THEN argv[k + 1] ELSE NULL
      stored == Converted(o.type, word)
  IN  IF stored = {} THEN {Default(o)} ELSE stored

(* Where it can have been set: the words are read, and it is set to that.  *)
Place(o) ==
  {k \in 1 .. Len(argv) : /\ argv[k] \in o.names \/ o \in Range(pos_options)
                          /\ value[o.var] \in SetFrom(o, k)
                          /\ \A w \in Words(o, k) : w < i}

(* Every option that is set owes this to words of its own: a name, and the *)
(* word after it, that no other option has used.  So no word is both a     *)
(* value and a file, and no value is split between two options.  Of        *)
(* src/src/cmdline.c:66-113.                                               *)
EachWordOnce ==
  LET ways[n \in 0 .. Len(AllOptions)] ==  (* the words that n options can use *)
        IF n = 0 THEN {{}}
        ELSE IF AllOptions[n].var \notin parsed THEN ways[n - 1]
        ELSE UNION {{used \cup Words(AllOptions[n], k) :
                       used \in {u \in ways[n - 1] : u \cap Words(AllOptions[n], k) = {}}} :
                     k \in Place(AllOptions[n])}
  IN  ways[Len(AllOptions)] # {}

(* The first mention of an option decides: a later one does not change     *)
(* what it was set to, even when its value was refused.  Of                *)
(* src/src/cmdline.c:76-78.                                                *)
FirstWins == [][\A v \in parsed : v \in parsed' /\ value'[v] = value[v]]_cmdVars
=============================================================================
