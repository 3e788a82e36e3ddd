---------------------------- MODULE DriverProofs ----------------------------
(***************************************************************************)
(* Facts about whole runs of main, for every command line, all files and   *)
(* every lifter: the first mention of an option decides, nothing is read   *)
(* from memory that may have been given to something else, the exit status *)
(* can be relied on, and of a file that is whole only its bytes are lifted. *)
(***************************************************************************)
EXTENDS Driver, NumberLemmas, SequenceTheorems, TLAPS

-----------------------------------------------------------------------------
(* The command line.  An option is set only while it is not parsed: a      *)
(* named one because Matching says so, a positional one because those are  *)
(* taken in order and no two options point to one variable.                *)

CmdInv ==
  /\ DOMAIN value = {o.var : o \in Options} /\ parsed \subseteq DOMAIN value
  /\ pos_index \in 0 .. Len(pos_options)
  /\ \A k \in 1 .. Len(pos_options) : k > pos_index => pos_options[k].var \notin parsed

(* The options with the domains of their sequences as ranges of numbers.   *)
LEMMA AllOptionsAre ==
  /\ Len(named_options) \in Nat /\ Len(pos_options) \in Nat
  /\ DOMAIN named_options = 1 .. Len(named_options)
  /\ DOMAIN pos_options = 1 .. Len(pos_options)
  /\ Len(AllOptions) = Len(named_options) + Len(pos_options)
  /\ DOMAIN AllOptions = 1 .. Len(AllOptions)
  /\ \A j \in 1 .. Len(named_options) :
       j \in DOMAIN AllOptions /\ AllOptions[j] = named_options[j]
  /\ \A j \in 1 .. Len(pos_options) :
       /\ Len(named_options) + j \in DOMAIN AllOptions
       /\ AllOptions[Len(named_options) + j] = pos_options[j]
<1> DEFINE n == Len(named_options)
           p == Len(pos_options)
<1>1. /\ n \in Nat /\ p \in Nat
      /\ DOMAIN named_options = 1 .. n /\ DOMAIN pos_options = 1 .. p
  BY CmdLineAssumption, LenProperties
<1>2. named_options \in Seq(Options) /\ pos_options \in Seq(Options)
  BY CmdLineAssumption, SeqMonotonic DEF Options
<1>3. /\ AllOptions \in Seq(Options) /\ Len(AllOptions) = n + p
      /\ \A j \in 1 .. n + p :
           AllOptions[j] = IF j <= n THEN named_options[j] ELSE pos_options[j - n]
  BY <1>2, ConcatProperties DEF AllOptions
<1>4. DOMAIN AllOptions = 1 .. (n + p)
  BY <1>3, LenProperties
<1> HIDE DEF n, p
<1>5. ASSUME NEW j \in 1 .. p
      PROVE  n + j \in 1 .. n + p /\ ~(n + j <= n) /\ (n + j) - n = j
  BY <1>1
<1>6. ASSUME NEW j \in 1 .. n
      PROVE  j \in 1 .. n + p /\ j <= n
  BY <1>1
<1> QED BY <1>1, <1>3, <1>4, <1>5, <1>6 DEF n, p

LEMMA OptionsAre ==
  /\ Len(pos_options) \in Nat
  /\ \A j \in 1 .. Len(pos_options) : pos_options[j] \in Options
  /\ \A j \in DOMAIN named_options : named_options[j] \in Options
  /\ \A j, k \in 1 .. Len(pos_options) : pos_options[k].var = pos_options[j].var => k = j
  /\ \A j \in 1 .. Len(pos_options), k \in DOMAIN named_options :
       named_options[k].var # pos_options[j].var
<1>1. /\ \A j \in 1 .. Len(pos_options) : pos_options[j] \in Options
      /\ \A j \in DOMAIN named_options : named_options[j] \in Options
  BY AllOptionsAre DEF Options, Range
<1> DEFINE n == Len(named_options)
<1>2. \A j, k \in DOMAIN AllOptions : AllOptions[j].var = AllOptions[k].var => j = k
  BY CmdLineAssumption
<1>3. ASSUME NEW j \in 1 .. Len(pos_options), NEW k \in 1 .. Len(pos_options),
             pos_options[k].var = pos_options[j].var
      PROVE  k = j
  <2>1. n + k = n + j
    BY <1>2, <1>3, AllOptionsAre
  <2> QED BY <2>1, AllOptionsAre
<1>4. ASSUME NEW j \in 1 .. Len(pos_options), NEW k \in DOMAIN named_options
      PROVE  named_options[k].var # pos_options[j].var
  <2>1. k # n + j
    BY AllOptionsAre
  <2> QED BY <2>1, <1>2, AllOptionsAre
<1> QED BY <1>1, <1>3, <1>4, AllOptionsAre

(* An option is known by its variable.                                     *)
LEMMA OptionAt ==
  ASSUME NEW o \in Options
  PROVE  \E j \in DOMAIN AllOptions : AllOptions[j] = o
<1>1. \/ \E j \in 1 .. Len(named_options) : o = named_options[j]
      \/ \E j \in 1 .. Len(pos_options) : o = pos_options[j]
  BY AllOptionsAre DEF Options, Range
<1>2. \A j \in 1 .. Len(named_options) :
        j \in DOMAIN AllOptions /\ AllOptions[j] = named_options[j]
  BY AllOptionsAre
<1>3. \A j \in 1 .. Len(pos_options) :
        /\ Len(named_options) + j \in DOMAIN AllOptions
        /\ AllOptions[Len(named_options) + j] = pos_options[j]
  BY AllOptionsAre
<1> QED BY <1>1, <1>2, <1>3, Zenon

LEMMA VarOwns ==
  ASSUME NEW o \in Options, NEW p \in Options, o.var = p.var
  PROVE  o = p
BY OptionAt, CmdLineAssumption

LEMMA CmdInitInv == Init => CmdInv
<1> SUFFICES ASSUME Init PROVE CmdInv
  OBVIOUS
<1>1. /\ parsed = {} /\ pos_index = 0
      /\ DOMAIN value = {o.var : o \in Options}
  BY DEF Init, CmdInit
<1> QED BY <1>1, OptionsAre DEF CmdInv

(* Setting an option that was not parsed leaves all that were.             *)
LEMMA SetsOne ==
  ASSUME parsed \subseteq DOMAIN value, NEW option, NEW word,
         option.var \notin parsed, parse_option(option, word)
  PROVE  /\ \A v \in parsed : v \in parsed' /\ value'[v] = value[v]
         /\ DOMAIN value' = DOMAIN value
         /\ parsed' = parsed \cup {option.var}
<1> DEFINE stored == Converted(option.type, word)
           x == IF stored = {} THEN value[option.var] ELSE CHOOSE y \in stored : TRUE
<1>1. value' = [value EXCEPT ![option.var] = x] /\ parsed' = parsed \cup {option.var}
  BY DEF parse_option
<1> HIDE DEF x
<1> QED BY <1>1

VarsKept == \A v \in parsed : v \in parsed' /\ value'[v] = value[v]

LEMMA StepWins == CmdInv /\ parse_options => CmdInv' /\ VarsKept
<1> SUFFICES ASSUME CmdInv, parse_options PROVE CmdInv' /\ VarsKept
  OBVIOUS
<1>0. /\ DOMAIN value = {o.var : o \in Options} /\ parsed \subseteq DOMAIN value
      /\ pos_index \in 0 .. Len(pos_options)
      /\ \A k \in 1 .. Len(pos_options) : k > pos_index => pos_options[k].var \notin parsed
  BY DEF CmdInv
<1>1. CASE Named
  <2>1. PICK j \in Matching(argv[i]) : \E word : parse_option(named_options[j], word)
    BY <1>1 DEF Named
  <2>2. j \in DOMAIN named_options /\ named_options[j].var \notin parsed
    BY DEF Matching
  <2>3. PICK word : parse_option(named_options[j], word)
    BY <2>1
  <2>4. /\ VarsKept
        /\ DOMAIN value' = DOMAIN value
        /\ parsed' = parsed \cup {named_options[j].var}
    BY <2>2, <2>3, <1>0, SetsOne DEF VarsKept
  <2>5. named_options[j].var \in DOMAIN value
    BY <2>2, <1>0, OptionsAre
  <2>6. pos_index' = pos_index
    BY <1>1 DEF Named
  <2>7. \A k \in 1 .. Len(pos_options) : named_options[j].var # pos_options[k].var
    BY <2>2, OptionsAre
  <2> QED BY <2>4, <2>5, <2>6, <2>7, <1>0 DEF CmdInv
<1>2. CASE Unknown
  BY <1>2, <1>0 DEF Unknown, CmdInv, VarsKept
<1>3. CASE Positional
  <2> DEFINE option == pos_options[pos_index + 1]
  <2>1. parse_option(option, argv[i]) /\ pos_index' = pos_index + 1 /\ pos_index < Len(pos_options)
    BY <1>3 DEF Positional
  <2>2. pos_index + 1 \in 1 .. Len(pos_options) /\ pos_index + 1 > pos_index
    BY <2>1, <1>0, OptionsAre
  <2>3. option.var \notin parsed
    BY <2>2, <1>0
  <2>4. option.var \in DOMAIN value
    BY <2>2, <1>0, OptionsAre
  <2>5. \A k \in 1 .. Len(pos_options) : k > pos_index + 1 => option.var # pos_options[k].var
    BY <2>2, OptionsAre
  <2> HIDE DEF option
  <2>6. /\ VarsKept
        /\ DOMAIN value' = DOMAIN value
        /\ parsed' = parsed \cup {option.var}
    BY <2>1, <2>3, <1>0, SetsOne DEF VarsKept
  <2>7. \A k \in 1 .. Len(pos_options) : k > pos_index + 1 => pos_options[k].var \notin parsed'
    BY <2>5, <2>6, <1>0, OptionsAre
  <2> QED BY <2>1, <2>2, <2>4, <2>6, <2>7, <1>0 DEF CmdInv
<1>4. CASE TooMany
  BY <1>4, <1>0 DEF TooMany, CmdInv, VarsKept
<1>5. CASE ParseEnd
  BY <1>5, <1>0 DEF ParseEnd, CmdInv, VarsKept
<1> QED BY <1>1, <1>2, <1>3, <1>4, <1>5 DEF parse_options

(* No other part of main touches what the command line left.               *)
LEMMA StepsCmd == [Next]_vars => parse_options \/ UNCHANGED cmdVars
<1> SUFFICES ASSUME [Next]_vars PROVE parse_options \/ UNCHANGED cmdVars
  OBVIOUS
<1>1. CASE UNCHANGED vars
  BY <1>1 DEF vars
<1>2. CASE Parse
  BY <1>2 DEF Parse
<1>3. CASE TakeRegion
  BY <1>3 DEF TakeRegion, Fail, End, Take, Goto
<1>4. CASE TakeFunction
  BY <1>4 DEF TakeFunction, TakeElf, Fail, End, Take, Goto
<1>5. CASE TakeSection
  BY <1>5 DEF TakeSection, TakeElf, Fail, End, Take, Goto
<1>6. CASE TakeStdin \/ NothingToTake \/ Parsed \/ Open \/ Lifted
  BY <1>6 DEF TakeStdin, NothingToTake, Parsed, Open, Lifted, Fail, Take, Goto
<1>7. CASE Lift
  BY <1>7 DEF Lift
<1>8. CASE Graph \/ NoSources \/ Flatten \/ MaxStackSize \/ NoMaxStackSize
  BY <1>8 DEF Graph, NoSources, Flatten, MaxStackSize, NoMaxStackSize, Goto
<1>9. CASE Sources
  BY <1>9 DEF Sources, FindSources, End, Goto
<1>10. CASE OpenDump \/ DrawBlock \/ DrawEdges \/ PrintIr
  BY <1>10 DEF OpenDump, DrawBlock, DrawEdges, PrintIr, End, Goto
<1>11. CASE Close \/ Error
  BY <1>11 DEF Close, Error, Free
<1> QED BY <1>1, <1>2, <1>3, <1>4, <1>5, <1>6, <1>7, <1>8, <1>9, <1>10, <1>11 DEF Next

LEMMA CmdInvKept == CmdInv /\ UNCHANGED cmdVars => CmdInv'
BY DEF CmdInv, cmdVars

(* The first mention of an option decides, however often and in whatever   *)
(* form it comes again.  Of src/src/cmdline.c:76-78.                       *)
THEOREM FirstMention == Spec => FirstWins
<1>1. CmdInv /\ [Next]_vars => CmdInv'
  BY StepWins, StepsCmd, CmdInvKept
<1>2. CmdInv /\ [Next]_vars => [\A v \in parsed : v \in parsed' /\ value'[v] = value[v]]_cmdVars
  BY StepWins, StepsCmd DEF VarsKept
<1> QED BY <1>1, <1>2, CmdInitInv, PTL DEF Spec, FirstWins

-----------------------------------------------------------------------------
(* The arenas.                                                             *)

IsArena(a) == DOMAIN a = {"live", "stale"}

LEMMA AllocKeeps ==
  ASSUME NEW arena, IsArena(arena), NEW owners
  PROVE  /\ IsArena(Alloc(arena, owners))
         /\ Alloc(arena, owners).live = arena.live \cup owners
         /\ owners = {} => Alloc(arena, owners) = arena
BY DEF Alloc, IsArena

LEMMA ScratchKeeps ==
  ASSUME NEW arena, IsArena(arena), NEW owners
  PROVE  /\ IsArena(Scratch(arena, owners))
         /\ Scratch(arena, owners).live = arena.live
         /\ Scratch(arena, owners).stale = owners
BY DEF Scratch, IsArena

-----------------------------------------------------------------------------
(* The chain when a block is cut: the blocks are those from before, with   *)
(* two for the one that was cut.                                           *)

LEMMA CutInTwo ==
  ASSUME NEW s, s \in Seq(Range(s)), NEW k \in DOMAIN s, NEW head, NEW tail,
         NEW r, r = InsertAt(ReplaceAt(s, k, head), k + 1, tail)
  PROVE  /\ r \in Seq(Range(r))
         /\ \A x \in DOMAIN r : r[x] = head \/ r[x] = tail \/ \E y \in DOMAIN s : r[x] = s[y]
         /\ DOMAIN s \subseteq DOMAIN r
<1> DEFINE S == Range(s) \cup {head, tail}
           h == ReplaceAt(s, k, head)
           n == Len(s)
           before == SubSeq(h, 1, (k + 1) - 1)
           after == SubSeq(h, k + 1, Len(h))
<1>1. /\ s \in Seq(S) /\ n \in Nat /\ DOMAIN s = 1 .. n /\ k \in 1 .. n
      /\ head \in S /\ tail \in S
  BY SeqMonotonic, LenProperties
<1>2. h \in Seq(S) /\ Len(h) = n /\ \A x \in 1 .. n : h[x] = IF x = k THEN head ELSE s[x]
  BY <1>1, ExceptSeq DEF ReplaceAt
<1> HIDE DEF h, S, n
<1>3. /\ before \in Seq(S) /\ Len(before) = k
      /\ \A x \in 1 .. k : before[x] = h[x]
  BY <1>1, <1>2, SubSeqProperties
<1>4. /\ after \in Seq(S) /\ Len(after) = n - k
      /\ \A x \in 1 .. (n - k) : after[x] = h[k + x]
  BY <1>1, <1>2, SubSeqProperties
<1>5. r = (before \o <<tail>>) \o after
  BY DEF InsertAt, h
<1> HIDE DEF before, after
<1>6. /\ before \o <<tail>> \in Seq(S) /\ Len(before \o <<tail>>) = k + 1
      /\ \A x \in 1 .. (k + 1) : (before \o <<tail>>)[x] = IF x <= k THEN before[x] ELSE tail
  BY <1>1, <1>3, ConcatProperties
<1>7. /\ r \in Seq(S) /\ Len(r) = n + 1
      /\ \A x \in 1 .. (n + 1) : r[x] = IF x <= k + 1 THEN (before \o <<tail>>)[x] ELSE after[x - (k + 1)]
  <2> DEFINE front == before \o <<tail>>
  <2>1. front \in Seq(S) /\ Len(front) = k + 1 /\ r = front \o after
    BY <1>5, <1>6
  <2> HIDE DEF front
  <2> DEFINE both == front \o after
  <2>2. /\ both \in Seq(S) /\ Len(both) = Len(front) + Len(after)
        /\ \A x \in 1 .. Len(front) + Len(after) :
             both[x] = IF x <= Len(front) THEN front[x] ELSE after[x - Len(front)]
    <3>1. front \in Seq(S) /\ after \in Seq(S)
      BY <2>1, <1>4
    <3> QED BY <3>1, ConcatProperties
  <2> HIDE DEF both
  <2>3. (k + 1) + (n - k) = n + 1
    BY <1>1
  <2>4. r = both
    BY <2>1 DEF both
  <2> QED BY <2>1, <2>2, <2>3, <2>4, <1>4 DEF front
<1>8. DOMAIN r = 1 .. (n + 1)
  BY <1>7, LenProperties
<1>9. ASSUME NEW x \in 1 .. (n + 1)
      PROVE  r[x] = head \/ r[x] = tail \/ \E y \in 1 .. n : r[x] = s[y]
  <2>1. CASE x <= k
    <3>1. r[x] = h[x] /\ x \in 1 .. n
      BY <2>1, <1>1, <1>3, <1>6, <1>7
    <3> QED BY <3>1, <1>2
  <2>2. CASE x = k + 1
    BY <2>2, <1>1, <1>6, <1>7
  <2>3. CASE x > k + 1
    <3>1. x - (k + 1) \in 1 .. (n - k) /\ k + (x - (k + 1)) = x - 1 /\ x - 1 \in 1 .. n
      BY <2>3, <1>1
    <3>2. r[x] = h[x - 1]
      <4>1. r[x] = after[x - (k + 1)]
        BY <2>3, <1>1, <1>7
      <4>2. after[x - (k + 1)] = h[k + (x - (k + 1))]
        BY <3>1, <1>4
      <4> QED BY <3>1, <4>1, <4>2
    <3> QED BY <3>1, <3>2, <1>2
  <2> QED BY <2>1, <2>2, <2>3, <1>1
<1>10. r \in Seq(Range(r))
  <2>1. r = [x \in 1 .. (n + 1) |-> r[x]]
    BY <1>7
  <2>2. \A x \in 1 .. (n + 1) : r[x] \in Range(r)
    BY <1>8 DEF Range
  <2> QED BY <2>1, <2>2, <1>1, IsASeq
<1> QED BY <1>1, <1>8, <1>9, <1>10

-----------------------------------------------------------------------------
(* What is in the arenas while main runs.  Everything that is read later   *)
(* is live, but for the rows of the stack analysis: they are given back,   *)
(* and left alone because nothing is taken from that arena any more.       *)

HoldsBlocks(bs, live) ==
  \A k \in DOMAIN bs : /\ <<"node", bs[k].address>> \in live
                       /\ <<"insts", bs[k].list>> \in live

IsChain(bs) ==
  /\ bs \in Seq(Range(bs))
  /\ \A k \in DOMAIN bs : DOMAIN bs[k] = {"address", "size", "list"}

Arenas == /\ DOMAIN mem = {"persistent", "temporary"}
          /\ IsArena(mem.persistent) /\ IsArena(mem.temporary)

Opened == {"lift", "graph", "sources", "flatten", "stack", "fopen", "output", "ir", "close"}

InputHeld == /\ pc \in Opened \cup {"open"} => <<"data">> \in mem.persistent.live
             /\ pc \in Opened => <<"context">> \in mem.persistent.live

TreeHeld ==
  /\ pc \in {"parse", "input", "open", "lift", "graph", "sources"} => tree = {}
  /\ pc = "flatten" => tree # {}
  /\ tree # {} => <<"tree">> \in mem.persistent.live
  /\ pc \in {"stack", "fopen", "output"} => \A a \in tree : <<"marks", a>> \in mem.temporary.live

RowsHeld ==
  pc \in {"fopen", "output"} /\ value["analyze_max_stack"] =>
    \A k \in DOMAIN blocks : <<"rows", blocks[k].address>> \in mem.temporary.stale

ColoursHeld == \A c \in colours : <<"colour", c>> \in mem.persistent.live

MemInv ==
  status = "running" =>
    /\ Arenas /\ IsChain(blocks)
    /\ InputHeld /\ HoldsBlocks(blocks, mem.persistent.live)
    /\ TreeHeld /\ RowsHeld /\ ColoursHeld

LEMMA MemInitInv == Init => MemInv
<1> SUFFICES ASSUME Init PROVE MemInv
  OBVIOUS
<1>1. /\ mem = [persistent |-> Empty, temporary |-> Empty] /\ blocks = << >>
      /\ tree = {} /\ colours = {} /\ pc = "parse"
  BY DEF Init
<1>2. Arenas
  BY <1>1 DEF Arenas, IsArena, Empty
<1>3. DOMAIN blocks = {} /\ blocks \in Seq(Range(blocks))
  BY <1>1, EmptySeq
<1> QED BY <1>1, <1>2, <1>3 DEF MemInv, IsChain, InputHeld, HoldsBlocks, TreeHeld, RowsHeld,
                                ColoursHeld, Opened

(* A block is added at the end of the chain.                               *)
LEMMA ChainGrows ==
  ASSUME NEW bs, IsChain(bs), NEW b, DOMAIN b = {"address", "size", "list"}
  PROVE  /\ IsChain(Append(bs, b)) /\ Len(Append(bs, b)) = Len(bs) + 1
         /\ \A x \in DOMAIN Append(bs, b) : \/ Append(bs, b)[x] = b
                                            \/ \E y \in DOMAIN bs : Append(bs, b)[x] = bs[y]
<1> DEFINE S == Range(bs) \cup {b}
           r == Append(bs, b)
           n == Len(bs)
<1>1. bs \in Seq(S) /\ b \in S /\ n \in Nat /\ DOMAIN bs = 1 .. n
  BY SeqMonotonic, LenProperties DEF IsChain
<1> HIDE DEF S
<1>2. /\ r \in Seq(S) /\ Len(r) = n + 1 /\ DOMAIN r = 1 .. (n + 1)
      /\ \A x \in 1 .. n : r[x] = bs[x]
      /\ r[n + 1] = b
  <2>1. /\ r \in Seq(S) /\ Len(r) = n + 1
        /\ \A x \in 1 .. n : r[x] = bs[x]
        /\ r[n + 1] = b
    BY <1>1, AppendProperties
  <2> QED BY <2>1, LenProperties
<1> HIDE DEF r, n
<1>3. \A x \in 1 .. (n + 1) : x \in 1 .. n \/ x = n + 1
  BY <1>1
<1>4. \A x \in DOMAIN r : r[x] = b \/ \E y \in DOMAIN bs : r[x] = bs[y]
  BY <1>1, <1>2, <1>3
<1>5. r \in Seq(Range(r))
  <2>1. r = [x \in 1 .. (n + 1) |-> r[x]] /\ n + 1 \in Nat
    BY <1>1, <1>2, LenProperties
  <2>2. \A x \in 1 .. (n + 1) : r[x] \in Range(r)
    BY <1>2 DEF Range
  <2> QED BY <2>1, <2>2, IsASeq
<1>6. \A x \in DOMAIN r : DOMAIN r[x] = {"address", "size", "list"}
  BY <1>4 DEF IsChain
<1> QED BY <1>2, <1>4, <1>5, <1>6 DEF IsChain, r, n

(* Steps that leave the results of main alone and go from one part to      *)
(* another of which no more is asked.                                      *)
LEMMA JumpKeeps ==
  ASSUME MemInv, status = "running", NEW p, Goto(p), UNCHANGED mainVars,
         p \in Opened => pc \in Opened,
         p # "open", p # "flatten",
         p \in {"parse", "input", "lift", "graph", "sources"} => tree = {},
         p \in {"stack", "fopen", "output"} => pc \in {"stack", "fopen", "output"} \/ tree = {},
         p \in {"fopen", "output"} => pc \in {"fopen", "output"} \/ ~value["analyze_max_stack"]
  PROVE  MemInv'
<1>1. /\ pc' = p /\ status' = status /\ value' = value
      /\ mem' = mem /\ blocks' = blocks /\ tree' = tree /\ colours' = colours
  BY DEF Goto, mainVars, cmdVars
<1>2. /\ Arenas /\ IsChain(blocks)
      /\ InputHeld /\ HoldsBlocks(blocks, mem.persistent.live)
      /\ TreeHeld /\ RowsHeld /\ ColoursHeld
  BY DEF MemInv
<1>3. Arenas' /\ IsChain(blocks)' /\ HoldsBlocks(blocks, mem.persistent.live)' /\ ColoursHeld'
  BY <1>1, <1>2 DEF Arenas, IsChain, HoldsBlocks, ColoursHeld
<1>4. InputHeld'
  BY <1>1, <1>2 DEF InputHeld
<1>5. TreeHeld'
  BY <1>1, <1>2 DEF TreeHeld
<1>6. RowsHeld'
  BY <1>1, <1>2 DEF RowsHeld
<1> QED BY <1>3, <1>4, <1>5, <1>6 DEF MemInv

(* The process ends and nothing is read any more.                          *)
LEMMA EndKeeps == ASSUME MemInv, status = "running", NEW how, End(how) PROVE MemInv'
<1>1. /\ pc' = pc /\ value' = value
      /\ mem' = mem /\ blocks' = blocks /\ tree' = tree /\ colours' = colours
  BY DEF End, mainVars, cmdVars
<1> QED BY <1>1 DEF MemInv, Arenas, IsChain, InputHeld, HoldsBlocks, TreeHeld, RowsHeld, ColoursHeld

LEMMA TakeKeeps == ASSUME MemInv, At("input"), NEW a, NEW v, Take(a, v) PROVE MemInv'
<1>1. /\ pc' = "open" /\ blocks' = blocks /\ tree' = tree /\ colours' = colours
      /\ mem' = [mem EXCEPT !.persistent = Alloc(@, {<<"data">>})]
  BY DEF Take, Goto
<1>2. /\ Arenas /\ IsChain(blocks) /\ HoldsBlocks(blocks, mem.persistent.live)
      /\ tree = {} /\ ColoursHeld
  BY DEF MemInv, At, TreeHeld
<1>3. /\ DOMAIN mem' = {"persistent", "temporary"} /\ mem.temporary = mem'.temporary
      /\ mem'.persistent = Alloc(mem.persistent, {<<"data">>})
  BY <1>1, <1>2 DEF Arenas
<1>4. Arenas' /\ mem'.persistent.live = mem.persistent.live \cup {<<"data">>}
  BY <1>2, <1>3, AllocKeeps DEF Arenas
<1>5. IsChain(blocks)' /\ HoldsBlocks(blocks, mem.persistent.live)' /\ ColoursHeld'
  BY <1>1, <1>2, <1>4 DEF IsChain, HoldsBlocks, ColoursHeld
<1>6. InputHeld' /\ TreeHeld' /\ RowsHeld'
  BY <1>1, <1>2, <1>4 DEF InputHeld, TreeHeld, RowsHeld, Opened
<1> QED BY <1>4, <1>5, <1>6 DEF MemInv

(* The parts before the lifting.                                           *)
LEMMA InputKeeps ==
  MemInv /\ (Parse \/ Parsed \/ TakeRegion \/ TakeFunction \/ TakeSection \/ TakeStdin \/ NothingToTake)
    => MemInv'
<1> SUFFICES ASSUME MemInv, Parse \/ Parsed \/ TakeRegion \/ TakeFunction \/ TakeSection
                                  \/ TakeStdin \/ NothingToTake
             PROVE  MemInv'
  OBVIOUS
<1>0. ASSUME At("parse") \/ At("input") PROVE status = "running" /\ tree = {}
  BY <1>0 DEF MemInv, TreeHeld, At
<1>1. ASSUME Fail, At("input") PROVE MemInv'
  <2>1. status = "running" /\ Goto("error") /\ UNCHANGED mainVars
    BY <1>1 DEF Fail, At
  <2>2. "error" \notin Opened
    BY DEF Opened
  <2> QED BY <2>1, <2>2, JumpKeeps
<1>2. CASE Parse
  <2>1. /\ pc' = pc /\ pc = "parse" /\ status' = status /\ UNCHANGED mainVars
    BY <1>2 DEF Parse, At
  <2>2. /\ mem' = mem /\ blocks' = blocks /\ tree' = tree /\ colours' = colours
    BY <2>1 DEF mainVars
  <2> QED BY <2>1, <2>2 DEF MemInv, Arenas, IsChain, InputHeld, HoldsBlocks, TreeHeld, RowsHeld, ColoursHeld
<1>3. CASE Parsed
  <2>1. PICK p \in {"error", "input"} : Goto(p)
    BY <1>3 DEF Parsed
  <2>2. status = "running" /\ tree = {} /\ UNCHANGED mainVars
    BY <1>0, <1>3 DEF Parsed
  <2>3. p \notin Opened /\ p # "open" /\ p # "flatten" /\ p \notin {"stack", "fopen", "output"}
    BY DEF Opened
  <2> QED BY <2>1, <2>2, <2>3, JumpKeeps
<1>4. CASE TakeRegion
  <2>1. At("input") /\ status = "running"
    BY <1>4 DEF TakeRegion, At
  <2>2. \/ Fail
        \/ \E how : End(how)
        \/ \E a, v : Take(a, v)
    BY <1>4 DEF TakeRegion
  <2> QED BY <1>1, <2>1, <2>2, EndKeeps, TakeKeeps
<1>5. CASE TakeFunction \/ TakeSection
  <2>1. At("input") /\ status = "running" /\ \E found : TakeElf(found)
    BY <1>5 DEF TakeFunction, TakeSection, At
  <2>2. (\E how : End(how)) \/ \E a, v : Take(a, v)
    BY <2>1 DEF TakeElf
  <2> QED BY <2>1, <2>2, EndKeeps, TakeKeeps
<1>6. CASE TakeStdin
  <2>1. At("input")
    BY <1>6 DEF TakeStdin
  <2>2. Fail \/ \E a, v : Take(a, v)
    BY <1>6 DEF TakeStdin
  <2> QED BY <1>1, <2>1, <2>2, TakeKeeps
<1>7. CASE NothingToTake
  BY <1>1, <1>7 DEF NothingToTake
<1> QED BY <1>2, <1>3, <1>4, <1>5, <1>6, <1>7

(* The context; then block after block, with its instructions and, when it *)
(* has any, its node.                                                      *)
LEMMA OpenKeeps == MemInv /\ Open => MemInv'
<1> SUFFICES ASSUME MemInv, Open PROVE MemInv'
  OBVIOUS
<1>1. /\ status = "running" /\ pc = "open" /\ pc' = "lift"
      /\ blocks' = blocks /\ tree' = tree /\ colours' = colours
      /\ mem' = [mem EXCEPT !.persistent = Alloc(@, {<<"context">>})]
  BY DEF Open, Goto, At
<1>2. /\ Arenas /\ IsChain(blocks) /\ HoldsBlocks(blocks, mem.persistent.live)
      /\ tree = {} /\ ColoursHeld /\ <<"data">> \in mem.persistent.live
  BY <1>1 DEF MemInv, TreeHeld, InputHeld
<1>3. /\ DOMAIN mem' = {"persistent", "temporary"} /\ mem.temporary = mem'.temporary
      /\ mem'.persistent = Alloc(mem.persistent, {<<"context">>})
  BY <1>1, <1>2 DEF Arenas
<1>4. Arenas' /\ mem'.persistent.live = mem.persistent.live \cup {<<"context">>}
  BY <1>2, <1>3, AllocKeeps DEF Arenas
<1>5. IsChain(blocks)' /\ HoldsBlocks(blocks, mem.persistent.live)' /\ ColoursHeld'
  BY <1>1, <1>2, <1>4 DEF IsChain, HoldsBlocks, ColoursHeld
<1>6. InputHeld' /\ TreeHeld' /\ RowsHeld'
  BY <1>1, <1>2, <1>4 DEF InputHeld, TreeHeld, RowsHeld, Opened
<1> QED BY <1>4, <1>5, <1>6 DEF MemInv

LEMMA LiftKeeps == MemInv /\ Lift => MemInv'
<1> SUFFICES ASSUME MemInv, Lift PROVE MemInv'
  OBVIOUS
<1>1. /\ status = "running" /\ pc = "lift" /\ pc' = pc
      /\ tree' = tree /\ colours' = colours
  BY DEF Lift, At
<1>2. /\ Arenas /\ IsChain(blocks) /\ HoldsBlocks(blocks, mem.persistent.live)
      /\ tree = {} /\ ColoursHeld /\ InputHeld
  BY <1>1 DEF MemInv, TreeHeld
<1>3. PICK b, owners :
        /\ DOMAIN b = {"address", "size", "list"}
        /\ mem' = [mem EXCEPT !.persistent = Alloc(@, owners)]
        /\ \/ blocks' = blocks
           \/ /\ blocks' = Append(blocks, b)
              /\ <<"insts", b.list>> \in owners /\ <<"node", b.address>> \in owners
  <2>1. PICK size \in BlockSizes(view.size - off), decodes \in BOOLEAN :
          LET address == Wrap(view.address + off)
              block == [address |-> address, size |-> size, list |-> address]
              keeps == decodes /\ size >= InsnSize
              insts == <<"insts", address>>
          IN  /\ off' = off + size
              /\ blocks' = IF keeps THEN Append(blocks, block) ELSE blocks
              /\ mem' = [mem EXCEPT !.persistent =
                   Alloc(@, IF keeps THEN {insts, <<"node", address>>} ELSE {insts})]
    BY DEF Lift
  <2> DEFINE address == Wrap(view.address + off)
             b == [address |-> address, size |-> size, list |-> address]
             keeps == decodes /\ size >= InsnSize
             insts == <<"insts", address>>
             owners == IF keeps THEN {insts, <<"node", address>>} ELSE {insts}
  <2>2. /\ blocks' = IF keeps THEN Append(blocks, b) ELSE blocks
        /\ mem' = [mem EXCEPT !.persistent = Alloc(@, owners)]
    BY <2>1
  <2>3. DOMAIN b = {"address", "size", "list"} /\ b.list = address /\ b.address = address
    OBVIOUS
  <2>4. keeps => insts \in owners /\ <<"node", address>> \in owners
    OBVIOUS
  <2> HIDE DEF address, b, keeps, owners
  <2>5. keeps => <<"insts", b.list>> \in owners /\ <<"node", b.address>> \in owners
    BY <2>3, <2>4
  <2> QED BY <2>2, <2>3, <2>5
<1>4. /\ DOMAIN mem' = {"persistent", "temporary"} /\ mem.temporary = mem'.temporary
      /\ mem'.persistent = Alloc(mem.persistent, owners)
  BY <1>2, <1>3 DEF Arenas
<1>5. Arenas' /\ mem'.persistent.live = mem.persistent.live \cup owners
  BY <1>2, <1>4, AllocKeeps DEF Arenas
<1>6. IsChain(blocks')
  BY <1>2, <1>3, ChainGrows
<1>7. HoldsBlocks(blocks', mem'.persistent.live)
  <2>1. \A x \in DOMAIN blocks' : \/ /\ <<"node", blocks'[x].address>> \in owners
                                    /\ <<"insts", blocks'[x].list>> \in owners
                                 \/ \E y \in DOMAIN blocks : blocks'[x] = blocks[y]
    BY <1>2, <1>3, ChainGrows, SMTT(30)
  <2> QED BY <2>1, <1>2, <1>5 DEF HoldsBlocks
<1>8. InputHeld' /\ TreeHeld' /\ RowsHeld' /\ ColoursHeld'
  BY <1>1, <1>2, <1>5 DEF InputHeld, TreeHeld, RowsHeld, ColoursHeld
<1> QED BY <1>5, <1>6, <1>7, <1>8 DEF MemInv

LEMMA LiftedKeeps == MemInv /\ Lifted => MemInv'
<1> SUFFICES ASSUME MemInv, Lifted PROVE MemInv'
  OBVIOUS
<1>1. PICK p \in {"graph", "ir", "close"} : Goto(p)
  BY DEF Lifted
<1>2. status = "running" /\ pc = "lift" /\ UNCHANGED mainVars
  BY DEF Lifted, At
<1>3. tree = {}
  BY <1>2 DEF MemInv, TreeHeld
<1>4. pc \in Opened
  BY <1>2 DEF Opened
<1> QED BY <1>1, <1>2, <1>3, <1>4, JumpKeeps

(* A block is cut: the head keeps its address and the list, and the tail   *)
(* has a node of its own and the same list.                                *)
LEMMA CutKeeps ==
  ASSUME Arenas, IsChain(blocks), HoldsBlocks(blocks, mem.persistent.live),
         NEW k \in DOMAIN blocks, NEW n, Cut(k, n)
  PROVE  /\ IsChain(blocks') /\ HoldsBlocks(blocks', mem'.persistent.live)
         /\ Arenas' /\ mem.persistent.live \subseteq mem'.persistent.live
         /\ DOMAIN blocks \subseteq DOMAIN blocks'
<1> DEFINE b == blocks[k]
           head == [b EXCEPT !.size = n * InsnSize]
           tail == [b EXCEPT !.address = Wrap(@ + n * InsnSize), !.size = @ - n * InsnSize]
<1>1. /\ blocks' = InsertAt(ReplaceAt(blocks, k, head), k + 1, tail)
      /\ mem' = [mem EXCEPT !.persistent = Alloc(@, {<<"node", tail.address>>})]
  BY DEF Cut
<1>2. /\ DOMAIN head = {"address", "size", "list"} /\ DOMAIN tail = {"address", "size", "list"}
      /\ head.address = b.address /\ head.list = b.list /\ tail.list = b.list
  BY DEF IsChain
<1>3. /\ <<"node", b.address>> \in mem.persistent.live
      /\ <<"insts", b.list>> \in mem.persistent.live
  BY DEF HoldsBlocks
<1> HIDE DEF b, head, tail
<1>4. /\ DOMAIN mem' = {"persistent", "temporary"} /\ mem.temporary = mem'.temporary
      /\ mem'.persistent = Alloc(mem.persistent, {<<"node", tail.address>>})
  BY <1>1 DEF Arenas
<1>5. Arenas' /\ mem'.persistent.live = mem.persistent.live \cup {<<"node", tail.address>>}
  BY <1>4, AllocKeeps DEF Arenas
<1>6. /\ blocks' \in Seq(Range(blocks')) /\ DOMAIN blocks \subseteq DOMAIN blocks'
      /\ \A x \in DOMAIN blocks' : \/ blocks'[x] = head \/ blocks'[x] = tail
                                   \/ \E y \in DOMAIN blocks : blocks'[x] = blocks[y]
  BY <1>1, CutInTwo DEF IsChain
<1>7. IsChain(blocks')
  BY <1>2, <1>6 DEF IsChain
<1>8. HoldsBlocks(blocks', mem'.persistent.live)
  BY <1>2, <1>3, <1>5, <1>6 DEF HoldsBlocks
<1> QED BY <1>5, <1>6, <1>7, <1>8

LEMMA GraphKeeps == MemInv /\ Graph => MemInv'
<1> SUFFICES ASSUME MemInv, Graph PROVE MemInv'
  OBVIOUS
<1>1. /\ status = "running" /\ pc = "graph" /\ pc' = "sources"
      /\ tree' = tree /\ colours' = colours
      /\ \/ UNCHANGED <<blocks, mem>>
         \/ \E k \in DOMAIN blocks : \E n : Cut(k, n)
  BY DEF Graph, Goto, At
<1>2. /\ Arenas /\ IsChain(blocks) /\ HoldsBlocks(blocks, mem.persistent.live)
      /\ tree = {} /\ ColoursHeld
      /\ <<"data">> \in mem.persistent.live /\ <<"context">> \in mem.persistent.live
  BY <1>1 DEF MemInv, TreeHeld, InputHeld, Opened
<1>3. /\ IsChain(blocks') /\ HoldsBlocks(blocks', mem'.persistent.live)
      /\ Arenas' /\ mem.persistent.live \subseteq mem'.persistent.live
  <2>1. CASE UNCHANGED <<blocks, mem>>
    BY <2>1, <1>2 DEF Arenas
  <2>2. CASE \E k \in DOMAIN blocks : \E n : Cut(k, n)
    BY <2>2, <1>2, CutKeeps
  <2> QED BY <2>1, <2>2, <1>1
<1>4. InputHeld' /\ TreeHeld' /\ RowsHeld' /\ ColoursHeld'
  BY <1>1, <1>2, <1>3 DEF InputHeld, TreeHeld, RowsHeld, ColoursHeld
<1> QED BY <1>3, <1>4 DEF MemInv

(* The tree of a search, which is not empty; its queue is given back.      *)
LEMMA SourcesKeeps == MemInv /\ (Sources \/ NoSources) => MemInv'
<1> SUFFICES ASSUME MemInv, Sources \/ NoSources PROVE MemInv'
  OBVIOUS
<1>1. /\ status = "running" /\ pc = "sources"
  BY DEF Sources, NoSources, At
<1>2. /\ Arenas /\ IsChain(blocks) /\ HoldsBlocks(blocks, mem.persistent.live)
      /\ tree = {} /\ ColoursHeld /\ InputHeld
  BY <1>1 DEF MemInv, TreeHeld
<1>3. CASE NoSources
  <2>1. Goto("stack") /\ UNCHANGED mainVars
    BY <1>3 DEF NoSources
  <2>2. pc \in Opened
    BY <1>1 DEF Opened
  <2> QED BY <2>1, <2>2, <1>1, <1>2, JumpKeeps
<1>4. CASE Sources
  <2>1. \/ \E how : End(how)
        \/ \E k \in Containing(request.address) : \E index, n : FindSources(k, index, n)
    BY <1>4 DEF Sources
  <2>2. CASE \E how : End(how)
    BY <2>2, <1>1, EndKeeps
  <2>3. ASSUME NEW k \in Containing(request.address), NEW index, NEW n, FindSources(k, index, n)
        PROVE  MemInv'
    <3>1. CASE \E how : End(how)
      BY <3>1, <1>1, EndKeeps
    <3>2. CASE /\ \E others \in SUBSET DOMAIN blocks :
                    tree' = {blocks[j].address : j \in others \cup {k}}
               /\ mem' = [persistent |-> Alloc(mem.persistent, {<<"tree">>}),
                          temporary |-> Scratch(mem.temporary, {<<"queue">>})]
               /\ Goto("flatten")
               /\ UNCHANGED <<view, arch, thumb, off, blocks, colours, drawn, output>>
      <4>1. /\ pc' = "flatten" /\ blocks' = blocks /\ colours' = colours /\ tree' # {}
        BY <3>2 DEF Goto
      <4>2. /\ Arenas' /\ mem'.persistent.live = mem.persistent.live \cup {<<"tree">>}
        BY <3>2, <1>2, AllocKeeps, ScratchKeeps DEF Arenas
      <4>3. IsChain(blocks)' /\ HoldsBlocks(blocks, mem.persistent.live)' /\ ColoursHeld'
        BY <4>1, <4>2, <1>2 DEF IsChain, HoldsBlocks, ColoursHeld
      <4>4. InputHeld' /\ TreeHeld' /\ RowsHeld'
        BY <4>1, <4>2, <1>1, <1>2 DEF InputHeld, TreeHeld, RowsHeld, Opened
      <4> QED BY <4>2, <4>3, <4>4 DEF MemInv
    <3> QED BY <2>3, <3>1, <3>2 DEF FindSources
  <2> QED BY <2>1, <2>2, <2>3
<1> QED BY <1>3, <1>4

(* A row of marks for each block of the tree.                              *)
LEMMA FlattenKeeps == MemInv /\ Flatten => MemInv'
<1> SUFFICES ASSUME MemInv, Flatten PROVE MemInv'
  OBVIOUS
<1>1. /\ status = "running" /\ pc = "flatten" /\ pc' = "stack"
      /\ blocks' = blocks /\ tree' = tree /\ colours' = colours
      /\ mem' = [mem EXCEPT !.temporary = Alloc(@, {"marks"} \X tree)]
  BY DEF Flatten, Goto, At
<1>2. /\ Arenas /\ IsChain(blocks) /\ HoldsBlocks(blocks, mem.persistent.live)
      /\ TreeHeld /\ ColoursHeld
      /\ <<"data">> \in mem.persistent.live /\ <<"context">> \in mem.persistent.live
  BY <1>1 DEF MemInv, InputHeld, Opened
<1>3. /\ DOMAIN mem' = {"persistent", "temporary"} /\ mem.persistent = mem'.persistent
      /\ mem'.temporary = Alloc(mem.temporary, {"marks"} \X tree)
  BY <1>1, <1>2 DEF Arenas
<1>4. Arenas' /\ mem'.temporary.live = mem.temporary.live \cup ({"marks"} \X tree)
  BY <1>2, <1>3, AllocKeeps DEF Arenas
<1>5. \A a \in tree : <<"marks", a>> \in mem'.temporary.live
  BY <1>4
<1>6. IsChain(blocks)' /\ HoldsBlocks(blocks, mem.persistent.live)' /\ ColoursHeld'
  BY <1>1, <1>2, <1>3 DEF IsChain, HoldsBlocks, ColoursHeld
<1>7. InputHeld' /\ TreeHeld' /\ RowsHeld'
  BY <1>1, <1>2, <1>3, <1>5 DEF InputHeld, TreeHeld, RowsHeld
<1> QED BY <1>4, <1>6, <1>7 DEF MemInv

(* The rows of the analysis: stale from here on.                           *)
LEMMA StackKeeps == MemInv /\ (MaxStackSize \/ NoMaxStackSize) => MemInv'
<1> SUFFICES ASSUME MemInv, MaxStackSize \/ NoMaxStackSize PROVE MemInv'
  OBVIOUS
<1>1. status = "running" /\ pc = "stack"
  BY DEF MaxStackSize, NoMaxStackSize, At
<1>2. /\ Arenas /\ IsChain(blocks) /\ HoldsBlocks(blocks, mem.persistent.live)
      /\ TreeHeld /\ ColoursHeld
      /\ <<"data">> \in mem.persistent.live /\ <<"context">> \in mem.persistent.live
  BY <1>1 DEF MemInv, InputHeld, Opened
<1>3. CASE NoMaxStackSize
  <2>1. Goto("fopen") /\ UNCHANGED mainVars /\ ~value["analyze_max_stack"]
    BY <1>3 DEF NoMaxStackSize
  <2>2. pc \in Opened
    BY <1>1 DEF Opened
  <2> QED BY <2>1, <2>2, <1>1, JumpKeeps
<1>4. CASE MaxStackSize
  <2> DEFINE rows == {<<"rows", blocks[k].address>> : k \in DOMAIN blocks}
  <2>1. /\ pc' = "fopen" /\ blocks' = blocks /\ tree' = tree /\ colours' = colours
        /\ mem' = [persistent |-> Scratch(mem.persistent, {<<"tree">>}),
                   temporary |-> Scratch(mem.temporary, {<<"queue">>} \cup rows)]
    BY <1>4 DEF MaxStackSize, Goto
  <2>2. \A k \in DOMAIN blocks : <<"rows", blocks[k].address>> \in {<<"queue">>} \cup rows
    OBVIOUS
  <2> HIDE DEF rows
  <2>3. /\ Arenas' /\ mem'.persistent.live = mem.persistent.live
        /\ mem'.temporary.live = mem.temporary.live
        /\ mem'.temporary.stale = {<<"queue">>} \cup rows
    BY <2>1, <1>2, ScratchKeeps DEF Arenas
  <2>4. IsChain(blocks)' /\ HoldsBlocks(blocks, mem.persistent.live)' /\ ColoursHeld'
    BY <2>1, <2>3, <1>2 DEF IsChain, HoldsBlocks, ColoursHeld
  <2>5. InputHeld' /\ TreeHeld' /\ RowsHeld'
    BY <2>1, <2>2, <2>3, <1>1, <1>2 DEF InputHeld, TreeHeld, RowsHeld
  <2> QED BY <2>3, <2>4, <2>5 DEF MemInv
<1> QED BY <1>3, <1>4

(* The output takes memory for colours only, and not from the arena in     *)
(* which the rows were.                                                    *)
LEMMA ColoursTaken ==
  ASSUME Arenas, ColoursHeld, NEW schemes, UseColours(schemes)
  PROVE  /\ Arenas' /\ ColoursHeld' /\ mem'.temporary = mem.temporary
         /\ mem.persistent.live \subseteq mem'.persistent.live
<1> DEFINE new == schemes \ colours
<1>1. /\ colours' = colours \cup schemes
      /\ mem' = [mem EXCEPT !.persistent = Alloc(@, {"colour"} \X new)]
  BY DEF UseColours, ColourArena
<1>2. /\ DOMAIN mem' = {"persistent", "temporary"} /\ mem.temporary = mem'.temporary
      /\ mem'.persistent = Alloc(mem.persistent, {"colour"} \X new)
  BY <1>1 DEF Arenas
<1>3. Arenas' /\ mem'.persistent.live = mem.persistent.live \cup ({"colour"} \X new)
  BY <1>2, AllocKeeps DEF Arenas
<1>4. \A c \in new : <<"colour", c>> \in mem'.persistent.live
  BY <1>3
<1>5. \A c \in colours' : c \in colours \/ c \in new
  BY <1>1
<1>6. ColoursHeld'
  BY <1>3, <1>4, <1>5 DEF ColoursHeld
<1> QED BY <1>2, <1>3, <1>6

LEMMA OutputKeeps == MemInv /\ (OpenDump \/ DrawBlock \/ DrawEdges \/ PrintIr) => MemInv'
<1> SUFFICES ASSUME MemInv, OpenDump \/ DrawBlock \/ DrawEdges \/ PrintIr PROVE MemInv'
  OBVIOUS
<1>1. status = "running"
  BY DEF OpenDump, DrawBlock, DrawEdges, PrintIr, At
<1>2. /\ Arenas /\ IsChain(blocks) /\ HoldsBlocks(blocks, mem.persistent.live)
      /\ TreeHeld /\ ColoursHeld /\ InputHeld /\ RowsHeld
  BY <1>1 DEF MemInv
<1>3. CASE OpenDump /\ \E how : End(how)
  BY <1>3, <1>1, EndKeeps
<1>4. ASSUME pc \in {"fopen", "output"}, pc' = "output", status' = status, value' = value,
             UNCHANGED <<blocks, tree>>, NEW schemes, UseColours(schemes)
      PROVE  MemInv'
  <2>1. /\ Arenas' /\ ColoursHeld' /\ mem'.temporary = mem.temporary
        /\ mem.persistent.live \subseteq mem'.persistent.live
        /\ blocks' = blocks /\ tree' = tree
    BY <1>2, <1>4, ColoursTaken
  <2>2. IsChain(blocks)' /\ HoldsBlocks(blocks, mem.persistent.live)'
    BY <2>1, <1>2 DEF IsChain, HoldsBlocks
  <2>3. InputHeld' /\ TreeHeld' /\ RowsHeld'
    BY <2>1, <1>2, <1>4 DEF InputHeld, TreeHeld, RowsHeld, Opened
  <2> QED BY <2>1, <2>2, <2>3 DEF MemInv
<1>5. CASE OpenDump /\ ~\E how : End(how)
  <2>1. /\ pc = "fopen" /\ Goto("output") /\ UseColours({"default"})
        /\ UNCHANGED <<blocks, tree>>
    BY <1>5 DEF OpenDump, At
  <2> QED BY <2>1, <1>4 DEF Goto, cmdVars
<1>6. CASE DrawBlock
  <2>1. /\ pc = "output" /\ pc' = pc /\ status' = status /\ value' = value
        /\ UNCHANGED <<blocks, tree>>
        /\ \E schemes : UseColours(schemes)
    BY <1>6 DEF DrawBlock, At, cmdVars
  <2> QED BY <2>1, <1>4
<1>7. CASE DrawEdges
  <2>1. Goto("close") /\ UNCHANGED mainVars /\ pc \in Opened
    BY <1>7 DEF DrawEdges, At, Opened
  <2> QED BY <2>1, <1>1, JumpKeeps
<1>8. CASE PrintIr
  <2>1. /\ pc = "ir" /\ pc' = "close" /\ value' = value
        /\ blocks' = blocks /\ tree' = tree /\ mem' = mem /\ colours' = colours
    BY <1>8 DEF PrintIr, At, Goto, cmdVars
  <2>2. Arenas' /\ IsChain(blocks)' /\ HoldsBlocks(blocks, mem.persistent.live)' /\ ColoursHeld'
    BY <2>1, <1>2 DEF Arenas, IsChain, HoldsBlocks, ColoursHeld
  <2>3. InputHeld' /\ TreeHeld' /\ RowsHeld'
    BY <2>1, <1>2 DEF InputHeld, TreeHeld, RowsHeld, Opened
  <2> QED BY <2>2, <2>3 DEF MemInv
<1> QED BY <1>3, <1>5, <1>6, <1>7, <1>8

LEMMA MemNextInv == MemInv /\ [Next]_vars => MemInv'
<1> SUFFICES ASSUME MemInv, [Next]_vars PROVE MemInv'
  OBVIOUS
<1>1. CASE UNCHANGED vars
  BY <1>1 DEF vars, mainVars, cmdVars, MemInv, Arenas, IsChain, InputHeld, HoldsBlocks, TreeHeld,
              RowsHeld, ColoursHeld
<1>2. CASE Close \/ Error
  <2>1. status' # "running"
    BY <1>2 DEF Close, Error, Free
  <2> QED BY <2>1 DEF MemInv
<1> QED BY <1>1, <1>2, InputKeeps, OpenKeeps, LiftKeeps, LiftedKeeps, GraphKeeps, SourcesKeeps,
           FlattenKeeps, StackKeeps, OutputKeeps DEF Next

(* The number of blocks printed is one.                                    *)
DrawnInv == drawn \in Nat

LEMMA StepsDrawn == [Next]_vars => drawn' = drawn \/ DrawBlock \/ PrintIr
<1> SUFFICES ASSUME [Next]_vars PROVE drawn' = drawn \/ DrawBlock \/ PrintIr
  OBVIOUS
<1>1. CASE UNCHANGED vars
  BY <1>1 DEF vars, mainVars
<1>2. CASE Parse \/ Parsed \/ TakeRegion \/ TakeStdin \/ NothingToTake \/ Lifted
  BY <1>2 DEF Parse, Parsed, TakeRegion, TakeStdin, NothingToTake, Lifted, Fail, End, Take, mainVars
<1>3. CASE TakeFunction \/ TakeSection
  BY <1>3 DEF TakeFunction, TakeSection, TakeElf, End, Take, mainVars
<1>4. CASE Open \/ Lift \/ Graph \/ Flatten \/ MaxStackSize
  BY <1>4 DEF Open, Lift, Graph, Flatten, MaxStackSize
<1>5. CASE Sources \/ NoSources \/ NoMaxStackSize \/ DrawEdges \/ OpenDump
  BY <1>5 DEF Sources, FindSources, NoSources, NoMaxStackSize, DrawEdges, OpenDump, End, mainVars
<1>6. CASE Close \/ Error
  BY <1>6 DEF Close, Error, Free
<1> QED BY <1>1, <1>2, <1>3, <1>4, <1>5, <1>6 DEF Next

LEMMA DrawnNextInv == MemInv /\ DrawnInv /\ [Next]_vars => DrawnInv'
<1> SUFFICES ASSUME MemInv, DrawnInv, [Next]_vars PROVE DrawnInv'
  OBVIOUS
<1>1. CASE drawn' = drawn
  BY <1>1 DEF DrawnInv
<1>2. CASE DrawBlock
  BY <1>2 DEF DrawBlock, DrawnInv
<1>3. CASE PrintIr
  <2>1. blocks \in Seq(Range(blocks)) /\ drawn' = Len(blocks)
    BY <1>3 DEF PrintIr, At, MemInv, IsChain
  <2> QED BY <2>1, LenProperties DEF DrawnInv
<1> QED BY <1>1, <1>2, <1>3, StepsDrawn

(* Nothing that main reads, from the bytes it lifts to the rows of the     *)
(* stack analysis it prints, can have been overwritten by a later          *)
(* allocation.  Of src/src/analyze-max-stack.c:131 and                     *)
(* src/src/dump-ir.c:319-351.                                              *)
THEOREM ReadsIntact == Spec => []IntactWhenRead
<1>1. Init => MemInv /\ DrawnInv
  BY MemInitInv DEF Init, DrawnInv
<1>2. (MemInv /\ DrawnInv) /\ [Next]_vars => (MemInv /\ DrawnInv)'
  BY MemNextInv, DrawnNextInv
<1>3. MemInv /\ DrawnInv => IntactWhenRead
  <2> SUFFICES ASSUME MemInv, DrawnInv, status = "running" PROVE IntactWhenRead
    BY DEF IntactWhenRead, At
  <2>1. /\ IsChain(blocks) /\ HoldsBlocks(blocks, mem.persistent.live)
        /\ TreeHeld /\ ColoursHeld /\ InputHeld /\ RowsHeld
    BY DEF MemInv
  <2>2. \A arena, owner : owner \in mem[arena].live \cup mem[arena].stale => Holds(arena, owner)
    BY DEF Holds
  <2>3. At("lift") => Holds("persistent", <<"data">>) /\ Holds("persistent", <<"context">>)
    BY <2>1, <2>2 DEF At, InputHeld, Opened
  <2>4. \A k \in DOMAIN blocks : /\ Holds("persistent", <<"node", blocks[k].address>>)
                                  /\ Holds("persistent", <<"insts", blocks[k].list>>)
    BY <2>1, <2>2 DEF HoldsBlocks
  <2>5. At("flatten") => Holds("persistent", <<"tree">>)
    BY <2>1, <2>2 DEF At, TreeHeld
  <2>6. \A c \in colours : Holds("persistent", <<"colour", c>>)
    BY <2>1, <2>2 DEF ColoursHeld
  <2>7. ASSUME At("output"), drawn < Len(blocks)
        PROVE  LET a == blocks[drawn + 1].address
               IN  /\ value["analyze_max_stack"] => Holds("temporary", <<"rows", a>>)
                   /\ a \in tree => Holds("temporary", <<"marks", a>>) /\ Holds("persistent", <<"tree">>)
    <3>1. Len(blocks) \in Nat /\ DOMAIN blocks = 1 .. Len(blocks)
      BY <2>1, LenProperties DEF IsChain
    <3>2. drawn + 1 \in DOMAIN blocks
      BY <3>1, <2>7 DEF DrawnInv
    <3>3. pc = "output"
      BY <2>7 DEF At
    <3>4. value["analyze_max_stack"] => Holds("temporary", <<"rows", blocks[drawn + 1].address>>)
      BY <3>2, <3>3, <2>1, <2>2 DEF RowsHeld
    <3>5. \A a \in tree : Holds("temporary", <<"marks", a>>) /\ Holds("persistent", <<"tree">>)
      BY <3>3, <2>1, <2>2 DEF TreeHeld
    <3> QED BY <3>4, <3>5
  <2> QED BY <2>3, <2>4, <2>5, <2>6, <2>7 DEF IntactWhenRead
<1> QED BY <1>1, <1>2, <1>3, PTL DEF Spec
-----------------------------------------------------------------------------
(* The variables of main have the types of their options.                  *)

TypedAs(type, x) ==
  /\ type = "BOOL" => x \in BOOLEAN
  /\ type \in {"ULONG", "HEX"} => x \in 0 .. ULONG_MAX

WordsInv ==
  /\ argv \in CommandLines /\ i \in 1 .. (Len(argv) + 1)
  /\ parse \in {"running", "true", "false"}
  /\ \A o \in Options : TypedAs(o.type, value[o.var])

LEMMA DefaultTyped ==
  ASSUME NEW o \in Options
  PROVE  TypedAs(o.type, Default(o))
<1>1. o.type \in {"STR", "BOOL", "ULONG", "HEX", "REG_TUPLE"} /\ 0 \in 0 .. ULONG_MAX
  BY CmdLineAssumption, WordsAssumption
<1>2. CASE o.type = "BOOL"
  BY <1>2 DEF TypedAs, Default
<1>3. CASE o.type \in {"ULONG", "HEX"}
  BY <1>1, <1>3 DEF TypedAs, Default
<1>4. CASE o.type \notin {"BOOL", "ULONG", "HEX"}
  BY <1>4 DEF TypedAs
<1> QED BY <1>2, <1>3, <1>4

LEMMA WordsInitInv == Init => WordsInv
<1> SUFFICES ASSUME Init PROVE WordsInv
  OBVIOUS
<1>1. /\ argv \in CommandLines /\ i = 1 /\ parse = "running"
      /\ value = [v \in {o.var : o \in Options} |->
                    Default(CHOOSE o \in Options : o.var = v)]
  BY DEF Init, CmdInit
<1>2. Len(argv) \in Nat
  BY <1>1, WordsAssumption, LenProperties
<1>3. ASSUME NEW o \in Options PROVE TypedAs(o.type, value[o.var])
  <2> DEFINE p == CHOOSE p \in Options : p.var = o.var
  <2>1. p \in Options /\ p.var = o.var
    OBVIOUS
  <2>2. value[o.var] = Default(p)
    BY <1>1
  <2> HIDE DEF p
  <2>3. p.type = o.type
    BY <2>1, VarOwns
  <2> QED BY <2>1, <2>2, <2>3, DefaultTyped
<1> QED BY <1>1, <1>2, <1>3 DEF WordsInv

(* A word of the command line, or the lack of one, is converted.           *)
LEMMA ConvertedTyped ==
  ASSUME argv \in CommandLines, NEW word \in Range(argv) \cup {NULL}, NEW type,
         NEW x \in Converted(type, word)
  PROVE  TypedAs(type, x)
<1>1. CASE type = "BOOL"
  BY <1>1 DEF Converted, TypedAs
<1>2. CASE type = "ULONG"
  <2>1. word # NULL /\ x = strtoul[10][word]
    BY <1>2 DEF Converted
  <2> QED BY <2>1, <1>2, WordsAssumption DEF TypedAs
<1>3. CASE type = "HEX"
  <2>1. word # NULL /\ x = strtoul[16][word]
    BY <1>3 DEF Converted
  <2> QED BY <2>1, <1>3, WordsAssumption DEF TypedAs
<1>4. CASE type \notin {"BOOL", "ULONG", "HEX"}
  BY <1>4 DEF TypedAs
<1> QED BY <1>1, <1>2, <1>3, <1>4

LEMMA StoreTyped ==
  ASSUME CmdInv, WordsInv, NEW option \in Options, NEW word \in Range(argv) \cup {NULL},
         parse_option(option, word)
  PROVE  \A o \in Options : TypedAs(o.type, value'[o.var])
<1> DEFINE stored == Converted(option.type, word)
           x == IF stored = {} THEN value[option.var] ELSE CHOOSE y \in stored : TRUE
<1>1. value' = [value EXCEPT ![option.var] = x]
  BY DEF parse_option
<1>2. TypedAs(option.type, x)
  <2>1. CASE stored = {}
    BY <2>1 DEF WordsInv
  <2>2. CASE stored # {}
    <3>1. x \in stored
      BY <2>2
    <3> HIDE DEF x
    <3> QED BY <3>1, ConvertedTyped DEF WordsInv
  <2> QED BY <2>1, <2>2
<1> HIDE DEF x
<1>3. ASSUME NEW o \in Options PROVE TypedAs(o.type, value'[o.var])
  <2>1. o.var \in DOMAIN value
    BY DEF CmdInv
  <2>2. CASE o.var = option.var
    <3>1. o.type = option.type
      BY <2>2, VarOwns
    <3>2. value'[o.var] = x
      BY <1>1, <2>1, <2>2
    <3> QED BY <3>1, <3>2, <1>2
  <2>3. CASE o.var # option.var
    <3>1. value'[o.var] = value[o.var]
      BY <1>1, <2>1, <2>3
    <3> QED BY <3>1 DEF WordsInv
  <2> QED BY <2>2, <2>3
<1> QED BY <1>3

LEMMA WordsStep == CmdInv /\ WordsInv /\ parse_options => WordsInv'
<1> SUFFICES ASSUME CmdInv, WordsInv, parse_options PROVE WordsInv'
  OBVIOUS
<1>0. /\ argv \in CommandLines /\ argv' = argv /\ i \in 1 .. (Len(argv) + 1)
      /\ parse \in {"running", "true", "false"}
      /\ \A o \in Options : TypedAs(o.type, value[o.var])
  BY DEF WordsInv, parse_options, Named, Unknown, Positional, TooMany, ParseEnd
<1>1. Len(argv) \in Nat /\ DOMAIN argv = 1 .. Len(argv)
  BY <1>0, WordsAssumption, LenProperties
<1>2. ASSUME NEW k \in 1 .. Len(argv) PROVE argv[k] \in Range(argv)
  BY <1>1 DEF Range
<1>3. CASE Named
  <2>1. PICK j \in Matching(argv[i]), valued \in BOOLEAN :
          /\ valued => i < Len(argv)
          /\ parse_option(named_options[j], IF valued THEN argv[i + 1] ELSE NULL)
          /\ i' = IF valued THEN i + 2 ELSE i + 1
    BY <1>3 DEF Named
  <2>2. i <= Len(argv) /\ parse' = parse
    BY <1>3 DEF Named, Parsing
  <2>3. named_options[j] \in Options
    BY OptionsAre DEF Matching
  <2>4. (IF valued THEN argv[i + 1] ELSE NULL) \in Range(argv) \cup {NULL}
    <3>1. CASE valued
      <4>1. i + 1 \in 1 .. Len(argv)
        BY <3>1, <2>1, <1>0, <1>1
      <4> QED BY <4>1, <1>2, <3>1
    <3> QED BY <3>1
  <2>5. \A o \in Options : TypedAs(o.type, value'[o.var])
    BY <2>1, <2>3, <2>4, StoreTyped
  <2>6. i' \in 1 .. (Len(argv) + 1)
    BY <2>1, <2>2, <1>0, <1>1
  <2> QED BY <2>2, <2>5, <2>6, <1>0 DEF WordsInv
<1>4. CASE Unknown
  <2>1. i' = i + 1 /\ i <= Len(argv) /\ parse' = parse /\ value' = value
    BY <1>4 DEF Unknown, Parsing
  <2>2. i' \in 1 .. (Len(argv) + 1)
    BY <2>1, <1>0, <1>1
  <2> QED BY <2>1, <2>2, <1>0 DEF WordsInv
<1>5. CASE Positional
  <2>1. /\ i' = i + 1 /\ i <= Len(argv) /\ parse' = parse
        /\ parse_option(pos_options[pos_index + 1], argv[i]) /\ pos_index < Len(pos_options)
    BY <1>5 DEF Positional, Parsing
  <2>2. i \in 1 .. Len(argv) /\ i' \in 1 .. (Len(argv) + 1)
    BY <2>1, <1>0, <1>1
  <2>3. pos_options[pos_index + 1] \in Options
    BY <2>1, OptionsAre DEF CmdInv
  <2>4. \A o \in Options : TypedAs(o.type, value'[o.var])
    BY <2>1, <2>2, <2>3, <1>2, StoreTyped
  <2> QED BY <2>1, <2>2, <2>4, <1>0 DEF WordsInv
<1>6. CASE TooMany \/ ParseEnd
  <2>1. i' = i /\ value' = value /\ parse' \in {"running", "true", "false"}
    BY <1>6 DEF TooMany, ParseEnd
  <2> QED BY <2>1, <1>0 DEF WordsInv
<1> QED BY <1>3, <1>4, <1>5, <1>6 DEF parse_options

LEMMA CmdNextInv == CmdInv /\ WordsInv /\ [Next]_vars => (CmdInv /\ WordsInv)'
<1>1. WordsInv /\ UNCHANGED cmdVars => WordsInv'
  BY DEF WordsInv, cmdVars
<1> QED BY <1>1, StepWins, StepsCmd, CmdInvKept, WordsStep

-----------------------------------------------------------------------------
(* No word is used for two options.  A choice of a place for each option   *)
(* that is set, so that the words there do not meet (SharedOut), is kept   *)
(* by every step: what the set options took is read by then, and what the  *)
(* next one takes is not.  An option that is not set still has its default. *)

Given == {n \in DOMAIN AllOptions : AllOptions[n].var \in parsed}

SharedOut(at) ==
  \A n \in Given :
    /\ at[n] \in Place(AllOptions[n])
    /\ \A m \in Given : m # n =>
         Words(AllOptions[n], at[n]) \cap Words(AllOptions[m], at[m]) = {}

Unset == \A o \in Options : o.var \notin parsed => value[o.var] = Default(o)

OnceInv == Unset /\ \E at \in [DOMAIN AllOptions -> Nat] : SharedOut(at)

LEMMA AllAreOptions == \A n \in DOMAIN AllOptions : AllOptions[n] \in Options
<1> SUFFICES ASSUME NEW n \in DOMAIN AllOptions PROVE AllOptions[n] \in Options
  OBVIOUS
<1>1. CASE n <= Len(named_options)
  BY <1>1, AllOptionsAre, OptionsAre
<1>2. CASE ~(n <= Len(named_options))
  <2>1. /\ n - Len(named_options) \in 1 .. Len(pos_options)
        /\ Len(named_options) + (n - Len(named_options)) = n
    BY <1>2, AllOptionsAre
  <2> QED BY <2>1, AllOptionsAre, OptionsAre
<1> QED BY <1>1, <1>2

(* An option that was not set takes the words from i on.                   *)
LEMMA TakesWords ==
  ASSUME CmdInv, WordsInv, OnceInv, NEW n \in DOMAIN AllOptions, NEW word,
         AllOptions[n].var \notin parsed, parse_option(AllOptions[n], word), argv' = argv,
         i <= Len(argv), i' \in Nat, i < i', \A w \in Words(AllOptions[n], i) : w < i',
         argv[i] \in AllOptions[n].names \/ AllOptions[n] \in Range(pos_options),
         SetFrom(AllOptions[n], i) = LET stored == Converted(AllOptions[n].type, word)
                                     IN  IF stored = {} THEN {Default(AllOptions[n])} ELSE stored
  PROVE  OnceInv'
<1> DEFINE o == AllOptions[n]
           stored == Converted(o.type, word)
           x == IF stored = {} THEN value[o.var] ELSE CHOOSE y \in stored : TRUE
<1>1. value' = [value EXCEPT ![o.var] = x] /\ parsed' = parsed \cup {o.var}
  BY DEF parse_option
<1>2. o \in Options /\ \A p \in Options : p.var \in DOMAIN value
  BY AllAreOptions DEF CmdInv
<1>3. x \in SetFrom(o, i)
  <2>1. CASE stored = {}
    <3>1. x = Default(o)
      BY <2>1, <1>2 DEF OnceInv, Unset
    <3> QED BY <2>1, <3>1
  <2>2. CASE stored # {}
    <3>1. x \in stored
      BY <2>2
    <3> HIDE DEF x
    <3> QED BY <2>2, <3>1
  <2> QED BY <2>1, <2>2
<1> HIDE DEF x, stored
<1>4. \A p \in Options : p.var # o.var => value'[p.var] = value[p.var]
  BY <1>1, <1>2
<1>5. value'[o.var] = x
  BY <1>1, <1>2
<1>6. i \in 1 .. Len(argv) /\ i \in Nat /\ Len(argv) \in Nat
  <2>1. argv \in CommandLines /\ i \in 1 .. (Len(argv) + 1)
    BY DEF WordsInv
  <2>2. Len(argv) \in Nat
    BY <2>1, WordsAssumption, LenProperties
  <2> QED BY <2>1, <2>2
<1>7. \A p, k : Words(p, k)' = Words(p, k) /\ SetFrom(p, k)' = SetFrom(p, k)
  BY DEF Words, SetFrom
<1>8. \A j, k \in DOMAIN AllOptions : AllOptions[j].var = AllOptions[k].var => j = k
  BY CmdLineAssumption
<1>9. PICK at \in [DOMAIN AllOptions -> Nat] : SharedOut(at)
  BY DEF OnceInv
<1>10. PICK at2 \in [DOMAIN AllOptions -> Nat] :
         at2[n] = i /\ \A m \in DOMAIN AllOptions : m # n => at2[m] = at[m]
  <2> DEFINE f == [at EXCEPT ![n] = i]
  <2>1. f \in [DOMAIN AllOptions -> Nat]
    BY <1>6
  <2>2. f[n] = i /\ \A m \in DOMAIN AllOptions : m # n => f[m] = at[m]
    OBVIOUS
  <2> HIDE DEF f
  <2> QED BY <2>1, <2>2
<1>11. Unset'
  <2> SUFFICES ASSUME NEW p \in Options, p.var \notin parsed' PROVE value'[p.var] = Default(p)
    BY DEF Unset
  <2>1. p.var # o.var /\ p.var \notin parsed
    BY <1>1
  <2> QED BY <2>1, <1>4 DEF OnceInv, Unset
<1>12. /\ n \notin Given /\ \A m : m \in Given' <=> m = n \/ m \in Given
       /\ \A m \in Given : m \in DOMAIN AllOptions /\ AllOptions[m].var # o.var
  BY <1>1, <1>8 DEF Given
<1> HIDE DEF o
<1>13. \A p, k : k \in Place(p) <=>
         /\ k \in 1 .. Len(argv) /\ (argv[k] \in p.names \/ p \in Range(pos_options))
         /\ value[p.var] \in SetFrom(p, k) /\ \A w \in Words(p, k) : w < i
  BY DEF Place
<1>14. \A p, k : k \in Place(p)' <=>
         /\ k \in 1 .. Len(argv) /\ (argv[k] \in p.names \/ p \in Range(pos_options))
         /\ value'[p.var] \in SetFrom(p, k) /\ \A w \in Words(p, k) : w < i'
  BY <1>7 DEF Place
<1>15. \A p : \A k \in Nat : \A w \in Words(p, k) : w \in Nat /\ k <= w
  BY DEF Words
<1>16. ASSUME NEW m \in Given
       PROVE  at2[m] \in Place(AllOptions[m])' /\ \A w \in Words(AllOptions[m], at2[m]) : w < i
  <2>1. m # n /\ at2[m] = at[m] /\ m \in DOMAIN AllOptions /\ at[m] \in Nat
    BY <1>10, <1>12
  <2>2. at[m] \in Place(AllOptions[m])
    BY <1>9 DEF SharedOut
  <2>3. value'[AllOptions[m].var] = value[AllOptions[m].var]
    BY <2>1, <1>4, <1>12, AllAreOptions
  <2>4. \A w \in Words(AllOptions[m], at[m]) : w \in Nat /\ w < i
    BY <2>1, <2>2, <1>13, <1>15
  <2>5. \A w \in Words(AllOptions[m], at[m]) : w < i'
    BY <2>4, <1>6
  <2> QED BY <2>1, <2>2, <2>3, <2>4, <2>5, <1>13, <1>14
<1>17. at2[n] \in Place(AllOptions[n])' /\ \A w \in Words(AllOptions[n], at2[n]) : i <= w /\ w \in Nat
  <2>1. i \in Place(o)'
    BY <1>3, <1>5, <1>6, <1>14 DEF o
  <2> QED BY <2>1, <1>6, <1>10, <1>15 DEF o
<1>18. ASSUME NEW m \in Given
       PROVE  /\ Words(AllOptions[n], at2[n]) \cap Words(AllOptions[m], at2[m]) = {}
              /\ Words(AllOptions[m], at2[m]) \cap Words(AllOptions[n], at2[n]) = {}
  <2> SUFFICES ASSUME NEW w \in Words(AllOptions[n], at2[n]), w \in Words(AllOptions[m], at2[m])
               PROVE  FALSE
    OBVIOUS
  <2>1. i <= w /\ w \in Nat
    BY <1>17
  <2>2. w < i
    BY <1>16
  <2> QED BY <1>6, <2>1, <2>2
<1>19. ASSUME NEW m \in Given, NEW k \in Given, m # k
       PROVE  Words(AllOptions[m], at2[m]) \cap Words(AllOptions[k], at2[k]) = {}
  BY <1>9, <1>10, <1>12, <1>19 DEF SharedOut
<1>20. SharedOut(at2)'
  <2> SUFFICES ASSUME NEW m \in Given'
               PROVE  /\ at2[m] \in Place(AllOptions[m])'
                      /\ \A k \in Given' : k # m =>
                           Words(AllOptions[m], at2[m]) \cap Words(AllOptions[k], at2[k]) = {}
    BY <1>7, Zenon DEF SharedOut
  <2>1. m = n \/ m \in Given
    BY <1>12
  <2>2. at2[m] \in Place(AllOptions[m])'
    BY <2>1, <1>16, <1>17
  <2>3. ASSUME NEW k \in Given', k # m
        PROVE  Words(AllOptions[m], at2[m]) \cap Words(AllOptions[k], at2[k]) = {}
    <3>1. k = n \/ k \in Given
      BY <1>12
    <3> QED BY <2>1, <2>3, <3>1, <1>18, <1>19, Zenon
  <2> QED BY <2>2, <2>3
<1> QED BY <1>10, <1>11, <1>20 DEF OnceInv

LEMMA OnceKept == OnceInv /\ UNCHANGED <<argv, parsed, value>> /\ i \in Nat /\ i' \in Nat /\ i <= i' => OnceInv'
<1> SUFFICES ASSUME OnceInv, UNCHANGED <<argv, parsed, value>>, i \in Nat, i' \in Nat, i <= i'
             PROVE  OnceInv'
  OBVIOUS
<1>1. PICK at \in [DOMAIN AllOptions -> Nat] : SharedOut(at)
  BY DEF OnceInv
<1>2. Given' = Given /\ \A p, k : Words(p, k)' = Words(p, k) /\ SetFrom(p, k)' = SetFrom(p, k)
  BY DEF Given, Words, SetFrom
<1>3. ASSUME NEW m \in Given PROVE at[m] \in Place(AllOptions[m])'
  <2>1. at[m] \in Nat /\ at[m] \in Place(AllOptions[m])
    BY <1>1 DEF SharedOut, Given
  <2>2. \A w \in Words(AllOptions[m], at[m]) : w \in Nat /\ w < i
    BY <2>1 DEF Words, Place
  <2>3. \A w \in Words(AllOptions[m], at[m]) : w < i'
    BY <2>2
  <2> QED BY <2>1, <2>3, <1>2 DEF Place
<1>4. SharedOut(at)'
  BY <1>1, <1>2, <1>3 DEF SharedOut
<1>5. Unset'
  BY DEF OnceInv, Unset
<1> QED BY <1>1, <1>4, <1>5 DEF OnceInv

LEMMA OnceStep == CmdInv /\ WordsInv /\ OnceInv /\ parse_options => OnceInv'
<1> SUFFICES ASSUME CmdInv, WordsInv, OnceInv, parse_options PROVE OnceInv'
  OBVIOUS
<1>1. i \in Nat /\ i \in 1 .. (Len(argv) + 1) /\ Len(argv) \in Nat
  <2>1. argv \in CommandLines /\ i \in 1 .. (Len(argv) + 1)
    BY DEF WordsInv
  <2> QED BY <2>1, WordsAssumption, LenProperties
<1>2. CASE Named
  <2>1. PICK j \in Matching(argv[i]) :
          LET option == named_options[j]
              valued == i < Len(argv) /\ option.type # "BOOL"
          IN  /\ parse_option(option, IF valued THEN argv[i + 1] ELSE NULL)
              /\ i' = IF valued THEN i + 2 ELSE i + 1
    BY <1>2 DEF Named
  <2>2. i <= Len(argv) /\ argv' = argv
    BY <1>2 DEF Named, Parsing
  <2> DEFINE o == AllOptions[j]
             valued == i < Len(argv) /\ o.type # "BOOL"
             word == IF valued THEN argv[i + 1] ELSE NULL
  <2>3. /\ j \in DOMAIN AllOptions /\ o = named_options[j] /\ o.var \notin parsed
        /\ argv[i] \in o.names /\ o \in Range(named_options)
    BY AllOptionsAre DEF Matching, Range
  <2>4. parse_option(o, word) /\ i' = IF valued THEN i + 2 ELSE i + 1
    BY <2>1, <2>3
  <2>5. o \notin Range(pos_options)
    BY <2>3, OptionsAre, AllOptionsAre DEF Range, Matching
  <2> HIDE DEF o
  <2>6. i' \in Nat /\ i < i' /\ \A w \in Words(o, i) : w < i'
    BY <2>4, <1>1 DEF Words
  <2>7. SetFrom(o, i) = LET stored == Converted(o.type, word)
                        IN  IF stored = {} THEN {Default(o)} ELSE stored
    <3>1. CASE o.type = "BOOL"
      <4>1. \A w : Converted(o.type, w) = {TRUE}
        BY <3>1 DEF Converted
      <4> HIDE DEF word
      <4>2. SetFrom(o, i) = IF {TRUE} = {} THEN {Default(o)} ELSE {TRUE}
        BY <4>1, Zenon DEF SetFrom
      <4> QED BY <4>1, <4>2
    <3>2. CASE o.type # "BOOL"
      BY <3>2, <2>5 DEF SetFrom
    <3> QED BY <3>1, <3>2
  <2> HIDE DEF word
  <2> QED BY <2>2, <2>3, <2>4, <2>6, <2>7, TakesWords DEF o
<1>3. CASE Positional
  <2> DEFINE j == pos_index + 1
             n == Len(named_options) + j
             o == AllOptions[n]
  <2>1. /\ i <= Len(argv) /\ argv' = argv /\ i' = i + 1 /\ pos_index < Len(pos_options)
        /\ parse_option(pos_options[j], argv[i])
    BY <1>3 DEF Positional, Parsing
  <2>2. j \in 1 .. Len(pos_options) /\ j > pos_index
    BY <2>1, AllOptionsAre DEF CmdInv
  <2>3. n \in DOMAIN AllOptions /\ o = pos_options[j] /\ o.var \notin parsed
    BY <2>2, AllOptionsAre DEF CmdInv
  <2>4. o \in Range(pos_options) /\ o \notin Range(named_options)
    BY <2>2, <2>3, OptionsAre, AllOptionsAre DEF Range
  <2> HIDE DEF o, n, j
  <2>5. i' \in Nat /\ i < i' /\ \A w \in Words(o, i) : w < i'
    BY <2>1, <2>4, <1>1 DEF Words
  <2>6. SetFrom(o, i) = LET stored == Converted(o.type, argv[i])
                        IN  IF stored = {} THEN {Default(o)} ELSE stored
    BY <2>4 DEF SetFrom
  <2> QED BY <2>1, <2>3, <2>4, <2>5, <2>6, TakesWords DEF o
<1>4. CASE Unknown \/ TooMany \/ ParseEnd
  <2>1. UNCHANGED <<argv, parsed, value>> /\ i' \in {i, i + 1}
    BY <1>4 DEF Unknown, TooMany, ParseEnd
  <2> QED BY <2>1, <1>1, OnceKept
<1> QED BY <1>2, <1>3, <1>4 DEF parse_options

LEMMA OnceInit == Init => OnceInv
<1> SUFFICES ASSUME Init PROVE OnceInv
  OBVIOUS
<1>1. /\ parsed = {}
      /\ value = [v \in {o.var : o \in Options} |->
                    Default(CHOOSE o \in Options : o.var = v)]
  BY DEF Init, CmdInit
<1>2. ASSUME NEW o \in Options PROVE value[o.var] = Default(o)
  <2> DEFINE p == CHOOSE p \in Options : p.var = o.var
  <2>1. p \in Options /\ p.var = o.var
    OBVIOUS
  <2>2. value[o.var] = Default(p)
    BY <1>1
  <2> HIDE DEF p
  <2>3. p = o
    BY <2>1, VarOwns
  <2> QED BY <2>2, <2>3
<1> DEFINE at == [n \in DOMAIN AllOptions |-> 0]
<1>3. at \in [DOMAIN AllOptions -> Nat] /\ SharedOut(at)
  BY <1>1 DEF SharedOut, Given
<1> QED BY <1>2, <1>3 DEF OnceInv, Unset

(* The shares, collected option by option, are a way that EachWordOnce     *)
(* looks for.  That its table of ways exists is shown for each length.     *)
WaysOn(before, n) ==
  IF AllOptions[n].var \notin parsed THEN before
  ELSE UNION {{used \cup Words(AllOptions[n], k) :
                 used \in {u \in before : u \cap Words(AllOptions[n], k) = {}}} :
               k \in Place(AllOptions[n])}

WaysFrom(g, n) == IF n = 0 THEN {{}} ELSE WaysOn(g[n - 1], n)

LEMMA OnceIs ==
  EachWordOnce <=>
    (CHOOSE g : g = [n \in 0 .. Len(AllOptions) |-> WaysFrom(g, n)])[Len(AllOptions)] # {}
BY Zenon DEF EachWordOnce, WaysFrom, WaysOn

LEMMA WaysExist == \E g : g = [n \in 0 .. Len(AllOptions) |-> WaysFrom(g, n)]
<1> DEFINE N == Len(AllOptions)
           Table(m, g) == g = [n \in 0 .. m |-> WaysFrom(g, n)]
           T == {m \in Nat : ~\E g : Table(m, g)}
<1>1. N \in Nat
  BY AllOptionsAre
<1>2. T = {}
  <2> SUFFICES ASSUME T # {} PROVE FALSE
    OBVIOUS
  <2>1. PICK m \in T : \A d \in T : m <= d
    BY NatMin
  <2>2. m # 0
    <3> DEFINE g == [n \in 0 .. 0 |-> {{}}]
    <3>1. \A n \in 0 .. 0 : n = 0
      OBVIOUS
    <3>2. \A n \in 0 .. 0 : WaysFrom(g, n) = {{}}
      BY <3>1 DEF WaysFrom
    <3>3. Table(0, g)
      BY <3>2
    <3> QED BY <3>3
  <2>3. PICK g : Table(m - 1, g)
    <3>1. m - 1 \in Nat /\ m - 1 < m
      BY <2>2
    <3> QED BY <3>1, <2>1
  <2> DEFINE h == [n \in 0 .. m |-> IF n = m THEN WaysFrom(g, m) ELSE g[n]]
  <2>4. ASSUME NEW n \in 0 .. m PROVE h[n] = WaysFrom(h, n)
    <3>1. n # 0 => n - 1 \in 0 .. (m - 1) /\ h[n - 1] = g[n - 1]
      OBVIOUS
    <3>2. WaysFrom(h, n) = WaysFrom(g, n)
      <4> HIDE DEF h
      <4>1. CASE n = 0
        BY <4>1 DEF WaysFrom
      <4>2. CASE n # 0
        <5>1. h[n - 1] = g[n - 1]
          BY <3>1, <4>2
        <5> QED BY <4>2, <5>1, Zenon DEF WaysFrom
      <4> QED BY <4>1, <4>2
    <3>3. n # m => n \in 0 .. (m - 1) /\ g[n] = WaysFrom(g, n)
      BY <2>3
    <3> QED BY <3>2, <3>3
  <2>5. h = [n \in 0 .. m |-> h[n]]
    OBVIOUS
  <2> HIDE DEF h
  <2>6. Table(m, h)
    BY <2>4, <2>5
  <2> QED BY <2>6
<1>3. N \notin T
  BY <1>2
<1> QED BY <1>1, <1>3

LEMMA SharesAreAWay == WordsInv /\ OnceInv => EachWordOnce
<1> SUFFICES ASSUME WordsInv, OnceInv PROVE EachWordOnce
  OBVIOUS
<1> DEFINE N == Len(AllOptions)
           g == CHOOSE g : g = [n \in 0 .. N |-> WaysFrom(g, n)]
<1>1. g = [n \in 0 .. N |-> WaysFrom(g, n)]
  BY WaysExist
<1> HIDE DEF g
<1>2. PICK at \in [DOMAIN AllOptions -> Nat] : SharedOut(at)
  BY DEF OnceInv
<1> DEFINE Used(n) == UNION {Words(AllOptions[m], at[m]) : m \in {m \in Given : m <= n}}
           T == {n \in Nat : n <= N /\ Used(n) \notin g[n]}
<1>3. N \in Nat /\ DOMAIN AllOptions = 1 .. N /\ \A m \in Given : m \in 1 .. N
  BY AllOptionsAre DEF Given
<1>4. T = {}
  <2> SUFFICES ASSUME T # {} PROVE FALSE
    OBVIOUS
  <2>1. PICK n \in T : \A d \in T : n <= d
    BY NatMin
  <2>2. n \in Nat /\ n <= N /\ Used(n) \notin g[n] /\ g[n] = WaysFrom(g, n)
    BY <1>1, <1>3
  <2>3. n # 0
    <3>1. SUFFICES ASSUME n = 0 PROVE FALSE
      OBVIOUS
    <3>2. {m \in Given : m <= n} = {}
      BY <3>1, <1>3
    <3>3. Used(n) = {}
      BY <3>2
    <3> HIDE DEF Used
    <3> QED BY <3>1, <3>3, <2>2 DEF WaysFrom
  <2>4. n - 1 \in Nat /\ n - 1 <= N /\ n - 1 < n /\ n \in DOMAIN AllOptions
    BY <2>2, <2>3, <1>3
  <2>5. Used(n - 1) \in g[n - 1]
    <3>1. n - 1 \notin T
      <4> HIDE DEF T
      <4> QED BY <2>1, <2>2, <2>4
    <3> QED BY <3>1, <2>4
  <2>6. CASE AllOptions[n].var \notin parsed
    <3>1. n \notin Given
      BY <2>6 DEF Given
    <3>2. {m \in Given : m <= n} = {m \in Given : m <= n - 1}
      BY <3>1, <1>3, <2>2
    <3>3. Used(n) = Used(n - 1)
      BY <3>2
    <3> HIDE DEF Used
    <3> QED BY <3>3, <2>2, <2>3, <2>5, <2>6 DEF WaysFrom, WaysOn
  <2>7. CASE AllOptions[n].var \in parsed
    <3>1. n \in Given
      BY <2>7, <2>4 DEF Given
    <3>2. {m \in Given : m <= n} = {m \in Given : m <= n - 1} \cup {n}
      <4>1. \A m \in Given : m <= n <=> m <= n - 1 \/ m = n
        BY <1>3, <2>2
      <4> QED BY <3>1, <4>1
    <3>3. Used(n) = Used(n - 1) \cup Words(AllOptions[n], at[n])
      <4> DEFINE S == {m \in Given : m <= n - 1}
      <4>1. {m \in Given : m <= n} = S \cup {n}
        BY <3>2
      <4> HIDE DEF S
      <4>2. UNION {Words(AllOptions[m], at[m]) : m \in S \cup {n}}
              = (UNION {Words(AllOptions[m], at[m]) : m \in S}) \cup Words(AllOptions[n], at[n])
        <5> DEFINE W(m) == Words(AllOptions[m], at[m])
        <5> HIDE DEF W
        <5>1. UNION {W(m) : m \in S \cup {n}} = (UNION {W(m) : m \in S}) \cup W(n)
          OBVIOUS
        <5> QED BY <5>1 DEF W
      <4> QED BY <4>1, <4>2 DEF S
    <3>4. Used(n - 1) \cap Words(AllOptions[n], at[n]) = {}
      <4>1. ASSUME NEW m \in Given, m <= n - 1
            PROVE  Words(AllOptions[m], at[m]) \cap Words(AllOptions[n], at[n]) = {}
        <5>1. n # m
          BY <4>1, <1>3, <2>2
        <5> QED BY <5>1, <3>1, <1>2 DEF SharedOut
      <4> QED BY <4>1
    <3>5. at[n] \in Place(AllOptions[n])
      BY <3>1, <1>2 DEF SharedOut
    <3> HIDE DEF Used
    <3>6. Used(n) \in UNION {{used \cup Words(AllOptions[n], k) :
                 used \in {u \in g[n - 1] : u \cap Words(AllOptions[n], k) = {}}} :
               k \in Place(AllOptions[n])}
      BY <3>3, <3>4, <3>5, <2>5
    <3> QED BY <3>6, <2>2, <2>3, <2>7 DEF WaysFrom, WaysOn
  <2> QED BY <2>6, <2>7
<1>5. Used(N) \in g[N]
  <2>1. N \notin T
    BY <1>4
  <2> QED BY <2>1, <1>3
<1>6. g[N] # {}
  BY <1>5
<1> QED BY <1>6, OnceIs DEF g

(* However names and values are ordered, repeated or left out, no word of  *)
(* the command line is used for two options (EachWordOnce).                *)
THEOREM WordsUsedOnce == Spec => []EachWordOnce
<1>1. CmdInv /\ WordsInv /\ OnceInv /\ [Next]_vars => OnceInv'
  <2> SUFFICES ASSUME CmdInv, WordsInv, OnceInv, [Next]_vars PROVE OnceInv'
    OBVIOUS
  <2>1. CASE UNCHANGED cmdVars
    <3>1. i \in Nat /\ i' = i /\ UNCHANGED <<argv, parsed, value>>
      <4>1. argv \in CommandLines /\ i \in 1 .. (Len(argv) + 1)
        BY DEF WordsInv
      <4>2. Len(argv) \in Nat
        BY <4>1, WordsAssumption, LenProperties
      <4> QED BY <2>1, <4>1, <4>2 DEF cmdVars
    <3> QED BY <3>1, OnceKept
  <2> QED BY <2>1, StepsCmd, OnceStep
<1> QED BY <1>1, CmdInitInv, WordsInitInv, OnceInit, CmdNextInv, SharesAreAWay, PTL DEF Spec

(* What main makes of its options.                                         *)
LEMMA ValuesAre ==
  ASSUME WordsInv
  PROVE  value["size"] \in 0 .. ULONG_MAX /\ value["offset"] \in 0 .. ULONG_MAX
<1> DEFINE N == named_options
<1>1. /\ N = NamedOptions
      /\ N[2].type = "HEX" /\ N[2].var = "offset"
      /\ N[3].type = "ULONG" /\ N[3].var = "size"
      /\ {2, 3} \subseteq DOMAIN N
  BY DriverAssumption DEF NamedOptions, Opt
<1>2. N[2] \in Options /\ N[3] \in Options
  BY <1>1, OptionsAre
<1> HIDE DEF N
<1> QED BY <1>1, <1>2 DEF WordsInv, TypedAs
-----------------------------------------------------------------------------
(* ELF files.  The number of a machine is read alike on every host, and so *)
(* elf_data accepts the files that are Loadable and no other.              *)

Small(n, bound) == n \in Nat /\ n < bound

LEMMA TwoBytes ==
  ASSUME NEW a, Small(a, 256), NEW b, Small(b, 256), NEW n, Small(n, 65536)
  PROVE  /\ (a + 256 * b) % 256 = a /\ (a + 256 * b) \div 256 = b
         /\ n = a + 256 * b <=> (n % 256 = a /\ n \div 256 = b)
<1>1. (a + 256 * b) % 256 = a /\ (a + 256 * b) \div 256 = b
  BY DEF Small
<1>2. n = (n % 256) + 256 * (n \div 256)
  BY DEF Small
<1> QED BY <1>1, <1>2

LEMMA Pairs ==
  ASSUME NEW S, NEW s \in Seq(S), Len(s) = 2, NEW a, NEW b
  PROVE  /\ s[1] \in S /\ s[2] \in S
         /\ s = <<a, b>> <=> (s[1] = a /\ s[2] = b)
<1>1. s[1] \in S /\ s[2] \in S
  BY ElementOfSeq
<1>2. ASSUME s[1] = a, s[2] = b PROVE s = <<a, b>>
  <2>1. <<a, b>> \in Seq(S) /\ Len(<<a, b>>) = 2
    BY <1>1, <1>2
  <2>2. \A k \in 1 .. 2 : k = 1 \/ k = 2
    OBVIOUS
  <2>3. \A k \in 1 .. 2 : s[k] = <<a, b>>[k]
    BY <1>2, <2>2
  <2> QED BY <2>1, <2>3, SeqEqual
<1> QED BY <1>1, <1>2

LEMMA MachineBytes ==
  ASSUME NEW f, IsElf(f), NEW n, Small(n, 65536)
  PROVE  n = Machine(f) <=>
           f.machine = IF f.data = "ELFDATA2LSB" THEN <<n % 256, n \div 256>>
                                                 ELSE <<n \div 256, n % 256>>
<1> DEFINE a == f.machine[1]
           b == f.machine[2]
           S == 0 .. 255
<1>0. /\ f.machine \in Seq(S) /\ Len(f.machine) = 2
      /\ \A x \in S : Small(x, 256)
  BY DEF IsElf, Small
<1> HIDE DEF S
<1>1. Small(a, 256) /\ Small(b, 256)
  BY <1>0, Pairs
<1>2. Machine(f) = IF f.data = "ELFDATA2LSB" THEN a + 256 * b ELSE b + 256 * a
  <2> DEFINE v == Uint16(f.machine)
  <2>1. Machine(f) = IF HOST_LE # (f.data = "ELFDATA2LSB") THEN (v % 256) * 256 + v \div 256 ELSE v
    BY DEF Machine, bswap16
  <2>2. v = IF HOST_LE THEN a + 256 * b ELSE b + 256 * a
    BY DEF Uint16
  <2> HIDE DEF v
  <2>3. /\ (a + 256 * b) % 256 = a /\ (a + 256 * b) \div 256 = b
        /\ (b + 256 * a) % 256 = b /\ (b + 256 * a) \div 256 = a
        /\ a * 256 + b = b + 256 * a /\ b * 256 + a = a + 256 * b
    <3>1. a * 256 + b = b + 256 * a /\ b * 256 + a = a + 256 * b
      BY <1>1 DEF Small
    <3> QED BY <3>1, <1>1, TwoBytes
  <2>4. HOST_LE = TRUE \/ HOST_LE = FALSE
    BY ElfLoadAssumption
  <2>5. CASE HOST_LE = TRUE
    <3>1. v = a + 256 * b
      BY <2>2, <2>5
    <3>2. CASE f.data = "ELFDATA2LSB"
      BY ONLY <3>1, <3>2, <2>1, <2>5
    <3>3. CASE f.data # "ELFDATA2LSB"
      <4>1. v % 256 = a /\ v \div 256 = b
        BY ONLY <3>1, <2>3
      <4>2. Machine(f) = (v % 256) * 256 + v \div 256
        BY ONLY <2>1, <2>5, <3>3
      <4>3. Machine(f) = a * 256 + b
        BY ONLY <4>1, <4>2
      <4> QED BY ONLY <4>3, <2>3, <3>3
    <3> QED BY <3>2, <3>3
  <2>6. CASE HOST_LE = FALSE
    <3>1. v = b + 256 * a
      BY <2>2, <2>6
    <3>2. CASE f.data = "ELFDATA2LSB"
      <4>1. v % 256 = b /\ v \div 256 = a
        BY ONLY <3>1, <2>3
      <4>2. Machine(f) = (v % 256) * 256 + v \div 256
        BY ONLY <2>1, <2>6, <3>2
      <4>3. Machine(f) = b * 256 + a
        BY ONLY <4>1, <4>2
      <4> QED BY ONLY <4>3, <2>3, <3>2
    <3>3. CASE f.data # "ELFDATA2LSB"
      BY ONLY <3>1, <3>3, <2>1, <2>6
    <3> QED BY <3>2, <3>3
  <2> QED BY ONLY <2>4, <2>5, <2>6, Zenon
<1>3. \A x, y : f.machine = <<x, y>> <=> (a = x /\ b = y)
  BY <1>0, Pairs
<1> HIDE DEF a, b
<1>4. CASE f.data = "ELFDATA2LSB"
  BY <1>1, <1>2, <1>3, <1>4, TwoBytes
<1>5. CASE f.data # "ELFDATA2LSB"
  BY <1>1, <1>2, <1>3, <1>5, TwoBytes
<1> QED BY <1>4, <1>5

LEMMA Tables ==
  /\ DOMAIN LittleEndian \subseteq DOMAIN EM /\ DOMAIN BigEndian \subseteq DOMAIN EM
  /\ \A name \in DOMAIN EM : Small(EM[name], 65536)
  /\ \A name \in DOMAIN LittleEndian : LittleEndian[name] # "unknown"
  /\ \A name \in DOMAIN BigEndian : BigEndian[name] # "unknown"
  /\ \A name \in DOMAIN Wide : Wide[name] # "unknown"
<1>1. DOMAIN LittleEndian \subseteq DOMAIN EM
  BY DEF LittleEndian, EM
<1>2. DOMAIN BigEndian \subseteq DOMAIN EM
  BY DEF BigEndian, EM
<1>3. \A name \in DOMAIN EM : Small(EM[name], 65536)
  <2>1. \A name \in DOMAIN EM :
          EM[name] \in {2, 3, 4, 8, 15, 18, 20, 21, 22, 40, 42, 43, 62, 76, 92, 94, 113, 164,
                       183, 189, 243, 258, 36902}
    BY DEF EM
  <2> QED BY <2>1 DEF Small
<1>4. \A name \in DOMAIN LittleEndian : LittleEndian[name] # "unknown"
  BY DEF LittleEndian
<1>5. \A name \in DOMAIN BigEndian : BigEndian[name] # "unknown"
  BY DEF BigEndian
<1>6. \A name \in DOMAIN Wide : Wide[name] # "unknown"
  BY DEF Wide
<1> QED BY <1>1, <1>2, <1>3, <1>4, <1>5, <1>6

LEMMA Known ==
  ASSUME NEW f, IsElf(f)
  PROVE  elf_machine_to_libtcg(f) # "unknown" <=>
           \E name \in DOMAIN (IF f.data = "ELFDATA2LSB" THEN LittleEndian ELSE BigEndian) :
             f.machine = IF f.data = "ELFDATA2LSB" THEN <<EM[name] % 256, EM[name] \div 256>>
                                                   ELSE <<EM[name] \div 256, EM[name] % 256>>
<1> DEFINE table == IF f.data = "ELFDATA2LSB" THEN LittleEndian ELSE BigEndian
           cases == {name \in DOMAIN table : EM[name] = Machine(f)}
           narrow == table[CHOOSE name \in cases : TRUE]
<1>1. /\ DOMAIN table \subseteq DOMAIN EM
      /\ \A name \in DOMAIN table : table[name] # "unknown" /\ Small(EM[name], 65536)
  BY Tables
<1>2. elf_machine_to_libtcg(f) =
        IF cases = {} THEN "unknown"
        ELSE IF f.class = "ELFCLASS64" /\ narrow \in DOMAIN Wide THEN Wide[narrow] ELSE narrow
  BY DEF elf_machine_to_libtcg
<1> HIDE DEF table
<1>3. cases # {} => narrow # "unknown"
  BY <1>1
<1> HIDE DEF narrow
<1>4. elf_machine_to_libtcg(f) # "unknown" <=> cases # {}
  BY <1>2, <1>3, Tables
<1>5. \A name \in DOMAIN table : EM[name] = Machine(f) <=>
         f.machine = IF f.data = "ELFDATA2LSB" THEN <<EM[name] % 256, EM[name] \div 256>>
                                               ELSE <<EM[name] \div 256, EM[name] % 256>>
  BY <1>1, MachineBytes
<1>6. cases # {} <=> \E name \in DOMAIN table : EM[name] = Machine(f)
  OBVIOUS
<1> HIDE DEF cases
<1>7. elf_machine_to_libtcg(f) # "unknown" <=> \E name \in DOMAIN table :
         f.machine = IF f.data = "ELFDATA2LSB" THEN <<EM[name] % 256, EM[name] \div 256>>
                                               ELSE <<EM[name] \div 256, EM[name] % 256>>
  BY <1>4, <1>5, <1>6, ZenonT(40)
<1> QED BY <1>7 DEF table

(* What the searches of an ELF file give.                                  *)
Views == [address : Nat, data : Int, size : Nat]

LEMMA Sections ==
  ASSUME NEW f, IsElf(f)
  PROVE  /\ Len(f.sections) \in Nat /\ DOMAIN f.sections = 1 .. Len(f.sections)
         /\ \A k \in 1 .. Len(f.sections) : IsSection(f.sections[k], Len(f.sections))
         /\ f.shstrndx + 1 \in 1 .. Len(f.sections)
<1>1. f.sections \in Seq(Range(f.sections))
  BY DEF IsElf
<1>2. Len(f.sections) \in Nat /\ DOMAIN f.sections = 1 .. Len(f.sections)
  BY <1>1, LenProperties
<1> QED BY <1>2 DEF IsElf

(* The header found is that of a section, the first that fits; none is     *)
(* found only when there is none.                                          *)
LEMMA HeaderFound ==
  ASSUME NEW f, IsElf(f), NEW type, NEW name
  PROVE  /\ \A sh \in FIND_SECTION_HEADER(f, type, name) :
              \E k \in DOMAIN f.sections :
                /\ sh = f.sections[k] /\ sh.type = type /\ sh.name = name
                /\ \A before \in 1 .. (k - 1) : \/ f.sections[before].type # type
                                                \/ f.sections[before].name # name
         /\ FIND_SECTION_HEADER(f, type, name) = {} <=> ~Has(f, type, name)
<1> DEFINE n == Len(f.sections)
           found == {k \in 0 .. (n - 1) : Header(f, k).type = type /\ Header(f, k).name = name}
<1>1. FIND_SECTION_HEADER(f, type, name) = IF found = {} THEN {} ELSE {Header(f, Min(found))}
  BY DEF FIND_SECTION_HEADER
<1>2. n \in Nat /\ DOMAIN f.sections = 1 .. n
  BY Sections
<1> HIDE DEF n
<1>3. \A k : k \in found <=> /\ k + 1 \in 1 .. n /\ k \in Int
                             /\ f.sections[k + 1].type = type /\ f.sections[k + 1].name = name
  BY <1>2 DEF Header
<1>4. found \subseteq Nat
  BY <1>2
<1> HIDE DEF found
<1>5. CASE found = {}
  <2>1. \A k \in 1 .. n : k - 1 \in Int /\ (k - 1) + 1 = k
    BY <1>2
  <2>2. ~Has(f, type, name)
    BY <2>1, <1>2, <1>3, <1>5 DEF Has
  <2> QED BY <2>2, <1>1, <1>5
<1>6. CASE found # {}
  <2> DEFINE m == Min(found)
  <2>1. m \in found /\ \A y \in found : m <= y
    BY <1>4, <1>6, MinOfNats
  <2>2. FIND_SECTION_HEADER(f, type, name) = {f.sections[m + 1]}
    BY <1>1, <1>6 DEF Header
  <2> HIDE DEF m
  <2>3. /\ m + 1 \in DOMAIN f.sections /\ m \in Nat
        /\ f.sections[m + 1].type = type /\ f.sections[m + 1].name = name
    BY <2>1, <1>2, <1>3, <1>4
  <2>4. ASSUME NEW before \in 1 .. ((m + 1) - 1)
        PROVE  f.sections[before].type # type \/ f.sections[before].name # name
    <3>1. before - 1 \in Int /\ (before - 1) + 1 = before /\ before \in 1 .. n /\ ~(m <= before - 1)
      BY <2>3, <1>2
    <3>2. before - 1 \notin found
      BY <3>1, <2>1
    <3> QED BY <3>1, <3>2, <1>3
  <2>5. Has(f, type, name)
    BY <2>3 DEF Has
  <2> QED BY <2>2, <2>3, <2>4, <2>5
<1> QED BY <1>5, <1>6

LEMMA SymbolFound ==
  ASSUME NEW sh, NEW n, IsSection(sh, n), NEW name
  PROVE  /\ \A s \in FIND_SYMBOL(sh, name) :
              \E j \in DOMAIN sh.symbols :
                /\ s = sh.symbols[j] /\ s.type \in {"STT_FUNC", "STT_NOTYPE"} /\ s.name = name
         /\ FIND_SYMBOL(sh, name) = {} =>
              \A j \in DOMAIN sh.symbols : \/ sh.symbols[j].type \notin {"STT_FUNC", "STT_NOTYPE"}
                                           \/ sh.symbols[j].name # name
<1> DEFINE found == {j \in DOMAIN sh.symbols : /\ sh.symbols[j].type \in {"STT_FUNC", "STT_NOTYPE"}
                                               /\ sh.symbols[j].name = name}
<1>1. FIND_SYMBOL(sh, name) = IF found = {} THEN {} ELSE {sh.symbols[Min(found)]}
  BY DEF FIND_SYMBOL
<1>2. DOMAIN sh.symbols \subseteq Nat
  <2>1. sh.symbols \in Seq(Range(sh.symbols))
    BY DEF IsSection
  <2> QED BY <2>1, LenProperties
<1>3. CASE found = {}
  BY <1>1, <1>3
<1>4. CASE found # {}
  <2>1. Min(found) \in found
    BY <1>2, <1>4, MinOfNats
  <2>2. FIND_SYMBOL(sh, name) = {sh.symbols[Min(found)]}
    BY <1>1, <1>4
  <2> QED BY <2>1, <2>2
<1> QED BY <1>3, <1>4

LEMMA SectionResults ==
  ASSUME NEW f, IsElf(f), NEW name, NEW r \in elf_section(f, name)
  PROVE  \/ r.end = "false" /\ ~Has(f, "SHT_PROGBITS", name)
         \/ /\ r.end = "true" /\ Has(f, "SHT_PROGBITS", name)
            /\ r.view \in Views
            /\ IsWhole(f) => r.view.data >= 0 /\ r.view.data + r.view.size <= f.size
<1> DEFINE headers == FIND_SECTION_HEADER(f, "SHT_PROGBITS", name)
<1>1. \/ headers = {} /\ r = Ends("false")
      \/ headers # {} /\ \E sh \in headers : r = Found(sh.addr, sh.offset, sh.size)
  BY DEF elf_section, OrFalse
<1>2. CASE headers = {} /\ r = Ends("false")
  BY <1>2, HeaderFound DEF Ends
<1>3. CASE headers # {} /\ \E sh \in headers : r = Found(sh.addr, sh.offset, sh.size)
  <2>1. PICK sh \in headers : r = Found(sh.addr, sh.offset, sh.size)
    BY <1>3
  <2>2. PICK k \in DOMAIN f.sections : sh = f.sections[k] /\ sh.type = "SHT_PROGBITS"
    BY HeaderFound
  <2>3. /\ r.end = "true" /\ r.view = [address |-> sh.addr, data |-> sh.offset, size |-> sh.size]
    BY <2>1 DEF Found
  <2>4. sh.addr \in Nat /\ sh.offset \in Nat /\ sh.size \in Nat
    BY <2>2, Sections DEF IsSection
  <2>5. r.view \in Views /\ r.view.data = sh.offset /\ r.view.size = sh.size
    BY <2>3, <2>4 DEF Views
  <2>6. IsWhole(f) => sh.offset + sh.size <= f.size
    BY <2>2 DEF IsWhole
  <2>7. Has(f, "SHT_PROGBITS", name)
    BY <1>3, HeaderFound
  <2> QED BY <2>3, <2>4, <2>5, <2>6, <2>7
<1> QED BY <1>1, <1>2, <1>3

(* The first table of symbols is the one that is searched.                 *)
LEMMA FirstTable ==
  ASSUME NEW f, IsElf(f), NEW sh \in FIND_SECTION_HEADER(f, "SHT_SYMTAB", ".symtab"),
         NEW name, HasFunction(f, name)
  PROVE  \E j \in DOMAIN sh.symbols : /\ sh.symbols[j].name = name
                                      /\ sh.symbols[j].type \in {"STT_FUNC", "STT_NOTYPE"}
<1>1. PICK k \in DOMAIN f.sections :
        /\ f.sections[k].type = "SHT_SYMTAB" /\ f.sections[k].name = ".symtab"
        /\ \A before \in 1 .. (k - 1) : \/ f.sections[before].type # "SHT_SYMTAB"
                                        \/ f.sections[before].name # ".symtab"
        /\ \E j \in DOMAIN f.sections[k].symbols :
             /\ f.sections[k].symbols[j].name = name
             /\ f.sections[k].symbols[j].type \in {"STT_FUNC", "STT_NOTYPE"}
  BY DEF HasFunction
<1>2. PICK m \in DOMAIN f.sections :
        /\ sh = f.sections[m] /\ sh.type = "SHT_SYMTAB" /\ sh.name = ".symtab"
        /\ \A before \in 1 .. (m - 1) : \/ f.sections[before].type # "SHT_SYMTAB"
                                        \/ f.sections[before].name # ".symtab"
  BY HeaderFound
<1>3. k \in 1 .. Len(f.sections) /\ m \in 1 .. Len(f.sections) /\ Len(f.sections) \in Nat
  BY Sections
<1>4. k \notin 1 .. (m - 1) /\ m \notin 1 .. (k - 1)
  BY <1>1, <1>2
<1>5. k = m
  BY <1>3, <1>4
<1> QED BY <1>1, <1>2, <1>5

LEMMA FunctionResults ==
  ASSUME NEW f, IsElf(f), NEW name, NEW r \in elf_function(f, name)
  PROVE  \/ r.end \in {"false", "crashed"} /\ ~HasFunction(f, name)
         \/ /\ r.end = "true" /\ HasFunction(f, name)
            /\ r.view \in Views
            /\ IsWhole(f) /\ r.view.size > 0 =>
                 r.view.data >= 0 /\ r.view.data + r.view.size <= f.size
<1> DEFINE tables == FIND_SECTION_HEADER(f, "SHT_SYMTAB", ".symtab")
           Of(symtab) == IF ReadsNoNames(f, symtab) THEN {Ends("crashed")}
                         ELSE {SymbolView(f, s) : s \in FIND_SYMBOL(symtab, name)}
           all == UNION {Of(symtab) : symtab \in tables}
<1>1. \/ all = {} /\ r = Ends("false")
      \/ r \in all
  BY DEF elf_function, OrFalse
<1>2. \A sh \in tables : \E k \in DOMAIN f.sections :
         /\ sh = f.sections[k] /\ sh.type = "SHT_SYMTAB" /\ sh.name = ".symtab"
         /\ \A before \in 1 .. (k - 1) : \/ f.sections[before].type # "SHT_SYMTAB"
                                         \/ f.sections[before].name # ".symtab"
  BY HeaderFound
<1>3. \A sh \in tables : IsSection(sh, Len(f.sections))
  BY <1>2, Sections
<1>4. CASE all = {} /\ r = Ends("false")
  <2>1. SUFFICES ASSUME HasFunction(f, name) PROVE FALSE
    BY <1>4 DEF Ends
  <2>2. Has(f, "SHT_SYMTAB", ".symtab")
    BY <2>1 DEF HasFunction, Has
  <2>3. PICK sh \in tables : TRUE
    BY <2>2, HeaderFound
  <2>4. Of(sh) = {}
    BY <1>4
  <2>5. ~ReadsNoNames(f, sh) /\ FIND_SYMBOL(sh, name) = {}
    BY <2>4
  <2> QED BY <2>1, <2>5, <1>3, FirstTable, SymbolFound
<1>5. CASE r \in all
  <2>1. PICK sh \in tables : r \in Of(sh)
    BY <1>5
  <2>2. CASE ReadsNoNames(f, sh)
    <3>1. r.end = "crashed"
      BY <2>1, <2>2 DEF Ends
    <3>2. ~Has(f, "SHT_STRTAB", ".strtab")
      BY <2>2, HeaderFound DEF ReadsNoNames
    <3> QED BY <3>1, <3>2 DEF HasFunction
  <2>3. CASE ~ReadsNoNames(f, sh)
    <3>1. PICK s \in FIND_SYMBOL(sh, name) : r = SymbolView(f, s)
      BY <2>1, <2>3
    <3>2. PICK j \in DOMAIN sh.symbols :
            /\ s = sh.symbols[j] /\ s.type \in {"STT_FUNC", "STT_NOTYPE"} /\ s.name = name
      BY <1>3, SymbolFound
    <3>3. IsSymbol(s, Len(f.sections))
      BY <3>2, <1>3 DEF IsSection
    <3>4. HasFunction(f, name)
      <4>1. Has(f, "SHT_STRTAB", ".strtab")
        BY <2>3, <3>2, HeaderFound DEF ReadsNoNames
      <4> QED BY <4>1, <3>2, <1>2 DEF HasFunction
    <3> DEFINE home == Header(f, s.shndx)
    <3>5. /\ s.value \in Nat /\ s.size \in Nat
          /\ s.shndx + 1 \in 1 .. Len(f.sections)
      BY <3>3, Sections DEF IsSymbol
    <3>6. /\ home = f.sections[s.shndx + 1] /\ s.shndx + 1 \in DOMAIN f.sections
          /\ home.addr \in Nat /\ home.offset \in Nat /\ home.size \in Nat
      BY <3>5, Sections DEF Header, IsSection
    <3>7. r.end = "true" /\ r.view = [address |-> s.value,
                                      data |-> home.offset + (s.value - home.addr), size |-> s.size]
      BY <3>1 DEF SymbolView, Found
    <3> HIDE DEF home
    <3>8. home.offset + (s.value - home.addr) \in Int
      BY <3>5, <3>6
    <3>9. /\ r.view \in Views /\ r.view.size = s.size
          /\ r.view.data = home.offset + (s.value - home.addr)
      BY <3>5, <3>7, <3>8 DEF Views
    <3>10. ASSUME IsWhole(f), s.size > 0
           PROVE  r.view.data >= 0 /\ r.view.data + r.view.size <= f.size
      <4>1. /\ home.type = "SHT_PROGBITS"
            /\ home.addr <= s.value /\ s.value + s.size <= home.addr + home.size
        BY <3>2, <3>10, <1>2 DEF IsWhole, home
      <4>2. home.offset + home.size <= f.size
        BY <3>6, <3>10, <4>1 DEF IsWhole
      <4>3. f.size \in Nat
        BY DEF IsElf
      <4>4. /\ home.offset + (s.value - home.addr) >= 0
            /\ (home.offset + (s.value - home.addr)) + s.size <= f.size
        <5>1. \A o, v, a, z, x, e \in Nat :
                a <= v /\ v + z <= a + x /\ o + x <= e => o + (v - a) >= 0 /\ (o + (v - a)) + z <= e
          OBVIOUS
        <5> QED BY ONLY <5>1, <3>5, <3>6, <4>1, <4>2, <4>3
      <4> QED BY ONLY <3>9, <4>4
    <3> QED BY <3>4, <3>7, <3>9, <3>10
  <2> QED BY <2>2, <2>3
<1> QED BY <1>1, <1>4, <1>5

(* elf_data reads all files that are Loadable, and ends on all others.     *)
LEMMA DataResults ==
  ASSUME NEW f, f = NoFile \/ IsElf(f), NEW d \in elf_data(f)
  PROVE  \/ d.end \in {"false", "crashed", "aborted"} /\ ~Loadable(f)
         \/ d.end = "true" /\ Loadable(f) /\ IsElf(f)
<1>1. CASE f = NoFile
  BY <1>1 DEF elf_data, Ends, Loadable
<1>2. CASE f # NoFile /\ ~f.magic
  BY <1>2 DEF elf_data, Ends, Loadable
<1>3. CASE f # NoFile /\ f.magic
  <2>1. IsElf(f)
    BY <1>3
  <2>2. elf_data(f) = IF \/ f.sections[f.shstrndx + 1].type # "SHT_STRTAB"
                         \/ elf_machine_to_libtcg(f) = "unknown"
                      THEN {Ends("aborted")} ELSE {Ends("true")}
    BY <1>3 DEF elf_data, Header
  <2>3. Loadable(f) <=> ~(\/ f.sections[f.shstrndx + 1].type # "SHT_STRTAB"
                          \/ elf_machine_to_libtcg(f) = "unknown")
    BY <1>3, <2>1, Known DEF Loadable
  <2> QED BY <2>1, <2>2, <2>3 DEF Ends
<1> QED BY <1>1, <1>2, <1>3
-----------------------------------------------------------------------------
(* What main makes of its input.                                           *)

FilesWhole == \A name \in DOMAIN Files : IsWhole(Files[name])

(* The bytes of a view are in what was read.                               *)
BytesIn(v) ==
  v.size > 0 =>
    /\ v.data >= 0
    /\ v.data + v.size <= IF value["file"] = NULL THEN Min({world.stdin, MaxStdin})
                                                  ELSE InputFile.size

LEMMA InputFileIs == InputFile = NoFile \/ IsElf(InputFile)
BY DriverAssumption DEF InputFile

LEMMA NoFileSize == value["file"] = NULL => ~Region /\ ~Function /\ ~Section
BY DEF Region, Function, Section

(* Selected, case by case.                                                 *)
LEMMA SelectedIs ==
  /\ Stdin => (Selected <=> value["arch_name"] \in Archs)
  /\ Region => (Selected <=> /\ value["arch_name"] \in Archs
                             /\ InputFile # NoFile
                             /\ Position(value["offset"]) + value["size"] <= InputFile.size)
  /\ Function => (Selected <=> /\ Loadable(InputFile)
                               /\ HasFunction(InputFile, value["function"]))
  /\ Section => (Selected <=> /\ Loadable(InputFile)
                              /\ Has(InputFile, "SHT_PROGBITS", value["section"]))
  /\ ~(Region \/ Function \/ Section \/ Stdin) => ~Selected
<1>1. CASE Stdin
  BY <1>1 DEF Stdin, Selected, Region, Function, Section
<1>2. CASE Region
  BY <1>2 DEF Stdin, Selected, Region, Function, Section
<1>3. CASE Function
  BY <1>3 DEF Stdin, Selected, Region, Function, Section
<1>4. CASE Section
  BY <1>4 DEF Stdin, Selected, Region, Function, Section
<1>5. CASE ~(Region \/ Function \/ Section \/ Stdin)
  BY <1>5 DEF Stdin, Selected, Region, Function, Section
<1> QED BY <1>1, <1>2, <1>3, <1>4, <1>5

(* What a step at "input" may do: take what was selected, or stop for the  *)
(* lack of it.                                                             *)
Takes == \E a : \E v \in Views : Take(a, v) /\ Selected /\ (FilesWhole => BytesIn(v))
Fails == Fail /\ ~Selected
Stops == \E how \in {"-1", "aborted", "crashed"} : End(how) /\ ~Selected

LEMMA PositionIs ==
  ASSUME WordsInv
  PROVE  Position(value["offset"]) \in Nat
BY ValuesAre DEF Position

LEMMA TakeRegionIs == WordsInv /\ TakeRegion => Takes \/ Fails \/ Stops
<1> SUFFICES ASSUME WordsInv, TakeRegion PROVE Takes \/ Fails \/ Stops
  OBVIOUS
<1> DEFINE data == Position(value["offset"])
           v == [address |-> value["offset"], data |-> data, size |-> value["size"]]
<1>1. /\ Region
      /\ \/ (NoArch \/ InputFile = NoFile) /\ Fail
         \/ ~(data + value["size"] <= InputFile.size) /\ \E how \in {"-1", "aborted"} : End(how)
         \/ /\ ~NoArch /\ InputFile # NoFile /\ ~(data + value["size"] > InputFile.size)
            /\ Take(value["arch_name"], v)
  <2>1. IsElf(InputFile) => InputFile.size \in Nat
    BY DEF IsElf
  <2>2. data \in Nat /\ value["size"] \in Nat
    BY PositionIs, ValuesAre
  <2>3. CASE NoArch \/ InputFile = NoFile
    BY <2>3 DEF TakeRegion
  <2>4. CASE ~(NoArch \/ InputFile = NoFile)
    <3>1. InputFile.size \in Nat
      BY <2>1, <2>4, InputFileIs
    <3>2. CASE data + value["size"] > InputFile.size
      <4>1. ~(data + value["size"] <= InputFile.size)
        BY <3>1, <3>2, <2>2
      <4>2. Region /\ \E how \in {"-1", "aborted"} : End(how)
        BY <2>4, <3>2 DEF TakeRegion
      <4> QED BY <4>1, <4>2
    <3>3. CASE ~(data + value["size"] > InputFile.size)
      BY <2>4, <3>3 DEF TakeRegion
    <3> QED BY <3>2, <3>3
  <2> QED BY <2>3, <2>4
<1>2. data \in Nat /\ value["size"] \in Nat /\ value["offset"] \in Nat
  BY PositionIs, ValuesAre
<1>3. CASE (NoArch \/ InputFile = NoFile) /\ Fail
  BY <1>1, <1>3, SelectedIs DEF Fails, NoArch
<1>4. CASE ~(data + value["size"] <= InputFile.size) /\ \E how \in {"-1", "aborted"} : End(how)
  BY <1>1, <1>4, SelectedIs DEF Stops
<1>5. CASE /\ ~NoArch /\ InputFile # NoFile /\ ~(data + value["size"] > InputFile.size)
           /\ Take(value["arch_name"], v)
  <2>1. v \in Views /\ v.data = data /\ v.size = value["size"]
    BY <1>2 DEF Views
  <2>2. InputFile.size \in Nat
    BY <1>5, InputFileIs DEF IsElf
  <2>3. data + value["size"] <= InputFile.size
    BY <1>2, <1>5, <2>2
  <2>4. value["file"] # NULL
    BY <1>1 DEF Region
  <2>5. BytesIn(v)
    BY <2>1, <2>3, <2>4, <1>2 DEF BytesIn
  <2>6. Selected
    BY <1>1, <1>5, <2>3, SelectedIs DEF NoArch
  <2> HIDE DEF v
  <2> QED BY <1>5, <2>1, <2>5, <2>6 DEF Takes
<1> QED BY <1>1, <1>3, <1>4, <1>5

(* What an ELF file holds is taken, and nothing else ends the run well.    *)
LEMMA TakeElfIs ==
  ASSUME NEW found, TakeElf(found), value["file"] # NULL, NEW present,
         present \in BOOLEAN, Selected <=> Loadable(InputFile) /\ present,
         IsElf(InputFile) => \A r \in found :
           \/ r.end \in {"false", "crashed"} /\ ~present
           \/ /\ r.end = "true" /\ present
              /\ r.view \in Views
              /\ IsWhole(InputFile) /\ r.view.size > 0 =>
                   r.view.data >= 0 /\ r.view.data + r.view.size <= InputFile.size
  PROVE  Takes \/ Stops
<1>1. PICK d \in elf_data(InputFile) :
        IF d.end # "true" THEN End(IF d.end = "false" THEN "-1" ELSE d.end)
        ELSE \E r \in found :
               IF r.end = "true" THEN Take(elf_machine_to_libtcg(InputFile), r.view)
               ELSE End(IF r.end = "false" THEN "-1" ELSE r.end)
  BY DEF TakeElf
<1>2. \/ d.end \in {"false", "crashed", "aborted"} /\ ~Loadable(InputFile)
      \/ d.end = "true" /\ Loadable(InputFile) /\ IsElf(InputFile)
  BY InputFileIs, DataResults
<1>3. CASE d.end \in {"false", "crashed", "aborted"} /\ ~Loadable(InputFile)
  BY <1>1, <1>3 DEF Stops
<1>4. CASE d.end = "true" /\ Loadable(InputFile) /\ IsElf(InputFile)
  <2>1. PICK r \in found : IF r.end = "true" THEN Take(elf_machine_to_libtcg(InputFile), r.view)
                           ELSE End(IF r.end = "false" THEN "-1" ELSE r.end)
    BY <1>1, <1>4
  <2>2. CASE r.end \in {"false", "crashed"} /\ ~present
    <3>1. ~Selected
      BY <2>2
    <3> QED BY <2>1, <2>2, <3>1 DEF Stops
  <2>3. CASE /\ r.end = "true" /\ present
             /\ r.view \in Views
             /\ IsWhole(InputFile) /\ r.view.size > 0 =>
                  r.view.data >= 0 /\ r.view.data + r.view.size <= InputFile.size
    <3>1. FilesWhole => IsWhole(InputFile)
      <4>1. InputFile # NoFile
        BY <1>4 DEF Loadable
      <4> QED BY <4>1 DEF FilesWhole, InputFile
    <3>2. FilesWhole => BytesIn(r.view)
      BY <2>3, <3>1 DEF BytesIn
    <3>3. Selected
      BY <1>4, <2>3
    <3> QED BY <2>1, <2>3, <3>2, <3>3 DEF Takes
  <2> QED BY <1>4, <2>2, <2>3
<1> QED BY <1>2, <1>3, <1>4

LEMMA TakeFunctionIs == TakeFunction => Takes \/ Stops
<1> SUFFICES ASSUME TakeFunction PROVE Takes \/ Stops
  OBVIOUS
<1> DEFINE found == elf_function(InputFile, value["function"])
           present == HasFunction(InputFile, value["function"])
<1>1. Function /\ TakeElf(found) /\ value["file"] # NULL
  BY DEF TakeFunction, Function
<1>2. present \in BOOLEAN
  BY DEF HasFunction
<1>3. Selected <=> Loadable(InputFile) /\ present
  BY <1>1, SelectedIs
<1>4. IsElf(InputFile) => \A r \in found :
        \/ r.end \in {"false", "crashed"} /\ ~present
        \/ /\ r.end = "true" /\ present
           /\ r.view \in Views
           /\ IsWhole(InputFile) /\ r.view.size > 0 =>
                r.view.data >= 0 /\ r.view.data + r.view.size <= InputFile.size
  BY FunctionResults
<1> HIDE DEF found, present
<1> QED BY <1>1, <1>2, <1>3, <1>4, TakeElfIs

LEMMA TakeSectionIs == TakeSection => Takes \/ Stops
<1> SUFFICES ASSUME TakeSection PROVE Takes \/ Stops
  OBVIOUS
<1> DEFINE found == elf_section(InputFile, value["section"])
           present == Has(InputFile, "SHT_PROGBITS", value["section"])
<1>1. Section /\ TakeElf(found) /\ value["file"] # NULL
  BY DEF TakeSection, Section
<1>2. present \in BOOLEAN
  BY DEF Has
<1>3. Selected <=> Loadable(InputFile) /\ present
  BY <1>1, SelectedIs
<1>4. IsElf(InputFile) => \A r \in found :
        \/ r.end \in {"false", "crashed"} /\ ~present
        \/ /\ r.end = "true" /\ present
           /\ r.view \in Views
           /\ IsWhole(InputFile) /\ r.view.size > 0 =>
                r.view.data >= 0 /\ r.view.data + r.view.size <= InputFile.size
  BY SectionResults
<1> HIDE DEF found, present
<1> QED BY <1>1, <1>2, <1>3, <1>4, TakeElfIs

LEMMA TakeStdinIs == world \in Worlds /\ TakeStdin => Takes \/ Fails
<1> SUFFICES ASSUME world \in Worlds, TakeStdin PROVE Takes \/ Fails
  OBVIOUS
<1>1. Stdin /\ value["file"] = NULL
  BY DEF TakeStdin, Stdin
<1>2. CASE NoArch
  BY <1>1, <1>2, SelectedIs DEF TakeStdin, Fails, NoArch
<1>3. CASE ~NoArch
  <2> DEFINE v == [address |-> 0, data |-> 0, size |-> StdinBytes]
  <2>1. Take(value["arch_name"], v) /\ Selected
    BY <1>1, <1>3, SelectedIs DEF TakeStdin, NoArch
  <2>2. StdinBytes \in Nat
    <3>1. {world.stdin, MaxStdin} \subseteq Nat
      BY DriverAssumption
    <3> QED BY <3>1, MinOfNats DEF StdinBytes
  <2>3. v \in Views /\ v.data = 0 /\ v.size = StdinBytes
    BY <2>2 DEF Views
  <2>4. 0 + StdinBytes <= Min({world.stdin, MaxStdin})
    <3>1. 0 + StdinBytes = StdinBytes /\ StdinBytes <= StdinBytes
      BY <2>2
    <3> QED BY <3>1 DEF StdinBytes
  <2>5. BytesIn(v)
    BY <2>3, <2>4, <1>1 DEF BytesIn
  <2> HIDE DEF v
  <2> QED BY <2>1, <2>3, <2>5 DEF Takes
<1> QED BY <1>2, <1>3

LEMMA InputIs ==
  ASSUME WordsInv, world \in Worlds,
         TakeRegion \/ TakeFunction \/ TakeSection \/ TakeStdin \/ NothingToTake
  PROVE  At("input") /\ (Takes \/ Fails \/ Stops)
<1>1. At("input")
  BY DEF TakeRegion, TakeFunction, TakeSection, TakeStdin, NothingToTake
<1>2. NothingToTake => Fails
  BY SelectedIs DEF NothingToTake, Fails
<1> QED BY <1>1, <1>2, TakeRegionIs, TakeFunctionIs, TakeSectionIs, TakeStdinIs
-----------------------------------------------------------------------------
(* Where main is, and what it has decided on the way.                      *)

Places == {"parse", "input", "open", "lift", "graph", "sources", "flatten", "stack",
           "fopen", "output", "ir", "close", "error"}

Statuses == {"0", "-1", "aborted", "crashed", "overrun"}

ViewOK ==
  /\ pc \in {"parse", "input", "error"} => view = NoView /\ off = 0 /\ blocks = << >>
  /\ pc \in Opened \cup {"open"} => view \in Views /\ off \in 0 .. view.size

Forms == {"cfg", "max_stack", "reg_src", "ir"}

DrawnOK ==
  /\ drawn \in 0 .. Len(blocks) /\ colours \subseteq Schemes
  /\ output \subseteq Forms \X DOMAIN blocks
  /\ pc \notin {"output", "close"} => drawn = 0 /\ colours = {} /\ output = {}

TreeIn == tree \subseteq {blocks[k].address : k \in DOMAIN blocks}

(* What is printed when main is about to return 0.                         *)
Done ==
  /\ value["dump_cfg"] # NULL => world.writable
  /\ output = Printed \X DOMAIN blocks

ChoiceOK ==
  /\ pc = "input" => parse = "true" /\ ~value["help"]
  /\ pc \in Opened \cup {"open"} => Servable
  /\ pc = "error" => ~Servable
  /\ pc \in {"graph", "sources", "flatten", "stack", "fopen", "output"} => value["dump_cfg"] # NULL
  /\ pc = "output" => world.writable /\ output = Drawing \X (1 .. drawn)
  /\ pc = "ir" => value["dump_ir"] /\ value["dump_cfg"] = NULL
  /\ pc = "close" => Done

RunInv ==
  /\ world \in Worlds /\ pc \in Places /\ status \in Statuses \cup {"running"}
  /\ ViewOK /\ DrawnOK /\ TreeIn /\ ChoiceOK

LEMMA RunInitInv == Init => RunInv /\ ExitStatusTells
<1> SUFFICES ASSUME Init PROVE RunInv /\ ExitStatusTells
  OBVIOUS
<1>1. /\ world \in Worlds /\ pc = "parse" /\ status = "running"
      /\ view = NoView /\ off = 0 /\ blocks = << >> /\ tree = {} /\ drawn = 0 /\ colours = {}
      /\ output = {}
  BY DEF Init
<1>2. Len(blocks) = 0
  BY <1>1
<1>3. ViewOK /\ DrawnOK /\ TreeIn /\ ChoiceOK
  BY <1>1, <1>2 DEF ViewOK, DrawnOK, TreeIn, ChoiceOK, Opened
<1> QED BY <1>1, <1>3 DEF RunInv, Places, ExitStatusTells

(* The input does not change once it is parsed.                            *)
LEMMA InputStays ==
  ASSUME UNCHANGED <<cmdVars, world>>
  PROVE  /\ value' = value /\ world' = world /\ parse' = parse
         /\ Servable' = Servable /\ request' = request
         /\ Printed' = Printed /\ Drawing' = Drawing
<1>1. value' = value /\ world' = world /\ parse' = parse /\ Servable' = Servable /\ request' = request
  BY DEF cmdVars, Servable, Selected, Region, Function, Section, InputFile, request
<1>2. Printed' = Printed /\ Drawing' = Drawing
  BY <1>1 DEF Printed, Asked, Drawing
<1> QED BY <1>1, <1>2

(* What the drawing of a graph shows is what is printed then.              *)
LEMMA PrintedIs ==
  /\ value["dump_cfg"] # NULL => Printed = Drawing
  /\ value["dump_cfg"] = NULL /\ value["dump_ir"] => Printed = {"ir"}
  /\ value["dump_cfg"] = NULL /\ ~value["dump_ir"] => Printed = {}
  /\ Drawing \subseteq Forms
BY DEF Printed, Asked, Drawing, Forms

(* A jump.                                                                 *)
LEMMA GotoRun ==
  ASSUME RunInv, status = "running", NEW p \in Places, Goto(p), UNCHANGED mainVars,
         p \in {"parse", "input", "error"} => pc \in {"parse", "input"},
         p \in Opened => pc \in Opened, p \notin {"open", "output"},
         p \notin {"output", "close"} => pc \notin {"output", "close"},
         p = "input" => parse = "true" /\ ~value["help"],
         p = "error" => ~Servable,
         p \in {"graph", "sources", "flatten", "stack", "fopen"} => value["dump_cfg"] # NULL,
         p = "ir" => value["dump_ir"] /\ value["dump_cfg"] = NULL,
         p = "close" => Done
  PROVE  RunInv' /\ ExitStatusTells'
<1>1. /\ pc' = p /\ status' = "running" /\ UNCHANGED <<cmdVars, world>>
      /\ view' = view /\ off' = off /\ blocks' = blocks /\ tree' = tree /\ colours' = colours
      /\ drawn' = drawn /\ output' = output
  BY DEF Goto, mainVars
<1>2. /\ value' = value /\ world' = world /\ parse' = parse /\ Servable' = Servable
      /\ Printed' = Printed /\ Drawing' = Drawing
  BY <1>1, InputStays
<1>3. ViewOK' /\ DrawnOK' /\ TreeIn'
  BY <1>1 DEF RunInv, ViewOK, DrawnOK, TreeIn
<1>4. Done' = Done
  BY <1>1, <1>2 DEF Done
<1>5. ChoiceOK'
  BY <1>1, <1>2, <1>4 DEF RunInv, ChoiceOK
<1>6. ExitStatusTells'
  BY <1>1 DEF ExitStatusTells
<1> QED BY <1>1, <1>2, <1>3, <1>5, <1>6 DEF RunInv

(* The process ends on the way.                                            *)
LEMMA EndRun ==
  ASSUME RunInv, status = "running", NEW how \in Statuses \ {"0"}, End(how),
         Servable => value["dump_cfg"] # NULL /\ (~world.writable \/ request.present)
  PROVE  RunInv' /\ ExitStatusTells'
<1>1. /\ pc' = pc /\ status' = how /\ UNCHANGED <<cmdVars, world>>
      /\ view' = view /\ off' = off /\ blocks' = blocks /\ tree' = tree /\ colours' = colours
      /\ drawn' = drawn /\ output' = output
  BY DEF End, mainVars
<1>2. /\ value' = value /\ world' = world /\ parse' = parse /\ Servable' = Servable
      /\ request' = request /\ Printed' = Printed /\ Drawing' = Drawing
  BY <1>1, InputStays
<1>3. ViewOK' /\ DrawnOK' /\ TreeIn'
  BY <1>1 DEF RunInv, ViewOK, DrawnOK, TreeIn
<1>4. ChoiceOK'
  BY <1>1, <1>2 DEF RunInv, ChoiceOK, Done
<1>5. ExitStatusTells'
  BY <1>1, <1>2 DEF ExitStatusTells
<1> QED BY <1>1, <1>2, <1>3, <1>4, <1>5 DEF RunInv

(* main returns.                                                           *)
LEMMA ReturnRun == RunInv /\ (Close \/ Error) => RunInv' /\ ExitStatusTells'
<1> SUFFICES ASSUME RunInv, Close \/ Error PROVE RunInv' /\ ExitStatusTells'
  OBVIOUS
<1>1. /\ pc' = pc /\ UNCHANGED <<cmdVars, world>>
      /\ view' = view /\ off' = off /\ blocks' = blocks /\ tree' = tree /\ colours' = colours
      /\ drawn' = drawn /\ output' = output
      /\ \/ pc = "close" /\ status' = "0"
         \/ pc = "error" /\ status' = "-1"
  BY DEF Close, Error, Free, At
<1>2. /\ value' = value /\ world' = world /\ parse' = parse /\ Servable' = Servable
      /\ request' = request /\ Printed' = Printed /\ Drawing' = Drawing
  BY <1>1, InputStays
<1>3. ViewOK' /\ DrawnOK' /\ TreeIn'
  BY <1>1 DEF RunInv, ViewOK, DrawnOK, TreeIn
<1>4. ChoiceOK'
  BY <1>1, <1>2 DEF RunInv, ChoiceOK, Done
<1>5. CASE pc = "close" /\ status' = "0"
  <2>1. Servable /\ Done
    BY <1>5 DEF RunInv, ChoiceOK, Opened
  <2> QED BY <2>1, <1>1, <1>2, <1>3, <1>4, <1>5 DEF ExitStatusTells, Done, RunInv, Statuses
<1>6. CASE pc = "error" /\ status' = "-1"
  <2>1. ~Servable
    BY <1>6 DEF RunInv, ChoiceOK
  <2> QED BY <2>1, <1>1, <1>2, <1>3, <1>4, <1>6 DEF ExitStatusTells, RunInv, Statuses
<1> QED BY <1>1, <1>5, <1>6

(* Steps before the lifting.                                               *)
LEMMA ParseRun ==
  CmdInv /\ WordsInv /\ RunInv /\ (Parse \/ Parsed) => RunInv' /\ ExitStatusTells'
<1> SUFFICES ASSUME CmdInv, WordsInv, RunInv, Parse \/ Parsed
             PROVE  RunInv' /\ ExitStatusTells'
  OBVIOUS
<1>1. pc = "parse" /\ status = "running"
  BY DEF Parse, Parsed, At
<1>2. CASE Parse
  <2>1. /\ pc' = pc /\ status' = status /\ world' = world
        /\ view' = view /\ off' = off /\ blocks' = blocks /\ tree' = tree /\ colours' = colours
        /\ drawn' = drawn /\ output' = output
    BY <1>2 DEF Parse, mainVars
  <2>2. ViewOK' /\ DrawnOK' /\ TreeIn'
    BY <2>1 DEF RunInv, ViewOK, DrawnOK, TreeIn
  <2>3. ChoiceOK'
    BY <2>1, <1>1 DEF ChoiceOK, Opened
  <2>4. ExitStatusTells'
    BY <2>1, <1>1 DEF ExitStatusTells
  <2> QED BY <2>1, <2>2, <2>3, <2>4 DEF RunInv
<1>3. CASE Parsed
  <2>1. /\ parse \in {"true", "false"} /\ UNCHANGED mainVars
        /\ \/ Goto("error") /\ ~(parse = "true" /\ ~value["help"])
           \/ Goto("input") /\ parse = "true" /\ ~value["help"]
    BY <1>3 DEF Parsed, WordsInv
  <2>2. CASE Goto("error") /\ ~(parse = "true" /\ ~value["help"])
    <3>1. ~Servable
      BY <2>2 DEF Servable
    <3>2. "error" \in Places /\ "error" \notin Opened
      BY DEF Places, Opened
    <3> QED BY <1>1, <2>1, <2>2, <3>1, <3>2, GotoRun
  <2>3. CASE Goto("input") /\ parse = "true" /\ ~value["help"]
    <3>1. "input" \in Places /\ "input" \notin Opened
      BY DEF Places, Opened
    <3> QED BY <1>1, <2>1, <2>3, <3>1, GotoRun
  <2> QED BY <2>1, <2>2, <2>3
<1> QED BY <1>2, <1>3

LEMMA InputRun ==
  /\ WordsInv /\ RunInv
  /\ TakeRegion \/ TakeFunction \/ TakeSection \/ TakeStdin \/ NothingToTake
  => RunInv' /\ ExitStatusTells'
<1> SUFFICES ASSUME WordsInv, RunInv,
                    TakeRegion \/ TakeFunction \/ TakeSection \/ TakeStdin \/ NothingToTake
             PROVE  RunInv' /\ ExitStatusTells'
  OBVIOUS
<1>1. At("input") /\ (Takes \/ Fails \/ Stops)
  BY InputIs DEF RunInv
<1>2. /\ pc = "input" /\ status = "running" /\ parse = "true" /\ ~value["help"]
      /\ view = NoView /\ off = 0 /\ blocks = << >> /\ drawn = 0 /\ colours = {}
      /\ output = {}
  BY <1>1 DEF At, RunInv, ViewOK, DrawnOK, ChoiceOK
<1>3. Servable <=> Selected
  BY <1>2 DEF Servable
<1>4. CASE Fails
  <2>1. "error" \in Places /\ "error" \notin Opened
    BY DEF Places, Opened
  <2> QED BY <1>2, <1>3, <1>4, <2>1, GotoRun DEF Fails, Fail
<1>5. CASE Stops
  BY <1>2, <1>3, <1>5, EndRun DEF Stops, Statuses
<1>6. CASE Takes
  <2>1. PICK v \in Views : (\E a : Take(a, v)) /\ Selected
    BY <1>6 DEF Takes
  <2>2. /\ pc' = "open" /\ status' = "running" /\ UNCHANGED <<cmdVars, world>>
        /\ view' = v /\ off' = off /\ blocks' = blocks /\ tree' = tree /\ colours' = colours
        /\ drawn' = drawn /\ output' = output
    BY <2>1, <1>2 DEF Take, Goto
  <2>3. Servable' /\ world' = world
    BY <1>3, <2>1, <2>2, InputStays
  <2>4. v.size \in Nat
    BY DEF Views
  <2>5. ViewOK'
    BY <1>2, <2>2, <2>4 DEF ViewOK
  <2>6. DrawnOK' /\ TreeIn'
    BY <1>2, <2>2 DEF RunInv, DrawnOK, TreeIn
  <2>7. ChoiceOK'
    BY <2>2, <2>3 DEF ChoiceOK
  <2>8. ExitStatusTells'
    BY <2>2 DEF ExitStatusTells
  <2> QED BY <2>2, <2>3, <2>5, <2>6, <2>7, <2>8 DEF RunInv, Places, Statuses
<1> QED BY <1>1, <1>4, <1>5, <1>6

(* Steps that leave the process running and the input as it is.            *)
LEMMA StepRun ==
  ASSUME RunInv, status' = "running", pc' \in Places, UNCHANGED <<cmdVars, world>>,
         pc \in Opened \cup {"open"}, pc' \in Opened,
         ViewOK', DrawnOK', TreeIn',
         pc' \in {"graph", "sources", "flatten", "stack", "fopen", "output"} =>
            value["dump_cfg"] # NULL,
         pc' = "output" => world.writable /\ output' = Drawing \X (1 .. drawn'),
         pc' = "ir" => value["dump_ir"] /\ value["dump_cfg"] = NULL,
         pc' = "close" => Done'
  PROVE  RunInv' /\ ExitStatusTells'
<1>1. value' = value /\ world' = world /\ Servable' = Servable
      /\ Printed' = Printed /\ Drawing' = Drawing
  BY InputStays
<1>2. Servable
  BY DEF RunInv, ChoiceOK
<1>3. ChoiceOK'
  BY <1>1, <1>2 DEF ChoiceOK, Opened
<1>4. ExitStatusTells'
  BY DEF ExitStatusTells
<1> QED BY <1>1, <1>3, <1>4 DEF RunInv

LEMMA OpenRun == RunInv /\ Open => RunInv' /\ ExitStatusTells'
<1> SUFFICES ASSUME RunInv, Open PROVE RunInv' /\ ExitStatusTells'
  OBVIOUS
<1>1. /\ status = "running" /\ pc = "open" /\ pc' = "lift" /\ status' = "running"
      /\ UNCHANGED <<cmdVars, world>>
      /\ off' = off /\ blocks' = blocks /\ tree' = tree /\ colours' = colours /\ drawn' = drawn /\ output' = output
  BY DEF Open, Goto, At
<1>2. view \in Views /\ off \in 0 .. view.size
  BY <1>1 DEF RunInv, ViewOK
<1>3. PICK odd \in BOOLEAN : /\ odd => view.address % 2 = 1
                             /\ view' = [view EXCEPT !.address = IF odd THEN @ - 1 ELSE @]
  BY DEF Open
<1>4. view.address \in Nat /\ view.data \in Int /\ view.size \in Nat
  BY <1>2 DEF Views
<1>5. (IF odd THEN view.address - 1 ELSE view.address) \in Nat
  BY <1>3, <1>4
<1>6. view' \in Views /\ view'.size = view.size
  BY <1>2, <1>3, <1>5 DEF Views
<1>7. ViewOK' /\ DrawnOK' /\ TreeIn'
  BY <1>1, <1>2, <1>6 DEF RunInv, ViewOK, DrawnOK, TreeIn
<1>8. pc' \in Places /\ pc' \in Opened
  BY <1>1 DEF Places, Opened
<1> QED BY <1>1, <1>7, <1>8, StepRun

LEMMA LiftRun == MemInv /\ RunInv /\ Lift => RunInv' /\ ExitStatusTells'
<1> SUFFICES ASSUME MemInv, RunInv, Lift PROVE RunInv' /\ ExitStatusTells'
  OBVIOUS
<1>1. /\ status = "running" /\ pc = "lift" /\ pc' = pc /\ status' = status
      /\ UNCHANGED <<cmdVars, world>> /\ off < view.size
      /\ view' = view /\ tree' = tree /\ colours' = colours /\ drawn' = drawn /\ output' = output
  BY DEF Lift, At
<1>2. /\ view \in Views /\ off \in 0 .. view.size /\ tree = {} /\ IsChain(blocks)
      /\ drawn = 0 /\ colours = {} /\ output = {}
  BY <1>1 DEF RunInv, ViewOK, DrawnOK, Opened, MemInv, TreeHeld
<1>3. view.size \in Nat
  BY <1>2 DEF Views
<1>4. PICK size \in BlockSizes(view.size - off) : \E b :
        /\ off' = off + size
        /\ DOMAIN b = {"address", "size", "list"}
        /\ blocks' = blocks \/ blocks' = Append(blocks, b)
  <2>1. PICK size \in BlockSizes(view.size - off) :
          /\ off' = off + size
          /\ \E a : LET b == [address |-> a, size |-> size, list |-> a]
                    IN  blocks' = blocks \/ blocks' = Append(blocks, b)
    BY DEF Lift
  <2>2. PICK a : LET b == [address |-> a, size |-> size, list |-> a]
                 IN  blocks' = blocks \/ blocks' = Append(blocks, b)
    BY <2>1
  <2>3. DOMAIN [address |-> a, size |-> size, list |-> a] = {"address", "size", "list"}
    OBVIOUS
  <2> QED BY <2>1, <2>2, <2>3
<1>5. size \in 1 .. (view.size - off)
  BY <1>1, <1>2, <1>3, DriverAssumption DEF BlockSizes
<1>6. off' \in 0 .. view.size
  BY <1>2, <1>3, <1>4, <1>5
<1>7. Len(blocks') \in Nat
  <2>1. Len(blocks) \in Nat
    BY <1>2, LenProperties DEF IsChain
  <2> QED BY <2>1, <1>2, <1>4, ChainGrows
<1>8. ViewOK' /\ DrawnOK' /\ TreeIn'
  BY <1>1, <1>2, <1>6, <1>7 DEF ViewOK, DrawnOK, TreeIn, Opened
<1>9. pc' \in Places /\ pc' \in Opened
  BY <1>1 DEF Places, Opened
<1> QED BY <1>1, <1>8, <1>9, StepRun

LEMMA LiftedRun == RunInv /\ Lifted => RunInv' /\ ExitStatusTells'
<1> SUFFICES ASSUME RunInv, Lifted PROVE RunInv' /\ ExitStatusTells'
  OBVIOUS
<1>1. /\ pc = "lift" /\ status = "running" /\ UNCHANGED mainVars
      /\ \/ Goto("graph") /\ value["dump_cfg"] # NULL
         \/ Goto("ir") /\ value["dump_ir"] /\ value["dump_cfg"] = NULL
         \/ Goto("close") /\ ~value["dump_ir"] /\ value["dump_cfg"] = NULL
  BY DEF Lifted, At
<1>2. {"graph", "ir", "close"} \subseteq Places /\ {"graph", "ir", "close"} \subseteq Opened
      /\ pc \in Opened
  BY <1>1 DEF Places, Opened
<1>3. output = {}
  BY <1>1 DEF RunInv, DrawnOK
<1>4. CASE Goto("graph") /\ value["dump_cfg"] # NULL
  BY <1>1, <1>2, <1>4, GotoRun
<1>5. CASE Goto("ir") /\ value["dump_ir"] /\ value["dump_cfg"] = NULL
  BY <1>1, <1>2, <1>5, GotoRun
<1>6. CASE Goto("close") /\ ~value["dump_ir"] /\ value["dump_cfg"] = NULL
  <2>1. Done
    BY <1>3, <1>6, PrintedIs DEF Done
  <2> QED BY <1>1, <1>2, <1>6, <2>1, GotoRun
<1> QED BY <1>1, <1>4, <1>5, <1>6

(* The analyses.                                                           *)
LEMMA GraphRun == MemInv /\ RunInv /\ Graph => RunInv' /\ ExitStatusTells'
<1> SUFFICES ASSUME MemInv, RunInv, Graph PROVE RunInv' /\ ExitStatusTells'
  OBVIOUS
<1>1. /\ pc = "graph" /\ status = "running" /\ pc' = "sources" /\ status' = "running"
      /\ UNCHANGED <<cmdVars, world>>
      /\ view' = view /\ off' = off /\ tree' = tree /\ colours' = colours /\ drawn' = drawn /\ output' = output
      /\ \/ UNCHANGED <<blocks, mem>>
         \/ \E k \in DOMAIN blocks : \E n : Cut(k, n)
  BY DEF Graph, Goto, At
<1>2. /\ Arenas /\ IsChain(blocks) /\ HoldsBlocks(blocks, mem.persistent.live) /\ tree = {}
      /\ drawn = 0 /\ colours = {} /\ output = {} /\ view \in Views /\ off \in 0 .. view.size
      /\ value["dump_cfg"] # NULL
  BY <1>1 DEF MemInv, TreeHeld, RunInv, DrawnOK, ViewOK, ChoiceOK, Opened
<1>3. Len(blocks') \in Nat
  <2>1. IsChain(blocks')
    BY <1>1, <1>2, CutKeeps
  <2> QED BY <2>1, LenProperties DEF IsChain
<1>4. ViewOK' /\ DrawnOK' /\ TreeIn'
  BY <1>1, <1>2, <1>3 DEF ViewOK, DrawnOK, TreeIn, Opened
<1>5. pc' \in Places /\ pc' \in Opened /\ pc \in Opened
  BY <1>1 DEF Places, Opened
<1> QED BY <1>1, <1>2, <1>4, <1>5, StepRun

LEMMA SourcesRun == RunInv /\ (Sources \/ NoSources) => RunInv' /\ ExitStatusTells'
<1> SUFFICES ASSUME RunInv, Sources \/ NoSources PROVE RunInv' /\ ExitStatusTells'
  OBVIOUS
<1>1. pc = "sources" /\ status = "running" /\ value["dump_cfg"] # NULL
  BY DEF Sources, NoSources, At, RunInv, ChoiceOK
<1>2. {"stack", "flatten"} \subseteq Places /\ {"stack", "flatten"} \subseteq Opened /\ pc \in Opened
  BY <1>1 DEF Places, Opened
<1>3. CASE NoSources
  BY <1>1, <1>2, <1>3, GotoRun DEF NoSources
<1>4. CASE Sources
  <2>1. /\ request.present
        /\ \/ \E how \in Statuses \ {"0"} : End(how)
           \/ \E k \in Containing(request.address) : \E index, n : FindSources(k, index, n)
    BY <1>4 DEF Sources, Statuses
  <2>2. CASE \E how \in Statuses \ {"0"} : End(how)
    BY <2>1, <2>2, <1>1, EndRun
  <2>3. ASSUME NEW k \in Containing(request.address), NEW index, NEW n, FindSources(k, index, n)
        PROVE  RunInv' /\ ExitStatusTells'
    <3>1. \/ \E how \in Statuses \ {"0"} : End(how)
          \/ /\ \E others \in SUBSET DOMAIN blocks :
                  tree' = {blocks[j].address : j \in others \cup {k}}
             /\ Goto("flatten")
             /\ UNCHANGED <<view, arch, thumb, off, blocks, colours, drawn, output>>
      BY <2>3 DEF FindSources, Statuses
    <3>2. CASE \E how \in Statuses \ {"0"} : End(how)
      BY <2>1, <3>2, <1>1, EndRun
    <3>3. CASE /\ \E others \in SUBSET DOMAIN blocks :
                    tree' = {blocks[j].address : j \in others \cup {k}}
               /\ Goto("flatten")
               /\ UNCHANGED <<view, arch, thumb, off, blocks, colours, drawn, output>>
      <4>1. /\ pc' = "flatten" /\ status' = "running" /\ UNCHANGED <<cmdVars, world>>
            /\ view' = view /\ off' = off /\ blocks' = blocks /\ colours' = colours
            /\ drawn' = drawn /\ output' = output
        BY <3>3, <1>1 DEF Goto
      <4>2. ViewOK' /\ DrawnOK'
        BY <4>1, <1>1, <1>2 DEF RunInv, ViewOK, DrawnOK
      <4>3. TreeIn'
        <5>1. k \in DOMAIN blocks
          BY DEF Containing
        <5> QED BY <5>1, <3>3, <4>1 DEF TreeIn
      <4> QED BY <4>1, <4>2, <4>3, <1>1, <1>2, StepRun
    <3> QED BY <3>1, <3>2, <3>3
  <2> QED BY <2>1, <2>2, <2>3
<1> QED BY <1>3, <1>4

LEMMA AnalysesRun ==
  RunInv /\ (Flatten \/ MaxStackSize \/ NoMaxStackSize) => RunInv' /\ ExitStatusTells'
<1> SUFFICES ASSUME RunInv, Flatten \/ MaxStackSize \/ NoMaxStackSize
             PROVE  RunInv' /\ ExitStatusTells'
  OBVIOUS
<1>1. /\ pc \in {"flatten", "stack"} /\ status = "running"
      /\ pc' \in {"stack", "fopen"} /\ status' = "running" /\ UNCHANGED <<cmdVars, world>>
      /\ view' = view /\ off' = off /\ blocks' = blocks /\ tree' = tree /\ colours' = colours
      /\ drawn' = drawn /\ output' = output
  BY DEF Flatten, MaxStackSize, NoMaxStackSize, At, Goto, mainVars
<1>2. pc' \in Places /\ pc' \in Opened /\ pc \in Opened /\ value["dump_cfg"] # NULL
  BY <1>1 DEF Places, Opened, RunInv, ChoiceOK
<1>3. ViewOK' /\ DrawnOK' /\ TreeIn'
  BY <1>1, <1>2 DEF RunInv, ViewOK, DrawnOK, TreeIn
<1> QED BY <1>1, <1>2, <1>3, StepRun

(* The output.                                                             *)
LEMMA OutputRun ==
  MemInv /\ RunInv /\ (OpenDump \/ DrawBlock \/ DrawEdges \/ PrintIr)
    => RunInv' /\ ExitStatusTells'
<1> SUFFICES ASSUME MemInv, RunInv, OpenDump \/ DrawBlock \/ DrawEdges \/ PrintIr
             PROVE  RunInv' /\ ExitStatusTells'
  OBVIOUS
<1>1. /\ status = "running" /\ pc \in {"fopen", "output", "ir"}
  BY DEF OpenDump, DrawBlock, DrawEdges, PrintIr, At
<1>2. /\ pc \in Opened /\ {"output", "close"} \subseteq Places /\ {"output", "close"} \subseteq Opened
      /\ pc # "ir" => value["dump_cfg"] # NULL
      /\ drawn \in 0 .. Len(blocks) /\ colours \subseteq Schemes
      /\ view \in Views /\ off \in 0 .. view.size
  BY <1>1 DEF Places, Opened, RunInv, ChoiceOK, DrawnOK, ViewOK
<1>3. Len(blocks) \in Nat /\ DOMAIN blocks = 1 .. Len(blocks)
  BY <1>1, LenProperties DEF MemInv, IsChain
<1>4. CASE OpenDump /\ ~world.writable
  <2>1. End("aborted") /\ "aborted" \in Statuses \ {"0"} /\ pc = "fopen"
    BY <1>4 DEF OpenDump, Statuses, At
  <2> QED BY <2>1, <1>1, <1>2, <1>4, EndRun
<1>5. CASE OpenDump /\ world.writable
  <2>1. /\ pc = "fopen" /\ pc' = "output" /\ status' = "running" /\ UNCHANGED <<cmdVars, world>>
        /\ view' = view /\ off' = off /\ blocks' = blocks /\ tree' = tree /\ drawn' = drawn /\ output' = output
        /\ colours' = colours \cup {"default"} /\ output' = output
    BY <1>1, <1>5 DEF OpenDump, Goto, UseColours, At
  <2>2. ViewOK' /\ DrawnOK' /\ TreeIn'
    BY <2>1, <1>2 DEF RunInv, ViewOK, DrawnOK, TreeIn, Schemes
  <2>3. output' = Drawing \X (1 .. drawn')
    <3>1. output = {} /\ drawn = 0
      BY <2>1 DEF RunInv, DrawnOK
    <3> QED BY <3>1, <2>1
  <2> QED BY <2>1, <2>2, <2>3, <1>2, <1>5, StepRun
<1>6. CASE DrawBlock
  <2>1. /\ pc = "output" /\ pc' = "output" /\ status' = "running" /\ UNCHANGED <<cmdVars, world>>
        /\ view' = view /\ off' = off /\ blocks' = blocks /\ tree' = tree
        /\ drawn' = drawn + 1 /\ drawn < Len(blocks)
        /\ \E schemes \in SUBSET Schemes : colours' = colours \cup schemes
        /\ output' = output \cup (Drawing \X {drawn + 1})
    BY <1>1, <1>6 DEF DrawBlock, UseColours, At, Schemes
  <2>2. /\ world.writable /\ output = Drawing \X (1 .. drawn)
        /\ output \subseteq Forms \X DOMAIN blocks
    BY <2>1 DEF RunInv, ChoiceOK, DrawnOK
  <2>3. drawn' \in 0 .. Len(blocks)
    BY <2>1, <1>2, <1>3
  <2>4. ViewOK' /\ DrawnOK' /\ TreeIn'
    <3>1. drawn + 1 \in DOMAIN blocks
      BY <2>1, <1>2, <1>3
    <3>2. output' \subseteq Forms \X DOMAIN blocks'
      BY <3>1, <2>1, <2>2, PrintedIs
    <3> QED BY <2>1, <2>3, <3>2, <1>2 DEF RunInv, ViewOK, DrawnOK, TreeIn
  <2>5. output' = Drawing \X (1 .. drawn')
    <3>1. 1 .. drawn' = (1 .. drawn) \cup {drawn + 1}
      BY <2>1, <1>2, <1>3
    <3> QED BY <3>1, <2>1, <2>2
  <2> QED BY <2>1, <2>2, <2>4, <2>5, <1>2, StepRun
<1>7. CASE DrawEdges
  <2>1. Goto("close") /\ UNCHANGED mainVars /\ pc = "output" /\ drawn = Len(blocks)
    BY <1>7 DEF DrawEdges, At
  <2>2. Done
    BY <2>1, <1>2, <1>3, PrintedIs DEF Done, RunInv, ChoiceOK
  <2> QED BY <2>1, <2>2, <1>1, <1>2, GotoRun
<1>8. CASE PrintIr
  <2>1. /\ pc = "ir" /\ pc' = "close" /\ status' = "running" /\ UNCHANGED <<cmdVars, world>>
        /\ view' = view /\ off' = off /\ blocks' = blocks /\ tree' = tree /\ colours' = colours
        /\ drawn' = Len(blocks) /\ output' = {"ir"} \X DOMAIN blocks
    BY <1>1, <1>8 DEF PrintIr, Goto, At
  <2>2. value["dump_ir"] /\ value["dump_cfg"] = NULL
    BY <2>1 DEF RunInv, ChoiceOK
  <2>3. ViewOK' /\ DrawnOK' /\ TreeIn'
    <3>1. output' \subseteq Forms \X DOMAIN blocks'
      BY <2>1 DEF Forms
    <3> QED BY <3>1, <2>1, <1>2, <1>3 DEF RunInv, ViewOK, DrawnOK, TreeIn
  <2>4. Done'
    BY <2>1, <2>2, InputStays, PrintedIs DEF Done
  <2> QED BY <2>1, <2>3, <2>4, <1>2, StepRun
<1> QED BY <1>4, <1>5, <1>6, <1>7, <1>8

LEMMA RunNextInv ==
  CmdInv /\ WordsInv /\ MemInv /\ RunInv /\ ExitStatusTells /\ [Next]_vars
    => RunInv' /\ ExitStatusTells'
<1> SUFFICES ASSUME CmdInv, WordsInv, MemInv, RunInv, ExitStatusTells, [Next]_vars
             PROVE  RunInv' /\ ExitStatusTells'
  OBVIOUS
<1>1. CASE UNCHANGED vars
  <2>1. /\ pc' = pc /\ status' = status /\ UNCHANGED <<cmdVars, world>>
        /\ view' = view /\ off' = off /\ blocks' = blocks /\ tree' = tree /\ colours' = colours
        /\ drawn' = drawn /\ output' = output
    BY <1>1 DEF vars, mainVars
  <2>2. /\ value' = value /\ world' = world /\ parse' = parse /\ Servable' = Servable
      /\ Printed' = Printed /\ Drawing' = Drawing
        /\ request' = request
    BY <2>1, InputStays
  <2>3. RunInv'
    BY <2>1, <2>2 DEF RunInv, ViewOK, DrawnOK, TreeIn, ChoiceOK, Done
  <2>4. ExitStatusTells'
    BY <2>1, <2>2 DEF ExitStatusTells
  <2> QED BY <2>3, <2>4
<1> QED BY <1>1, ParseRun, InputRun, OpenRun, LiftRun, LiftedRun, GraphRun, SourcesRun, AnalysesRun,
           OutputRun, ReturnRun DEF Next

-----------------------------------------------------------------------------
(* All of it together.                                                     *)
Invs == CmdInv /\ WordsInv /\ MemInv /\ RunInv /\ ExitStatusTells

LEMMA InvsHold == Spec => []Invs
<1>1. Init => Invs
  BY CmdInitInv, WordsInitInv, MemInitInv, RunInitInv DEF Invs
<1>2. Invs /\ [Next]_vars => Invs'
  BY CmdNextInv, MemNextInv, RunNextInv DEF Invs
<1> QED BY <1>1, <1>2, PTL DEF Spec

(* The exit status can be relied on, whatever the command line, the files  *)
(* and the lifter: 0 only when what was selected exists and the output has *)
(* of each of its blocks exactly what main prints of the options given,    *)
(* and not 0 only for a reason.  Of src/src/dump-ir.c:104-176 and          *)
(* src/src/dump-ir.c:319-385.                                              *)
THEOREM StatusTells == Spec => []ExitStatusTells
<1>1. Invs => ExitStatusTells
  BY DEF Invs
<1> QED BY <1>1, InvsHold, PTL

(* The arenas keep their form, also when they are given back.              *)
LEMMA ArenasStay == MemInv /\ Arenas /\ [Next]_vars => Arenas'
<1> SUFFICES ASSUME MemInv, Arenas, [Next]_vars PROVE Arenas'
  OBVIOUS
<1>1. \/ status' = "running"
      \/ mem' = mem
      \/ mem' = [persistent |-> Empty, temporary |-> Empty]
  <2>1. CASE UNCHANGED vars
    BY <2>1 DEF vars, mainVars
  <2>2. CASE Parse \/ Parsed \/ TakeRegion \/ TakeStdin \/ NothingToTake
    BY <2>2 DEF Parse, Parsed, TakeRegion, TakeStdin, NothingToTake, Fail, End, Take, Goto, At, mainVars
  <2>3. CASE TakeFunction \/ TakeSection
    BY <2>3 DEF TakeFunction, TakeSection, TakeElf, End, Take, Goto, At, mainVars
  <2>4. CASE Open \/ Lift \/ Lifted \/ Graph \/ Flatten \/ MaxStackSize
    BY <2>4 DEF Open, Lift, Lifted, Graph, Flatten, MaxStackSize, Goto, At
  <2>5. CASE Sources \/ NoSources \/ NoMaxStackSize
    BY <2>5 DEF Sources, FindSources, NoSources, NoMaxStackSize, End, Goto, At, mainVars
  <2>6. CASE OpenDump \/ DrawBlock \/ DrawEdges \/ PrintIr
    BY <2>6 DEF OpenDump, DrawBlock, DrawEdges, PrintIr, End, Goto, At, mainVars
  <2>7. CASE Close \/ Error
    BY <2>7 DEF Close, Error, Free
  <2> QED BY <2>1, <2>2, <2>3, <2>4, <2>5, <2>6, <2>7 DEF Next
<1>2. MemInv'
  BY MemNextInv
<1>3. CASE status' = "running"
  BY <1>2, <1>3 DEF MemInv
<1>4. CASE mem' = mem
  BY <1>4 DEF Arenas
<1>5. CASE mem' = [persistent |-> Empty, temporary |-> Empty]
  BY <1>5 DEF Arenas, IsArena, Empty
<1> QED BY <1>1, <1>3, <1>4, <1>5

(* Types and bounds, for every input.  Of src/src/dump-ir.c:68-385.        *)
THEOREM TypeCorrect == Spec => []TypeOK
<1>1. Init => Arenas
  BY DEF Init, Arenas, IsArena, Empty
<1>2. Invs /\ Arenas /\ [Next]_vars => Arenas'
  BY ArenasStay DEF Invs
<1>3. Spec => []Arenas
  BY <1>1, <1>2, InvsHold, PTL DEF Spec
<1>4. Invs /\ Arenas => TypeOK
  <2> SUFFICES ASSUME Invs, Arenas PROVE TypeOK
    OBVIOUS
  <2>1. /\ i \in 1 .. (Len(argv) + 1) /\ pos_index \in 0 .. Len(pos_options)
        /\ parsed \subseteq DOMAIN value /\ parse \in {"running", "true", "false"}
    BY DEF Invs, CmdInv, WordsInv
  <2>2. /\ pc \in Places /\ status \in Statuses \cup {"running"} /\ TreeIn
        /\ drawn \in 0 .. Len(blocks) /\ colours \subseteq Schemes
        /\ output \subseteq {"cfg", "max_stack", "reg_src", "ir"} \X DOMAIN blocks
    BY DEF Invs, RunInv, DrawnOK, Forms
  <2>3. /\ view = NoView \/ view \in Views
        /\ view = NoView => off = 0 /\ blocks = << >>
        /\ view # NoView => off \in 0 .. view.size
    <3>1. \/ view = NoView /\ off = 0 /\ blocks = << >>
          \/ view \in Views /\ off \in 0 .. view.size
      BY DEF Invs, RunInv, ViewOK, Places, Opened
    <3>2. NoView \notin Views
      <4>1. DOMAIN NoView = {"unset"} /\ \A v \in Views : "size" \in DOMAIN v
        BY DEF NoView, Views
      <4> QED BY <4>1
    <3> QED BY <3>1, <3>2
  <2>4. DOMAIN mem = {"persistent", "temporary"} /\ \A a \in DOMAIN mem : DOMAIN mem[a] = {"live", "stale"}
    BY DEF Arenas, IsArena
  <2> QED BY <2>1, <2>2, <2>3, <2>4 DEF TypeOK, Places, Statuses, Views, TreeIn
<1> QED BY <1>3, <1>4, InvsHold, PTL

-----------------------------------------------------------------------------
(* The bytes that are lifted.                                              *)
BytesInv == pc \in {"open", "lift"} => BytesIn(view)

LEMMA ViewStays ==
  [Next]_vars =>
    \/ pc' \notin {"open", "lift"}
    \/ pc' = pc /\ view' = view /\ UNCHANGED <<cmdVars, world>>
    \/ Open
    \/ TakeRegion \/ TakeFunction \/ TakeSection \/ TakeStdin \/ NothingToTake
<1> SUFFICES ASSUME [Next]_vars
             PROVE  \/ pc' \notin {"open", "lift"}
                    \/ pc' = pc /\ view' = view /\ UNCHANGED <<cmdVars, world>>
                    \/ Open
                    \/ TakeRegion \/ TakeFunction \/ TakeSection \/ TakeStdin \/ NothingToTake
  OBVIOUS
<1>1. CASE UNCHANGED vars
  BY <1>1 DEF vars, mainVars
<1>2. CASE Parse \/ Parsed \/ Lift \/ Lifted
  BY <1>2 DEF Parse, Parsed, Lift, Lifted, Goto, At
<1>3. CASE Graph \/ NoSources \/ Flatten \/ MaxStackSize \/ NoMaxStackSize
  BY <1>3 DEF Graph, NoSources, Flatten, MaxStackSize, NoMaxStackSize, Goto
<1>4. CASE Sources
  BY <1>4 DEF Sources, FindSources, Goto, End, mainVars
<1>5. CASE OpenDump \/ DrawBlock \/ DrawEdges \/ PrintIr
  BY <1>5 DEF OpenDump, DrawBlock, DrawEdges, PrintIr, Goto, End, mainVars
<1>6. CASE Close \/ Error
  BY <1>6 DEF Close, Error, Free
<1> QED BY <1>1, <1>2, <1>3, <1>4, <1>5, <1>6 DEF Next

LEMMA BytesNextInv ==
  ASSUME FilesWhole
  PROVE  WordsInv /\ RunInv /\ BytesInv /\ [Next]_vars => BytesInv'
<1> SUFFICES ASSUME WordsInv, RunInv, BytesInv, [Next]_vars PROVE BytesInv'
  OBVIOUS
<1>1. ASSUME UNCHANGED <<cmdVars, world>> PROVE value' = value /\ world' = world /\ InputFile' = InputFile
  BY <1>1 DEF cmdVars, InputFile
<1>2. CASE pc' \notin {"open", "lift"}
  BY <1>2 DEF BytesInv
<1>3. CASE pc' = pc /\ view' = view /\ UNCHANGED <<cmdVars, world>>
  BY <1>1, <1>3 DEF BytesInv, BytesIn
<1>4. CASE Open
  <2>1. /\ pc = "open" /\ UNCHANGED <<cmdVars, world>>
        /\ \E a : view' = [view EXCEPT !.address = a]
    BY <1>4 DEF Open, At, Goto
  <2>2. view \in Views
    BY <2>1 DEF RunInv, ViewOK
  <2>3. view'.data = view.data /\ view'.size = view.size
    BY <2>1, <2>2 DEF Views
  <2> QED BY <1>1, <2>1, <2>3 DEF BytesInv, BytesIn
<1>5. CASE TakeRegion \/ TakeFunction \/ TakeSection \/ TakeStdin \/ NothingToTake
  <2>1. At("input") /\ (Takes \/ Fails \/ Stops)
    BY <1>5, InputIs DEF RunInv
  <2>2. CASE Takes
    <3>1. PICK v \in Views : (\E a : Take(a, v)) /\ BytesIn(v)
      BY <2>2 DEF Takes
    <3>2. view' = v /\ UNCHANGED <<cmdVars, world>>
      BY <3>1 DEF Take, Goto
    <3> QED BY <1>1, <3>1, <3>2 DEF BytesInv, BytesIn
  <2>3. CASE Fails \/ Stops
    BY <2>1, <2>3 DEF Fails, Fail, Stops, Goto, End, At, BytesInv
  <2> QED BY <2>1, <2>2, <2>3
<1> QED BY <1>2, <1>3, <1>4, <1>5, ViewStays

(* Every byte given to the lifter was read from the input, provided that   *)
(* the files are whole: the code looks for that nowhere.  Of               *)
(* src/src/loadelf.c:235-258, src/src/util.h:21-62 and                     *)
(* src/src/dump-ir.c:198-205.                                              *)
THEOREM LiftsWhatWasRead == ASSUME FilesWhole PROVE Spec => []BytesRead
<1>1. Init => BytesInv
  BY DEF Init, BytesInv
<1>2. Invs /\ BytesInv /\ [Next]_vars => BytesInv'
  BY BytesNextInv DEF Invs
<1>3. BytesInv => BytesRead
  BY DEF BytesInv, BytesIn, BytesRead, At
<1> QED BY <1>1, <1>2, <1>3, InvsHold, PTL DEF Spec
=============================================================================
