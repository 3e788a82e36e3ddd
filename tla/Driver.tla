------------------------------- MODULE Driver -------------------------------
(***************************************************************************)
(* main of src/src/dump-ir.c, from the command line to the exit status:    *)
(* parsing (CmdLine), the choice of what to lift (ElfLoad and util.h), the *)
(* lifting loop, the analyses that --dump-cfg asks for, in their order,    *)
(* and the output, with all ways to leave on the way.                      *)
(*                                                                         *)
(* What the parts leave to one another lies in two arenas.  An arena has   *)
(* allocations, each known by what was put there: the live ones, and those *)
(* that were live until the last reset, which stay as they are until the   *)
(* next allocation may be laid over any of them (StackAlloc says where it  *)
(* goes; here the worst is taken).  The graph is built in CfgBuild, the    *)
(* analyses run in RegSrc and MaxStack; here they are what they do to the  *)
(* arenas.                                                                 *)
(***************************************************************************)
EXTENDS CmdLine, ElfLoad

CONSTANTS
  Files,          (* the files by name                                     *)
  Worlds,         (* the inputs: bytes at stdin, and whether the file for  *)
                  (* the graph can be opened                               *)
  Archs,          (* what libtcg_arch_from_str knows                       *)
  MaxStdin,       (* the 1024 bytes read from stdin                        *)
  InsnSize,       (* the size of a guest instruction                       *)
  MaxInsns,       (* instructions that the lifter puts in a block          *)
  Ops             (* what an instruction is lifted to: [out, in] for each  *)

VARIABLES
  world,          (* the input, never changed                              *)
  pc,             (* the part of main that runs                            *)
  status,         (* "running", the exit status, or how the process ended  *)
  view,           (* ElfByteView: address, data (as an offset in what was  *)
                  (* read) and size                                        *)
  arch,           (* the architecture to lift                              *)
  thumb,          (* LIBTCG_TRANSLATE_ARM_THUMB                            *)
  off,            (* bytes lifted so far                                   *)
  blocks,         (* the chain of TbNodes: address, size, and the block    *)
                  (* whose list of instructions it is part of              *)
  tree,           (* the blocks in the tree that find_sources returned     *)
  mem,            (* the two arenas                                        *)
  colours,        (* the colour schemes whose strings are cached           *)
  drawn,          (* blocks printed so far                                 *)
  output          (* what the output has: pairs of a form and a block      *)

mainVars == <<view, arch, thumb, off, blocks, tree, mem, colours, drawn, output>>
vars == <<cmdVars, world, pc, status, mainVars>>

-----------------------------------------------------------------------------
NoView == [unset |-> TRUE]      \* nothing was stored in the variable yet

(* The options of main.                                                    *)
Opt(names, type, var) == [names |-> names, type |-> type, var |-> var]

PosOptions == <<Opt({}, "STR", "file")>>

NamedOptions ==
  <<Opt({"--help", "-h"}, "BOOL", "help"),
    Opt({"--offset", "-o"}, "HEX", "offset"),
    Opt({"--length", "-l"}, "ULONG", "size"),
    Opt({"--section", "-s"}, "STR", "section"),
    Opt({"--function", "-f"}, "STR", "function"),
    Opt({"--bytes", "-b"}, "BOOL", "bytes"),
    Opt({"--arch", "-a"}, "STR", "arch_name"),
    Opt({"--dump-ir", "-i"}, "BOOL", "dump_ir"),
    Opt({"--dump-cfg", "-c"}, "STR", "dump_cfg"),
    Opt({"--analyze-max-stack", "-m"}, "BOOL", "analyze_max_stack"),
    Opt({"--analyze-reg-src", "-r"}, "REG_TUPLE", "analyze_reg_src"),
    Opt({"--optimize", "-p"}, "BOOL", "optimize"),
    Opt({"--h2tcg", "-t"}, "BOOL", "h2tcg"),
    Opt({"--debug", "-d"}, "BOOL", "debug")>>

ASSUME DriverAssumption ==
  /\ {MaxStdin, InsnSize, MaxInsns} \subseteq Nat \ {0}
  /\ Ops # << >> /\ \A k \in DOMAIN Ops : {Ops[k].out, Ops[k].in} \subseteq Nat
  /\ \A name \in DOMAIN Files : IsElf(Files[name])
  /\ \A w \in Worlds : w.stdin \in Nat /\ w.writable \in BOOLEAN
  /\ named_options = NamedOptions /\ pos_options = PosOptions

(* Arenas.                                                                 *)
Empty == [live |-> {}, stale |-> {}]

Alloc(arena, owners) ==
  IF owners = {} THEN arena ELSE [live |-> arena.live \cup owners, stale |-> {}]

(* Allocated after a marker, and reset to it.                              *)
Scratch(arena, owners) == [arena EXCEPT !.stale = owners]

Holds(arena, owner) == owner \in mem[arena].live \cup mem[arena].stale

Init ==
  /\ CmdInit
  /\ world \in Worlds
  /\ pc = "parse" /\ status = "running"
  /\ view = NoView /\ arch = NULL /\ thumb = FALSE /\ off = 0
  /\ blocks = << >> /\ tree = {} /\ drawn = 0 /\ output = {} /\ colours = {}
  /\ mem = [persistent |-> Empty, temporary |-> Empty]

Goto(p) == pc' = p /\ UNCHANGED <<cmdVars, world, status>>

End(how) == status' = how /\ UNCHANGED <<cmdVars, world, pc, mainVars>>

At(p) == status = "running" /\ pc = p

-----------------------------------------------------------------------------
Parse ==
  /\ At("parse") /\ parse_options
  /\ UNCHANGED <<world, pc, status, mainVars>>

Parsed ==
  /\ At("parse") /\ parse # "running"
  /\ Goto(IF parse = "false" \/ value["help"] THEN "error" ELSE "input")
  /\ UNCHANGED mainVars

(* Go on to lift v as code for architecture a, from a buffer in the        *)
(* persistent arena.                                                       *)
Take(a, v) ==
  /\ Goto("open")
  /\ arch' = a /\ view' = v
  /\ mem' = [mem EXCEPT !.persistent = Alloc(@, {<<"data">>})]
  /\ UNCHANGED <<thumb, off, blocks, tree, colours, drawn, output>>

Fail == Goto("error") /\ UNCHANGED mainVars

(* A file that is not there cannot be opened.                              *)
InputFile == IF value["file"] \in DOMAIN Files THEN Files[value["file"]] ELSE NoFile

Region == value["file"] # NULL /\ value["size"] > 0
Function == value["file"] # NULL /\ value["size"] = 0 /\ value["function"] # NULL
Section ==
  value["file"] # NULL /\ value["size"] = 0 /\ value["function"] = NULL /\ value["section"] # NULL
Stdin == value["file"] = NULL /\ value["bytes"]

(* At most MaxStdin bytes are read from stdin, without a word about more.  *)
StdinBytes == Min({world.stdin, MaxStdin})

(* libtcg_arch_from_str finds no architecture, or none was named.          *)
NoArch == value["arch_name"] \notin Archs

(* fseek takes a long: an offset above LONG_MAX is a negative one, fseek   *)
(* fails, which nobody looks at, and the file is read from its start.      *)
LONG_MAX == ULONG_MAX \div 2

Position(offset) == IF offset > LONG_MAX THEN 0 ELSE offset

(* A file that is too short fails the assertion on the bytes read, unless  *)
(* the memory for so many could not be had before.                         *)
TakeRegion ==
  /\ At("input") /\ Region
  /\ LET data == Position(value["offset"])
     IN  IF NoArch \/ InputFile = NoFile THEN Fail
         ELSE IF data + value["size"] > InputFile.size
              THEN \/ End("aborted")
                   \/ value["size"] > LONG_MAX /\ End("-1")
         ELSE Take(value["arch_name"],
                   [address |-> value["offset"], data |-> data, size |-> value["size"]])

(* Once elf_data has read the file: what was found in it.  A failure       *)
(* returns at once.                                                        *)
TakeElf(found) ==
  \E data \in elf_data(InputFile) :
    IF data.end # "true" THEN End(IF data.end = "false" THEN "-1" ELSE data.end)
    ELSE \E r \in found :
           IF r.end = "true" THEN Take(elf_machine_to_libtcg(InputFile), r.view)
           ELSE End(IF r.end = "false" THEN "-1" ELSE r.end)

TakeFunction ==
  /\ At("input") /\ Function
  /\ TakeElf(elf_function(InputFile, value["function"]))

TakeSection ==
  /\ At("input") /\ Section
  /\ TakeElf(elf_section(InputFile, value["section"]))

TakeStdin ==
  /\ At("input") /\ Stdin
  /\ IF NoArch THEN Fail
     ELSE Take(value["arch_name"],
               [address |-> 0, data |-> 0, size |-> StdinBytes])

NothingToTake ==
  /\ At("input") /\ ~(Region \/ Function \/ Section \/ Stdin)
  /\ Fail

-----------------------------------------------------------------------------
(* The context of libtcg is allocated in the persistent arena too.         *)
Open ==
  /\ At("open")
  /\ Goto("lift")
  /\ LET odd == arch = "ARM" /\ view.address % 2 = 1
     IN  /\ thumb' = odd
         /\ view' = [view EXCEPT !.address = IF odd THEN @ - 1 ELSE @]
  /\ mem' = [mem EXCEPT !.persistent = Alloc(@, {<<"context">>})]
  /\ UNCHANGED <<arch, off, blocks, tree, colours, drawn, output>>

(* Addresses are 64 bits wide, as unsigned longs are.                      *)
Wrap(address) == address % (ULONG_MAX + 1)

(* translate_block takes some instructions, or what is left when it is     *)
(* less than one.                                                          *)
BlockSizesPast(left) == {n * InsnSize : n \in 1 .. MaxInsns}
                                                   (* mutant of BlockSizes *)
BlockSizes(left) ==
  IF left < InsnSize THEN {left} ELSE {n * InsnSize : n \in 1 .. MaxInsns} \cap 1 .. left

(* A block without instructions becomes no node.                           *)
Lift ==
  /\ At("lift") /\ off < view.size
  /\ \E size \in BlockSizes(view.size - off), decodes \in BOOLEAN :
       LET address == Wrap(view.address + off)
           block == [address |-> address, size |-> size, list |-> address]
           keeps == decodes /\ size >= InsnSize
           insts == <<"insts", address>>
       IN  /\ off' = off + size
           /\ blocks' = IF keeps THEN Append(blocks, block) ELSE blocks
           /\ mem' = [mem EXCEPT !.persistent =
                Alloc(@, IF keeps THEN {insts, <<"node", address>>} ELSE {insts})]
  /\ UNCHANGED <<cmdVars, world, pc, status, view, arch, thumb, tree, colours, drawn, output>>

LiftedIrFirst ==                                   (* mutant of Lifted     *)
  /\ At("lift") /\ off >= view.size
  /\ Goto(IF value["dump_ir"] THEN "ir" ELSE IF value["dump_cfg"] # NULL THEN "graph" ELSE "close")
  /\ UNCHANGED mainVars

Lifted ==
  /\ At("lift") /\ off >= view.size
  /\ Goto(IF value["dump_cfg"] # NULL THEN "graph" ELSE IF value["dump_ir"] THEN "ir" ELSE "close")
  /\ UNCHANGED mainVars

(* The construction of the graph may cut blocks between instructions; the  *)
(* new node shares the list of the old one.                                *)
Cut(k, n) ==
  LET b == blocks[k]
      new == [b EXCEPT !.address = Wrap(@ + n * InsnSize), !.size = @ - n * InsnSize]
  IN  /\ blocks' = InsertAt(ReplaceAt(blocks, k, [b EXCEPT !.size = n * InsnSize]), k + 1, new)
      /\ mem' = [mem EXCEPT !.persistent = Alloc(@, {<<"node", new.address>>})]

Graph ==
  /\ At("graph")
  /\ Goto("sources")
  /\ \/ UNCHANGED <<blocks, mem>>
     \/ \E k \in DOMAIN blocks : \E n \in 1 .. ((blocks[k].size \div InsnSize) - 1) : Cut(k, n)
  /\ UNCHANGED <<view, arch, thumb, off, tree, colours, drawn, output>>

-----------------------------------------------------------------------------
request == value["analyze_reg_src"]

(* find_tb_containing; {} for NULL.                                        *)
Containing(address) ==
  {k \in DOMAIN blocks : /\ address >= blocks[k].address
                         /\ address < Wrap(blocks[k].address + blocks[k].size)}

(* find_instruction_from_address: where the operations of the instruction  *)
(* at that address start in block k.                                       *)
FindInstruction(k, address) ==
  LET d == address - blocks[k].address
  IN  IF d % InsnSize = 0 THEN (d \div InsnSize) * Len(Ops) ELSE -1

OpCount(k) == (blocks[k].size \div InsnSize) * Len(Ops)

(* What becomes of find_sources when it is asked about operand n of the    *)
(* operation at index of block k.                                          *)
FindSources(k, index, n) ==
  LET op == Ops[(index % Len(Ops)) + 1]
  IN  IF index >= OpCount(k) THEN End("overrun")
      ELSE IF n < op.out \/ n >= op.out + op.in \/ index = 0 THEN End("aborted")
      ELSE /\ \E others \in SUBSET DOMAIN blocks :
                tree' = {blocks[j].address : j \in others \cup {k}}
           /\ mem' = [persistent |-> Alloc(mem.persistent, {<<"tree">>}),
                      temporary |-> Scratch(mem.temporary, {<<"queue">>})]
           /\ Goto("flatten")
           /\ UNCHANGED <<view, arch, thumb, off, blocks, colours, drawn, output>>

Sources ==
  /\ At("sources") /\ request.present
  /\ IF Containing(request.address) = {} THEN End("crashed")
     ELSE \E k \in Containing(request.address) :
            LET index == FindInstruction(k, request.address)
            IN  IF index = -1 THEN End("-1")
                ELSE FindSources(k, index + request.offset, request.operand)

(* flatten_sources: a row of pointers for each block in the tree.          *)
Flatten ==
  /\ At("flatten")
  /\ Goto("stack")
  /\ mem' = [mem EXCEPT !.temporary = Alloc(@, {"marks"} \X tree)]
  /\ UNCHANGED <<view, arch, thumb, off, blocks, tree, colours, drawn, output>>

NoSources ==
  /\ At("sources") /\ ~request.present
  /\ Goto("stack")
  /\ UNCHANGED mainVars

(* compute_max_stack_size: the queue and the rows of every block, and, as  *)
(* it asks whether loads and stores are to the stack, searches that take   *)
(* memory of both arenas and give it back.                                 *)
MaxStackSize ==
  /\ At("stack") /\ value["analyze_max_stack"]
  /\ Goto("fopen")
  /\ LET rows == {<<"rows", blocks[k].address>> : k \in DOMAIN blocks}
     IN  mem' = [persistent |-> Scratch(mem.persistent, {<<"tree">>}),
                 temporary |-> Scratch(mem.temporary, {<<"queue">>} \cup rows)]
  /\ UNCHANGED <<view, arch, thumb, off, blocks, tree, colours, drawn, output>>

NoMaxStackSize ==
  /\ At("stack") /\ ~value["analyze_max_stack"]
  /\ Goto("fopen")
  /\ UNCHANGED mainVars

-----------------------------------------------------------------------------
(* The tables of colours.  A colour's string is made in an arena when the  *)
(* colour is first used, and kept; those made for one row are left out.    *)
Schemes == {"default", "dim"}

ColourArenaTemporary == "temporary"                (* mutant of ColourArena *)
ColourArena == "persistent"

UseColours(schemes) ==
  LET new == schemes \ colours
  IN  /\ colours' = colours \cup schemes
      /\ mem' = [mem EXCEPT ![ColourArena] = Alloc(@, {"colour"} \X new)]

(* graphviz_output asserts that the file was opened.                       *)
OpenDump ==
  /\ At("fopen")
  /\ IF world.writable
     THEN /\ Goto("output")
          /\ UseColours({"default"})
          /\ UNCHANGED <<view, arch, thumb, off, blocks, tree, drawn, output>>
     ELSE End("aborted")

(* What a block of the graph shows: its rows, beside each what the stack   *)
(* analysis says of it, and the sources among them.                        *)
Drawing ==
  {"cfg"} \cup (IF value["analyze_max_stack"] THEN {"max_stack"} ELSE {})
          \cup (IF request.present THEN {"reg_src"} ELSE {})

(* A block's rows are dim unless they are in the tree or nothing was asked *)
(* about sources.                                                          *)
DrawBlock ==
  /\ At("output") /\ drawn < Len(blocks)
  /\ drawn' = drawn + 1
  /\ output' = output \cup (Drawing \X {drawn + 1})
  /\ UseColours((IF request.present THEN {"dim"} ELSE {"default"}) \cup
                 (IF blocks[drawn + 1].address \in tree THEN {"default"} ELSE {}))
  /\ UNCHANGED <<cmdVars, world, pc, status, view, arch, thumb, off, blocks, tree>>

DrawEdges ==
  /\ At("output") /\ drawn = Len(blocks)
  /\ Goto("close")
  /\ UNCHANGED mainVars

PrintIr ==
  /\ At("ir")
  /\ drawn' = Len(blocks)
  /\ output' = {"ir"} \X DOMAIN blocks
  /\ Goto("close")
  /\ UNCHANGED <<view, arch, thumb, off, blocks, tree, mem, colours>>

(* stack_free_all of both arenas.                                          *)
Free(how) ==
  /\ mem' = [persistent |-> Empty, temporary |-> Empty]
  /\ status' = how
  /\ UNCHANGED <<cmdVars, world, pc, view, arch, thumb, off, blocks, tree, colours, drawn, output>>

Close == At("close") /\ Free("0")

Error == At("error") /\ Free("-1")

Next ==
  \/ Parse \/ Parsed
  \/ TakeRegion \/ TakeFunction \/ TakeSection \/ TakeStdin \/ NothingToTake
  \/ Open \/ Lift \/ Lifted
  \/ Graph \/ Sources \/ NoSources \/ Flatten \/ MaxStackSize \/ NoMaxStackSize
  \/ OpenDump \/ DrawBlock \/ DrawEdges \/ PrintIr \/ Close \/ Error

(* One thread, which runs until it is done.                                *)
Spec == Init /\ [][Next]_vars /\ WF_vars(Next)

-----------------------------------------------------------------------------
(* Types and bounds: the words are read in order and the lifted bytes, the *)
(* blocks and what is drawn of them stay inside their ranges.  Of          *)
(* src/src/dump-ir.c:68-385.                                               *)
TypeOK ==
  /\ i \in 1 .. (Len(argv) + 1) /\ pos_index \in 0 .. Len(pos_options)
  /\ parsed \subseteq DOMAIN value /\ parse \in {"running", "true", "false"}
  /\ pc \in {"parse", "input", "open", "lift", "graph", "sources", "flatten", "stack",
              "fopen", "output", "ir", "close", "error"}
  /\ status \in {"running", "0", "-1", "aborted", "crashed", "overrun"}
  /\ view = NoView \/ view \in [address: Nat, data: Int, size: Nat]
  /\ view = NoView => off = 0 /\ blocks = << >>
  /\ view # NoView => off \in 0 .. view.size
  /\ DOMAIN mem = {"persistent", "temporary"}
  /\ \A a \in DOMAIN mem : DOMAIN mem[a] = {"live", "stale"}
  /\ colours \subseteq Schemes /\ drawn \in 0 .. Len(blocks)
  /\ tree \subseteq {blocks[k].address : k \in DOMAIN blocks}
  /\ output \subseteq {"cfg", "max_stack", "reg_src", "ir"} \X DOMAIN blocks

(* Nothing is read that something else may have been laid over since it    *)
(* was written: the bytes while they are lifted, nodes and instructions    *)
(* until they are printed, the tree, the rows of the analyses (which are   *)
(* printed after their memory was given back) and the cached colours.  Of  *)
(* src/src/analyze-max-stack.c:131 and src/src/dump-ir.c:319-351.          *)
IntactWhenRead ==
  LET later == {"graph", "sources", "flatten", "stack", "fopen", "output", "ir"}
  IN  /\ At("lift") => Holds("persistent", <<"data">>) /\ Holds("persistent", <<"context">>)
      /\ status = "running" /\ pc \in later =>
           \A k \in DOMAIN blocks : /\ Holds("persistent", <<"node", blocks[k].address>>)
                                    /\ Holds("persistent", <<"insts", blocks[k].list>>)
      /\ At("flatten") => Holds("persistent", <<"tree">>)
      /\ At("output") => \A c \in colours : Holds("persistent", <<"colour", c>>)
      /\ At("output") /\ drawn < Len(blocks) =>
           LET a == blocks[drawn + 1].address
           IN  /\ value["analyze_max_stack"] => Holds("temporary", <<"rows", a>>)
               /\ a \in tree => Holds("temporary", <<"marks", a>>) /\ Holds("persistent", <<"tree">>)

(* A file whose sections are in it, and whose functions are in a section.  *)
(* Nothing in the code looks for either.                                   *)
IsWhole(f) ==
  \A k \in DOMAIN f.sections : LET sh == f.sections[k] IN
    /\ sh.type = "SHT_PROGBITS" => sh.offset + sh.size <= f.size
    /\ \A j \in DOMAIN sh.symbols : LET s == sh.symbols[j] IN
         s.type \in {"STT_FUNC", "STT_NOTYPE"} /\ s.size > 0 =>
           LET home == Header(f, s.shndx)
           IN  /\ home.type = "SHT_PROGBITS"
               /\ home.addr <= s.value /\ s.value + s.size <= home.addr + home.size

(* All bytes given to the lifter were read from the input, which for an    *)
(* ELF file (one that is whole) rests on three numbers of the file that    *)
(* are added up.  Of src/src/loadelf.c:235-258, src/src/util.h:21-62 and   *)
(* src/src/dump-ir.c:198-205.                                              *)
BytesRead ==
  At("lift") /\ view.size > 0 =>
    /\ view.data >= 0
    /\ view.data + view.size <= IF value["file"] = NULL THEN Min({world.stdin, MaxStdin})
                                                        ELSE InputFile.size

(* Some section has the type and the name.                                 *)
Has(f, type, name) ==
  \E k \in DOMAIN f.sections : f.sections[k].type = type /\ f.sections[k].name = name

(* An ELF file of a machine that the lifter knows.                         *)
Loadable(f) ==
  /\ f # NoFile
  /\ f.magic
  /\ \E name \in DOMAIN (IF f.data = "ELFDATA2LSB" THEN LittleEndian ELSE BigEndian) :
       f.machine = IF f.data = "ELFDATA2LSB" THEN <<EM[name] % 256, EM[name] \div 256>>
                                             ELSE <<EM[name] \div 256, EM[name] % 256>>
  /\ f.sections[f.shstrndx + 1].type = "SHT_STRTAB"

(* A function of that name in its table of symbols, the first (an ELF file *)
(* should have no other), and a table of names.                            *)
HasFunction(f, name) ==
  /\ Has(f, "SHT_STRTAB", ".strtab")
  /\ \E k \in DOMAIN f.sections :
       LET sh == f.sections[k]
       IN  /\ sh.type = "SHT_SYMTAB" /\ sh.name = ".symtab"
           /\ \A before \in 1 .. (k - 1) :
                LET other == f.sections[before]
                IN  other.type # "SHT_SYMTAB" \/ other.name # ".symtab"
           /\ \E j \in DOMAIN sh.symbols :
                /\ sh.symbols[j].name = name
                /\ sh.symbols[j].type \in {"STT_FUNC", "STT_NOTYPE"}

(* What the command line selects exists: as the help text has it, a region *)
(* of a file, an ELF function or section, or bytes from stdin.             *)
Selected ==
  CASE value["file"] = NULL -> value["bytes"] /\ value["arch_name"] \in Archs
    [] Region   -> /\ value["arch_name"] \in Archs
                   /\ InputFile # NoFile
                   /\ Position(value["offset"]) + value["size"] <= InputFile.size
    [] Function -> Loadable(InputFile) /\ HasFunction(InputFile, value["function"])
    [] Section  -> Loadable(InputFile) /\ Has(InputFile, "SHT_PROGBITS", value["section"])
    [] OTHER    -> FALSE

(* Parsing ends well, and there is something to lift.                      *)
Servable == parse = "true" /\ ~value["help"] /\ Selected

(* What the options ask main to print of a block: each is given alone, and *)
(* the help text ties none to another (src/src/dump-ir.c:95-98).           *)
Asked ==
  {form \in {"cfg", "max_stack", "reg_src", "ir"} :
     \/ form = "cfg" /\ value["dump_cfg"] # NULL
     \/ form = "max_stack" /\ value["analyze_max_stack"]
     \/ form = "reg_src" /\ request.present
     \/ form = "ir" /\ value["dump_ir"]}

(* What main prints of it.  A graph takes the place of the IR that         *)
(* --dump-ir asks for, and the analyses are made for a graph only: one is  *)
(* left out, although --analyze-max-stack is `dumped along with CFG/IR'    *)
(* (src/src/dump-ir.c:97), when there is nothing but the IR to show it in. *)
Printed == Asked \ (IF value["dump_cfg"] # NULL THEN {"ir"} ELSE {"max_stack", "reg_src"})

(* The exit status can be relied on.  It is 0 only when what was selected  *)
(* exists and the output has of all of its blocks what main prints of the  *)
(* options given (Printed), no more and no less: that is not always all    *)
(* that was asked for.  And a run with such input does not fail, unless    *)
(* over the file to write to or a question about sources.  Of              *)
(* src/src/dump-ir.c:104-176 and src/src/dump-ir.c:319-385.                *)
ExitStatusTells ==
  LET graph == value["dump_cfg"] # NULL
  IN  /\ status = "0" =>
           /\ Servable
           /\ graph => world.writable
           /\ output = Printed \X DOMAIN blocks
      /\ status \notin {"running", "0"} /\ Servable =>
           graph /\ (~world.writable \/ request.present)

(* Every run comes to an end.                                              *)
Terminates == <>(status # "running")

(* `--function' is to `translate ELF function' (src/src/dump-ir.c:92): the *)
(* bytes lifted at an address are those that the file has for it.          *)
LiftsItsBytes ==
  At("lift") /\ Function /\ view.size > 0 =>
    \E k \in DOMAIN InputFile.sections : LET sh == InputFile.sections[k] IN
      /\ sh.type = "SHT_PROGBITS"
      /\ view.address \in sh.addr .. (sh.addr + sh.size - 1)
      /\ view.data - sh.offset = view.address - sh.addr
=============================================================================
