# A TLA+ development of libtcg-examples

`dump-ir` (src/src) lifts a piece of machine code with libtcg, optionally
builds its control-flow graph and runs two static analyses over it, and prints
IR or a DOT graph. It is one sequential program without threads, signals or
persistent state. What is hard in it is not concurrency but *mutation under a
walk*: a worklist that feeds itself, a block chain that is split while it is
traversed, an arena whose markers are nested across functions, a search that
calls itself through a predicate, results that are read after their memory was
given back. Those are what this project models, checks with TLC and proves with
TLAPS.

## Inventory

| Component | Source | State | Operations | Talks to |
|---|---|---|---|---|
| Stack allocator | `stack_alloc.c/.h` | list of blocks, `last`, `used` of each | `stack_alloc[_zero]`, `stack_marker`, `stack_size`, `stack_reset`, `stack_reset_to_marker`, `stack_free_all` | everything; libtcg gets the persistent arena as its allocator |
| Worklist queues | `analyze-max-stack.c:11-32`, `analyze-reg-src.c:62-83` | ring buffer: `len`, `used`, `bottom`, `top` | push, pop | the two analyses |
| Maximum-stack analysis | `analyze-max-stack.c` | worklist, `stack_state` rows of each block | transfer, combine, final pass | graph, address folding, arena; DOT output reads the rows |
| CFG construction | `dump-ir.c:41-65, 195-318`, lookups in `common.c` | chain of `TbNode`, their edges | lift, scan, add edge, split, link | lifter, arena; both analyses read the graph |
| Register-source analysis | `analyze-reg-src.c` | queue of searches, tree of `SrcInfo` | `find_sources` | graph, folding (mutually recursive), arena |
| Address folding | `common.c:62-212` | none of its own, recursion over a `SrcInfo` tree | `fold_add_sub`, `fold_ld_st_stack_pointer`, `is_stack_{ld,st}_fancy` | register-source analysis |
| Driver | `dump-ir.c` | options, view, two arenas | mode selection, error paths, order of the analyses | all |
| Command line | `cmdline.c/.h` | `parsed` flags and option values | `parse_options` | driver |
| ELF loading | `loadelf.c/.h` | file buffer, section table | `elf_data`, `elf_section`, `elf_function` | driver |
| Reading bytes | `util.h` | a buffer in the persistent arena: a region of a file, a whole file, or 1024 bytes of stdin | `read_bytes_from_*` | driver, ELF loading |
| DOT output | `graphviz.c/.h`, `color.h` | cache of colour strings | `graphviz_output` | reads the graph and the results |
| libtcg | git submodule, not in the repository | - | `translate_block`, dumps | external |
| ELF header, build | `linux-headers/elf.h`, `makefile` | - | - | vendored data, build |

Which behaviours are hard, and what makes a component correct:

- *Stack allocator.* Live allocations never overlap; a reset ends exactly what
  was allocated since its marker, in whichever blocks it landed; no byte leaks.
- *Queues.* First in first out through any number of wraps; no slot is read
  that was not written; a full push and an empty pop stop the program.
- *Maximum-stack analysis.* The worklist runs dry; nothing stale is left; the
  result is the least solution of the data-flow equations, not just a solution.
- *CFG construction.* Splitting a block, possibly the one being processed,
  keeps the chain ordered, loses no instruction, keeps successor and
  predecessor lists in step, and leaves every edge at the right half.
- *Register-source analysis.* Every definition that reaches the operand is in
  the tree once per path; the nested searches end; queue and tree stay bounded.
- *Folding.* The offset is the deepest that some path gives.
- *Driver.* Results outlive their arenas' resets until they are printed; the exit
  status tells whether what was selected is in the output, and the options alone
  in which forms.
- *Command line.* No word is used for two options, and the first mention of an
  option decides.
- *ELF loading.* A failure leaves no half-filled result; the bytes found are in
  the file, and are those of the function asked for.
- *DOT output.* It is the graph that was built, and it marks the instructions
  that were found.

The hazards, each at its line with the property that covers it or the reason
why none does, are listed in `PROJECT.json`.

## Modules

| Module | What it is |
|---|---|
| `MaxStack` | `compute_max_stack_size` and its transfer function |
| `MCMaxStack` | all graphs of three blocks |
| `MaxStackProofs` | inductive invariant, soundness, monotony, least solution, the closed form of the result |
| `FifoQueue` | abstract: what the analyses expect of a queue |
| `RingQueue` | the ring buffer; instantiates `FifoQueue` with a refinement mapping |
| `RingQueueProofs` | type correctness and the refinement |
| `Arena` | abstract: what everybody expects of a `StackAllocator` |
| `StackAlloc` | the block list; instantiates `Arena` with a refinement mapping |
| `StackAllocProofs` | layout invariant, the refinement, and the accounting |
| `CfgBuild` | the lifting loop and the construction of the graph |
| `MCCfgBuild` | lifted views for TLC |
| `CfgBuildProofs` | invariant of the graph under additions and splits, of the walk over it, and the printed graph |
| `Fold` | lifted code as the backward analysis sees it, and the fold of a tree of sources |
| `RegSrc` | `find_sources` and the nested calls that `is_stack_{ld,st}_fancy` make |
| `Graphviz` | `flatten_sources` and the rows that the DOT output marks; extends `RegSrc` |
| `RegSrcLemmas` | trees, paths without a definition, the operations on a frame, folds against executions |
| `RegSrcProofs` | what a search owes and what its entries may not have seen, what calls are made for, the marked rows, offsets, and the way from a load to its stores; extends `RegSrcLemmas` and `Graphviz` |
| `MCRegSrc` | small programs, and which of them have addresses that depend on themselves |
| `CmdLine` | `parse_options` |
| `ElfLoad` | `elf_data`, `elf_section`, `elf_function` as functions of a file |
| `Driver` | `main` from the command line to the exit status; extends `CmdLine` and `ElfLoad` |
| `DriverProofs` | the command line, the memory of `main`, what is lifted, the exit status |
| `MCDriver` | files, words and command lines for TLC |
| `NumberLemmas` | least and greatest numbers of a set, which also stand for induction |

The modules that share data compose by extension: `RegSrc` extends `Fold`,
`Graphviz` extends `RegSrc`, `Driver` extends `CmdLine` and `ElfLoad`. Those that
share only calls compose by contract: the analyses use a queue as `FifoQueue`
says, and `Driver` uses two arenas as `Arena` says; `RingQueue` and `StackAlloc`
are shown to implement these.

### MaxStack

`pc` names the loop of `compute_max_stack_size` that runs: `count` (lines
78-80), `init` (84-95), `drain` (97), `transfer` (41-67), `combine` (110-122)
and `final` (125-128). `node` is the loop variable of the loops over the chain,
`ins` that of the transfer function, `acc` its `new_state`; `src`, `dst` are
the popped edge. `stackState[m][k]` is `n->stack_state[k - 1]`, with a value
`Uninit` for the rows that `stack_alloc` leaves unwritten. One iteration of the
transfer function is one action, so a block that is its own successor, or an
edge that is in the queue many times, meets the rows in every intermediate
state. The graph and the instructions are data of the input: an instruction
tells what the transfer function distinguishes (a stack load or store and its
offset, a helper call that may or may not write globals, a write to the pc that
does or does not leave the code). Offsets are never negative because the fold
returns an absolute value (`common.c:168`). `mfp_push` is used as the FIFO that
`RingQueue` is shown to implement; when it would be pushed full, `pc` becomes
`aborted`. `Cells` is what the output prints of a row: it tests the load
component for `STACK_SIZE_TOP` before it prints the *store* component
(`graphviz.c:144`), which is right only because the two always become unknown
together. `CellsTell` says so of every row of a finished analysis. `Reference` is
the result worked out without the algorithm, over all ways through the graph, and
`ExactWhenDone` compares every row of a finished analysis with it.

### RingQueue, FifoQueue

`slots` is `edges` or `srcs`. An assertion that fails is an action to the status
`aborted`. The mapping takes the `used` slots from `bottom` on, around the ring.
Length 0 is included: it is what a graph without edges gives.

### StackAlloc, Arena

A block is a pair of `size` and `used`, the list a sequence, pointers to blocks
positions in it. `stack_alloc` is two actions, by whether a block of the list
can take the request (the first from `last` on) or a new one is made. Each
operation first initialises the list, as in the source. `live` and the `depth`
of a marker are history: what the caller holds, which the C code does not
record. A marker can be reset to several times, and a reset to an older marker
ends the life of younger ones; the program uses markers in this way only. The
mapping to `Arena` forgets the blocks and keeps the set of cells of each live
allocation and, for each marker, how many were live. `Arena` lets the allocator
choose any cells that are free, so the refinement says that nothing overlaps,
nothing moves, and a reset ends what it should. `NothingLeaks` is what `Arena`
cannot say: the cells that the blocks count as used (`InUse`, what `stack_size`
adds up) are those of the live allocations, one for one.

### CfgBuild

The input is what `translate_block` returns call by call. The lifter is
external; `IsView` states what is assumed of it: a block has a size, its
instructions are in its range in the order of their addresses, and only the last
of them leaves it, while others may store the pc. A lifted block counts its
instructions from its own start; `Lifter` gives them addresses. `nodes` holds
the `TbNode`s in order of allocation; pointers are numbers, `root` is 1 and NULL
is 0. `Visit` is the head of the walk, `Scan` the loop over the ops of one guest
instruction (234-248), `Scanned` the end of that loop; `JumpOut`, `JumpToBlock`
and `JumpInto` are the three ways an iteration over `jumps` ends, `Link` is the
fallthrough rule and the step to the next block. Positions in a block count
guest instructions instead of TCG ops, since blocks are only cut at
`insn_start`. `find_tb_containing` returns the first block of the chain that has
the address; the model takes any block that has it, and the invariant `Tiled`
shows that there is only one. The assertions of `add_edge` lead to the state
`aborted`; more than 16 jumps in a block lead to `overrun`, since the code then
writes beyond an array. The index `src_instruction` of an edge is left out: the
loop that filters by it (280-290) is followed by `num_succ = 0` (292), and
nothing else in the program reads it. `Walk`, `DotNodes` and `DotEdges` are the
two loops of `graphviz_output` over the finished graph, what is printed told by
where in the loop it is; `DotIsGraph` says that the loops end, that every block
and every edge of the graph is printed once, and nothing else.

### RegSrc, Fold

`frames` is the stack of calls of `find_sources`, the newest last: a search
that meets a load or a store calls `is_stack_ld_fancy` or `is_stack_st_fancy`,
which call `find_sources` for the address and fold what it returns. A frame
has the locals of a call: `queue`, the popped entry `src`, the loop index `i`,
and the tree under construction as the sequence of its nodes (`SrcInfo`) in the
order they are made, children by their numbers. `pc` is `pop` at the head of the
loop, `scan` in the inner loop (131-155), `found` and `preds` in the branches
after it (157-223, 224-237), `store` and `load` while a nested call runs
(146 and 174). `ReturnToStore` and `ReturnToLoad` are the ends of such calls.
Positions are those of the source; 0 is the `insn_start` of a block, which has no
operands and which the inner loop never looks at. `MaxCalls` stands for the
memory of the process: a nested call takes C stack and an array of 512 entries.
`status` tells how the process ended: `aborted` at an assertion, `overrun` when a
branch would be written past its allocation, `exhausted` when no further call
fits. The fold is a recursive function over the tree. `has_loop` is left out:
nothing reads it.

The properties compare the search with definitions that know the program alone:
`ReachingDefs` (the nearest definition in the block, or the last ones of blocks
that lead to it through blocks without one), and an execution of the lifted
code along paths, with the stack pointer 0 on entry: `Execute` is one
instruction, `Within` a block, `Run` a path, and `Values` what a position finds. `SearchExact` holds in any
graph; `TreeExact`, `FoldSound` and `StoresFound` are about graphs without loops,
because a source inherits the visited blocks of the search that found it
(line 219), and deeper levels may miss what arrives over a second round.
`FoldSound` also assumes sums and differences with a constant on the right, and
addresses that are not constants (`Plain`): the fold joins the right side with
MIN from 0 like the left, so `sub sp, t` with `t = 8` would fold to the offset of
`sp` itself, and a constant address has no source and folds to 0. `StoresFound`
also assumes that every block is reached, and addresses of loads and stores that
are the same on all paths, not those of the stack pointer on entry, with no temp
above it (`Regular`): above it every offset is clamped to 0, and 0 is also what an
address without a source folds to.
`Grounded` says of a program that no address depends on itself: for each load or
store there is a set of instructions that has all that its address is made from
(`Feed`), and not the load or store.

### Graphviz

A tree names one instruction many times, as the source of different operands
over different paths, but `flatten_sources` keeps one `SrcInfo` a row, the one
it stores last (`dump-ir.c:25-39`). `Flattened` is the order in which it stores
them, `reg_src_info` what is left; `Background` and `Bold` are how
`graphviz_output` picks the operands it sets off (`graphviz.c:106-172, 219`).
`RowsTell` relates the output to the finished tree: each instruction of it has a
marked row, whichever of its records was kept, and in the row of every one but
the root the bold operands are exactly these (`Tells`): none for a store; else one output,
which also gives the row its background and whose temp some operand in the tree
takes from this instruction, and with it the input in the same place, if there
is one, since `graphviz.c:264` compares `op_index` with the inputs as line 219
does with the outputs. That input is allowed, not approved: a reader of the
picture may take it for part of the answer, but nothing in the repository says
what bold means for an input. The module
adds operators and the property to `RegSrc`, and no steps: all of this is a
function of the tree.

### CmdLine, ElfLoad, Driver

`Driver` is `main`. `pc` names the part of it that runs:

| `pc` | Actions | Code |
|---|---|---|
| `parse` | `Parse` (one word of `parse_options`: `Named`, `Unknown`, `Positional`, `TooMany`, `ParseEnd`), `Parsed` | `cmdline.c`, `dump-ir.c:70-117` |
| `input` | `TakeRegion`, `TakeFunction`, `TakeSection`, `TakeStdin`, `NothingToTake` | the choice of what to lift |
| `open`, `lift` | `Open` (context, Thumb), `Lift` (one `translate_block`), `Lifted` | lifting loop |
| `graph` | `Graph` | construction, here no block cut or one |
| `sources`, `flatten` | `Sources`, `NoSources`, `Flatten` | `--analyze-reg-src` |
| `stack` | `MaxStackSize`, `NoMaxStackSize` | `--analyze-max-stack` |
| `fopen`, `output` | `OpenDump`, `DrawBlock` (one node), `DrawEdges` | `graphviz_output` |
| `ir` | `PrintIr` | IR dump |
| `close`, `error` | `Close`, `Error` | the two ends of `main`; `status` is the exit status |

`status` also says how else the process ends: `aborted` at an assertion,
`crashed` where a NULL pointer is followed or `free` is given memory that is not
its own, `overrun` where an array is read beyond its end. Such an outcome is
modelled as the end of the run; what a build that survives it would do is not.

In `CmdLine` an option is known by the variable that it points to. A word is a
string, and what the C library makes of it (`strtoul`) is data of the input.
What the code makes of the result is in `Converted`: a number out of range is
reported and kept, the parts of a register tuple are cut to the width of their
fields, a refused tuple leaves the variable alone, and nothing of this stops the
parsing.

In `ElfLoad` a file is the fields that `loadelf.c` reads. The structures of 32
and 64 bits differ in layout only and are one. `e_machine`, on which the choice
of the architecture rests, is its two bytes, read on a host of either byte order
(`HOST_LE`) and turned by `bswap16`; the other fields have their value in the
byte order of the file. A result has an end, since some failures do not return:
a missing string table of section names (an assertion) and a machine that libtcg
does not have (`abort`) stop the process, the error label of `elf_data` passes a
variable of the caller's frame to `free`, and a table of symbols without one of strings
makes `elf_function` read names at address 0.

The memory of `Driver` is two arenas in which an allocation is known by what was
put there (a block's node, its rows, a colour's string, ...). A reset makes
allocations *stale*; they stay readable until the next allocation, which may be
laid over any of them. That is the weakest use of the contract of `Arena`, and
what `graphviz_output` depends on: it prints the rows of the stack analysis,
which were given back at `analyze-max-stack.c:131`, while it makes strings for
colours. It is right only because these strings come from the *other* arena
(`IntactWhenRead`; making them in the temporary one breaks it). Graph
construction and the analyses are modelled in modules of their own; `Driver` has
what they do to the arenas, and takes any set of blocks with the searched one in
it for the tree.

`output` records what has been printed: pairs of a form (`ir`, `cfg`, and what the
analyses add to a graph, `max_stack` and `reg_src`) and a block. `ExitStatusTells`
goes both ways: status 0 only when what the command line selects exists and the
output has, of all blocks of it, exactly the forms in `Printed`; and a run with
such input fails only over the file to write or over a question about sources.
`Printed` is what the options ask for (`Asked`) less what `main` leaves out: the IR
when there is a graph, both analyses when there is none. So status 0 does not
mean that all that was asked for is there; findings 7 and 8 are the two cases
that contradict the help text. That `--analyze-reg-src` does nothing without
`--dump-cfg` is a third omission, about which the help text is silent.
`BytesRead` says that the lifter is given only bytes that came from the input:
for a function this rests on three numbers of the file that are added up, and it
is about views with bytes in them. `EachWordOnce` asks for an assignment of words
to options: each option that is set owes this to words of its own, so that no
word is both the value of an option and a file. Its table goes through the
options one by one and keeps the sets of words that those so far can have used.

## Runs

| Run | Configuration | Shows |
|---|---|---|
| `max_stack` | 1373 programs, 98 955 states | the analysis ends, never aborts, never computes with an unwritten row; its result solves the equations and is the deepest access over all ways; entries only rise; the output shows each component as it is |
| `ring_queue` | lengths 0-3, 3 elements | indices stay in range; it is a FIFO |
| `stack_alloc` | pages of 3 bytes, 4 sizes, 4 blocks, 4 allocations, 2 markers; 214 342 states | layout, accounting and refinement of `Arena` |
| `cfg_build` | 7153 views, 190 865 states | chain, edges and code survive every splitting; every transfer has its edge; the DOT output is the graph; the walk ends |
| `cfg_build_loop` | one view | violation: a fallthrough edge after an unconditional jump |
| `cfg_build_edges` | one view of 257 blocks | violation: the assertion on the number of predecessors |
| `reg_src` | 4 blocks, three graphs, 108 435 states | the search returns, finds exactly what reaches, folds to sound offsets, leads loads to the right stores; the output marks what was found |
| `reg_src_loop` | one program | violation: a contributor over two rounds of a loop is missed |
| `reg_src_walk` | one program | violation: a load that defines its own address recurses without end |
| `reg_src_branches` | one program of 13 blocks | violation: a ninth branch of an operand |
| `program` | 2389 command lines over six files and stdin, two worlds; 144 850 states | no word is used twice, the first mention decides; no result is read from memory that was given away; only bytes that were read are lifted; the exit status can be relied on; every run ends |
| `program_thumb` | two functions of one file | violation: Thumb code is lifted from one byte behind its start |

Why the bounds are enough. Three blocks with up to two successors contain every
small shape that matters to the worklist: self-loops, nested and disjoint
cycles, diamonds, unreachable blocks, blocks without predecessors. Three offsets
and the unknown value separate the two components of a state and their order.
Queue length 3 wraps both indices several times against each other. Pages of
three bytes with requests of 0, 1, 3 and 4 take each path of rounding and
placement, and four blocks let an allocation pass over a block that is too small
and come back to it after a reset. The views of `MCCfgBuild` let a block be
split before, while and after it is processed, by itself and by others, more
than once, let jumps lead between two instructions, out of the view and into
bytes that did not decode, and put the two writes of a conditional jump in both
orders. `MaxEdges` and `MaxJumps` have the sizes of the source.
The programs of `MCRegSrc` put stack adjustments, two slots, copies, a load
through a pointer and definitions without operands into a diamond, a loop of two
blocks and a block that is its own predecessor, and search from every operand of
the last block; nested calls go four deep. In `reg_src` only programs
in which no address depends on itself are taken (`Grounded`), since the search
does not end in others. `MaxBranches` has the size of the source; `QueueLen` is
64 there, larger than any program fills, and 512 in the violation runs.
`MaxCalls` is 6; `reg_src_walk` fails for any value of it, since every call
starts the same one again.
The command lines of `MCDriver` are every line of up to three of nine words
(names with and without values, numbers, one out of range, a file, a name that
does not exist) and of four of five words, so that every order, repetition and
omission around a value occurs; and every way to select input with every way to
ask for output, in both orders. The six files are an ARM program with functions
of ARM and Thumb code, an import and a variable named like a function; one
without symbols; one whose symbols have no names; one for a machine libtcg does
not have; one with debug information only; and one that is no ELF file. A world
is what is at stdin and whether the DOT file can be opened; `MaxStdin` stands for
the 1024 bytes that are read, and stdin has more in one world and less than an
instruction in the other. `InsnSize` and `MaxInsns` give blocks of one
and two instructions, so that there is something to cut; `ULONG_MAX` = 255 puts
the largest number and `LONG_MAX` between the addresses used; `OffsetRange` = 16
(for 2^16) and `OperandRange` = 256 let a tuple be cut to its fields. `Archs`
are the names that `libtcg_arch_from_str` knows here.

Fairness. `FairSpec` (`Spec` in `RegSrc` and `Driver`) is weak fairness of the whole next-state relation: the code
is one thread that never waits, so the only thing assumed is that it keeps
running. `StackAlloc` and `RingQueue` are libraries whose callers decide what
comes next; nothing is assumed about them and no liveness is stated. Deadlock
is not checked where the modelled function returns or the program stops.

## Findings

1. `num_exits` is counted up without being reset and is copied when a block is
   split (`dump-ir.c:246, 269`). The tail of a block that jumps into its own
   middle has its exits counted twice, looks as if it had an exit more than
   jumps, and gets a `FALLTHROUGH` edge to a block it cannot reach
   (`cfg_build_loop`). The analyses over the graph stay sound but see paths
   that do not exist.
2. `dump-ir.c:58` asserts that a block has fewer than 256 predecessors; a
   function with 257 jumps to one place violates it (`cfg_build_edges`).
3. `--analyze-reg-src` is documented to `find instructions that contribute to the
   value' (`dump-ir.c:98`). A definition that contributes through two rounds of a
   loop is not found, because the visited set is inherited
   (`analyze-reg-src.c:219`; `reg_src_loop`).
4. Under the same line, a load whose address it defines itself around a loop
   (`y = y->next`) makes `is_stack_ld_fancy` and `find_sources` call each other
   without end (`common.c:186`; `reg_src_walk`). `compute_max_stack_size` uses
   the same predicates, so both analyses are concerned.
5. `SRC_INFO_MAX_BRANCHES_PER_CHILD` is 8 (`analyze-reg-src.h:5`), and
   `analyze-reg-src.c:166` does not check it. A definition gets a branch for each
   path to its use, so four conditional statements in a row are enough
   (`reg_src_branches`).
6. `--function` is documented to `translate ELF function' (`dump-ir.c:92`). The
   value of a symbol for Thumb code is odd. `dump-ir.c:190-193` clears bit 0 of
   the address, but the bytes were located with the odd value before
   (`loadelf.c:256-257`): what is lifted as the function is what lies one byte
   behind, up to one byte past its end (`program_thumb`).
7. `--analyze-max-stack` is documented as `dumped along with CFG/IR'
   (`dump-ir.c:97`). The analysis is in the branch of `--dump-cfg`
   (`dump-ir.c:338`): with `-m -i` the bare IR is printed, nothing is analysed, and
   the exit status is 0.
8. `--dump-ir` is documented to `dump lifted IR to stdout' (`dump-ir.c:95`). The
   dump is in an `else if' behind `--dump-cfg` (`dump-ir.c:354`): with `-i -c out.dot`
   nothing is written to stdout, and the exit status is 0.

The first six are shown by runs that violate a property. The last two are shown
by `program`, which passes: `ExitStatusTells` says to the block what is in the
output, with both omissions spelled out in `Printed`, and the run has lines of
both kinds that end with status 0. Reading `Printed` without what it takes off
`Asked` gives the help text's version, which these lines break.

Two things that are no contradiction to anything the repository says, but that
a reader of the models will notice. `stack_alloc.c:9` names a least size of
blocks, which `block_alloc` does not keep: a small request that does not fit
gets a block of exactly its size. And `fseek` takes a `long` and its result is
not looked at (`util.h:51`): an `--offset` above `LONG_MAX` reads the start of
the file (`Position` in `Driver`).

## Proofs

All theorems hold for every value of the constants, under the assumptions named
in the modules, which TLC evaluates in every run (`MaxStackAssumption`,
`RingQueueAssumption`, `StackAllocAssumption`, `CfgBuildAssumption`,
`FoldAssumption`, `RegSrcAssumption`, `CmdLineAssumption`, `WordsAssumption`,
`ElfLoadAssumption`, `DriverAssumption`). They give the constants their types. Where
they say more, it is this: `MaxStackAssumption` that a block starts with an
`insn_start`, which accesses nothing; `CfgBuildAssumption` the contract of the
lifter, `IsView`; `RegSrcAssumption` that an opcode has its operands and
writes to no constant (`HasOperands`) and that a block is in a list of predecessors once, which is
`Mirror` of `CfgBuild`; `CmdLineAssumption` that each option points to a variable
of its own, as the tables of `dump-ir.c:84-102` show; `WordsAssumption` that what
`strtoul` returns fits an unsigned long; `DriverAssumption` that those tables are
the options, and that the files are such as `IsElf` describes.

The prover has no induction over a property of one's own. Where a proof needs
one, it takes the least counterexample of a set of numbers (`NatMin` in
`NumberLemmas`), on the length of a path, of a walk or of a table; a recursive
function exists because a shortest table without one would have one.

*MaxStack.* `SolvedWhenDone` is not inductive: in the middle of the analysis
rows are stale. The inductive invariant `IInv` adds what makes staleness
harmless: every edge whose destination does not yet cover its source's last
result is in the queue, or is the one being processed; while the transfer
function runs over a block, its rows before `ins` are consistent with its
entry; in the final pass, the rows of the blocks already visited are a
solution. `Solved` follows when the queue is empty. `EntriesOnlyRise` needs only
the types. `LeastSolution` is a second induction: for any table `T` that solves
the equations of the program, no row, no `acc` and no entry is ever above `T`.
With `Solved` this says the result is the least solution. `Exact` goes on from
there: `Reference`, the deepest access over all ways that lead to a row, solves
the equations as well, so no row is above it; and no row is below it, by
induction on the length of a way. `CellsAreTrue` adds the invariant that both
components of a row become unknown together, without which the output would call
a store known because the load is.

*RingQueue.* The invariant relates `used` to the indices: `top` is `used` slots
ahead of `bottom`. `Refines` shows that a push appends and a pop takes the head
of the mapped sequence; the work is arithmetic modulo `len`.

*StackAlloc.* `Layout` is the inductive invariant: live allocations lie one
after the other in the order they were made (block first, then offset), blocks
behind `last` are empty, and each marker splits the live allocations at its
depth. Order rather than disjointness is what is inductive: that an allocation
starting at the `used` of its block overlaps nothing follows from all earlier
ones ending before it, and that a reset keeps the right ones from the marker's
split. `Refines` then maps each operation to a step of `Arena`. `NoByteLost` needs
that every used cell is in some live allocation (`Covered`); with the layout, which
says the converse, it survives a reset because what lies before the marker in its
block is what the marker's split keeps.

*CfgBuild.* The two operations on a graph are described field by field first
(`IsAdded` for `add_edge`, `IsSplit` for the cut), so that the record updates of
the model are looked at once. `GraphInv` is what every graph keeps, and each part
is shown to survive both operations: `IsGraph` (no pointer dangles), `TiledIn`
(the successor in the chain is the next block by address, and a block's
instructions are in its range), `Silent` (only the last instruction of a block
leaves it), `MirrorIn` (both edge lists tell the same edges), `FallsToNext`
(fallthrough edges lead to the next block), `ExitsEdge` (a block that counts
exits although its last instruction has none has an edge to the next block; it is
needed because tails inherit `num_exits`, and makes the superfluous edge of the
first finding harmless to everything proved here). `TransfersCovered` says
something of a finished graph only. Its invariant is about the walk: all blocks in
front of the current one have the edges they need (`WalkIn`), and of the current
one, what was scanned, which jumps were handled and whether it was linked
(`ScanIn`, `JumpsIn`, `LinkIn`). The case that matters is the cut of a block the
walk has passed or is at: the tail takes over the edges of the head, and edges
to the old block stay right because only its start is ever the end of one. A
tail cut from a passed block is passed as well; a tail of the current block
comes behind it and is walked over later. `CodeKept` follows from `TiledIn` and
the description of the cut. `DotShowsGraph` is about the walk over the finished
chain. Addresses rise along it, so it meets no block twice, and since there are
more places in `Walk` than blocks, it ends; it steps over no block because
`TiledIn` leaves no address between a block and its next; and two edges with the
same names are one edge, by `MirrorIn`.

*RegSrc.* A search is right when it ends, so the invariant of a call is about
what is *owed*: each definition that reaches the operand of an entry has been
recorded, or there is an entry in the queue, or the one at work, from whose place
a path leads to it that defines nothing on the way and goes through no block the
entry has seen. A block that is seen was, or will be, scanned for this operand,
so a path through it can be cut short; that is why `SearchIsExact` needs no
assumption on the graph. `DefinitionsOnly` is the other half: an entry stands
where control comes to its operand without a definition in between, so what it
finds reaches it, and what is stored in a row stores for it. `TreeIsExact` is
about the operands deeper in the tree, whose entries inherit the blocks seen on
the way to them. In a graph without loops none of these blocks is on a way back
(`SeenHidesNone`); in others it fails, which is finding 3. Calls of
`find_sources` from within a search are frames of their own and share nothing,
so the invariant is stated of every frame.

A second invariant, `Kin`, says what things were made for: every node but the
root hangs from an operand that it is a source of, a frame searches for one
operand of its root, and a nested call is for the load that its caller has found
last or the store that it has come to. With it, a set that `Feed`s the address
a call is for has in it every node of its tree, and hence the instruction that
the next call is for, whose address it feeds as well. So a call that is made
again, however many calls later, is in every set that feeds its address, which
`Grounded` excludes: that is `SearchesDiffer`. The roots of nested calls are then
different loads and stores, which bounds their number (`NestingIsBounded`) and
the memory (`MemorySuffices`). `RowsAreRight` uses that every node hangs from an
older one: the order of `flatten_sources` reaches it, so its row is marked, and
the record that the row keeps was stored by some node, with the operand it hangs
from; as that names an output of the instruction, or none for a store, the bold
operands are those of its place. `OffsetsAreSound` has two halves. Of the execution: a value of a temp was
there on entry, or an instruction on the way computed it, and this definition
reaches where the value is found (`AllKnown`, along the path). Of the tree: the
fold of a node is no higher than what its instruction computes on any way
(`NodesBound`, from the last node back, since links lead from older to newer
nodes). They meet where `TreeIsExact` says that all definitions that reach an
operand are among its branches: one of these is the one that computed the value.

A third invariant, `Hunts`, follows each load back to its stores. What is wanted of
a load (`Wanted`) is, on each path to it, the last store to its address. At every
moment this store is among the sources of the load, or an entry for the slot is on
the path between the two (`Toward`), or the scan stands at the store (`Reached`);
the exception is the load whose address a nested call is being made for. That an
entry goes past no store that is wanted, and stops at none that is not, depends on
what the nested calls return: an address that all paths agree on must fold to just
this address, and one that is unknown must not fold to it. `OffsetsAreSound` gives one direction. For the
other (`AddressExact`), every definition that reaches an operand arrives there on
some route (`DefinitionArrives`), without loops routes are the paths
(`RouteIsPath`), and then the deepest fold among the branches of an operand, which
the join takes, is a value that some path computes (`NodesExact`); where the paths
agree it is the value. Entries for temps, which the search also keeps in its
queue, are on no trail, and a load has an entry for its slot from the moment its
address is folded, which is where `ReturnToLoadHunts` starts the trails of all
paths at once. From `Hunts` and an empty queue follows `StoresAreFound`.

*Driver.* `FirstMention` needs only what the command line leaves (`CmdInv`): the
positional arguments that were not taken yet are not parsed, because no two
options share a variable. `WordsUsedOnce` carries along where each option was
set: places, one for each option set, with words that are apart and read
(`SharedOut`); collected option by option, they are an entry of the table that
`EachWordOnce` builds. `ReadsIntact` rests on `MemInv`: while `main` runs,
everything that is still to be read is *live* in its arena, whatever the lifter
and the cuts make of the chain, but for the rows of the stack analysis. Those are
stale from `MaxStackSize` on, and stay intact because from there on no allocation
is made in the temporary arena. The tree of sources has to be live although
searches of the stack analysis take and give back memory of the same arena.
`StatusTells` follows `output` along: it is empty until the first block is drawn,
has the forms of `Drawing` for the blocks drawn so far, and `Drawing` is `Printed`
when there is a graph (`PrintedIs`). `LiftsWhatWasRead` and `StatusTells` relate the
view to the file: lemmas about
`ElfLoad` say what `elf_section` and `elf_function` return in each of their
outcomes, and the invariant that each `pc` of `main` keeps what led to it. The
first has a hypothesis, `FilesWhole`: the sections of a file lie in it and its
functions in a section. Files of which this is not true can be made, and the
loader does not look; TLC checks that the files of `MCDriver` are whole. The
second has none beyond the assumptions.

What the proofs changed. Two definitions selected with overlapping cases, which
the prover does not take for the first that holds; they say the order now. A
file may have two symbol tables, and what `elf_function` finds is in the first
that has the name. An empty view has no bytes, so where it starts says nothing.
The closed form of the maximum-stack analysis needs blocks that start with an
`insn_start`, since the first row of a block stands for nothing else.

The definition of an execution was one fold over a path, and is a function over
positions and one over blocks now, whose values at two places can be compared;
a constant is nothing that an instruction writes (`HasOperands`), which the fold
takes for granted when it looks at constants only where no source was found.
`Regular` had said nothing of blocks that no path reaches. The search comes past
them as it does past others: with a predecessor that is never executed and moves a
temp down the stack, an address made from this temp folds deeper than it is on any
path, and a load from it is given the wrong slot. The blocks are now reached, since
`StoresFound` is about what the code does when it runs.

Only model-checked: that the searches and the analysis end (`Terminates`), which
needs fairness. Liveness, `ENABLED`, induction over data and recursive operators
are beyond the proof system used here. The runs that expect a violation are about
single programs and graphs, and have no theorem.

## Not modelled

- *libtcg* is a submodule that is not in this repository. It appears as the
  contract of the lifter (`IsView`, the sizes of the blocks in `Driver`) and as the
  names of architectures. `--optimize`, `--h2tcg` and `--debug` change only what
  it returns or what is printed beside the output.
- *Malformed files.* `loadelf.c` trusts what it reads: files shorter than a
  header, offsets beyond the file, an `sh_entsize` of 0 (the loop over the symbols
  would not advance), section indices that are reserved (absolute symbols), and
  symbols of sections whose bytes are in another file (`SHT_NOBITS`). Nothing in
  the repository says what should happen; `IsElf` leaves them out. Byte swapping of
  fields other than `e_machine` is one function applied alike, and left out.
- *Formats.* Names, markup (the letters `r` and `w` of `insn_start` rows among it), colours and their arithmetic, the text of the IR dump
  and of the help are left out. What is printed of each result, and from which
  memory, is modelled.
- *Memory.* `malloc` failing is modelled where it ends the process in the
  allocator and where a region is read; `round_to_page_size` of a request within
  a page of 2^64 is not.
- *The queue of the maximum-stack analysis* can overflow on graphs in which a block
  with more than ten successors is raised once per predecessor; construction
  gives a block few successors (two, unless its instructions store many constants
  to the pc), so no run is built on such a graph. Nor is one built on a program that
  fills the 512 entries of the queue of `find_sources`. Both ends are in the models
  (`aborted`), and neither hazard is counted as covered.
- The build, and the parts of the vendored ELF header that `loadelf.c` does not use.

What could be added next: the refinement of `FifoQueue` by the queue in a frame of
`RegSrc`.
