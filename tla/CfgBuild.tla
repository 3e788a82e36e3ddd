------------------------------ MODULE CfgBuild ------------------------------
(***************************************************************************)
(* How main() of src/src/dump-ir.c turns a byte view into a control-flow   *)
(* graph.  A first loop lifts the view block by block and chains the       *)
(* blocks; a second walks the chain, collects the jumps of each block and  *)
(* adds edges, splitting a block in two when a jump leads into its middle. *)
(* The split block keeps its place, the tail is a new block after it, and  *)
(* the walk goes on over blocks that it is itself splitting.               *)
(*                                                                         *)
(* The lifter is external: the input is what translate_block returns call  *)
(* by call.  A lifted instruction is a guest instruction with the TCG ops  *)
(* made for it, of which this loop sees the writes to the pc and the       *)
(* exit_tb ops; positions in a block count guest instructions.  Of writes  *)
(* that are not constant only the number matters.  The field               *)
(* src_instruction of an edge is left out: nothing that the loop keeps     *)
(* depends on it (what lines 280-290 filter by it, line 292 drops).        *)
(***************************************************************************)
EXTENDS Integers, Sequences, SequencesExt

CONSTANTS
  Views,        (* the inputs: sequences of lifted translation blocks      *)
  MaxEdges,     (* MAX_EDGES                                               *)
  MaxJumps      (* the length of the array jumps                           *)

(* Where it starts, the constants written to the pc, how often something   *)
(* else is written to it, and the exits.                                   *)
Insn == [at: Nat, pcs: Seq(Nat), indirect: Nat, exits: Nat]
Tb == [size: Nat \ {0}, insns: Seq(Insn)]

(* In a lifted block instructions are counted from its start.  It may be   *)
(* empty, when the bytes do not decode; else its instructions are in its   *)
(* range, in the order of their addresses, and only the last leaves it.    *)
IsView(v) ==
  /\ v \in Seq(Tb)
  /\ \A k \in 1 .. Len(v) :
       LET insns == v[k].insns
       IN  /\ \A j \in 1 .. Len(insns) : insns[j].at < v[k].size
           /\ insns # << >> => insns[1].at = 0
           /\ \A j, l \in 1 .. Len(insns) :
                j < l => insns[j].at < insns[l].at /\ insns[j].exits = 0

(* Lifted at an address, they have addresses of their own.                 *)
Lifter(insns, address) ==
  [j \in 1 .. Len(insns) |-> [insns[j] EXCEPT !.at = address + @]]

ASSUME CfgBuildAssumption ==
  /\ MaxEdges \in Nat \ {0} /\ MaxJumps \in Nat
  /\ \A v \in Views : IsView(v)

VARIABLES
  view,         (* the input, never changed                                *)
  pc,           (* which loop main is in                                   *)
  call,         (* the number of the next call to translate_block          *)
  off,          (* the address it is for                                   *)
  nodes,        (* the TbNodes in order of allocation; a pointer to one is *)
                (* its number, NULL is 0, root is 1                        *)
  n,            (* the node the second loop is at                          *)
  jumps,        (* the constants its instructions write to the pc          *)
  indirect,     (* num_indirect_jumps                                      *)
  i             (* the index into its instructions, then into jumps        *)

vars == <<view, pc, call, off, nodes, n, jumps, indirect, i>>

Ids == 1 .. Len(nodes)

-----------------------------------------------------------------------------
(* The helpers of the loops.                                               *)

Edge(m, type) == [node |-> m, type |-> type]

HasEdge(ns, src, dst) == \E k \in 1 .. Len(ns[src].succ) : ns[src].succ[k].node = dst

(* add_edge: nothing if there is an edge already, whatever its type.       *)
AddEdge(ns, src, dst, type) ==
  IF HasEdge(ns, src, dst) THEN ns
  ELSE [[ns EXCEPT ![src].succ = Append(@, Edge(dst, type))]
           EXCEPT ![dst].pred = Append(@, Edge(src, type))]

(* The two assertions of add_edge, for all nodes at once.                  *)
EdgesFit(ns) ==
  \A node \in ToSet(ns) : Len(node.succ) <= MaxEdges /\ Len(node.pred) <= MaxEdges

(* find_tb_containing: the node that has the address in its range.         *)
InBlock(m, address) ==
  nodes[m].addr <= address /\ address < nodes[m].addr + nodes[m].size

(* find_instruction_from_address.                                          *)
IsInsn(m, j, address) == nodes[m].insns[j].at = address

(* The edges of the split node m belong to its tail: they leave from there *)
(* now.                                                                    *)
RepointNone(ns, m, tail) == ns                     (* mutant of Repoint    *)

Repoint(ns, m, tail) ==
  [d \in 1 .. Len(ns) |->
    IF HasEdge(ns, tail, d)
    THEN [ns[d] EXCEPT !.pred =
           [k \in 1 .. Len(@) |-> IF @[k].node = m THEN [@[k] EXCEPT !.node = tail]
                                                   ELSE @[k]]]
    ELSE ns[d]]

(* The two parts of node m when it is cut before its instruction j: the    *)
(* node itself keeps its predecessors, a copy of it keeps its successors.  *)
HeadKeepsSucc(m, j) ==                             (* mutant of HeadOf     *)
  [nodes[m] EXCEPT !.size = nodes[m].insns[j].at - nodes[m].addr,
                   !.insns = SubSeq(@, 1, j - 1),
                   !.next = Len(nodes) + 1]

HeadKeepsSize(m, j) ==                             (* mutant of HeadOf     *)
  [nodes[m] EXCEPT !.insns = SubSeq(@, 1, j - 1),
                   !.next = Len(nodes) + 1,
                   !.succ = << >>]

HeadShort(m, j) ==                                 (* mutant of HeadOf     *)
  [nodes[m] EXCEPT !.size = nodes[m].insns[j].at - nodes[m].addr,
                   !.insns = SubSeq(@, 1, j - 2),
                   !.next = Len(nodes) + 1,
                   !.succ = << >>]

HeadUnlinked(m, j) ==                              (* mutant of HeadOf     *)
  [nodes[m] EXCEPT !.size = nodes[m].insns[j].at - nodes[m].addr,
                   !.insns = SubSeq(@, 1, j - 1),
                   !.succ = << >>]

HeadOf(m, j) ==
  [nodes[m] EXCEPT !.size = nodes[m].insns[j].at - nodes[m].addr,
                   !.insns = SubSeq(@, 1, j - 1),
                   !.next = Len(nodes) + 1,
                   !.succ = << >>]

RestLoops(m, j) ==                                 (* mutant of RestOf     *)
  [nodes[m] EXCEPT !.addr = nodes[m].insns[j].at,
                   !.size = nodes[m].addr + @ - nodes[m].insns[j].at,
                   !.insns = SubSeq(@, j, Len(@)),
                   !.next = Len(nodes) + 1,
                   !.pred = << >>]

RestSkipsInsn(m, j) ==                             (* mutant of RestOf     *)
  [nodes[m] EXCEPT !.addr = nodes[m].insns[j].at,
                   !.size = nodes[m].addr + @ - nodes[m].insns[j].at,
                   !.insns = SubSeq(@, j, Len(@) - 1),
                   !.pred = << >>]

RestOf(m, j) ==
  [nodes[m] EXCEPT !.addr = nodes[m].insns[j].at,
                   !.size = nodes[m].addr + @ - nodes[m].insns[j].at,
                   !.insns = SubSeq(@, j, Len(@)),
                   !.pred = << >>]

Split(m, j) ==
  LET tail == Len(nodes) + 1
      cut  == Append([nodes EXCEPT ![m] = HeadOf(m, j)], RestOf(m, j))
  IN  AddEdge(Repoint(cut, m, tail), m, tail, "FALLTHROUGH")

-----------------------------------------------------------------------------
Init ==
  /\ view \in Views
  /\ pc = "lift"
  /\ call = 1 /\ off = 0
  /\ nodes = << >>
  /\ n = 0 /\ jumps = << >> /\ indirect = 0 /\ i = 1

(* A block without instructions gets no node.                              *)
Lift ==
  /\ pc = "lift" /\ call <= Len(view)
  /\ LET new == [addr |-> off, size |-> view[call].size, 
                 insns |-> Lifter(view[call].insns, off),
                 next |-> 0, exits |-> 0, succ |-> << >>, pred |-> << >>]
     IN  nodes' = IF new.insns = << >> THEN nodes
                  ELSE [k \in Ids |->
                         IF k = Len(nodes) THEN [nodes[k] EXCEPT !.next = k + 1]
                                           ELSE nodes[k]] \o <<new>>
  /\ off' = off + view[call].size
  /\ call' = call + 1
  /\ UNCHANGED <<view, pc, n, jumps, indirect, i>>

(* The head of the second loop, at node m.                                 *)
Visit(m) == n' = m /\ jumps' = << >> /\ indirect' = 0 /\ i' = 1

Lifted ==
  /\ pc = "lift" /\ call > Len(view)
  /\ Visit(IF nodes = << >> THEN 0 ELSE 1)
  /\ pc' = "scan"
  /\ UNCHANGED <<view, call, off, nodes>>

(* Scans the ops of an instruction.  num_exits is not reset: a tail made   *)
(* by splitting comes with the count of the block it was cut from.         *)
(* Writing beyond the array jumps is undefined.                            *)
Scan ==
  /\ pc = "scan" /\ n # 0 /\ i <= Len(nodes[n].insns)
  /\ LET insn == nodes[n].insns[i]
     IN  /\ jumps' = jumps \o insn.pcs
         /\ indirect' = indirect + insn.indirect
         /\ nodes' = [nodes EXCEPT ![n].exits = @ + insn.exits]
  /\ i' = i + 1
  /\ pc' = IF Len(jumps') > MaxJumps THEN "overrun" ELSE "scan"
  /\ UNCHANGED <<view, call, off, n>>

(* Jumps count only when the block has an exit.                            *)
Scanned ==
  /\ pc = "scan" /\ n # 0 /\ i > Len(nodes[n].insns)
  /\ i' = 1
  /\ pc' = IF nodes[n].exits > 0 THEN "jumps" ELSE "link"
  /\ UNCHANGED <<view, call, off, nodes, n, jumps, indirect>>

(* Stores the nodes with a new edge, unless an assertion of add_edge fails. *)
Store(ns, next) ==
  IF EdgesFit(ns) THEN nodes' = ns /\ pc' = next
                  ELSE pc' = "aborted" /\ UNCHANGED nodes

(* The jump leaves the view, or leads between two instructions.            *)
JumpOut ==
  /\ pc = "jumps" /\ i <= Len(jumps)
  /\ \A m \in Ids : InBlock(m, jumps[i]) =>
       /\ jumps[i] # nodes[m].addr
       /\ \A j \in 1 .. Len(nodes[m].insns) : ~IsInsn(m, j, jumps[i])
  /\ i' = i + 1
  /\ UNCHANGED <<view, pc, call, off, nodes, n, jumps, indirect>>

JumpToBlock ==
  /\ pc = "jumps" /\ i <= Len(jumps)
  /\ \E m \in Ids :
       /\ InBlock(m, jumps[i]) /\ jumps[i] = nodes[m].addr
       /\ Store(AddEdge(nodes, n, m, "DIRECT"), "jumps")
  /\ i' = i + 1
  /\ UNCHANGED <<view, call, off, n, jumps, indirect>>

(* The jump leads into block m, which is split there.  A block that jumps  *)
(* into itself (the code compares addresses, which differ between blocks)  *)
(* gets no edge: the jump is now in the tail, the next block of the walk.  *)
JumpIntoNoEdge ==                                  (* mutant of JumpInto   *)
  /\ pc = "jumps" /\ i <= Len(jumps)
  /\ \E m \in Ids : \E j \in 1 .. Len(nodes[m].insns) :
       /\ InBlock(m, jumps[i]) /\ jumps[i] # nodes[m].addr /\ IsInsn(m, j, jumps[i])
       /\ Store(Split(m, j), "jumps")
  /\ i' = i + 1
  /\ UNCHANGED <<view, call, off, n, jumps, indirect>>

JumpInto ==
  /\ pc = "jumps" /\ i <= Len(jumps)
  /\ \E m \in Ids : \E j \in 1 .. Len(nodes[m].insns) :
       /\ InBlock(m, jumps[i]) /\ jumps[i] # nodes[m].addr /\ IsInsn(m, j, jumps[i])
       /\ Store(IF m = n THEN Split(m, j)
                         ELSE AddEdge(Split(m, j), n, Len(nodes) + 1, "DIRECT"), "jumps")
  /\ i' = i + 1
  /\ UNCHANGED <<view, call, off, n, jumps, indirect>>

JumpsDone ==
  /\ pc = "jumps" /\ i > Len(jumps)
  /\ pc' = "link"
  /\ UNCHANGED <<view, call, off, nodes, n, jumps, indirect, i>>

(* The block falls through when it has no exit or more exits than writes   *)
(* to the pc; then the next one of the chain is scanned.                   *)
FallsThrough ==
  /\ nodes[n].next # 0
  /\ \/ nodes[n].exits = 0
     \/ Len(jumps) + indirect < nodes[n].exits

Link ==
  /\ pc = "link"
  /\ IF FallsThrough THEN Store(AddEdge(nodes, n, nodes[n].next, "FALLTHROUGH"), "scan")
                     ELSE pc' = "scan" /\ UNCHANGED nodes
  /\ Visit(nodes[n].next)
  /\ UNCHANGED <<view, call, off>>

Finish ==
  /\ pc = "scan" /\ n = 0
  /\ pc' = "done"
  /\ UNCHANGED <<view, call, off, nodes, n, jumps, indirect, i>>

Next ==
  \/ Lift \/ Lifted
  \/ Scan \/ Scanned \/ JumpOut \/ JumpToBlock \/ JumpInto \/ JumpsDone \/ Link
  \/ Finish

Spec == Init /\ [][Next]_vars

(* One thread, nothing to wait for: main takes its next step.              *)
FairSpec == Spec /\ WF_vars(Next)

-----------------------------------------------------------------------------
Node == [addr: Nat, size: Nat \ {0}, insns: Seq(Insn) \ {<< >>}, next: Nat, exits: Nat,
         succ: Seq([node: Nat \ {0}, type: {"DIRECT", "FALLTHROUGH"}]),
         pred: Seq([node: Nat \ {0}, type: {"DIRECT", "FALLTHROUGH"}])]

(* The variables keep their types and every pointer leads to a node: no    *)
(* block is split into an empty one, however often it is split.            *)
TypeOK ==
  /\ IsView(view)
  /\ pc \in {"lift", "scan", "jumps", "link", "done", "aborted", "overrun"}
  /\ call \in 1 .. (Len(view) + 1) /\ off \in Nat
  /\ nodes \in Seq(Node)
  /\ \A m \in Ids :
       /\ nodes[m].next \in Ids \cup {0}
       /\ \A k \in 1 .. Len(nodes[m].succ) : nodes[m].succ[k].node \in Ids
       /\ \A k \in 1 .. Len(nodes[m].pred) : nodes[m].pred[k].node \in Ids
  /\ n \in Ids \cup {0}
  /\ jumps \in Seq(Nat) /\ indirect \in Nat /\ i \in Nat \ {0}

(* The chain runs from root through all nodes in the order of addresses,   *)
(* and each node holds exactly the instructions in its range: an address   *)
(* has at most one node, however the blocks have been split, so that it    *)
(* does not matter which one find_tb_containing meets first.               *)
Tiled ==
  /\ \A m \in Ids :
       /\ nodes[m].insns[1].at = nodes[m].addr
       /\ \A j, l \in 1 .. Len(nodes[m].insns) :
            /\ InBlock(m, nodes[m].insns[j].at)
            /\ j < l => nodes[m].insns[j].at < nodes[m].insns[l].at
       /\ nodes[m].next = 0 <=> \A d \in Ids : nodes[d].addr <= nodes[m].addr
       /\ nodes[m].next # 0 =>
            /\ nodes[m].addr + nodes[m].size <= nodes[nodes[m].next].addr
            /\ \A d \in Ids : nodes[d].addr <= nodes[m].addr
                               \/ nodes[nodes[m].next].addr <= nodes[d].addr
  /\ \A m, d \in Ids : m # d => nodes[m].addr # nodes[d].addr
  /\ \A m \in Ids : nodes[1].addr <= nodes[m].addr

(* The second loop loses no instruction and makes none up: the code of the *)
(* chain is what was lifted (that none is copied is part of Tiled).        *)
Code == UNION {ToSet(nodes[m].insns) : m \in Ids}
CodeKept == [][pc # "lift" => Code' = Code]_vars

(* The successor and the predecessor lists tell the same edges, and a      *)
(* block has at most one to another, though splitting hands edges from one *)
(* node to another.                                                        *)
Mirror ==
  /\ \A m, d \in Ids : \A type \in {"DIRECT", "FALLTHROUGH"} :
       Edge(d, type) \in ToSet(nodes[m].succ) <=> Edge(m, type) \in ToSet(nodes[d].pred)
  /\ \A m \in Ids :
       /\ \A k, l \in 1 .. Len(nodes[m].succ) :
            nodes[m].succ[k].node = nodes[m].succ[l].node => k = l
       /\ \A k, l \in 1 .. Len(nodes[m].pred) :
            nodes[m].pred[k].node = nodes[m].pred[l].node => k = l

(* A fallthrough edge leads to the next block of the chain, also after     *)
(* either end of it has been split.                                        *)
FallthroughToNext ==
  \A m \in Ids : \A k \in 1 .. Len(nodes[m].succ) :
    nodes[m].succ[k].type = "FALLTHROUGH" => nodes[m].succ[k].node = nodes[m].next

(* Where control can go at the end of node m: to the constants that its    *)
(* last instruction writes to the pc if it leaves the block, or else to    *)
(* the instruction behind it.                                              *)
Targets(m) ==
  LET last == nodes[m].insns[Len(nodes[m].insns)]
  IN  IF last.exits > 0 THEN ToSet(last.pcs)
                        ELSE {nodes[m].addr + nodes[m].size}

(* The finished graph has an edge for every transfer of control inside the *)
(* lifted code, from the block that ends with it to a block that starts    *)
(* where it leads: no split leaves an edge at the wrong half.              *)
TransfersCovered ==
  pc = "done" => \A m, d \in Ids : \A j \in 1 .. Len(nodes[d].insns) :
    nodes[d].insns[j].at \in Targets(m) => j = 1 /\ HasEdge(nodes, m, d)

(* And only those: an edge stands for a way that control can take, or for  *)
(* a jump whose destination the lifter does not tell.                      *)
OnlyTransfers ==
  pc = "done" => \A m, d \in Ids : HasEdge(nodes, m, d) =>
    \/ nodes[d].addr \in Targets(m)
    \/ nodes[m].insns[Len(nodes[m].insns)].indirect > 0

(* The DOT output walks the chain from root: a node statement for every    *)
(* block, named by its address, then an edge statement for every entry of  *)
(* the successor lists; main asks for no difference between the types.     *)
(* What is printed is told by where: node Walk[k] is the k-th of the walk, *)
(* which has ended where it is 0.                                          *)
Walk ==
  LET to[k \in 1 .. (Len(nodes) + 1)] ==
        IF k = 1 THEN (IF nodes = << >> THEN 0 ELSE 1)
        ELSE IF to[k - 1] = 0 THEN 0 ELSE nodes[to[k - 1]].next
  IN  to

Walked == {k \in DOMAIN Walk : Walk[k] # 0}

DotNodes == [k \in Walked |-> nodes[Walk[k]].addr]

DotEdges ==
  [p \in UNION {{k} \X DOMAIN nodes[Walk[k]].succ : k \in Walked} |->
    LET m == nodes[Walk[p[1]]]
    IN  <<m.addr, nodes[m.succ[p[2]].node].addr>>]

(* The printed graph is the graph: the output ends, every block and every  *)
(* edge of the graph is printed once, by the names of its blocks, and      *)
(* nothing else is.  Of src/src/graphviz.c:99-100 and                      *)
(* src/src/graphviz.c:332-349.                                             *)
DotIsGraph ==
  pc = "done" =>
    /\ Walk[Len(nodes) + 1] = 0
    /\ IsInjective(DotNodes) /\ Range(DotNodes) = {nodes[m].addr : m \in Ids}
    /\ IsInjective(DotEdges)
    /\ Range(DotEdges) = {<<nodes[e[1]].addr, nodes[e[2]].addr>> :
                            e \in {e \in Ids \X Ids : HasEdge(nodes, e[1], e[2])}}

(* The assertions on the number of edges of a node hold.                   *)
NoAssertFails == pc # "aborted"

(* The graph is finished although the second loop makes the chain longer   *)
(* while it walks it.                                                      *)
Terminates == <>(pc = "done")
=============================================================================
