------------------------------ MODULE MaxStack ------------------------------
(***************************************************************************)
(* The forward data-flow analysis of src/src/analyze-max-stack.c: for each *)
(* lifted instruction, the deepest stack offset read and the deepest       *)
(* written on the way to it.  A worklist of control-flow edges is drained; *)
(* an edge whose source block reaches deeper than the entry of its         *)
(* destination raises that entry and puts the destination's out-edges back *)
(* on the list.  A last pass over all blocks recomputes every row.         *)
(*                                                                         *)
(* Blocks are numbered in list order (the TbNode chain), 1 is `root'.  The *)
(* analysis never changes the graph, so whether is_stack_ld_fancy or       *)
(* is_stack_st_fancy folds an address, and to what offset, is part of the  *)
(* input: an instruction record says what the transfer function sees.      *)
(* The queue is the FIFO that module RingQueue shows mfp_push and mfp_pop  *)
(* to implement.                                                           *)
(***************************************************************************)
EXTENDS Integers, Sequences, FiniteSetsExt

CONSTANTS
  Programs,     (* the inputs: control-flow graph and instructions         *)
  Top,          (* STACK_SIZE_TOP, larger than every offset                *)
  QueueFactor,  (* queue entries allocated for each edge of the graph      *)
  Uninit        (* a row of stack_state that nothing has written           *)

Bottom == -1

Offsets == 0 .. (Top - 1)

(* MfpStackState: the deepest load and the deepest store so far.           *)
State == [ld: Bottom .. Top, st: Bottom .. Top]

(* What the transfer function tells apart about an instruction.  `clobbers' *)
(* is, for a helper call, that it may write globals and, for a write to the *)
(* pc, that it is indirect or leaves the lifted code.                       *)
Instruction ==
  [op: {"ld", "st", "helper", "pc_write", "other"},
   off: Offsets, clobbers: BOOLEAN]

(* A block starts with an insn_start, which stands for no access.          *)
IsProgram(p) ==
  /\ p.n \in Nat
  /\ p.succ \in [1 .. p.n -> Seq(1 .. p.n)]
  /\ p.inst \in [1 .. p.n -> Seq(Instruction)]
  /\ \A m \in 1 .. p.n : Len(p.inst[m]) >= 1 /\ p.inst[m][1].op = "other"

ASSUME MaxStackAssumption ==
  /\ Top \in Nat
  /\ QueueFactor \in Nat
  /\ Uninit \notin State
  /\ \A p \in Programs : IsProgram(p)

VARIABLES
  prog,        (* the input, never changed                                 *)
  pc,          (* where compute_max_stack_size is                          *)
  node,        (* the block a loop over the list is at                     *)
  cap,         (* queue.len                                                *)
  queue,       (* the worklist: pairs <<src, dst>>                         *)
  src,         (* the block the transfer function runs over                *)
  dst,         (* the destination of the popped edge, 0 in the final pass  *)
  ins,         (* the transfer function's loop index                       *)
  acc,         (* new_state                                                *)
  stackState   (* n->stack_state[i], for every block n                     *)

vars == <<prog, pc, node, cap, queue, src, dst, ins, acc, stackState>>

Nodes == 1 .. prog.n
Size(m) == Len(prog.inst[m])

-----------------------------------------------------------------------------
(* The lattice and the transfer function of one instruction.               *)

MAX(a, b) == IF a > b THEN a ELSE b

Join(s, t) == [ld |-> MAX(s.ld, t.ld), st |-> MAX(s.st, t.st)]

LessEqStrict(s, t) == s.ld < t.ld /\ s.st < t.st   (* mutant of LessEq     *)
LessEq(s, t) == s.ld <= t.ld /\ s.st <= t.st

ApplyLast(s, i) ==                                 (* mutant of Apply      *)
  CASE i.op = "ld" -> [s EXCEPT !.ld = i.off]
    [] i.op = "st" -> [s EXCEPT !.st = MAX(@, i.off)]
    [] i.op \in {"helper", "pc_write"} /\ i.clobbers -> [ld |-> Top, st |-> Top]
    [] OTHER -> s

ApplyHalfClobber(s, i) ==                          (* mutant of Apply      *)
  CASE i.op = "ld" -> [s EXCEPT !.ld = MAX(@, i.off)]
    [] i.op = "st" -> [s EXCEPT !.st = MAX(@, i.off)]
    [] i.op \in {"helper", "pc_write"} /\ i.clobbers -> [s EXCEPT !.ld = Top]
    [] OTHER -> s

Apply(s, i) ==
  CASE i.op = "ld" -> [s EXCEPT !.ld = MAX(@, i.off)]
    [] i.op = "st" -> [s EXCEPT !.st = MAX(@, i.off)]
    [] i.op \in {"helper", "pc_write"} /\ i.clobbers -> [ld |-> Top, st |-> Top]
    [] OTHER -> s

(* The entry state a block starts the analysis with.                       *)
Entry(m) == IF m = 1 THEN [ld |-> 0, st |-> 0]
                     ELSE [ld |-> Bottom, st |-> Bottom]

OutEdges(m) == [k \in 1 .. Len(prog.succ[m]) |-> <<m, prog.succ[m][k]>>]

-----------------------------------------------------------------------------
Init ==
  /\ prog \in Programs
  /\ pc = "count"
  /\ node = 1
  /\ cap = 0
  /\ queue = << >>
  /\ src = 0 /\ dst = 0
  /\ ins = 1
  /\ acc = [ld |-> 0, st |-> 0]
  /\ stackState = [m \in Nodes |-> [k \in 1 .. Size(m) |-> Uninit]]

(* Pushes the out-edges of block m and goes on at `next'; the assertion in *)
(* mfp_push stops the program when the queue is full.                      *)
PushOutEdges(m, next) ==
  IF Len(queue) + Len(prog.succ[m]) <= cap
  THEN queue' = queue \o OutEdges(m) /\ pc' = next
  ELSE pc' = "aborted" /\ UNCHANGED queue

(* The loop that sizes the queue: one entry per edge, times QueueFactor.   *)
CountEdges ==
  /\ pc = "count" /\ node <= prog.n
  /\ cap' = cap + Len(prog.succ[node])
  /\ node' = node + 1
  /\ UNCHANGED <<prog, pc, queue, src, dst, ins, acc, stackState>>

AllocQueue ==
  /\ pc = "count" /\ node > prog.n
  /\ cap' = cap * QueueFactor
  /\ node' = 1
  /\ pc' = "init"
  /\ UNCHANGED <<prog, queue, src, dst, ins, acc, stackState>>

(* Row 0 of the block gets its entry state, the others stay unwritten; all *)
(* its out-edges are queued, reachable or not.                             *)
InitNodeNoRow ==                                   (* mutant of InitNode   *)
  /\ pc = "init" /\ node <= prog.n
  /\ stackState' = IF Len(prog.succ[node]) = 0 THEN stackState
                   ELSE [stackState EXCEPT ![node][1] = Entry(node)]
  /\ PushOutEdges(node, "init")
  /\ node' = node + 1
  /\ UNCHANGED <<prog, cap, src, dst, ins, acc>>

InitNode ==
  /\ pc = "init" /\ node <= prog.n
  /\ stackState' = [stackState EXCEPT ![node][1] = Entry(node)]
  /\ PushOutEdges(node, "init")
  /\ node' = node + 1
  /\ UNCHANGED <<prog, cap, src, dst, ins, acc>>

InitDone ==
  /\ pc = "init" /\ node > prog.n
  /\ pc' = "drain"
  /\ UNCHANGED <<prog, node, cap, queue, src, dst, ins, acc, stackState>>

(* mfp_pop, and the transfer function starts from the current entry state  *)
(* of the edge's source.                                                   *)
Pop ==
  /\ pc = "drain" /\ queue # << >>
  /\ src' = Head(queue)[1]
  /\ dst' = Head(queue)[2]
  /\ queue' = Tail(queue)
  /\ acc' = stackState[src'][1]
  /\ ins' = 1
  /\ pc' = "transfer"
  /\ UNCHANGED <<prog, node, cap, stackState>>

Drained ==
  /\ pc = "drain" /\ queue = << >>
  /\ node' = 1
  /\ pc' = "final"
  /\ UNCHANGED <<prog, cap, queue, src, dst, ins, acc, stackState>>

(* One iteration of the transfer function.  The row is written for every   *)
(* instruction, so that iteration 0 writes the entry row itself.           *)
TransferInst ==
  /\ pc = "transfer" /\ ins <= Size(src)
  /\ acc' = Apply(acc, prog.inst[src][ins])
  /\ stackState' = [stackState EXCEPT ![src][ins] = acc']
  /\ ins' = ins + 1
  /\ UNCHANGED <<prog, pc, node, cap, queue, src, dst>>

TransferEnd ==
  /\ pc = "transfer" /\ ins > Size(src)
  /\ pc' = IF dst = 0 THEN "final" ELSE "combine"
  /\ UNCHANGED <<prog, node, cap, queue, src, dst, ins, acc, stackState>>

(* The destination's entry already covers the source's exit state.         *)
Covered ==
  /\ pc = "combine" /\ LessEq(acc, stackState[dst][1])
  /\ pc' = "drain"
  /\ UNCHANGED <<prog, node, cap, queue, src, dst, ins, acc, stackState>>

RaiseOverwrite ==                                  (* mutant of Raise      *)
  /\ pc = "combine" /\ ~LessEq(acc, stackState[dst][1])
  /\ stackState' = [stackState EXCEPT ![dst][1] = acc]
  /\ PushOutEdges(dst, "drain")
  /\ UNCHANGED <<prog, node, cap, src, dst, ins, acc>>

RaiseNoPush ==                                     (* mutant of Raise      *)
  /\ pc = "combine" /\ ~LessEq(acc, stackState[dst][1])
  /\ stackState' = [stackState EXCEPT ![dst][1] = Join(@, acc)]
  /\ pc' = "drain"
  /\ UNCHANGED <<prog, node, cap, queue, src, dst, ins, acc>>

Raise ==
  /\ pc = "combine" /\ ~LessEq(acc, stackState[dst][1])
  /\ stackState' = [stackState EXCEPT ![dst][1] = Join(@, acc)]
  /\ PushOutEdges(dst, "drain")
  /\ UNCHANGED <<prog, node, cap, src, dst, ins, acc>>

(* The last pass: one transfer per block, results only recorded in rows.   *)
FinalNode ==
  /\ pc = "final" /\ node <= prog.n
  /\ src' = node
  /\ dst' = 0
  /\ acc' = stackState[node][1]
  /\ ins' = 1
  /\ node' = node + 1
  /\ pc' = "transfer"
  /\ UNCHANGED <<prog, cap, queue, stackState>>

Finish ==
  /\ pc = "final" /\ node > prog.n
  /\ pc' = "done"
  /\ UNCHANGED <<prog, node, cap, queue, src, dst, ins, acc, stackState>>

Next ==
  \/ CountEdges \/ AllocQueue
  \/ InitNode \/ InitDone
  \/ Pop \/ Drained
  \/ TransferInst \/ TransferEnd
  \/ Covered \/ Raise
  \/ FinalNode \/ Finish

Spec == Init /\ [][Next]_vars

(* The analysis is one thread that nothing blocks: it takes its next step. *)
FairSpec == Spec /\ WF_vars(Next)

-----------------------------------------------------------------------------
(* The variables keep their types, and the transfer function never computes *)
(* with a row that no step has written (stack_alloc does not clear memory). *)
TypeOK ==
  /\ IsProgram(prog)
  /\ pc \in {"count", "init", "drain", "transfer", "combine", "final",
             "done", "aborted"}
  /\ node \in 1 .. (prog.n + 1)
  /\ cap \in Nat
  /\ queue \in Seq(Nodes \X Nodes)
  /\ src \in Nodes \cup {0}
  /\ dst \in Nodes \cup {0}
  /\ ins \in Nat \ {0}
  /\ acc \in State
  /\ DOMAIN stackState = Nodes
  /\ \A m \in Nodes :
       stackState[m] \in [1 .. Size(m) -> State \cup {Uninit}]

(* A table of rows is a solution of the data-flow equations of program p:  *)
(* every row accounts for its instruction and the row before it, every     *)
(* entry row for the block's starting state and for the exit row of every  *)
(* predecessor.                                                            *)
IsSolution(p, rows) ==
  /\ \A m \in 1 .. p.n :
       /\ rows[m] \in [1 .. Len(p.inst[m]) -> State]
       /\ LessEq(Entry(m), rows[m][1])
       /\ LessEq(Apply(rows[m][1], p.inst[m][1]), rows[m][1])
       /\ \A k \in 1 .. (Len(p.inst[m]) - 1) :
            LessEq(Apply(rows[m][k], p.inst[m][k + 1]), rows[m][k + 1])
  /\ \A m \in 1 .. p.n : \A k \in 1 .. Len(p.succ[m]) :
       LessEq(rows[m][Len(p.inst[m])], rows[p.succ[m][k]][1])

(* What compute_max_stack_size leaves behind is sound: no row is stale or  *)
(* unwritten, and no edge of the graph carries an offset deeper than the   *)
(* entry of the block it leads to, however the entries were raised and in  *)
(* whatever order the edges were drained.                                  *)
SolvedWhenDone == pc = "done" => IsSolution(prog, stackState)

(* The closed form of the result.  u feeds v when a path of one edge or    *)
(* more leads from u to v: v is in every set that has the successors of u  *)
(* and of its own members.                                                 *)
Successors(m) == {prog.succ[m][k] : k \in 1 .. Len(prog.succ[m])}

Feeders(v) ==
  {u \in Nodes : \A S \in SUBSET Nodes :
     Successors(u) \subseteq S /\ (\A w \in S : Successors(w) \subseteq S) => v \in S}

(* How deep an instruction loads or stores, for a component of State.      *)
Depth(i, access) ==
  CASE i.op = access -> i.off
    [] i.op \in {"helper", "pc_write"} /\ i.clobbers -> Top
    [] OTHER -> Bottom

(* What the first k instructions of a block do to the stack, and what it   *)
(* starts with.                                                            *)
Depths(m, k, access) ==
  {Entry(m)[access]} \cup {Depth(prog.inst[m][j], access) : j \in 1 .. k}

Reference(v, k) ==
  LET deepest(access) ==
        Max(Depths(v, k, access) \cup UNION {Depths(u, Size(u), access) : u \in Feeders(v)})
  IN  [ld |-> deepest("ld"), st |-> deepest("st")]

(* Every row found is exact: the deepest offset of any instruction on a    *)
(* path to it, and nothing deeper.  Of                                     *)
(* src/src/analyze-max-stack.c:34-131.                                     *)
ExactWhenDone ==
  pc = "done" =>
    \A v \in Nodes : \A k \in 1 .. Size(v) : stackState[v][k] = Reference(v, k)

(* Entry states only rise: draining an edge, with a queue that may hold    *)
(* stale copies of it, never forgets an offset found along another.        *)
EntryRises ==
  [][\A m \in Nodes : stackState[m][1] # Uninit =>
       LessEq(stackState[m][1], stackState'[m][1])]_vars

(* The two cells that the DOT output prints of a row, {} for a question    *)
(* mark: both are decided by the load component.                           *)
Cells(row) ==
  IF row.ld = Top THEN [r |-> {}, w |-> {}] ELSE [r |-> {row.ld}, w |-> {row.st}]

(* No cell hides a number that is known, and none shows STACK_SIZE_TOP as  *)
(* one, whatever joins and transfers the row has been through.  Of         *)
(* src/src/graphviz.c:144 and src/src/analyze-max-stack.c:90-131.          *)
CellsTell ==
  LET Known(x) == IF x = Top THEN {} ELSE {x}
  IN  pc = "done" => \A m \in Nodes : \A k \in 1 .. Size(m) :
        LET row == stackState[m][k]
        IN  Cells(row) = [r |-> Known(row.ld), w |-> Known(row.st)]

(* The analysis ends with a result: the worklist is drained in spite of    *)
(* loops in the graph, and the queue sized once at the start is enough.    *)
Terminates == <>(pc = "done")
=============================================================================
