------------------------------- MODULE RegSrc -------------------------------
(***************************************************************************)
(* find_sources of src/src/analyze-reg-src.c: which instructions the value *)
(* of an operand can come from.  A search walks backward over a block and  *)
(* then over its predecessors; what it finds becomes a branch in the tree  *)
(* and the operands of that instruction are searched for in turn.  A load  *)
(* whose address folds to a stack offset is followed to the stores at the  *)
(* same offset.  To fold an address find_sources is called again, from     *)
(* is_stack_ld_fancy and is_stack_st_fancy, so the state is a stack of     *)
(* calls, the newest last.                                                 *)
(*                                                                         *)
(* The queue is a FIFO (module RingQueue); memory comes from arenas that   *)
(* nested calls use like stacks (module StackAlloc), so the tree and the   *)
(* queue of a call are part of its frame.  has_loop, which nothing reads,  *)
(* is left out.                                                            *)
(***************************************************************************)
EXTENDS Fold, SequencesExt

CONSTANTS
  Programs,     (* the inputs: blocks, their predecessors, and the operands *)
                (* that a search starts from                               *)
  QueueLen,     (* the length of the queue                                 *)
  MaxBranches,  (* SRC_INFO_MAX_BRANCHES_PER_CHILD                         *)
  MaxTbs,       (* the length of TbSet.nodes                               *)
  MaxCalls      (* nested calls that the process has memory for            *)

(* A program has blocks 1 .. n, 1 the entry.  add_edge never adds an edge  *)
(* twice, so a block is in the list of predecessors at most once.          *)
IsProgram(p) ==
  LET blocks == DOMAIN p.code
  IN  /\ p.code \in Seq(Seq(Instruction))
      /\ \A b \in blocks : \A i \in DOMAIN p.code[b] : HasOperands(p.code[b][i])
      /\ p.pred \in [blocks -> Seq(blocks)]
      /\ \A b \in blocks : IsInjective(p.pred[b])
      /\ \A r \in p.roots : /\ r[1] \in blocks /\ r[2] \in DOMAIN p.code[r[1]]
                            /\ r[3] \in DOMAIN p.code[r[1]][r[2]].in

ASSUME RegSrcAssumption ==
  /\ {QueueLen, MaxBranches, MaxTbs, MaxCalls} \subseteq Nat \ {0}
  /\ \A p \in Programs : IsProgram(p)

VARIABLES
  prog,         (* the input, never changed                                *)
  frames,       (* the calls of find_sources that have not returned        *)
  status        (* "running", "done", or how the process ended             *)

vars == <<prog, frames, status>>

Blocks == DOMAIN prog.code
Inst(b, i) == prog.code[b][i]

(* The positions of block b that write temp t, and those that store.       *)
Writers(b, t) == {j \in DOMAIN prog.code[b] : t \in Range(Inst(b, j).out)}

Stores(b) == {j \in DOMAIN prog.code[b] : Inst(b, j).op = "st"}

(* A node of the tree: SrcInfo.  Its operands have no sources yet.         *)
SrcInfo(b, i, op) ==
  [node |-> b, index |-> i, op_index |-> op,
   children |-> [k \in DOMAIN Inst(b, i).in |-> << >>]]

(* An entry of the queue: from position index of block node on, look for   *)
(* what defines a temp ("temp") or stores at an offset ("slot"), for the   *)
(* operand origin of tree node info; seen is its TbSet.                    *)
TempSrcUnshifted(b, i, x, k, seen) ==              (* mutant of TempSrc    *)
  [node |-> b, index |-> i, info |-> x, origin |-> k + 1, kind |-> "temp",
   temp |-> Inst(b, i).in[k], offset |-> 0, seen |-> seen]

TempSrc(b, i, x, k, seen) ==
  [node |-> b, index |-> i, info |-> x, origin |-> k, kind |-> "temp",
   temp |-> Inst(b, i).in[k], offset |-> 0, seen |-> seen]

(* Src, with the positions of its block and the operands of its node.      *)
SrcType(frame) ==
  [node: Blocks, index: Nat \ {0}, info: DOMAIN frame.tree, origin: Nat \ {0},
   kind: {"temp", "slot"}, temp: Temps, offset: Nat, seen: SUBSET Blocks]

tbset_isset(s, m) == m \in s.seen

(* No entry is for a block that is in the set already, so it is full when  *)
(* it has as many members as there is room for.                            *)
tbset_set(s, m) == [s EXCEPT !.seen = @ \cup {m}]
tbset_full(s) == Cardinality(s.seen) = MaxTbs

(* A call of find_sources: src is the entry being worked on, i the loop    *)
(* index, pc where the call is; "store" and "load" wait for a nested call. *)
FrameSeen(b, i, k) ==                              (* mutant of Frame      *)
  [tree |-> <<SrcInfo(b, i, -1)>>, arg |-> k, queue |-> <<TempSrc(b, i, 1, k, {b})>>,
   src |-> TempSrc(b, i, 1, k, {}), i |-> i, pc |-> "pop"]

Frame(b, i, k) ==
  [tree |-> <<SrcInfo(b, i, -1)>>, arg |-> k, queue |-> <<TempSrc(b, i, 1, k, {})>>,
   src |-> TempSrc(b, i, 1, k, {}), i |-> i, pc |-> "pop"]

Init ==
  /\ prog \in Programs
  /\ \E r \in prog.roots : frames = <<Frame(r[1], r[2], r[3])>>
  /\ status = "running"

-----------------------------------------------------------------------------
top == Last(frames)

At(pc) == status = "running" /\ top.pc = pc

Become(frame) == frames' = Front(frames) \o <<frame>>

(* Start a nested call and wait for it in state pc.                        *)
Call(frame, nested) ==
  IF Len(frames) < MaxCalls
  THEN /\ frames' = Front(frames) \o <<frame, nested>>
       /\ UNCHANGED <<prog, status>>
  ELSE /\ status' = "exhausted"
       /\ UNCHANGED <<prog, frames>>

(* src_push for each of srcs; its assertion fails when the queue is full.  *)
Push(frame, srcs) ==
  IF Len(frame.queue) + Len(srcs) <= QueueLen
  THEN /\ Become([frame EXCEPT !.queue = @ \o srcs, !.pc = "pop"])
       /\ UNCHANGED <<prog, status>>
  ELSE /\ status' = "aborted"
       /\ UNCHANGED <<prog, frames>>

(* The members of a set of numbers, the smallest first.                    *)
Ordered(S) ==
  CHOOSE s \in [1 .. Cardinality(S) -> S] :
    Range(s) = S /\ \A j, k \in DOMAIN s : j < k => s[j] < s[k]

(* Entries for the operands of tree node x that are not constants.         *)
InputsButLast(x, frame) ==                         (* mutant of Inputs     *)
  LET info == frame.tree[x]
      ks == Ordered({k \in 1 .. (Len(info.children) - 1) :
                       ~IsConst(Inst(info.node, info.index).in[k])})
  IN  [j \in DOMAIN ks |-> TempSrc(info.node, info.index, x, ks[j], frame.src.seen)]

Inputs(x, frame) ==
  LET info == frame.tree[x]
      ks == Ordered({k \in DOMAIN info.children :
                       ~IsConst(Inst(info.node, info.index).in[k])})
  IN  [j \in DOMAIN ks |-> TempSrc(info.node, info.index, x, ks[j], frame.src.seen)]

(* op_index: the output, counted from 0, that writes the temp; -1 for a    *)
(* store in the slot and for the root.                                     *)
OpIndexFirst(s, inst) == IF inst.out = << >> THEN -1 ELSE 0
                                                   (* mutant of OpIndex    *)
OpIndex(s, inst) ==
  IF s.kind = "slot" THEN -1 ELSE Min({j \in DOMAIN inst.out : inst.out[j] = s.temp}) - 1

(* The last of some positions up to i, 0 if there is none.                 *)
LastAt(positions, i) == Max({0} \cup {j \in positions : j <= i})

-----------------------------------------------------------------------------
PopSelf ==                                         (* mutant of Pop        *)
  /\ At("pop") /\ top.queue # << >>
  /\ Become([top EXCEPT !.src = Head(top.queue), !.queue = Tail(@),
                        !.i = Min({Head(top.queue).index,
                                   Len(prog.code[Head(top.queue).node])}),
                        !.pc = "scan"])
  /\ UNCHANGED <<prog, status>>

Pop ==
  /\ At("pop") /\ top.queue # << >>
  /\ Become([top EXCEPT !.src = Head(top.queue), !.queue = Tail(@),
                        !.i = Head(top.queue).index - 1, !.pc = "scan"])
  /\ UNCHANGED <<prog, status>>

(* The inner loop for a temp: back to the instruction that writes it.      *)
ScanTemp ==
  /\ At("scan") /\ top.src.kind = "temp"
  /\ LET j == LastAt(Writers(top.src.node, top.src.temp), top.i)
     IN  Become([top EXCEPT !.i = j, !.pc = IF j = 0 THEN "preds" ELSE "found"])
  /\ UNCHANGED <<prog, status>>

(* The inner loop for a slot: back to the next store, whose address has to *)
(* be folded to know where it writes.                                      *)
ScanSlotValue ==                                   (* mutant of ScanSlot   *)
  /\ At("scan") /\ top.src.kind = "slot"
  /\ LET j == LastAt(Stores(top.src.node), top.i)
     IN  IF j = 0
         THEN /\ Become([top EXCEPT !.i = 0, !.pc = "preds"])
              /\ UNCHANGED <<prog, status>>
         ELSE Call([top EXCEPT !.i = j, !.pc = "store"], Frame(top.src.node, j, 1))

ScanSlot ==
  /\ At("scan") /\ top.src.kind = "slot"
  /\ LET j == LastAt(Stores(top.src.node), top.i)
     IN  IF j = 0
         THEN /\ Become([top EXCEPT !.i = 0, !.pc = "preds"])
              /\ UNCHANGED <<prog, status>>
         ELSE Call([top EXCEPT !.i = j, !.pc = "store"],
                   Frame(top.src.node, j, AddressArg(Inst(top.src.node, j))))

(* The instruction at i becomes a branch of the operand that was searched  *)
(* for.  With all of them taken the write goes past the allocation.        *)
FoundKeepsOne ==                                   (* mutant of Found      *)
  /\ At("found")
  /\ LET s == top.src
         x == Len(top.tree) + 1
         info == SrcInfo(s.node, top.i, OpIndex(s, Inst(s.node, top.i)))
         frame == [top EXCEPT !.tree =
                     Append([@ EXCEPT ![s.info].children[s.origin] = <<x>>], info)]
     IN  IF Inst(s.node, top.i).op = "ld"
         THEN Call([frame EXCEPT !.pc = "load"], Frame(s.node, top.i, 1))
         ELSE Push(frame, Inputs(x, frame))

Found ==
  /\ At("found")
  /\ LET s == top.src
         x == Len(top.tree) + 1
         branches == top.tree[s.info].children[s.origin]
         tree == [top.tree EXCEPT ![s.info].children[s.origin] = Append(branches, x)]
         info == SrcInfo(s.node, top.i, OpIndex(s, Inst(s.node, top.i)))
         frame == [top EXCEPT !.tree = Append(tree, info)]
     IN  IF Len(branches) = MaxBranches
         THEN /\ status' = "overrun"
              /\ UNCHANGED <<prog, frames>>
         ELSE IF Inst(s.node, top.i).op = "ld"
              THEN Call([frame EXCEPT !.pc = "load"], Frame(s.node, top.i, 1))
              ELSE Push(frame, Inputs(x, frame))

(* The block's start was reached: go on at the end of each predecessor     *)
(* that this search has not been through.                                  *)
PredsAgain ==                                      (* mutant of Preds      *)
  /\ At("preds")
  /\ LET s == top.src
         new == prog.pred[s.node]
     IN  Push(top, [j \in DOMAIN new |->
                [tbset_set(s, new[j]) EXCEPT !.node = new[j],
                                             !.index = Len(prog.code[new[j]]) + 1]])

Preds ==
  /\ At("preds")
  /\ LET s == top.src
         pred == prog.pred[s.node]
         new == Ordered({j \in DOMAIN pred : ~tbset_isset(s, pred[j])})
     IN  IF new # << >> /\ tbset_full(s)
         THEN /\ status' = "aborted"
              /\ UNCHANGED <<prog, frames>>
         ELSE Push(top, [j \in DOMAIN new |->
                [tbset_set(s, pred[new[j]]) EXCEPT !.node = pred[new[j]],
                                                   !.index = Len(prog.code[pred[new[j]]]) + 1]])

-----------------------------------------------------------------------------
(* The queue is empty and the call returns; is_stack_ld_fancy and          *)
(* is_stack_st_fancy fold the tree and give its memory back.               *)
Returning == At("pop") /\ top.queue = << >>

folded == fold_ld_st_stack_pointer(prog.code, top.tree, top.arg)

caller == frames[Len(frames) - 1]

(* In a caller, the frame goes on as `frame'.                              *)
Resume(frame) == frames' = Front(Front(frames)) \o <<frame>>

ReturnToStoreAny ==                                (* mutant of ReturnToStore *)
  /\ Returning /\ Len(frames) > 1 /\ caller.pc = "store"
  /\ Resume(IF folded.valid
            THEN [caller EXCEPT !.pc = "found"]
            ELSE [caller EXCEPT !.i = @ - 1, !.pc = "scan"])
  /\ UNCHANGED <<prog, status>>

ReturnToStore ==
  /\ Returning /\ Len(frames) > 1 /\ caller.pc = "store"
  /\ Resume(IF folded.valid /\ folded.value = caller.src.offset
            THEN [caller EXCEPT !.pc = "found"]
            ELSE [caller EXCEPT !.i = @ - 1, !.pc = "scan"])
  /\ UNCHANGED <<prog, status>>

(* A load from the stack is followed to the stores in its slot first, then *)
(* to what its address is made from; any other load only to its address.   *)
ReturnToLoad ==
  /\ Returning /\ Len(frames) > 1 /\ caller.pc = "load"
  /\ LET x == Len(caller.tree)
         s == caller.src
         slot == [node |-> s.node, index |-> caller.i, info |-> x, origin |-> 1,
                  kind |-> "slot", temp |-> Inst(s.node, caller.i).in[1],
                  offset |-> folded.value, seen |-> s.seen]
         srcs == (IF folded.valid THEN <<slot>> ELSE << >>) \o Inputs(x, caller)
     IN  IF Len(caller.queue) + Len(srcs) <= QueueLen
         THEN /\ Resume([caller EXCEPT !.queue = @ \o srcs, !.pc = "pop"])
              /\ UNCHANGED <<prog, status>>
         ELSE /\ status' = "aborted"
              /\ UNCHANGED <<prog, frames>>

Finish ==
  /\ Returning /\ Len(frames) = 1
  /\ status' = "done"
  /\ UNCHANGED <<prog, frames>>

Next ==
  \/ Pop \/ ScanTemp \/ ScanSlot \/ Found \/ Preds
  \/ ReturnToStore \/ ReturnToLoad \/ Finish

(* One thread, which runs until it is done.                                *)
Spec == Init /\ [][Next]_vars /\ WF_vars(Next)

-----------------------------------------------------------------------------
(* A source starts inside its block or just behind it (the assertion that  *)
(* src.index > 0), and it belongs to an operand that its instruction has.  *)
SrcOK(frame, s) ==
  /\ s \in SrcType(frame)
  /\ s.index <= Len(prog.code[s.node]) + 1
  /\ s.origin \in DOMAIN frame.tree[s.info].children
  /\ Cardinality(s.seen) <= MaxTbs

(* Types and bounds: every entry points into the tree of its own call, the *)
(* tree's links lead from older to newer nodes with at most MaxBranches at *)
(* an operand, and the arrays hold what is in them.  Of                    *)
(* src/src/analyze-reg-src.c:85-245.                                       *)
TypeOK ==
  /\ IsProgram(prog)
  /\ status \in {"running", "done", "aborted", "overrun", "exhausted"}
  /\ Len(frames) \in 1 .. MaxCalls
  /\ \A d \in DOMAIN frames :
       LET f == frames[d]
       IN  /\ f.pc \in {"pop", "scan", "found", "preds", "store", "load"}
           /\ (f.pc \in {"store", "load"}) <=> (d < Len(frames))
           /\ Len(f.queue) <= QueueLen
           /\ \A j \in DOMAIN f.queue : SrcOK(f, f.queue[j])
           /\ SrcOK(f, f.src)
           /\ f.pc # "pop" => f.i \in 0 .. Len(prog.code[f.src.node])
           /\ f.pc \in {"found", "store", "load"} => f.i > 0
           /\ \A x \in DOMAIN f.tree : \A k \in DOMAIN f.tree[x].children :
                /\ Len(f.tree[x].children[k]) <= MaxBranches
                /\ Range(f.tree[x].children[k]) \subseteq (x + 1) .. Len(f.tree)

-----------------------------------------------------------------------------
(* What the search is for, from the program alone.                         *)

(* The definitions of temp t that reach position i of block b: the nearest *)
(* one in the block, or else the last ones of the blocks that lead to it   *)
(* through blocks without one.                                             *)
ReachingDefs(b, i, t) ==
  LET before == {j \in Writers(b, t) : j < i}
      closed(S) == /\ Range(prog.pred[b]) \subseteq S
                   /\ \A m \in S : Writers(m, t) = {} => Range(prog.pred[m]) \subseteq S
      through == {m \in Blocks : \A S \in SUBSET Blocks : closed(S) => m \in S}
  IN  IF before # {} THEN {<<b, Max(before)>>}
      ELSE {<<m, Max(Writers(m, t))>> : m \in {m \in through : Writers(m, t) # {}}}

(* Where the children of operand k of tree node x are.                     *)
Branches(tree, x, k) ==
  {<<tree[c].node, tree[c].index>> : c \in Range(tree[x].children[k])}

(* Those of them that write the operand's temp, and those that store.      *)
TempBranches(tree, x, k) ==
  {p \in Branches(tree, x, k) : Inst(p[1], p[2]).op # "st"}

StoreBranches(tree, x, k) == Branches(tree, x, k) \ TempBranches(tree, x, k)

Operand(tree, x, k) == Inst(tree[x].node, tree[x].index).in[k]

(* Whether no block leads back to itself: the blocks can be ranked.        *)
Acyclic ==
  \A S \in (SUBSET Blocks) \ {{}} : \E b \in S : Range(prog.pred[b]) \cap S = {}

(* When a search ends it has found every definition that reaches the       *)
(* operand it is for, loops or not: the set of blocks that keeps it from   *)
(* going in circles hides none.  Of src/src/analyze-reg-src.c:124-238.     *)
SearchExact ==
  Returning =>
    Branches(top.tree, 1, top.arg)
      = ReachingDefs(top.tree[1].node, top.tree[1].index, Operand(top.tree, 1, top.arg))

(* At every moment, and however deep in the tree: what is recorded as the  *)
(* source of an operand is a definition of it that reaches it, or, below a *)
(* load, a store.  Of src/src/analyze-reg-src.c:157-223.                   *)
OnlyDefinitions ==
  \A d \in DOMAIN frames : LET tree == frames[d].tree IN
    \A x \in DOMAIN tree : \A k \in DOMAIN tree[x].children :
      /\ TempBranches(tree, x, k)
           \subseteq ReachingDefs(tree[x].node, tree[x].index, Operand(tree, x, k))
      /\ StoreBranches(tree, x, k) # {} => Inst(tree[x].node, tree[x].index).op = "ld"

(* Without loops, the whole tree is complete: every operand of every       *)
(* instruction in it has all the definitions that reach it.  (With a loop  *)
(* a source inherits the blocks seen on the way to it, and may miss some.) *)
(* Of src/src/analyze-reg-src.c:173-223.                                   *)
TreeExact ==
  Returning /\ Acyclic =>
    \A x \in 2 .. Len(top.tree) : \A k \in DOMAIN top.tree[x].children :
      IsConst(Operand(top.tree, x, k))
        \/ TempBranches(top.tree, x, k)
             = ReachingDefs(top.tree[x].node, top.tree[x].index, Operand(top.tree, x, k))

-----------------------------------------------------------------------------
(* What happens when the lifted code runs, with the stack pointer 0 on     *)
(* entry.  The value of a temp is a set, empty when it is not known.       *)

Paths(b) ==
  {p \in UNION {[1 .. n -> Blocks] : n \in 1 .. Cardinality(Blocks)} :
     /\ p[1] = 1 /\ Last(p) = b
     /\ \A j \in 2 .. Len(p) : p[j - 1] \in Range(prog.pred[p[j]])}

OnEntry ==
  [t \in Temps |-> CASE t \in StackRegs -> {0}
                     [] IsConst(t)      -> {ConstVal[t]}
                     [] OTHER           -> {}]

(* What inst computes, and the values that the position pos leaves.        *)
Result(val, inst) ==
  CASE inst.op = "mov" -> val[inst.in[1]]
    [] inst.op = "add" -> {l + r : l \in val[inst.in[1]], r \in val[inst.in[2]]}
    [] inst.op = "sub" -> {l - r : l \in val[inst.in[1]], r \in val[inst.in[2]]}
    [] OTHER           -> {}

Execute(val, pos) ==
  LET inst == Inst(pos[1], pos[2])
  IN  [t \in Temps |-> IF t \in Range(inst.out) THEN Result(val, inst) ELSE val[t]]

(* The values after every position of block b, which is entered with val,  *)
(* and after every block of path p.                                        *)
Within(val, b) ==
  LET at[i \in 0 .. Len(prog.code[b])] ==
        IF i = 0 THEN val ELSE Execute(at[i - 1], <<b, i>>)
  IN  at

Run(p) ==
  LET after[n \in 0 .. Len(p)] ==
        IF n = 0 THEN OnEntry ELSE Within(after[n - 1], p[n])[Len(prog.code[p[n]])]
  IN  after

(* The values that position i of the nth block of p finds, and the address *)
(* that the load or the store there uses.                                  *)
Values(p, n, i) == Within(Run(p)[n - 1], p[n])[i - 1]

Address(p, n, i) ==
  Values(p, n, i)[Inst(p[n], i).in[AddressArg(Inst(p[n], i))]]

Addresses(b, i) == {Address(p, Len(p), i) : p \in Paths(b)}

(* Sums and differences have a constant on the right, as addresses do: the *)
(* fold clamps every partial result at 0, so a difference of two computed  *)
(* values is not what it bounds.  No address is itself a constant, which   *)
(* would be taken for the offset 0.                                        *)
Plain ==
  \A b \in Blocks : \A i \in DOMAIN prog.code[b] :
    LET inst == Inst(b, i)
    IN  /\ inst.op \in {"add", "sub"} => IsConst(inst.in[2])
        /\ inst.op \in {"ld", "st"} => ~IsConst(inst.in[AddressArg(inst)])

(* Without loops, when an address folds, the offset is at least as deep as *)
(* the address is on any path of execution: the fold takes the deepest of  *)
(* several definitions at every operand.  Of src/src/common.c:67-170.      *)
FoldSound ==
  Returning /\ Len(frames) > 1 /\ Acyclic /\ Plain /\ folded.valid =>
    \A address \in Addresses(top.tree[1].node, top.tree[1].index) :
      \A v \in address : folded.value >= -v

(* Every block is reached, all loads and stores have the same address      *)
(* however they are reached, if it is known, and no temp ever points above *)
(* the stack on entry.                                                     *)
Regular ==
  \A b \in Blocks :
    /\ Paths(b) # {}
    /\ \A i \in DOMAIN prog.code[b] :
         /\ Inst(b, i).op \in {"ld", "st"} =>
              {0} \notin Addresses(b, i) /\ \A a, c \in Addresses(b, i) : a = c
         /\ \A p \in Paths(b) : \A t \in {t \in Temps : ~IsConst(t)} :
              \A v \in Values(p, Len(p), i)[t] : v <= 0

(* The positions passed on path p before position i of its last block, as  *)
(* pairs <<n, j>>: position j of the nth block.                            *)
Passed(p, i) ==
  UNION {{n} \X (1 .. (IF n = Len(p) THEN i - 1 ELSE Len(prog.code[p[n]]))) : n \in DOMAIN p}

Earlier(q, r) == q[1] < r[1] \/ (q[1] = r[1] /\ q[2] < r[2])

(* Without loops, for a load in the tree with the address v: on every path *)
(* to it, the last store to v is among its sources.  Of                    *)
(* src/src/analyze-reg-src.c:144-149 and src/src/analyze-reg-src.c:174-204. *)
StoresFound ==
  Returning /\ Acyclic /\ Plain /\ Regular =>
    \A x \in {x \in 2 .. Len(top.tree) : Inst(top.tree[x].node, top.tree[x].index).op = "ld"} :
      LET b == top.tree[x].node
          i == top.tree[x].index
      IN  \A p \in Paths(b) :
            LET address == Address(p, Len(p), i)
                stores == {q \in Passed(p, i) : /\ Inst(p[q[1]], q[2]).op = "st"
                                               /\ Address(p, q[1], q[2]) = address}
            IN  address # {} =>
                  \A q \in stores : (\A r \in stores : ~Earlier(q, r)) =>
                    <<p[q[1]], q[2]>> \in StoreBranches(top.tree, x, 1)

-----------------------------------------------------------------------------
(* The loads and stores of a program.  Feed says that S has everything     *)
(* that the address of m is made from: what writes its temp, what writes   *)
(* an operand of those, and so on, and every store if a load is among it.  *)
Positions(p) == UNION {{b} \X DOMAIN p.code[b] : b \in DOMAIN p.code}
InstAt(p, m) == p.code[m[1]][m[2]]
StoresOf(p) == {m \in Positions(p) : InstAt(p, m).op = "st"}
LoadsOf(p) == {m \in Positions(p) : InstAt(p, m).op = "ld"}
WritersTo(p, temps) == {m \in Positions(p) : Range(InstAt(p, m).out) \cap temps # {}}

Feed(p, m, S) ==
  /\ WritersTo(p, {InstAt(p, m).in[AddressArg(InstAt(p, m))]}) \subseteq S
  /\ \A q \in S : /\ WritersTo(p, Range(InstAt(p, q).in)) \subseteq S
                  /\ q \in LoadsOf(p) => StoresOf(p) \subseteq S

(* No address depends on itself.                                           *)
Grounded(p) ==
  \A m \in LoadsOf(p) \cup StoresOf(p) :
    \E S \in SUBSET Positions(p) : Feed(p, m, S) /\ m \notin S

(* No search is started that is under way already: each nested call is for *)
(* another instruction, so their number is bounded by the program's.  It   *)
(* holds of grounded programs.  Of src/src/common.c:186 and                *)
(* src/src/common.c:207, where the calls are.                              *)
NoReentry ==
  \A d, e \in DOMAIN frames :
    d # e /\ frames[d].tree[1].node = frames[e].tree[1].node
      => frames[d].tree[1].index # frames[e].tree[1].index \/ d = 1 \/ e = 1

(* find_sources returns, with no failed assertion.  Of                     *)
(* src/src/analyze-reg-src.c:124-244.                                      *)
Terminates == <>(status = "done")

(* The analysis is to `find instructions that contribute to the value of   *)
(* given TCG register' (src/src/dump-ir.c:98): those with a definition     *)
(* that reaches the operand, or an operand of one of those.                *)
Contributors ==
  LET Defs(p) == UNION {ReachingDefs(p[1], p[2], t) :
                          t \in {t \in Range(Inst(p[1], p[2]).in) : ~IsConst(t)}}
      root == top.tree[1]
      found[n \in Nat] ==
        IF n = 0 THEN ReachingDefs(root.node, root.index, Operand(top.tree, 1, top.arg))
                 ELSE found[n - 1] \cup UNION {Defs(p) : p \in found[n - 1]}
  IN  found[FoldLeft(LAMBDA len, c : len + Len(c), 0, prog.code)]

ContributorsFound ==
  status = "done" =>
    Contributors \subseteq {<<info.node, info.index>> : info \in Range(top.tree)}

(* An operand never has more than SRC_INFO_MAX_BRANCHES_PER_CHILD sources  *)
(* (src/src/analyze-reg-src.h:5).                                          *)
BranchesFit == status # "overrun"
=============================================================================
