--------------------------- MODULE MaxStackProofs ---------------------------
(***************************************************************************)
(* Proofs about MaxStack for every set of programs, every Top and every    *)
(* QueueFactor: the analysis is type-correct, what it leaves when it is    *)
(* done solves the data-flow equations, and it lies below every solution.  *)
(*                                                                         *)
(* The invariant is the usual one of a worklist, made to fit this code:    *)
(* an edge that is neither queued nor being processed is satisfied, and    *)
(* the rows of its source are up to date.                                  *)
(***************************************************************************)
EXTENDS MaxStack, NumberLemmas, SequenceTheorems, TLAPS

Running == {"drain", "transfer", "combine", "final", "done"}

Written(m) ==
  /\ stackState[m][1] \in State
  /\ LessEq(Entry(m), stackState[m][1])

(* The first j rows of block m follow from each other.                     *)
PrefixOK(m, j) ==
  \A k \in 1 .. j :
    /\ stackState[m][k] \in State
    /\ stackState[m][k] =
         Apply(IF k = 1 THEN stackState[m][1] ELSE stackState[m][k - 1],
               prog.inst[m][k])

Consistent(m) == PrefixOK(m, Size(m))

InSeq(e, s) == \E i \in 1 .. Len(s) : s[i] = e

Current(e) == pc \in {"transfer", "combine"} /\ dst # 0 /\ e = <<src, dst>>

Pending(e) == InSeq(e, queue) \/ Current(e)

(* The edge from m to its k-th successor carries nothing new.              *)
Satisfied(m, k) ==
  /\ Consistent(m)
  /\ LessEq(stackState[m][Size(m)], stackState[prog.succ[m][k]][1])

EntriesInv ==
  /\ pc = "init" => \A m \in Nodes : m < node => Written(m)
  /\ pc \in Running => \A m \in Nodes : Written(m)

TransferInv ==
  /\ pc \in {"transfer", "combine"} =>
       /\ src \in Nodes
       /\ ins <= Size(src) + 1
       /\ acc = stackState[src][IF ins = 1 THEN 1 ELSE ins - 1]
       /\ PrefixOK(src, ins - 1)
  /\ pc = "combine" => dst \in Nodes /\ ins = Size(src) + 1

InFinalPass == pc = "final" \/ (pc = "transfer" /\ dst = 0)

FinalInv ==
  /\ InFinalPass \/ pc = "done" => queue = << >>
  /\ pc = "final" => \A m \in Nodes : m < node => Consistent(m)
  /\ pc = "transfer" /\ dst = 0 =>
       node = src + 1 /\ \A m \in Nodes : m < src => Consistent(m)
  /\ pc = "done" => \A m \in Nodes : Consistent(m)

EdgesInv ==
  /\ pc = "init" => \A m \in Nodes : \A k \in 1 .. Len(prog.succ[m]) :
       m < node => InSeq(<<m, prog.succ[m][k]>>, queue)
  /\ pc \in Running => \A m \in Nodes : \A k \in 1 .. Len(prog.succ[m]) :
       Pending(<<m, prog.succ[m][k]>>) \/ Satisfied(m, k)

IInv == TypeOK /\ EntriesInv /\ TransferInv /\ FinalInv /\ EdgesInv

-----------------------------------------------------------------------------
(* The lattice.                                                            *)

LEMMA JoinProps ==
  ASSUME NEW s \in State, NEW t \in State
  PROVE  /\ Join(s, t) \in State
         /\ LessEq(s, Join(s, t)) /\ LessEq(t, Join(s, t))
  BY MaxStackAssumption DEF State, Join, MAX, LessEq, Bottom

LEMMA JoinLeast ==
  ASSUME NEW s \in State, NEW t \in State, NEW u \in State,
         LessEq(s, u), LessEq(t, u)
  PROVE  LessEq(Join(s, t), u)
  BY MaxStackAssumption DEF State, Join, MAX, LessEq, Bottom

LEMMA LessEqOrder ==
  /\ \A s \in State : LessEq(s, s)
  /\ \A s, t, u \in State : LessEq(s, t) /\ LessEq(t, u) => LessEq(s, u)
  BY MaxStackAssumption DEF State, LessEq, Bottom

(* Apply, component by component.                                          *)
LEMMA ApplyCases ==
  ASSUME NEW s \in State, NEW i \in Instruction
  PROVE  \/ i.op = "ld" /\ Apply(s, i) = [ld |-> MAX(s.ld, i.off), st |-> s.st]
         \/ i.op = "st" /\ Apply(s, i) = [ld |-> s.ld, st |-> MAX(s.st, i.off)]
         \/ /\ i.op \in {"helper", "pc_write"} /\ i.clobbers
            /\ Apply(s, i) = [ld |-> Top, st |-> Top]
         \/ /\ i.op \notin {"ld", "st"}
            /\ ~(i.op \in {"helper", "pc_write"} /\ i.clobbers)
            /\ Apply(s, i) = s
  <1>1. CASE i.op = "ld"
    BY <1>1 DEF Apply, State
  <1>2. CASE i.op = "st"
    BY <1>2 DEF Apply, State
  <1>3. CASE i.op \in {"helper", "pc_write"} /\ i.clobbers
    BY <1>3 DEF Apply
  <1>4. CASE /\ i.op \notin {"ld", "st"}
             /\ ~(i.op \in {"helper", "pc_write"} /\ i.clobbers)
    BY <1>4 DEF Apply
  <1> QED BY <1>1, <1>2, <1>3, <1>4

LEMMA ApplyProps ==
  ASSUME NEW s \in State, NEW i \in Instruction
  PROVE  /\ Apply(s, i) \in State
         /\ LessEq(s, Apply(s, i))
         /\ Apply(Apply(s, i), i) = Apply(s, i)
  <1>1. i.off \in 0 .. (Top - 1)
    BY DEF Instruction, Offsets
  <1>2. /\ s.ld \in Bottom .. Top /\ s.st \in Bottom .. Top
        /\ s = [ld |-> s.ld, st |-> s.st]
    BY DEF State
  <1>3. Apply(s, i) \in State /\ LessEq(s, Apply(s, i))
    BY <1>1, <1>2, ApplyCases, MaxStackAssumption DEF State, MAX, LessEq, Bottom
  <1>4. Apply(Apply(s, i), i) = Apply(s, i)
    <2> DEFINE t == Apply(s, i)
    <2>1. t \in State
      BY <1>3
    <2> HIDE DEF t
    <2>2. CASE i.op = "ld"
      <3>1. t = [ld |-> MAX(s.ld, i.off), st |-> s.st]
        BY <2>2, ApplyCases DEF t
      <3>2. Apply(t, i) = [ld |-> MAX(t.ld, i.off), st |-> t.st]
        BY <2>1, <2>2, ApplyCases
      <3> QED BY <1>1, <1>2, <3>1, <3>2, MaxStackAssumption DEF MAX, Bottom, t
    <2>3. CASE i.op = "st"
      <3>1. t = [ld |-> s.ld, st |-> MAX(s.st, i.off)]
        BY <2>3, ApplyCases DEF t
      <3>2. Apply(t, i) = [ld |-> t.ld, st |-> MAX(t.st, i.off)]
        BY <2>1, <2>3, ApplyCases
      <3> QED BY <1>1, <1>2, <3>1, <3>2, MaxStackAssumption DEF MAX, Bottom, t
    <2>4. CASE i.op \notin {"ld", "st"}
      <3>1. t = s \/ t = [ld |-> Top, st |-> Top]
        BY <2>4, ApplyCases DEF t
      <3>2. \/ i.clobbers /\ i.op \in {"helper", "pc_write"}
               /\ Apply(t, i) = [ld |-> Top, st |-> Top]
               /\ t = [ld |-> Top, st |-> Top]
            \/ Apply(t, i) = t
        BY <2>1, <2>4, ApplyCases DEF t
      <3> QED BY <3>1, <3>2 DEF t
    <2> QED BY <2>2, <2>3, <2>4
  <1> QED BY <1>3, <1>4

LEMMA ApplyMonotone ==
  ASSUME NEW s \in State, NEW t \in State, NEW i \in Instruction,
         LessEq(s, t)
  PROVE  LessEq(Apply(s, i), Apply(t, i))
  <1>1. /\ i.off \in 0 .. (Top - 1)
        /\ s.ld \in Bottom .. Top /\ s.st \in Bottom .. Top
        /\ t.ld \in Bottom .. Top /\ t.st \in Bottom .. Top
    BY DEF Instruction, Offsets, State
  <1>2. CASE i.op = "ld"
    <2>1. /\ Apply(s, i) = [ld |-> MAX(s.ld, i.off), st |-> s.st]
          /\ Apply(t, i) = [ld |-> MAX(t.ld, i.off), st |-> t.st]
      BY <1>2, ApplyCases
    <2> QED BY <1>1, <2>1, MaxStackAssumption DEF MAX, LessEq, Bottom
  <1>3. CASE i.op = "st"
    <2>1. /\ Apply(s, i) = [ld |-> s.ld, st |-> MAX(s.st, i.off)]
          /\ Apply(t, i) = [ld |-> t.ld, st |-> MAX(t.st, i.off)]
      BY <1>3, ApplyCases
    <2> QED BY <1>1, <2>1, MaxStackAssumption DEF MAX, LessEq, Bottom
  <1>4. CASE i.op \notin {"ld", "st"}
    <2>1. \/ Apply(s, i) = s /\ Apply(t, i) = t
          \/ Apply(s, i) = Apply(t, i) /\ Apply(s, i) = [ld |-> Top, st |-> Top]
      BY <1>4, ApplyCases
    <2> QED BY <2>1, MaxStackAssumption DEF LessEq
  <1> QED BY <1>2, <1>3, <1>4

LEMMA EntryType == \A m : Entry(m) \in State /\ Entry(m).ld \in Int /\ Entry(m).st \in Int
  BY MaxStackAssumption DEF Entry, State, Bottom

(* What the type invariant says of the graph.                              *)
LEMMA GraphFacts ==
  ASSUME TypeOK
  PROVE  /\ prog.n \in Nat
         /\ \A m \in Nodes :
              /\ Size(m) \in Nat /\ Size(m) >= 1
              /\ \A k \in 1 .. Size(m) : prog.inst[m][k] \in Instruction
              /\ Len(prog.succ[m]) \in Nat
              /\ \A k \in 1 .. Len(prog.succ[m]) : prog.succ[m][k] \in Nodes
              /\ OutEdges(m) \in Seq(Nodes \X Nodes)
              /\ Len(OutEdges(m)) = Len(prog.succ[m])
              /\ \A k \in 1 .. Len(prog.succ[m]) :
                   OutEdges(m)[k] = <<m, prog.succ[m][k]>>
  <1>1. prog.n \in Nat
    BY DEF TypeOK, IsProgram
  <1> SUFFICES ASSUME NEW m \in Nodes
               PROVE  /\ Size(m) \in Nat /\ Size(m) >= 1
                      /\ \A k \in 1 .. Size(m) : prog.inst[m][k] \in Instruction
                      /\ Len(prog.succ[m]) \in Nat
                      /\ \A k \in 1 .. Len(prog.succ[m]) : prog.succ[m][k] \in Nodes
                      /\ OutEdges(m) \in Seq(Nodes \X Nodes)
                      /\ Len(OutEdges(m)) = Len(prog.succ[m])
                      /\ \A k \in 1 .. Len(prog.succ[m]) :
                           OutEdges(m)[k] = <<m, prog.succ[m][k]>>
    BY <1>1
  <1>2. /\ prog.inst[m] \in Seq(Instruction) /\ Len(prog.inst[m]) >= 1
        /\ prog.succ[m] \in Seq(Nodes)
    BY DEF TypeOK, IsProgram, Nodes
  <1>3. /\ Size(m) \in Nat /\ Size(m) >= 1
        /\ \A k \in 1 .. Size(m) : prog.inst[m][k] \in Instruction
    BY <1>2 DEF Size
  <1>4. /\ Len(prog.succ[m]) \in Nat
        /\ \A k \in 1 .. Len(prog.succ[m]) : prog.succ[m][k] \in Nodes
    BY <1>2
  <1>5. /\ OutEdges(m) \in Seq(Nodes \X Nodes)
        /\ Len(OutEdges(m)) = Len(prog.succ[m])
        /\ \A k \in 1 .. Len(prog.succ[m]) : OutEdges(m)[k] = <<m, prog.succ[m][k]>>
    BY <1>4 DEF OutEdges
  <1> QED BY <1>3, <1>4, <1>5

(* Membership in the worklist.                                             *)
LEMMA InSeqConcat ==
  ASSUME NEW S, NEW s \in Seq(S), NEW t \in Seq(S), NEW e
  PROVE  InSeq(e, s \o t) <=> InSeq(e, s) \/ InSeq(e, t)
  <1>1. /\ Len(s \o t) = Len(s) + Len(t)
        /\ \A i \in 1 .. (Len(s) + Len(t)) :
             (s \o t)[i] = IF i <= Len(s) THEN s[i] ELSE t[i - Len(s)]
    OBVIOUS
  <1>2. ASSUME InSeq(e, s \o t) PROVE InSeq(e, s) \/ InSeq(e, t)
    <2>1. PICK i \in 1 .. Len(s \o t) : (s \o t)[i] = e
      BY <1>2 DEF InSeq
    <2>2. CASE i <= Len(s)
      BY <1>1, <2>1, <2>2 DEF InSeq
    <2>3. CASE i > Len(s)
      <3>1. i - Len(s) \in 1 .. Len(t) /\ t[i - Len(s)] = e
        BY <1>1, <2>1, <2>3
      <3> QED BY <3>1 DEF InSeq
    <2> QED BY <2>1, <2>2, <2>3
  <1>3. ASSUME InSeq(e, s) PROVE InSeq(e, s \o t)
    BY <1>1, <1>3 DEF InSeq
  <1>4. ASSUME InSeq(e, t) PROVE InSeq(e, s \o t)
    <2>1. PICK i \in 1 .. Len(t) : t[i] = e
      BY <1>4 DEF InSeq
    <2>2. i + Len(s) \in 1 .. Len(s \o t) /\ (s \o t)[i + Len(s)] = e
      BY <1>1, <2>1
    <2> QED BY <2>2 DEF InSeq
  <1> QED BY <1>2, <1>3, <1>4

LEMMA InSeqHeadTail ==
  ASSUME NEW S, NEW s \in Seq(S), s # << >>, NEW e, InSeq(e, s)
  PROVE  e = Head(s) \/ InSeq(e, Tail(s))
  <1>1. PICK i \in 1 .. Len(s) : s[i] = e
    BY DEF InSeq
  <1>2. CASE i = 1
    BY <1>1, <1>2
  <1>3. CASE i > 1
    <2>1. i - 1 \in 1 .. Len(Tail(s)) /\ Tail(s)[i - 1] = e
      BY <1>1, <1>3
    <2> QED BY <2>1 DEF InSeq
  <1> QED BY <1>1, <1>2, <1>3

LEMMA InSeqEmpty == \A e : ~InSeq(e, << >>)
  BY DEF InSeq

-----------------------------------------------------------------------------
(* What a step that writes one row, or none, leaves alone.                 *)

LEMMA RowUpdate ==
  ASSUME TypeOK, UNCHANGED prog,
         NEW m \in Nodes, NEW k \in 1 .. Size(m), NEW v \in State,
         stackState' = [stackState EXCEPT ![m][k] = v]
  PROVE  /\ stackState'[m][k] = v
         /\ \A n \in Nodes : \A j \in 1 .. Size(n) :
              n # m \/ j # k => stackState'[n][j] = stackState[n][j]
         /\ DOMAIN stackState' = Nodes
         /\ \A n \in Nodes :
              stackState'[n] \in [1 .. Size(n) -> State \cup {Uninit}]
  BY DEF TypeOK

LEMMA RowsFrame ==
  ASSUME UNCHANGED <<prog, stackState>>
  PROVE  /\ Nodes' = Nodes
         /\ \A m : /\ Size(m)' = Size(m)
                   /\ Written(m)' <=> Written(m)
                   /\ Consistent(m)' <=> Consistent(m)
                   /\ \A j : PrefixOK(m, j)' <=> PrefixOK(m, j)
                   /\ \A k : Satisfied(m, k)' <=> Satisfied(m, k)
  BY DEF Nodes, Size, Written, Consistent, PrefixOK, Satisfied

LEMMA ConsistentKept ==
  ASSUME TypeOK, UNCHANGED prog, NEW m \in Nodes,
         \A j \in 1 .. Size(m) : stackState'[m][j] = stackState[m][j],
         Consistent(m)
  PROVE  Consistent(m)'
  <1>1. Size(m)' = Size(m) /\ Size(m) \in Nat /\ Size(m) >= 1
    BY GraphFacts DEF Size
  <1>2. \A j \in 1 .. Size(m) : j = 1 \/ j - 1 \in 1 .. Size(m)
    BY <1>1
  <1>3. \A j \in 1 .. Size(m) : prog.inst'[m][j] = prog.inst[m][j]
    OBVIOUS
  <1>4. PrefixOK(m, Size(m))'
    BY <1>1, <1>2, <1>3 DEF PrefixOK, Consistent
  <1> QED BY <1>1, <1>4 DEF Consistent

(* Raising entry rows keeps an edge satisfied when the rows of its source  *)
(* stay as they are.                                                       *)
LEMMA SatisfiedKept ==
  ASSUME TypeOK, UNCHANGED prog,
         \A n \in Nodes : Written(n),
         \A n \in Nodes : stackState'[n][1] \in State
                          /\ LessEq(stackState[n][1], stackState'[n][1]),
         NEW m \in Nodes, NEW k \in 1 .. Len(prog.succ[m]),
         \A j \in 1 .. Size(m) : stackState'[m][j] = stackState[m][j],
         Satisfied(m, k)
  PROVE  Satisfied(m, k)'
  <1>1. Size(m)' = Size(m) /\ Size(m) \in Nat /\ Size(m) >= 1
    BY GraphFacts DEF Size
  <1>2. Consistent(m)'
    BY ConsistentKept DEF Satisfied
  <1>3. prog.succ[m][k] \in Nodes /\ prog.succ'[m][k] = prog.succ[m][k]
    BY GraphFacts
  <1>4. stackState[m][Size(m)] \in State /\ stackState[prog.succ[m][k]][1] \in State
    BY <1>1, <1>3 DEF Satisfied, Consistent, PrefixOK, Written
  <1>5. LessEq(stackState[m][Size(m)], stackState'[prog.succ[m][k]][1])
    BY <1>3, <1>4, LessEqOrder DEF Satisfied
  <1> QED BY <1>1, <1>2, <1>3, <1>5 DEF Satisfied

LEMMA PushType ==
  ASSUME TypeOK, NEW m \in Nodes, NEW next, PushOutEdges(m, next)
  PROVE  /\ queue' \in Seq(Nodes \X Nodes)
         /\ \/ pc' = "aborted"
            \/ /\ pc' = next
               /\ \A e : InSeq(e, queue) => InSeq(e, queue')
               /\ \A k \in 1 .. Len(prog.succ[m]) :
                    InSeq(<<m, prog.succ[m][k]>>, queue')
  <1>1. OutEdges(m) \in Seq(Nodes \X Nodes) /\ queue \in Seq(Nodes \X Nodes)
    BY GraphFacts DEF TypeOK
  <1>2. CASE Len(queue) + Len(prog.succ[m]) <= cap
    <2>1. queue' = queue \o OutEdges(m) /\ pc' = next
      BY <1>2 DEF PushOutEdges
    <2>2. \A e : InSeq(e, queue') <=> InSeq(e, queue) \/ InSeq(e, OutEdges(m))
      BY <1>1, <2>1, InSeqConcat
    <2>3. \A k \in 1 .. Len(prog.succ[m]) :
            InSeq(<<m, prog.succ[m][k]>>, OutEdges(m))
      BY GraphFacts DEF InSeq
    <2> QED BY <1>1, <2>1, <2>2, <2>3
  <1>3. CASE ~(Len(queue) + Len(prog.succ[m]) <= cap)
    BY <1>1, <1>3 DEF PushOutEdges
  <1> QED BY <1>2, <1>3

-----------------------------------------------------------------------------
(* One lemma for each action: it preserves the invariant.                  *)

LEMMA InitIInv == Init => IInv
  <1> SUFFICES ASSUME Init PROVE IInv
    OBVIOUS
  <1>1. IsProgram(prog)
    BY MaxStackAssumption DEF Init
  <1>2. TypeOK
    BY <1>1, MaxStackAssumption DEF Init, TypeOK, IsProgram, Nodes, Size, State, Bottom
  <1>3. EntriesInv /\ TransferInv /\ FinalInv /\ EdgesInv
    BY DEF Init, EntriesInv, TransferInv, FinalInv, InFinalPass, EdgesInv, Running
  <1> QED BY <1>2, <1>3 DEF IInv

LEMMA CountEdgesIInv == IInv /\ CountEdges => IInv'
  <1> SUFFICES ASSUME IInv, CountEdges PROVE IInv'
    OBVIOUS
  <1> USE DEF IInv
  <1>1. TypeOK'
    <2>1. node \in Nodes
      BY DEF TypeOK, CountEdges, IsProgram, Nodes
    <2>2. Len(prog.succ[node]) \in Nat
      BY <2>1, GraphFacts
    <2>3. node' \in 1 .. (prog.n + 1)
      BY <2>1, GraphFacts DEF CountEdges, Nodes
    <2> QED BY <2>1, <2>2, <2>3 DEF TypeOK, CountEdges, Nodes, Size
  <1>2. (EntriesInv /\ TransferInv /\ FinalInv /\ EdgesInv)'
    BY DEF CountEdges, EntriesInv, TransferInv, FinalInv, InFinalPass, EdgesInv, Running
  <1> QED BY <1>1, <1>2

LEMMA AllocQueueIInv == IInv /\ AllocQueue => IInv'
  <1> SUFFICES ASSUME IInv, AllocQueue PROVE IInv'
    OBVIOUS
  <1> USE DEF IInv
  <1>1. TypeOK'
    <2>1. cap * QueueFactor \in Nat
      BY MaxStackAssumption DEF TypeOK
    <2> QED BY <2>1, GraphFacts DEF TypeOK, AllocQueue, Nodes, Size
  <1>2. (EntriesInv /\ TransferInv /\ FinalInv /\ EdgesInv)'
    BY DEF AllocQueue, EntriesInv, TransferInv, FinalInv, InFinalPass, EdgesInv,
           Running, Nodes
  <1> QED BY <1>1, <1>2

LEMMA InitNodeIInv == IInv /\ InitNode => IInv'
  <1> SUFFICES ASSUME IInv, InitNode PROVE IInv'
    OBVIOUS
  <1> USE DEF IInv
  <1>1. node \in Nodes /\ 1 \in 1 .. Size(node) /\ prog' = prog
    BY GraphFacts DEF TypeOK, InitNode, Nodes
  <1>2. /\ stackState'[node][1] = Entry(node)
        /\ \A n \in Nodes : \A j \in 1 .. Size(n) :
             n # node \/ j # 1 => stackState'[n][j] = stackState[n][j]
        /\ DOMAIN stackState' = Nodes
        /\ \A n \in Nodes :
             stackState'[n] \in [1 .. Size(n) -> State \cup {Uninit}]
    BY <1>1, RowUpdate, EntryType DEF InitNode
  <1>3. PushOutEdges(node, "init")
    BY DEF InitNode
  <1>4. TypeOK'
    <2>1. queue' \in Seq(Nodes \X Nodes) /\ pc' \in {"aborted", "init"}
      BY <1>1, <1>3, PushType
    <2>2. node' \in 1 .. (prog.n + 1)
      BY <1>1, GraphFacts DEF InitNode, Nodes
    <2> QED BY <1>1, <1>2, <2>1, <2>2 DEF TypeOK, InitNode, Nodes, Size
  <1>5. CASE pc' = "aborted"
    BY <1>4, <1>5 DEF EntriesInv, TransferInv, FinalInv, InFinalPass, EdgesInv, Running
  <1>6. CASE pc' # "aborted"
    <2>1. /\ pc' = "init"
          /\ \A e : InSeq(e, queue) => InSeq(e, queue')
          /\ \A k \in 1 .. Len(prog.succ[node]) :
               InSeq(<<node, prog.succ[node][k]>>, queue')
      BY <1>1, <1>3, <1>6, PushType
    <2>2. node' = node + 1 /\ pc = "init"
      BY DEF InitNode
    <2>3. EntriesInv'
      <3>1. \A m \in Nodes : m = node => Written(m)'
        BY <1>1, <1>2, EntryType, LessEqOrder DEF Written
      <3>2. \A m \in Nodes : m < node => Written(m)'
        <4> SUFFICES ASSUME NEW m \in Nodes, m < node PROVE Written(m)'
          OBVIOUS
        <4>1. Written(m)
          BY <2>2 DEF EntriesInv
        <4>2. stackState'[m][1] = stackState[m][1]
          BY <1>1, <1>2, GraphFacts DEF Nodes
        <4> QED BY <4>1, <4>2 DEF Written
      <3>3. \A m \in Nodes : m < node + 1 => m = node \/ m < node
        BY <1>1, GraphFacts DEF Nodes
      <3> QED BY <1>1, <2>1, <2>2, <3>1, <3>2, <3>3 DEF EntriesInv, Running, Nodes
    <2>4. EdgesInv'
      <3>1. \A m \in Nodes : m < node + 1 => m = node \/ m < node
        BY <1>1, GraphFacts DEF Nodes
      <3> QED BY <1>1, <2>1, <2>2, <3>1 DEF EdgesInv, Running, Nodes
    <2>5. (TransferInv /\ FinalInv)'
      BY <2>1 DEF TransferInv, FinalInv, InFinalPass
    <2> QED BY <1>4, <2>3, <2>4, <2>5
  <1> QED BY <1>5, <1>6

LEMMA InitDoneIInv == IInv /\ InitDone => IInv'
  <1> SUFFICES ASSUME IInv, InitDone PROVE IInv'
    OBVIOUS
  <1> USE DEF IInv
  <1>1. TypeOK'
    BY DEF TypeOK, InitDone, Nodes, Size
  <1>2. \A m \in Nodes : m < node
    BY GraphFacts DEF TypeOK, InitDone, Nodes
  <1>3. EntriesInv'
    BY <1>2, RowsFrame DEF EntriesInv, InitDone, Running
  <1>4. EdgesInv'
    BY <1>2, RowsFrame DEF EdgesInv, InitDone, Running, Pending
  <1>5. (TransferInv /\ FinalInv)'
    BY DEF InitDone, TransferInv, FinalInv, InFinalPass
  <1> QED BY <1>1, <1>3, <1>4, <1>5

LEMMA PopIInv == IInv /\ Pop => IInv'
  <1> SUFFICES ASSUME IInv, Pop PROVE IInv'
    OBVIOUS
  <1> USE DEF IInv
  <1>1. /\ Head(queue) \in Nodes \X Nodes
        /\ Tail(queue) \in Seq(Nodes \X Nodes)
    BY DEF TypeOK, Pop
  <1>2. /\ src' \in Nodes /\ dst' \in Nodes
        /\ Head(queue) = <<src', dst'>>
    BY <1>1 DEF Pop
  <1>3. 0 \notin Nodes
    BY GraphFacts DEF Nodes
  <1>4. stackState[src'][1] \in State /\ \A m \in Nodes : Written(m)
    BY <1>2 DEF EntriesInv, Pop, Running, Written
  <1>5. TypeOK'
    BY <1>1, <1>2, <1>4 DEF TypeOK, Pop, Nodes, Size
  <1>6. EntriesInv'
    BY <1>4, RowsFrame DEF EntriesInv, Pop, Running
  <1>7. TransferInv'
    <2>1. Size(src') \in Nat
      BY <1>2, GraphFacts
    <2>2. ins' = 1 /\ ins' <= Size(src)' + 1
      BY <2>1 DEF Pop, Size
    <2>3. PrefixOK(src, ins - 1)'
      BY <2>2 DEF PrefixOK
    <2> QED BY <1>2, <2>2, <2>3 DEF TransferInv, Pop, Nodes
  <1>8. FinalInv'
    BY <1>2, <1>3 DEF FinalInv, InFinalPass, Pop
  <1>9. EdgesInv'
    <2> SUFFICES ASSUME NEW m \in Nodes, NEW k \in 1 .. Len(prog.succ[m])
                 PROVE  Pending(<<m, prog.succ[m][k]>>)' \/ Satisfied(m, k)'
      BY DEF EdgesInv, Pop, Nodes
    <2> DEFINE e == <<m, prog.succ[m][k]>>
    <2>1. InSeq(e, queue) \/ Satisfied(m, k)
      BY DEF EdgesInv, Pop, Running, Pending, Current
    <2>2. CASE Satisfied(m, k)
      BY <2>2, RowsFrame DEF Pop
    <2>3. CASE InSeq(e, queue)
      <3>1. e = Head(queue) \/ InSeq(e, Tail(queue))
        BY <2>3, InSeqHeadTail DEF TypeOK, Pop
      <3> QED BY <1>2, <1>3, <3>1 DEF Pop, Pending, Current
    <2> QED BY <2>1, <2>2, <2>3
  <1> QED BY <1>5, <1>6, <1>7, <1>8, <1>9

LEMMA DrainedIInv == IInv /\ Drained => IInv'
  <1> SUFFICES ASSUME IInv, Drained PROVE IInv'
    OBVIOUS
  <1> USE DEF IInv
  <1>1. TypeOK'
    BY GraphFacts DEF TypeOK, Drained, Nodes, Size
  <1>2. EntriesInv'
    BY RowsFrame DEF EntriesInv, Drained, Running
  <1>3. (TransferInv /\ FinalInv)'
    BY DEF Drained, TransferInv, FinalInv, InFinalPass, Nodes
  <1>4. EdgesInv'
    BY RowsFrame DEF EdgesInv, Drained, Running, Pending, Current
  <1> QED BY <1>1, <1>2, <1>3, <1>4

LEMMA TransferInstIInv == IInv /\ TransferInst => IInv'
  <1> SUFFICES ASSUME IInv, TransferInst PROVE IInv'
    OBVIOUS
  <1> USE DEF IInv
  <1> DEFINE i == prog.inst[src][ins]
             r == IF ins = 1 THEN 1 ELSE ins - 1
  <1>1. /\ src \in Nodes /\ ins \in 1 .. Size(src) /\ i \in Instruction
        /\ acc = stackState[src][r] /\ acc \in State
        /\ PrefixOK(src, ins - 1)
        /\ \A m \in Nodes : Written(m)
    BY GraphFacts DEF TransferInst, TransferInv, TypeOK, EntriesInv, Running
  <1>2. acc' = Apply(acc, i) /\ acc' \in State /\ LessEq(acc, acc')
        /\ Apply(acc', i) = acc'
    BY <1>1, ApplyProps DEF TransferInst
  <1>3. /\ stackState'[src][ins] = acc'
        /\ \A n \in Nodes : \A j \in 1 .. Size(n) :
             n # src \/ j # ins => stackState'[n][j] = stackState[n][j]
        /\ DOMAIN stackState' = Nodes
        /\ \A n \in Nodes :
             stackState'[n] \in [1 .. Size(n) -> State \cup {Uninit}]
    BY <1>1, <1>2, RowUpdate DEF TransferInst
  <1>4. /\ prog' = prog /\ src' = src /\ dst' = dst /\ pc' = pc /\ node' = node
        /\ queue' = queue /\ cap' = cap /\ ins' = ins + 1
        /\ Nodes' = Nodes /\ \A m : Size(m)' = Size(m)
    BY DEF TransferInst, Nodes, Size
  <1> HIDE DEF i
  (* entry rows only rise *)
  <1>5. \A n \in Nodes : stackState'[n][1] \in State
                         /\ LessEq(stackState[n][1], stackState'[n][1])
    <2> SUFFICES ASSUME NEW n \in Nodes
                 PROVE  stackState'[n][1] \in State
                        /\ LessEq(stackState[n][1], stackState'[n][1])
      OBVIOUS
    <2>1. stackState[n][1] \in State /\ 1 \in 1 .. Size(n)
      BY <1>1, GraphFacts DEF Written
    <2>2. CASE n = src /\ ins = 1
      BY <1>1, <1>2, <1>3, <2>2
    <2>3. CASE ~(n = src /\ ins = 1)
      BY <1>3, <2>1, <2>3, LessEqOrder
    <2> QED BY <2>2, <2>3
  (* rows that are up to date are rewritten with the value they have *)
  <1>6. \A n \in Nodes : Consistent(n) =>
          \A j \in 1 .. Size(n) : stackState'[n][j] = stackState[n][j]
    <2> SUFFICES ASSUME Consistent(src)
                 PROVE  stackState'[src][ins] = stackState[src][ins]
      BY <1>3
    <2>1. stackState[src][ins] = Apply(acc, i)
      BY <1>1 DEF Consistent, PrefixOK, i
    <2> QED BY <1>2, <1>3, <2>1
  <1>7. TypeOK'
    BY <1>1, <1>2, <1>3, <1>4 DEF TypeOK
  <1>8. EntriesInv'
    <2>1. \A m \in Nodes : Written(m)'
      BY <1>1, <1>5, EntryType, LessEqOrder DEF Written
    <2> QED BY <1>4, <2>1 DEF EntriesInv, TransferInst
  <1>9. PrefixOK(src, ins - 1)'
    <2> SUFFICES ASSUME NEW k \in 1 .. ins
                 PROVE  /\ stackState'[src][k] \in State
                        /\ stackState'[src][k] =
                             Apply(IF k = 1 THEN stackState'[src][1]
                                   ELSE stackState'[src][k - 1], prog.inst[src][k])
      BY <1>1, <1>4 DEF PrefixOK
    <2>1. CASE k = ins /\ ins = 1
      BY <1>2, <1>3, <2>1 DEF i
    <2>2. CASE k = ins /\ ins # 1
      <3>1. ins - 1 \in 1 .. Size(src) /\ ins - 1 # ins
        BY <1>1, <2>2, GraphFacts
      <3>2. stackState'[src][ins - 1] = acc
        BY <1>1, <1>3, <2>2, <3>1
      <3> QED BY <1>2, <1>3, <2>2, <3>2 DEF i
    <2>3. CASE k < ins
      <3>1. /\ k \in 1 .. Size(src) /\ k # ins /\ k \in 1 .. (ins - 1)
            /\ k = 1 \/ (k - 1 \in 1 .. Size(src) /\ k - 1 # ins)
        BY <1>1, <2>3, GraphFacts
      <3>2. /\ stackState'[src][k] = stackState[src][k]
            /\ k = 1 \/ stackState'[src][k - 1] = stackState[src][k - 1]
        BY <1>1, <1>3, <3>1
      <3> QED BY <1>1, <3>1, <3>2 DEF PrefixOK
    <2> QED BY <1>1, <2>1, <2>2, <2>3, GraphFacts
  <1>10. TransferInv'
    <2>1. /\ ins' <= Size(src)' + 1 /\ ins' # 1 /\ ins' - 1 = ins
          /\ acc' = stackState'[src'][ins' - 1]
      BY <1>1, <1>3, <1>4, GraphFacts
    <2>2. pc = "transfer"
      BY DEF TransferInst
    <2> QED BY <1>1, <1>4, <1>9, <2>1, <2>2 DEF TransferInv
  <1>11. \A m \in Nodes : m # src /\ Consistent(m) => Consistent(m)'
    BY <1>3, <1>4, ConsistentKept
  <1>12. FinalInv'
    <2>1. \A m \in Nodes : m < src => m # src
      BY <1>1, GraphFacts DEF Nodes
    <2> QED BY <1>4, <1>11, <2>1 DEF FinalInv, InFinalPass, TransferInst
  <1>13. EdgesInv'
    <2> SUFFICES ASSUME NEW m \in Nodes, NEW k \in 1 .. Len(prog.succ[m])
                 PROVE  Pending(<<m, prog.succ[m][k]>>)' \/ Satisfied(m, k)'
      BY <1>4 DEF EdgesInv, TransferInst
    <2>1. Pending(<<m, prog.succ[m][k]>>) \/ Satisfied(m, k)
      BY DEF EdgesInv, TransferInst, Running
    <2>2. CASE Pending(<<m, prog.succ[m][k]>>)
      BY <1>4, <2>2 DEF Pending, Current
    <2>3. CASE Satisfied(m, k)
      <3>1. \A j \in 1 .. Size(m) : stackState'[m][j] = stackState[m][j]
        BY <1>6, <2>3 DEF Satisfied
      <3> QED BY <1>1, <1>4, <1>5, <2>3, <3>1, SatisfiedKept
    <2> QED BY <2>1, <2>2, <2>3
  <1> QED BY <1>7, <1>8, <1>10, <1>12, <1>13

LEMMA TransferEndIInv == IInv /\ TransferEnd => IInv'
  <1> SUFFICES ASSUME IInv, TransferEnd PROVE IInv'
    OBVIOUS
  <1> USE DEF IInv
  <1>1. /\ src \in Nodes /\ ins = Size(src) + 1 /\ PrefixOK(src, ins - 1)
        /\ Size(src) \in Nat
    BY GraphFacts DEF TransferEnd, TransferInv, TypeOK
  <1>2. Consistent(src)
    BY <1>1 DEF Consistent
  <1>3. TypeOK'
    BY DEF TypeOK, TransferEnd, Nodes, Size
  <1>4. EntriesInv'
    BY RowsFrame DEF EntriesInv, TransferEnd, Running
  <1>5. TransferInv'
    BY <1>1, RowsFrame DEF TransferInv, TransferEnd, TypeOK, Nodes, Size, PrefixOK
  <1>6. FinalInv'
    <2>1. CASE dst = 0
      <3>1. \A m \in Nodes : m < node => m = src \/ m < src
        BY <1>1, <2>1, GraphFacts DEF FinalInv, TransferEnd, Nodes
      <3> QED BY <1>2, <2>1, <3>1, RowsFrame DEF FinalInv, InFinalPass, TransferEnd
    <2>2. CASE dst # 0
      BY <2>2 DEF FinalInv, InFinalPass, TransferEnd
    <2> QED BY <2>1, <2>2
  <1>7. EdgesInv'
    BY RowsFrame DEF EdgesInv, TransferEnd, Running, Pending, Current
  <1> QED BY <1>3, <1>4, <1>5, <1>6, <1>7

LEMMA CoveredIInv == IInv /\ Covered => IInv'
  <1> SUFFICES ASSUME IInv, Covered PROVE IInv'
    OBVIOUS
  <1> USE DEF IInv
  <1>1. /\ src \in Nodes /\ ins = Size(src) + 1 /\ ins # 1 /\ ins - 1 = Size(src)
        /\ PrefixOK(src, ins - 1)
        /\ acc = stackState[src][IF ins = 1 THEN 1 ELSE ins - 1]
    BY GraphFacts DEF Covered, TransferInv, TypeOK
  <1>2. Consistent(src) /\ acc = stackState[src][Size(src)]
    BY <1>1 DEF Consistent
  <1>3. TypeOK'
    BY DEF TypeOK, Covered, Nodes, Size
  <1>4. EntriesInv'
    BY RowsFrame DEF EntriesInv, Covered, Running
  <1>5. (TransferInv /\ FinalInv)'
    BY DEF TransferInv, FinalInv, InFinalPass, Covered
  <1>6. EdgesInv'
    <2> SUFFICES ASSUME NEW m \in Nodes, NEW k \in 1 .. Len(prog.succ[m])
                 PROVE  Pending(<<m, prog.succ[m][k]>>)' \/ Satisfied(m, k)'
      BY DEF EdgesInv, Covered, Nodes
    <2>1. Pending(<<m, prog.succ[m][k]>>) \/ Satisfied(m, k)
      BY DEF EdgesInv, Covered, Running
    <2>2. CASE InSeq(<<m, prog.succ[m][k]>>, queue)
      BY <2>2 DEF Pending, Covered
    <2>3. CASE Current(<<m, prog.succ[m][k]>>)
      <3>1. m = src /\ prog.succ[m][k] = dst
        BY <2>3 DEF Current
      <3>2. Satisfied(m, k)
        BY <1>2, <3>1 DEF Satisfied, Covered
      <3> QED BY <3>2, RowsFrame DEF Covered
    <2>4. CASE Satisfied(m, k)
      BY <2>4, RowsFrame DEF Covered
    <2> QED BY <2>1, <2>2, <2>3, <2>4 DEF Pending
  <1> QED BY <1>3, <1>4, <1>5, <1>6

LEMMA RaiseIInv == IInv /\ Raise => IInv'
  <1> SUFFICES ASSUME IInv, Raise PROVE IInv'
    OBVIOUS
  <1> USE DEF IInv
  <1>1. /\ src \in Nodes /\ dst \in Nodes /\ ins - 1 = Size(src) /\ ins # 1
        /\ PrefixOK(src, ins - 1)
        /\ acc = stackState[src][IF ins = 1 THEN 1 ELSE ins - 1]
        /\ acc \in State /\ stackState[dst][1] \in State
        /\ \A m \in Nodes : Written(m)
    BY GraphFacts DEF Raise, TransferInv, TypeOK, EntriesInv, Running, Written
  <1>2. Consistent(src) /\ acc = stackState[src][Size(src)]
    BY <1>1 DEF Consistent
  <1> DEFINE v == Join(stackState[dst][1], acc)
  <1>3. v \in State /\ LessEq(stackState[dst][1], v) /\ LessEq(acc, v)
    BY <1>1, JoinProps
  <1>4. /\ prog' = prog /\ src' = src /\ dst' = dst /\ node' = node
        /\ cap' = cap /\ ins' = ins /\ acc' = acc
        /\ Nodes' = Nodes /\ \A m : Size(m)' = Size(m)
    BY DEF Raise, Nodes, Size
  <1>5. /\ stackState'[dst][1] = v
        /\ \A n \in Nodes : \A j \in 1 .. Size(n) :
             n # dst \/ j # 1 => stackState'[n][j] = stackState[n][j]
        /\ DOMAIN stackState' = Nodes
        /\ \A n \in Nodes :
             stackState'[n] \in [1 .. Size(n) -> State \cup {Uninit}]
    <2>1. 1 \in 1 .. Size(dst)
      BY <1>1, GraphFacts
    <2>2. stackState' = [stackState EXCEPT ![dst][1] = v]
      BY DEF Raise
    <2> QED BY <1>1, <1>3, <1>4, <2>1, <2>2, RowUpdate
  <1> HIDE DEF v
  <1>6. PushOutEdges(dst, "drain") /\ pc = "combine"
    BY DEF Raise
  <1>7. TypeOK'
    <2>1. queue' \in Seq(Nodes \X Nodes) /\ pc' \in {"aborted", "drain"}
      BY <1>1, <1>6, PushType
    <2> QED BY <1>4, <1>5, <2>1 DEF TypeOK
  <1>8. CASE pc' = "aborted"
    BY <1>7, <1>8 DEF EntriesInv, TransferInv, FinalInv, InFinalPass, EdgesInv, Running
  <1>9. CASE pc' # "aborted"
    <2>1. /\ pc' = "drain"
          /\ \A e : InSeq(e, queue) => InSeq(e, queue')
          /\ \A k \in 1 .. Len(prog.succ[dst]) :
               InSeq(<<dst, prog.succ[dst][k]>>, queue')
      BY <1>1, <1>6, <1>9, PushType
    <2>2. \A n \in Nodes : stackState'[n][1] \in State
                           /\ LessEq(stackState[n][1], stackState'[n][1])
      <3> SUFFICES ASSUME NEW n \in Nodes
                   PROVE  stackState'[n][1] \in State
                          /\ LessEq(stackState[n][1], stackState'[n][1])
        OBVIOUS
      <3>1. stackState[n][1] \in State /\ 1 \in 1 .. Size(n)
        BY <1>1, GraphFacts DEF Written
      <3>2. CASE n = dst
        BY <1>3, <1>5, <3>2
      <3>3. CASE n # dst
        BY <1>5, <3>1, <3>3, LessEqOrder
      <3> QED BY <3>2, <3>3
    <2>3. EntriesInv'
      <3>1. \A m \in Nodes : Written(m)'
        BY <1>1, <2>2, EntryType, LessEqOrder DEF Written
      <3> QED BY <1>4, <2>1, <3>1 DEF EntriesInv
    <2>4. (TransferInv /\ FinalInv)'
      BY <2>1 DEF TransferInv, FinalInv, InFinalPass
    <2>5. EdgesInv'
      <3> SUFFICES ASSUME NEW m \in Nodes, NEW k \in 1 .. Len(prog.succ[m])
                   PROVE  Pending(<<m, prog.succ[m][k]>>)' \/ Satisfied(m, k)'
        BY <1>4, <2>1 DEF EdgesInv
      <3>1. CASE m = dst
        BY <1>4, <2>1, <3>1 DEF Pending
      <3>2. CASE InSeq(<<m, prog.succ[m][k]>>, queue)
        BY <1>4, <2>1, <3>2 DEF Pending
      <3>3. CASE m # dst /\ Satisfied(m, k)
        <4>1. \A j \in 1 .. Size(m) : stackState'[m][j] = stackState[m][j]
          BY <1>5, <3>3
        <4> QED BY <1>1, <1>4, <2>2, <3>3, <4>1, SatisfiedKept
      <3>4. CASE m # dst /\ Current(<<m, prog.succ[m][k]>>)
        <4>1. m = src /\ prog.succ[m][k] = dst
          BY <3>4 DEF Current
        <4>2. \A j \in 1 .. Size(m) : stackState'[m][j] = stackState[m][j]
          BY <1>5, <3>4
        <4>3. Consistent(m)'
          BY <1>2, <1>4, <4>1, <4>2, ConsistentKept
        <4>4. Size(m) \in 1 .. Size(m)
          BY GraphFacts
        <4>5. stackState'[m][Size(m)] = acc
          BY <1>2, <4>1, <4>2, <4>4
        <4> QED BY <1>3, <1>4, <1>5, <4>1, <4>3, <4>5 DEF Satisfied
      <3>5. Pending(<<m, prog.succ[m][k]>>) \/ Satisfied(m, k)
        BY <1>6 DEF EdgesInv, Running
      <3> QED BY <3>1, <3>2, <3>3, <3>4, <3>5 DEF Pending
    <2> QED BY <1>7, <2>3, <2>4, <2>5
  <1> QED BY <1>8, <1>9

LEMMA FinalNodeIInv == IInv /\ FinalNode => IInv'
  <1> SUFFICES ASSUME IInv, FinalNode PROVE IInv'
    OBVIOUS
  <1> USE DEF IInv
  <1>1. node \in Nodes /\ node' \in 1 .. (prog.n + 1)
    BY GraphFacts DEF TypeOK, FinalNode, Nodes
  <1>2. stackState[node][1] \in State /\ Size(node) \in Nat
    BY <1>1, GraphFacts DEF EntriesInv, FinalNode, Running, Written
  <1>3. TypeOK'
    BY <1>1, <1>2 DEF TypeOK, FinalNode, Nodes, Size
  <1>4. EntriesInv'
    BY RowsFrame DEF EntriesInv, FinalNode, Running
  <1>5. TransferInv'
    <2>1. PrefixOK(src, ins - 1)'
      BY DEF PrefixOK, FinalNode
    <2>2. src' \in Nodes' /\ ins' = 1 /\ ins' <= Size(src)' + 1
      BY <1>1, <1>2 DEF FinalNode, Nodes, Size
    <2> QED BY <2>1, <2>2 DEF TransferInv, FinalNode
  <1>6. FinalInv'
    BY RowsFrame DEF FinalInv, InFinalPass, FinalNode
  <1>7. EdgesInv'
    <2>1. \A m \in Nodes : \A k \in 1 .. Len(prog.succ[m]) : Satisfied(m, k)
      BY InSeqEmpty DEF EdgesInv, FinalInv, InFinalPass, FinalNode, Running, Pending, Current
    <2> QED BY <2>1, RowsFrame DEF EdgesInv, FinalNode
  <1> QED BY <1>3, <1>4, <1>5, <1>6, <1>7

LEMMA FinishIInv == IInv /\ Finish => IInv'
  <1> SUFFICES ASSUME IInv, Finish PROVE IInv'
    OBVIOUS
  <1> USE DEF IInv
  <1>1. \A m \in Nodes : m < node
    BY GraphFacts DEF TypeOK, Finish, Nodes
  <1>2. TypeOK'
    BY DEF TypeOK, Finish, Nodes, Size
  <1>3. EntriesInv'
    BY RowsFrame DEF EntriesInv, Finish, Running
  <1>4. (TransferInv /\ FinalInv)'
    BY <1>1, RowsFrame DEF TransferInv, FinalInv, InFinalPass, Finish
  <1>5. EdgesInv'
    BY RowsFrame DEF EdgesInv, Finish, Running, Pending, Current
  <1> QED BY <1>2, <1>3, <1>4, <1>5

LEMMA StutterIInv == IInv /\ UNCHANGED vars => IInv'
  <1> SUFFICES ASSUME IInv, UNCHANGED vars PROVE IInv'
    OBVIOUS
  <1>1. TypeOK'
    BY DEF IInv, TypeOK, vars, Nodes, Size
  <1>2. (EntriesInv /\ FinalInv /\ EdgesInv)'
    BY RowsFrame DEF IInv, vars, EntriesInv, Running, FinalInv, InFinalPass,
       EdgesInv, Pending, Current
  <1>3. TransferInv'
    BY RowsFrame DEF IInv, vars, TransferInv, PrefixOK, Nodes, Size
  <1> QED BY <1>1, <1>2, <1>3 DEF IInv

LEMMA NextIInv == IInv /\ [Next]_vars => IInv'
  BY CountEdgesIInv, AllocQueueIInv, InitNodeIInv, InitDoneIInv, PopIInv,
     DrainedIInv, TransferInstIInv, TransferEndIInv, CoveredIInv, RaiseIInv,
     FinalNodeIInv, FinishIInv, StutterIInv DEF Next

(* The inductive invariant holds in every behaviour of the analysis.       *)
THEOREM Inductive == Spec => []IInv
  BY InitIInv, NextIInv, PTL DEF Spec

(* Every variable keeps its type; in particular new_state never holds an   *)
(* unwritten row of the uncleared memory the arena hands out.              *)
THEOREM TypeCorrect == Spec => []TypeOK
  <1>1. IInv => TypeOK
    BY DEF IInv
  <1> QED BY <1>1, Inductive, PTL

(* When the analysis is done its rows solve the data-flow equations,       *)
(* whatever the graph, the offsets and the order of the worklist.          *)
THEOREM Solved == Spec => []SolvedWhenDone
  <1>1. IInv => SolvedWhenDone
    <2> SUFFICES ASSUME IInv, pc = "done" PROVE IsSolution(prog, stackState)
      BY DEF SolvedWhenDone
    <2> USE DEF IInv
    <2>1. \A m \in Nodes : Written(m) /\ Consistent(m)
      BY DEF EntriesInv, FinalInv, Running
    <2>2. ASSUME NEW m \in Nodes
          PROVE  /\ stackState[m] \in [1 .. Size(m) -> State]
                 /\ LessEq(Entry(m), stackState[m][1])
                 /\ LessEq(Apply(stackState[m][1], prog.inst[m][1]), stackState[m][1])
                 /\ \A k \in 1 .. (Size(m) - 1) :
                      LessEq(Apply(stackState[m][k], prog.inst[m][k + 1]),
                             stackState[m][k + 1])
      <3>1. Size(m) \in Nat /\ Size(m) >= 1
        BY <2>2, GraphFacts
      <3>2. \A k \in 1 .. Size(m) : stackState[m][k] \in State
        BY <2>1, <2>2 DEF Consistent, PrefixOK
      <3>3. stackState[m] \in [1 .. Size(m) -> State]
        BY <2>2, <3>2 DEF TypeOK
      <3>4. stackState[m][1] = Apply(stackState[m][1], prog.inst[m][1])
        BY <2>1, <2>2, <3>1 DEF Consistent, PrefixOK
      <3>5. \A k \in 1 .. (Size(m) - 1) :
              /\ k + 1 \in 1 .. Size(m)
              /\ stackState[m][k + 1] = Apply(stackState[m][k], prog.inst[m][k + 1])
        <4> TAKE k \in 1 .. (Size(m) - 1)
        <4>1. k + 1 \in 1 .. Size(m) /\ k + 1 # 1 /\ (k + 1) - 1 = k
          BY <3>1
        <4> QED BY <2>1, <2>2, <4>1 DEF Consistent, PrefixOK
      <3>6. 1 \in 1 .. Size(m)
        BY <3>1
      <3> QED BY <2>1, <2>2, <3>2, <3>3, <3>4, <3>5, <3>6, LessEqOrder DEF Written
    <2>3. ASSUME NEW m \in Nodes, NEW k \in 1 .. Len(prog.succ[m])
          PROVE  LessEq(stackState[m][Size(m)], stackState[prog.succ[m][k]][1])
      BY InSeqEmpty DEF EdgesInv, Running, Pending, Current, FinalInv, Satisfied
    <2> QED BY <2>2, <2>3 DEF IsSolution, Nodes, Size
  <1> QED BY <1>1, Inductive, PTL

-----------------------------------------------------------------------------
(* Entry rows only rise, and no row exceeds any solution.  Both need to    *)
(* know where the rows and the worklist come from.                         *)

FreshInv ==
  /\ pc = "count" => \A m \in Nodes : \A k \in 1 .. Size(m) : stackState[m][k] = Uninit
  /\ pc = "init" => \A m \in Nodes : m >= node =>
       \A k \in 1 .. Size(m) : stackState[m][k] = Uninit

IsEdge(e) == \E k \in 1 .. Len(prog.succ[e[1]]) : e[2] = prog.succ[e[1]][k]

AreEdges ==
  /\ \A e : InSeq(e, queue) => IsEdge(e)
  /\ pc = "combine" => IsEdge(<<src, dst>>)
  /\ pc = "transfer" /\ dst # 0 => IsEdge(<<src, dst>>)

LEMMA FreshStep == IInv /\ FreshInv /\ [Next]_vars => FreshInv'
  <1> SUFFICES ASSUME IInv, FreshInv, [Next]_vars PROVE FreshInv'
    OBVIOUS
  <1> USE DEF IInv
  <1>1. CASE CountEdges
    BY <1>1 DEF CountEdges, FreshInv, Nodes, Size
  <1>2. CASE AllocQueue
    BY <1>2 DEF AllocQueue, FreshInv, Nodes, Size
  <1>3. CASE InitNode
    <2>1. /\ node \in Nodes /\ 1 \in 1 .. Size(node) /\ pc = "init"
          /\ prog' = prog /\ node' = node + 1
          /\ stackState' = [stackState EXCEPT ![node][1] = Entry(node)]
      BY <1>3, GraphFacts DEF TypeOK, InitNode, Nodes
    <2>2. \A n \in Nodes : n >= node + 1 => n # node /\ n >= node
      BY <2>1, GraphFacts DEF Nodes
    <2>3. \A n \in Nodes : n # node => stackState'[n] = stackState[n]
      BY <2>1 DEF TypeOK
    <2>4. pc' # "count"
      BY <1>3 DEF InitNode, PushOutEdges
    <2> QED BY <2>1, <2>2, <2>3, <2>4 DEF FreshInv, Nodes, Size
  <1>4. CASE pc \notin {"count", "init"}
    <2>1. pc' \notin {"count", "init"}
      BY <1>4 DEF Next, CountEdges, AllocQueue, InitNode, InitDone, Pop, Drained,
         TransferInst, TransferEnd, Covered, Raise, PushOutEdges, FinalNode, Finish, vars
    <2> QED BY <2>1 DEF FreshInv
  <1>5. CASE InitDone
    BY <1>5 DEF InitDone, FreshInv
  <1>6. CASE UNCHANGED vars
    BY <1>6 DEF vars, FreshInv, Nodes, Size
  <1>7. pc \in {"count", "init"} /\ Next => CountEdges \/ AllocQueue \/ InitNode \/ InitDone
    BY DEF Next, Pop, Drained, TransferInst, TransferEnd, Covered, Raise, FinalNode, Finish
  <1> QED BY <1>1, <1>2, <1>3, <1>4, <1>5, <1>6, <1>7

(* What the steps after the initialisation do to a row.                    *)
LEMMA RowStep ==
  ASSUME IInv, FreshInv, [Next]_vars, NEW m \in Nodes, NEW k \in 1 .. Size(m)
  PROVE  /\ prog' = prog
         /\ \/ stackState'[m][k] = stackState[m][k]
            \/ /\ stackState[m][k] = Uninit /\ k = 1
               /\ stackState'[m][k] = Entry(m)
            \/ /\ pc = "transfer" /\ m = src /\ k = ins
               /\ stackState'[m][k] = Apply(acc, prog.inst[src][ins])
            \/ /\ pc = "combine" /\ m = dst /\ k = 1
               /\ stackState'[m][k] = Join(stackState[m][k], acc)
  <1> USE DEF IInv
  <1>0. m \in DOMAIN stackState /\ k \in DOMAIN stackState[m]
    BY DEF TypeOK
  <1>1. CASE InitNode
    <2>1. node \in Nodes /\ 1 \in 1 .. Size(node)
      BY <1>1, GraphFacts DEF TypeOK, InitNode, Nodes
    <2>2. CASE m = node /\ k = 1
      <3>1. node >= node
        BY <2>1, GraphFacts DEF Nodes
      <3>2. stackState[node][1] = Uninit
        BY <1>1, <2>1, <3>1 DEF FreshInv, InitNode
      <3> QED BY <1>0, <1>1, <2>2, <3>2 DEF InitNode
    <2>3. CASE ~(m = node /\ k = 1)
      BY <1>0, <1>1, <2>3 DEF InitNode
    <2> QED BY <2>2, <2>3
  <1>2. CASE TransferInst
    BY <1>0, <1>2 DEF TransferInst
  <1>3. CASE Raise
    BY <1>0, <1>3 DEF Raise
  <1>4. CASE UNCHANGED <<prog, stackState>>
    BY <1>4
  <1>5. InitNode \/ TransferInst \/ Raise \/ UNCHANGED <<prog, stackState>>
    BY DEF Next, CountEdges, AllocQueue, InitDone, Pop, Drained, TransferEnd,
       Covered, FinalNode, Finish, vars
  <1> QED BY <1>1, <1>2, <1>3, <1>4, <1>5

LEMMA InitAux == Init => FreshInv /\ AreEdges
  <1>1. Init => FreshInv
    BY DEF Init, FreshInv, Nodes, Size
  <1>2. Init => AreEdges
    BY InSeqEmpty DEF Init, AreEdges
  <1> QED BY <1>1, <1>2

(* No step lowers the entry row of a block.                                *)
THEOREM EntriesOnlyRise == Spec => EntryRises
  <1> DEFINE Rise == \A m \in Nodes : stackState[m][1] # Uninit =>
                       LessEq(stackState[m][1], stackState'[m][1])
  <1>1. IInv /\ FreshInv /\ [Next]_vars => Rise
    <2> SUFFICES ASSUME IInv, FreshInv, [Next]_vars, NEW m \in Nodes,
                        stackState[m][1] # Uninit
                 PROVE  LessEq(stackState[m][1], stackState'[m][1])
      OBVIOUS
    <2> USE DEF IInv
    <2>1. stackState[m][1] \in State /\ 1 \in 1 .. Size(m)
      <3>1. 1 \in 1 .. Size(m)
        BY GraphFacts
      <3> QED BY <3>1 DEF TypeOK
    <2>2. \/ stackState'[m][1] = stackState[m][1]
          \/ /\ pc = "transfer" /\ m = src /\ ins = 1
             /\ stackState'[m][1] = Apply(acc, prog.inst[src][ins])
          \/ /\ pc = "combine"
             /\ stackState'[m][1] = Join(stackState[m][1], acc)
      BY <2>1, RowStep
    <2>3. CASE stackState'[m][1] = stackState[m][1]
      BY <2>1, <2>3, LessEqOrder
    <2>4. CASE /\ pc = "transfer" /\ m = src /\ ins = 1
               /\ stackState'[m][1] = Apply(acc, prog.inst[src][ins])
      <3>1. acc = stackState[m][1] /\ prog.inst[src][ins] \in Instruction
        BY <2>1, <2>4, GraphFacts DEF TransferInv
      <3> QED BY <2>1, <2>4, <3>1, ApplyProps
    <2>5. CASE pc = "combine" /\ stackState'[m][1] = Join(stackState[m][1], acc)
      BY <2>1, <2>5, JoinProps DEF TypeOK
    <2> QED BY <2>2, <2>3, <2>4, <2>5
  <1>2. Spec => []FreshInv
    BY InitAux, FreshStep, Inductive, PTL DEF Spec
  <1>3. IInv /\ FreshInv /\ [Next]_vars =>
          [\A m \in Nodes : stackState[m][1] # Uninit =>
             LessEq(stackState[m][1], stackState'[m][1])]_vars
    BY <1>1
  <1> QED BY <1>2, <1>3, Inductive, PTL DEF Spec, EntryRises

LEMMA PushEdges ==
  ASSUME TypeOK, NEW m \in Nodes, NEW next, PushOutEdges(m, next), UNCHANGED prog,
         \A e : InSeq(e, queue) => IsEdge(e)
  PROVE  \A e : InSeq(e, queue') => IsEdge(e)'
  <1> SUFFICES ASSUME NEW e, InSeq(e, queue') PROVE IsEdge(e)
    BY DEF IsEdge
  <1>1. CASE queue' = queue
    BY <1>1
  <1>2. CASE queue' = queue \o OutEdges(m)
    <2>1. OutEdges(m) \in Seq(Nodes \X Nodes) /\ queue \in Seq(Nodes \X Nodes)
      BY GraphFacts DEF TypeOK
    <2>2. InSeq(e, queue) \/ InSeq(e, OutEdges(m))
      BY <1>2, <2>1, InSeqConcat
    <2>3. CASE InSeq(e, OutEdges(m))
      <3>1. PICK j \in 1 .. Len(prog.succ[m]) : e = <<m, prog.succ[m][j]>>
        BY <2>3, GraphFacts DEF InSeq
      <3>2. e[1] = m /\ e[2] = prog.succ[m][j]
        BY <3>1
      <3> QED BY <3>2 DEF IsEdge
    <2> QED BY <2>2, <2>3
  <1> QED BY <1>1, <1>2 DEF PushOutEdges

LEMMA EdgesStep == IInv /\ AreEdges /\ [Next]_vars => AreEdges'
  <1> SUFFICES ASSUME IInv, AreEdges, [Next]_vars PROVE AreEdges'
    OBVIOUS
  <1> USE DEF IInv
  <1>1. CASE InitNode
    <2>1. node \in Nodes /\ PushOutEdges(node, "init") /\ prog' = prog
      BY <1>1, GraphFacts DEF TypeOK, InitNode, Nodes
    <2>2. pc' \in {"init", "aborted"}
      BY <2>1 DEF PushOutEdges
    <2>3. \A e : InSeq(e, queue') => IsEdge(e)'
      BY <2>1, PushEdges DEF AreEdges
    <2> QED BY <2>2, <2>3 DEF AreEdges
  <1>2. CASE Raise
    <2>1. dst \in Nodes /\ PushOutEdges(dst, "drain") /\ prog' = prog
      BY <1>2 DEF Raise, TransferInv
    <2>2. pc' \in {"drain", "aborted"}
      BY <2>1 DEF PushOutEdges
    <2>3. \A e : InSeq(e, queue') => IsEdge(e)'
      BY <2>1, PushEdges DEF AreEdges
    <2> QED BY <2>2, <2>3 DEF AreEdges
  <1>3. CASE Pop
    <2>1. /\ Head(queue) = <<src', dst'>> /\ InSeq(Head(queue), queue)
          /\ \A e : InSeq(e, Tail(queue)) => InSeq(e, queue)
      <3>1. queue \in Seq(Nodes \X Nodes) /\ queue # << >>
        BY <1>3 DEF TypeOK, Pop
      <3>2. /\ Head(queue) = queue[1] /\ 1 \in 1 .. Len(queue)
            /\ Head(queue) \in Nodes \X Nodes
        BY <3>1
      <3>3. \A j \in 1 .. Len(Tail(queue)) :
              j + 1 \in 1 .. Len(queue) /\ Tail(queue)[j] = queue[j + 1]
        BY <3>1
      <3> QED BY <1>3, <3>2, <3>3 DEF InSeq, Pop
    <2> QED BY <1>3, <2>1 DEF Pop, AreEdges, IsEdge
  <1>4. CASE UNCHANGED <<prog, queue, src, dst>> /\ pc' = pc
    BY <1>4 DEF AreEdges, IsEdge
  <1>5. CASE TransferEnd
    BY <1>5 DEF TransferEnd, AreEdges, IsEdge
  <1>6. CASE UNCHANGED <<prog, queue>> /\ pc' \notin {"transfer", "combine"}
    BY <1>6 DEF AreEdges, IsEdge
  <1>7. CASE FinalNode
    BY <1>7 DEF FinalNode, AreEdges, IsEdge
  <1>8. \/ InitNode \/ Raise \/ Pop \/ TransferEnd \/ FinalNode
        \/ UNCHANGED <<prog, queue, src, dst>> /\ pc' = pc
        \/ UNCHANGED <<prog, queue>> /\ pc' \notin {"transfer", "combine"}
    BY DEF Next, CountEdges, AllocQueue, InitDone, Drained, TransferInst,
       Covered, Finish, vars
  <1> QED BY <1>1, <1>2, <1>3, <1>4, <1>5, <1>6, <1>7, <1>8

(* T is any table; if it solves the equations, no row found exceeds it.    *)
BelowSolution(T) ==
  IsSolution(prog, T) =>
    \A m \in Nodes : \A k \in 1 .. Size(m) :
      stackState[m][k] # Uninit => LessEq(stackState[m][k], T[m][k])

LEMMA SolutionFacts ==
  ASSUME TypeOK, NEW T, IsSolution(prog, T), NEW m \in Nodes
  PROVE  /\ \A k \in 1 .. Size(m) : T[m][k] \in State
         /\ LessEq(Entry(m), T[m][1])
         /\ LessEq(Apply(T[m][1], prog.inst[m][1]), T[m][1])
         /\ \A k \in 2 .. Size(m) :
              LessEq(Apply(T[m][k - 1], prog.inst[m][k]), T[m][k])
         /\ \A k \in 1 .. Len(prog.succ[m]) :
              LessEq(T[m][Size(m)], T[prog.succ[m][k]][1])
  <1>1. \A k \in 1 .. (Size(m) - 1) :
          LessEq(Apply(T[m][k], prog.inst[m][k + 1]), T[m][k + 1])
    BY DEF IsSolution, Nodes, Size
  <1>2. \A k \in 2 .. Size(m) :
          LessEq(Apply(T[m][k - 1], prog.inst[m][k]), T[m][k])
    <2> TAKE k \in 2 .. Size(m)
    <2>1. k - 1 \in 1 .. (Size(m) - 1) /\ (k - 1) + 1 = k
      BY GraphFacts
    <2> QED BY <1>1, <2>1
  <1> QED BY <1>2 DEF IsSolution, Nodes, Size

LEMMA BelowStep ==
  ASSUME NEW T, IInv, FreshInv, AreEdges, BelowSolution(T), [Next]_vars
  PROVE  BelowSolution(T)'
  <1> USE DEF IInv
  <1>1. prog' = prog /\ Nodes' = Nodes /\ \A m : Size(m)' = Size(m)
    BY DEF Next, CountEdges, AllocQueue, InitNode, InitDone, Pop, Drained,
       TransferInst, TransferEnd, Covered, Raise, FinalNode, Finish, vars,
       Nodes, Size
  <1> SUFFICES ASSUME IsSolution(prog, T), NEW m \in Nodes, NEW k \in 1 .. Size(m),
                      stackState'[m][k] # Uninit
               PROVE  LessEq(stackState'[m][k], T[m][k])
    BY <1>1 DEF BelowSolution
  <1>2. \A n \in Nodes : \A j \in 1 .. Size(n) :
          stackState[n][j] # Uninit => LessEq(stackState[n][j], T[n][j])
    BY DEF BelowSolution
  <1>3. Uninit \notin State
    BY MaxStackAssumption
  <1>4. CASE stackState'[m][k] = stackState[m][k]
    BY <1>2, <1>4
  <1>5. CASE k = 1 /\ stackState'[m][k] = Entry(m)
    BY <1>5, SolutionFacts
  <1>6. CASE /\ pc = "transfer" /\ m = src /\ k = ins
             /\ stackState'[m][k] = Apply(acc, prog.inst[src][ins])
    <2> DEFINE r == IF ins = 1 THEN 1 ELSE ins - 1
    <2>1. /\ acc = stackState[m][r] /\ acc \in State /\ r \in 1 .. Size(m)
          /\ prog.inst[m][k] \in Instruction /\ T[m][r] \in State /\ T[m][k] \in State
      BY <1>6, GraphFacts, SolutionFacts DEF TransferInv, TypeOK
    <2>2. LessEq(acc, T[m][r])
      BY <1>2, <1>3, <2>1
    <2>3. LessEq(Apply(acc, prog.inst[m][k]), Apply(T[m][r], prog.inst[m][k]))
      BY <2>1, <2>2, ApplyMonotone
    <2>4. LessEq(Apply(T[m][r], prog.inst[m][k]), T[m][k])
      <3>1. CASE ins = 1
        BY <1>6, <3>1, SolutionFacts
      <3>2. CASE ins # 1
        <4>1. k \in 2 .. Size(m) /\ r = k - 1
          BY <1>6, <3>2, GraphFacts
        <4> QED BY <4>1, SolutionFacts
      <3> QED BY <3>1, <3>2
    <2>5. Apply(acc, prog.inst[m][k]) \in State /\ Apply(T[m][r], prog.inst[m][k]) \in State
      BY <2>1, ApplyProps
    <2> QED BY <1>6, <2>1, <2>3, <2>4, <2>5, LessEqOrder
  <1>7. CASE /\ pc = "combine" /\ m = dst /\ k = 1
             /\ stackState'[m][k] = Join(stackState[m][k], acc)
    <2>1. /\ src \in Nodes /\ acc = stackState[src][Size(src)] /\ acc \in State
          /\ Size(src) \in 1 .. Size(src) /\ stackState[m][1] \in State
      BY <1>7, GraphFacts DEF TransferInv, TypeOK, EntriesInv, Running, Written
    <2>2. /\ T[src][Size(src)] \in State /\ T[m][1] \in State
          /\ LessEq(T[src][Size(src)], T[m][1])
      <3>1. \E j \in 1 .. Len(prog.succ[src]) : prog.succ[src][j] = m
        BY <1>7 DEF AreEdges, IsEdge
      <3> QED BY <1>7, <2>1, <3>1, SolutionFacts
    <2>3. LessEq(acc, T[m][1])
      BY <1>2, <1>3, <2>1, <2>2, LessEqOrder
    <2>4. LessEq(stackState[m][1], T[m][1])
      BY <1>2, <1>3, <1>7, <2>1
    <2> QED BY <1>7, <2>1, <2>2, <2>3, <2>4, JoinLeast
  <1> QED BY <1>4, <1>5, <1>6, <1>7, RowStep

(* The analysis is exact: every row is below the row of every solution, so *)
(* the solution it ends with is the least one and names no offset that     *)
(* some path does not reach.                                               *)
BelowSolutions == \A T : BelowSolution(T)

THEOREM LeastSolution == Spec => []BelowSolutions
  <1>1. Init => BelowSolutions
    BY DEF Init, BelowSolutions, BelowSolution, Nodes, Size
  <1>2. IInv /\ FreshInv /\ AreEdges /\ BelowSolutions /\ [Next]_vars => BelowSolutions'
    BY BelowStep DEF BelowSolutions
  <1> QED BY <1>1, <1>2, InitAux, FreshStep, EdgesStep, Inductive, PTL DEF Spec

-----------------------------------------------------------------------------
(* The two components of a state become unknown together.                  *)

Together(s) == s.ld = Top <=> s.st = Top

TogetherInv ==
  /\ Together(acc)
  /\ \A m \in Nodes : \A k \in 1 .. Size(m) :
       stackState[m][k] # Uninit => Together(stackState[m][k])

LEMMA ApplyTogether ==
  ASSUME NEW s \in State, Together(s), NEW i \in Instruction
  PROVE  Together(Apply(s, i))
  <1>1. i.off \in 0 .. (Top - 1) /\ s.ld \in Bottom .. Top /\ s.st \in Bottom .. Top
    BY DEF Instruction, Offsets, State
  <1> QED BY <1>1, ApplyCases, MaxStackAssumption DEF Together, MAX, Bottom

LEMMA JoinTogether ==
  ASSUME NEW s \in State, Together(s), NEW t \in State, Together(t)
  PROVE  Together(Join(s, t))
  BY MaxStackAssumption DEF Together, Join, MAX, State, Bottom

LEMMA EntryTogether == \A m : Together(Entry(m))
  BY MaxStackAssumption DEF Together, Entry, Bottom

LEMMA TogetherStep == IInv /\ FreshInv /\ TogetherInv /\ [Next]_vars => TogetherInv'
  <1> SUFFICES ASSUME IInv, FreshInv, TogetherInv, [Next]_vars PROVE TogetherInv'
    OBVIOUS
  <1> USE DEF IInv
  <1>1. Nodes' = Nodes /\ \A m : Size(m)' = Size(m)
    BY DEF Next, CountEdges, AllocQueue, InitNode, InitDone, Pop, Drained,
       TransferInst, TransferEnd, Covered, Raise, FinalNode, Finish, vars, Nodes, Size
  <1>2. \A m \in Nodes : stackState[m][1] \in State => Together(stackState[m][1])
    BY GraphFacts, MaxStackAssumption DEF TogetherInv
  <1>3. Together(acc')
    <2>1. CASE acc' = acc
      BY <2>1 DEF TogetherInv
    <2>2. CASE Pop \/ FinalNode
      <3>1. PICK m \in Nodes : acc' = stackState[m][1] /\ pc \in Running
        <4>1. CASE Pop
          <5>1. queue \in Seq(Nodes \X Nodes) /\ queue # << >>
            BY <4>1 DEF TypeOK, Pop
          <5>2. Head(queue) \in Nodes \X Nodes
            BY <5>1
          <5> QED BY <4>1, <5>2 DEF Pop, Running
        <4>2. CASE FinalNode
          BY <4>2 DEF FinalNode, Running, TypeOK, Nodes
        <4> QED BY <2>2, <4>1, <4>2
      <3> QED BY <3>1, <1>2 DEF EntriesInv, Written
    <2>3. CASE TransferInst
      <3>1. acc \in State /\ prog.inst[src][ins] \in Instruction
        BY <2>3, GraphFacts DEF TransferInst, TransferInv, TypeOK
      <3> QED BY <2>3, <3>1, ApplyTogether DEF TransferInst, TogetherInv
    <2> QED BY <2>1, <2>2, <2>3 DEF Next, CountEdges, AllocQueue, InitNode, InitDone,
              Drained, TransferEnd, Covered, Raise, Finish, vars
  <1>4. ASSUME NEW m \in Nodes, NEW k \in 1 .. Size(m), stackState'[m][k] # Uninit
        PROVE  Together(stackState'[m][k])
    <2>1. CASE stackState'[m][k] = stackState[m][k]
      BY <1>4, <2>1 DEF TogetherInv
    <2>2. CASE k = 1 /\ stackState'[m][k] = Entry(m)
      BY <2>2, EntryTogether
    <2>3. CASE /\ pc = "transfer" /\ m = src /\ k = ins
               /\ stackState'[m][k] = Apply(acc, prog.inst[src][ins])
      <3>1. acc \in State /\ prog.inst[src][ins] \in Instruction
        BY <2>3, GraphFacts DEF TypeOK
      <3> QED BY <2>3, <3>1, ApplyTogether DEF TogetherInv
    <2>4. CASE /\ pc = "combine" /\ m = dst /\ k = 1
               /\ stackState'[m][k] = Join(stackState[m][k], acc)
      <3>1. stackState[m][1] \in State /\ acc \in State
        BY <2>4 DEF TypeOK, EntriesInv, Running, Written
      <3> QED BY <2>4, <3>1, <1>2, JoinTogether DEF TogetherInv
    <2> QED BY <1>4, <2>1, <2>2, <2>3, <2>4, RowStep
  <1> QED BY <1>1, <1>3, <1>4 DEF TogetherInv

LEMMA InitTogether == Init => TogetherInv
  BY DEF Init, TogetherInv, Together, Nodes, Size

LEMMA DoneRows ==
  ASSUME IInv, pc = "done", NEW m \in Nodes, NEW k \in 1 .. Size(m)
  PROVE  stackState[m][k] \in State
  BY DEF IInv, FinalInv, Consistent, PrefixOK

(* In the rows of a finished analysis the output shows each component as   *)
(* it is, although it tests only one of them for being unknown.            *)
THEOREM CellsAreTrue == Spec => []CellsTell
  <1>1. IInv /\ TogetherInv => CellsTell
    BY DoneRows, MaxStackAssumption DEF TogetherInv, Together, CellsTell, Cells
  <1> QED BY <1>1, InitAux, FreshStep, InitTogether, TogetherStep, Inductive, PTL DEF Spec

-----------------------------------------------------------------------------
(* The closed form of the result.  It is below every solution, and it is   *)
(* one itself.                                                             *)

Accesses == {"ld", "st"}

LEMMA Components ==
  ASSUME NEW s \in State, NEW t \in State
  PROVE  /\ \A a \in Accesses : s[a] \in Bottom .. Top
         /\ LessEq(s, t) <=> \A a \in Accesses : s[a] <= t[a]
         /\ (\A a \in Accesses : s[a] = t[a]) => s = t
  BY DEF State, Accesses, LessEq

(* The transfer function on one component.                                 *)
LEMMA ApplyDepth ==
  ASSUME NEW s \in State, NEW i \in Instruction, NEW a \in Accesses
  PROVE  /\ Depth(i, a) \in Bottom .. Top
         /\ Apply(s, i)[a] = MAX(s[a], Depth(i, a))
  <1>1. i.off \in 0 .. (Top - 1) /\ s.ld \in Bottom .. Top /\ s.st \in Bottom .. Top
    BY DEF Instruction, Offsets, State
  <1>2. Depth(i, a) \in Bottom .. Top
    BY <1>1, MaxStackAssumption DEF Depth, Bottom
  <1>3. CASE a = "ld"
    <2>1. Apply(s, i).ld = MAX(s.ld, Depth(i, "ld"))
      BY <1>1, ApplyCases, MaxStackAssumption DEF Depth, MAX, Bottom
    <2> QED BY <1>3, <2>1, <1>2
  <1>4. CASE a = "st"
    <2>1. Apply(s, i).st = MAX(s.st, Depth(i, "st"))
      BY <1>1, ApplyCases, MaxStackAssumption DEF Depth, MAX, Bottom
    <2> QED BY <1>4, <2>1, <1>2
  <1> QED BY <1>3, <1>4 DEF Accesses

(* Where the depths in Reference come from.                                *)
Reaching(v, k, a) ==
  Depths(v, k, a) \cup UNION {Depths(u, Size(u), a) : u \in Feeders(v)}

LEMMA ReferenceIs ==
  ASSUME TypeOK, NEW v \in Nodes, NEW k \in 1 .. Size(v)
  PROVE  /\ Reference(v, k) \in State
         /\ \A a \in Accesses :
              /\ Reference(v, k)[a] \in Reaching(v, k, a)
              /\ \A d \in Reaching(v, k, a) : d <= Reference(v, k)[a]
  <1>1. ASSUME NEW m \in Nodes, NEW j \in 0 .. Size(m), NEW a \in Accesses
        PROVE  Depths(m, j, a) \subseteq Bottom .. Top
    <2>1. Entry(m) \in State /\ Entry(m)[a] \in Bottom .. Top
      BY EntryType, Components
    <2>2. \A l \in 1 .. j : prog.inst[m][l] \in Instruction
      BY GraphFacts
    <2>3. \A l \in 1 .. j : Depth(prog.inst[m][l], a) \in Bottom .. Top
      BY <2>1, <2>2, ApplyDepth
    <2> QED BY <2>1, <2>3 DEF Depths
  <1>2. ASSUME NEW a \in Accesses
        PROVE  /\ Max(Reaching(v, k, a)) \in Bottom .. Top
               /\ Max(Reaching(v, k, a)) \in Reaching(v, k, a)
               /\ \A d \in Reaching(v, k, a) : Max(Reaching(v, k, a)) >= d
    <2>1. Reaching(v, k, a) \subseteq Bottom .. Top
      <3>1. \A u \in Nodes : Size(u) \in 0 .. Size(u)
        BY GraphFacts
      <3>2. \A u \in Feeders(v) : Depths(u, Size(u), a) \subseteq Bottom .. Top
        BY <1>1, <3>1 DEF Feeders
      <3>3. Depths(v, k, a) \subseteq Bottom .. Top
        BY <1>1, GraphFacts
      <3> QED BY <3>2, <3>3 DEF Reaching
    <2>2. Reaching(v, k, a) # {}
      BY DEF Reaching, Depths
    <2>3. Top \in Int /\ Reaching(v, k, a) \subseteq Int /\ \A d \in Reaching(v, k, a) : d <= Top
      BY <2>1, MaxStackAssumption DEF Bottom
    <2>4. /\ Max(Reaching(v, k, a)) \in Reaching(v, k, a)
          /\ \A d \in Reaching(v, k, a) : Max(Reaching(v, k, a)) >= d
      BY ONLY <2>2, <2>3, MaxOfInts
    <2> QED BY <2>1, <2>4
  <1>3. Reference(v, k) = [ld |-> Max(Reaching(v, k, "ld")), st |-> Max(Reaching(v, k, "st"))]
    BY DEF Reference, Reaching
  <1>4. Reference(v, k) \in State
    BY <1>2, <1>3 DEF State, Accesses
  <1>5. \A a \in Accesses : Reference(v, k)[a] = Max(Reaching(v, k, a))
    BY <1>3 DEF Accesses
  <1>6. \A a \in Accesses : \A d \in Reaching(v, k, a) : d <= Reference(v, k)[a]
    <2> SUFFICES ASSUME NEW a \in Accesses, NEW d \in Reaching(v, k, a)
                 PROVE  d <= Max(Reaching(v, k, a))
      BY <1>5
    <2> QED BY <1>2
  <1> QED BY <1>2, <1>4, <1>5, <1>6

(* The rows of a block only rise, in every solution.                       *)
LEMMA RowsRise ==
  ASSUME TypeOK, NEW T, IsSolution(prog, T), NEW m \in Nodes,
         NEW j \in 1 .. Size(m), NEW k \in j .. Size(m)
  PROVE  LessEq(T[m][j], T[m][k])
  <1> DEFINE Bad == {l \in Nat : l \in j .. Size(m) /\ ~LessEq(T[m][j], T[m][l])}
  <1> SUFFICES ASSUME Bad # {} PROVE FALSE
    <2>1. k \in Nat /\ (k \notin Bad => LessEq(T[m][j], T[m][k]))
      BY GraphFacts
    <2> QED BY <2>1
  <1>1. PICK l \in Bad : \A x \in Bad : l <= x
    BY NatMin
  <1>2. l \in 1 .. Size(m) /\ T[m][l] \in State /\ T[m][j] \in State /\ l # j
    BY <1>1, GraphFacts, SolutionFacts, LessEqOrder
  <1>3. l \in 2 .. Size(m) /\ l - 1 \in j .. Size(m) /\ l - 1 \in 1 .. Size(m) /\ l - 1 \in Nat
    BY <1>1, <1>2, GraphFacts
  <1>4. l - 1 \notin Bad
    BY <1>1, <1>3
  <1>5. LessEq(T[m][j], T[m][l - 1])
    BY <1>3, <1>4
  <1> HIDE DEF Bad
  <1>6. /\ T[m][l - 1] \in State /\ prog.inst[m][l] \in Instruction
        /\ LessEq(Apply(T[m][l - 1], prog.inst[m][l]), T[m][l])
    BY <1>2, <1>3, GraphFacts, SolutionFacts
  <1>7. /\ Apply(T[m][l - 1], prog.inst[m][l]) \in State
        /\ LessEq(T[m][l - 1], Apply(T[m][l - 1], prog.inst[m][l]))
    BY <1>6, ApplyProps
  <1>8. LessEq(T[m][j], T[m][l])
    BY <1>2, <1>5, <1>6, <1>7, LessEqOrder
  <1> QED BY <1>1, <1>8 DEF Bad

(* A solution covers what the instructions of a block do up to a row.      *)
LEMMA DepthsBelow ==
  ASSUME TypeOK, NEW T, IsSolution(prog, T), NEW m \in Nodes, NEW k \in 1 .. Size(m),
         NEW a \in Accesses, NEW d \in Depths(m, k, a)
  PROVE  d <= T[m][k][a]
  <1>0. Size(m) \in Nat /\ Size(m) >= 1 /\ 1 \in 1 .. Size(m) /\ k \in 1 .. Size(m)
    BY GraphFacts
  <1>1. \A l \in 1 .. Size(m) : T[m][l] \in State /\ T[m][l][a] \in Bottom .. Top
    BY SolutionFacts, Components
  <1>2. ASSUME NEW l \in 1 .. k PROVE T[m][l][a] <= T[m][k][a]
    <2>1. l \in 1 .. Size(m) /\ k \in l .. Size(m)
      BY <1>0
    <2> QED BY <2>1, <1>1, RowsRise, Components
  <1>3. CASE d = Entry(m)[a]
    <2>1. Entry(m) \in State /\ LessEq(Entry(m), T[m][1])
      BY EntryType, SolutionFacts
    <2>2. d <= T[m][1][a] /\ d \in Bottom .. Top
      BY <1>0, <1>1, <1>3, <2>1, Components
    <2>3. T[m][1][a] <= T[m][k][a]
      BY <1>0, <1>2
    <2> QED BY <1>0, <1>1, <2>2, <2>3, MaxStackAssumption DEF Bottom
  <1>4. ASSUME NEW l \in 1 .. k, d = Depth(prog.inst[m][l], a)
        PROVE  d <= T[m][k][a]
    <2> DEFINE r == IF l = 1 THEN 1 ELSE l - 1
    <2>1. l \in 1 .. Size(m) /\ r \in 1 .. Size(m) /\ (l # 1 => l \in 2 .. Size(m))
      BY <1>0
    <2>2. LessEq(Apply(T[m][r], prog.inst[m][l]), T[m][l])
      BY <2>1, SolutionFacts
    <2>3. prog.inst[m][l] \in Instruction /\ T[m][r] \in State /\ T[m][l] \in State
      BY <2>1, <1>1, GraphFacts
    <2> HIDE DEF r
    <2>4. Apply(T[m][r], prog.inst[m][l]) \in State
      BY <2>3, ApplyProps
    <2>5. Apply(T[m][r], prog.inst[m][l])[a] <= T[m][l][a]
      BY <2>2, <2>3, <2>4, Components
    <2>6. d \in Bottom .. Top /\ Apply(T[m][r], prog.inst[m][l])[a] = MAX(T[m][r][a], d)
      BY <1>4, <2>3, ApplyDepth
    <2>7. /\ T[m][r][a] \in Bottom .. Top /\ T[m][l][a] \in Bottom .. Top
          /\ T[m][k][a] \in Bottom .. Top
      BY <1>0, <1>1, <2>1
    <2>8. d <= T[m][l][a]
      BY <2>5, <2>6, <2>7, MaxStackAssumption DEF MAX, Bottom
    <2> QED BY <1>2, <2>6, <2>7, <2>8, MaxStackAssumption DEF Bottom
  <1> QED BY <1>3, <1>4 DEF Depths

(* ... and what the blocks do that lead to it.                             *)
LEMMA ReachingBelow ==
  ASSUME TypeOK, NEW T, IsSolution(prog, T), NEW v \in Nodes, NEW k \in 1 .. Size(v),
         NEW a \in Accesses, NEW d \in Reaching(v, k, a)
  PROVE  d <= T[v][k][a]
  <1>1. \A m \in Nodes : 1 \in 1 .. Size(m) /\ Size(m) \in 1 .. Size(m)
    BY GraphFacts
  <1>2. CASE d \in Depths(v, k, a)
    BY <1>2, DepthsBelow
  <1>3. ASSUME NEW u \in Feeders(v), d \in Depths(u, Size(u), a)
        PROVE  d <= T[v][k][a]
    <2> DEFINE S == {w \in Nodes : LessEq(T[u][Size(u)], T[w][1])}
    <2>1. u \in Nodes
      BY DEF Feeders
    <2>2. \A m \in Nodes : T[m][1] \in State /\ T[m][Size(m)] \in State
      BY <1>1, SolutionFacts
    <2>3. Successors(u) \subseteq S
      BY <2>1, SolutionFacts, GraphFacts, ZenonT(40) DEF Successors
    <2>4. ASSUME NEW w \in S, NEW x \in Successors(w) PROVE x \in S
      <3>1. w \in Nodes /\ LessEq(T[u][Size(u)], T[w][1])
        OBVIOUS
      <3>2. LessEq(T[w][1], T[w][Size(w)])
        <4>1. 1 \in 1 .. Size(w) /\ Size(w) \in 1 .. Size(w)
          BY <1>1, <3>1
        <4> QED BY <3>1, <4>1, RowsRise
      <3>3. x \in Nodes /\ LessEq(T[w][Size(w)], T[x][1])
        BY <3>1, SolutionFacts, GraphFacts DEF Successors
      <3>4. LessEq(T[u][Size(u)], T[x][1])
        BY <2>1, <2>2, <3>1, <3>2, <3>3, LessEqOrder
      <3> QED BY <3>3, <3>4
    <2>5. S \in SUBSET Nodes /\ \A w \in S : Successors(w) \subseteq S
      BY <2>4
    <2>6. v \in S
      <3> HIDE DEF S
      <3> QED BY <2>3, <2>5 DEF Feeders
    <2>7. LessEq(T[u][Size(u)], T[v][1])
      BY <2>6
    <2>8. LessEq(T[v][1], T[v][k])
      <3>1. 1 \in 1 .. Size(v) /\ k \in 1 .. Size(v)
        BY <1>1
      <3> QED BY <3>1, RowsRise
    <2>9. d <= T[u][Size(u)][a]
      BY <1>1, <1>3, <2>1, DepthsBelow
    <2>10. T[v][k] \in State
      BY SolutionFacts
    <2>11. T[u][Size(u)][a] <= T[v][k][a]
      BY <2>1, <2>2, <2>7, <2>8, <2>10, LessEqOrder, Components
    <2>12. d \in Int /\ T[u][Size(u)][a] \in Int /\ T[v][k][a] \in Int
      <3>1. \A m \in Nodes : \A l \in 1 .. Size(m) : T[m][l][a] \in Int
        BY SolutionFacts, Components, MaxStackAssumption DEF Bottom
      <3>2. Entry(u)[a] \in Int
        BY EntryType DEF Accesses
      <3>3. \A l \in 1 .. Size(u) : Depth(prog.inst[u][l], a) \in Int
        <4>1. \A l \in 1 .. Size(u) : prog.inst[u][l] \in Instruction
          BY <2>1, GraphFacts
        <4>2. \A l \in 1 .. Size(u) : Depth(prog.inst[u][l], a) \in Bottom .. Top
          BY <2>1, <2>2, <4>1, ApplyDepth
        <4> QED BY <4>2, MaxStackAssumption DEF Bottom
      <3> QED BY <1>1, <1>3, <2>1, <3>1, <3>2, <3>3 DEF Depths
    <2> QED BY <2>9, <2>11, <2>12
  <1> QED BY <1>2, <1>3 DEF Reaching

(* What leads to a block leads to its successors, and so does the block.   *)
LEMMA FeedersOfEdge ==
  ASSUME TypeOK, NEW m \in Nodes, NEW v \in Successors(m)
  PROVE  Feeders(m) \cup {m} \subseteq Feeders(v)
  <1>1. m \in Feeders(v)
    BY DEF Feeders
  <1>2. ASSUME NEW u \in Feeders(m) PROVE u \in Feeders(v)
    <2>1. ASSUME NEW S \in SUBSET Nodes, Successors(u) \subseteq S,
                 \A w \in S : Successors(w) \subseteq S
          PROVE  v \in S
      <3>1. m \in S
        BY <2>1 DEF Feeders
      <3> QED BY <2>1, <3>1
    <2> QED BY <2>1 DEF Feeders
  <1> QED BY <1>1, <1>2

ReferenceRows == [m \in Nodes |-> [k \in 1 .. Size(m) |-> Reference(m, k)]]

LEMMA ReferenceSolves == ASSUME TypeOK PROVE IsSolution(prog, ReferenceRows)
  <1>0. \A m \in Nodes : Size(m) \in Nat /\ Size(m) >= 1 /\ 1 \in 1 .. Size(m) /\ Size(m) \in 1 .. Size(m)
    BY GraphFacts
  <1>1. \A m \in Nodes : \A k \in 1 .. Size(m) : ReferenceRows[m][k] = Reference(m, k)
    BY DEF ReferenceRows
  <1>2. \A m \in Nodes : \A k \in 1 .. Size(m) : Reference(m, k) \in State
    BY ReferenceIs
  <1>3. ASSUME NEW m \in Nodes, NEW k \in 1 .. Size(m), NEW v \in Nodes, NEW l \in 1 .. Size(v),
               \A a \in Accesses : Reaching(m, k, a) \subseteq Reaching(v, l, a)
        PROVE  LessEq(Reference(m, k), Reference(v, l))
    <2>1. \A a \in Accesses : Reference(m, k)[a] \in Reaching(m, k, a)
      BY ReferenceIs
    <2>2. \A a \in Accesses : \A d \in Reaching(v, l, a) : d <= Reference(v, l)[a]
      BY ReferenceIs
    <2> QED BY <1>2, <1>3, <2>1, <2>2, Components
  <1>4. ASSUME NEW m \in Nodes
        PROVE  /\ LessEq(Entry(m), Reference(m, 1))
               /\ LessEq(Apply(Reference(m, 1), prog.inst[m][1]), Reference(m, 1))
    <2>1. \A a \in Accesses : Entry(m)[a] \in Reaching(m, 1, a)
      BY DEF Reaching, Depths
    <2>2. \A a \in Accesses : Entry(m)[a] <= Reference(m, 1)[a]
      BY <1>0, <2>1, ReferenceIs
    <2>3. LessEq(Entry(m), Reference(m, 1))
      BY <1>0, <1>2, <2>2, EntryType, Components
    <2>4. prog.inst[m][1].op = "other" /\ prog.inst[m][1] \in Instruction
      BY <1>0, GraphFacts DEF TypeOK, IsProgram, Nodes
    <2>5. Apply(Reference(m, 1), prog.inst[m][1]) = Reference(m, 1)
      BY <1>0, <1>2, <2>4, ApplyCases
    <2> QED BY <1>0, <1>2, <2>3, <2>5, LessEqOrder
  <1>5. ASSUME NEW m \in Nodes, NEW k \in 1 .. (Size(m) - 1)
        PROVE  LessEq(Apply(Reference(m, k), prog.inst[m][k + 1]), Reference(m, k + 1))
    <2> DEFINE i == prog.inst[m][k + 1]
               s == Reference(m, k)
               t == Reference(m, k + 1)
    <2>1. k \in 1 .. Size(m) /\ k + 1 \in 1 .. Size(m) /\ k + 1 \in Nat /\ 1 .. k \subseteq 1 .. (k + 1)
          /\ k + 1 \in 1 .. (k + 1)
      BY <1>0
    <2>2. s \in State /\ t \in State /\ i \in Instruction
      BY <1>2, <2>1, GraphFacts
    <2>3. \A a \in Accesses : /\ Reaching(m, k, a) \subseteq Reaching(m, k + 1, a)
                              /\ Depth(i, a) \in Reaching(m, k + 1, a)
      BY <2>1 DEF Reaching, Depths
    <2>4. \A a \in Accesses : s[a] <= t[a] /\ Depth(i, a) <= t[a]
      BY <2>1, <2>3, ReferenceIs
    <2> HIDE DEF i, s, t
    <2>5. ASSUME NEW a \in Accesses PROVE Apply(s, i)[a] <= t[a]
      <3>1. Apply(s, i)[a] = MAX(s[a], Depth(i, a))
        BY <2>2, ApplyDepth
      <3> QED BY <2>4, <3>1 DEF MAX
    <2>6. Apply(s, i) \in State
      BY <2>2, ApplyProps
    <2>7. LessEq(Apply(s, i), t)
      BY <2>2, <2>5, <2>6, Components
    <2> QED BY <2>7 DEF i, s, t
  <1>6. ASSUME NEW m \in Nodes, NEW k \in 1 .. Len(prog.succ[m])
        PROVE  LessEq(Reference(m, Size(m)), Reference(prog.succ[m][k], 1))
    <2> DEFINE v == prog.succ[m][k]
    <2>1. v \in Nodes /\ v \in Successors(m)
      BY GraphFacts DEF Successors
    <2> HIDE DEF v
    <2>2. \A a \in Accesses : Reaching(m, Size(m), a) \subseteq Reaching(v, 1, a)
      BY <2>1, FeedersOfEdge DEF Reaching
    <2>3. LessEq(Reference(m, Size(m)), Reference(v, 1))
      BY <1>0, <1>3, <2>1, <2>2
    <2> QED BY <2>3 DEF v
  <1>7. ASSUME NEW m \in Nodes
        PROVE  /\ ReferenceRows[m] \in [1 .. Size(m) -> State]
               /\ LessEq(Entry(m), ReferenceRows[m][1])
               /\ LessEq(Apply(ReferenceRows[m][1], prog.inst[m][1]), ReferenceRows[m][1])
               /\ \A k \in 1 .. (Size(m) - 1) :
                    LessEq(Apply(ReferenceRows[m][k], prog.inst[m][k + 1]), ReferenceRows[m][k + 1])
    <2>1. ReferenceRows[m] \in [1 .. Size(m) -> State]
      BY <1>2 DEF ReferenceRows
    <2>2. \A k \in 1 .. (Size(m) - 1) : k \in 1 .. Size(m) /\ k + 1 \in 1 .. Size(m)
      BY <1>0
    <2> QED BY <1>0, <1>1, <1>4, <1>5, <2>1, <2>2
  <1>8. ASSUME NEW m \in Nodes, NEW k \in 1 .. Len(prog.succ[m])
        PROVE  LessEq(ReferenceRows[m][Size(m)], ReferenceRows[prog.succ[m][k]][1])
    <2>1. prog.succ[m][k] \in Nodes
      BY GraphFacts
    <2> QED BY <1>0, <1>1, <1>6, <2>1
  <1> HIDE DEF ReferenceRows
  <1> QED BY <1>7, <1>8 DEF IsSolution, Nodes, Size

(* What the analysis leaves is the closed form: for every row the deepest  *)
(* offset of the instructions on the paths to it.                          *)
THEOREM Exact == Spec => []ExactWhenDone
  <1>1. IInv /\ SolvedWhenDone /\ BelowSolutions => ExactWhenDone
    <2> SUFFICES ASSUME IInv, SolvedWhenDone, BelowSolutions, pc = "done",
                        NEW v \in Nodes, NEW k \in 1 .. Size(v)
                 PROVE  stackState[v][k] = Reference(v, k)
      BY DEF ExactWhenDone
    <2>1. TypeOK /\ IsSolution(prog, stackState)
      BY DEF IInv, SolvedWhenDone
    <2>2. stackState[v][k] \in State /\ Reference(v, k) \in State
      BY <2>1, DoneRows, ReferenceIs
    <2>3. LessEq(stackState[v][k], Reference(v, k))
      <3>1. BelowSolution(ReferenceRows)
        BY DEF BelowSolutions
      <3>2. ReferenceRows[v][k] = Reference(v, k)
        BY DEF ReferenceRows
      <3>3. stackState[v][k] # Uninit
        BY <2>2, MaxStackAssumption
      <3> HIDE DEF ReferenceRows
      <3> QED BY <2>1, <3>1, <3>2, <3>3, ReferenceSolves DEF BelowSolution
    <2>4. LessEq(Reference(v, k), stackState[v][k])
      <3>1. \A a \in Accesses : Reference(v, k)[a] \in Reaching(v, k, a)
        BY <2>1, ReferenceIs
      <3>2. \A a \in Accesses : Reference(v, k)[a] <= stackState[v][k][a]
        BY <2>1, <3>1, ReachingBelow
      <3> QED BY <2>2, <3>2, Components
    <2> QED BY <2>2, <2>3, <2>4, MaxStackAssumption DEF State, LessEq, Bottom
  <1> QED BY <1>1, Inductive, Solved, LeastSolution, PTL
=============================================================================
