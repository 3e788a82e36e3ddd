---------------------------- MODULE RegSrcProofs ----------------------------
(***************************************************************************)
(* Theorems about RegSrc and Graphviz.  An inductive invariant, Inv, and   *)
(* what follows from it: types and bounds, that the tree holds nothing but *)
(* definitions that reach, and that a finished search has all of them.  A  *)
(* second one, Kin, says what every node of a tree and every nested call   *)
(* was made for; from the two follow that no search starts itself again,   *)
(* how deep calls nest, what the marked rows of the graph show, and that   *)
(* an address is never deeper in the stack than the offset it folds to.    *)
(* A third one, Hunts, says where a search is on its way from a load to    *)
(* the stores before it, and gives that it finds them.                     *)
(***************************************************************************)
EXTENDS RegSrcLemmas, Graphviz

-----------------------------------------------------------------------------
(* The invariant holds at first and in every step.                         *)

LEMMA InvInit == Init => Inv
<1> SUFFICES ASSUME Init PROVE Inv
  OBVIOUS
<1>1. IsProgram(prog) /\ status = "running"
  BY RegSrcAssumption DEF Init
<1>2. PICK r \in prog.roots : frames = <<Frame(r[1], r[2], r[3])>>
  BY DEF Init
<1> DEFINE g == Frame(r[1], r[2], r[3])
<1>3. FrameOK(prog, g) /\ ~Waiting(g)
  <2>1. /\ r[1] \in DOMAIN prog.code /\ r[2] \in DOMAIN prog.code[r[1]]
        /\ r[3] \in DOMAIN prog.code[r[1]][r[2]].in
    BY <1>1 DEF IsProgram
  <2> QED BY <1>1, <2>1, NewFrame
<1> HIDE DEF g
<1>4. FramesOK(prog, <<g>>)
  <2>1. g \in FrameType(prog)
    BY <1>3 DEF FrameOK
  <2>2. <<g>> \in Seq(FrameType(prog)) /\ Len(<<g>>) = 1 /\ <<g>>[1] = g
    BY <2>1
  <2>3. 1 \in 1 .. MaxCalls
    BY RegSrcAssumption
  <2>4. \A d \in 1 .. 1 : d = 1
    OBVIOUS
  <2> QED BY <1>3, <2>2, <2>3, <2>4 DEF FramesOK
<1> QED BY <1>1, <1>2, <1>4 DEF Inv, g

LEMMA TopIs ==
  ASSUME Inv
  PROVE  /\ IsProgram(prog) /\ frames \in Seq(FrameType(prog))
         /\ Len(frames) \in 1 .. MaxCalls /\ Len(frames) \in Nat
         /\ top = frames[Len(frames)] /\ FrameOK(prog, top) /\ ~Waiting(top)
         /\ Len(frames) > 1 => FrameOK(prog, caller) /\ Waiting(caller)
<1>1. /\ IsProgram(prog) /\ frames \in Seq(FrameType(prog)) /\ Len(frames) \in 1 .. MaxCalls
      /\ \A d \in 1 .. Len(frames) :
           FrameOK(prog, frames[d]) /\ (Waiting(frames[d]) <=> d < Len(frames))
  BY DEF Inv, FramesOK
<1>2. Len(frames) \in Nat /\ Len(frames) >= 1 /\ Len(frames) \in 1 .. Len(frames)
  BY <1>1, LenProperties
<1>3. top = frames[Len(frames)]
  BY DEF top, Last
<1>4. Len(frames) > 1 => Len(frames) - 1 \in 1 .. Len(frames) /\ Len(frames) - 1 < Len(frames)
  BY <1>2
<1> QED BY <1>1, <1>2, <1>3, <1>4 DEF caller

LEMMA InvKept ==
  ASSUME Inv, prog' = prog, FramesOK(prog, frames'),
         status' \in {status, "done", "aborted", "overrun", "exhausted"}
  PROVE  Inv'
BY DEF Inv

LEMMA PopStep == ASSUME Inv, Pop PROVE Inv'
<1> DEFINE f == top
           g == [f EXCEPT !.src = Head(f.queue), !.queue = Tail(f.queue),
                          !.i = Head(f.queue).index - 1, !.pc = "scan"]
<1>1. IsProgram(prog) /\ FrameOK(prog, f) /\ FramesOK(prog, frames)
  BY TopIs DEF Inv
<1>2. f.pc = "pop" /\ f.queue # << >> /\ frames' = Front(frames) \o <<g>>
      /\ prog' = prog /\ status' = status
  BY DEF Pop, At, Become
<1> HIDE DEF f
<1>3. FrameOK(prog, g) /\ ~Waiting(g)
  BY <1>1, <1>2, PopFrame
<1> HIDE DEF g
<1>4. FramesOK(prog, Front(frames) \o <<g>>)
  BY <1>1, <1>3, BecomeOK
<1> QED BY <1>2, <1>4, InvKept

LEMMA ScanTempStep == ASSUME Inv, ScanTemp PROVE Inv'
<1> DEFINE f == top
           j == LastAt(Writers(f.src.node, f.src.temp), f.i)
           g == [f EXCEPT !.i = j, !.pc = IF j = 0 THEN "preds" ELSE "found"]
<1>1. IsProgram(prog) /\ FrameOK(prog, f) /\ FramesOK(prog, frames)
  BY TopIs DEF Inv
<1>2. f.pc = "scan" /\ f.src.kind = "temp" /\ frames' = Front(frames) \o <<g>>
      /\ prog' = prog /\ status' = status
  BY DEF ScanTemp, At, Become
<1> HIDE DEF f
<1>3. FrameOK(prog, g) /\ ~Waiting(g)
  BY <1>1, <1>2, ScanTempFrame
<1> HIDE DEF g
<1>4. FramesOK(prog, Front(frames) \o <<g>>)
  BY <1>1, <1>3, BecomeOK
<1> QED BY <1>2, <1>4, InvKept

LEMMA CallStep ==
  ASSUME Inv, NEW g, NEW h, FrameOK(prog, g), Waiting(g), FrameOK(prog, h), ~Waiting(h)
  PROVE  Len(frames) < MaxCalls => FramesOK(prog, Front(frames) \o <<g, h>>)
BY CallOK DEF Inv

LEMMA ScanSlotStep == ASSUME Inv, ScanSlot PROVE Inv'
<1> DEFINE f == top
           j == LastAt(Stores(f.src.node), f.i)
           b == f.src.node
           g == [f EXCEPT !.i = 0, !.pc = "preds"]
           c == [f EXCEPT !.i = j, !.pc = "store"]
           h == Frame(b, j, AddressArg(Inst(b, j)))
<1>1. IsProgram(prog) /\ FrameOK(prog, f) /\ FramesOK(prog, frames)
  BY TopIs DEF Inv
<1>2. /\ f.pc = "scan" /\ f.src.kind = "slot"
      /\ j = 0 => frames' = Front(frames) \o <<g>> /\ prog' = prog /\ status' = status
      /\ j # 0 => IF Len(frames) < MaxCalls
                  THEN frames' = Front(frames) \o <<c, h>> /\ prog' = prog /\ status' = status
                  ELSE frames' = frames /\ prog' = prog /\ status' = "exhausted"
  BY DEF ScanSlot, At, Become, Call
<1> HIDE DEF f
<1>3. /\ j = 0 => FrameOK(prog, g) /\ ~Waiting(g)
      /\ j # 0 => /\ FrameOK(prog, c) /\ Waiting(c)
                  /\ j \in DOMAIN prog.code[b] /\ Inst(b, j).op = "st"
  BY <1>1, <1>2, ScanSlotFrame, ZenonT(40)
<1>4. j # 0 => FrameOK(prog, h) /\ ~Waiting(h)
  <2>1. SUFFICES ASSUME j # 0 PROVE FrameOK(prog, h) /\ ~Waiting(h)
    OBVIOUS
  <2>2. b \in DOMAIN prog.code /\ j \in DOMAIN prog.code[b] /\ prog.code[b][j].op = "st"
    BY <1>1, <1>3, <2>1, FrameFacts DEF Inst
  <2> DEFINE inst == prog.code[b][j]
  <2>3. HasOperands(inst) /\ Len(inst.in) \in Nat /\ DOMAIN inst.in = 1 .. Len(inst.in)
    BY <1>1, <2>2, ProgramFacts
  <2> HIDE DEF j
  <2>4. 2 \in DOMAIN inst.in
    <3> HIDE DEF inst
    <3>1. Len(inst.in) >= 2
      BY <2>2, <2>3 DEF HasOperands, inst
    <3> QED BY <2>3, <3>1
  <2>5. AddressArg(Inst(b, j)) = 2
    BY <2>2 DEF AddressArg, Inst
  <2> QED BY <1>1, <2>2, <2>4, <2>5, NewFrame
<1> HIDE DEF j, b, g, c, h
<1>5. CASE j = 0
  <2>1. FramesOK(prog, Front(frames) \o <<g>>)
    BY <1>1, <1>3, <1>5, BecomeOK
  <2> QED BY <1>2, <1>5, <2>1, InvKept
<1>6. CASE j # 0
  <2>1. Len(frames) < MaxCalls => FramesOK(prog, Front(frames) \o <<c, h>>)
    BY <1>3, <1>4, <1>6, CallStep
  <2> QED BY <1>1, <1>2, <1>6, <2>1, InvKept
<1> QED BY <1>5, <1>6

(* What Found does, in terms of FoundTree.                                 *)
LEMMA FoundIs ==
  ASSUME Found
  PROVE  LET f == top
             s == f.src
             x == Len(f.tree) + 1
             branches == f.tree[s.info].children[s.origin]
             frame == [f EXCEPT !.tree = FoundTree(f)]
             c == [frame EXCEPT !.pc = "load"]
             h == Frame(s.node, f.i, 1)
             srcs == Inputs(x, frame)
             g == [frame EXCEPT !.queue = frame.queue \o srcs, !.pc = "pop"]
         IN  /\ f.pc = "found"
             /\ Len(branches) = MaxBranches =>
                  status' = "overrun" /\ prog' = prog /\ frames' = frames
             /\ Len(branches) # MaxBranches /\ Inst(s.node, f.i).op = "ld" =>
                  IF Len(frames) < MaxCalls
                  THEN frames' = Front(frames) \o <<c, h>> /\ prog' = prog /\ status' = status
                  ELSE frames' = frames /\ prog' = prog /\ status' = "exhausted"
             /\ Len(branches) # MaxBranches /\ Inst(s.node, f.i).op # "ld" =>
                  IF Len(frame.queue) + Len(srcs) <= QueueLen
                  THEN frames' = Front(frames) \o <<g>> /\ prog' = prog /\ status' = status
                  ELSE frames' = frames /\ prog' = prog /\ status' = "aborted"
<1> DEFINE f == top
           s == f.src
           x == Len(f.tree) + 1
           branches == f.tree[s.info].children[s.origin]
           frame == [f EXCEPT !.tree = FoundTree(f)]
           c == [frame EXCEPT !.pc = "load"]
           h == Frame(s.node, f.i, 1)
           srcs == Inputs(x, frame)
           g == [frame EXCEPT !.queue = frame.queue \o srcs, !.pc = "pop"]
           info == SrcInfo(s.node, f.i, OpIndex(s, Inst(s.node, f.i)))
           tree == [f.tree EXCEPT ![s.info].children[s.origin] = Append(branches, x)]
           made == [f EXCEPT !.tree = Append(tree, info)]
<1>1. made = frame
  BY DEF FoundTree, FoundInfo, Grown
<1>2. /\ f.pc = "found"
      /\ IF Len(branches) = MaxBranches
         THEN status' = "overrun" /\ UNCHANGED <<prog, frames>>
         ELSE IF Inst(s.node, f.i).op = "ld"
              THEN Call([made EXCEPT !.pc = "load"], h)
              ELSE Push(made, Inputs(x, made))
  BY DEF Found, At
<1> HIDE DEF made, frame, f, h, s, x, branches
<1>3. /\ f.pc = "found"
      /\ IF Len(branches) = MaxBranches
         THEN status' = "overrun" /\ UNCHANGED <<prog, frames>>
         ELSE IF Inst(s.node, f.i).op = "ld" THEN Call(c, h) ELSE Push(frame, srcs)
  BY <1>1, <1>2
<1>4. Push(frame, srcs) <=> IF Len(frame.queue) + Len(srcs) <= QueueLen
        THEN frames' = Front(frames) \o <<g>> /\ prog' = prog /\ status' = status
        ELSE frames' = frames /\ prog' = prog /\ status' = "aborted"
  BY DEF Push, Become
<1> HIDE DEF g, srcs, c
<1>5. Call(c, h) <=> IF Len(frames) < MaxCalls
        THEN frames' = Front(frames) \o <<c, h>> /\ prog' = prog /\ status' = status
        ELSE frames' = frames /\ prog' = prog /\ status' = "exhausted"
  BY DEF Call
<1>6. /\ f.pc = "found"
      /\ Len(branches) = MaxBranches =>
           status' = "overrun" /\ prog' = prog /\ frames' = frames
      /\ Len(branches) # MaxBranches /\ Inst(s.node, f.i).op = "ld" =>
           IF Len(frames) < MaxCalls
           THEN frames' = Front(frames) \o <<c, h>> /\ prog' = prog /\ status' = status
           ELSE frames' = frames /\ prog' = prog /\ status' = "exhausted"
      /\ Len(branches) # MaxBranches /\ Inst(s.node, f.i).op # "ld" =>
           IF Len(frame.queue) + Len(srcs) <= QueueLen
           THEN frames' = Front(frames) \o <<g>> /\ prog' = prog /\ status' = status
           ELSE frames' = frames /\ prog' = prog /\ status' = "aborted"
  BY <1>3, <1>4, <1>5
<1> QED BY <1>6 DEF f, s, x, branches, frame, c, h, srcs, g

LEMMA FoundStepInv == ASSUME Inv, Found PROVE Inv'
<1> DEFINE f == top
           s == f.src
           x == Len(f.tree) + 1
           branches == f.tree[s.info].children[s.origin]
           frame == [f EXCEPT !.tree = FoundTree(f)]
           c == [frame EXCEPT !.pc = "load"]
           h == Frame(s.node, f.i, 1)
           srcs == Inputs(x, frame)
           g == [frame EXCEPT !.queue = frame.queue \o srcs, !.pc = "pop"]
<1>1. IsProgram(prog) /\ FrameOK(prog, f) /\ FramesOK(prog, frames)
  BY TopIs DEF Inv
<1>2. /\ f.pc = "found"
      /\ Len(branches) = MaxBranches =>
           status' = "overrun" /\ prog' = prog /\ frames' = frames
      /\ Len(branches) # MaxBranches /\ Inst(s.node, f.i).op = "ld" =>
           IF Len(frames) < MaxCalls
           THEN frames' = Front(frames) \o <<c, h>> /\ prog' = prog /\ status' = status
           ELSE frames' = frames /\ prog' = prog /\ status' = "exhausted"
      /\ Len(branches) # MaxBranches /\ Inst(s.node, f.i).op # "ld" =>
           IF Len(frame.queue) + Len(srcs) <= QueueLen
           THEN frames' = Front(frames) \o <<g>> /\ prog' = prog /\ status' = status
           ELSE frames' = frames /\ prog' = prog /\ status' = "aborted"
  BY FoundIs
<1> HIDE DEF f
<1>3. CASE Len(branches) = MaxBranches
  BY <1>1, <1>2, <1>3, InvKept
<1>4. CASE Len(branches) # MaxBranches /\ Inst(s.node, f.i).op = "ld"
  <2>1. FrameOK(prog, c) /\ Waiting(c) /\ FrameOK(prog, h) /\ ~Waiting(h)
    BY <1>1, <1>2, <1>4, FoundLoadFrame
  <2> HIDE DEF c, h
  <2>2. Len(frames) < MaxCalls => FramesOK(prog, Front(frames) \o <<c, h>>)
    BY <2>1, CallStep
  <2> HIDE DEF g, srcs, frame, x, branches
  <2> QED BY <1>1, <1>2, <1>4, <2>2, InvKept
<1>5. CASE Len(branches) # MaxBranches /\ Inst(s.node, f.i).op # "ld"
  <2>1. Len(frame.queue) + Len(srcs) <= QueueLen => FrameOK(prog, g) /\ ~Waiting(g)
    <3>1. SUFFICES ASSUME Len(frame.queue) + Len(srcs) <= QueueLen
                   PROVE  FrameOK(prog, g) /\ ~Waiting(g)
      OBVIOUS
    <3> QED BY <1>1, <1>2, <1>5, <3>1, FoundPushFrame
  <2> HIDE DEF g, c, h, srcs, frame, x, branches
  <2>2. FrameOK(prog, g) /\ ~Waiting(g) => FramesOK(prog, Front(frames) \o <<g>>)
    BY <1>1, BecomeOK
  <2> QED BY <1>1, <1>2, <1>5, <2>1, <2>2, InvKept
<1> QED BY <1>3, <1>4, <1>5

LEMMA PredsStep == ASSUME Inv, Preds PROVE Inv'
<1> DEFINE f == top
           s == f.src
           pred == prog.pred[s.node]
           new == Ordered({j \in DOMAIN pred : ~tbset_isset(s, pred[j])})
           srcs == [j \in DOMAIN new |-> Onward(s, pred[new[j]])]
           g == [f EXCEPT !.queue = f.queue \o srcs, !.pc = "pop"]
<1>1. IsProgram(prog) /\ FrameOK(prog, f) /\ FramesOK(prog, frames)
  BY TopIs DEF Inv
<1>2. /\ f.pc = "preds"
      /\ IF (new # << >> /\ tbset_full(s)) \/ ~(Len(f.queue) + Len(srcs) <= QueueLen)
         THEN frames' = frames /\ prog' = prog /\ status' = "aborted"
         ELSE frames' = Front(frames) \o <<g>> /\ prog' = prog /\ status' = status
  BY DEF Preds, At, Become, Push, Onward
<1> HIDE DEF f
<1>3. ~(new # << >> /\ tbset_full(s)) /\ Len(f.queue) + Len(srcs) <= QueueLen =>
        FrameOK(prog, g) /\ ~Waiting(g)
  BY <1>1, <1>2, PredsFrame
<1> HIDE DEF g, srcs, new
<1>4. FrameOK(prog, g) /\ ~Waiting(g) => FramesOK(prog, Front(frames) \o <<g>>)
  BY <1>1, BecomeOK
<1> QED BY <1>1, <1>2, <1>3, <1>4, InvKept

LEMMA ReturnToStoreStep == ASSUME Inv, ReturnToStore PROVE Inv'
<1> DEFINE f == caller
           a == [f EXCEPT !.pc = "found"]
           b == [f EXCEPT !.i = @ - 1, !.pc = "scan"]
<1>1. /\ Len(frames) > 1 /\ f.pc = "store" /\ prog' = prog /\ status' = status
      /\ frames' \in {Front(Front(frames)) \o <<a>>, Front(Front(frames)) \o <<b>>}
  BY DEF ReturnToStore, Resume
<1>2. IsProgram(prog) /\ FrameOK(prog, f) /\ FramesOK(prog, frames)
  BY <1>1, TopIs DEF Inv
<1> HIDE DEF f
<1>3. FrameOK(prog, a) /\ ~Waiting(a) /\ FrameOK(prog, b) /\ ~Waiting(b)
  BY <1>1, <1>2, StoreFrame
<1> HIDE DEF a, b
<1>4. /\ FramesOK(prog, Front(Front(frames)) \o <<a>>)
      /\ FramesOK(prog, Front(Front(frames)) \o <<b>>)
  BY <1>1, <1>2, <1>3, ResumeOK
<1> QED BY <1>1, <1>4, InvKept

(* The offset that the tree of a finished search folds to.                 *)
LEMMA FoldedTyped ==
  ASSUME Inv PROVE folded.valid \in BOOLEAN /\ folded.value \in Nat
<1> DEFINE t == top.tree
           arg == top.arg
<1>1. IsProgram(prog) /\ TreeOK(prog, t) /\ arg \in DOMAIN t[1].children
  BY TopIs DEF FrameOK
<1> HIDE DEF t, arg
<1>2. /\ Len(t) \in Nat \ {0} /\ DOMAIN t = 1 .. Len(t) /\ 1 \in DOMAIN t
      /\ \A x \in DOMAIN t :
           /\ t[x].node \in DOMAIN prog.code /\ t[x].index \in DOMAIN prog.code[t[x].node]
           /\ DOMAIN t[x].children = DOMAIN InstOf(prog, t[x]).in
           /\ \A k \in DOMAIN t[x].children : LinkOK(prog, t, x, k)
  BY <1>1, TreeFacts
<1>3. Linked(prog.code, t)
  <2>1. ASSUME NEW x \in DOMAIN t
        PROVE  LET inst == prog.code[t[x].node][t[x].index]
               IN  /\ HasOperands(inst) /\ Len(inst.in) \in Nat
                   /\ DOMAIN inst.in = 1 .. Len(inst.in)
                   /\ \A k \in 1 .. Len(inst.in) :
                        Range(t[x].children[k]) \subseteq (x + 1) .. Len(t)
    <3> DEFINE inst == prog.code[t[x].node][t[x].index]
    <3>1. HasOperands(inst) /\ Len(inst.in) \in Nat /\ DOMAIN inst.in = 1 .. Len(inst.in)
      <4>1. t[x].node \in DOMAIN prog.code /\ t[x].index \in DOMAIN prog.code[t[x].node]
        BY <1>2
      <4> QED BY <1>1, <4>1, InstructionFacts
    <3>2. DOMAIN t[x].children = 1 .. Len(inst.in)
      BY <1>2, <3>1 DEF InstOf
    <3> QED BY <1>2, <3>1, <3>2 DEF LinkOK
  <2> QED BY <1>2, <2>1 DEF Linked
<1>4. arg \in 1 .. Len(prog.code[t[1].node][t[1].index].in)
  <2>1. /\ t[1].node \in DOMAIN prog.code /\ t[1].index \in DOMAIN prog.code[t[1].node]
        /\ DOMAIN t[1].children = DOMAIN prog.code[t[1].node][t[1].index].in
    BY <1>2 DEF InstOf
  <2> DEFINE in == prog.code[t[1].node][t[1].index].in
  <2>2. DOMAIN in = 1 .. Len(in)
    BY <1>1, <2>1, InstructionFacts
  <2> QED BY <1>1, <2>1, <2>2
<1>5. LET r == fold_ld_st_stack_pointer(prog.code, t, arg)
      IN  r.valid \in BOOLEAN /\ r.value \in Nat
  BY <1>2, <1>3, <1>4, OffsetTyped
<1> QED BY <1>5 DEF folded, t, arg

LEMMA ReturnToLoadStep == ASSUME Inv, ReturnToLoad PROVE Inv'
<1> DEFINE f == caller
           x == Len(f.tree)
           slot == SlotSrc(f, folded.value)
           first == IF folded.valid THEN <<slot>> ELSE << >>
           srcs == first \o Inputs(x, f)
           g == [f EXCEPT !.queue = f.queue \o srcs, !.pc = "pop"]
<1>1. /\ Len(frames) > 1 /\ f.pc = "load"
      /\ IF Len(f.queue) + Len(srcs) <= QueueLen
         THEN frames' = Front(Front(frames)) \o <<g>> /\ prog' = prog /\ status' = status
         ELSE frames' = frames /\ prog' = prog /\ status' = "aborted"
  BY DEF ReturnToLoad, Resume, SlotSrc
<1>2. IsProgram(prog) /\ FrameOK(prog, f) /\ FramesOK(prog, frames) /\ folded.value \in Nat
  BY <1>1, TopIs, FoldedTyped DEF Inv
<1> HIDE DEF f
<1>3. EntryOK(prog, f.tree, f.arg, slot)
  BY <1>1, <1>2, SlotOK
<1> HIDE DEF slot
<1>4. first \in Seq(EntryType(prog)) /\ \A j \in DOMAIN first : EntryOK(prog, f.tree, f.arg, first[j])
  <2>1. slot \in EntryType(prog)
    BY <1>3 DEF EntryOK
  <2>2. <<slot>> \in Seq(EntryType(prog)) /\ << >> \in Seq(EntryType(prog))
    BY <2>1
  <2>3. \A j \in DOMAIN <<slot>> : EntryOK(prog, f.tree, f.arg, <<slot>>[j])
    BY <1>3
  <2> QED BY <2>2, <2>3
<1> HIDE DEF first
<1>5. Len(f.queue) + Len(srcs) <= QueueLen => FrameOK(prog, g) /\ ~Waiting(g)
  BY <1>1, <1>2, <1>4, LoadFrame
<1> HIDE DEF g, srcs
<1>6. FrameOK(prog, g) /\ ~Waiting(g) => FramesOK(prog, Front(Front(frames)) \o <<g>>)
  BY <1>1, <1>2, ResumeOK
<1> QED BY <1>1, <1>2, <1>5, <1>6, InvKept

LEMMA FinishStep == ASSUME Inv, Finish PROVE Inv'
<1>1. frames' = frames /\ prog' = prog /\ status' = "done" /\ FramesOK(prog, frames)
  BY DEF Finish, Inv
<1> QED BY <1>1, InvKept

LEMMA InvNext == Inv /\ [Next]_vars => Inv'
<1> SUFFICES ASSUME Inv, [Next]_vars PROVE Inv'
  OBVIOUS
<1>1. CASE UNCHANGED vars
  BY <1>1 DEF vars, Inv
<1> QED BY <1>1, PopStep, ScanTempStep, ScanSlotStep, FoundStepInv, PredsStep,
           ReturnToStoreStep, ReturnToLoadStep, FinishStep DEF Next

(* The invariant holds in every state.                                     *)
THEOREM InvHolds == Spec => []Inv
<1>1. Init => Inv
  BY InvInit
<1>2. Inv /\ [Next]_vars => Inv'
  BY InvNext
<1> QED BY <1>1, <1>2, PTL DEF Spec

-----------------------------------------------------------------------------
(* Types and bounds.                                                       *)

LEMMA SrcOKFrom ==
  ASSUME NEW f, NEW s, EntryOK(prog, f.tree, f.arg, s)
  PROVE  SrcOK(f, s)
<1>1. /\ s \in EntryType(prog) /\ s.info \in DOMAIN f.tree
      /\ s.index <= Len(prog.code[s.node]) + 1
      /\ s.origin \in DOMAIN f.tree[s.info].children /\ Cardinality(s.seen) <= MaxTbs
  BY DEF EntryOK
<1>2. s \in SrcType(f)
  BY <1>1 DEF EntryType, SrcType, Blocks
<1> QED BY <1>1, <1>2 DEF SrcOK

LEMMA InvTypes == Inv => TypeOK
<1> SUFFICES ASSUME Inv PROVE TypeOK
  OBVIOUS
<1>1. /\ IsProgram(prog) /\ frames \in Seq(FrameType(prog)) /\ Len(frames) \in 1 .. MaxCalls
      /\ status \in {"running", "done", "aborted", "overrun", "exhausted"}
      /\ \A d \in 1 .. Len(frames) :
           FrameOK(prog, frames[d]) /\ (Waiting(frames[d]) <=> d < Len(frames))
  BY DEF Inv, FramesOK
<1>2. DOMAIN frames = 1 .. Len(frames)
  BY <1>1, LenProperties
<1>3. ASSUME NEW d \in DOMAIN frames
      PROVE  LET f == frames[d]
             IN  /\ f.pc \in {"pop", "scan", "found", "preds", "store", "load"}
                 /\ (f.pc \in {"store", "load"}) <=> (d < Len(frames))
                 /\ Len(f.queue) <= QueueLen
                 /\ \A j \in DOMAIN f.queue : SrcOK(f, f.queue[j])
                 /\ SrcOK(f, f.src)
                 /\ f.pc # "pop" => f.i \in 0 .. Len(prog.code[f.src.node])
                 /\ f.pc \in {"found", "store", "load"} => f.i > 0
                 /\ \A x \in DOMAIN f.tree : \A k \in DOMAIN f.tree[x].children :
                      /\ Len(f.tree[x].children[k]) <= MaxBranches
                      /\ Range(f.tree[x].children[k]) \subseteq (x + 1) .. Len(f.tree)
  <2> DEFINE f == frames[d]
  <2>1. FrameOK(prog, f) /\ (Waiting(f) <=> d < Len(frames))
    BY <1>1, <1>2
  <2> HIDE DEF f
  <2>2. /\ f \in FrameType(prog) /\ Len(f.queue) <= QueueLen /\ PlaceOK(prog, f)
        /\ TreeOK(prog, f.tree) /\ EntryOK(prog, f.tree, f.arg, f.src)
        /\ \A j \in DOMAIN f.queue : EntryOK(prog, f.tree, f.arg, f.queue[j])
    BY <2>1 DEF FrameOK
  <2>3. f.pc \in {"pop", "scan", "found", "preds", "store", "load"}
    BY <2>2 DEF FrameType
  <2>4. /\ f.pc # "pop" => f.i \in 0 .. Len(prog.code[f.src.node])
        /\ f.pc \in {"found", "store", "load"} => f.i > 0
    BY <2>2 DEF PlaceOK
  <2>5. \A x \in DOMAIN f.tree : \A k \in DOMAIN f.tree[x].children :
          /\ Len(f.tree[x].children[k]) <= MaxBranches
          /\ Range(f.tree[x].children[k]) \subseteq (x + 1) .. Len(f.tree)
    BY <2>2 DEF TreeOK, LinkOK
  <2>6. SrcOK(f, f.src) /\ \A j \in DOMAIN f.queue : SrcOK(f, f.queue[j])
    BY <2>2, SrcOKFrom
  <2> QED BY <2>1, <2>2, <2>3, <2>4, <2>5, <2>6 DEF Waiting, f
<1> QED BY <1>1, <1>3 DEF TypeOK

(* Every entry points into the tree of its own call, the links of a tree   *)
(* lead to later nodes, the queue, the branches of an operand and a TbSet  *)
(* hold no more than they have room for, and at every moment exactly the   *)
(* calls below the top one wait for another call (analyze-reg-src.c:85-245).*)
THEOREM TypeCorrect == Spec => []TypeOK
<1>1. Inv => TypeOK
  BY InvTypes
<1> QED BY <1>1, InvHolds, PTL

-----------------------------------------------------------------------------
(* What the trees say.                                                     *)

LEMMA ChildFacts ==
  ASSUME NEW tree, IsProgram(prog), TreeOK(prog, tree),
         NEW x \in DOMAIN tree, NEW k \in DOMAIN tree[x].children
  PROVE  /\ TempBranches(tree, x, k)
              \subseteq Reaching(prog, tree[x].node, tree[x].index, Operand(tree, x, k), {})
         /\ StoreBranches(tree, x, k) # {} => x > 1 /\ Inst(tree[x].node, tree[x].index).op = "ld"
<1> DEFINE C == Range(tree[x].children[k])
           R == Reaching(prog, tree[x].node, tree[x].index, Operand(tree, x, k), {})
           Loads == x > 1 /\ Inst(tree[x].node, tree[x].index).op = "ld"
<1>1. \A c \in C : ChildOK(prog, tree, x, k, c)
  BY TreeFacts DEF LinkOK
<1>2. \A c \in C : IF Inst(tree[c].node, tree[c].index).op = "st"
                   THEN Loads ELSE <<tree[c].node, tree[c].index>> \in R
  BY <1>1 DEF ChildOK, InstOf, Inst, Operand
<1>3. Branches(tree, x, k) = {<<tree[c].node, tree[c].index>> : c \in C}
  BY DEF Branches
<1> HIDE DEF C, R, Loads
<1>4. TempBranches(tree, x, k) \subseteq R
  <2> SUFFICES ASSUME NEW q \in TempBranches(tree, x, k) PROVE q \in R
    OBVIOUS
  <2>1. q \in Branches(tree, x, k) /\ Inst(q[1], q[2]).op # "st"
    BY DEF TempBranches
  <2>2. PICK c \in C : q = <<tree[c].node, tree[c].index>>
    BY <2>1, <1>3
  <2>3. q[1] = tree[c].node /\ q[2] = tree[c].index
    BY <2>2
  <2> QED BY <2>1, <2>2, <2>3, <1>2
<1>5. StoreBranches(tree, x, k) # {} => Loads
  <2> SUFFICES ASSUME NEW q \in StoreBranches(tree, x, k) PROVE Loads
    OBVIOUS
  <2>1. q \in Branches(tree, x, k) /\ Inst(q[1], q[2]).op = "st"
    BY DEF StoreBranches, TempBranches
  <2>2. PICK c \in C : q = <<tree[c].node, tree[c].index>>
    BY <2>1, <1>3
  <2>3. q[1] = tree[c].node /\ q[2] = tree[c].index
    BY <2>2
  <2> QED BY <2>1, <2>3, <1>2
<1> QED BY <1>4, <1>5 DEF R, Loads

LEMMA InvOnlyDefinitions == Inv => OnlyDefinitions
<1> SUFFICES ASSUME Inv PROVE OnlyDefinitions
  OBVIOUS
<1>1. /\ IsProgram(prog) /\ DOMAIN frames = 1 .. Len(frames)
      /\ \A d \in 1 .. Len(frames) : FrameOK(prog, frames[d])
  BY LenProperties DEF Inv, FramesOK
<1>2. ASSUME NEW d \in DOMAIN frames, NEW x \in DOMAIN frames[d].tree,
             NEW k \in DOMAIN frames[d].tree[x].children
      PROVE  LET tree == frames[d].tree
             IN  /\ TempBranches(tree, x, k)
                      \subseteq ReachingDefs(tree[x].node, tree[x].index, Operand(tree, x, k))
                 /\ StoreBranches(tree, x, k) # {} => Inst(tree[x].node, tree[x].index).op = "ld"
  <2> DEFINE tree == frames[d].tree
  <2>1. TreeOK(prog, tree)
    BY <1>1 DEF FrameOK
  <2> HIDE DEF tree
  <2>2. /\ TempBranches(tree, x, k)
             \subseteq Reaching(prog, tree[x].node, tree[x].index, Operand(tree, x, k), {})
        /\ StoreBranches(tree, x, k) # {} => Inst(tree[x].node, tree[x].index).op = "ld"
    BY <1>1, <2>1, <1>2, ChildFacts DEF tree
  <2>3. ReachingDefs(tree[x].node, tree[x].index, Operand(tree, x, k))
          = Reaching(prog, tree[x].node, tree[x].index, Operand(tree, x, k), {})
    BY ReachingIs
  <2> QED BY <2>2, <2>3 DEF tree
<1> QED BY <1>2 DEF OnlyDefinitions

(* When a call returns, nothing is pending.                                *)
LEMMA ReturnComplete ==
  ASSUME Inv, Returning, NEW x \in DOMAIN top.tree, NEW k \in DOMAIN top.tree[x].children,
         Owed(prog, top, x, k)
  PROVE  Reaching(prog, top.tree[x].node, top.tree[x].index, Operand(top.tree, x, k), {})
           \subseteq Branches(top.tree, x, k)
<1> DEFINE f == top
<1>1. FrameOK(prog, f)
  BY TopIs
<1>2. f.pc = "pop" /\ f.queue = << >>
  BY DEF Returning, At
<1>3. Live(f) = {}
  BY <1>2 DEF Live, Range
<1>4. Operand(f.tree, x, k) = InstOf(prog, f.tree[x]).in[k]
  BY DEF Operand, Inst, InstOf
<1> HIDE DEF f
<1>5. \A q \in Reaching(prog, f.tree[x].node, f.tree[x].index, InstOf(prog, f.tree[x]).in[k], {}) :
        Has(prog, f, x, k, q)
  BY <1>1 DEF FrameOK, Complete, f
<1> QED BY <1>3, <1>4, <1>5 DEF Has, f

LEMMA InvSearchExact == Inv => SearchExact
<1> SUFFICES ASSUME Inv, Returning
             PROVE  Branches(top.tree, 1, top.arg) =
                      ReachingDefs(top.tree[1].node, top.tree[1].index, Operand(top.tree, 1, top.arg))
  BY DEF SearchExact
<1>1. /\ IsProgram(prog) /\ TreeOK(prog, top.tree) /\ top.arg \in DOMAIN top.tree[1].children
  BY TopIs DEF FrameOK
<1>2. 1 \in DOMAIN top.tree
  BY <1>1, TreeFacts
<1>3. Reaching(prog, top.tree[1].node, top.tree[1].index, Operand(top.tree, 1, top.arg), {})
        \subseteq Branches(top.tree, 1, top.arg)
  <2>1. Owed(prog, top, 1, top.arg)
    BY DEF Owed
  <2> QED BY <1>1, <1>2, <2>1, ReturnComplete
<1>4. StoreBranches(top.tree, 1, top.arg) = {}
  <2>1. ~(1 > 1)
    OBVIOUS
  <2> QED BY <1>1, <1>2, <2>1, ChildFacts
<1>5. TempBranches(top.tree, 1, top.arg) \subseteq
        Reaching(prog, top.tree[1].node, top.tree[1].index, Operand(top.tree, 1, top.arg), {})
  BY <1>1, <1>2, ChildFacts
<1>6. Branches(top.tree, 1, top.arg) \subseteq TempBranches(top.tree, 1, top.arg)
  BY <1>4 DEF StoreBranches
<1> QED BY <1>3, <1>5, <1>6, ReachingIs

LEMMA InvTreeExact == Inv => TreeExact
<1> SUFFICES ASSUME Inv, Returning, Acyclic,
                    NEW x \in 2 .. Len(top.tree), NEW k \in DOMAIN top.tree[x].children,
                    ~IsConst(Operand(top.tree, x, k))
             PROVE  TempBranches(top.tree, x, k) =
                      ReachingDefs(top.tree[x].node, top.tree[x].index, Operand(top.tree, x, k))
  BY DEF TreeExact
<1>1. IsProgram(prog) /\ TreeOK(prog, top.tree)
  BY TopIs DEF FrameOK
<1>2. x \in DOMAIN top.tree /\ x # 1 /\ x \in Nat
  BY <1>1, TreeFacts
<1> DEFINE R == Reaching(prog, top.tree[x].node, top.tree[x].index, Operand(top.tree, x, k), {})
<1>3. R \subseteq Branches(top.tree, x, k)
  <2>1. IsAcyclic(prog)
    BY DEF Acyclic, IsAcyclic, Blocks
  <2>2. ~IsConst(InstOf(prog, top.tree[x]).in[k])
    BY DEF Operand, Inst, InstOf
  <2>3. top.pc = "pop"
    BY DEF Returning, At
  <2>4. Owed(prog, top, x, k)
    BY <1>2, <2>1, <2>2, <2>3 DEF Owed
  <2> QED BY <1>2, <2>4, ReturnComplete
<1>4. TempBranches(top.tree, x, k) \subseteq R
  BY <1>1, <1>2, ChildFacts
<1>5. \A q \in R : Inst(q[1], q[2]).op # "st"
  <2> DEFINE n == top.tree[x]
             t == Operand(top.tree, x, k)
  <2>1. n.node \in DOMAIN prog.code /\ n.index \in DOMAIN prog.code[n.node]
    BY <1>1, <1>2, TreeFacts
  <2> HIDE DEF n, t
  <2>2. R = Reaching(prog, n.node, n.index, t, {})
    BY DEF n, t
  <2> QED BY <1>1, <2>1, <2>2, ReachingNoStore DEF Inst
<1>6. R \subseteq TempBranches(top.tree, x, k)
  BY <1>3, <1>5 DEF TempBranches
<1> QED BY <1>4, <1>6, ReachingIs

(* What a finished search has found for its operand is exactly the set of  *)
(* definitions that reach it, with loops or without                        *)
(* (analyze-reg-src.c:124-238).                                            *)
THEOREM SearchIsExact == Spec => []SearchExact
<1>1. Inv => SearchExact
  BY InvSearchExact
<1> QED BY <1>1, InvHolds, PTL

(* At every moment, what is recorded as a source of an operand anywhere in *)
(* a tree is a definition that reaches it or, below a load, a store        *)
(* (analyze-reg-src.c:157-223).                                            *)
THEOREM DefinitionsOnly == Spec => []OnlyDefinitions
<1>1. Inv => OnlyDefinitions
  BY InvOnlyDefinitions
<1> QED BY <1>1, InvHolds, PTL

(* Without loops, every operand of every instruction in a finished tree    *)
(* has all the definitions that reach it (analyze-reg-src.c:173-223).      *)
THEOREM TreeIsExact == Spec => []TreeExact
<1>1. Inv => TreeExact
  BY InvTreeExact
<1> QED BY <1>1, InvHolds, PTL

-----------------------------------------------------------------------------
(* Where the nodes of a tree and the calls come from: a second invariant.  *)

(* Node c of a tree is a source of operand k of node x; of the root only   *)
(* one operand, arg, is searched for.                                      *)
HangsAt(p, tree, arg, x, k, c) ==
  /\ c \in Range(tree[x].children[k])
  /\ x = 1 => k = arg
  /\ LET out == InstOf(p, tree[c]).out
     IN  IF InstOf(p, tree[c]).op = "st" THEN tree[c].op_index = -1
         ELSE \E j \in DOMAIN out : tree[c].op_index = j - 1 /\ out[j] = InstOf(p, tree[x]).in[k]

Hung(p, tree, arg) ==
  \A c \in 2 .. Len(tree) : \E x \in DOMAIN tree : \E k \in DOMAIN tree[x].children :
    HangsAt(p, tree, arg, x, k, c)

(* Call g was made for the address of the instruction that f is at.        *)
Nested(p, f, g) ==
  /\ g.tree[1].node = f.src.node /\ g.tree[1].index = f.i
  /\ g.arg = AddressArg(InstOf(p, g.tree[1]))

KinOK(p, calls) ==
  /\ \A d \in 1 .. Len(calls) : Hung(p, calls[d].tree, calls[d].arg)
  /\ \A d \in 1 .. (Len(calls) - 1) : Nested(p, calls[d], calls[d + 1])

Kin == KinOK(prog, frames)

(* What a call was made for.                                               *)
SameRoot(f, g) ==
  g.tree[1].node = f.tree[1].node /\ g.tree[1].index = f.tree[1].index /\ g.arg = f.arg

-----------------------------------------------------------------------------
LEMMA BecomeIs ==
  ASSUME NEW S, NEW s \in Seq(S), Len(s) >= 1, NEW g
  PROVE  LET r == Front(s) \o <<g>>
         IN  Len(r) = Len(s) /\ r[Len(s)] = g /\ \A d \in 1 .. (Len(s) - 1) : r[d] = s[d]
<1> DEFINE n == Len(s)
           u == Front(s)
           w == <<g>>
           T == S \cup {g}
<1>1. s \in Seq(T) /\ n \in Nat
  BY SeqMonotonic, LenProperties
<1>2. w \in Seq(T) /\ Len(w) = 1 /\ w[1] = g
  <2>1. g \in T
    OBVIOUS
  <2> HIDE DEF T
  <2> QED BY <2>1
<1> HIDE DEF T
<1>3. u \in Seq(T) /\ Len(u) = n - 1 /\ \A d \in 1 .. (n - 1) : u[d] = s[d]
  BY <1>1, FrontIs
<1> HIDE DEF n, u, w
<1>4. /\ Len(u \o w) = Len(u) + Len(w)
      /\ \A d \in 1 .. Len(u) + Len(w) :
           (u \o w)[d] = IF d <= Len(u) THEN u[d] ELSE w[d - Len(u)]
  BY <1>2, <1>3, ConcatProperties
<1>5. Len(u) + Len(w) = n /\ n - Len(u) = 1 /\ n \in 1 .. n /\ ~(n <= Len(u))
  <2>1. n >= 1
    BY DEF n
  <2> QED BY <1>1, <1>2, <1>3, <2>1
<1>6. Len(u \o w) = n /\ (u \o w)[n] = g
  BY <1>2, <1>4, <1>5
<1>7. ASSUME NEW d \in 1 .. (n - 1) PROVE (u \o w)[d] = s[d]
  <2>1. d \in 1 .. n /\ d <= Len(u)
    BY <1>1, <1>3
  <2> QED BY <1>3, <1>4, <1>5, <2>1
<1> QED BY <1>6, <1>7 DEF n, u, w

LEMMA CallIs ==
  ASSUME NEW S, NEW s \in Seq(S), Len(s) >= 1, NEW g, NEW h
  PROVE  LET r == Front(s) \o <<g, h>>
         IN  /\ Len(r) = Len(s) + 1 /\ r[Len(s)] = g /\ r[Len(s) + 1] = h
             /\ \A d \in 1 .. (Len(s) - 1) : r[d] = s[d]
<1> DEFINE n == Len(s)
           u == Front(s)
           w == <<g, h>>
           T == S \cup {g, h}
<1>1. s \in Seq(T) /\ n \in Nat
  BY SeqMonotonic, LenProperties
<1>2. w \in Seq(T) /\ Len(w) = 2 /\ w[1] = g /\ w[2] = h
  <2>1. g \in T /\ h \in T
    OBVIOUS
  <2> HIDE DEF T
  <2> QED BY <2>1
<1> HIDE DEF T
<1>3. u \in Seq(T) /\ Len(u) = n - 1 /\ \A d \in 1 .. (n - 1) : u[d] = s[d]
  BY <1>1, FrontIs
<1> HIDE DEF n, u, w
<1>4. /\ Len(u \o w) = Len(u) + Len(w)
      /\ \A d \in 1 .. Len(u) + Len(w) :
           (u \o w)[d] = IF d <= Len(u) THEN u[d] ELSE w[d - Len(u)]
  BY <1>2, <1>3, ConcatProperties
<1>5. /\ Len(u) + Len(w) = n + 1 /\ n - Len(u) = 1 /\ n + 1 - Len(u) = 2
      /\ n \in 1 .. (n + 1) /\ n + 1 \in 1 .. (n + 1)
      /\ ~(n <= Len(u)) /\ ~(n + 1 <= Len(u))
  <2>1. n >= 1
    BY DEF n
  <2> QED BY <1>1, <1>2, <1>3, <2>1
<1>6. Len(u \o w) = n + 1 /\ (u \o w)[n] = g /\ (u \o w)[n + 1] = h
  BY <1>2, <1>4, <1>5
<1>7. ASSUME NEW d \in 1 .. (n - 1) PROVE (u \o w)[d] = s[d]
  <2>1. d \in 1 .. (n + 1) /\ d <= Len(u)
    BY <1>1, <1>3
  <2> QED BY <1>3, <1>4, <1>5, <2>1
<1> QED BY <1>6, <1>7 DEF n, u, w

LEMMA ResumeIs ==
  ASSUME NEW S, NEW s \in Seq(S), Len(s) > 1, NEW g
  PROVE  LET r == Front(Front(s)) \o <<g>>
         IN  /\ Len(r) = Len(s) - 1 /\ r[Len(s) - 1] = g
             /\ \A d \in 1 .. (Len(s) - 2) : r[d] = s[d]
<1> DEFINE n == Len(s)
           u == Front(s)
<1>1. n \in Nat /\ n > 1
  BY LenProperties
<1>2. u \in Seq(S) /\ Len(u) = n - 1 /\ \A d \in 1 .. (n - 1) : u[d] = s[d]
  BY FrontIs
<1> HIDE DEF n, u
<1>3. Len(u) >= 1
  BY <1>1, <1>2
<1>4. LET r == Front(u) \o <<g>>
      IN  Len(r) = Len(u) /\ r[Len(u)] = g /\ \A d \in 1 .. (Len(u) - 1) : r[d] = u[d]
  BY <1>2, <1>3, BecomeIs
<1>5. Len(u) - 1 = n - 2 /\ \A d \in 1 .. (n - 2) : d \in 1 .. (n - 1)
  BY <1>1, <1>2
<1> QED BY <1>2, <1>4, <1>5 DEF n, u

-----------------------------------------------------------------------------
LEMMA KinBecome ==
  ASSUME NEW p, NEW S, NEW s \in Seq(S), Len(s) >= 1, KinOK(p, s),
         NEW g, Hung(p, g.tree, g.arg), SameRoot(s[Len(s)], g)
  PROVE  KinOK(p, Front(s) \o <<g>>)
<1> DEFINE r == Front(s) \o <<g>>
           n == Len(s)
<1>1. n \in Nat /\ n >= 1 /\ Len(r) = n /\ r[n] = g /\ \A d \in 1 .. (n - 1) : r[d] = s[d]
  BY BecomeIs, LenProperties
<1> HIDE DEF r
<1>2. ASSUME NEW d \in 1 .. n PROVE Hung(p, r[d].tree, r[d].arg)
  <2>1. CASE d = n
    BY <1>1, <2>1
  <2>2. CASE d # n
    <3>1. d \in 1 .. (n - 1)
      BY <1>1, <2>2
    <3> QED BY <1>1, <3>1 DEF KinOK
  <2> QED BY <2>1, <2>2
<1>3. ASSUME NEW d \in 1 .. (n - 1) PROVE Nested(p, r[d], r[d + 1])
  <2>1. Nested(p, s[d], s[d + 1]) /\ r[d] = s[d]
    BY <1>1 DEF KinOK
  <2>2. CASE d + 1 = n
    <3>1. r[d + 1] = g /\ s[d + 1] = s[n]
      BY <1>1, <2>2
    <3>2. SameRoot(s[d + 1], g)
      BY <3>1
    <3> QED BY <2>1, <3>1, <3>2 DEF Nested, SameRoot, InstOf
  <2>3. CASE d + 1 # n
    <3>1. d + 1 \in 1 .. (n - 1)
      BY <1>1, <2>3
    <3> QED BY <2>1, <1>1, <3>1
  <2> QED BY <2>2, <2>3
<1> QED BY <1>1, <1>2, <1>3 DEF KinOK, r

LEMMA KinCall ==
  ASSUME NEW p, NEW S, NEW s \in Seq(S), Len(s) >= 1, KinOK(p, s),
         NEW g, Hung(p, g.tree, g.arg), SameRoot(s[Len(s)], g),
         NEW h, Hung(p, h.tree, h.arg), Nested(p, g, h)
  PROVE  KinOK(p, Front(s) \o <<g, h>>)
<1> DEFINE r == Front(s) \o <<g, h>>
           n == Len(s)
<1>1. /\ n \in Nat /\ n >= 1 /\ Len(r) = n + 1 /\ r[n] = g /\ r[n + 1] = h
      /\ \A d \in 1 .. (n - 1) : r[d] = s[d]
  BY CallIs, LenProperties
<1> HIDE DEF r
<1>2. ASSUME NEW d \in 1 .. (n + 1) PROVE Hung(p, r[d].tree, r[d].arg)
  <2>1. CASE d = n
    BY <1>1, <2>1
  <2>2. CASE d = n + 1
    BY <1>1, <2>2
  <2>3. CASE d # n /\ d # n + 1
    <3>1. d \in 1 .. (n - 1)
      BY <1>1, <2>3
    <3> QED BY <1>1, <3>1 DEF KinOK
  <2> QED BY <2>1, <2>2, <2>3
<1>3. ASSUME NEW d \in 1 .. n PROVE Nested(p, r[d], r[d + 1])
  <2>1. CASE d = n
    BY <2>1, <1>1
  <2>2. CASE d + 1 = n
    <3>1. r[d + 1] = g /\ s[d + 1] = s[n] /\ d \in 1 .. (n - 1)
      BY <1>1, <2>2
    <3>2. SameRoot(s[d + 1], g)
      BY <3>1
    <3>3. Nested(p, s[d], s[d + 1]) /\ r[d] = s[d]
      BY <1>1, <3>1 DEF KinOK
    <3> QED BY <3>1, <3>2, <3>3 DEF Nested, SameRoot, InstOf
  <2>3. CASE d # n /\ d + 1 # n
    <3>1. d \in 1 .. (n - 1) /\ d + 1 \in 1 .. (n - 1)
      BY <1>1, <2>3
    <3>2. Nested(p, s[d], s[d + 1])
      BY <3>1 DEF KinOK
    <3> QED BY <1>1, <3>1, <3>2
  <2> QED BY <2>1, <2>2, <2>3
<1>4. Len(r) - 1 = n
  BY <1>1
<1> QED BY <1>1, <1>2, <1>3, <1>4 DEF KinOK, r

LEMMA KinResume ==
  ASSUME NEW p, NEW S, NEW s \in Seq(S), Len(s) > 1, KinOK(p, s),
         NEW g, Hung(p, g.tree, g.arg), SameRoot(s[Len(s) - 1], g)
  PROVE  KinOK(p, Front(Front(s)) \o <<g>>)
<1> DEFINE u == Front(s)
           n == Len(s)
<1>1. n \in Nat /\ n > 1 /\ u \in Seq(S) /\ Len(u) = n - 1 /\ \A d \in 1 .. (n - 1) : u[d] = s[d]
  BY FrontIs, LenProperties
<1> HIDE DEF u
<1>2. KinOK(p, u)
  <2>1. \A d \in 1 .. (n - 1) : d \in 1 .. n
    BY <1>1
  <2>2. \A d \in 1 .. (n - 1 - 1) : d \in 1 .. (n - 1) /\ d + 1 \in 1 .. (n - 1)
    BY <1>1
  <2>3. \A d \in 1 .. Len(u) : Hung(p, u[d].tree, u[d].arg)
    BY <1>1, <2>1 DEF KinOK
  <2>4. \A d \in 1 .. (Len(u) - 1) : Nested(p, u[d], u[d + 1])
    BY <1>1, <2>2 DEF KinOK
  <2> QED BY <2>3, <2>4 DEF KinOK
<1>3. Len(u) >= 1 /\ u[Len(u)] = s[n - 1]
  BY <1>1
<1>4. KinOK(p, Front(u) \o <<g>>)
  BY <1>1, <1>2, <1>3, KinBecome
<1> QED BY <1>4 DEF u

(* A frame whose tree has only its root.                                   *)
LEMMA HungRoot ==
  ASSUME NEW p, NEW tree, Len(tree) = 1, NEW arg PROVE Hung(p, tree, arg)
<1>1. 2 .. Len(tree) = {}
  OBVIOUS
<1> QED BY <1>1 DEF Hung

(* The node that is found hangs from the operand that was searched for.    *)
LEMMA FoundIndex ==
  ASSUME IsProgram(prog), NEW f, FrameOK(prog, f), f.pc = "found"
  PROVE  LET s == f.src
             n == FoundInfo(f)
             out == InstOf(prog, n).out
         IN  IF InstOf(prog, n).op = "st" THEN n.op_index = -1
             ELSE \E j \in DOMAIN out :
                    n.op_index = j - 1 /\ out[j] = InstOf(prog, f.tree[s.info]).in[s.origin]
<1> DEFINE s == f.src
           n == FoundInfo(f)
           inst == prog.code[s.node][f.i]
           out == inst.out
           before == Before(prog, s.node, s.index, s.temp)
           len == Len(prog.code[s.node])
<1>1. /\ f.i \in DOMAIN prog.code[s.node] /\ InstOf(prog, n) = inst
      /\ n.op_index = OpIndex(s, inst)
  <2>1. f.i \in DOMAIN prog.code[s.node] /\ InstOf(prog, n) = inst
    BY FoundNode
  <2>2. n.op_index = OpIndex(s, inst)
    BY DEF FoundInfo, SrcInfo, Inst
  <2> QED BY <2>1, <2>2
<1>2. /\ s.node \in DOMAIN prog.code /\ len \in Nat /\ DOMAIN prog.code[s.node] = 1 .. len
      /\ s.kind \in {"temp", "slot"} /\ EntryOK(prog, f.tree, f.arg, s)
  BY FrameFacts
<1>3. IF s.kind = "temp" THEN before # {} /\ f.i = Max(before) ELSE inst.op = "st"
  BY DEF FrameOK, PlaceOK
<1> HIDE DEF n
<1>4. CASE s.kind = "temp"
  <2>1. before \subseteq 0 .. len /\ before \subseteq WritersOf(prog, s.node, s.temp)
    BY <1>2 DEF Before, WritersOf
  <2>2. f.i \in WritersOf(prog, s.node, s.temp)
    <3>1. before # {} /\ f.i = Max(before)
      BY <1>3, <1>4
    <3> HIDE DEF before, s, len
    <3>2. Max(before) \in before
      BY <3>1, <1>2, <2>1, MaxOfBounded
    <3> QED BY <3>1, <3>2, <2>1
  <2>3. inst.op # "st"
    BY <1>2, <2>2, WriterIsNoStore
  <2>4. s.temp = InstOf(prog, f.tree[s.info]).in[s.origin]
    BY <1>2, <1>4 DEF EntryOK
  <2> DEFINE J == {j \in DOMAIN out : out[j] = s.temp}
  <2>5. J \subseteq Nat /\ J # {}
    <3>1. DOMAIN out = 1 .. Len(out) /\ Len(out) \in Nat
      BY <1>1, <1>2, ProgramFacts, SMTT(30)
    <3>2. \E k \in DOMAIN out : out[k] = s.temp
      BY <2>2 DEF WritersOf, Range
    <3>3. \A k \in DOMAIN out : k \in Nat
      BY <3>1
    <3> HIDE DEF out
    <3> QED BY <3>2, <3>3
  <2>6. Min(J) \in J
    <3> HIDE DEF J
    <3> QED BY <2>5, MinOfNats
  <2>7. OpIndex(s, inst) = Min(J) - 1
    BY <1>4 DEF OpIndex
  <2>8. /\ InstOf(prog, n).op # "st" /\ InstOf(prog, n).out = out /\ Min(J) \in DOMAIN out
        /\ n.op_index = Min(J) - 1 /\ out[Min(J)] = InstOf(prog, f.tree[s.info]).in[s.origin]
    BY <1>1, <2>3, <2>4, <2>6, <2>7
  <2> HIDE DEF J, s, out, inst
  <2> QED BY <2>8 DEF n, s
<1>5. CASE s.kind = "slot"
  <2>1. OpIndex(s, inst) = -1
    BY <1>5 DEF OpIndex
  <2>2. inst.op = "st"
    BY <1>3, <1>5
  <2> QED BY <1>1, <2>1, <2>2 DEF n
<1> QED BY <1>2, <1>4, <1>5

LEMMA GrownOp ==
  ASSUME NEW p, IsProgram(p), NEW tree, TreeOK(p, tree),
         NEW a \in DOMAIN tree, NEW k, NEW n
  PROVE  \A y \in DOMAIN tree : Grown(tree, a, k, n)[y].op_index = tree[y].op_index
<1> DEFINE x == Len(tree) + 1
           linked == [tree EXCEPT ![a].children[k] = Append(@, x)]
           S == {linked[y] : y \in DOMAIN tree} \cup {n}
<1>1. tree \in Seq(NodeType(p)) /\ Len(tree) \in Nat /\ DOMAIN tree = 1 .. Len(tree)
  BY LenProperties DEF TreeOK
<1>2. DOMAIN linked = 1 .. Len(tree) /\ n \in S /\ \A y \in DOMAIN tree : linked[y] \in S
  BY <1>1
<1>3. \A y \in DOMAIN tree : linked[y].op_index = tree[y].op_index
  <2> DEFINE new == [tree[a] EXCEPT !.children[k] = Append(tree[a].children[k], x)]
  <2>1. linked = [tree EXCEPT ![a] = new]
    OBVIOUS
  <2>2. new.op_index = tree[a].op_index
    <3>1. tree[a] \in NodeType(p)
      BY <1>1
    <3>2. tree[a] = [node |-> tree[a].node, index |-> tree[a].index,
                     op_index |-> tree[a].op_index, children |-> tree[a].children]
      BY <3>1 DEF NodeType
    <3> QED BY <3>2
  <2> HIDE DEF new, linked
  <2> QED BY <2>1, <2>2
<1>4. linked = [y \in 1 .. Len(tree) |-> linked[y]]
  <2> HIDE DEF S
  <2> QED BY <1>2
<1>5. linked \in Seq(S) /\ Len(linked) = Len(tree)
  <2> HIDE DEF linked, S
  <2>1. linked \in [1 .. Len(tree) -> S]
    BY <1>1, <1>2, <1>4
  <2> QED BY <1>1, <2>1
<1> HIDE DEF linked, S
<1>6. \A y \in DOMAIN tree : Append(linked, n)[y] = linked[y]
  BY <1>1, <1>2, <1>5, AppendProperties
<1> QED BY <1>3, <1>6 DEF Grown, linked

LEMMA FoundHung ==
  ASSUME IsProgram(prog), NEW f, FrameOK(prog, f), f.pc = "found", Hung(prog, f.tree, f.arg)
  PROVE  /\ Hung(prog, FoundTree(f), f.arg)
         /\ FoundTree(f)[1].node = f.tree[1].node /\ FoundTree(f)[1].index = f.tree[1].index
<1> DEFINE s == f.src
           a == s.info
           k == s.origin
           n == FoundInfo(f)
           t == FoundTree(f)
           x == Len(f.tree) + 1
<1>1. /\ TreeOK(prog, f.tree) /\ a \in DOMAIN f.tree /\ k \in DOMAIN f.tree[a].children
      /\ n \in NodeType(prog) /\ (a = 1 => k = f.arg)
  BY FrameFacts, FoundNode DEF EntryOK
<1>2. Len(f.tree) \in Nat \ {0} /\ DOMAIN f.tree = 1 .. Len(f.tree)
  BY <1>1, TreeFacts
<1>3. IF InstOf(prog, n).op = "st" THEN n.op_index = -1
      ELSE \E j \in DOMAIN InstOf(prog, n).out :
             n.op_index = j - 1 /\ InstOf(prog, n).out[j] = InstOf(prog, f.tree[a]).in[k]
  BY FoundIndex
<1>4. t = Grown(f.tree, a, k, n)
  BY DEF FoundTree
<1> HIDE DEF a, k, n, t
<1>5. /\ t \in Seq(NodeType(prog)) /\ Len(t) = x /\ DOMAIN t = 1 .. x /\ t[x] = n
      /\ \A y \in DOMAIN f.tree :
           /\ t[y].node = f.tree[y].node /\ t[y].index = f.tree[y].index
           /\ DOMAIN t[y].children = DOMAIN f.tree[y].children
           /\ \A l \in DOMAIN f.tree[y].children :
                t[y].children[l] = IF y = a /\ l = k THEN Append(f.tree[a].children[k], x)
                                                     ELSE f.tree[y].children[l]
  <2> DEFINE tr == f.tree
  <2>1. TreeOK(prog, tr) /\ a \in DOMAIN tr /\ k \in DOMAIN tr[a].children /\ n \in NodeType(prog)
    BY <1>1
  <2>2. t = Grown(tr, a, k, n) /\ x = Len(tr) + 1
    BY <1>4
  <2> HIDE DEF tr, x
  <2>3. LET g == Grown(tr, a, k, n)
            e == Len(tr) + 1
        IN  /\ g \in Seq(NodeType(prog)) /\ Len(g) = e /\ DOMAIN g = 1 .. e /\ g[e] = n
            /\ \A y \in DOMAIN tr :
                 /\ g[y].node = tr[y].node /\ g[y].index = tr[y].index
                 /\ DOMAIN g[y].children = DOMAIN tr[y].children
                 /\ \A l \in DOMAIN tr[y].children :
                      g[y].children[l] = IF y = a /\ l = k THEN Append(tr[a].children[k], e)
                                                           ELSE tr[y].children[l]
    BY ONLY IsProgram(prog), <2>1, GrownIs
  <2> QED BY <2>2, <2>3 DEF tr
<1>6. \A y \in DOMAIN f.tree : t[y].op_index = f.tree[y].op_index
  BY <1>1, <1>4, GrownOp
<1>7. /\ x \in Nat /\ f.tree[a].children[k] \in Seq(Nat)
      /\ Range(t[a].children[k]) = Range(f.tree[a].children[k]) \cup {x}
  <2>1. x \in Nat /\ f.tree[a].children[k] \in Seq(Nat)
    BY <1>1, <1>2, TreeFacts
  <2>2. t[a].children[k] = Append(f.tree[a].children[k], x)
    BY <1>1, <1>5
  <2> QED BY <2>1, <2>2, AppendRange
<1>8. \A y \in DOMAIN f.tree : y \in DOMAIN t /\ InstOf(prog, t[y]) = InstOf(prog, f.tree[y])
  BY <1>2, <1>5 DEF InstOf
<1>9. ASSUME NEW c \in 2 .. x
      PROVE  \E y \in DOMAIN t : \E l \in DOMAIN t[y].children : HangsAt(prog, t, f.arg, y, l, c)
  <2>1. CASE c = x
    <3>1. x \in Range(t[a].children[k]) /\ t[x] = n /\ InstOf(prog, t[a]) = InstOf(prog, f.tree[a])
      BY <1>1, <1>5, <1>7, <1>8
    <3>2. HangsAt(prog, t, f.arg, a, k, x)
      BY <1>1, <1>3, <3>1 DEF HangsAt
    <3>3. a \in DOMAIN t /\ k \in DOMAIN t[a].children
      BY <1>1, <1>5, <1>8
    <3> QED BY <2>1, <3>2, <3>3
  <2>2. CASE c # x
    <3>1. c \in 2 .. Len(f.tree) /\ c \in DOMAIN f.tree
      BY <1>2, <2>2
    <3>a. PICK y \in DOMAIN f.tree : \E l \in DOMAIN f.tree[y].children :
            HangsAt(prog, f.tree, f.arg, y, l, c)
      BY <3>1 DEF Hung
    <3>2. PICK l \in DOMAIN f.tree[y].children : HangsAt(prog, f.tree, f.arg, y, l, c)
      BY <3>a
    <3>3. Range(f.tree[y].children[l]) \subseteq Range(t[y].children[l])
      BY <1>5, <1>7, <3>2
    <3>4. y \in DOMAIN t /\ l \in DOMAIN t[y].children
      BY <1>5, <1>8, <3>2
    <3>5. /\ InstOf(prog, t[c]) = InstOf(prog, f.tree[c]) /\ t[c].op_index = f.tree[c].op_index
          /\ InstOf(prog, t[y]) = InstOf(prog, f.tree[y])
      BY <1>6, <1>8, <3>1, <3>2
    <3>6. HangsAt(prog, t, f.arg, y, l, c)
      BY <3>2, <3>3, <3>5 DEF HangsAt
    <3> QED BY <3>4, <3>6
  <2> QED BY <2>1, <2>2
<1>10. Hung(prog, t, f.arg)
  BY <1>5, <1>9 DEF Hung
<1>11. 1 \in DOMAIN f.tree
  BY <1>2
<1> QED BY <1>5, <1>10, <1>11 DEF t

(* The new frame of a search: its tree is the root.                        *)
LEMMA FrameIs ==
  ASSUME NEW b, NEW i, NEW k
  PROVE  LET h == Frame(b, i, k)
         IN  Len(h.tree) = 1 /\ h.tree[1].node = b /\ h.tree[1].index = i /\ h.arg = k
BY DEF Frame, SrcInfo

LEMMA KinTop ==
  ASSUME Inv, Kin
  PROVE  /\ frames \in Seq(FrameType(prog)) /\ Len(frames) >= 1 /\ KinOK(prog, frames)
         /\ top = frames[Len(frames)] /\ Hung(prog, top.tree, top.arg)
<1>1. /\ frames \in Seq(FrameType(prog)) /\ Len(frames) \in 1 .. MaxCalls
      /\ top = frames[Len(frames)] /\ Len(frames) \in Nat
  BY TopIs
<1>2. Len(frames) \in 1 .. Len(frames) /\ Len(frames) >= 1
  BY <1>1, RegSrcAssumption
<1> QED BY <1>1, <1>2 DEF Kin, KinOK

(* A step of the top call that leaves its tree alone.                      *)
LEMMA KinBecomes ==
  ASSUME Inv, Kin, NEW g, prog' = prog, frames' = Front(frames) \o <<g>>,
         g.tree = top.tree, g.arg = top.arg
  PROVE  Kin'
<1>1. Hung(prog, g.tree, g.arg) /\ SameRoot(frames[Len(frames)], g)
  BY KinTop DEF SameRoot
<1>2. KinOK(prog, Front(frames) \o <<g>>)
  BY <1>1, KinTop, KinBecome
<1> QED BY <1>2 DEF Kin

LEMMA KinStays == ASSUME Kin, prog' = prog, frames' = frames PROVE Kin'
BY DEF Kin

LEMMA KinInit == Init => Kin
<1> SUFFICES ASSUME Init PROVE Kin
  OBVIOUS
<1>1. PICK r \in prog.roots : frames = <<Frame(r[1], r[2], r[3])>>
  BY DEF Init
<1> DEFINE g == Frame(r[1], r[2], r[3])
<1>2. Hung(prog, g.tree, g.arg)
  BY FrameIs, HungRoot
<1> HIDE DEF g
<1>3. frames = <<g>> /\ Len(frames) = 1
  BY <1>1 DEF g
<1>4. \A d \in 1 .. 1 : d = 1
  OBVIOUS
<1>5. 1 .. (Len(frames) - 1) = {}
  BY <1>3
<1>6. \A d \in 1 .. Len(frames) : frames[d] = g
  BY <1>3, <1>4
<1> QED BY <1>2, <1>5, <1>6 DEF Kin, KinOK

LEMMA KinPop == ASSUME Inv, Kin, Pop PROVE Kin'
<1> DEFINE f == top
           g == [f EXCEPT !.src = Head(f.queue), !.queue = Tail(f.queue),
                          !.i = Head(f.queue).index - 1, !.pc = "scan"]
<1>1. frames' = Front(frames) \o <<g>> /\ prog' = prog
  BY DEF Pop, At, Become
<1>2. f \in FrameType(prog)
  BY TopIs DEF FrameOK
<1> HIDE DEF f
<1>3. g.tree = f.tree /\ g.arg = f.arg
  BY <1>2 DEF FrameType
<1> HIDE DEF g
<1> QED BY <1>1, <1>3, KinBecomes DEF f

LEMMA KinScanTemp == ASSUME Inv, Kin, ScanTemp PROVE Kin'
<1> DEFINE f == top
           j == LastAt(Writers(f.src.node, f.src.temp), f.i)
           g == [f EXCEPT !.i = j, !.pc = IF j = 0 THEN "preds" ELSE "found"]
<1>1. frames' = Front(frames) \o <<g>> /\ prog' = prog
  BY DEF ScanTemp, At, Become
<1>2. f \in FrameType(prog)
  BY TopIs DEF FrameOK
<1> HIDE DEF f, j
<1>3. g.tree = f.tree /\ g.arg = f.arg
  BY <1>2 DEF FrameType
<1> HIDE DEF g
<1> QED BY <1>1, <1>3, KinBecomes DEF f

LEMMA KinScanSlot == ASSUME Inv, Kin, ScanSlot PROVE Kin'
<1> DEFINE f == top
           j == LastAt(Stores(f.src.node), f.i)
           b == f.src.node
           g == [f EXCEPT !.i = 0, !.pc = "preds"]
           c == [f EXCEPT !.i = j, !.pc = "store"]
           h == Frame(b, j, AddressArg(Inst(b, j)))
<1>1. /\ prog' = prog
      /\ j = 0 => frames' = Front(frames) \o <<g>>
      /\ j # 0 => frames' = frames \/ frames' = Front(frames) \o <<c, h>>
  BY DEF ScanSlot, At, Become, Call
<1>2. f \in FrameType(prog)
  BY TopIs DEF FrameOK
<1> HIDE DEF f, j
<1>3. /\ g.tree = f.tree /\ g.arg = f.arg /\ c.tree = f.tree /\ c.arg = f.arg
      /\ c.src.node = b /\ c.i = j
  BY <1>2 DEF FrameType
<1>4. Hung(prog, h.tree, h.arg) /\ Nested(prog, c, h)
  <2>1. h.tree[1].node = b /\ h.tree[1].index = j /\ h.arg = AddressArg(Inst(b, j)) /\ Len(h.tree) = 1
    BY FrameIs
  <2> HIDE DEF h, c, b
  <2>2. AddressArg(Inst(b, j)) = AddressArg(InstOf(prog, h.tree[1]))
    BY <2>1 DEF Inst, InstOf
  <2> QED BY <1>3, <2>1, <2>2, HungRoot DEF Nested
<1> HIDE DEF g, c, h, b
<1>5. CASE j = 0
  BY <1>1, <1>3, <1>5, KinBecomes DEF f
<1>6. CASE j # 0 /\ frames' = Front(frames) \o <<c, h>>
  <2>1. Hung(prog, c.tree, c.arg) /\ SameRoot(frames[Len(frames)], c)
    BY <1>3, KinTop DEF SameRoot, f
  <2>2. KinOK(prog, Front(frames) \o <<c, h>>)
    BY <1>4, <2>1, KinTop, KinCall
  <2> QED BY <1>1, <1>6, <2>2 DEF Kin
<1>7. CASE frames' = frames
  BY <1>1, <1>7, KinStays
<1> QED BY <1>1, <1>5, <1>6, <1>7

LEMMA KinPreds == ASSUME Inv, Kin, Preds PROVE Kin'
<1> DEFINE f == top
           s == f.src
           pred == prog.pred[s.node]
           new == Ordered({j \in DOMAIN pred : ~tbset_isset(s, pred[j])})
           srcs == [j \in DOMAIN new |-> Onward(s, pred[new[j]])]
           g == [f EXCEPT !.queue = f.queue \o srcs, !.pc = "pop"]
<1>1. prog' = prog /\ (frames' = frames \/ frames' = Front(frames) \o <<g>>)
  BY DEF Preds, At, Become, Push, Onward
<1>2. f \in FrameType(prog)
  BY TopIs DEF FrameOK
<1> HIDE DEF f, srcs
<1>3. g.tree = f.tree /\ g.arg = f.arg
  BY <1>2 DEF FrameType
<1> HIDE DEF g
<1> QED BY <1>1, <1>3, KinBecomes, KinStays DEF f

(* A call returns and its caller, whose tree stays, goes on.               *)
LEMMA KinReturns ==
  ASSUME Inv, Kin, Len(frames) > 1, NEW g, prog' = prog,
         frames' = Front(Front(frames)) \o <<g>>, g.tree = caller.tree, g.arg = caller.arg
  PROVE  Kin'
<1>1. Len(frames) - 1 \in 1 .. Len(frames)
  BY TopIs
<1>2. Hung(prog, g.tree, g.arg) /\ SameRoot(frames[Len(frames) - 1], g)
  BY <1>1 DEF caller, Kin, KinOK, SameRoot
<1>3. KinOK(prog, Front(Front(frames)) \o <<g>>)
  BY <1>2, KinTop, KinResume
<1> QED BY <1>3 DEF Kin

LEMMA KinReturnToStore == ASSUME Inv, Kin, ReturnToStore PROVE Kin'
<1> DEFINE f == caller
           a == [f EXCEPT !.pc = "found"]
           b == [f EXCEPT !.i = @ - 1, !.pc = "scan"]
<1>1. /\ Len(frames) > 1 /\ prog' = prog
      /\ frames' \in {Front(Front(frames)) \o <<a>>, Front(Front(frames)) \o <<b>>}
  BY DEF ReturnToStore, Resume
<1>2. f \in FrameType(prog)
  BY <1>1, TopIs DEF FrameOK
<1> HIDE DEF f
<1>3. a.tree = f.tree /\ a.arg = f.arg /\ b.tree = f.tree /\ b.arg = f.arg
  BY <1>2 DEF FrameType
<1> HIDE DEF a, b
<1> QED BY <1>1, <1>3, KinReturns DEF f

LEMMA KinReturnToLoad == ASSUME Inv, Kin, ReturnToLoad PROVE Kin'
<1> DEFINE f == caller
           x == Len(f.tree)
           slot == SlotSrc(f, folded.value)
           srcs == (IF folded.valid THEN <<slot>> ELSE << >>) \o Inputs(x, f)
           g == [f EXCEPT !.queue = f.queue \o srcs, !.pc = "pop"]
<1>1. /\ Len(frames) > 1 /\ prog' = prog
      /\ frames' = frames \/ frames' = Front(Front(frames)) \o <<g>>
  BY DEF ReturnToLoad, Resume, SlotSrc
<1>2. f \in FrameType(prog)
  BY <1>1, TopIs DEF FrameOK
<1> HIDE DEF f, srcs
<1>3. g.tree = f.tree /\ g.arg = f.arg
  BY <1>2 DEF FrameType
<1> HIDE DEF g
<1> QED BY <1>1, <1>3, KinReturns, KinStays DEF f

LEMMA KinFound == ASSUME Inv, Kin, Found PROVE Kin'
<1> DEFINE f == top
           s == f.src
           x == Len(f.tree) + 1
           branches == f.tree[s.info].children[s.origin]
           frame == [f EXCEPT !.tree = FoundTree(f)]
           c == [frame EXCEPT !.pc = "load"]
           h == Frame(s.node, f.i, 1)
           srcs == Inputs(x, frame)
           g == [frame EXCEPT !.queue = frame.queue \o srcs, !.pc = "pop"]
<1>1. /\ f.pc = "found" /\ prog' = prog
      /\ \/ frames' = frames
         \/ Inst(s.node, f.i).op = "ld" /\ frames' = Front(frames) \o <<c, h>>
         \/ frames' = Front(frames) \o <<g>>
  <2>1. /\ f.pc = "found"
        /\ Len(branches) = MaxBranches =>
             status' = "overrun" /\ prog' = prog /\ frames' = frames
        /\ Len(branches) # MaxBranches /\ Inst(s.node, f.i).op = "ld" =>
             IF Len(frames) < MaxCalls
             THEN frames' = Front(frames) \o <<c, h>> /\ prog' = prog /\ status' = status
             ELSE frames' = frames /\ prog' = prog /\ status' = "exhausted"
        /\ Len(branches) # MaxBranches /\ Inst(s.node, f.i).op # "ld" =>
             IF Len(frame.queue) + Len(srcs) <= QueueLen
             THEN frames' = Front(frames) \o <<g>> /\ prog' = prog /\ status' = status
             ELSE frames' = frames /\ prog' = prog /\ status' = "aborted"
    BY FoundIs
  <2> HIDE DEF frame, f, h, s, x, branches, g, srcs, c
  <2> QED BY <2>1
<1>2. f \in FrameType(prog) /\ FrameOK(prog, f) /\ IsProgram(prog)
  BY TopIs DEF FrameOK
<1>3. Hung(prog, f.tree, f.arg)
  BY KinTop
<1> HIDE DEF f
<1>4. /\ Hung(prog, FoundTree(f), f.arg)
      /\ FoundTree(f)[1].node = f.tree[1].node /\ FoundTree(f)[1].index = f.tree[1].index
  BY <1>1, <1>2, <1>3, FoundHung
<1>5. /\ g.tree = FoundTree(f) /\ g.arg = f.arg /\ c.tree = FoundTree(f) /\ c.arg = f.arg
      /\ c.src.node = s.node /\ c.i = f.i
  <2> HIDE DEF srcs
  <2> QED BY <1>2 DEF FrameType
<1> HIDE DEF g, c
<1>6. /\ Hung(prog, g.tree, g.arg) /\ SameRoot(frames[Len(frames)], g)
      /\ Hung(prog, c.tree, c.arg) /\ SameRoot(frames[Len(frames)], c)
  BY <1>4, <1>5, KinTop DEF SameRoot, f
<1>7. CASE frames' = frames
  BY <1>1, <1>7, KinStays
<1>8. CASE Inst(s.node, f.i).op = "ld" /\ frames' = Front(frames) \o <<c, h>>
  <2>1. Hung(prog, h.tree, h.arg) /\ Nested(prog, c, h)
    <3>1. h.tree[1].node = s.node /\ h.tree[1].index = f.i /\ h.arg = 1 /\ Len(h.tree) = 1
      BY FrameIs
    <3> HIDE DEF h, s
    <3>2. AddressArg(InstOf(prog, h.tree[1])) = 1
      BY <1>8, <3>1 DEF Inst, InstOf, AddressArg
    <3> QED BY <1>5, <3>1, <3>2, HungRoot DEF Nested, s
  <2> HIDE DEF h
  <2>2. KinOK(prog, Front(frames) \o <<c, h>>)
    BY <1>6, <2>1, KinTop, KinCall
  <2> QED BY <1>1, <1>8, <2>2 DEF Kin
<1>9. CASE frames' = Front(frames) \o <<g>>
  <2>1. KinOK(prog, Front(frames) \o <<g>>)
    BY <1>6, KinTop, KinBecome
  <2> QED BY <1>1, <1>9, <2>1 DEF Kin
<1> QED BY <1>1, <1>7, <1>8, <1>9

LEMMA KinNext == Inv /\ Kin /\ [Next]_vars => Kin'
<1> SUFFICES ASSUME Inv, Kin, [Next]_vars PROVE Kin'
  OBVIOUS
<1>1. CASE UNCHANGED vars
  BY <1>1, KinStays DEF vars
<1>2. CASE Finish
  BY <1>2, KinStays DEF Finish
<1> QED BY <1>1, <1>2, KinPop, KinScanTemp, KinScanSlot, KinFound, KinPreds,
           KinReturnToStore, KinReturnToLoad DEF Next

(* Every node of every tree is a source of an operand that was searched    *)
(* for, with the output that it was found for, and every nested call is    *)
(* for the address of the instruction that its caller waits at             *)
(* (analyze-reg-src.c:157-204, common.c:173-213).                          *)
THEOREM KinHolds == Spec => []Kin
<1>1. Init => Inv /\ Kin
  BY InvInit, KinInit
<1>2. (Inv /\ Kin) /\ [Next]_vars => (Inv /\ Kin)'
  BY InvNext, KinNext
<1> QED BY <1>1, <1>2, PTL DEF Spec

-----------------------------------------------------------------------------
(* What an address is made from.                                           *)

LEMMA WriterFeeds ==
  ASSUME NEW p, NEW t, NEW temps, t \in temps,
         NEW q, q = <<q[1], q[2]>>, q[1] \in DOMAIN p.code, q[2] \in WritersOf(p, q[1], t)
  PROVE  q \in WritersTo(p, temps)
<1>1. q[2] \in DOMAIN p.code[q[1]] /\ t \in Range(p.code[q[1]][q[2]].out)
  BY DEF WritersOf
<1>2. q \in {q[1]} \X DOMAIN p.code[q[1]]
  BY <1>1
<1>3. q \in Positions(p)
  BY <1>2 DEF Positions
<1> QED BY <1>1, <1>3 DEF WritersTo, InstAt

(* What a set feeds an address with holds all of the tree of the search    *)
(* for this address, but its root.                                         *)
LEMMA TreeFed ==
  ASSUME NEW p, IsProgram(p), NEW tree, TreeOK(p, tree), NEW arg, Hung(p, tree, arg),
         arg = AddressArg(InstOf(p, tree[1])), NEW S, Feed(p, Pos(tree[1]), S)
  PROVE  \A c \in 2 .. Len(tree) : Pos(tree[c]) \in S
<1> DEFINE T == {c \in 2 .. Len(tree) : Pos(tree[c]) \notin S}
<1>1. Len(tree) \in Nat /\ DOMAIN tree = 1 .. Len(tree)
  BY TreeFacts
<1>2. T = {}
  <2> SUFFICES ASSUME T # {} PROVE FALSE
    OBVIOUS
  <2>1. PICK c \in T : \A y \in T : c <= y
    <3>1. T \subseteq Nat
      BY <1>1
    <3> HIDE DEF T
    <3> QED BY <3>1, NatMin
  <2>2. c \in 2 .. Len(tree) /\ c \in DOMAIN tree /\ Pos(tree[c]) \notin S
    BY <1>1
  <2>3. PICK x \in DOMAIN tree : \E k \in DOMAIN tree[x].children : HangsAt(p, tree, arg, x, k, c)
    BY <2>2 DEF Hung
  <2>4. PICK k \in DOMAIN tree[x].children : HangsAt(p, tree, arg, x, k, c)
    BY <2>3
  <2>5. ChildOK(p, tree, x, k, c) /\ c \in (x + 1) .. Len(tree) /\ (x = 1 => k = arg)
    <3>1. LinkOK(p, tree, x, k)
      BY TreeFacts
    <3> QED BY <2>4, <3>1 DEF LinkOK, HangsAt
  <2>6. x > 1 => Pos(tree[x]) \in S
    <3>1. SUFFICES ASSUME x > 1 PROVE x \notin T /\ x \in 2 .. Len(tree)
      OBVIOUS
    <3>2. x \in 2 .. Len(tree) /\ ~(c <= x)
      BY <1>1, <2>5, <3>1
    <3> HIDE DEF T
    <3> QED BY <2>1, <3>2
  <2>7. \A y \in DOMAIN tree :
          /\ tree[y].node \in DOMAIN p.code /\ tree[y].index \in DOMAIN p.code[tree[y].node]
          /\ DOMAIN tree[y].children = DOMAIN InstOf(p, tree[y]).in
    BY TreeFacts
  <2>8. \A y \in DOMAIN tree : Pos(tree[y]) \in Positions(p) /\ InstAt(p, Pos(tree[y])) = InstOf(p, tree[y])
    <3> SUFFICES ASSUME NEW y \in DOMAIN tree
                 PROVE  Pos(tree[y]) \in Positions(p) /\ InstAt(p, Pos(tree[y])) = InstOf(p, tree[y])
      OBVIOUS
    <3>1. Pos(tree[y]) \in {tree[y].node} \X DOMAIN p.code[tree[y].node]
      BY <2>7 DEF Pos
    <3> QED BY <2>7, <3>1 DEF Pos, Positions, InstAt, InstOf
  <2>9. CASE InstOf(p, tree[c]).op = "st"
    <3>1. x > 1 /\ InstOf(p, tree[x]).op = "ld"
      BY <2>5, <2>9 DEF ChildOK
    <3>2. Pos(tree[x]) \in LoadsOf(p) /\ Pos(tree[c]) \in StoresOf(p)
      BY <2>2, <2>8, <2>9, <3>1 DEF LoadsOf, StoresOf
    <3> QED BY <2>2, <2>6, <3>1, <3>2 DEF Feed
  <2>10. CASE InstOf(p, tree[c]).op # "st"
    <3> DEFINE t == InstOf(p, tree[x]).in[k]
               q == Pos(tree[c])
    <3>1. q \in Reaching(p, tree[x].node, tree[x].index, t, {})
      BY <2>5, <2>10 DEF ChildOK, Pos
    <3>2. q = <<q[1], q[2]>> /\ q[1] \in DOMAIN p.code /\ q[2] \in WritersOf(p, q[1], t)
      <4> HIDE DEF t, q
      <4> QED BY <2>7, <3>1, ReachingWrites
    <3>3. t \in Range(InstOf(p, tree[x]).in) /\ (x = 1 => t = InstOf(p, tree[1]).in[arg])
      BY <2>5, <2>7 DEF Range
    <3> HIDE DEF t, q
    <3>4. q \in WritersTo(p, {t}) /\ q \in WritersTo(p, Range(InstOf(p, tree[x]).in))
      BY <3>2, <3>3, WriterFeeds
    <3>5. CASE x = 1
      <4>1. WritersTo(p, {t}) \subseteq S
        BY <2>8, <3>3, <3>5 DEF Feed
      <4> QED BY <2>2, <3>4, <4>1 DEF q
    <3>6. CASE x > 1
      <4>1. WritersTo(p, Range(InstOf(p, tree[x]).in)) \subseteq S
        BY <2>6, <2>8, <3>6 DEF Feed
      <4> QED BY <2>2, <3>4, <4>1 DEF q
    <3>7. x = 1 \/ x > 1
      BY <1>1
    <3> QED BY <3>5, <3>6, <3>7
  <2> QED BY <2>9, <2>10
<1> QED BY <1>1, <1>2

(* The instruction that a waiting call is at: a load that it has found, or *)
(* a store that it met on the way from a load it has found.                *)
LEMMA WaitsAt ==
  ASSUME NEW p, IsProgram(p), NEW f, FrameOK(p, f), Waiting(f)
  PROVE  LET m == <<f.src.node, f.i>>
         IN  /\ m \in LoadsOf(p) \cup StoresOf(p)
             /\ \/ \E c \in 2 .. Len(f.tree) : m = Pos(f.tree[c])
                \/ /\ m \in StoresOf(p)
                   /\ \E c \in 2 .. Len(f.tree) : Pos(f.tree[c]) \in LoadsOf(p)
<1> DEFINE s == f.src
           m == <<s.node, f.i>>
<1>1. /\ TreeOK(p, f.tree) /\ EntryOK(p, f.tree, f.arg, s) /\ PlaceOK(p, f) /\ f \in FrameType(p)
      /\ Len(f.tree) \in Nat /\ DOMAIN f.tree = 1 .. Len(f.tree)
  <2>1. TreeOK(p, f.tree)
    BY DEF FrameOK
  <2> QED BY <2>1, TreeFacts DEF FrameOK
<1>2. /\ s.node \in DOMAIN p.code /\ Len(p.code[s.node]) \in Nat
      /\ DOMAIN p.code[s.node] = 1 .. Len(p.code[s.node])
  <2>1. s.node \in DOMAIN p.code
    BY <1>1 DEF EntryOK, EntryType
  <2> QED BY <2>1, ProgramFacts
<1>3. f.pc \in {"store", "load"}
  BY DEF Waiting
<1>4. f.i \in DOMAIN p.code[s.node]
  <2>1. f.i \in 0 .. Len(p.code[s.node]) /\ f.i > 0
    BY <1>1, <1>3 DEF PlaceOK
  <2> QED BY <1>2, <2>1
<1>5. m \in Positions(p) /\ InstAt(p, m) = p.code[s.node][f.i]
  <2>1. m \in {s.node} \X DOMAIN p.code[s.node]
    BY <1>4
  <2> QED BY <1>2, <2>1 DEF Positions, InstAt
<1>6. ASSUME NEW c \in DOMAIN f.tree, InstOf(p, f.tree[c]).op = "ld"
      PROVE  Pos(f.tree[c]) \in LoadsOf(p)
  <2>1. /\ f.tree[c].node \in DOMAIN p.code
        /\ f.tree[c].index \in DOMAIN p.code[f.tree[c].node]
    BY <1>1, TreeFacts
  <2>2. Pos(f.tree[c]) \in {f.tree[c].node} \X DOMAIN p.code[f.tree[c].node]
    BY <2>1 DEF Pos
  <2> QED BY <1>6, <2>1, <2>2 DEF LoadsOf, Positions, InstAt, InstOf, Pos
<1>7. CASE f.pc = "load"
  <2> DEFINE c == Len(f.tree)
  <2>1. /\ c > 1 /\ f.tree[c].node = s.node /\ f.tree[c].index = f.i
        /\ InstOf(p, f.tree[c]).op = "ld"
    BY <1>1, <1>7 DEF PlaceOK
  <2>2. c \in 2 .. Len(f.tree) /\ c \in DOMAIN f.tree
    BY <1>1, <2>1
  <2>3. m = Pos(f.tree[c]) /\ Pos(f.tree[c]) \in LoadsOf(p)
    BY <1>6, <2>1, <2>2 DEF Pos
  <2> QED BY <2>2, <2>3
<1>8. CASE f.pc = "store"
  <2>1. s.kind = "slot" /\ p.code[s.node][f.i].op = "st"
    BY <1>1, <1>8 DEF PlaceOK
  <2>2. s.info \in DOMAIN f.tree /\ s.info > 1 /\ InstOf(p, f.tree[s.info]).op = "ld"
    BY <1>1, <2>1 DEF EntryOK
  <2>3. s.info \in 2 .. Len(f.tree)
    BY <1>1, <2>2
  <2>4. m \in StoresOf(p)
    BY <1>5, <2>1 DEF StoresOf
  <2> QED BY <1>6, <2>2, <2>3, <2>4
<1> QED BY <1>3, <1>7, <1>8

(* So it is fed to the address that the call was made for.                 *)
LEMMA NextFed ==
  ASSUME NEW p, IsProgram(p), NEW f, FrameOK(p, f), Waiting(f), Hung(p, f.tree, f.arg),
         f.arg = AddressArg(InstOf(p, f.tree[1])), NEW g, FrameOK(p, g), Nested(p, f, g),
         NEW S, Feed(p, Pos(f.tree[1]), S)
  PROVE  Pos(g.tree[1]) \in S /\ Feed(p, Pos(g.tree[1]), S)
<1> DEFINE m == <<f.src.node, f.i>>
<1>1. Pos(g.tree[1]) = m
  BY DEF Nested, Pos
<1>2. \A c \in 2 .. Len(f.tree) : Pos(f.tree[c]) \in S
  <2>1. TreeOK(p, f.tree)
    BY DEF FrameOK
  <2> QED BY <2>1, TreeFed
<1>3. /\ m \in LoadsOf(p) \cup StoresOf(p)
      /\ \/ \E c \in 2 .. Len(f.tree) : m = Pos(f.tree[c])
         \/ /\ m \in StoresOf(p)
            /\ \E c \in 2 .. Len(f.tree) : Pos(f.tree[c]) \in LoadsOf(p)
  BY WaitsAt
<1>4. m \in S
  BY <1>2, <1>3 DEF Feed
<1>5. InstAt(p, m).in[AddressArg(InstAt(p, m))] \in Range(InstAt(p, m).in)
  <2>1. /\ TreeOK(p, g.tree) /\ g.arg \in DOMAIN g.tree[1].children /\ 1 \in DOMAIN g.tree
        /\ DOMAIN g.tree[1].children = DOMAIN InstOf(p, g.tree[1]).in
    <3>1. TreeOK(p, g.tree) /\ g.arg \in DOMAIN g.tree[1].children
      BY DEF FrameOK
    <3>2. 1 \in DOMAIN g.tree
      BY <3>1, TreeFacts
    <3> QED BY <3>1, <3>2, TreeFacts
  <2>2. InstOf(p, g.tree[1]) = InstAt(p, m) /\ g.arg = AddressArg(InstOf(p, g.tree[1]))
    BY DEF Nested, InstOf, InstAt
  <2> QED BY <2>1, <2>2 DEF Range
<1>6. Feed(p, m, S)
  <2>1. WritersTo(p, {InstAt(p, m).in[AddressArg(InstAt(p, m))]})
          \subseteq WritersTo(p, Range(InstAt(p, m).in))
    <3> DEFINE t == InstAt(p, m).in[AddressArg(InstAt(p, m))]
               R == Range(InstAt(p, m).in)
    <3>1. {t} \subseteq R
      BY <1>5
    <3> HIDE DEF t, R
    <3> QED BY <3>1 DEF WritersTo, t, R
  <2> QED BY <1>4, <2>1 DEF Feed
<1> QED BY <1>1, <1>4, <1>6

LEMMA NestedFrames ==
  ASSUME Inv, Kin, NEW d \in 2 .. Len(frames)
  PROVE  LET f == frames[d - 1]
             g == frames[d]
         IN  /\ FrameOK(prog, f) /\ Waiting(f) /\ FrameOK(prog, g) /\ Nested(prog, f, g)
             /\ Hung(prog, g.tree, g.arg) /\ g.arg = AddressArg(InstOf(prog, g.tree[1]))
             /\ Pos(g.tree[1]) \in LoadsOf(prog) \cup StoresOf(prog)
<1> DEFINE f == frames[d - 1]
           g == frames[d]
<1>1. Len(frames) \in Nat
  BY TopIs
<1>2. /\ d \in 1 .. Len(frames) /\ d - 1 \in 1 .. Len(frames) /\ d - 1 \in 1 .. (Len(frames) - 1)
      /\ d - 1 < Len(frames) /\ (d - 1) + 1 = d
  BY <1>1
<1>3. FrameOK(prog, f) /\ Waiting(f) /\ FrameOK(prog, g)
  BY <1>2 DEF Inv, FramesOK
<1>4. Nested(prog, f, g) /\ Hung(prog, g.tree, g.arg)
  BY <1>2 DEF Kin, KinOK
<1>5. <<f.src.node, f.i>> \in LoadsOf(prog) \cup StoresOf(prog)
  <2> HIDE DEF f
  <2>1. IsProgram(prog)
    BY DEF Inv
  <2> QED BY <1>3, <2>1, WaitsAt
<1>6. Pos(g.tree[1]) = <<f.src.node, f.i>>
  BY <1>4 DEF Nested, Pos
<1> QED BY <1>3, <1>4, <1>5, <1>6 DEF Nested

LEMMA LaterFed ==
  ASSUME Inv, Kin, NEW d \in 2 .. Len(frames), NEW S, Feed(prog, Pos(frames[d].tree[1]), S)
  PROVE  \A e \in (d + 1) .. Len(frames) : Pos(frames[e].tree[1]) \in S
<1> DEFINE Fed(e) == Pos(frames[e].tree[1]) \in S /\ Feed(prog, Pos(frames[e].tree[1]), S)
           T == {e \in (d + 1) .. Len(frames) : ~Fed(e)}
<1>1. Len(frames) \in Nat /\ IsProgram(prog)
  BY TopIs
<1>2. T = {}
  <2> SUFFICES ASSUME T # {} PROVE FALSE
    OBVIOUS
  <2>1. PICK e \in T : \A y \in T : e <= y
    <3>1. T \subseteq Nat
      BY <1>1
    <3> HIDE DEF T
    <3> QED BY <3>1, NatMin
  <2>2. e \in (d + 1) .. Len(frames) /\ ~Fed(e)
    OBVIOUS
  <2>3. e \in 2 .. Len(frames) /\ e - 1 \in 2 .. Len(frames)
    BY <1>1, <2>2
  <2>4. Feed(prog, Pos(frames[e - 1].tree[1]), S)
    <3>1. CASE e - 1 = d
      BY <3>1
    <3>2. CASE e - 1 # d
      <4>1. e - 1 \in (d + 1) .. Len(frames) /\ ~(e <= e - 1)
        BY <1>1, <2>2, <3>2
      <4>2. e - 1 \notin T
        <5> HIDE DEF T
        <5> QED BY <2>1, <4>1
      <4> QED BY <4>1, <4>2
    <3> QED BY <3>1, <3>2
  <2> DEFINE f == frames[e - 1]
             g == frames[e]
  <2>5. FrameOK(prog, f) /\ Waiting(f) /\ FrameOK(prog, g) /\ Nested(prog, f, g)
    BY <2>3, NestedFrames
  <2>6. Hung(prog, f.tree, f.arg) /\ f.arg = AddressArg(InstOf(prog, f.tree[1]))
    BY <2>3, NestedFrames
  <2>7. Feed(prog, Pos(f.tree[1]), S) /\ ~Fed(e)
    BY <2>2, <2>4
  <2> HIDE DEF T, f, g
  <2>8. Pos(g.tree[1]) \in S /\ Feed(prog, Pos(g.tree[1]), S)
    BY <1>1, <2>5, <2>6, <2>7, NextFed
  <2> QED BY <2>7, <2>8 DEF g
<1> QED BY <1>2

LEMMA RootsDiffer ==
  ASSUME Inv, Kin, Grounded(prog), NEW d \in 2 .. Len(frames), NEW e \in (d + 1) .. Len(frames)
  PROVE  Pos(frames[d].tree[1]) # Pos(frames[e].tree[1])
<1> DEFINE m == Pos(frames[d].tree[1])
<1>1. m \in LoadsOf(prog) \cup StoresOf(prog)
  BY NestedFrames
<1>2. PICK S \in SUBSET Positions(prog) : Feed(prog, m, S) /\ m \notin S
  BY <1>1 DEF Grounded
<1>3. Pos(frames[e].tree[1]) \in S
  BY <1>2, LaterFed
<1> QED BY <1>2, <1>3

LEMMA InvNoReentry == Inv /\ Kin /\ Grounded(prog) => NoReentry
<1> SUFFICES ASSUME Inv, Kin, Grounded(prog), NEW d \in DOMAIN frames, NEW e \in DOMAIN frames,
                    d # e, frames[d].tree[1].node = frames[e].tree[1].node,
                    frames[d].tree[1].index = frames[e].tree[1].index, d # 1, e # 1
             PROVE  FALSE
  BY DEF NoReentry
<1>1. Len(frames) \in Nat /\ DOMAIN frames = 1 .. Len(frames)
  <2>1. frames \in Seq(FrameType(prog))
    BY TopIs
  <2> QED BY <2>1, LenProperties
<1>2. Pos(frames[d].tree[1]) = Pos(frames[e].tree[1])
  BY DEF Pos
<1>3. d \in 2 .. Len(frames) /\ e \in 2 .. Len(frames)
  BY <1>1
<1>4. CASE d < e
  <2>1. e \in (d + 1) .. Len(frames)
    BY <1>3, <1>4
  <2> QED BY <1>2, <1>3, <2>1, RootsDiffer
<1>5. CASE e < d
  <2>1. d \in (e + 1) .. Len(frames)
    BY <1>3, <1>5
  <2> QED BY <1>2, <1>3, <2>1, RootsDiffer
<1>6. d < e \/ e < d
  BY <1>3
<1> QED BY <1>4, <1>5, <1>6

(* In a program in which no address depends on itself, a search for an     *)
(* address is never started while one for the same instruction is under    *)
(* way: what a nested call is for is among what its caller's address is    *)
(* made from (common.c:186, common.c:207).                                 *)
THEOREM SearchesDiffer == Spec => [](Grounded(prog) => NoReentry)
<1>1. Inv /\ Kin => (Grounded(prog) => NoReentry)
  BY InvNoReentry
<1> QED BY <1>1, InvHolds, KinHolds, PTL

(* Their number is bounded by that of the loads and stores.                *)
LEMMA AddressesFinite ==
  ASSUME NEW p, IsProgram(p) PROVE IsFiniteSet(LoadsOf(p) \cup StoresOf(p))
<1> DEFINE Of(b) == {b} \X DOMAIN p.code[b]
           B == {Of(b) : b \in DOMAIN p.code}
<1>1. IsFiniteSet(DOMAIN p.code)
  <2>1. p.code \in Seq(Seq(Instruction))
    BY DEF IsProgram
  <2>2. Len(p.code) \in Nat /\ DOMAIN p.code = 1 .. Len(p.code)
    BY <2>1, LenProperties
  <2> QED BY <2>2, FS_Interval
<1>2. ASSUME NEW b \in DOMAIN p.code PROVE IsFiniteSet(Of(b))
  <2>1. Len(p.code[b]) \in Nat /\ DOMAIN p.code[b] = 1 .. Len(p.code[b])
    BY ProgramFacts
  <2>2. IsFiniteSet(DOMAIN p.code[b]) /\ IsFiniteSet({b})
    <3> DEFINE n == Len(p.code[b])
    <3>1. n \in Int /\ 1 \in Int
      BY <2>1
    <3> HIDE DEF n
    <3>2. IsFiniteSet(1 .. n)
      BY ONLY <3>1, FS_Interval
    <3> QED BY <2>1, <3>2, FS_Singleton DEF n
  <2> QED BY <2>2, FS_Product
<1>3. IsFiniteSet(B)
  <2> DEFINE F == [b \in DOMAIN p.code |-> Of(b)]
  <2>1. F \in Surjection(DOMAIN p.code, B)
    BY DEF Surjection
  <2> HIDE DEF F, B
  <2> QED BY <1>1, <2>1, FS_Surjection
<1>4. IsFiniteSet(UNION B)
  <2>1. \A T \in B : IsFiniteSet(T)
    BY <1>2
  <2> HIDE DEF B
  <2> QED BY <1>3, <2>1, FS_UNION
<1>5. LoadsOf(p) \cup StoresOf(p) \subseteq UNION B
  BY DEF LoadsOf, StoresOf, Positions
<1> HIDE DEF B
<1> QED BY <1>4, <1>5, FS_Subset

NestingBound == 1 + Cardinality(LoadsOf(prog) \cup StoresOf(prog))

LEMMA InvNesting == Inv /\ Kin /\ Grounded(prog) => Len(frames) <= NestingBound
<1> SUFFICES ASSUME Inv, Kin, Grounded(prog) PROVE Len(frames) <= NestingBound
  OBVIOUS
<1> DEFINE n == Len(frames)
           A == LoadsOf(prog) \cup StoresOf(prog)
           F == [d \in 2 .. n |-> Pos(frames[d].tree[1])]
<1>1. n \in Nat /\ n >= 1 /\ IsProgram(prog)
  BY TopIs
<1>2. IsFiniteSet(A) /\ Cardinality(A) \in Nat
  BY <1>1, AddressesFinite, FS_CardinalityType
<1>3. F \in [2 .. n -> A]
  BY NestedFrames
<1>4. ASSUME NEW d \in 2 .. n, NEW e \in 2 .. n, F[d] = F[e] PROVE d = e
  <2>1. d < e \/ e < d \/ d = e
    OBVIOUS
  <2>2. ASSUME d < e PROVE FALSE
    <3>1. e \in (d + 1) .. n
      BY <1>1, <2>2
    <3> QED BY <1>4, <3>1, RootsDiffer
  <2>3. ASSUME e < d PROVE FALSE
    <3>1. d \in (e + 1) .. n
      BY <1>1, <2>3
    <3> QED BY <1>4, <3>1, RootsDiffer
  <2> QED BY <2>1, <2>2, <2>3
<1> HIDE DEF A, F, n
<1>5. F \in Injection(2 .. n, A)
  BY <1>3, <1>4 DEF Injection, IsInjective
<1>6. Cardinality(2 .. n) <= Cardinality(A)
  BY <1>2, <1>5, FS_Injection
<1>7. Cardinality(2 .. n) = n - 1
  BY <1>1, FS_Interval
<1> QED BY <1>1, <1>2, <1>6, <1>7 DEF NestingBound, n, A

(* In such a program the calls are nested no deeper than it has loads and  *)
(* stores, one more for the search that was asked for (common.c:186,       *)
(* common.c:207).                                                          *)
THEOREM NestingIsBounded == Spec => [](Grounded(prog) => Len(frames) <= NestingBound)
<1>1. Inv /\ Kin => (Grounded(prog) => Len(frames) <= NestingBound)
  BY InvNesting
<1> QED BY <1>1, InvHolds, KinHolds, PTL

NeverExhausted == Grounded(prog) /\ NestingBound < MaxCalls => status # "exhausted"

LEMMA ExhaustedOnlyFull ==
  ASSUME [Next]_vars, Len(frames) < MaxCalls, status # "exhausted"
  PROVE  prog' = prog /\ status' # "exhausted"
<1>1. ASSUME NEW g, NEW h, Call(g, h) PROVE prog' = prog /\ status' # "exhausted"
  BY <1>1 DEF Call
<1>2. ASSUME NEW g, NEW srcs, Push(g, srcs) PROVE prog' = prog /\ status' # "exhausted"
  BY <1>2 DEF Push
<1>3. CASE UNCHANGED vars
  BY <1>3 DEF vars
<1>4. CASE Pop
  BY <1>4 DEF Pop
<1>5. CASE ScanTemp
  BY <1>5 DEF ScanTemp
<1>6. CASE ScanSlot
  BY <1>1, <1>6 DEF ScanSlot
<1>7. CASE Found
  BY <1>1, <1>2, <1>7 DEF Found
<1>8. CASE Preds
  BY <1>2, <1>8 DEF Preds
<1>9. CASE ReturnToStore
  BY <1>9 DEF ReturnToStore
<1>10. CASE ReturnToLoad
  BY <1>10 DEF ReturnToLoad
<1>11. CASE Finish
  BY <1>11 DEF Finish
<1> QED BY <1>3, <1>4, <1>5, <1>6, <1>7, <1>8, <1>9, <1>10, <1>11 DEF Next

(* A process with memory for more calls than a grounded program has loads  *)
(* and stores never runs out of it when it folds an address                *)
(* (src/src/common.c:186 and src/src/common.c:207).                        *)
THEOREM MemorySuffices == Spec => []NeverExhausted
<1>1. Init => NeverExhausted
  BY DEF Init, NeverExhausted
<1>2. Inv /\ Kin /\ NeverExhausted /\ [Next]_vars => NeverExhausted'
  <2> SUFFICES ASSUME Inv, Kin, NeverExhausted, [Next]_vars,
                      Grounded(prog'), NestingBound' < MaxCalls
               PROVE  status' # "exhausted"
    BY DEF NeverExhausted
  <2>1. prog' = prog
    <3>1. CASE UNCHANGED vars
      BY <3>1 DEF vars
    <3> QED BY <3>1 DEF Next, Pop, ScanTemp, ScanSlot, Found, Preds, ReturnToStore, ReturnToLoad,
                        Finish, Call, Push
  <2>2. Grounded(prog) /\ NestingBound < MaxCalls
    BY <2>1 DEF NestingBound
  <2>3. Len(frames) <= NestingBound /\ status # "exhausted"
    BY <2>2, InvNesting DEF NeverExhausted
  <2>4. Len(frames) < MaxCalls
    <3>1. Len(frames) \in Nat /\ MaxCalls \in Nat /\ NestingBound \in Nat
      <4>1. IsProgram(prog) /\ Len(frames) \in Nat
        BY TopIs
      <4>2. Cardinality(LoadsOf(prog) \cup StoresOf(prog)) \in Nat
        BY <4>1, AddressesFinite, FS_CardinalityType
      <4> QED BY <4>1, <4>2, RegSrcAssumption DEF NestingBound
    <3> QED BY <2>2, <2>3, <3>1
  <2> QED BY <2>3, <2>4, ExhaustedOnlyFull
<1> QED BY <1>1, <1>2, InvHolds, KinHolds, PTL DEF Spec

-----------------------------------------------------------------------------
(* A sequence of sequences, flattened.                                     *)
Glued(seqs, f) == f = [i \in 1 .. Len(seqs) |-> IF i = 1 THEN seqs[i] ELSE f[i - 1] \o seqs[i]]

LEMMA FlattenIs ==
  ASSUME NEW seqs
  PROVE  FlattenSeq(seqs) = IF Len(seqs) = 0 THEN seqs ELSE (CHOOSE f : Glued(seqs, f))[Len(seqs)]
BY Zenon DEF FlattenSeq, Glued

LEMMA FlattenRange ==
  ASSUME NEW S, NEW seqs \in Seq(Seq(S))
  PROVE  /\ FlattenSeq(seqs) \in Seq(S)
         /\ Range(FlattenSeq(seqs)) = UNION {Range(seqs[i]) : i \in DOMAIN seqs}
<1> DEFINE n == Len(seqs)
           step == [z \in (1 .. n) \X Seq(S) |-> z[2] \o seqs[z[1]]]
           C == CHOOSE f : Glued(seqs, f)
<1>1. n \in Nat /\ DOMAIN seqs = 1 .. n /\ \A i \in 1 .. n : seqs[i] \in Seq(S)
  BY LenProperties, ElementOfSeq
<1>2. << >> \in Seq(S) /\ Range(<< >>) = {}
  BY DEF Range
<1> HIDE DEF n
<1>3. step \in [(1 .. n) \X Seq(S) -> Seq(S)]
  <2>1. \A z \in (1 .. n) \X Seq(S) : z[2] \o seqs[z[1]] \in Seq(S)
    BY <1>1, ConcatProperties
  <2> QED BY <2>1
<1>4. PICK f \in [0 .. n -> Seq(S)] :
        f[0] = << >> /\ \A i \in 1 .. n : f[i] = step[<<i, f[i - 1]>>]
  <2> DEFINE W == Seq(S)
             e == << >>
  <2>1. n \in Nat /\ e \in W /\ step \in [(1 .. n) \X W -> W]
    BY <1>1, <1>2, <1>3
  <2> HIDE DEF step, W, e
  <2>2. \E f : IsRecursion(f, n, W, e, step)
    BY <2>1, RecursionExists
  <2> QED BY <2>2 DEF W, e, IsRecursion
<1>5. \A i \in 1 .. n : f[i] = f[i - 1] \o seqs[i] /\ f[i - 1] \in Seq(S) /\ f[i] \in Seq(S)
  <2> SUFFICES ASSUME NEW i \in 1 .. n
               PROVE  f[i] = f[i - 1] \o seqs[i] /\ f[i - 1] \in Seq(S) /\ f[i] \in Seq(S)
    OBVIOUS
  <2>1. i - 1 \in 0 .. n /\ i \in 0 .. n
    BY <1>1
  <2>2. <<i, f[i - 1]>> \in (1 .. n) \X Seq(S)
    BY <1>4, <2>1
  <2> QED BY <1>4, <2>1, <2>2
<1>6. CASE n = 0
  <2>1. seqs = << >>
    BY <1>1, <1>6
  <2>2. FlattenSeq(seqs) = << >>
    BY <1>6, <2>1, FlattenIs DEF n
  <2>3. {Range(seqs[i]) : i \in DOMAIN seqs} = {}
    BY <1>1, <1>6
  <2> QED BY <1>2, <2>2, <2>3
<1>7. CASE n # 0
  <2> DEFINE h == [i \in 1 .. n |-> f[i]]
  <2>1. Glued(seqs, h)
    <3>1. ASSUME NEW i \in 1 .. n
          PROVE  h[i] = IF i = 1 THEN seqs[i] ELSE h[i - 1] \o seqs[i]
      <4>1. CASE i = 1
        <5>1. f[1] = << >> \o seqs[1] /\ seqs[1] \in Seq(S)
          <6>1. 1 \in 1 .. n /\ 1 - 1 = 0
            BY <4>1
          <6>2. f[1] = f[1 - 1] \o seqs[1]
            BY <1>5, <6>1
          <6>3. f[1 - 1] = << >> /\ seqs[1] \in Seq(S)
            BY <1>1, <1>4, <6>1
          <6> QED BY <6>2, <6>3
        <5> QED BY <4>1, <5>1, ConcatEmptySeq
      <4>2. CASE i # 1
        <5>1. i - 1 \in 1 .. n
          BY <1>1, <4>2
        <5> QED BY <1>5, <4>2, <5>1
      <4> QED BY <4>1, <4>2
    <3>2. h = [i \in 1 .. n |-> h[i]]
      OBVIOUS
    <3> HIDE DEF h
    <3>3. h = [i \in 1 .. n |-> IF i = 1 THEN seqs[i] ELSE h[i - 1] \o seqs[i]]
      BY <3>1, <3>2
    <3> QED BY <3>3 DEF Glued, n
  <2>2. Glued(seqs, C)
    <3>1. \E g : Glued(seqs, g)
      BY <2>1
    <3> QED BY <3>1
  <2> HIDE DEF C
  <2>3. \A i \in 1 .. n : C[i] = IF i = 1 THEN seqs[i] ELSE C[i - 1] \o seqs[i]
    BY <2>2 DEF Glued, n
  <2> DEFINE Parts(m) == UNION {Range(seqs[i]) : i \in 1 .. m}
             T == {m \in 1 .. n : ~(C[m] \in Seq(S) /\ Range(C[m]) = Parts(m))}
  <2>4. T = {}
    <3> SUFFICES ASSUME T # {} PROVE FALSE
      OBVIOUS
    <3>1. PICK m \in T : \A y \in T : m <= y
      <4>1. T \subseteq Nat
        BY <1>1
      <4> HIDE DEF T
      <4> QED BY <4>1, NatMin
    <3>2. m \in 1 .. n /\ ~(C[m] \in Seq(S) /\ Range(C[m]) = Parts(m))
      OBVIOUS
    <3>3. CASE m = 1
      <4>1. C[1] = seqs[1] /\ seqs[1] \in Seq(S)
        BY <1>1, <2>3, <3>2, <3>3
      <4>2. Parts(1) = Range(seqs[1])
        <5>1. 1 .. 1 = {1}
          OBVIOUS
        <5> QED BY <5>1
      <4> QED BY <3>2, <3>3, <4>1, <4>2
    <3>4. CASE m # 1
      <4>1. m - 1 \in 1 .. n /\ ~(m <= m - 1) /\ 1 .. m = (1 .. (m - 1)) \cup {m}
        BY <1>1, <3>2, <3>4
      <4>2. m - 1 \notin T
        <5> HIDE DEF T
        <5> QED BY <3>1, <4>1
      <4>3. C[m - 1] \in Seq(S) /\ Range(C[m - 1]) = Parts(m - 1)
        <5> HIDE DEF Parts
        <5> QED BY <4>1, <4>2
      <4>4. C[m] = C[m - 1] \o seqs[m] /\ seqs[m] \in Seq(S)
        BY <1>1, <2>3, <3>2, <3>4
      <4>5. C[m] \in Seq(S)
        BY <4>3, <4>4, ConcatProperties
      <4>6. Range(C[m]) = Range(C[m - 1]) \cup Range(seqs[m])
        BY <4>3, <4>4, RangeConcatenation
      <4>7. Parts(m) = Parts(m - 1) \cup Range(seqs[m])
        BY <4>1
      <4> HIDE DEF Parts
      <4> QED BY <3>2, <4>3, <4>5, <4>6, <4>7
    <3> QED BY <3>3, <3>4
  <2>5. n \in 1 .. n
    BY <1>1, <1>7
  <2>6. C[n] \in Seq(S) /\ Range(C[n]) = Parts(n)
    <3>1. n \notin T
      BY <2>4
    <3> HIDE DEF Parts
    <3> QED BY <2>5, <3>1
  <2>7. FlattenSeq(seqs) = C[n]
    BY <1>7, FlattenIs DEF n, C
  <2> QED BY <1>1, <2>6, <2>7
<1> QED BY <1>6, <1>7

-----------------------------------------------------------------------------
(* The order in which flatten_sources stores the nodes of a tree.          *)

BelowBody(tree, f, x) ==
  LET kids == FlattenSeq(tree[x].children)
  IN  <<x>> \o FlattenSeq([j \in DOMAIN kids |-> f[kids[j]]])

Below(tree) == CHOOSE f : f = [x \in DOMAIN tree |-> BelowBody(tree, f, x)]

LEMMA FlattenedIs == Flattened = Below(Tree)[1]
BY Zenon DEF Flattened, Below, BelowBody

KidsOf(tree, x) == UNION {Range(tree[x].children[k]) : k \in DOMAIN tree[x].children}

LEMMA KidsAre ==
  ASSUME NEW p, IsProgram(p), NEW tree, TreeOK(p, tree), NEW x \in DOMAIN tree
  PROVE  LET kids == FlattenSeq(tree[x].children)
         IN  /\ kids \in Seq(Nat) /\ Range(kids) = KidsOf(tree, x)
             /\ KidsOf(tree, x) \subseteq (x + 1) .. Len(tree)
<1>1. tree[x].children \in Seq(Seq(Nat))
  BY TreeFacts
<1>2. \A k \in DOMAIN tree[x].children : LinkOK(p, tree, x, k)
  BY TreeFacts
<1>3. KidsOf(tree, x) \subseteq (x + 1) .. Len(tree)
  BY <1>2 DEF KidsOf, LinkOK
<1>4. /\ FlattenSeq(tree[x].children) \in Seq(Nat)
      /\ Range(FlattenSeq(tree[x].children))
           = UNION {Range(tree[x].children[i]) : i \in DOMAIN tree[x].children}
  BY <1>1, FlattenRange
<1> QED BY <1>3, <1>4 DEF KidsOf

LEMMA BelowLocal ==
  ASSUME NEW p, IsProgram(p), NEW tree, TreeOK(p, tree), NEW x \in DOMAIN tree, NEW f, NEW g,
         \A y \in (x + 1) .. Len(tree) : f[y] = g[y]
  PROVE  BelowBody(tree, f, x) = BelowBody(tree, g, x)
<1> DEFINE kids == FlattenSeq(tree[x].children)
<1>1. kids \in Seq(Nat) /\ Range(kids) \subseteq (x + 1) .. Len(tree)
  BY KidsAre
<1> HIDE DEF kids
<1>2. \A j \in DOMAIN kids : f[kids[j]] = g[kids[j]]
  BY <1>1 DEF Range
<1>3. [j \in DOMAIN kids |-> f[kids[j]]] = [j \in DOMAIN kids |-> g[kids[j]]]
  BY <1>2
<1> QED BY <1>3 DEF BelowBody, kids

LEMMA BelowEquation ==
  ASSUME NEW p, IsProgram(p), NEW tree, TreeOK(p, tree)
  PROVE  Below(tree) = [x \in DOMAIN tree |-> BelowBody(tree, Below(tree), x)]
<1> DEFINE L == Len(tree)
           From(n, g) == g = [x \in (L - n + 1) .. L |-> BelowBody(tree, g, x)]
           T == {n \in Nat : n <= L /\ ~\E g : From(n, g)}
<1>1. L \in Nat /\ DOMAIN tree = 1 .. L
  BY TreeFacts
<1>2. T = {}
  <2> SUFFICES ASSUME T # {} PROVE FALSE
    OBVIOUS
  <2>1. PICK n \in T : \A d \in T : n <= d
    <3>1. T \subseteq Nat
      OBVIOUS
    <3> HIDE DEF T
    <3> QED BY <3>1, NatMin
  <2>2. n \in Nat /\ n <= L /\ ~\E g : From(n, g)
    OBVIOUS
  <2>3. n # 0
    <3>1. SUFFICES ASSUME n = 0 PROVE FALSE
      OBVIOUS
    <3> DEFINE g == [x \in (L + 1) .. L |-> 0]
    <3>2. From(0, g)
      <4>1. (L - 0 + 1) .. L = {} /\ (L + 1) .. L = {}
        BY <1>1
      <4>2. g = [x \in {} |-> 0]
        BY <4>1
      <4> QED BY <4>1, <4>2
    <3> QED BY <3>1, <3>2, <2>2
  <2>4. PICK g : From(n - 1, g)
    <3>1. n - 1 \in Nat /\ n - 1 <= L /\ ~(n <= n - 1)
      BY <2>2, <2>3, <1>1
    <3>2. n - 1 \notin T
      <4> HIDE DEF T
      <4> QED BY <3>1, <2>1
    <3> QED BY <3>1, <3>2
  <2> DEFINE a == L - n + 1
             h == [x \in a .. L |-> IF x = a THEN BelowBody(tree, g, a) ELSE g[x]]
  <2>5. a \in 1 .. L /\ a .. L = {a} \cup ((a + 1) .. L) /\ L - (n - 1) + 1 = a + 1
    BY <2>2, <2>3, <1>1
  <2>6. \A y \in (a + 1) .. L : g[y] = BelowBody(tree, g, y)
    BY <2>4, <2>5
  <2>7. \A y \in (a + 1) .. L : h[y] = g[y]
    BY <2>5
  <2>8. ASSUME NEW x \in a .. L PROVE h[x] = BelowBody(tree, h, x)
    <3>1. \A y \in (x + 1) .. L : g[y] = h[y]
      BY <2>5, <2>7
    <3>2. x \in DOMAIN tree
      BY <2>5, <1>1
    <3>3. BelowBody(tree, g, x) = BelowBody(tree, h, x)
      <4> HIDE DEF h
      <4> QED BY <3>1, <3>2, BelowLocal
    <3>4. h[x] = BelowBody(tree, g, x)
      BY <2>5, <2>6
    <3> QED BY <3>3, <3>4
  <2>9. From(n, h)
    <3>1. h = [x \in a .. L |-> h[x]]
      OBVIOUS
    <3> HIDE DEF h
    <3> QED BY <3>1, <2>8
  <2> QED BY <2>9, <2>2
<1>3. PICK g : From(L, g)
  <2>1. L \notin T
    BY <1>2
  <2> QED BY <2>1, <1>1
<1>4. g = [x \in DOMAIN tree |-> BelowBody(tree, g, x)]
  <2>1. L - L + 1 = 1
    BY <1>1
  <2> QED BY <1>1, <1>3, <2>1
<1> QED BY <1>4 DEF Below

(* Below a node are itself and what is below its children.                 *)
LEMMA BelowRange ==
  ASSUME NEW p, IsProgram(p), NEW tree, TreeOK(p, tree)
  PROVE  \A x \in DOMAIN tree :
           /\ Below(tree)[x] \in Seq(DOMAIN tree)
           /\ Range(Below(tree)[x]) = {x} \cup UNION {Range(Below(tree)[c]) : c \in KidsOf(tree, x)}
<1> DEFINE L == Len(tree)
           B == Below(tree)
           OK(x) == /\ B[x] \in Seq(DOMAIN tree)
                    /\ Range(B[x]) = {x} \cup UNION {Range(B[c]) : c \in KidsOf(tree, x)}
           T == {n \in Nat : n < L /\ ~OK(L - n)}
<1>1. L \in Nat /\ DOMAIN tree = 1 .. L
  BY TreeFacts
<1>2. \A x \in DOMAIN tree : B[x] = BelowBody(tree, B, x)
  <2>1. B = [x \in DOMAIN tree |-> BelowBody(tree, B, x)]
    BY BelowEquation
  <2> HIDE DEF B
  <2> QED BY <2>1
<1> HIDE DEF B
<1>3. ASSUME NEW x \in DOMAIN tree, \A y \in (x + 1) .. L : OK(y) PROVE OK(x)
  <2> DEFINE kids == FlattenSeq(tree[x].children)
             D == DOMAIN tree
             seqs == [j \in DOMAIN kids |-> B[kids[j]]]
             rest == FlattenSeq(seqs)
  <2>1. kids \in Seq(Nat) /\ Range(kids) = KidsOf(tree, x) /\ KidsOf(tree, x) \subseteq (x + 1) .. L
    BY KidsAre
  <2>2. B[x] = <<x>> \o rest
    BY <1>2 DEF BelowBody
  <2> HIDE DEF kids
  <2>3. Len(kids) \in Nat /\ DOMAIN kids = 1 .. Len(kids)
    BY <2>1, LenProperties
  <2>4. \A j \in DOMAIN kids : kids[j] \in KidsOf(tree, x) /\ B[kids[j]] \in Seq(D)
    <3> SUFFICES ASSUME NEW j \in DOMAIN kids
                 PROVE  kids[j] \in KidsOf(tree, x) /\ B[kids[j]] \in Seq(D)
      OBVIOUS
    <3>1. kids[j] \in Range(kids)
      BY DEF Range
    <3>2. OK(kids[j])
      BY <3>1, <2>1, <1>3
    <3> QED BY <3>1, <3>2, <2>1
  <2>5. seqs \in Seq(Seq(D)) /\ DOMAIN seqs = DOMAIN kids /\ \A j \in DOMAIN kids : seqs[j] = B[kids[j]]
    <3>1. seqs \in [1 .. Len(kids) -> Seq(D)]
      BY <2>3, <2>4
    <3>2. DOMAIN seqs = DOMAIN kids /\ \A j \in DOMAIN kids : seqs[j] = B[kids[j]]
      OBVIOUS
    <3> HIDE DEF seqs, D
    <3> QED BY <2>3, <3>1, <3>2, FunctionIsSeq
  <2> HIDE DEF seqs
  <2>6. rest \in Seq(D) /\ Range(rest) = UNION {Range(seqs[j]) : j \in DOMAIN seqs}
    <3> HIDE DEF D
    <3> QED BY <2>5, FlattenRange
  <2> HIDE DEF rest
  <2>7. <<x>> \in Seq(D) /\ Range(<<x>>) = {x}
    BY DEF Range
  <2>8. B[x] \in Seq(D) /\ Range(B[x]) = {x} \cup Range(rest)
    <3>1. <<x>> \o rest \in Seq(D)
      BY <2>6, <2>7, ConcatProperties
    <3>2. Range(<<x>> \o rest) = Range(<<x>>) \cup Range(rest)
      BY <2>6, <2>7, RangeConcatenation
    <3> QED BY <2>2, <2>7, <3>1, <3>2
  <2>9. UNION {Range(seqs[j]) : j \in DOMAIN seqs} = UNION {Range(B[c]) : c \in KidsOf(tree, x)}
    <3>1. {Range(seqs[j]) : j \in DOMAIN seqs} = {Range(B[kids[j]]) : j \in DOMAIN kids}
      BY <2>5
    <3>2. \A c \in KidsOf(tree, x) : \E j \in DOMAIN kids : c = kids[j]
      BY <2>1 DEF Range
    <3>3. {Range(B[kids[j]]) : j \in DOMAIN kids} = {Range(B[c]) : c \in KidsOf(tree, x)}
      BY <2>4, <3>2
    <3> QED BY <3>1, <3>3
  <2> QED BY <2>6, <2>8, <2>9
<1> HIDE DEF OK
<1>4. T = {}
  <2> SUFFICES ASSUME T # {} PROVE FALSE
    OBVIOUS
  <2>1. PICK n \in T : \A d \in T : n <= d
    <3>1. T \subseteq Nat
      OBVIOUS
    <3> HIDE DEF T
    <3> QED BY <3>1, NatMin
  <2>2. n \in Nat /\ n < L /\ ~OK(L - n)
    OBVIOUS
  <2>3. ASSUME NEW y \in (L - n + 1) .. L PROVE OK(y)
    <3>1. L - y \in Nat /\ L - y < L /\ ~(n <= L - y) /\ L - (L - y) = y
      BY <1>1, <2>2
    <3>2. L - y \notin T
      <4> HIDE DEF T
      <4> QED BY <2>1, <3>1
    <3> QED BY <3>1, <3>2
  <2>4. L - n \in DOMAIN tree
    BY <1>1, <2>2
  <2> QED BY <1>3, <2>2, <2>3, <2>4
<1>5. ASSUME NEW x \in DOMAIN tree PROVE OK(x)
  <2>1. L - x \in Nat /\ L - x < L /\ L - (L - x) = x
    BY <1>1
  <2>2. L - x \notin T
    BY <1>4
  <2> QED BY <2>1, <2>2
<1> QED BY <1>5 DEF OK, B

(* What is below something below is below.                                 *)
LEMMA BelowClosed ==
  ASSUME NEW p, IsProgram(p), NEW tree, TreeOK(p, tree)
  PROVE  \A y \in DOMAIN tree : \A x \in Range(Below(tree)[y]) :
           Range(Below(tree)[x]) \subseteq Range(Below(tree)[y])
<1> DEFINE L == Len(tree)
           B == Below(tree)
           OK(y) == \A x \in Range(B[y]) : Range(B[x]) \subseteq Range(B[y])
           T == {n \in Nat : n < L /\ ~OK(L - n)}
<1>1. L \in Nat /\ DOMAIN tree = 1 .. L
  BY TreeFacts
<1>2. \A x \in DOMAIN tree :
        Range(B[x]) = {x} \cup UNION {Range(B[c]) : c \in KidsOf(tree, x)}
  BY BelowRange
<1> HIDE DEF B
<1>3. ASSUME NEW y \in DOMAIN tree, \A c \in (y + 1) .. L : OK(c) PROVE OK(y)
  <2>1. KidsOf(tree, y) \subseteq (y + 1) .. L
    BY KidsAre
  <2>2. ASSUME NEW x \in Range(B[y]) PROVE Range(B[x]) \subseteq Range(B[y])
    <3>1. CASE x = y
      BY <3>1
    <3>2. CASE x # y
      <4>1. PICK c \in KidsOf(tree, y) : x \in Range(B[c])
        BY <1>2, <3>2
      <4>2. Range(B[x]) \subseteq Range(B[c])
        BY <1>3, <2>1, <4>1
      <4>3. Range(B[c]) \subseteq Range(B[y])
        BY <1>2
      <4> QED BY <4>2, <4>3
    <3> QED BY <3>1, <3>2
  <2> QED BY <2>2
<1> HIDE DEF OK
<1>4. T = {}
  <2> SUFFICES ASSUME T # {} PROVE FALSE
    OBVIOUS
  <2>1. PICK n \in T : \A d \in T : n <= d
    <3>1. T \subseteq Nat
      OBVIOUS
    <3> HIDE DEF T
    <3> QED BY <3>1, NatMin
  <2>2. n \in Nat /\ n < L /\ ~OK(L - n)
    OBVIOUS
  <2>3. ASSUME NEW y \in (L - n + 1) .. L PROVE OK(y)
    <3>1. L - y \in Nat /\ L - y < L /\ ~(n <= L - y) /\ L - (L - y) = y
      BY <1>1, <2>2
    <3>2. L - y \notin T
      <4> HIDE DEF T
      <4> QED BY <2>1, <3>1
    <3> QED BY <3>1, <3>2
  <2>4. L - n \in DOMAIN tree
    BY <1>1, <2>2
  <2> QED BY <1>3, <2>2, <2>3, <2>4
<1>5. ASSUME NEW x \in DOMAIN tree PROVE OK(x)
  <2>1. L - x \in Nat /\ L - x < L /\ L - (L - x) = x
    BY <1>1
  <2>2. L - x \notin T
    BY <1>4
  <2> QED BY <2>1, <2>2
<1> QED BY <1>5 DEF OK, B

(* flatten_sources comes past every node.                                  *)
LEMMA AllBelow ==
  ASSUME NEW p, IsProgram(p), NEW tree, TreeOK(p, tree), NEW arg, Hung(p, tree, arg)
  PROVE  Below(tree)[1] \in Seq(DOMAIN tree) /\ Range(Below(tree)[1]) = DOMAIN tree
<1> DEFINE B == Below(tree)
           T == {c \in DOMAIN tree : c \notin Range(B[1])}
<1>1. Len(tree) \in Nat /\ DOMAIN tree = 1 .. Len(tree) /\ 1 \in DOMAIN tree
  BY TreeFacts
<1>2. \A x \in DOMAIN tree :
           /\ B[x] \in Seq(DOMAIN tree)
           /\ Range(B[x]) = {x} \cup UNION {Range(B[c]) : c \in KidsOf(tree, x)}
  BY BelowRange
<1>3. \A y \in DOMAIN tree : \A x \in Range(B[y]) : Range(B[x]) \subseteq Range(B[y])
  BY BelowClosed
<1> HIDE DEF B
<1>4. T = {}
  <2> SUFFICES ASSUME T # {} PROVE FALSE
    OBVIOUS
  <2>1. PICK c \in T : \A y \in T : c <= y
    <3>1. T \subseteq Nat
      BY <1>1
    <3> HIDE DEF T
    <3> QED BY <3>1, NatMin
  <2>2. c \in DOMAIN tree /\ c \notin Range(B[1])
    OBVIOUS
  <2>3. c # 1
    BY <1>1, <1>2, <2>2
  <2>4. PICK x \in DOMAIN tree : \E k \in DOMAIN tree[x].children : HangsAt(p, tree, arg, x, k, c)
    <3>1. c \in 2 .. Len(tree)
      BY <1>1, <2>2, <2>3
    <3> QED BY <3>1 DEF Hung
  <2>5. c \in KidsOf(tree, x)
    BY <2>4 DEF KidsOf, HangsAt
  <2>6. ~(c <= x)
    <3>1. c \in (x + 1) .. Len(tree)
      BY <2>5, KidsAre
    <3> QED BY <1>1, <3>1
  <2>7. x \in Range(B[1])
    <3>1. x \notin T
      <4> HIDE DEF T
      <4> QED BY <2>1, <2>6
    <3> QED BY <3>1
  <2> HIDE DEF T
  <2>8. c \in Range(B[c])
    BY <1>2, <2>2
  <2>9. Range(B[c]) \subseteq Range(B[x])
    <3>1. Range(B[x]) = {x} \cup UNION {Range(B[d]) : d \in KidsOf(tree, x)}
      BY <1>2, <2>4
    <3>2. Range(B[c]) \in {Range(B[d]) : d \in KidsOf(tree, x)}
      BY <2>5
    <3> QED BY <3>1, <3>2
  <2>10. Range(B[x]) \subseteq Range(B[1])
    BY <1>1, <1>3, <2>7
  <2> QED BY <2>2, <2>8, <2>9, <2>10
<1>5. Range(B[1]) \subseteq DOMAIN tree
  <2>1. B[1] \in Seq(DOMAIN tree)
    BY <1>1, <1>2
  <2> HIDE DEF T
  <2> QED BY <2>1, RangeOfSeq
<1>6. DOMAIN tree \subseteq Range(B[1])
  BY <1>4
<1> QED BY <1>1, <1>2, <1>5, <1>6 DEF B

-----------------------------------------------------------------------------
(* The rows that graphviz_output marks.                                    *)

LEMMA TreeIs ==
  ASSUME Inv, Kin
  PROVE  /\ IsProgram(prog) /\ TreeOK(prog, Tree) /\ Hung(prog, Tree, frames[1].arg)
         /\ Tree \in Seq(NodeType(prog))
         /\ Len(Tree) \in Nat /\ DOMAIN Tree = 1 .. Len(Tree) /\ 1 \in DOMAIN Tree
<1>1. IsProgram(prog) /\ FramesOK(prog, frames)
  BY DEF Inv
<1>2. 1 \in 1 .. Len(frames)
  BY <1>1 DEF FramesOK
<1>3. TreeOK(prog, Tree)
  BY <1>1, <1>2 DEF FramesOK, FrameOK, Tree
<1>4. Hung(prog, Tree, frames[1].arg)
  BY <1>2 DEF Kin, KinOK, Tree
<1>5. Tree \in Seq(NodeType(prog))
  BY <1>3 DEF TreeOK
<1> HIDE DEF Tree
<1> QED BY <1>1, <1>3, <1>4, <1>5, TreeFacts

LEMMA OrderIs ==
  ASSUME Inv, Kin
  PROVE  Flattened \in Seq(DOMAIN Tree) /\ Range(Flattened) = DOMAIN Tree
<1> DEFINE tree == Tree
           arg == frames[1].arg
<1>1. IsProgram(prog) /\ TreeOK(prog, tree) /\ Hung(prog, tree, arg)
  BY TreeIs
<1> HIDE DEF tree, arg
<1>2. Below(tree)[1] \in Seq(DOMAIN tree) /\ Range(Below(tree)[1]) = DOMAIN tree
  BY <1>1, AllBelow
<1> QED BY <1>2, FlattenedIs DEF tree

(* A row that is marked has one SrcInfo, of a node at that position.       *)
LEMMA RowIs ==
  ASSUME Inv, Kin, NEW y \in DOMAIN Tree
  PROVE  \E z \in DOMAIN Tree : Pos(Tree[z]) = Pos(Tree[y]) /\ RowInfo(Pos(Tree[y])) = {Tree[z]}
<1> DEFINE p == Pos(Tree[y])
           order == Flattened
           Stored(q) == {j \in DOMAIN order : Pos(Tree[order[j]]) = q}
           S == Stored(p)
           m == Max(S)
           rows == {Pos(info) : info \in Range(Tree)}
<1>1. order \in Seq(DOMAIN Tree) /\ Range(order) = DOMAIN Tree
  BY OrderIs
<1>2. p \in rows
  BY DEF Range
<1>3. RowInfo(p) = IF S = {} THEN {} ELSE {Tree[order[m]]}
  <2>1. reg_src_info = [q \in rows |-> IF Stored(q) = {} THEN {} ELSE {Tree[order[Max(Stored(q))]]}]
    BY DEF reg_src_info
  <2> HIDE DEF rows, Stored, order, p
  <2> QED BY <1>2, <2>1 DEF RowInfo
<1> HIDE DEF order, rows
<1>4. Len(order) \in Nat /\ DOMAIN order = 1 .. Len(order)
  BY <1>1, LenProperties
<1>5. \A j \in DOMAIN order : order[j] \in DOMAIN Tree
  BY <1>1, <1>4, ElementOfSeq
<1>6. S # {} /\ S \subseteq 1 .. Len(order)
  <2>1. PICK j \in DOMAIN order : order[j] = y
    BY <1>1 DEF Range
  <2>2. j \in S
    BY <2>1
  <2> QED BY <2>2, <1>4
<1>7. m \in S
  <2>1. S \subseteq 0 .. Len(order)
    BY <1>4, <1>6
  <2> HIDE DEF S
  <2> QED BY <1>4, <1>6, <2>1, MaxOfBounded
<1>8. order[m] \in DOMAIN Tree /\ Pos(Tree[order[m]]) = p
  BY <1>5, <1>7
<1> HIDE DEF S, m, p
<1>9. RowInfo(p) = {Tree[order[m]]}
  BY <1>3, <1>6
<1> QED BY <1>8, <1>9 DEF p

LEMMA NodeTells ==
  ASSUME Inv, Kin, NEW z \in DOMAIN Tree, Pos(Tree[z]) # Pos(Tree[1])
  PROVE  Tells(Pos(Tree[z]), Tree[z])
<1> DEFINE info == Tree[z]
           p == Pos(info)
           inst == InstOf(prog, info)
           arg == Background(p, info)
           bold == Bold(p, info)
<1>1. /\ IsProgram(prog) /\ TreeOK(prog, Tree) /\ Hung(prog, Tree, frames[1].arg)
      /\ Len(Tree) \in Nat /\ DOMAIN Tree = 1 .. Len(Tree)
  BY TreeIs
<1>2. PICK x \in DOMAIN Tree :
        \E k \in DOMAIN Tree[x].children : HangsAt(prog, Tree, frames[1].arg, x, k, z)
  <2>1. z \in 2 .. Len(Tree)
    <3>1. z # 1
      OBVIOUS
    <3> QED BY <3>1, <1>1
  <2> QED BY <2>1, <1>1 DEF Hung
<1>3. PICK k \in DOMAIN Tree[x].children : HangsAt(prog, Tree, frames[1].arg, x, k, z)
  BY <1>2
<1>4. Inst(p[1], p[2]) = inst
  BY DEF Inst, InstOf, Pos
<1>5. inst \in Instruction /\ DOMAIN inst.in = 1 .. Len(inst.in) /\ Len(inst.in) \in Nat
  <2>1. inst \in Instruction
    BY <1>1, TreeFacts
  <2>2. inst.in \in Seq(Temps)
    BY <2>1 DEF Instruction
  <2> QED BY <2>1, <2>2, LenProperties
<1>6. HasOperands(inst)
  <2>1. info.node \in DOMAIN prog.code /\ info.index \in DOMAIN prog.code[info.node]
    BY <1>1, TreeFacts
  <2> HIDE DEF info
  <2>2. HasOperands(prog.code[info.node][info.index])
    BY <2>1, <1>1 DEF IsProgram
  <2> QED BY <2>2 DEF InstOf
<1>7. Tells(p, info) <=>
        IF inst.op = "st"
        THEN arg[1] = "in" /\ arg[2] \in DOMAIN inst.in /\ bold = {}
        ELSE \E j \in DOMAIN inst.out :
               /\ arg = <<"out", j>> /\ inst.out[j] \in TakenFrom(p)
               /\ <<"out", j>> \in bold /\ bold \subseteq {<<"out", j>>, <<"in", j>>}
  BY <1>4 DEF Tells
<1>8. bold = {a \in {"out"} \X DOMAIN inst.out \cup {"in"} \X DOMAIN inst.in :
                a[2] = info.op_index + 1}
  BY <1>4 DEF Bold
<1>9. p # Pos(Tree[1])
  OBVIOUS
<1>10. CASE inst.op = "st"
  <2>1. info.op_index = -1
    BY <1>3, <1>10 DEF HangsAt
  <2>2. arg = <<"in", 2>>
    <3>1. ~(info.op_index >= 0)
      BY <2>1
    <3> HIDE DEF info, p
    <3> QED BY <1>9, <3>1 DEF Background
  <2> HIDE DEF inst, info, arg, bold, p
  <2>3. Len(inst.in) >= 2 /\ inst.out = << >>
    BY <1>6, <1>10 DEF HasOperands
  <2>4. bold = {}
    <3>1. DOMAIN inst.out = {}
      BY <2>3
    <3>2. 0 \notin DOMAIN inst.in
      BY <1>5
    <3>3. info.op_index + 1 = 0
      BY <2>1
    <3>4. \A a \in {"in"} \X DOMAIN inst.in : a[2] # 0
      BY <3>2
    <3> QED BY <1>8, <3>1, <3>3, <3>4
  <2>5. 2 \in DOMAIN inst.in
    BY <1>5, <2>3
  <2>6. arg[1] = "in" /\ arg[2] = 2
    BY <2>2
  <2>7. Tells(p, info)
    BY <1>7, <1>10, <2>4, <2>5, <2>6
  <2> QED BY <2>7 DEF p, info
<1>11. CASE inst.op # "st"
  <2>1. PICK j \in DOMAIN inst.out : info.op_index = j - 1 /\ inst.out[j] = InstOf(prog, Tree[x]).in[k]
    BY <1>3, <1>11 DEF HangsAt
  <2>2. j \in Nat \ {0}
    <3>1. inst.out \in Seq(Temps)
      BY <1>5 DEF Instruction
    <3> HIDE DEF inst
    <3> QED BY <3>1, LenProperties
  <2>3. arg = <<"out", j>>
    <3>1. info.op_index >= 0 /\ info.op_index + 1 = j
      BY <2>1, <2>2
    <3>2. ~(info.op_index < 0)
      BY <2>1, <2>2
    <3> HIDE DEF info, p
    <3> QED BY <3>1, <3>2 DEF Background
  <2>4. <<"out", j>> \in bold /\ bold \subseteq {<<"out", j>>, <<"in", j>>}
    <3>1. info.op_index + 1 = j
      BY <2>1, <2>2
    <3> HIDE DEF info, inst, p, bold
    <3>2. <<"out", j>> \in {"out"} \X DOMAIN inst.out /\ <<"out", j>>[2] = j
      BY <2>1
    <3>3. \A a \in {"out"} \X DOMAIN inst.out \cup {"in"} \X DOMAIN inst.in :
             a[2] = j => a \in {<<"out", j>>, <<"in", j>>}
      OBVIOUS
    <3> QED BY <1>8, <3>1, <3>2, <3>3
  <2>5. inst.out[j] \in TakenFrom(p)
    <3>1. inst.out[j] = Operand(Tree, x, k)
      BY <2>1 DEF Operand, Inst, InstOf
    <3>2. p \in Branches(Tree, x, k)
      BY <1>3 DEF HangsAt, Branches, Pos
    <3> HIDE DEF p, inst
    <3> QED BY <3>1, <3>2 DEF TakenFrom
  <2> HIDE DEF inst, info, arg, bold, p
  <2>6. Tells(p, info)
    BY <1>7, <1>11, <2>1, <2>3, <2>4, <2>5
  <2> QED BY <2>6 DEF p, info
<1> QED BY <1>10, <1>11

LEMMA InvRowsTell == Inv /\ Kin => RowsTell
<1> SUFFICES ASSUME Inv, Kin, NEW p \in {Pos(info) : info \in Range(Tree)}
             PROVE  RowInfo(p) # {} /\ (p # Pos(Tree[1]) => \A info \in RowInfo(p) : Tells(p, info))
  BY DEF RowsTell
<1>1. PICK y \in DOMAIN Tree : p = Pos(Tree[y])
  BY DEF Range
<1>2. PICK z \in DOMAIN Tree : Pos(Tree[z]) = p /\ RowInfo(p) = {Tree[z]}
  BY <1>1, RowIs
<1>3. ASSUME p # Pos(Tree[1]) PROVE Tells(p, Tree[z])
  BY <1>2, <1>3, NodeTells
<1> QED BY <1>2, <1>3

(* Of every instruction that a search found one row is marked when it is   *)
(* done, and what the row shows is right: its colour is that of an operand *)
(* that the instruction has, the one output that is bold is that for which *)
(* an operand in the tree leads to it, and no input is bold except in the  *)
(* place of that output (src/src/dump-ir.c:25-39 and                       *)
(* src/src/graphviz.c:106-172), for every program.                         *)
THEOREM RowsAreRight == Spec => []RowsTell
<1>1. Inv /\ Kin => RowsTell
  BY InvRowsTell
<1> QED BY <1>1, InvHolds, KinHolds, PTL

-----------------------------------------------------------------------------
(* What an address folds to when its search returns.                       *)

(* The tree that a nested call leaves to be folded has every source of the *)
(* address, and belongs to the instruction that the caller waits at.       *)
LEMMA ReturnedTree ==
  ASSUME Inv, Kin, Returning, Len(frames) > 1, Acyclic
  PROVE  LET tree == top.tree
             arg == top.arg
             inst == InstOf(prog, tree[1])
         IN  /\ IsProgram(prog) /\ TreeOK(prog, tree) /\ FullTree(tree)
             /\ arg \in DOMAIN tree[1].children /\ arg = AddressArg(inst)
             /\ inst.op \in {"ld", "st"} /\ Operand(tree, 1, arg) = inst.in[AddressArg(inst)]
             /\ tree[1].node \in Blocks /\ tree[1].index \in DOMAIN prog.code[tree[1].node]
             /\ tree[1].node = caller.src.node /\ tree[1].index = caller.i
             /\ Reaching(prog, tree[1].node, tree[1].index, Operand(tree, 1, arg), {})
                  \subseteq Branches(tree, 1, arg)
<1> DEFINE tree == top.tree
           arg == top.arg
           inst == InstOf(prog, tree[1])
<1>1. /\ IsProgram(prog) /\ TreeOK(prog, tree) /\ arg \in DOMAIN tree[1].children
      /\ Len(frames) \in 2 .. Len(frames) /\ top = frames[Len(frames)]
  BY TopIs DEF FrameOK
<1>2. /\ 1 \in DOMAIN tree /\ DOMAIN tree = 1 .. Len(tree) /\ Len(tree) \in Nat
      /\ tree[1].node \in Blocks /\ tree[1].index \in DOMAIN prog.code[tree[1].node]
  BY <1>1, TreeFacts DEF Blocks
<1>3. /\ arg = AddressArg(inst) /\ Pos(tree[1]) \in LoadsOf(prog) \cup StoresOf(prog)
      /\ Nested(prog, caller, top)
  BY <1>1, NestedFrames DEF caller
<1>4. inst.op \in {"ld", "st"}
  <2> HIDE DEF tree
  <2> QED BY <1>3 DEF LoadsOf, StoresOf, InstAt, Pos, InstOf
<1>5. Operand(tree, 1, arg) = inst.in[AddressArg(inst)]
  BY <1>3 DEF Operand, Inst, InstOf
<1>6. tree[1].node = caller.src.node /\ tree[1].index = caller.i
  BY <1>3 DEF Nested
<1>7. top.pc = "pop"
  BY DEF Returning, At
<1>8. Reaching(prog, tree[1].node, tree[1].index, Operand(tree, 1, arg), {})
        \subseteq Branches(tree, 1, arg)
  <2>1. Owed(prog, top, 1, top.arg)
    BY DEF Owed
  <2> QED BY <1>1, <1>2, <2>1, ReturnComplete
<1>9. FullTree(tree)
  <2>1. IsAcyclic(prog)
    BY DEF Acyclic, IsAcyclic, Blocks
  <2>2. ASSUME NEW x \in 2 .. Len(tree), NEW k \in DOMAIN tree[x].children,
               ~IsConst(Operand(tree, x, k))
        PROVE  Reaching(prog, tree[x].node, tree[x].index, Operand(tree, x, k), {})
                 \subseteq Branches(tree, x, k)
    <3>1. x \in DOMAIN tree /\ x # 1
      BY <1>2
    <3>2. ~IsConst(InstOf(prog, tree[x]).in[k])
      BY <2>2 DEF Operand, Inst, InstOf
    <3>3. Owed(prog, top, x, k)
      BY <1>7, <2>1, <3>1, <3>2 DEF Owed
    <3> QED BY <3>1, <3>3, ReturnComplete
  <2> HIDE DEF tree
  <2> QED BY <2>2 DEF FullTree
<1> HIDE DEF tree, arg, inst
<1> QED BY <1>1, <1>2, <1>3, <1>4, <1>5, <1>6, <1>8, <1>9 DEF tree, arg, inst

LEMMA InvFoldSound == Inv /\ Kin => FoldSound
<1> SUFFICES ASSUME Inv, Kin, Returning, Len(frames) > 1, Acyclic, Plain, folded.valid,
                    NEW p \in Paths(top.tree[1].node),
                    NEW v \in Address(p, Len(p), top.tree[1].index)
             PROVE  folded.value >= -v
  <2>1. ASSUME Inv, Kin, Returning, Len(frames) > 1, Acyclic, Plain, folded.valid,
               NEW address \in Addresses(top.tree[1].node, top.tree[1].index), NEW v \in address
        PROVE  folded.value >= -v
    <3>1. PICK p \in Paths(top.tree[1].node) : address = Address(p, Len(p), top.tree[1].index)
      BY <2>1 DEF Addresses
    <3>2. v \in Address(p, Len(p), top.tree[1].index)
      BY <2>1, <3>1
    <3> QED BY <2>1, <3>2
  <2> QED BY <2>1 DEF FoldSound
<1> DEFINE tree == top.tree
           arg == top.arg
           inst == InstOf(prog, tree[1])
<1>1. /\ IsProgram(prog) /\ TreeOK(prog, tree) /\ FullTree(tree)
      /\ arg \in DOMAIN tree[1].children
      /\ inst.op \in {"ld", "st"} /\ Operand(tree, 1, arg) = inst.in[AddressArg(inst)]
      /\ tree[1].node \in Blocks /\ tree[1].index \in DOMAIN prog.code[tree[1].node]
      /\ Reaching(prog, tree[1].node, tree[1].index, Operand(tree, 1, arg), {})
           \subseteq Branches(tree, 1, arg)
  BY ReturnedTree
<1>2. ~IsConst(Operand(tree, 1, arg))
  <2> HIDE DEF tree, arg
  <2> QED BY <1>1 DEF Plain, Inst, InstOf
<1>3. IsWay(p) /\ p[Len(p)] = tree[1].node
  BY <1>1, PathIsWay
<1>4. v \in Values(p, Len(p), tree[1].index)[Operand(tree, 1, arg)]
  <2>1. Inst(p[Len(p)], tree[1].index) = inst
    BY <1>3 DEF Inst, InstOf
  <2> QED BY <1>1, <2>1 DEF Address
<1>5. fold_ld_st_stack_pointer(prog.code, tree, arg).valid
  BY DEF folded
<1> HIDE DEF tree, arg, inst
<1>6. fold_ld_st_stack_pointer(prog.code, tree, arg).value >= -v
  BY <1>1, <1>2, <1>3, <1>4, <1>5, AddressBound
<1> QED BY <1>6 DEF folded, tree, arg

(* Without loops, when an address folds to an offset, the address is no    *)
(* deeper than that on any path of execution: the fold stands for all      *)
(* definitions of an operand, and the search has found all that reach it   *)
(* (common.c:67-170 and analyze-reg-src.c:124-238).                        *)
THEOREM OffsetsAreSound == Spec => []FoldSound
<1>1. Inv /\ Kin => FoldSound
  BY InvFoldSound
<1> QED BY <1>1, InvHolds, KinHolds, PTL

-----------------------------------------------------------------------------
(* The stores that a load is followed to: a third invariant.               *)

(* The last stores to the address of the load at position i of the end of  *)
(* path p: one of them, or none.                                           *)
LastStores(p, i) ==
  LET address == Address(p, Len(p), i)
      stores == {q \in Passed(p, i) : /\ Inst(p[q[1]], q[2]).op = "st"
                                      /\ Address(p, q[1], q[2]) = address}
  IN  {q \in stores : address # {} /\ \A r \in stores : ~Earlier(q, r)}

(* What is to be found: a path to a load, and the last store on it.        *)
Wanted(b, i) ==
  UNION {{[way |-> p, index |-> i, address |-> Address(p, Len(p), i), store |-> q] :
            q \in LastStores(p, i)} : p \in Paths(b)}

AllWanted ==
  UNION {UNION {Wanted(b, i) : i \in {i \in DOMAIN prog.code[b] : Inst(b, i).op = "ld"}} :
           b \in Blocks}

Target(w) == <<w.way[w.store[1]], w.store[2]>>

(* Entry s, with the positions of its block before bound to go, is on the  *)
(* path, behind the load and ahead of the store.                           *)
Toward(w, s, bound) ==
  /\ s.kind = "slot" /\ s.origin = 1 /\ w.address = {-s.offset}
  /\ \E n \in 1 .. Len(w.way) :
       /\ w.way[n] = s.node /\ (n = Len(w.way) => bound <= w.index)
       /\ w.store[1] < n \/ (w.store[1] = n /\ w.store[2] < bound)

(* The store is where the scan has stopped.                                *)
Reached(w, f) ==
  f.src.kind = "slot" /\ f.src.origin = 1 /\ Target(w) = <<f.src.node, f.i>>

Chased(w, f, x) ==
  \/ \E s \in Range(f.queue) : s.info = x /\ Toward(w, s, s.index)
  \/ /\ f.pc \notin {"pop", "load"} /\ f.src.info = x
     /\ IF f.pc = "found" THEN Reached(w, f)
        ELSE Toward(w, f.src, IF f.pc = "preds" THEN 1 ELSE f.i + 1)

(* Every load in the tree, but the one whose address is being folded, has  *)
(* its last stores, or an entry that leads to them.                        *)
Traced(f, x, w) ==
  w.way[Len(w.way)] = f.tree[x].node /\ w.index = f.tree[x].index =>
    Target(w) \in Branches(f.tree, x, 1) \/ Chased(w, f, x)

HuntsOK(W, f) ==
  \A x \in 2 .. Len(f.tree) :
    ~(f.pc = "load" /\ x = Len(f.tree)) => \A w \in W : Traced(f, x, w)

Hunts == Acyclic /\ Plain /\ Regular =>
           \A d \in 1 .. Len(frames) : HuntsOK(AllWanted, frames[d])

LEMMA WantedFacts ==
  ASSUME IsProgram(prog), NEW w \in AllWanted
  PROVE  LET p == w.way
             i == w.index
             q == w.store
         IN  /\ IsRoute(p) /\ p \in Seq(Blocks) /\ p[Len(p)] \in Blocks
             /\ i \in DOMAIN prog.code[p[Len(p)]] /\ i \in Nat \ {0}
             /\ prog.code[p[Len(p)]][i].op = "ld"
             /\ w.address = Address(p, Len(p), i) /\ q \in LastStores(p, i)
<1>1. PICK b \in Blocks : \E i \in DOMAIN prog.code[b] : Inst(b, i).op = "ld" /\ w \in Wanted(b, i)
  BY DEF AllWanted
<1>2. PICK i \in DOMAIN prog.code[b] : Inst(b, i).op = "ld" /\ w \in Wanted(b, i)
  BY <1>1
<1>3. PICK p \in Paths(b) : \E q \in LastStores(p, i) :
        w = [way |-> p, index |-> i, address |-> Address(p, Len(p), i), store |-> q]
  BY <1>2 DEF Wanted
<1>4. PICK q \in LastStores(p, i) :
        w = [way |-> p, index |-> i, address |-> Address(p, Len(p), i), store |-> q]
  BY <1>3
<1>5. IsRoute(p) /\ p[Len(p)] = b
  BY PathIsRoute
<1>6. p \in Seq(Blocks)
  BY <1>5 DEF IsRoute, IsWay
<1>7. DOMAIN prog.code[b] = 1 .. Len(prog.code[b])
  BY ProgramFacts DEF Blocks
<1>8. w.way = p /\ w.index = i /\ w.address = Address(p, Len(p), i) /\ w.store = q
  BY <1>4
<1>9. i \in Nat \ {0} /\ prog.code[b][i].op = "ld"
  BY <1>2, <1>7 DEF Inst
<1> QED BY <1>5, <1>6, <1>8, <1>9

(* The store that is wanted, and that no other comes after it.             *)
LEMMA LastStoreFacts ==
  ASSUME IsProgram(prog), NEW p, IsWay(p), NEW i \in DOMAIN prog.code[p[Len(p)]],
         NEW q \in LastStores(p, i)
  PROVE  /\ q[1] \in 1 .. Len(p) /\ q[2] \in DOMAIN prog.code[p[q[1]]] /\ q[2] \in Nat \ {0}
         /\ q[1] = Len(p) => q[2] < i
         /\ prog.code[p[q[1]]][q[2]].op = "st"
         /\ Address(p, Len(p), i) # {} /\ Address(p, q[1], q[2]) = Address(p, Len(p), i)
         /\ \A n \in 1 .. Len(p) : \A j \in DOMAIN prog.code[p[n]] :
              /\ n = Len(p) => j < i
              /\ prog.code[p[n]][j].op = "st" /\ Address(p, n, j) = Address(p, Len(p), i)
              => ~Earlier(q, <<n, j>>)
<1> DEFINE A == Address(p, Len(p), i)
           Room(n) == IF n = Len(p) THEN i - 1 ELSE Len(prog.code[p[n]])
<1>1. Len(p) \in Nat /\ DOMAIN p = 1 .. Len(p) /\ \A n \in 1 .. Len(p) : p[n] \in Blocks
  BY WayFacts
<1>2. \A n \in 1 .. Len(p) : /\ Len(prog.code[p[n]]) \in Nat
                             /\ DOMAIN prog.code[p[n]] = 1 .. Len(prog.code[p[n]])
  BY <1>1, ProgramFacts DEF Blocks
<1>3. Passed(p, i) = UNION {{n} \X (1 .. Room(n)) : n \in DOMAIN p}
  BY DEF Passed
<1>4. Len(p) \in 1 .. Len(p) /\ i \in Nat \ {0} /\ i <= Len(prog.code[p[Len(p)]])
  <2>1. Len(p) >= 1
    BY DEF IsWay
  <2>2. Len(p) \in 1 .. Len(p)
    BY <1>1, <2>1
  <2>3. i \in 1 .. Len(prog.code[p[Len(p)]]) /\ Len(prog.code[p[Len(p)]]) \in Nat
    BY <1>2, <2>2
  <2> QED BY <2>2, <2>3
<1>5. \A n \in 1 .. Len(p) : Room(n) \in Nat /\ Room(n) <= Len(prog.code[p[n]])
  BY <1>2, <1>4
<1>6. /\ q \in Passed(p, i) /\ Inst(p[q[1]], q[2]).op = "st" /\ Address(p, q[1], q[2]) = A /\ A # {}
      /\ \A r \in Passed(p, i) : Inst(p[r[1]], r[2]).op = "st" /\ Address(p, r[1], r[2]) = A
                                 => ~Earlier(q, r)
  BY DEF LastStores
<1> HIDE DEF A
<1>7. PICK n \in 1 .. Len(p) : q \in {n} \X (1 .. Room(n))
  BY <1>1, <1>3, <1>6
<1>8. q[1] = n /\ q[2] \in 1 .. Room(n)
  BY <1>7
<1>9. q[2] \in DOMAIN prog.code[p[n]] /\ q[2] \in Nat \ {0} /\ (n = Len(p) => q[2] < i)
  <2>1. q[2] \in 1 .. Len(prog.code[p[n]])
    BY <1>2, <1>5, <1>8
  <2>2. n = Len(p) => q[2] \in 1 .. (i - 1)
    BY <1>8
  <2> QED BY <1>2, <1>4, <2>1, <2>2
<1>10. ASSUME NEW m \in 1 .. Len(p), NEW j \in DOMAIN prog.code[p[m]], m = Len(p) => j < i,
              prog.code[p[m]][j].op = "st", Address(p, m, j) = A
       PROVE  ~Earlier(q, <<m, j>>)
  <2>1. j \in 1 .. Room(m)
    <3>1. j \in 1 .. Len(prog.code[p[m]])
      BY <1>2
    <3> QED BY <1>2, <1>4, <1>10, <3>1
  <2> HIDE DEF Room
  <2>2. <<m, j>> \in Passed(p, i)
    <3>1. <<m, j>> \in {m} \X (1 .. Room(m))
      BY <2>1
    <3> QED BY <1>1, <1>3, <3>1
  <2>3. <<m, j>>[1] = m /\ <<m, j>>[2] = j
    OBVIOUS
  <2>4. Inst(p[m], j).op = "st"
    BY <1>10 DEF Inst
  <2> QED BY <1>6, <1>10, <2>2, <2>3, <2>4
<1>11. prog.code[p[n]][q[2]].op = "st"
  BY <1>6, <1>8 DEF Inst
<1> QED BY <1>6, <1>8, <1>9, <1>10, <1>11 DEF A

LEMMA PrefixRoute ==
  ASSUME IsProgram(prog), NEW p, IsRoute(p), NEW n \in 1 .. Len(p)
  PROVE  LET r == SubSeq(p, 1, n)
         IN  /\ IsRoute(r) /\ Len(r) = n /\ r[n] = p[n]
             /\ \A i : Address(r, n, i) = Address(p, n, i)
<1> DEFINE r == SubSeq(p, 1, n)
<1>1. /\ IsWay(p) /\ p \in Seq(Blocks) /\ Len(p) \in Nat /\ p[1] = 1
      /\ \A j \in 1 .. Len(p) : p[j] \in Blocks
  BY WayFacts DEF IsRoute, IsWay
<1>2. 1 \in Int /\ n \in Int /\ n \in Nat /\ \A j \in 1 .. n : j \in 1 .. Len(p)
  BY <1>1
<1>3. \A j \in 1 .. n : p[j] \in Blocks
  BY <1>1, <1>2
<1>4. r \in Seq(Blocks) /\ Len(r) = n /\ \A j \in 1 .. n : r[j] = p[j]
  BY <1>2, <1>3, SubSeqProperties
<1> HIDE DEF r
<1>5. IsWay(r)
  <2>1. ASSUME NEW j \in 2 .. n PROVE r[j - 1] \in Range(prog.pred[r[j]])
    <3>1. j \in 2 .. Len(p) /\ j \in 1 .. n /\ j - 1 \in 1 .. n
      BY <1>1
    <3>2. p[j - 1] \in Range(prog.pred[p[j]])
      BY <1>1, <3>1 DEF IsWay
    <3> QED BY <1>4, <3>1, <3>2
  <2> QED BY <1>4, <2>1 DEF IsWay
<1>6. 1 \in 1 .. n /\ n \in 1 .. n /\ n <= Len(p) /\ n \in 1 .. Len(r)
  BY <1>1, <1>4
<1>7. IsRoute(r)
  BY <1>1, <1>4, <1>5, <1>6 DEF IsRoute
<1>8. ASSUME NEW i PROVE Address(r, n, i) = Address(p, n, i)
  <2>1. \A m \in 1 .. n : r[m] = p[m]
    BY <1>4
  <2>2. Values(r, n, i) = Values(p, n, i)
    BY <1>1, <1>5, <1>6, <2>1, SameValues
  <2>3. r[n] = p[n]
    BY <1>4, <1>6
  <2> QED BY <2>2, <2>3 DEF Address
<1> QED BY <1>4, <1>6, <1>7, <1>8 DEF r

(* What each action leaves of the trails.                                  *)
LEMMA HuntsKept ==
  ASSUME NEW W, NEW f, HuntsOK(W, f), f.pc # "load", NEW g, g.tree = f.tree,
         \A w \in W : \A x \in 2 .. Len(f.tree) : Chased(w, f, x) => Chased(w, g, x)
  PROVE  HuntsOK(W, g)
BY DEF HuntsOK, Traced

LEMMA PopHunts ==
  ASSUME IsProgram(prog), NEW W, NEW f, FrameOK(prog, f), f.pc = "pop", f.queue # << >>,
         HuntsOK(W, f)
  PROVE  HuntsOK(W, [f EXCEPT !.src = Head(f.queue), !.queue = Tail(f.queue),
                              !.i = Head(f.queue).index - 1, !.pc = "scan"])
<1> DEFINE s == Head(f.queue)
           n == Len(f.queue)
           g == [f EXCEPT !.src = s, !.queue = Tail(f.queue), !.i = s.index - 1, !.pc = "scan"]
<1>1. f \in FrameType(prog) /\ f.queue \in Seq(EntryType(prog)) /\ n \in Nat
  BY FrameFacts
<1>2. /\ n >= 1 /\ s = f.queue[1]
      /\ DOMAIN Tail(f.queue) = 1 .. (n - 1)
      /\ \A j \in 1 .. (n - 1) : Tail(f.queue)[j] = f.queue[j + 1]
      /\ DOMAIN f.queue = 1 .. n /\ s \in EntryType(prog)
  BY <1>1, HeadTailProperties, LenProperties
<1>3. s.index \in Nat /\ (s.index - 1) + 1 = s.index
  BY <1>2 DEF EntryType
<1>4. \A e \in Range(f.queue) : e = s \/ e \in Range(Tail(f.queue))
  <2>1. ASSUME NEW j \in 1 .. n PROVE f.queue[j] = s \/ f.queue[j] \in Range(Tail(f.queue))
    <3>1. CASE j = 1
      BY <3>1, <1>2
    <3>2. CASE j # 1
      <4>1. j - 1 \in 1 .. (n - 1) /\ Tail(f.queue)[j - 1] = f.queue[j]
        BY <3>2, <1>1, <1>2
      <4> QED BY <4>1, <1>2 DEF Range
    <3> QED BY <3>1, <3>2
  <2> QED BY <2>1, <1>2 DEF Range
<1> HIDE DEF s
<1>5. /\ g.tree = f.tree /\ g.src = s /\ g.queue = Tail(f.queue) /\ g.i = s.index - 1
      /\ g.pc = "scan"
  BY <1>1 DEF FrameType
<1> HIDE DEF g
<1>6. ASSUME NEW w \in W, NEW x \in 2 .. Len(f.tree), Chased(w, f, x) PROVE Chased(w, g, x)
  <2>1. PICK e \in Range(f.queue) : e.info = x /\ Toward(w, e, e.index)
    BY <1>6 DEF Chased
  <2>2. CASE e = s
    <3>1. Toward(w, g.src, g.i + 1)
      BY <1>3, <1>5, <2>1, <2>2
    <3> QED BY <1>5, <2>1, <2>2, <3>1 DEF Chased
  <2>3. CASE e # s
    BY <1>4, <1>5, <2>1, <2>3 DEF Chased
  <2> QED BY <2>2, <2>3
<1>7. HuntsOK(W, g)
  BY <1>5, <1>6, HuntsKept
<1> QED BY <1>7 DEF g, s

(* An entry for a temp is on no trail.                                     *)
LEMMA ScanTempHunts ==
  ASSUME IsProgram(prog), NEW W, NEW f, FrameOK(prog, f), f.pc = "scan", f.src.kind = "temp",
         HuntsOK(W, f), NEW j, NEW pc \in {"preds", "found"}
  PROVE  HuntsOK(W, [f EXCEPT !.i = j, !.pc = pc])
<1> DEFINE g == [f EXCEPT !.i = j, !.pc = pc]
<1>1. g.tree = f.tree /\ g.queue = f.queue
  BY FrameFacts DEF FrameType
<1> HIDE DEF g
<1>2. ASSUME NEW w \in W, NEW x \in 2 .. Len(f.tree), Chased(w, f, x) PROVE Chased(w, g, x)
  BY <1>1, <1>2 DEF Chased, Toward
<1>3. HuntsOK(W, g)
  BY <1>1, <1>2, HuntsKept
<1> QED BY <1>3 DEF g

LEMMA WantedStore ==
  ASSUME IsProgram(prog), NEW w \in AllWanted
  PROVE  LET p == w.way
             q == w.store
         IN  /\ Len(p) \in Nat /\ IsWay(p) /\ \A n \in 1 .. Len(p) : p[n] \in Blocks
             /\ q[1] \in 1 .. Len(p) /\ q[2] \in Stores(p[q[1]]) /\ q[2] \in Nat \ {0}
             /\ w.index \in Nat \ {0} /\ (q[1] = Len(p) => q[2] < w.index)
<1> DEFINE p == w.way
           q == w.store
<1>1. /\ IsRoute(p) /\ w.index \in DOMAIN prog.code[p[Len(p)]] /\ w.index \in Nat \ {0}
      /\ q \in LastStores(p, w.index)
  BY WantedFacts
<1> HIDE DEF p, q
<1>2. IsWay(p) /\ Len(p) \in Nat /\ \A n \in 1 .. Len(p) : p[n] \in Blocks
  BY <1>1, WayFacts DEF IsRoute
<1>3. /\ q[1] \in 1 .. Len(p) /\ q[2] \in DOMAIN prog.code[p[q[1]]] /\ q[2] \in Nat \ {0}
      /\ (q[1] = Len(p) => q[2] < w.index) /\ prog.code[p[q[1]]][q[2]].op = "st"
  BY <1>1, <1>2, LastStoreFacts
<1>4. q[2] \in Stores(p[q[1]])
  BY <1>3 DEF Stores, Inst
<1> QED BY <1>1, <1>2, <1>3, <1>4 DEF p, q

(* Nothing but the source is passed by in a step within its block.         *)
LEMMA MovedHunts ==
  ASSUME IsProgram(prog), NEW W, NEW f, FrameOK(prog, f), f.pc \in {"scan", "store"}, HuntsOK(W, f),
         NEW i, NEW pc \in {"scan", "found", "preds", "store"},
         \A w \in W : f.src.kind = "slot" /\ Toward(w, f.src, f.i + 1) =>
           IF pc = "found" THEN Reached(w, [f EXCEPT !.i = i, !.pc = pc])
           ELSE Toward(w, f.src, IF pc = "preds" THEN 1 ELSE i + 1)
  PROVE  HuntsOK(W, [f EXCEPT !.i = i, !.pc = pc])
<1> DEFINE g == [f EXCEPT !.i = i, !.pc = pc]
<1>1. g.tree = f.tree /\ g.queue = f.queue /\ g.src = f.src /\ g.i = i /\ g.pc = pc
  BY FrameFacts DEF FrameType
<1>2. \A w \in W : f.src.kind = "slot" /\ Toward(w, f.src, f.i + 1) =>
           IF pc = "found" THEN Reached(w, g)
           ELSE Toward(w, f.src, IF pc = "preds" THEN 1 ELSE i + 1)
  OBVIOUS
<1> HIDE DEF g
<1>3. ASSUME NEW w \in W, NEW x \in 2 .. Len(f.tree), Chased(w, f, x) PROVE Chased(w, g, x)
  <2>1. CASE \E s \in Range(f.queue) : s.info = x /\ Toward(w, s, s.index)
    BY <1>1, <2>1 DEF Chased
  <2>2. CASE ~\E s \in Range(f.queue) : s.info = x /\ Toward(w, s, s.index)
    <3>1. f.src.info = x /\ Toward(w, f.src, f.i + 1)
      BY <1>3, <2>2 DEF Chased
    <3>2. f.src.kind = "slot"
      BY <3>1 DEF Toward
    <3> QED BY <1>1, <1>2, <3>1, <3>2 DEF Chased
  <2> QED BY <2>1, <2>2
<1>4. f.pc # "load"
  OBVIOUS
<1>5. HuntsOK(W, g)
  BY <1>1, <1>3, <1>4, HuntsKept
<1> QED BY <1>5 DEF g

LEMMA ScanSlotHunts ==
  ASSUME IsProgram(prog), NEW f, FrameOK(prog, f), f.pc = "scan", f.src.kind = "slot",
         HuntsOK(AllWanted, f), NEW j, j = LastAt(Stores(f.src.node), f.i)
  PROVE  /\ j = 0 => HuntsOK(AllWanted, [f EXCEPT !.i = 0, !.pc = "preds"])
         /\ j # 0 => HuntsOK(AllWanted, [f EXCEPT !.i = j, !.pc = "store"])
<1> DEFINE b == f.src.node
           len == Len(prog.code[b])
           W == Stores(b)
<1>1. /\ f \in FrameType(prog) /\ b \in DOMAIN prog.code /\ len \in Nat
      /\ DOMAIN prog.code[b] = 1 .. len /\ f.i \in Nat
  BY FrameFacts
<1>2. W \subseteq 1 .. len
  BY <1>1 DEF Stores
<1>3. /\ j \in Nat /\ j <= f.i
      /\ j = 0 => \A k \in W : k > f.i
      /\ j # 0 => \A k \in W : k <= f.i => k <= j
  <2>1. j = LastAt(W, f.i)
    OBVIOUS
  <2> HIDE DEF W, len
  <2>2. /\ LastAt(W, f.i) \in 0 .. len /\ LastAt(W, f.i) <= f.i
        /\ LastAt(W, f.i) = 0 => \A k \in W : k > f.i
        /\ LastAt(W, f.i) # 0 =>
             LastAt(W, f.i) \in W /\ \A k \in W : k <= f.i => k <= LastAt(W, f.i)
    BY <1>1, <1>2, LastAtIs
  <2> QED BY <1>1, <2>1, <2>2
<1>4. ASSUME NEW w \in AllWanted, Toward(w, f.src, f.i + 1)
      PROVE  Toward(w, f.src, IF j = 0 THEN 1 ELSE j + 1)
  <2>1. /\ Len(w.way) \in Nat /\ w.store[1] \in 1 .. Len(w.way) /\ w.store[2] \in Nat \ {0}
        /\ w.store[2] \in Stores(w.way[w.store[1]]) /\ w.index \in Nat \ {0}
    BY WantedStore
  <2>2. PICK n \in 1 .. Len(w.way) :
          /\ w.way[n] = b /\ (n = Len(w.way) => f.i + 1 <= w.index)
          /\ w.store[1] < n \/ (w.store[1] = n /\ w.store[2] < f.i + 1)
    BY <1>4 DEF Toward
  <2> DEFINE bound == IF j = 0 THEN 1 ELSE j + 1
  <2>3. bound \in Nat /\ bound <= f.i + 1
    BY <1>1, <1>3
  <2>4. n = Len(w.way) => bound <= w.index
    BY <1>1, <2>1, <2>2, <2>3
  <2>5. w.store[1] < n \/ (w.store[1] = n /\ w.store[2] < bound)
    <3>1. SUFFICES ASSUME w.store[1] = n, w.store[2] < f.i + 1 PROVE w.store[2] < bound
      BY <2>2
    <3>2. w.store[2] \in W
      BY <2>1, <2>2, <3>1
    <3> DEFINE k == w.store[2]
    <3> HIDE DEF k, W
    <3>3. k \in Nat \ {0} /\ k \in W /\ k < f.i + 1
      BY <2>1, <3>1, <3>2 DEF k
    <3>4. k <= f.i
      BY <1>1, <3>3
    <3>5. k <= j /\ j # 0
      BY <1>1, <1>3, <3>3, <3>4
    <3> QED BY <1>3, <3>3, <3>5 DEF k
  <2> HIDE DEF bound
  <2>6. Toward(w, f.src, bound)
    BY <1>4, <2>2, <2>4, <2>5 DEF Toward
  <2> QED BY <2>6 DEF bound
<1>5. ASSUME j = 0 PROVE HuntsOK(AllWanted, [f EXCEPT !.i = 0, !.pc = "preds"])
  <2>1. \A w \in AllWanted : f.src.kind = "slot" /\ Toward(w, f.src, f.i + 1) => Toward(w, f.src, 1)
    BY <1>4, <1>5
  <2> QED BY <2>1, MovedHunts
<1>6. ASSUME j # 0 PROVE HuntsOK(AllWanted, [f EXCEPT !.i = j, !.pc = "store"])
  <2>1. \A w \in AllWanted :
          f.src.kind = "slot" /\ Toward(w, f.src, f.i + 1) => Toward(w, f.src, j + 1)
    BY <1>4, <1>6
  <2> QED BY <2>1, MovedHunts
<1> QED BY <1>5, <1>6

LEMMA PredsHunts ==
  ASSUME IsProgram(prog), IsAcyclic(prog), NEW f, FrameOK(prog, f), f.pc = "preds",
         HuntsOK(AllWanted, f),
         NEW new, new = Ordered({j \in DOMAIN prog.pred[f.src.node] :
                                   ~tbset_isset(f.src, prog.pred[f.src.node][j])}),
         ~(new # << >> /\ tbset_full(f.src)),
         NEW srcs, srcs = [j \in DOMAIN new |-> Onward(f.src, prog.pred[f.src.node][new[j]])]
  PROVE  HuntsOK(AllWanted, [f EXCEPT !.queue = f.queue \o srcs, !.pc = "pop"])
<1> DEFINE s == f.src
           g == [f EXCEPT !.queue = f.queue \o srcs, !.pc = "pop"]
<1>1. /\ f \in FrameType(prog) /\ f.queue \in Seq(EntryType(prog))
      /\ EntryOK(prog, f.tree, f.arg, s) /\ s \in EntryType(prog) /\ s.node \in DOMAIN prog.code
  BY FrameFacts
<1>2. /\ srcs \in Seq(EntryType(prog))
      /\ \A m \in Range(prog.pred[s.node]) \ s.seen :
           m \in DOMAIN prog.code /\ Onward(s, m) \in Range(srcs)
  BY PredsSources
<1>3. Range(f.queue \o srcs) = Range(f.queue) \cup Range(srcs)
  BY ONLY <1>1, <1>2, RangeConcatenation
<1>4. g.tree = f.tree /\ g.queue = f.queue \o srcs /\ g.pc = "pop"
  BY <1>1 DEF FrameType
<1> HIDE DEF g
<1>6. ASSUME NEW w \in AllWanted, NEW x \in 2 .. Len(f.tree), s.info = x, Toward(w, s, 1)
      PROVE  \E e \in Range(srcs) : e.info = x /\ Toward(w, e, e.index)
  <2>1. /\ Len(w.way) \in Nat /\ IsWay(w.way) /\ w.store[1] \in 1 .. Len(w.way)
        /\ w.store[2] \in Nat \ {0} /\ w.store[2] \in Stores(w.way[w.store[1]])
    BY WantedStore
  <2>2. PICK n \in 1 .. Len(w.way) :
          /\ w.way[n] = s.node
          /\ w.store[1] < n \/ (w.store[1] = n /\ w.store[2] < 1)
    BY <1>6 DEF Toward
  <2>3. n \in Nat /\ w.store[1] \in Nat \ {0} /\ w.store[1] < n
    <3>1. n \in 1 .. Len(w.way)
      OBVIOUS
    <3> QED BY ONLY <2>1, <2>2, <3>1
  <2>4. n \in 2 .. Len(w.way) /\ n - 1 \in 1 .. Len(w.way) /\ n - 1 # Len(w.way)
    <3> DEFINE l == Len(w.way)
               a == w.store[1]
    <3>1. l \in Nat /\ n \in 1 .. l /\ n \in Nat /\ a \in Nat \ {0} /\ a < n
      BY <2>1, <2>3, Zenon
    <3> HIDE DEF l, a
    <3>2. n \in 2 .. l /\ n - 1 \in 1 .. l /\ n - 1 # l
      BY ONLY <3>1
    <3> QED BY ONLY <3>2 DEF l
  <2> DEFINE m == w.way[n - 1]
  <2>5. m \in Range(prog.pred[s.node])
    BY <2>1, <2>2, <2>4 DEF IsWay
  <2>6. m \notin s.seen
    <3>1. m \in Ancestors(prog, s.node)
      BY <1>1, <2>5, AncestorsOfPred
    <3> QED BY <1>1, <3>1 DEF EntryOK
  <2> DEFINE e == Onward(s, m)
             end == Len(prog.code[m]) + 1
  <2>7. m \in DOMAIN prog.code /\ e \in Range(srcs)
    BY <1>2, <2>5, <2>6
  <2>8. /\ e.node = m /\ e.index = end /\ e.info = s.info /\ e.origin = s.origin
        /\ e.kind = s.kind /\ e.offset = s.offset
    BY <1>1, <2>7, OnwardIs, ZenonT(40)
  <2>9. w.store[1] < n - 1 \/ (w.store[1] = n - 1 /\ w.store[2] < end)
    <3>1. w.store[1] = n - 1 => w.store[2] \in DOMAIN prog.code[m]
      BY <2>1 DEF Stores
    <3>2. DOMAIN prog.code[m] = 1 .. Len(prog.code[m]) /\ Len(prog.code[m]) \in Nat
      BY <2>7, ProgramFacts
    <3>3. ASSUME w.store[1] = n - 1 PROVE w.store[2] < end
      <4> DEFINE k == w.store[2]
                 l == Len(prog.code[m])
      <4>1. k \in 1 .. l /\ l \in Nat
        BY <3>1, <3>2, <3>3, Zenon
      <4>2. end = l + 1
        OBVIOUS
      <4> HIDE DEF end, k, l
      <4>3. k < end
        BY ONLY <4>1, <4>2
      <4> QED BY ONLY <4>3 DEF k
    <3>4. w.store[1] < n - 1 \/ w.store[1] = n - 1
      <4> DEFINE a == w.store[1]
      <4>1. n \in Nat /\ a \in Nat \ {0} /\ a < n
        BY <2>3, Zenon
      <4> HIDE DEF a
      <4>2. a < n - 1 \/ a = n - 1
        BY ONLY <4>1
      <4> QED BY ONLY <4>2 DEF a
    <3> QED BY <3>3, <3>4
  <2> HIDE DEF e, end
  <2>10. Toward(w, e, e.index)
    <3>1. s.kind = "slot" /\ s.origin = 1 /\ w.address = {-s.offset}
      BY <1>6 DEF Toward
    <3>2. e.kind = "slot" /\ e.origin = 1 /\ w.address = {-e.offset}
      BY <2>8, <3>1
    <3> QED BY <2>4, <2>8, <2>9, <3>2 DEF Toward
  <2> QED BY <1>6, <2>7, <2>8, <2>10
<1>7. ASSUME NEW w \in AllWanted, NEW x \in 2 .. Len(f.tree), Chased(w, f, x) PROVE Chased(w, g, x)
  <2>1. CASE \E e \in Range(f.queue) : e.info = x /\ Toward(w, e, e.index)
    BY <1>3, <1>4, <2>1 DEF Chased
  <2>2. CASE ~\E e \in Range(f.queue) : e.info = x /\ Toward(w, e, e.index)
    <3>1. s.info = x /\ Toward(w, s, 1)
      BY <1>7, <2>2 DEF Chased
    <3>2. \E e \in Range(srcs) : e.info = x /\ Toward(w, e, e.index)
      BY <1>6, <3>1
    <3> QED BY <1>3, <1>4, <3>2 DEF Chased
  <2> QED BY <2>1, <2>2
<1>8. HuntsOK(AllWanted, g)
  BY <1>4, <1>7, HuntsKept
<1> QED BY <1>8 DEF g

(* A load in the tree has its address as operand 1.                        *)
LEMMA LoadHasAddress ==
  ASSUME IsProgram(prog), NEW tree, TreeOK(prog, tree), NEW x \in DOMAIN tree,
         prog.code[tree[x].node][tree[x].index].op = "ld"
  PROVE  1 \in DOMAIN tree[x].children
<1> DEFINE inst == prog.code[tree[x].node][tree[x].index]
<1>1. /\ tree[x].node \in DOMAIN prog.code /\ tree[x].index \in DOMAIN prog.code[tree[x].node]
      /\ DOMAIN tree[x].children = DOMAIN InstOf(prog, tree[x]).in
  BY TreeFacts
<1>2. InstOf(prog, tree[x]) = inst
  BY DEF InstOf
<1>3. HasOperands(inst) /\ Len(inst.in) \in Nat /\ DOMAIN inst.in = 1 .. Len(inst.in)
  BY <1>1, InstructionFacts
<1>4. inst.op = "ld"
  OBVIOUS
<1> HIDE DEF inst
<1>5. Len(inst.in) >= 1
  BY <1>3, <1>4 DEF HasOperands
<1>6. 1 \in DOMAIN inst.in
  BY <1>3, <1>5
<1> QED BY <1>1, <1>2, <1>6

(* A node is added: what was found, if it is a load that waits for its     *)
(* address, or if it is no load.                                           *)
LEMMA FoundHunts ==
  ASSUME IsProgram(prog), NEW f, FrameOK(prog, f), f.pc = "found", HuntsOK(AllWanted, f),
         Len(f.tree[f.src.info].children[f.src.origin]) # MaxBranches,
         NEW g, g.tree = FoundTree(f), Range(f.queue) \subseteq Range(g.queue),
         g.pc = "load" \/ Inst(f.src.node, f.i).op # "ld"
  PROVE  HuntsOK(AllWanted, g)
<1> DEFINE t == FoundTree(f)
           n == Len(f.tree) + 1
<1>1. /\ Len(t) = n /\ t[n] = FoundInfo(f) /\ DOMAIN t = DOMAIN f.tree \cup {n}
      /\ \A y \in DOMAIN f.tree :
           /\ t[y].node = f.tree[y].node /\ t[y].index = f.tree[y].index
           /\ \A l \in DOMAIN f.tree[y].children :
                Branches(f.tree, y, l) \subseteq Branches(t, y, l)
      /\ <<FoundInfo(f).node, FoundInfo(f).index>> \in Branches(t, f.src.info, f.src.origin)
  BY FoundTreeOK
<1>2. FoundInfo(f).node = f.src.node /\ FoundInfo(f).index = f.i
  BY FoundNode
<1>3. TreeOK(prog, f.tree) /\ Len(f.tree) \in Nat /\ DOMAIN f.tree = 1 .. Len(f.tree)
  BY FrameFacts, TreeFacts
<1> HIDE DEF t
<1>4. SUFFICES ASSUME NEW x \in 2 .. n, ~(g.pc = "load" /\ x = n), NEW w \in AllWanted,
                      w.way[Len(w.way)] = t[x].node, w.index = t[x].index
               PROVE  Target(w) \in Branches(t, x, 1) \/ Chased(w, g, x)
  BY <1>1 DEF HuntsOK, Traced, t
<1>5. prog.code[t[x].node][t[x].index].op = "ld"
  BY <1>4, WantedFacts
<1>6. x # n
  <2>1. SUFFICES ASSUME x = n PROVE FALSE
    OBVIOUS
  <2>2. prog.code[f.src.node][f.i].op = "ld"
    BY <1>1, <1>2, <1>5, <2>1
  <2> QED BY <1>4, <2>1, <2>2 DEF Inst
<1>7. x \in DOMAIN f.tree /\ x \in 2 .. Len(f.tree)
  BY <1>3, <1>6
<1>8. t[x].node = f.tree[x].node /\ t[x].index = f.tree[x].index
  BY <1>1, <1>7
<1>9. Branches(f.tree, x, 1) \subseteq Branches(t, x, 1)
  <2>1. 1 \in DOMAIN f.tree[x].children
    BY <1>3, <1>5, <1>7, <1>8, LoadHasAddress
  <2> QED BY <1>1, <1>7, <2>1
<1>10. Target(w) \in Branches(f.tree, x, 1) \/ Chased(w, f, x)
  <2>1. f.pc # "load"
    OBVIOUS
  <2> QED BY <1>4, <1>7, <1>8, <2>1 DEF HuntsOK, Traced
<1>11. ASSUME Chased(w, f, x) PROVE Target(w) \in Branches(t, x, 1) \/ Chased(w, g, x)
  <2>1. CASE \E e \in Range(f.queue) : e.info = x /\ Toward(w, e, e.index)
    BY <2>1 DEF Chased
  <2>2. CASE ~\E e \in Range(f.queue) : e.info = x /\ Toward(w, e, e.index)
    <3>1. f.src.info = x /\ f.src.origin = 1 /\ Target(w) = <<f.src.node, f.i>>
      BY <1>11, <2>2 DEF Chased, Reached
    <3> QED BY <1>1, <1>2, <3>1
  <2> QED BY <2>1, <2>2
<1> QED BY <1>9, <1>10, <1>11

-----------------------------------------------------------------------------
(* The address of the instruction that the caller waits at, and its fold.  *)
LEMMA ReturnedExact ==
  ASSUME Inv, Kin, Returning, Len(frames) > 1, Acyclic, Plain, Regular,
         NEW p, IsRoute(p), p[Len(p)] = caller.src.node
  PROVE  LET A == Address(p, Len(p), caller.i)
         IN  A # {} \/ (folded.valid /\ folded.value # 0) => folded.valid /\ A = {-folded.value}
<1> DEFINE tree == top.tree
           arg == top.arg
<1>1. /\ IsProgram(prog) /\ TreeOK(prog, tree) /\ FullTree(tree)
      /\ arg \in DOMAIN tree[1].children /\ arg = AddressArg(InstOf(prog, tree[1]))
      /\ InstOf(prog, tree[1]).op \in {"ld", "st"}
      /\ tree[1].node = caller.src.node /\ tree[1].index = caller.i
      /\ Reaching(prog, tree[1].node, tree[1].index, Operand(tree, 1, arg), {})
           \subseteq Branches(tree, 1, arg)
  BY ReturnedTree
<1>2. folded = fold_ld_st_stack_pointer(prog.code, tree, arg)
  BY DEF folded
<1> HIDE DEF tree, arg
<1>3. LET o == fold_ld_st_stack_pointer(prog.code, tree, arg)
          A == Address(p, Len(p), tree[1].index)
      IN  A # {} \/ (o.valid /\ o.value # 0) => o.valid /\ A = {-o.value}
  BY <1>1, AddressExact
<1> QED BY <1>1, <1>2, <1>3

LEMMA WantedAddress ==
  ASSUME IsProgram(prog), Acyclic, Regular, NEW w \in AllWanted
  PROVE  /\ w.address = Address(w.way, Len(w.way), w.index) /\ w.address # {} /\ w.address # {0}
         /\ w.address = Address(w.way, w.store[1], w.store[2])
<1> DEFINE p == w.way
           i == w.index
<1>1. /\ IsRoute(p) /\ p[Len(p)] \in Blocks /\ i \in DOMAIN prog.code[p[Len(p)]]
      /\ prog.code[p[Len(p)]][i].op = "ld"
      /\ w.address = Address(p, Len(p), i) /\ w.store \in LastStores(p, i)
  BY WantedFacts
<1> HIDE DEF p, i
<1>2. IsWay(p)
  BY <1>1 DEF IsRoute
<1>3. /\ Address(p, Len(p), i) # {}
      /\ Address(p, w.store[1], w.store[2]) = Address(p, Len(p), i)
  BY <1>1, <1>2, LastStoreFacts
<1>4. Address(p, Len(p), i) \in Addresses(p[Len(p)], i)
  BY <1>1, RouteIsPath DEF Addresses
<1>5. {0} \notin Addresses(p[Len(p)], i)
  BY <1>1 DEF Regular, Inst
<1> QED BY <1>1, <1>3, <1>4, <1>5 DEF p, i

(* An entry that stops at a store to its offset has reached what is wanted *)
(* of it, and one that goes on from another store has not.                 *)
LEMMA StoreHunted ==
  ASSUME Inv, Kin, Returning, Len(frames) > 1, Acyclic, Plain, Regular, caller.pc = "store",
         NEW w \in AllWanted, Toward(w, caller.src, caller.i + 1)
  PROVE  IF folded.valid /\ folded.value = caller.src.offset
         THEN caller.src.origin = 1 /\ Target(w) = <<caller.src.node, caller.i>>
         ELSE Toward(w, caller.src, caller.i)
<1> DEFINE s == caller.src
           i == caller.i
           q == w.store
           p == w.way
           last == Len(p)
<1>1. IsProgram(prog) /\ FrameOK(prog, caller)
  BY TopIs
<1>2. /\ i \in Nat /\ s \in EntryType(prog) /\ Len(prog.code[s.node]) \in Nat
      /\ DOMAIN prog.code[s.node] = 1 .. Len(prog.code[s.node])
  BY <1>1, FrameFacts
<1>3. /\ i \in 0 .. Len(prog.code[s.node]) /\ i > 0 /\ s.kind = "slot"
      /\ prog.code[s.node][i].op = "st"
  BY <1>1 DEF FrameOK, PlaceOK
<1>4. i \in DOMAIN prog.code[s.node] /\ s.offset \in Nat
  BY <1>2, <1>3 DEF EntryType
<1>5. /\ last \in Nat /\ IsWay(p) /\ IsRoute(p) /\ q[1] \in 1 .. last /\ q[2] \in Nat \ {0}
      /\ w.index \in Nat \ {0} /\ w.index \in DOMAIN prog.code[p[last]]
      /\ q \in LastStores(p, w.index)
  BY <1>1, WantedStore, WantedFacts
<1>6. /\ w.address = Address(p, last, w.index) /\ w.address # {} /\ w.address # {0}
      /\ w.address = Address(p, q[1], q[2])
  BY <1>1, WantedAddress
<1>7. s.origin = 1 /\ w.address = {-s.offset}
  BY DEF Toward
<1>8. PICK n \in 1 .. last :
        /\ p[n] = s.node /\ (n = last => i + 1 <= w.index)
        /\ q[1] < n \/ (q[1] = n /\ q[2] < i + 1)
  BY DEF Toward
<1> DEFINE A == Address(p, n, i)
<1> HIDE DEF i, s, q, p, last
<1>9. A # {} \/ (folded.valid /\ folded.value # 0) => folded.valid /\ A = {-folded.value}
  <2> DEFINE r == SubSeq(p, 1, n)
  <2>1. /\ IsRoute(r) /\ Len(r) = n /\ r[n] = p[n] /\ \A l : Address(r, n, l) = Address(p, n, l)
    BY <1>1, <1>5, <1>8, PrefixRoute DEF last
  <2> HIDE DEF r
  <2>2. r[Len(r)] = caller.src.node /\ Address(r, Len(r), caller.i) = A
    BY <1>8, <2>1 DEF s, i
  <2>3. Address(r, Len(r), caller.i) # {} \/ (folded.valid /\ folded.value # 0)
          => folded.valid /\ Address(r, Len(r), caller.i) = {-folded.value}
    BY <2>1, <2>2, ReturnedExact
  <2> QED BY <2>2, <2>3
<1>10. /\ n \in Nat /\ q[1] \in Nat
  BY <1>5, <1>8
<1> HIDE DEF A
<1>11. CASE folded.valid /\ folded.value = s.offset
  <2>1. folded.value # 0
    <3>1. SUFFICES ASSUME folded.value = 0 PROVE w.address = {0}
      BY <1>6
    <3> DEFINE e == -s.offset
    <3>2. s.offset <= 0 /\ s.offset >= 0 /\ s.offset \in Int
      BY <1>4, <1>11, <3>1
    <3>3. e \in Int /\ e <= 0 /\ e >= 0
      BY <3>2
    <3> HIDE DEF e
    <3>4. e = 0
      BY <3>3
    <3> QED BY <1>7, <3>4 DEF e
  <2>2. A = w.address
    BY <1>7, <1>9, <1>11, <2>1
  <2>3. ~Earlier(q, <<n, i>>)
    <3>1. n = last => i < w.index
      BY <1>2, <1>5, <1>8
    <3>2. Address(p, n, i) = Address(p, last, w.index) /\ n \in 1 .. Len(p)
      BY <1>6, <1>8, <2>2 DEF A, last
    <3>3. i \in DOMAIN prog.code[p[n]] /\ prog.code[p[n]][i].op = "st"
      BY <1>3, <1>4, <1>8
    <3>4. \A m \in 1 .. Len(p) : \A j \in DOMAIN prog.code[p[m]] :
              /\ m = Len(p) => j < w.index
              /\ prog.code[p[m]][j].op = "st" /\ Address(p, m, j) = Address(p, Len(p), w.index)
              => ~Earlier(q, <<m, j>>)
      <4>1. w.index \in DOMAIN prog.code[p[Len(p)]]
        BY <1>5 DEF last
      <4> QED BY <1>1, <1>5, <4>1, LastStoreFacts
    <3> QED BY <3>1, <3>2, <3>3, <3>4 DEF last
  <2>4. ~(q[1] < n) /\ ~(q[1] = n /\ q[2] < i)
    BY <2>3 DEF Earlier
  <2>5. q[1] = n /\ q[2] = i
    <3>1. q[1] = n /\ q[2] < i + 1 /\ ~(q[2] < i)
      BY <1>8, <2>4
    <3> QED BY <1>2, <1>5, <3>1
  <2>6. Target(w) = <<s.node, i>>
    BY <1>8, <2>5 DEF Target, p, q
  <2> QED BY <1>7, <1>11, <2>6 DEF s, i
<1>12. CASE ~(folded.valid /\ folded.value = s.offset)
  <2>1. ~(q[1] = n /\ q[2] = i)
    <3>1. SUFFICES ASSUME q[1] = n, q[2] = i PROVE FALSE
      OBVIOUS
    <3>2. A = w.address
      BY <1>6, <3>1 DEF A
    <3>3. folded.valid /\ {-s.offset} = {-folded.value}
      BY <1>6, <1>7, <1>9, <3>2
    <3> DEFINE v == folded.value
               o == s.offset
    <3>4. -o = -v /\ v \in Nat /\ o \in Nat
      BY <1>4, <3>3, FoldedTyped
    <3> HIDE DEF v, o
    <3>5. v = o
      BY <3>4
    <3> QED BY <1>12, <3>3, <3>5 DEF v, o
  <2>2. q[1] < n \/ (q[1] = n /\ q[2] < i)
    <3>1. CASE q[1] < n
      BY <3>1
    <3>2. CASE ~(q[1] < n)
      <4>1. q[1] = n /\ q[2] < i + 1 /\ q[2] # i
        BY <1>8, <2>1, <3>2
      <4> QED BY <1>2, <1>5, <4>1
    <3> QED BY <3>1, <3>2
  <2>3. n = last => i <= w.index
    BY <1>2, <1>5, <1>8
  <2>4. Toward(w, s, i)
    BY <1>3, <1>7, <1>8, <2>2, <2>3 DEF Toward, p, q, last
  <2> QED BY <1>12, <2>4 DEF s, i
<1> QED BY <1>11, <1>12 DEF s

LEMMA ReturnToStoreHunts ==
  ASSUME Inv, Kin, Returning, Len(frames) > 1, Acyclic, Plain, Regular, caller.pc = "store",
         HuntsOK(AllWanted, caller)
  PROVE  HuntsOK(AllWanted,
                 IF folded.valid /\ folded.value = caller.src.offset
                 THEN [caller EXCEPT !.pc = "found"]
                 ELSE [caller EXCEPT !.i = @ - 1, !.pc = "scan"])
<1> DEFINE f == caller
           s == f.src
           hit == folded.valid /\ folded.value = s.offset
<1>1. IsProgram(prog) /\ FrameOK(prog, f) /\ f \in FrameType(prog) /\ f.i \in Nat
  BY TopIs, FrameFacts
<1>2. \A w \in AllWanted : Toward(w, s, f.i + 1) =>
        IF hit THEN s.origin = 1 /\ Target(w) = <<s.node, f.i>> ELSE Toward(w, s, f.i)
  BY StoreHunted
<1>3. f.pc \in {"scan", "store"} /\ HuntsOK(AllWanted, f)
  OBVIOUS
<1>4. (f.i - 1) + 1 = f.i
  BY <1>1
<1> HIDE DEF f, hit
<1>5. ASSUME hit PROVE HuntsOK(AllWanted, [f EXCEPT !.pc = "found"])
  <2> DEFINE i == f.i
             g == [f EXCEPT !.i = i, !.pc = "found"]
  <2>1. g = [f EXCEPT !.pc = "found"] /\ g.src = s /\ g.i = i
    BY <1>1 DEF FrameType
  <2> HIDE DEF i
  <2>2. \A w \in AllWanted : s.kind = "slot" /\ Toward(w, s, f.i + 1) => Reached(w, g)
    <3> HIDE DEF g
    <3> QED BY <1>2, <1>5, <2>1 DEF Reached, i
  <2>3. HuntsOK(AllWanted, g)
    BY <1>1, <1>3, <2>2, MovedHunts
  <2> QED BY <2>1, <2>3
<1>6. ASSUME ~hit PROVE HuntsOK(AllWanted, [f EXCEPT !.i = @ - 1, !.pc = "scan"])
  <2> DEFINE i == f.i - 1
  <2>1. \A w \in AllWanted : s.kind = "slot" /\ Toward(w, s, f.i + 1) => Toward(w, s, i + 1)
    BY <1>2, <1>4, <1>6
  <2> HIDE DEF i
  <2>2. HuntsOK(AllWanted, [f EXCEPT !.i = i, !.pc = "scan"])
    BY <1>1, <1>3, <2>1, MovedHunts
  <2> QED BY <2>2 DEF i
<1> QED BY <1>5, <1>6 DEF f, hit

(* The load is given the slot that its address folds to: a way to all the  *)
(* stores that are wanted of it.                                           *)
LEMMA ReturnToLoadHunts ==
  ASSUME Inv, Kin, Returning, Len(frames) > 1, Acyclic, Plain, Regular, caller.pc = "load",
         HuntsOK(AllWanted, caller),
         NEW queue, Range(caller.queue) \subseteq Range(queue),
         folded.valid => SlotSrc(caller, folded.value) \in Range(queue)
  PROVE  HuntsOK(AllWanted, [caller EXCEPT !.queue = queue, !.pc = "pop"])
<1> DEFINE f == caller
           g == [f EXCEPT !.queue = queue, !.pc = "pop"]
           n == Len(f.tree)
           slot == SlotSrc(f, folded.value)
<1>1. IsProgram(prog) /\ FrameOK(prog, f) /\ f \in FrameType(prog) /\ f.pc = "load"
  BY TopIs, FrameFacts
<1>2. g.tree = f.tree /\ g.queue = queue /\ g.pc = "pop"
  BY <1>1 DEF FrameType
<1>3. n \in Nat /\ f.tree[n].node = f.src.node /\ f.tree[n].index = f.i
  BY <1>1, LoadFacts
<1>4. /\ slot.node = f.src.node /\ slot.index = f.i /\ slot.info = n /\ slot.origin = 1
      /\ slot.kind = "slot" /\ slot.offset = folded.value
  BY DEF SlotSrc
<1>5. Range(f.queue) \subseteq Range(queue) /\ (folded.valid => slot \in Range(queue))
  OBVIOUS
<1> HIDE DEF g, slot
<1>6. SUFFICES ASSUME NEW x \in 2 .. n, NEW w \in AllWanted,
                      w.way[Len(w.way)] = f.tree[x].node, w.index = f.tree[x].index
               PROVE  Target(w) \in Branches(f.tree, x, 1) \/ Chased(w, g, x)
  BY <1>2 DEF HuntsOK, Traced, g
<1>7. CASE x # n
  <2>1. Target(w) \in Branches(f.tree, x, 1) \/ Chased(w, f, x)
    <3>1. HuntsOK(AllWanted, f)
      OBVIOUS
    <3> QED BY <1>6, <1>7, <3>1 DEF HuntsOK, Traced
  <2>2. Chased(w, f, x) => \E e \in Range(f.queue) : e.info = x /\ Toward(w, e, e.index)
    BY <1>1 DEF Chased
  <2>3. (\E e \in Range(queue) : e.info = x /\ Toward(w, e, e.index)) => Chased(w, g, x)
    BY <1>2 DEF Chased
  <2> QED BY <1>5, <2>1, <2>2, <2>3
<1>8. CASE x = n
  <2> DEFINE p == w.way
             last == Len(p)
             q == w.store
  <2>1. /\ last \in Nat /\ IsWay(p) /\ IsRoute(p) /\ q[1] \in 1 .. last /\ q[2] \in Nat \ {0}
        /\ (q[1] = last => q[2] < w.index) /\ w.index \in Nat \ {0}
    BY <1>1, WantedStore, WantedFacts
  <2>2. w.address = Address(p, last, w.index) /\ w.address # {}
    BY <1>1, WantedAddress
  <2>3. p[last] = f.src.node /\ w.index = f.i
    BY <1>3, <1>6, <1>8
  <2> HIDE DEF p, q
  <2>4. folded.valid /\ w.address = {-folded.value}
    <3>1. Address(p, Len(p), caller.i) # {} \/ (folded.valid /\ folded.value # 0)
            => folded.valid /\ Address(p, Len(p), caller.i) = {-folded.value}
      BY <2>1, <2>3, ReturnedExact
    <3> QED BY <2>2, <2>3, <3>1
  <2>5. last \in 1 .. last /\ (q[1] < last \/ (q[1] = last /\ q[2] < f.i))
    BY <2>1, <2>3
  <2> HIDE DEF last
  <2>6. Toward(w, slot, slot.index)
    <3>1. slot.kind = "slot" /\ slot.origin = 1 /\ w.address = {-slot.offset}
      BY <1>4, <2>4
    <3>2. /\ p[last] = slot.node /\ (last = last => slot.index <= w.index)
          /\ q[1] < last \/ (q[1] = last /\ q[2] < slot.index)
      BY <1>4, <2>1, <2>3, <2>5
    <3> QED BY <2>5, <3>1, <3>2 DEF Toward, p, q, last
  <2>7. slot \in Range(g.queue) /\ slot.info = x
    BY <1>2, <1>4, <1>5, <1>8, <2>4
  <2>8. Chased(w, g, x)
    BY <2>6, <2>7 DEF Chased
  <2> QED BY <2>8
<1> QED BY <1>7, <1>8

-----------------------------------------------------------------------------
(* The invariant over all the calls.                                       *)

(* What there is to be found is the input's.                               *)
LEMMA SameInput ==
  ASSUME prog' = prog
  PROVE  /\ AllWanted' = AllWanted
         /\ Acyclic' <=> Acyclic
         /\ Plain' <=> Plain
         /\ Regular' <=> Regular
<1>1. Acyclic' <=> Acyclic
  BY DEF Acyclic, Blocks
<1>2. Plain' <=> Plain
  BY DEF Plain, Blocks, Inst
<1>3. Regular' <=> Regular
  BY DEF Regular, Blocks, Inst, Paths, Addresses, Address, Values, Run, Within, Execute, Result,
         OnEntry
<1>4. AllWanted' = AllWanted
  BY DEF AllWanted, Wanted, LastStores, Passed, Blocks, Inst, Paths, Addresses, Address, Values,
         Run, Within, Execute, Result, OnEntry
<1> QED BY <1>1, <1>2, <1>3, <1>4

HuntsAll(W, calls) == \A d \in 1 .. Len(calls) : HuntsOK(W, calls[d])

LEMMA HuntsNew ==
  ASSUME NEW W, NEW f, Len(f.tree) = 1
  PROVE  HuntsOK(W, f)
BY DEF HuntsOK

LEMMA HuntsBecome ==
  ASSUME NEW W, NEW S, NEW s \in Seq(S), Len(s) >= 1, HuntsAll(W, s), NEW g, HuntsOK(W, g)
  PROVE  HuntsAll(W, Front(s) \o <<g>>)
<1> DEFINE r == Front(s) \o <<g>>
           n == Len(s)
<1>1. n \in Nat /\ Len(r) = n /\ r[n] = g /\ \A d \in 1 .. (n - 1) : r[d] = s[d]
  BY BecomeIs, LenProperties
<1>2. \A d \in 1 .. n : HuntsOK(W, s[d])
  BY DEF HuntsAll
<1> HIDE DEF r, n
<1>3. ASSUME NEW d \in 1 .. n PROVE HuntsOK(W, r[d])
  <2>1. d = n \/ d \in 1 .. (n - 1)
    BY <1>1
  <2> QED BY <1>1, <1>2, <2>1
<1> QED BY <1>1, <1>3 DEF HuntsAll, r

LEMMA HuntsCall ==
  ASSUME NEW W, NEW S, NEW s \in Seq(S), Len(s) >= 1, HuntsAll(W, s),
         NEW g, HuntsOK(W, g), NEW h, HuntsOK(W, h)
  PROVE  HuntsAll(W, Front(s) \o <<g, h>>)
<1> DEFINE r == Front(s) \o <<g, h>>
           n == Len(s)
<1>1. /\ n \in Nat /\ Len(r) = n + 1 /\ r[n] = g /\ r[n + 1] = h
      /\ \A d \in 1 .. (n - 1) : r[d] = s[d]
  BY CallIs, LenProperties
<1>2. \A d \in 1 .. n : HuntsOK(W, s[d])
  BY DEF HuntsAll
<1> HIDE DEF r, n
<1>3. ASSUME NEW d \in 1 .. (n + 1) PROVE HuntsOK(W, r[d])
  <2>1. d = n \/ d = n + 1 \/ d \in 1 .. (n - 1)
    BY <1>1
  <2>2. d \in 1 .. (n - 1) => d \in 1 .. n
    BY <1>1
  <2> QED BY <1>1, <1>2, <2>1, <2>2
<1> QED BY <1>1, <1>3 DEF HuntsAll, r

LEMMA HuntsResume ==
  ASSUME NEW W, NEW S, NEW s \in Seq(S), Len(s) > 1, HuntsAll(W, s), NEW g, HuntsOK(W, g)
  PROVE  HuntsAll(W, Front(Front(s)) \o <<g>>)
<1> DEFINE r == Front(Front(s)) \o <<g>>
           n == Len(s)
<1>1. n \in Nat /\ Len(r) = n - 1 /\ r[n - 1] = g /\ \A d \in 1 .. (n - 2) : r[d] = s[d]
  BY ResumeIs, LenProperties
<1>2. \A d \in 1 .. n : HuntsOK(W, s[d])
  BY DEF HuntsAll
<1> HIDE DEF r, n
<1>3. ASSUME NEW d \in 1 .. (n - 1) PROVE HuntsOK(W, r[d])
  <2>1. d = n - 1 \/ d \in 1 .. (n - 2)
    BY <1>1
  <2>2. d \in 1 .. n
    BY <1>1
  <2> QED BY <1>1, <1>2, <2>1, <2>2
<1> QED BY <1>1, <1>3 DEF HuntsAll, r

-----------------------------------------------------------------------------
(* A step keeps the invariant if it does where there is anything to find.  *)
LEMMA HuntsGo ==
  ASSUME Hunts, prog' = prog, NEW calls, frames' = calls,
         Acyclic /\ Plain /\ Regular /\ HuntsAll(AllWanted, frames) => HuntsAll(AllWanted, calls)
  PROVE  Hunts'
<1>1. /\ AllWanted' = AllWanted /\ (Acyclic' <=> Acyclic) /\ (Plain' <=> Plain)
      /\ (Regular' <=> Regular)
  BY SameInput
<1>2. Acyclic /\ Plain /\ Regular => HuntsAll(AllWanted, calls)
  BY DEF Hunts, HuntsAll
<1>3. Acyclic' /\ Plain' /\ Regular' => \A d \in 1 .. Len(frames') : HuntsOK(AllWanted', frames'[d])
  BY <1>1, <1>2 DEF HuntsAll
<1> QED BY <1>3 DEF Hunts

LEMMA HuntsStays == ASSUME Hunts, prog' = prog, frames' = frames PROVE Hunts'
<1> DEFINE calls == frames
<1>1. frames' = calls /\ (HuntsAll(AllWanted, frames) => HuntsAll(AllWanted, calls))
  OBVIOUS
<1> HIDE DEF calls
<1> QED BY <1>1, HuntsGo

LEMMA HuntsTop ==
  ASSUME Inv, HuntsAll(AllWanted, frames)
  PROVE  /\ frames \in Seq(FrameType(prog)) /\ Len(frames) >= 1 /\ HuntsOK(AllWanted, top)
         /\ Len(frames) > 1 => HuntsOK(AllWanted, caller)
<1>1. /\ frames \in Seq(FrameType(prog)) /\ Len(frames) \in 1 .. MaxCalls
      /\ Len(frames) \in Nat /\ top = frames[Len(frames)]
  BY TopIs
<1>2. Len(frames) >= 1 /\ Len(frames) \in 1 .. Len(frames)
  BY <1>1, RegSrcAssumption
<1>3. Len(frames) > 1 => Len(frames) - 1 \in 1 .. Len(frames)
  BY <1>1
<1> QED BY <1>1, <1>2, <1>3 DEF HuntsAll, caller

LEMMA HuntsBecomes ==
  ASSUME Inv, Hunts, prog' = prog, NEW g, frames' = Front(frames) \o <<g>>,
         Acyclic /\ Plain /\ Regular /\ HuntsOK(AllWanted, top) => HuntsOK(AllWanted, g)
  PROVE  Hunts'
<1> DEFINE calls == Front(frames) \o <<g>>
<1>1. ASSUME Acyclic, Plain, Regular, HuntsAll(AllWanted, frames) PROVE HuntsAll(AllWanted, calls)
  <2>1. frames \in Seq(FrameType(prog)) /\ Len(frames) >= 1 /\ HuntsOK(AllWanted, top)
    BY <1>1, HuntsTop
  <2>2. HuntsOK(AllWanted, g)
    BY <1>1, <2>1
  <2> QED BY ONLY <1>1, <2>1, <2>2, HuntsBecome
<1> HIDE DEF calls
<1>2. frames' = calls
  BY DEF calls
<1> QED BY <1>1, <1>2, HuntsGo

LEMMA HuntsCalls ==
  ASSUME Inv, Hunts, prog' = prog, NEW g, NEW h, frames' = Front(frames) \o <<g, h>>,
         Len(h.tree) = 1,
         Acyclic /\ Plain /\ Regular /\ HuntsOK(AllWanted, top) => HuntsOK(AllWanted, g)
  PROVE  Hunts'
<1> DEFINE calls == Front(frames) \o <<g, h>>
<1>1. ASSUME Acyclic, Plain, Regular, HuntsAll(AllWanted, frames) PROVE HuntsAll(AllWanted, calls)
  <2>1. frames \in Seq(FrameType(prog)) /\ Len(frames) >= 1 /\ HuntsOK(AllWanted, top)
    BY <1>1, HuntsTop
  <2>2. HuntsOK(AllWanted, g) /\ HuntsOK(AllWanted, h)
    BY <1>1, <2>1, HuntsNew
  <2> QED BY ONLY <1>1, <2>1, <2>2, HuntsCall
<1> HIDE DEF calls
<1>2. frames' = calls
  BY DEF calls
<1> QED BY <1>1, <1>2, HuntsGo

LEMMA HuntsResumes ==
  ASSUME Inv, Hunts, Len(frames) > 1, prog' = prog, NEW g,
         frames' = Front(Front(frames)) \o <<g>>,
         Acyclic /\ Plain /\ Regular /\ HuntsOK(AllWanted, caller) => HuntsOK(AllWanted, g)
  PROVE  Hunts'
<1> DEFINE calls == Front(Front(frames)) \o <<g>>
<1>1. ASSUME Acyclic, Plain, Regular, HuntsAll(AllWanted, frames) PROVE HuntsAll(AllWanted, calls)
  <2>1. frames \in Seq(FrameType(prog)) /\ Len(frames) > 1 /\ HuntsOK(AllWanted, caller)
    BY <1>1, HuntsTop
  <2>2. HuntsOK(AllWanted, g)
    BY <1>1, <2>1
  <2> QED BY ONLY <1>1, <2>1, <2>2, HuntsResume
<1> HIDE DEF calls
<1>2. frames' = calls
  BY DEF calls
<1> QED BY <1>1, <1>2, HuntsGo

LEMMA HuntsInit == Init => Hunts
<1> SUFFICES ASSUME Init PROVE Hunts
  OBVIOUS
<1>1. PICK r \in prog.roots : frames = <<Frame(r[1], r[2], r[3])>>
  BY DEF Init
<1> DEFINE g == Frame(r[1], r[2], r[3])
<1>2. Len(g.tree) = 1
  BY FrameIs
<1> HIDE DEF g
<1>3. frames = <<g>> /\ Len(frames) = 1
  BY <1>1 DEF g
<1>4. \A d \in 1 .. Len(frames) : frames[d] = g
  BY <1>3
<1> QED BY <1>2, <1>4, HuntsNew DEF Hunts

LEMMA HuntsPop == ASSUME Inv, Hunts, Pop PROVE Hunts'
<1> DEFINE f == top
           g == [f EXCEPT !.src = Head(f.queue), !.queue = Tail(f.queue),
                          !.i = Head(f.queue).index - 1, !.pc = "scan"]
<1>1. f.pc = "pop" /\ f.queue # << >> /\ frames' = Front(frames) \o <<g>> /\ prog' = prog
  BY DEF Pop, At, Become
<1>2. IsProgram(prog) /\ FrameOK(prog, f)
  BY TopIs
<1> HIDE DEF f
<1>3. HuntsOK(AllWanted, f) => HuntsOK(AllWanted, g)
  BY <1>1, <1>2, PopHunts
<1> HIDE DEF g
<1> QED BY <1>1, <1>3, HuntsBecomes DEF f

LEMMA HuntsScanTemp == ASSUME Inv, Hunts, ScanTemp PROVE Hunts'
<1> DEFINE f == top
           j == LastAt(Writers(f.src.node, f.src.temp), f.i)
           pc == IF j = 0 THEN "preds" ELSE "found"
           g == [f EXCEPT !.i = j, !.pc = pc]
<1>1. /\ f.pc = "scan" /\ f.src.kind = "temp"
      /\ frames' = Front(frames) \o <<g>> /\ prog' = prog
  BY DEF ScanTemp, At, Become
<1>2. IsProgram(prog) /\ FrameOK(prog, f) /\ pc \in {"preds", "found"}
  BY TopIs
<1> HIDE DEF f, j, pc
<1>3. HuntsOK(AllWanted, f) => HuntsOK(AllWanted, g)
  BY <1>1, <1>2, ScanTempHunts
<1> HIDE DEF g
<1> QED BY <1>1, <1>3, HuntsBecomes DEF f

LEMMA HuntsScanSlot == ASSUME Inv, Hunts, ScanSlot PROVE Hunts'
<1> DEFINE f == top
           j == LastAt(Stores(f.src.node), f.i)
           b == f.src.node
           g == [f EXCEPT !.i = 0, !.pc = "preds"]
           c == [f EXCEPT !.i = j, !.pc = "store"]
           h == Frame(b, j, AddressArg(Inst(b, j)))
<1>1. /\ prog' = prog /\ f.pc = "scan" /\ f.src.kind = "slot"
      /\ j = 0 => frames' = Front(frames) \o <<g>>
      /\ j # 0 => frames' = frames \/ frames' = Front(frames) \o <<c, h>>
  BY DEF ScanSlot, At, Become, Call
<1>2. IsProgram(prog) /\ FrameOK(prog, f) /\ Len(h.tree) = 1
  BY TopIs, FrameIs
<1> HIDE DEF f, h
<1>3. HuntsOK(AllWanted, f) =>
        (j = 0 => HuntsOK(AllWanted, g)) /\ (j # 0 => HuntsOK(AllWanted, c))
  BY <1>1, <1>2, ScanSlotHunts
<1> HIDE DEF j, g, c
<1>4. CASE j = 0
  BY <1>1, <1>3, <1>4, HuntsBecomes DEF f
<1>5. CASE j # 0 /\ frames' = Front(frames) \o <<c, h>>
  BY <1>1, <1>2, <1>3, <1>5, HuntsCalls DEF f
<1>6. CASE frames' = frames
  BY <1>1, <1>6, HuntsStays
<1> QED BY <1>1, <1>4, <1>5, <1>6

LEMMA HuntsPreds == ASSUME Inv, Hunts, Preds PROVE Hunts'
<1> DEFINE f == top
           s == f.src
           pred == prog.pred[s.node]
           new == Ordered({j \in DOMAIN pred : ~tbset_isset(s, pred[j])})
           srcs == [j \in DOMAIN new |-> Onward(s, pred[new[j]])]
           g == [f EXCEPT !.queue = f.queue \o srcs, !.pc = "pop"]
<1>1. /\ prog' = prog /\ f.pc = "preds"
      /\ frames' # frames => frames' = Front(frames) \o <<g>> /\ ~(new # << >> /\ tbset_full(s))
  BY DEF Preds, At, Become, Push, Onward
<1>2. IsProgram(prog) /\ FrameOK(prog, f)
  BY TopIs
<1> HIDE DEF f
<1>3. ASSUME ~(new # << >> /\ tbset_full(s)), Acyclic, HuntsOK(AllWanted, f)
      PROVE  HuntsOK(AllWanted, g)
  <2>1. IsAcyclic(prog)
    BY <1>3 DEF Acyclic, IsAcyclic, Blocks
  <2> QED BY <1>1, <1>2, <1>3, <2>1, PredsHunts
<1> HIDE DEF g, srcs, new
<1>4. CASE frames' = frames
  BY <1>1, <1>4, HuntsStays
<1>5. CASE frames' # frames
  BY <1>1, <1>3, <1>5, HuntsBecomes DEF f
<1> QED BY <1>4, <1>5

LEMMA RangeGrows ==
  ASSUME NEW S, NEW q \in Seq(S), NEW T, NEW r \in Seq(T)
  PROVE  Range(q \o r) = Range(q) \cup Range(r) /\ q \o r \in Seq(S \cup T)
<1> DEFINE U == S \cup T
<1>1. S \subseteq U /\ T \subseteq U
  OBVIOUS
<1> HIDE DEF U
<1>2. q \in Seq(U) /\ r \in Seq(U)
  BY <1>1, SeqMonotonic
<1>3. Range(q \o r) = Range(q) \cup Range(r) /\ q \o r \in Seq(U)
  BY ONLY <1>2, RangeConcatenation, ConcatProperties
<1> QED BY <1>3 DEF U

LEMMA HuntsFound == ASSUME Inv, Hunts, Found PROVE Hunts'
<1> DEFINE f == top
           s == f.src
           x == Len(f.tree) + 1
           branches == f.tree[s.info].children[s.origin]
           frame == [f EXCEPT !.tree = FoundTree(f)]
           c == [frame EXCEPT !.pc = "load"]
           h == Frame(s.node, f.i, 1)
           srcs == Inputs(x, frame)
           g == [frame EXCEPT !.queue = frame.queue \o srcs, !.pc = "pop"]
           ld == Inst(s.node, f.i).op = "ld"
<1>1. /\ f.pc = "found" /\ prog' = prog
      /\ \/ frames' = frames
         \/ Len(branches) # MaxBranches /\ ld /\ frames' = Front(frames) \o <<c, h>>
         \/ /\ Len(branches) # MaxBranches /\ ~ld
            /\ Len(frame.queue) + Len(srcs) <= QueueLen /\ frames' = Front(frames) \o <<g>>
  <2>1. /\ f.pc = "found"
        /\ Len(branches) = MaxBranches =>
             status' = "overrun" /\ prog' = prog /\ frames' = frames
        /\ Len(branches) # MaxBranches /\ ld =>
             IF Len(frames) < MaxCalls
             THEN frames' = Front(frames) \o <<c, h>> /\ prog' = prog /\ status' = status
             ELSE frames' = frames /\ prog' = prog /\ status' = "exhausted"
        /\ Len(branches) # MaxBranches /\ ~ld =>
             IF Len(frame.queue) + Len(srcs) <= QueueLen
             THEN frames' = Front(frames) \o <<g>> /\ prog' = prog /\ status' = status
             ELSE frames' = frames /\ prog' = prog /\ status' = "aborted"
    BY FoundIs
  <2> HIDE DEF frame, f, h, s, x, branches, g, srcs, c, ld
  <2> QED BY <2>1
<1>2. /\ IsProgram(prog) /\ FrameOK(prog, f) /\ f \in FrameType(prog)
      /\ f.queue \in Seq(EntryType(prog)) /\ Len(h.tree) = 1
  BY TopIs, FrameFacts, FrameIs
<1> HIDE DEF f, h
<1>3. /\ c.tree = FoundTree(f) /\ c.queue = f.queue /\ c.pc = "load"
      /\ g.tree = FoundTree(f) /\ g.queue = f.queue \o srcs
  <2> HIDE DEF srcs
  <2> QED BY <1>2 DEF FrameType
<1> HIDE DEF c, g
<1>4. CASE frames' = frames
  BY <1>1, <1>4, HuntsStays
<1>5. CASE Len(branches) # MaxBranches /\ frames' = Front(frames) \o <<c, h>>
  <2>1. HuntsOK(AllWanted, f) => HuntsOK(AllWanted, c)
    BY <1>1, <1>2, <1>3, <1>5, FoundHunts
  <2> HIDE DEF branches, x
  <2> QED BY <1>1, <1>2, <1>5, <2>1, HuntsCalls DEF f
<1>6. CASE Len(branches) # MaxBranches /\ ~ld /\ frames' = Front(frames) \o <<g>>
  <2>1. frame.tree = FoundTree(f)
    BY <1>2 DEF FrameType
  <2>2. TreeOK(prog, FoundTree(f)) /\ x \in DOMAIN FoundTree(f)
    BY <1>1, <1>2, <1>6, FoundTreeOK
  <2> HIDE DEF frame, x
  <2>3. srcs \in Seq(Range(srcs))
    BY <1>2, <2>1, <2>2, InputsIs
  <2>4. Range(f.queue) \subseteq Range(g.queue)
    <3> DEFINE q == f.queue
    <3> HIDE DEF q, srcs
    <3>1. q \in Seq(EntryType(prog)) /\ srcs \in Seq(Range(srcs))
      BY <1>2, <2>3 DEF q
    <3>2. /\ Range(q \o srcs) = Range(q) \cup Range(srcs)
          /\ q \o srcs \in Seq(EntryType(prog) \cup Range(srcs))
      BY <3>1, RangeGrows
    <3> QED BY <1>3, <3>2 DEF q
  <2> HIDE DEF srcs
  <2>5. HuntsOK(AllWanted, f) => HuntsOK(AllWanted, g)
    BY <1>1, <1>2, <1>3, <1>6, <2>4, FoundHunts
  <2> HIDE DEF branches, ld
  <2> QED BY <1>1, <1>6, <2>5, HuntsBecomes DEF f
<1> QED BY <1>1, <1>4, <1>5, <1>6

LEMMA HuntsReturnToStore == ASSUME Inv, Kin, Hunts, ReturnToStore PROVE Hunts'
<1> DEFINE f == caller
           a == [f EXCEPT !.pc = "found"]
           b == [f EXCEPT !.i = @ - 1, !.pc = "scan"]
           g == IF folded.valid /\ folded.value = f.src.offset THEN a ELSE b
<1>1. /\ Returning /\ Len(frames) > 1 /\ f.pc = "store" /\ prog' = prog
      /\ frames' = Front(Front(frames)) \o <<g>>
  BY DEF ReturnToStore, Resume
<1>2. Acyclic /\ Plain /\ Regular /\ HuntsOK(AllWanted, caller) => HuntsOK(AllWanted, g)
  BY <1>1, ReturnToStoreHunts
<1> HIDE DEF g
<1> QED BY <1>1, <1>2, HuntsResumes

LEMMA HuntsReturnToLoad == ASSUME Inv, Kin, Hunts, ReturnToLoad PROVE Hunts'
<1> DEFINE f == caller
           x == Len(f.tree)
           slot == SlotSrc(f, folded.value)
           first == IF folded.valid THEN <<slot>> ELSE << >>
           srcs == first \o Inputs(x, f)
           queue == f.queue \o srcs
           g == [f EXCEPT !.queue = queue, !.pc = "pop"]
<1>1. /\ Returning /\ Len(frames) > 1 /\ f.pc = "load" /\ prog' = prog
      /\ frames' = frames \/ frames' = Front(Front(frames)) \o <<g>>
  BY DEF ReturnToLoad, Resume, SlotSrc
<1>2. IsProgram(prog) /\ FrameOK(prog, f)
  BY <1>1, TopIs
<1>3. f.queue \in Seq(EntryType(prog)) /\ TreeOK(prog, f.tree) /\ x \in DOMAIN f.tree
  BY <1>1, <1>2, FrameFacts, LoadFacts
<1> HIDE DEF f, x, slot
<1>4. first \in Seq({slot}) /\ (folded.valid => slot \in Range(first))
  <2>1. <<slot>> \in Seq({slot}) /\ << >> \in Seq({slot})
    OBVIOUS
  <2>2. slot \in Range(<<slot>>)
    <3>1. 1 \in DOMAIN <<slot>> /\ <<slot>>[1] = slot
      OBVIOUS
    <3> QED BY <3>1 DEF Range
  <2> QED BY <2>1, <2>2
<1>5. Inputs(x, f) \in Seq(Range(Inputs(x, f)))
  BY <1>2, <1>3, InputsIs
<1> HIDE DEF first
<1>6. /\ Range(srcs) = Range(first) \cup Range(Inputs(x, f))
      /\ srcs \in Seq({slot} \cup Range(Inputs(x, f)))
  BY <1>4, <1>5, RangeGrows
<1> HIDE DEF srcs
<1>7. Range(queue) = Range(f.queue) \cup Range(srcs)
  <2> DEFINE q == f.queue
             E == EntryType(prog)
             T == {slot} \cup Range(Inputs(x, f))
  <2> HIDE DEF q, E, T
  <2>1. q \in Seq(E) /\ srcs \in Seq(T)
    BY <1>3, <1>6 DEF q, E, T
  <2>2. Range(q \o srcs) = Range(q) \cup Range(srcs) /\ q \o srcs \in Seq(E \cup T)
    BY <2>1, RangeGrows
  <2> QED BY <2>2 DEF q
<1>8. Range(f.queue) \subseteq Range(queue) /\ (folded.valid => slot \in Range(queue))
  BY <1>4, <1>6, <1>7
<1> HIDE DEF queue
<1>9. Acyclic /\ Plain /\ Regular /\ HuntsOK(AllWanted, caller) => HuntsOK(AllWanted, g)
  BY <1>1, <1>8, ReturnToLoadHunts DEF f, slot
<1> HIDE DEF g
<1> QED BY <1>1, <1>9, HuntsResumes, HuntsStays DEF f

LEMMA HuntsNext == Inv /\ Kin /\ Hunts /\ [Next]_vars => Hunts'
<1> SUFFICES ASSUME Inv, Kin, Hunts, [Next]_vars PROVE Hunts'
  OBVIOUS
<1>1. CASE UNCHANGED vars
  BY <1>1, HuntsStays DEF vars
<1>2. CASE Finish
  BY <1>2, HuntsStays DEF Finish
<1> QED BY <1>1, <1>2, HuntsPop, HuntsScanTemp, HuntsScanSlot, HuntsFound, HuntsPreds,
           HuntsReturnToStore, HuntsReturnToLoad DEF Next

(* Without loops, and where all paths agree on an address: at every moment *)
(* the last store to the slot that a load in the tree reads is recorded,   *)
(* or there is an entry on the way back to it that has not passed it       *)
(* (analyze-reg-src.c:124-223, common.c:173-213).                          *)
THEOREM HuntsHold == Spec => []Hunts
<1>1. Init => Inv /\ Kin /\ Hunts
  BY InvInit, KinInit, HuntsInit
<1>2. (Inv /\ Kin /\ Hunts) /\ [Next]_vars => (Inv /\ Kin /\ Hunts)'
  BY InvNext, KinNext, HuntsNext
<1> QED BY <1>1, <1>2, PTL DEF Spec

LEMMA InvStoresFound == Inv /\ Hunts => StoresFound
<1> SUFFICES ASSUME Inv, Hunts, Returning, Acyclic, Plain, Regular,
                    NEW x \in 2 .. Len(top.tree),
                    Inst(top.tree[x].node, top.tree[x].index).op = "ld",
                    NEW p \in Paths(top.tree[x].node),
                    NEW q \in LastStores(p, top.tree[x].index)
             PROVE  <<p[q[1]], q[2]>> \in StoreBranches(top.tree, x, 1)
  BY DEF StoresFound, LastStores
<1> DEFINE f == top
           tree == f.tree
           b == tree[x].node
           i == tree[x].index
<1>1. IsProgram(prog) /\ FrameOK(prog, f) /\ HuntsAll(AllWanted, frames)
  BY TopIs DEF Hunts, HuntsAll
<1>2. TreeOK(prog, tree) /\ x \in DOMAIN tree /\ b \in Blocks /\ i \in DOMAIN prog.code[b]
  <2>1. TreeOK(prog, tree)
    BY <1>1, FrameFacts
  <2>2. Len(tree) \in Nat /\ DOMAIN tree = 1 .. Len(tree)
    BY <2>1, TreeFacts
  <2>3. x \in DOMAIN tree
    BY <2>2
  <2> HIDE DEF tree
  <2>4. b \in DOMAIN prog.code /\ i \in DOMAIN prog.code[b]
    BY <1>1, <2>1, <2>3, TreeFacts
  <2> QED BY <2>1, <2>3, <2>4 DEF Blocks
<1>3. HuntsOK(AllWanted, f) /\ f.pc = "pop" /\ f.queue = << >>
  BY <1>1, HuntsTop DEF Returning, At
<1> DEFINE w == [way |-> p, index |-> i, address |-> Address(p, Len(p), i), store |-> q]
<1>4. w \in AllWanted
  <2>1. w \in Wanted(b, i)
    BY DEF Wanted
  <2> HIDE DEF w
  <2>2. i \in {j \in DOMAIN prog.code[b] : Inst(b, j).op = "ld"}
    BY <1>2
  <2> HIDE DEF b, i
  <2> QED BY <1>2, <2>1, <2>2 DEF AllWanted
<1>5. w.way = p /\ w.index = i /\ w.store = q
  OBVIOUS
<1> HIDE DEF w
<1>6. IsRoute(p) /\ p[Len(p)] = b
  BY <1>1, <1>2, PathIsRoute
<1>7. Target(w) \in Branches(tree, x, 1) \/ Chased(w, f, x)
  BY <1>3, <1>4, <1>5, <1>6 DEF HuntsOK, Traced
<1>8. ~Chased(w, f, x)
  <2>1. Range(f.queue) = {}
    BY <1>3 DEF Range
  <2> QED BY <1>3, <2>1 DEF Chased
<1>9. Target(w) = <<p[q[1]], q[2]>>
  BY <1>5 DEF Target
<1>10. Inst(p[q[1]], q[2]).op = "st"
  BY DEF LastStores
<1> HIDE DEF f, tree
<1>11. <<p[q[1]], q[2]>> \in StoreBranches(tree, x, 1)
  <2> DEFINE m == <<p[q[1]], q[2]>>
  <2>1. m \in Branches(tree, x, 1) /\ Inst(m[1], m[2]).op = "st"
    BY <1>7, <1>8, <1>9, <1>10
  <2> HIDE DEF m
  <2> QED BY <2>1 DEF StoreBranches, TempBranches, m
<1> QED BY <1>11 DEF f, tree

(* Without loops, for a load from a known address, the last store to that  *)
(* address on every path to the load is among its sources once the search  *)
(* is done (analyze-reg-src.c:144-149 and 174-204).                        *)
THEOREM StoresAreFound == Spec => []StoresFound
<1>1. Inv /\ Hunts => StoresFound
  BY InvStoresFound
<1> QED BY <1>1, InvHolds, HuntsHold, PTL
=============================================================================
