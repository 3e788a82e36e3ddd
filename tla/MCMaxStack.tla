----------------------------- MODULE MCMaxStack -----------------------------
(***************************************************************************)
(* Instances of MaxStack for TLC.                                          *)
(***************************************************************************)
EXTENDS MaxStack, SequencesExt

Inst(op, off, clobbers) == [op |-> op, off |-> off, clobbers |-> clobbers]
Start  == Inst("other", 0, FALSE)         (* insn_start                    *)
Ld(o)  == Inst("ld", o, FALSE)
St(o)  == Inst("st", o, FALSE)
Helper(c) == Inst("helper", 0, c)
Jump(c)   == Inst("pc_write", 0, c)

(* Every graph over three blocks with at most two successors each, and     *)
(* bodies that store and load at different depths, call and jump.          *)
SuccLists == {s \in BoundedSeq(1 .. 3, 2) : \A i, j \in DOMAIN s : i < j => s[i] < s[j]}
Graphs == [1 .. 3 -> SuccLists]

Bodies == {
  << <<Start>>, <<Start, St(1)>>, <<Start, Ld(1), St(2)>> >>,
  << <<Start, Ld(2)>>, <<Start, Helper(FALSE)>>, <<Start, St(2)>> >>,
  << <<Start, St(1)>>, <<Start, Ld(2), Jump(FALSE)>>, <<Start, Jump(TRUE)>> >>,
  << <<Start, Ld(1), Ld(0)>>, <<Start, St(2), Helper(TRUE)>>, <<Start, Ld(2)>> >> }

SmallPrograms ==
  {[n |-> 3, succ |-> g, inst |-> b] : g \in Graphs, b \in Bodies}
    \cup {[n |-> 0, succ |-> << >>, inst |-> << >>]}

=============================================================================
