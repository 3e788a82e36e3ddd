------------------------------ MODULE Graphviz ------------------------------
(***************************************************************************)
(* What becomes of the tree of sources in the output: flatten_sources of   *)
(* src/src/dump-ir.c leaves one SrcInfo at every instruction of the tree,  *)
(* and graphviz_output of src/src/graphviz.c marks the row of such an      *)
(* instruction and prints bold one of its outputs, together with the input *)
(* in the same place when there is one.  The searched-for instruction (the *)
(* root) has a border and its operand is in brackets.                      *)
(*                                                                         *)
(* All of it is a function of the finished search, so this module adds     *)
(* operators and properties to RegSrc and no steps.  Names, colours and    *)
(* the markup are left out.                                                *)
(***************************************************************************)
EXTENDS RegSrc

(* The tree of the search that main made.                                  *)
Tree == frames[1].tree

Pos(info) == <<info.node, info.index>>

(* flatten_sources, in the order in which it stores the nodes: first a     *)
(* node, then what hangs from its operands.                                *)
FlattenedFirst ==                                  (* mutant of Flattened  *)
  LET below[x \in DOMAIN Tree] ==
        LET first(k) == SelectSeq(Tree[x].children[k], LAMBDA c : c = Tree[x].children[k][1])
            kids == FlattenSeq([k \in DOMAIN Tree[x].children |-> first(k)])
        IN  <<x>> \o FlattenSeq([j \in DOMAIN kids |-> below[kids[j]]])
  IN  below[1]

Flattened ==
  LET below[x \in DOMAIN Tree] ==
        LET kids == FlattenSeq(Tree[x].children)
        IN  <<x>> \o FlattenSeq([j \in DOMAIN kids |-> below[kids[j]]])
  IN  below[1]

(* The node stored last at a position stays there.                         *)
reg_src_info ==
  LET order == Flattened
      Stored(p) == {j \in DOMAIN order : Pos(Tree[order[j]]) = p}
  IN  [p \in {Pos(info) : info \in Range(Tree)} |->
         IF Stored(p) = {} THEN {} ELSE {Tree[order[Max(Stored(p))]]}]

(* The SrcInfo of a row: none for a dim one.                               *)
RowInfo(p) == IF p \in DOMAIN reg_src_info THEN reg_src_info[p] ELSE {}

(* The operand that gives a row its background.  For the root it is looked *)
(* up among the outputs although operands are searched for as inputs.      *)
Background(p, info) ==
  CASE info.op_index >= 0 -> <<"out", info.op_index + 1>>
    [] info.op_index < 0 /\ p = Pos(Tree[1]) -> <<"out", frames[1].arg>>
    [] OTHER -> <<"in", 2>>

(* The operands printed bold: outputs and inputs are counted alike.        *)
Bold(p, info) ==
  LET inst == Inst(p[1], p[2])
      args == {"out"} \X DOMAIN inst.out \cup {"in"} \X DOMAIN inst.in
  IN  {a \in args : a[2] = info.op_index + 1}

(* The temps that operands of the tree get from position p.                *)
TakenFrom(p) ==
  UNION {{Operand(Tree, x, k) : k \in {k \in DOMAIN Tree[x].children : p \in Branches(Tree, x, k)}} :
           x \in DOMAIN Tree}

(* What the row of info, at position p, shows.  The operand that gives it  *)
(* its background is there: an input for a store, where nothing is bold,   *)
(* and in any other row the bold output, whose temp an operand in the tree *)
(* takes from p.  Nothing else is bold, but for an input in the same place *)
(* among the inputs (src/src/graphviz.c:264), which gives nothing away: no *)
(* value need come from it.                                                *)
Tells(p, info) ==
  LET inst == Inst(p[1], p[2])
      arg == Background(p, info)
      bold == Bold(p, info)
  IN  IF inst.op = "st"
      THEN arg[1] = "in" /\ arg[2] \in DOMAIN inst.in /\ bold = {}
      ELSE \E j \in DOMAIN inst.out :
             /\ arg = <<"out", j>> /\ inst.out[j] \in TakenFrom(p)
             /\ <<"out", j>> \in bold /\ bold \subseteq {<<"out", j>>, <<"in", j>>}

(* When the search is done every instruction of the tree has a marked row, *)
(* and the marked rows but the root's show what their instruction is there *)
(* for, however often it was found, over whatever blocks and for which of  *)
(* its outputs.  Of src/src/graphviz.c:106-172, src/src/graphviz.c:219 and *)
(* src/src/dump-ir.c:25-39.                                                *)
RowsTell ==
  status = "done" =>
    \A p \in {Pos(info) : info \in Range(Tree)} :
      /\ RowInfo(p) # {}
      /\ p # Pos(Tree[1]) => \A info \in RowInfo(p) : Tells(p, info)
=============================================================================
