-------------------------------- MODULE Fold --------------------------------
(***************************************************************************)
(* Lifted code as the backward analysis of src/src/analyze-reg-src.c sees  *)
(* it, the tree of sources (SrcInfo) that it builds, and the fold of such  *)
(* a tree to a stack offset in src/src/common.c.                           *)
(*                                                                         *)
(* An instruction is an opcode with the temps it writes and reads.  Opcodes *)
(* that the code does not tell apart (the widths of an access or of a sum)  *)
(* are one; the casts of the 32-bit sums do nothing to the small offsets    *)
(* here.  A constant is a temp with a value.  Position 0 of a block is an   *)
(* insn_start, which has no operands and which the search never looks at,   *)
(* so a block is the sequence of its instructions from position 1 on.       *)
(***************************************************************************)
EXTENDS Integers, Sequences, FiniteSetsExt

CONSTANTS
  Temps,        (* the temps of a program                                  *)
  ConstVal,     (* the value of each temp that is a constant               *)
  StackRegs     (* the globals at arch.sp and arch.bp                      *)

ASSUME FoldAssumption ==
  /\ DOMAIN ConstVal \subseteq Temps /\ StackRegs \subseteq Temps
  /\ \A t \in DOMAIN ConstVal : ConstVal[t] \in Int /\ t \notin StackRegs

Opcodes == {"add", "sub", "mov", "ld", "st", "other"}

Instruction == [op: Opcodes, out: Seq(Temps), in: Seq(Temps)]

IsConst(t) == t \in DOMAIN ConstVal

(* The operands that an opcode has.  A store takes a value and an address  *)
(* and writes no temp; nothing writes to a constant.                       *)
HasOperands(inst) ==
  /\ \A k \in DOMAIN inst.out : ~IsConst(inst.out[k])
  /\ inst.op = "mov" => Len(inst.in) = 1
  /\ inst.op \in {"add", "sub"} => Len(inst.in) = 2
  /\ inst.op = "ld" => Len(inst.in) >= 1
  /\ inst.op = "st" => Len(inst.in) >= 2 /\ inst.out = << >>

(* The operand that holds the address of a load or of a store.             *)
AddressArg(inst) == IF inst.op = "ld" THEN 1 ELSE 2

-----------------------------------------------------------------------------
(* A tree is the sequence of its nodes in the order they were made: the    *)
(* root first, each with the children of every operand.                    *)

Invalid == [valid |-> FALSE, value |-> 0]
Valid(v) == [valid |-> TRUE, value |-> v]

(* largest_stack_offset over a loop that starts at 0: the stack grows down. *)
Deepest(values) == Min(values \cup {0})

(* The fold of one operand from the folds of its children.                 *)
FoldOperand(temp, folds) ==
  IF folds # {}
  THEN IF \A f \in folds : f.valid THEN Valid(Deepest({f.value : f \in folds}))
                                   ELSE Invalid
  ELSE CASE temp \in StackRegs -> Valid(0)
         [] IsConst(temp)      -> Valid(ConstVal[temp])
         [] OTHER              -> Invalid

(* fold_add_sub, the value of every node of the tree.                      *)
fold_add_sub(code, tree) ==
  LET fold[x \in DOMAIN tree] ==
        LET inst == code[tree[x].node][tree[x].index]
            operand(k) == FoldOperand(inst.in[k],
                            {fold[c] : c \in Range(tree[x].children[k])})
            left == operand(1)
            right == IF Len(inst.in) = 2 THEN operand(2) ELSE Valid(0)
        IN  IF inst.op \notin {"add", "sub", "mov"} \/ ~left.valid \/ ~right.valid
            THEN Invalid
            ELSE Valid(IF inst.op = "sub" THEN left.value - right.value
                                          ELSE left.value + right.value)
  IN  fold

(* fold_ld_st_stack_pointer: the offset of the address that the operand    *)
(* arg of the root holds.  An operand without a source folds to 0.         *)
fold_ld_st_stack_pointer(code, tree, arg) ==
  LET folds == {fold_add_sub(code, tree)[c] : c \in Range(tree[1].children[arg])}
  IN  IF \A f \in folds : f.valid
      THEN Valid(-Deepest({f.value : f \in folds}))
      ELSE Invalid
=============================================================================
