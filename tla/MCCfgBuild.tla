----------------------------- MODULE MCCfgBuild -----------------------------
(***************************************************************************)
(* Instances of CfgBuild for TLC: what a lifter returns for small programs. *)
(***************************************************************************)
EXTENDS CfgBuild

End == 6            (* the view is the bytes 0 .. 5                        *)

(* Ways for a block to end whose last instruction is at `at'.  A jump sets *)
(* the pc to its destination and exits; a conditional one does so twice,   *)
(* in either order; an indirect one sets it to a register; a trap sets it  *)
(* to its own address and calls a helper; a block that the lifter ends     *)
(* early, or that ends with an instruction that has to see other code      *)
(* next, exits to what follows.                                            *)
Endings(at, after, dests) ==
  LET Insns(pcs, exits) == [at |-> at, pcs |-> pcs, indirect |-> 0, exits |-> exits]
  IN  {Insns(<<t>>, 1) : t \in dests \cup {after}}
        \cup {Insns(<<after, t>>, 2) : t \in dests}
        \cup {Insns(<<t, after>>, 2) : t \in dests}
        \cup {[Insns(<< >>, 1) EXCEPT !.indirect = 1], Insns(<<at>>, 0), Insns(<< >>, 0)}

(* An instruction inside a block; `sync' if it stores the pc for a helper. *)
Inner(at, sync) ==
  [at |-> at, pcs |-> IF sync THEN <<at>> ELSE << >>, indirect |-> 0, exits |-> 0]

(* A block of instructions that are given with their addresses.            *)
Block(size, insns) ==
  [size |-> size, insns |-> [j \in DOMAIN insns |->
                              [insns[j] EXCEPT !.at = @ - insns[1].at]]]

(* Two blocks of two instructions and one of a single instruction, two     *)
(* bytes long; a jump can lead anywhere, between two instructions and out  *)
(* of the view included.                                                   *)
ThreeBlocks ==
  {<<Block(2, <<Inner(0, s), a>>), Block(2, <<Inner(2, FALSE), b>>), Block(2, <<c>>)>> :
    a \in Endings(1, 2, {0, 1, 3, 5}),
    b \in Endings(3, 4, {1, 2, 3, 4}),
    c \in Endings(4, End, {0, 1, 3, 6}),
    s \in BOOLEAN}

(* A block of four instructions that jumps into itself, bytes that do not  *)
(* decode, and a block behind them.                                        *)
OneLong ==
  {<<Block(4, <<Inner(0, s), Inner(1, ~s), Inner(2, s), a>>), Block(1, << >>), Block(1, <<b>>)>> :
    a \in Endings(3, 4, 0 .. 5), b \in Endings(5, End, 0 .. 5), s \in BOOLEAN}

SmallViews == ThreeBlocks \cup OneLong \cup {<< >>}

(* `0: nop; 1: nop; 2: jmp 1' and a block behind it.                       *)
SelfLoop ==
  {<<Block(3, <<Inner(0, FALSE), Inner(1, FALSE), [Inner(2, FALSE) EXCEPT !.pcs = <<1>>, !.exits = 1]>>),
     Block(1, <<[Inner(3, FALSE) EXCEPT !.indirect = 1, !.exits = 1]>>)>>}

(* A function with MaxEdges + 1 jumps to one place, its first instruction. *)
CommonTarget ==
  {[k \in 1 .. (MaxEdges + 1) |->
     Block(1, <<[at |-> k - 1, pcs |-> <<0>>, indirect |-> 0, exits |-> 1]>>)]}
=============================================================================
