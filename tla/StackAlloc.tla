----------------------------- MODULE StackAlloc -----------------------------
(***************************************************************************)
(* The arena of src/src/stack_alloc.c: a list of malloc'd blocks of which  *)
(* `last' is the one being filled.  An allocation that does not fit there  *)
(* goes to the first later block that can take it, and to a new block at   *)
(* the end of the list when there is none; blocks passed over stay as they *)
(* are.  Going back to a marker empties the blocks after the marker's.     *)
(*                                                                         *)
(* A block is its size and its use; a cell of memory is a block number and *)
(* an offset.  `live' and the `depth' of a marker are history: they record *)
(* what the caller was given and has not given back.                       *)
(***************************************************************************)
EXTENDS Integers, Sequences

CONSTANTS
  Page,         (* PAGE_SIZE                                               *)
  Sizes,        (* the sizes callers ask for                               *)
  MaxBlocks,    (* bound: blocks in the list                               *)
  MaxLive,      (* bound: live allocations                                 *)
  MaxMarks      (* bound: outstanding markers                              *)

ASSUME StackAllocAssumption ==
  /\ Page \in Nat \ {0}
  /\ Sizes \subseteq Nat
  /\ MaxBlocks \in Nat /\ MaxLive \in Nat /\ MaxMarks \in Nat

VARIABLES
  blocks,       (* the list from `root'; empty while root is NULL          *)
  last,         (* the position of `last', 0 while it is NULL              *)
  live,         (* the live allocations: [blk, off, size]                  *)
  marks,        (* the markers taken: [blk, off] and the depth of `live'   *)
  status        (* "ok", "exited" (malloc failed) or "freed"               *)

vars == <<blocks, last, live, marks, status>>

MinBlockSize == Page

RoundToPageSize(n) == Page * ((n + Page - 1) \div Page)

BlockSize(n) == IF n > MinBlockSize THEN RoundToPageSize(n) ELSE n

CanFitWhole(b, n) == b.size >= n                   (* mutant of CanFit     *)
CanFit(b, n) == b.size - b.used >= n

(* initialize(): the list gets its first block on first use.               *)
List == IF blocks = << >> THEN <<[size |-> BlockSize(MinBlockSize), used |-> 0]>>
                          ELSE blocks
Current == IF blocks = << >> THEN 1 ELSE last

Init ==
  /\ blocks = << >> /\ last = 0
  /\ live = << >> /\ marks = << >>
  /\ status = "ok"

NoneFits(n) == \A j \in Current .. Len(List) : ~CanFit(List[j], n)

(* The allocation fits in `last' or in a later block: the first that can.  *)
AllocFit(n) ==
  /\ status = "ok" /\ Len(live) < MaxLive
  /\ \E k \in Current .. Len(List) :
       /\ CanFit(List[k], n)
       /\ \A j \in Current .. (k - 1) : ~CanFit(List[j], n)
       /\ live' = Append(live, [blk |-> k, off |-> List[k].used, size |-> n])
       /\ blocks' = [List EXCEPT ![k].used = @ + n]
       /\ last' = k
  /\ UNCHANGED <<marks, status>>

AllocNew(n) ==
  /\ status = "ok" /\ Len(live) < MaxLive
  /\ NoneFits(n) /\ Len(List) < MaxBlocks
  /\ live' = Append(live, [blk |-> Len(List) + 1, off |-> 0, size |-> n])
  /\ blocks' = Append(List, [size |-> BlockSize(n), used |-> n])
  /\ last' = Len(List) + 1
  /\ UNCHANGED <<marks, status>>

(* block_alloc calls exit when malloc fails.                               *)
OutOfMemory ==
  /\ status = "ok"
  /\ blocks = << >> \/ \E n \in Sizes : NoneFits(n)
  /\ status' = "exited"
  /\ UNCHANGED <<blocks, last, live, marks>>

Mark ==
  /\ status = "ok" /\ Len(marks) < MaxMarks
  /\ marks' = Append(marks, [blk |-> Current, off |-> List[Current].used,
                             depth |-> Len(live)])
  /\ blocks' = List /\ last' = Current
  /\ UNCHANGED <<live, status>>

(* stack_size only initialises; it returns sums over the list.             *)
Size ==
  /\ status = "ok"
  /\ blocks' = List /\ last' = Current
  /\ UNCHANGED <<live, marks, status>>

ResetKeepsLater(i) ==                              (* mutant of ResetToMarker *)
  /\ status = "ok" /\ i \in 1 .. Len(marks)
  /\ blocks' = [blocks EXCEPT ![marks[i].blk].used = marks[i].off]
  /\ last' = marks[i].blk
  /\ live' = SubSeq(live, 1, marks[i].depth)
  /\ marks' = SubSeq(marks, 1, i)
  /\ UNCHANGED status

ResetWholeBlock(i) ==                              (* mutant of ResetToMarker *)
  /\ status = "ok" /\ i \in 1 .. Len(marks)
  /\ blocks' = [k \in 1 .. Len(blocks) |->
                 [blocks[k] EXCEPT !.used = IF k < marks[i].blk THEN @ ELSE 0]]
  /\ last' = marks[i].blk
  /\ live' = SubSeq(live, 1, marks[i].depth)
  /\ marks' = SubSeq(marks, 1, i)
  /\ UNCHANGED status

ResetKeepsUse(i) ==                                (* mutant of ResetToMarker *)
  /\ status = "ok" /\ i \in 1 .. Len(marks)
  /\ blocks' = [k \in 1 .. Len(blocks) |->
                 [blocks[k] EXCEPT !.used = IF k <= marks[i].blk THEN @ ELSE 0]]
  /\ last' = marks[i].blk
  /\ live' = SubSeq(live, 1, marks[i].depth)
  /\ marks' = SubSeq(marks, 1, i)
  /\ UNCHANGED status

ResetToMarker(i) ==
  /\ status = "ok" /\ i \in 1 .. Len(marks)
  /\ blocks' = [k \in 1 .. Len(blocks) |->
                 [blocks[k] EXCEPT !.used = CASE k < marks[i].blk -> @
                                              [] k = marks[i].blk -> marks[i].off
                                              [] k > marks[i].blk -> 0]]
  /\ last' = marks[i].blk
  /\ live' = SubSeq(live, 1, marks[i].depth)
  /\ marks' = SubSeq(marks, 1, i)
  /\ UNCHANGED status

(* stack_reset does nothing before the first use.                          *)
Reset ==
  /\ status = "ok" /\ blocks # << >>
  /\ blocks' = [k \in 1 .. Len(blocks) |-> [blocks[k] EXCEPT !.used = 0]]
  /\ last' = 1
  /\ live' = << >> /\ marks' = << >>
  /\ UNCHANGED status

(* root and last still point at the freed blocks.                          *)
FreeAll ==
  /\ status = "ok"
  /\ status' = "freed"
  /\ live' = << >> /\ marks' = << >>
  /\ UNCHANGED <<blocks, last>>

Next ==
  \/ \E n \in Sizes : AllocFit(n) \/ AllocNew(n)
  \/ OutOfMemory
  \/ Mark \/ Size
  \/ \E i \in 1 .. Len(marks) : ResetToMarker(i)
  \/ Reset
  \/ FreeAll

Spec == Init /\ [][Next]_vars

-----------------------------------------------------------------------------
Block == [size: Nat, used: Nat]
Region == [blk: Nat \ {0}, off: Nat, size: Sizes]
Marker == [blk: Nat \ {0}, off: Nat, depth: Nat]

(* The list has a last block as soon as it has a block, and no block is    *)
(* filled beyond its size.                                                 *)
TypeOK ==
  /\ blocks \in Seq(Block)
  /\ \A k \in 1 .. Len(blocks) : blocks[k].used <= blocks[k].size
  /\ IF blocks = << >> THEN last = 0 ELSE last \in 1 .. Len(blocks)
  /\ live \in Seq(Region)
  /\ marks \in Seq(Marker)
  /\ status \in {"ok", "exited", "freed"}

(* The place (blk, off) comes no later than the start of region r.         *)
Before(blk, off, r) == blk < r.blk \/ (blk = r.blk /\ off <= r.off)

(* Region r ends no later than the place (blk, off).                       *)
EndsBy(r, blk, off) == r.blk < blk \/ (r.blk = blk /\ r.off + r.size <= off)

(* Every live allocation lies in the used part of its block, and the live  *)
(* allocations lie one after the other in the order they were made, though *)
(* blocks are passed over when they are too small: hence none overlap.     *)
LiveInOrder ==
  /\ \A i \in 1 .. Len(live) :
       /\ live[i].blk <= last
       /\ live[i].off + live[i].size <= blocks[live[i].blk].used
  /\ \A i, j \in 1 .. Len(live) : i < j => EndsBy(live[i], live[j].blk, live[j].off)

(* Behind `last' the list holds only empty blocks, which is what lets an   *)
(* allocation move on to one of them.                                      *)
RestIsEmpty == \A k \in 1 .. Len(blocks) : k > last => blocks[k].used = 0

(* An outstanding marker splits the live allocations into those it keeps,  *)
(* which end before it, and those it gives up, which start after it.       *)
MarksSplit ==
  \A m \in 1 .. Len(marks) :
    /\ marks[m].blk <= last
    /\ marks[m].off <= blocks[marks[m].blk].used
    /\ marks[m].depth <= Len(live)
    /\ \A i \in 1 .. Len(live) :
         IF i <= marks[m].depth
         THEN EndsBy(live[i], marks[m].blk, marks[m].off)
         ELSE Before(marks[m].blk, marks[m].off, live[i])
    /\ \A n \in 1 .. Len(marks) : n < m =>
         /\ marks[n].depth <= marks[m].depth
         /\ \/ marks[n].blk < marks[m].blk
            \/ marks[n].blk = marks[m].blk /\ marks[n].off <= marks[m].off

Laid == LiveInOrder /\ RestIsEmpty /\ MarksSplit

(* The cells of a live allocation.                                         *)
Cells(r) == {r.blk} \X (r.off .. (r.off + r.size - 1))

(* The cells that count as used, of which stack_size reports the number.   *)
InUse == UNION {{k} \X (0 .. (blocks[k].used - 1)) : k \in 1 .. Len(blocks)}

(* What counts as used is what the callers hold: no byte is lost when an   *)
(* allocation moves on to another block, and a reset to a marker gives     *)
(* back every byte of what it ends, blocks ahead included.  Of             *)
(* src/src/stack_alloc.c:46-119.                                           *)
NothingLeaks ==
  status = "ok" => InUse = UNION {Cells(live[i]) : i \in 1 .. Len(live)}

Heap == INSTANCE Arena WITH
  live <- [i \in 1 .. Len(live) |-> Cells(live[i])],
  depths <- [m \in 1 .. Len(marks) |-> marks[m].depth]

(* The allocator hands out memory that nothing else uses and takes back    *)
(* what was allocated since a marker, no more and no less, whichever       *)
(* blocks the allocations landed in.                                       *)
IsArena == Heap!Spec
=============================================================================
