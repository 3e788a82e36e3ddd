----------------------------- MODULE RingQueue -----------------------------
(***************************************************************************)
(* The ring buffer of the two worklists: MfpEdgeQueue in                   *)
(* src/src/analyze-max-stack.c and SrcQueue in src/src/analyze-reg-src.c,  *)
(* the same code over two element types.  `top' is the slot the next push  *)
(* writes, `bottom' the slot the next pop reads; the slots come from       *)
(* stack_alloc and start unwritten.  A graph without edges gives a queue   *)
(* of length 0, on which every push and pop stops at its assertion before  *)
(* it takes an index modulo 0.                                             *)
(***************************************************************************)
EXTENDS Integers, Sequences

CONSTANTS
  Elem,         (* MfpEdge or Src                                          *)
  Lengths,      (* the values of `len' a queue is made with                *)
  None          (* an unwritten slot; no result yet                        *)

ASSUME RingQueueAssumption ==
  /\ Lengths \subseteq Nat
  /\ None \notin Elem

VARIABLES
  len, used, bottom, top,   (* the fields of the struct                    *)
  slots,        (* `edges' or `srcs'                                       *)
  result,       (* what the last pop returned                              *)
  status        (* "ok", or "aborted" when an assertion failed             *)

vars == <<len, used, bottom, top, slots, result, status>>

(* The slot k places after slot i in a ring of n slots.                    *)
Ahead(n, i, k) == (i + k) % n

Init ==
  /\ len \in Lengths
  /\ used = 0 /\ bottom = 0 /\ top = 0
  /\ slots = [i \in 0 .. (len - 1) |-> None]
  /\ result = None
  /\ status = "ok"

PushNoWrap(e) ==                                   (* mutant of Push       *)
  /\ status = "ok" /\ used < len
  /\ slots' = [slots EXCEPT ![top] = e]
  /\ top' = IF top + 1 = len THEN top ELSE top + 1
  /\ used' = used + 1
  /\ UNCHANGED <<len, bottom, result, status>>

PushOffByOne(e) ==                                 (* mutant of Push       *)
  /\ status = "ok" /\ used <= len /\ len > 0
  /\ slots' = [slots EXCEPT ![top] = e]
  /\ top' = Ahead(len, top, 1)
  /\ used' = used + 1
  /\ UNCHANGED <<len, bottom, result, status>>

Push(e) ==
  /\ status = "ok" /\ used < len
  /\ slots' = [slots EXCEPT ![top] = e]
  /\ top' = Ahead(len, top, 1)
  /\ used' = used + 1
  /\ UNCHANGED <<len, bottom, result, status>>

Pop ==
  /\ status = "ok" /\ used > 0
  /\ result' = slots[bottom]
  /\ bottom' = Ahead(len, bottom, 1)
  /\ used' = used - 1
  /\ UNCHANGED <<len, top, slots, status>>

(* assert(used < len) in push, assert(used > 0) in pop.                    *)
PushFull ==
  /\ status = "ok" /\ ~(used < len)
  /\ status' = "aborted"
  /\ UNCHANGED <<len, used, bottom, top, slots, result>>

PopEmpty ==
  /\ status = "ok" /\ ~(used > 0)
  /\ status' = "aborted"
  /\ UNCHANGED <<len, used, bottom, top, slots, result>>

Next == (\E e \in Elem : Push(e)) \/ Pop \/ PushFull \/ PopEmpty

Spec == Init /\ [][Next]_vars

-----------------------------------------------------------------------------
Cell == Elem \cup {None}
IsArray(s, n) == s \in [0 .. (n - 1) -> Cell]

(* The indices stay inside the array, and `used', which is kept apart from *)
(* them, is the distance from bottom to top around the ring.               *)
TypeOK ==
  /\ len \in Lengths
  /\ used \in 0 .. len
  /\ len > 0 => bottom \in 0 .. (len - 1) /\ top = Ahead(len, bottom, used)
  /\ len = 0 => bottom = 0 /\ top = 0
  /\ IsArray(slots, len)
  /\ result \in Cell
  /\ status \in {"ok", "aborted"}

(* The u elements from slot b on, oldest first.                            *)
Run(n, b, u, s) == [k \in 1 .. u |-> s[Ahead(n, b, k - 1)]]

Contents == Run(len, bottom, used, slots)

Abstract == INSTANCE FifoQueue WITH capacity <- len, fifo <- Contents

(* The ring buffer is a first-in first-out queue: elements come back in    *)
(* the order they were pushed, none lost, none overwritten by a push that  *)
(* wrapped around, and none read from a slot nothing wrote.                *)
IsFifo == Abstract!Spec
=============================================================================
