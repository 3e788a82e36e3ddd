----------------------------- MODULE FifoQueue -----------------------------
(***************************************************************************)
(* What the two analyses rely on when they call mfp_push and mfp_pop, or   *)
(* src_push and src_pop: a queue of bounded capacity that returns elements *)
(* in the order they were pushed, and stops the program when it is pushed  *)
(* full or popped empty.                                                   *)
(***************************************************************************)
EXTENDS Naturals, Sequences

CONSTANTS
  Elem,         (* MfpEdge or Src                                          *)
  None          (* nothing has been returned yet                           *)

VARIABLES
  capacity,     (* fixed when the queue is made                            *)
  fifo,         (* the elements pushed and not yet popped, oldest first    *)
  result,       (* what the last pop returned                              *)
  status        (* "ok", or "aborted" when an assertion failed             *)

vars == <<capacity, fifo, result, status>>

Init ==
  /\ capacity \in Nat
  /\ fifo = << >>
  /\ result = None
  /\ status = "ok"

Push(e) ==
  /\ status = "ok" /\ Len(fifo) < capacity
  /\ fifo' = Append(fifo, e)
  /\ UNCHANGED <<capacity, result, status>>

Pop ==
  /\ status = "ok" /\ fifo # << >>
  /\ result' = Head(fifo)
  /\ fifo' = Tail(fifo)
  /\ UNCHANGED <<capacity, status>>

Abort ==
  /\ status = "ok" /\ (Len(fifo) = capacity \/ fifo = << >>)
  /\ status' = "aborted"
  /\ UNCHANGED <<capacity, fifo, result>>

Next == (\E e \in Elem : Push(e)) \/ Pop \/ Abort

Spec == Init /\ [][Next]_vars
=============================================================================
