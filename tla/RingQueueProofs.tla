-------------------------- MODULE RingQueueProofs --------------------------
(***************************************************************************)
(* Proofs about RingQueue for every element set and every set of lengths:  *)
(* type correctness, and that the ring buffer implements FifoQueue.        *)
(***************************************************************************)
EXTENDS RingQueue, SequenceTheorems, TLAPS

(* An index advanced by at most the length wraps at most once.             *)
LEMMA WrapOnce ==
  ASSUME NEW n \in Nat, n > 0, NEW b \in 0 .. (n - 1), NEW k \in 0 .. n
  PROVE  Ahead(n, b, k) = IF b + k < n THEN b + k ELSE b + k - n
  BY DEF Ahead

LEMMA AheadInRange ==
  ASSUME NEW n \in Nat, n > 0, NEW b \in 0 .. (n - 1), NEW k \in 0 .. n
  PROVE  /\ Ahead(n, b, k) \in 0 .. (n - 1)
         /\ Ahead(n, b, 0) = b
  <1>1. 0 \in 0 .. n
    OBVIOUS
  <1> QED BY <1>1, WrapOnce

(* Two slots less than one turn apart are different.                       *)
LEMMA SlotsApart ==
  ASSUME NEW n \in Nat, n > 0, NEW b \in 0 .. (n - 1),
         NEW j \in 0 .. (n - 1), NEW k \in 0 .. (n - 1), j # k
  PROVE  Ahead(n, b, j) # Ahead(n, b, k)
  <1>1. j \in 0 .. n /\ k \in 0 .. n
    OBVIOUS
  <1> QED BY <1>1, WrapOnce

(* Taking one step from a slot, and then i more, is taking i + 1.          *)
LEMMA NextSlot ==
  ASSUME NEW n \in Nat, n > 0, NEW b \in 0 .. (n - 1), NEW i \in 0 .. (n - 1)
  PROVE  /\ Ahead(n, Ahead(n, b, 1), i) = Ahead(n, b, i + 1)
         /\ Ahead(n, Ahead(n, b, i), 1) = Ahead(n, b, i + 1)
  <1>1. 1 \in 0 .. n /\ i \in 0 .. n /\ i + 1 \in 0 .. n
    OBVIOUS
  <1>2. Ahead(n, b, 1) \in 0 .. (n - 1) /\ Ahead(n, b, i) \in 0 .. (n - 1)
    BY <1>1, AheadInRange
  <1>3. /\ Ahead(n, b, 1) = IF b + 1 < n THEN b + 1 ELSE b + 1 - n
        /\ Ahead(n, b, i) = IF b + i < n THEN b + i ELSE b + i - n
        /\ Ahead(n, b, i + 1) = IF b + (i + 1) < n THEN b + (i + 1) ELSE b + (i + 1) - n
    BY <1>1, WrapOnce
  <1>4. Ahead(n, Ahead(n, b, 1), i) =
          IF Ahead(n, b, 1) + i < n THEN Ahead(n, b, 1) + i ELSE Ahead(n, b, 1) + i - n
    BY <1>1, <1>2, WrapOnce
  <1>5. Ahead(n, Ahead(n, b, i), 1) =
          IF Ahead(n, b, i) + 1 < n THEN Ahead(n, b, i) + 1 ELSE Ahead(n, b, i) + 1 - n
    BY <1>1, <1>2, WrapOnce
  <1> QED BY <1>2, <1>3, <1>4, <1>5

-----------------------------------------------------------------------------
LEMMA LenNat == TypeOK => len \in Nat /\ used \in Nat
  BY RingQueueAssumption DEF TypeOK

LEMMA InitType == Init => TypeOK
  <1> SUFFICES ASSUME Init PROVE TypeOK
    OBVIOUS
  <1>1. len \in Nat
    BY RingQueueAssumption DEF Init
  <1>2. len > 0 => 0 = Ahead(len, 0, 0)
    BY <1>1, AheadInRange
  <1> QED BY <1>1, <1>2 DEF Init, TypeOK, IsArray, Cell

LEMMA PushType == TypeOK /\ (\E e \in Elem : Push(e)) => TypeOK'
  <1> SUFFICES ASSUME TypeOK, NEW e \in Elem, Push(e) PROVE TypeOK'
    OBVIOUS
  <1>1. /\ len \in Nat /\ len > 0 /\ used \in 0 .. (len - 1)
        /\ bottom \in 0 .. (len - 1) /\ top = Ahead(len, bottom, used)
    BY LenNat DEF TypeOK, Push
  <1>2. top' = Ahead(len, bottom, used + 1)
    BY <1>1, NextSlot DEF Push
  <1>3. IsArray(slots', len)
    BY DEF TypeOK, Push, IsArray, Cell
  <1>4. used' \in 0 .. len /\ used' = used + 1 /\ len' = len /\ bottom' = bottom
    BY <1>1 DEF Push
  <1>5. result' = result /\ status' = status
    BY DEF Push
  <1> QED BY <1>1, <1>2, <1>3, <1>4, <1>5 DEF TypeOK

LEMMA PopType == TypeOK /\ Pop => TypeOK'
  <1> SUFFICES ASSUME TypeOK, Pop PROVE TypeOK'
    OBVIOUS
  <1>1. /\ len \in Nat /\ len > 0 /\ used \in 1 .. len /\ used - 1 \in 0 .. (len - 1)
        /\ bottom \in 0 .. (len - 1) /\ top = Ahead(len, bottom, used)
    BY LenNat DEF TypeOK, Pop
  <1>2. bottom' \in 0 .. (len - 1) /\ Ahead(len, bottom', used') = Ahead(len, bottom, used)
    <2>1. 1 \in 0 .. len /\ (used - 1) + 1 = used
      BY <1>1
    <2>2. bottom' = Ahead(len, bottom, 1) /\ used' = used - 1
      BY DEF Pop
    <2>3. Ahead(len, bottom, 1) \in 0 .. (len - 1)
      BY <1>1, <2>1, AheadInRange
    <2>4. Ahead(len, Ahead(len, bottom, 1), used - 1) = Ahead(len, bottom, (used - 1) + 1)
      BY <1>1, NextSlot
    <2> QED BY <2>1, <2>2, <2>3, <2>4
  <1>3. result' \in Cell
    BY <1>1 DEF TypeOK, Pop, IsArray
  <1> QED BY <1>1, <1>2, <1>3 DEF TypeOK, Pop

(* The fields keep their ranges and their relation to each other.          *)
THEOREM TypeCorrect == Spec => []TypeOK
  <1>1. TypeOK /\ [Next]_vars => TypeOK'
    <2> SUFFICES ASSUME TypeOK, [Next]_vars PROVE TypeOK'
      OBVIOUS
    <2>1. CASE PushFull \/ PopEmpty \/ UNCHANGED vars
      BY <2>1 DEF TypeOK, PushFull, PopEmpty, vars
    <2> QED BY <2>1, PushType, PopType DEF Next
  <1> QED BY <1>1, InitType, PTL DEF Spec

-----------------------------------------------------------------------------
(* The mapping to FifoQueue.                                               *)

LEMMA RunOfSlots ==
  ASSUME NEW n \in Nat, n > 0, NEW b \in 0 .. (n - 1), NEW u \in 0 .. n,
         NEW s, IsArray(s, n)
  PROVE  /\ Run(n, b, u, s) \in Seq(Cell)
         /\ Len(Run(n, b, u, s)) = u
         /\ \A k \in 1 .. u : Run(n, b, u, s)[k] = s[Ahead(n, b, k - 1)]
  <1>1. \A k \in 1 .. u : s[Ahead(n, b, k - 1)] \in Cell
    <2> TAKE k \in 1 .. u
    <2>1. k - 1 \in 0 .. n
      OBVIOUS
    <2> QED BY <2>1, AheadInRange DEF IsArray
  <1> QED BY <1>1 DEF Run

LEMMA PushMaps ==
  ASSUME TypeOK, NEW e \in Elem, Push(e)
  PROVE  Abstract!Push(e)
  <1>1. /\ len \in Nat /\ len > 0 /\ used \in 0 .. (len - 1)
        /\ bottom \in 0 .. (len - 1) /\ top = Ahead(len, bottom, used)
        /\ IsArray(slots, len)
    BY LenNat DEF TypeOK, Push
  <1>2. ASSUME NEW k \in 1 .. used
        PROVE  slots'[Ahead(len, bottom, k - 1)] = slots[Ahead(len, bottom, k - 1)]
    <2>1. k - 1 \in 0 .. (len - 1) /\ k - 1 # used
      BY <1>1
    <2>2. Ahead(len, bottom, k - 1) # top
      BY <1>1, <2>1, SlotsApart
    <2> QED BY <2>2 DEF Push
  <1>3. slots'[Ahead(len, bottom, (used + 1) - 1)] = e
    <2>1. (used + 1) - 1 = used
      BY <1>1
    <2>2. used \in 0 .. len /\ top \in 0 .. (len - 1)
      <3>1. top = IF bottom + used < len THEN bottom + used ELSE bottom + used - len
        BY <1>1, WrapOnce
      <3> QED BY <1>1, <3>1
    <2> QED BY <1>1, <2>1, <2>2 DEF Push, IsArray
  <1>4. Contents' = Run(len, bottom, used + 1, slots')
    BY DEF Push, Contents
  <1>5. /\ Contents \in Seq(Cell) /\ Len(Contents) = used
        /\ \A k \in 1 .. used : Contents[k] = slots[Ahead(len, bottom, k - 1)]
    <2>1. used \in 0 .. len
      BY <1>1
    <2> QED BY <1>1, <2>1, RunOfSlots DEF Contents
  <1>6. /\ Contents' \in Seq(Cell) /\ Len(Contents') = used + 1
        /\ \A k \in 1 .. (used + 1) : Contents'[k] = slots'[Ahead(len, bottom, k - 1)]
    <2>1. IsArray(slots', len)
      BY <1>1 DEF Push, IsArray, Cell
    <2>2. used + 1 \in 0 .. len
      BY <1>1
    <2> QED BY <1>1, <1>4, <2>1, <2>2, RunOfSlots
  <1>7. /\ Append(Contents, e) \in Seq(Cell)
        /\ Len(Append(Contents, e)) = used + 1
        /\ \A k \in 1 .. used : Append(Contents, e)[k] = Contents[k]
        /\ Append(Contents, e)[used + 1] = e
    BY <1>5, e \in Cell DEF Cell
  <1>8. \A k \in 1 .. (used + 1) : Contents'[k] = Append(Contents, e)[k]
    <2> TAKE k \in 1 .. (used + 1)
    <2>1. Contents'[k] = slots'[Ahead(len, bottom, k - 1)]
      BY <1>6
    <2>2. CASE k = used + 1
      BY <1>3, <1>7, <2>1, <2>2
    <2>3. CASE k \in 1 .. used
      <3>1. slots'[Ahead(len, bottom, k - 1)] = slots[Ahead(len, bottom, k - 1)]
        BY <1>2, <2>3
      <3>2. Contents[k] = slots[Ahead(len, bottom, k - 1)] /\ Append(Contents, e)[k] = Contents[k]
        BY <1>5, <1>7, <2>3
      <3> QED BY <2>1, <3>1, <3>2
    <2>4. k = used + 1 \/ k \in 1 .. used
      BY <1>1
    <2> QED BY <2>2, <2>3, <2>4
  <1>9. Contents' = Append(Contents, e)
    BY <1>6, <1>7, <1>8, SeqEqual
  <1> QED BY <1>5, <1>9 DEF Abstract!Push, Push

LEMMA PopMaps ==
  ASSUME TypeOK, Pop
  PROVE  Abstract!Pop
  <1>1. /\ len \in Nat /\ len > 0 /\ used \in 1 .. len
        /\ bottom \in 0 .. (len - 1)
        /\ IsArray(slots, len)
    BY LenNat DEF TypeOK, Pop
  <1>2. /\ Contents \in Seq(Cell) /\ Len(Contents) = used /\ Contents # << >>
        /\ \A k \in 1 .. used : Contents[k] = slots[Ahead(len, bottom, k - 1)]
    <2>1. used \in 0 .. len
      BY <1>1
    <2>2. /\ Contents \in Seq(Cell) /\ Len(Contents) = used
          /\ \A k \in 1 .. used : Contents[k] = slots[Ahead(len, bottom, k - 1)]
      BY <1>1, <2>1, RunOfSlots DEF Contents
    <2> QED BY <1>1, <2>2
  <1>3. Head(Contents) = slots[bottom]
    <2>1. Ahead(len, bottom, 0) = bottom
      BY <1>1, AheadInRange
    <2>2. 1 \in 1 .. used /\ 1 - 1 = 0
      BY <1>1
    <2> QED BY <1>2, <2>1, <2>2
  <1>4. ASSUME NEW k \in 1 .. (used - 1)
        PROVE  Ahead(len, bottom', k - 1) = Ahead(len, bottom, (k + 1) - 1)
    <2>1. k - 1 \in 0 .. (len - 1) /\ (k - 1) + 1 = (k + 1) - 1
      BY <1>1
    <2> QED BY <1>1, <2>1, NextSlot DEF Pop
  <1>5. Contents' = Run(len, bottom', used - 1, slots)
    BY DEF Pop, Contents
  <1>6. /\ Contents' \in Seq(Cell) /\ Len(Contents') = used - 1
        /\ \A k \in 1 .. (used - 1) : Contents'[k] = slots[Ahead(len, bottom', k - 1)]
    <2>1. bottom' \in 0 .. (len - 1) /\ used - 1 \in 0 .. len
      <3>1. 1 \in 0 .. len
        BY <1>1
      <3> QED BY <1>1, <3>1, AheadInRange DEF Pop
    <2> QED BY <1>1, <1>5, <2>1, RunOfSlots
  <1>9. /\ Tail(Contents) \in Seq(Cell) /\ Len(Tail(Contents)) = used - 1
        /\ \A k \in 1 .. (used - 1) : Tail(Contents)[k] = Contents[k + 1]
    BY <1>1, <1>2, HeadTailProperties
  <1>10. \A k \in 1 .. (used - 1) : Contents'[k] = Contents[k + 1]
    <2> TAKE k \in 1 .. (used - 1)
    <2>1. k + 1 \in 1 .. used
      BY <1>1
    <2> QED BY <1>2, <1>4, <1>6, <2>1
  <1>11. Contents' = Tail(Contents)
    BY <1>6, <1>9, <1>10, SeqEqual
  <1> QED BY <1>2, <1>3, <1>11 DEF Abstract!Pop, Pop

(* The ring buffer implements the queue: initial states map to initial     *)
(* states, and every step to a step of the queue.                          *)
THEOREM Refines == Spec => IsFifo
  <1>1. Init => Abstract!Init
    BY RingQueueAssumption DEF Init, Abstract!Init, Contents, Run
  <1>2. TypeOK /\ [Next]_vars => [Abstract!Next]_Abstract!vars
    <2> SUFFICES ASSUME TypeOK, [Next]_vars PROVE [Abstract!Next]_Abstract!vars
      OBVIOUS
    <2>1. CASE \E e \in Elem : Push(e)
      BY <2>1, PushMaps DEF Abstract!Next
    <2>2. CASE Pop
      BY <2>2, PopMaps DEF Abstract!Next
    <2>3. CASE PushFull \/ PopEmpty
      <3>1. Len(Contents) = used /\ (used = 0 => Contents = << >>) /\ Contents' = Contents
        BY <2>3, LenNat DEF Contents, Run, PushFull, PopEmpty
      <3>2. used \in 0 .. len /\ len \in Nat
        BY LenNat DEF TypeOK
      <3>3. used = len \/ used = 0
        BY <2>3, <3>2 DEF PushFull, PopEmpty
      <3>4. Abstract!Abort
        BY <2>3, <3>1, <3>3 DEF PushFull, PopEmpty, Abstract!Abort
      <3> QED BY <3>4 DEF Abstract!Next
    <2>4. CASE UNCHANGED vars
      BY <2>4 DEF vars, Abstract!vars, Contents
    <2> QED BY <2>1, <2>2, <2>3, <2>4 DEF Next
  <1> QED BY <1>1, <1>2, TypeCorrect, PTL DEF Spec, IsFifo, Abstract!Spec
=============================================================================
