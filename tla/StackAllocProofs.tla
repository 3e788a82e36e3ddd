-------------------------- MODULE StackAllocProofs --------------------------
(***************************************************************************)
(* Proofs about StackAlloc for every page size, every set of request sizes *)
(* and every bound: the layout of the arena, that no byte of it is lost,   *)
(* and that it implements Arena.                                           *)
(***************************************************************************)
EXTENDS StackAlloc, SequenceTheorems, TLAPS

LEMMA BlockSizeFits ==
  ASSUME NEW n \in Nat
  PROVE  BlockSize(n) \in Nat /\ BlockSize(n) >= n
  <1> DEFINE q == (n + Page - 1) \div Page
  <1>1. Page \in Nat /\ Page > 0
    BY StackAllocAssumption
  <1>2. q \in Nat /\ Page * q >= n
    BY <1>1
  <1>3. Page * q \in Nat
    BY <1>1, <1>2
  <1> QED BY <1>1, <1>2, <1>3 DEF BlockSize, RoundToPageSize, MinBlockSize

LEMMA SizesNat == \A n \in Sizes : n \in Nat
  BY StackAllocAssumption

LEMMA WidenRange ==
  ASSUME NEW c \in Nat, NEW k \in Nat, NEW n \in Nat, NEW l \in Nat, NEW b \in 1 .. c,
         c <= k, k <= n, l >= c
  PROVE  b \in Nat /\ b \in 1 .. n /\ b <= l
  OBVIOUS

LEMMA LeqTrans == \A a, b, c \in Nat : a <= b /\ b <= c => a <= c
  OBVIOUS

LEMMA Elements ==
  ASSUME TypeOK
  PROVE  /\ Len(live) \in Nat /\ Len(marks) \in Nat /\ Len(blocks) \in Nat
         /\ \A i \in 1 .. Len(live) :
              /\ live[i] \in Region
              /\ live[i].blk \in Nat \ {0} /\ live[i].off \in Nat /\ live[i].size \in Nat
         /\ \A m \in 1 .. Len(marks) :
              /\ marks[m] \in Marker
              /\ marks[m].blk \in Nat \ {0} /\ marks[m].off \in Nat /\ marks[m].depth \in Nat
         /\ \A k \in 1 .. Len(blocks) :
              /\ blocks[k] \in Block /\ blocks[k].size \in Nat /\ blocks[k].used \in Nat
              /\ blocks[k].used <= blocks[k].size
  <1>1. /\ live \in Seq(Region) /\ marks \in Seq(Marker) /\ blocks \in Seq(Block)
        /\ \A k \in 1 .. Len(blocks) : blocks[k].used <= blocks[k].size
    BY DEF TypeOK
  <1>2. \A i \in 1 .. Len(live) : live[i] \in Region
    BY <1>1
  <1>3. \A m \in 1 .. Len(marks) : marks[m] \in Marker
    BY <1>1
  <1>4. \A k \in 1 .. Len(blocks) : blocks[k] \in Block
    BY <1>1
  <1>5. \A i \in 1 .. Len(live) :
          live[i].blk \in Nat \ {0} /\ live[i].off \in Nat /\ live[i].size \in Nat
    BY <1>2, SizesNat DEF Region
  <1>6. \A m \in 1 .. Len(marks) :
          marks[m].blk \in Nat \ {0} /\ marks[m].off \in Nat /\ marks[m].depth \in Nat
    BY <1>3 DEF Marker
  <1>7. \A k \in 1 .. Len(blocks) : blocks[k].size \in Nat /\ blocks[k].used \in Nat
    BY <1>4 DEF Block
  <1> QED BY <1>1, <1>2, <1>3, <1>4, <1>5, <1>6, <1>7

(* The list as an operation finds it, initialised if it was not.           *)
LEMMA ListFacts ==
  ASSUME TypeOK, Laid
  PROVE  /\ List \in Seq(Block) /\ Len(List) \in Nat /\ Current \in 1 .. Len(List)
         /\ \A k \in 1 .. Len(List) :
              /\ List[k] \in Block /\ List[k].size \in Nat /\ List[k].used \in Nat
              /\ List[k].used <= List[k].size
              /\ k > Current => List[k].used = 0
         /\ \A i \in 1 .. Len(live) :
              /\ live[i].blk \in 1 .. Current
              /\ live[i].off + live[i].size <= List[live[i].blk].used
         /\ \A m \in 1 .. Len(marks) :
              /\ marks[m].blk \in 1 .. Current
              /\ marks[m].off <= List[marks[m].blk].used
              /\ marks[m].depth <= Len(live)
         /\ blocks # << >> => List = blocks /\ Current = last
  <1>1. CASE blocks = << >>
    <2>1. last = 0 /\ Len(live) = 0 /\ Len(marks) = 0
      BY <1>1, Elements DEF TypeOK, Laid, LiveInOrder, MarksSplit
    <2>2. BlockSize(MinBlockSize) \in Nat
      BY StackAllocAssumption, BlockSizeFits DEF MinBlockSize
    <2> DEFINE b == [size |-> BlockSize(MinBlockSize), used |-> 0]
    <2>3. b \in Block /\ b.size \in Nat /\ b.used = 0
      BY <2>2 DEF Block
    <2>4. List = <<b>> /\ Current = 1
      BY <1>1 DEF List, Current
    <2> HIDE DEF b
    <2>5. List \in Seq(Block) /\ Len(List) = 1 /\ List[1] = b
      BY <2>3, <2>4
    <2> QED BY <1>1, <2>1, <2>3, <2>4, <2>5
  <1>2. CASE blocks # << >>
    <2>1. List = blocks /\ Current = last /\ last \in 1 .. Len(blocks)
      BY <1>2 DEF List, Current, TypeOK
    <2> QED BY <1>2, <2>1, Elements DEF TypeOK, Laid, LiveInOrder, RestIsEmpty, MarksSplit
  <1> QED BY <1>1, <1>2

-----------------------------------------------------------------------------
(* An allocation: block k of the new list bs takes n more bytes from offset *)
(* o on, and nothing else changes.                                         *)
Added(n, o) ==
  /\ blocks' \in Seq(Block) /\ Len(blocks') >= Len(List)
  /\ last' \in 1 .. Len(blocks') /\ last' >= Current
  /\ o = IF last' <= Len(List) THEN List[last'].used ELSE 0
  /\ blocks'[last'].used = o + n /\ blocks'[last'].used <= blocks'[last'].size
  /\ \A j \in 1 .. Len(blocks') : j # last' => j <= Len(List) /\ blocks'[j] = List[j]
  /\ live' = Append(live, [blk |-> last', off |-> o, size |-> n])
  /\ UNCHANGED <<marks, status>>

LEMMA AddRegion ==
  ASSUME TypeOK, Laid, NEW n \in Sizes, NEW o \in Nat, Added(n, o)
  PROVE  TypeOK' /\ Laid'
  <1>a. /\ blocks' \in Seq(Block) /\ Len(blocks') >= Len(List)
        /\ last' \in 1 .. Len(blocks') /\ last' >= Current
        /\ o = IF last' <= Len(List) THEN List[last'].used ELSE 0
        /\ blocks'[last'].used = o + n /\ blocks'[last'].used <= blocks'[last'].size
        /\ marks' = marks /\ status' = status
    BY DEF Added
  <1>0. /\ Len(List) \in Nat /\ Current \in 1 .. Len(List)
        /\ Len(live) \in Nat /\ Len(blocks') \in Nat /\ Len(blocks') >= Len(List)
    BY <1>a, ListFacts, Elements
  <1> DEFINE r == [blk |-> last', off |-> o, size |-> n]
  <1>1. /\ n \in Nat /\ Len(blocks') \in Nat /\ last' \in Nat \ {0} /\ last' >= Current
        /\ r \in Region /\ r.blk = last' /\ r.off = o /\ r.size = n
        /\ blocks'[last'].used = o + n /\ blocks'[last'].used <= blocks'[last'].size
    BY <1>a, SizesNat DEF Region
  <1>2. /\ Len(live') = Len(live) + 1 /\ live' \in Seq(Region)
        /\ \A i \in 1 .. Len(live) : live'[i] = live[i]
        /\ live'[Len(live) + 1] = r
    <2>1. live \in Seq(Region) /\ live' = Append(live, r)
      BY DEF TypeOK, Added
    <2> HIDE DEF r
    <2> QED BY <1>1, <2>1, AppendProperties
  <1> HIDE DEF r
  <1>3. /\ last' \in 1 .. Len(blocks') /\ last' \in Nat
        /\ \A j \in 1 .. Len(blocks') : j # last' =>
             j \in 1 .. Len(List) /\ blocks'[j] = List[j]
    BY <1>0, <1>a DEF Added
  <1>4. \A j \in 1 .. Len(blocks') :
          blocks'[j].used \in Nat /\ blocks'[j].used <= blocks'[j].size
    <2> TAKE j \in 1 .. Len(blocks')
    <2>1. CASE j = last'
      BY <1>1, <2>1
    <2>2. CASE j # last'
      BY <1>3, <2>2, ListFacts
    <2> QED BY <2>1, <2>2
  <1>4a. \A j \in 1 .. Len(List) : j \in 1 .. Len(blocks') /\ blocks'[j].used >= List[j].used
    <2> TAKE j \in 1 .. Len(List)
    <2>1. j \in 1 .. Len(blocks') /\ List[j].used \in Nat
      BY <1>0, ListFacts
    <2>2. CASE j = last'
      <3>1. o = List[last'].used
        BY <1>0, <1>a, <1>3, <2>2
      <3> QED BY <1>1, <2>1, <2>2, <3>1
    <2>3. CASE j # last'
      BY <1>3, <2>1, <2>3
    <2> QED BY <2>1, <2>2, <2>3
  <1>4b. \A j \in 1 .. Len(blocks') : j > last' => blocks'[j].used = 0
    <2> SUFFICES ASSUME NEW j \in 1 .. Len(blocks'), j > last'
                 PROVE  blocks'[j].used = 0
      OBVIOUS
    <2>1. j # last' /\ j \in Nat /\ j > Current
      BY <1>0, <1>1, <1>3
    <2> QED BY <1>3, <2>1, ListFacts
  <1>4c. TypeOK'
    <2>1. blocks' # << >>
      BY <1>0, <1>3, <1>a
    <2> QED BY <1>a, <1>2, <1>3, <1>4, <2>1 DEF TypeOK
  <1>5. \A i \in 1 .. Len(live) :
          /\ live[i].blk \in 1 .. Current /\ live[i].blk <= last'
          /\ live[i].off + live[i].size <= blocks'[live[i].blk].used
          /\ EndsBy(live[i], last', o)
    <2> TAKE i \in 1 .. Len(live)
    <2>1. /\ live[i].blk \in 1 .. Current /\ live[i].blk \in 1 .. Len(List)
          /\ live[i].off + live[i].size <= List[live[i].blk].used
          /\ live[i].off + live[i].size \in Nat
          /\ List[live[i].blk].used \in Nat
      <3>1. /\ live[i].blk \in 1 .. Current
            /\ live[i].off + live[i].size <= List[live[i].blk].used
        BY ListFacts
      <3>2. live[i].off \in Nat /\ live[i].size \in Nat
        BY Elements
      <3>3. live[i].blk \in 1 .. Len(List)
        BY <1>0, <3>1
      <3>4. List[live[i].blk].used \in Nat
        BY <3>3, ListFacts
      <3>5. live[i].off + live[i].size \in Nat
        BY <3>2
      <3> QED BY <3>1, <3>3, <3>4, <3>5, Zenon
    <2>2. live[i].blk \in 1 .. Len(blocks') /\ live[i].blk <= Len(List) /\ live[i].blk <= last'
      <3>1. /\ Current \in Nat /\ Len(List) \in Nat /\ Len(blocks') \in Nat /\ last' \in Nat
            /\ Current <= Len(List) /\ Len(List) <= Len(blocks') /\ last' >= Current
        BY <1>0, <1>1
      <3>2. live[i].blk \in 1 .. Current
        BY <2>1
      <3>3. live[i].blk \in 1 .. Len(blocks') /\ live[i].blk <= last'
        BY <3>1, <3>2, WidenRange
      <3>4. Len(List) >= Current
        BY <3>1
      <3>5. live[i].blk <= Len(List)
        BY <3>1, <3>2, <3>4, WidenRange
      <3> QED BY <3>3, <3>5
    <2>3. live[i].blk = last' => live[i].off + live[i].size <= o
      BY <1>a, <2>1, <2>2
    <2>4. live[i].off + live[i].size <= blocks'[live[i].blk].used
      <3>1. blocks'[live[i].blk].used >= List[live[i].blk].used /\ blocks'[live[i].blk].used \in Nat
        BY <1>4, <1>4a, <2>1
      <3> QED BY <2>1, <3>1
    <2> QED BY <1>1, <2>1, <2>2, <2>3, <2>4 DEF EndsBy
  <1>6. LiveInOrder'
    <2>1. \A i \in 1 .. (Len(live) + 1) :
            live'[i].blk <= last' /\ live'[i].off + live'[i].size <= blocks'[live'[i].blk].used
      <3> TAKE i \in 1 .. (Len(live) + 1)
      <3>1. CASE i \in 1 .. Len(live)
        BY <1>2, <1>5, <3>1
      <3>2. CASE i = Len(live) + 1
        BY <1>1, <1>2, <3>2
      <3> QED BY <3>1, <3>2, Elements
    <2>2. \A i, j \in 1 .. (Len(live) + 1) : i < j =>
            EndsBy(live'[i], live'[j].blk, live'[j].off)
      <3> TAKE i, j \in 1 .. (Len(live) + 1)
      <3>1. CASE i \in 1 .. Len(live) /\ j \in 1 .. Len(live)
        BY <1>2, <3>1 DEF Laid, LiveInOrder
      <3>2. CASE i \in 1 .. Len(live) /\ j = Len(live) + 1
        BY <1>1, <1>2, <1>5, <3>2
      <3>3. CASE i = Len(live) + 1
        BY <3>3, Elements
      <3> QED BY <1>0, <3>1, <3>2, <3>3
    <2> QED BY <1>2, <2>1, <2>2 DEF LiveInOrder
  <1>7. RestIsEmpty'
    BY <1>4b DEF RestIsEmpty
  <1>8. MarksSplit'
    <2> SUFFICES ASSUME NEW m \in 1 .. Len(marks)
                 PROVE  /\ marks[m].blk <= last'
                        /\ marks[m].off <= blocks'[marks[m].blk].used
                        /\ marks[m].depth <= Len(live) + 1
                        /\ \A i \in 1 .. (Len(live) + 1) :
                             IF i <= marks[m].depth
                             THEN EndsBy(live'[i], marks[m].blk, marks[m].off)
                             ELSE Before(marks[m].blk, marks[m].off, live'[i])
      <3> DEFINE split(k, kept) ==
            \A j \in 1 .. Len(marks) : j < k =>
              /\ marks[j].depth <= kept
              /\ \/ marks[j].blk < marks[k].blk
                 \/ marks[j].blk = marks[k].blk /\ marks[j].off <= marks[k].off
      <3>1. \A k \in 1 .. Len(marks) : split(k, marks[k].depth)
        BY DEF MarksSplit, Laid
      <3>2. marks' = marks /\ Len(live') = Len(live) + 1
        BY <1>2, <1>a
      <3> QED BY <3>1, <3>2, Zenon DEF MarksSplit
    <2>1. /\ marks[m].blk \in 1 .. Current /\ marks[m].blk \in 1 .. Len(List)
          /\ marks[m].off <= List[marks[m].blk].used
          /\ marks[m].off \in Nat /\ marks[m].depth \in Nat
          /\ marks[m].depth <= Len(live) /\ Len(live) \in Nat
          /\ List[marks[m].blk].used \in Nat
      <3>1. /\ marks[m].blk \in 1 .. Current
            /\ marks[m].off <= List[marks[m].blk].used
            /\ marks[m].depth <= Len(live)
        BY ListFacts
      <3>2. marks[m].off \in Nat /\ marks[m].depth \in Nat
        BY Elements
      <3>3. marks[m].blk \in 1 .. Len(List)
        BY <1>0, <3>1
      <3> QED BY <1>0, <3>1, <3>2, <3>3, ListFacts
    <2>2. marks[m].blk \in Nat /\ marks[m].blk \in 1 .. Len(blocks') /\ marks[m].blk <= last'
      <3>1. /\ Current \in Nat /\ Len(List) \in Nat /\ Len(blocks') \in Nat /\ last' \in Nat
            /\ Current <= Len(List) /\ Len(List) <= Len(blocks') /\ last' >= Current
        BY <1>0, <1>1
      <3>2. marks[m].blk \in 1 .. Current
        BY <2>1
      <3> QED BY <3>1, <3>2, WidenRange
    <2>3. marks[m].off <= blocks'[marks[m].blk].used
      <3>1. /\ blocks'[marks[m].blk].used >= List[marks[m].blk].used
            /\ blocks'[marks[m].blk].used \in Nat
        BY <1>4, <1>4a, <2>1
      <3>2. List[marks[m].blk].used <= blocks'[marks[m].blk].used
        BY <2>1, <3>1
      <3> QED BY <2>1, <3>1, <3>2, LeqTrans, Zenon
    <2>4. Before(marks[m].blk, marks[m].off, r)
      <3>1. CASE marks[m].blk = last'
        <4>1. o = List[last'].used
          BY <1>0, <1>a, <2>1, <3>1
        <4> QED BY <1>1, <2>1, <3>1, <4>1 DEF Before
      <3>2. CASE marks[m].blk # last'
        BY <1>1, <1>3, <2>2, <3>2 DEF Before
      <3> QED BY <3>1, <3>2
    <2>5. ASSUME NEW i \in 1 .. (Len(live) + 1)
          PROVE  IF i <= marks[m].depth
                 THEN EndsBy(live'[i], marks[m].blk, marks[m].off)
                 ELSE Before(marks[m].blk, marks[m].off, live'[i])
      <3>1. CASE i \in 1 .. Len(live)
        BY <1>2, <3>1 DEF Laid, MarksSplit
      <3>2. CASE i = Len(live) + 1
        BY <1>2, <2>1, <2>4, <3>2
      <3> QED BY <2>1, <3>1, <3>2
    <2>6. marks[m].depth <= Len(live) + 1
      BY <1>0, <2>1
    <2> QED BY <2>2, <2>3, <2>5, <2>6
  <1> QED BY <1>4c, <1>6, <1>7, <1>8 DEF Laid

LEMMA AllocFitAdded ==
  ASSUME TypeOK, Laid, NEW n \in Sizes, AllocFit(n)
  PROVE  \E o \in Nat : Added(n, o)
  <1>1. PICK k \in Current .. Len(List) :
          /\ CanFit(List[k], n)
          /\ live' = Append(live, [blk |-> k, off |-> List[k].used, size |-> n])
          /\ blocks' = [List EXCEPT ![k].used = @ + n]
          /\ last' = k
    BY DEF AllocFit
  <1>2. /\ k \in 1 .. Len(List) /\ k >= Current /\ n \in Nat
        /\ List[k] \in Block /\ List[k].used \in Nat /\ List[k].size \in Nat
    BY ListFacts, SizesNat
  <1> DEFINE b == [List[k] EXCEPT !.used = @ + n]
  <1>3. b \in Block /\ b.used = List[k].used + n /\ b.size = List[k].size
    BY <1>2 DEF Block
  <1>4. blocks' = [List EXCEPT ![k] = b]
    BY <1>1
  <1> HIDE DEF b
  <1>5. /\ blocks' \in Seq(Block) /\ Len(blocks') = Len(List)
        /\ \A j \in 1 .. Len(List) : blocks'[j] = IF j = k THEN b ELSE List[j]
    BY <1>2, <1>3, <1>4, ListFacts, ExceptSeq
  <1>6. /\ blocks'[k].used = List[k].used + n /\ blocks'[k].used <= blocks'[k].size
        /\ \A j \in 1 .. Len(blocks') : j # k => j <= Len(List) /\ blocks'[j] = List[j]
    BY <1>1, <1>2, <1>3, <1>5, ListFacts DEF CanFit
  <1>7. UNCHANGED <<marks, status>>
    BY DEF AllocFit
  <1>8. /\ Len(blocks') >= Len(List) /\ last' \in 1 .. Len(blocks') /\ last' >= Current
        /\ List[k].used = IF last' <= Len(List) THEN List[last'].used ELSE 0
    BY <1>1, <1>2, <1>5, ListFacts
  <1>9. Added(n, List[k].used)
    BY <1>1, <1>5, <1>6, <1>7, <1>8 DEF Added
  <1> QED BY <1>2, <1>9

LEMMA AllocNewAdded ==
  ASSUME TypeOK, Laid, NEW n \in Sizes, AllocNew(n)
  PROVE  \E o \in Nat : Added(n, o)
  <1> DEFINE b == [size |-> BlockSize(n), used |-> n]
             k == Len(List) + 1
  <1>1. n \in Nat /\ BlockSize(n) \in Nat /\ BlockSize(n) >= n
    BY SizesNat, BlockSizeFits
  <1>2. b \in Block /\ b.used = n /\ b.size = BlockSize(n)
    BY <1>1 DEF Block
  <1>3. /\ blocks' = Append(List, b) /\ last' = k /\ UNCHANGED <<marks, status>>
        /\ live' = Append(live, [blk |-> k, off |-> 0, size |-> n])
    BY DEF AllocNew
  <1> HIDE DEF b
  <1>4. /\ blocks' \in Seq(Block) /\ Len(blocks') = k
        /\ \A j \in 1 .. Len(List) : blocks'[j] = List[j]
        /\ blocks'[k] = b
    BY <1>2, <1>3, ListFacts, AppendProperties
  <1>5. /\ k \in 1 .. Len(blocks') /\ k >= Current /\ ~(k <= Len(List))
        /\ Len(blocks') >= Len(List)
        /\ \A j \in 1 .. Len(blocks') : j # k => j <= Len(List) /\ blocks'[j] = List[j]
    BY <1>4, ListFacts
  <1>6. blocks'[k].used = 0 + n /\ blocks'[k].used <= blocks'[k].size
    BY <1>1, <1>2, <1>4
  <1> HIDE DEF k
  <1>7. Added(n, 0)
    BY <1>3, <1>4, <1>5, <1>6 DEF Added
  <1> QED BY <1>7

LEMMA AllocLaid ==
  ASSUME TypeOK, Laid, NEW n \in Sizes, AllocFit(n) \/ AllocNew(n)
  PROVE  TypeOK' /\ Laid'
  BY AllocFitAdded, AllocNewAdded, AddRegion

(* Steps that only initialise the list, or leave it alone.                 *)
LEMMA ListLaid ==
  ASSUME TypeOK, Laid, blocks' = List, last' = Current, UNCHANGED <<live, marks, status>>
  PROVE  TypeOK' /\ Laid'
  <1>1. TypeOK'
    BY ListFacts DEF TypeOK
  <1>2. LiveInOrder'
    BY ListFacts DEF Laid, LiveInOrder
  <1>3. RestIsEmpty'
    BY ListFacts DEF RestIsEmpty
  <1>4. MarksSplit'
    BY ListFacts DEF Laid, MarksSplit
  <1> QED BY <1>1, <1>2, <1>3, <1>4 DEF Laid

LEMMA MarkLaid ==
  ASSUME TypeOK, Laid, Mark
  PROVE  TypeOK' /\ Laid'
  <1> DEFINE k == [blk |-> Current, off |-> List[Current].used, depth |-> Len(live)]
  <1>1. /\ Len(marks) \in Nat /\ Len(live) \in Nat
        /\ Current \in 1 .. Len(List) /\ Len(List) \in Nat
        /\ Current \in Nat \ {0} /\ List[Current].used \in Nat
    BY ListFacts, Elements
  <1>2. k \in Marker /\ k.blk = Current /\ k.off = List[Current].used /\ k.depth = Len(live)
    BY <1>1 DEF Marker
  <1>3. marks \in Seq(Marker) /\ marks' = Append(marks, k)
    BY DEF TypeOK, Mark
  <1> HIDE DEF k
  <1>4. /\ marks' \in Seq(Marker) /\ Len(marks') = Len(marks) + 1
        /\ \A m \in 1 .. Len(marks) : marks'[m] = marks[m]
        /\ marks'[Len(marks) + 1] = k
    BY <1>2, <1>3, AppendProperties
  <1>5. blocks' = List /\ last' = Current /\ UNCHANGED <<live, status>>
    BY DEF Mark
  <1>6. TypeOK'
    BY <1>4, <1>5, ListFacts DEF TypeOK
  <1>7. LiveInOrder' /\ RestIsEmpty'
    BY <1>5, ListFacts DEF Laid, LiveInOrder, RestIsEmpty
  <1>8. ASSUME NEW m \in 1 .. (Len(marks) + 1)
        PROVE  /\ marks'[m].blk <= Current
               /\ marks'[m].off <= List[marks'[m].blk].used
               /\ marks'[m].depth <= Len(live)
               /\ \A i \in 1 .. Len(live) :
                    IF i <= marks'[m].depth
                    THEN EndsBy(live[i], marks'[m].blk, marks'[m].off)
                    ELSE Before(marks'[m].blk, marks'[m].off, live[i])
               /\ \A n \in 1 .. (Len(marks) + 1) : n < m =>
                    /\ marks'[n].depth <= marks'[m].depth
                    /\ \/ marks'[n].blk < marks'[m].blk
                       \/ marks'[n].blk = marks'[m].blk /\ marks'[n].off <= marks'[m].off
    <2>1. CASE m \in 1 .. Len(marks)
      <3>1. marks'[m] = marks[m] /\ marks[m].blk <= Current
            /\ marks[m].off <= List[marks[m].blk].used /\ marks[m].depth <= Len(live)
        BY <1>4, <2>1, ListFacts
      <3>2. \A n \in 1 .. (Len(marks) + 1) : n < m => n \in 1 .. Len(marks)
        BY <1>1, <2>1
      <3> QED BY <1>4, <2>1, <3>1, <3>2 DEF Laid, MarksSplit
    <2>2. CASE m = Len(marks) + 1
      <3>1. marks'[m] = k
        BY <1>4, <2>2
      <3>2. \A i \in 1 .. Len(live) : EndsBy(live[i], Current, List[Current].used)
        <4> TAKE i \in 1 .. Len(live)
        <4>1. /\ live[i].blk \in 1 .. Current
              /\ live[i].off + live[i].size <= List[live[i].blk].used
          BY ListFacts
        <4> QED BY <1>1, <4>1 DEF EndsBy
      <3>3. ASSUME NEW n \in 1 .. (Len(marks) + 1), n < m
            PROVE  /\ marks'[n].depth <= k.depth
                   /\ \/ marks'[n].blk < k.blk
                      \/ marks'[n].blk = k.blk /\ marks'[n].off <= k.off
        <4>1. n \in 1 .. Len(marks) /\ marks'[n] = marks[n]
          BY <1>1, <1>4, <2>2, <3>3
        <4>2. /\ marks[n].blk \in 1 .. Current
              /\ marks[n].off <= List[marks[n].blk].used
              /\ marks[n].depth <= Len(live)
          BY <4>1, ListFacts
        <4> QED BY <1>1, <1>2, <4>1, <4>2
      <3>4. k.blk <= Current /\ k.off <= List[k.blk].used /\ k.depth <= Len(live)
        BY <1>1, <1>2
      <3>5. \A i \in 1 .. Len(live) : i <= k.depth /\ EndsBy(live[i], k.blk, k.off)
        BY <1>1, <1>2, <3>2
      <3> QED BY <3>1, <3>3, <3>4, <3>5
    <2> QED BY <1>1, <2>1, <2>2
  <1>9. MarksSplit'
    BY <1>4, <1>5, <1>8 DEF MarksSplit
  <1> QED BY <1>6, <1>7, <1>9 DEF Laid

(* Going back to a marker keeps the allocations before it where they are.  *)
LEMMA ResetFacts ==
  ASSUME TypeOK, Laid, NEW i \in 1 .. Len(marks), ResetToMarker(i)
  PROVE  /\ marks[i].depth \in 0 .. Len(live)
         /\ live' \in Seq(Region) /\ Len(live') = marks[i].depth
         /\ \A j \in 1 .. marks[i].depth : j \in 1 .. Len(live) /\ live'[j] = live[j]
         /\ marks' \in Seq(Marker) /\ Len(marks') = i
         /\ \A m \in 1 .. i : m \in 1 .. Len(marks) /\ marks'[m] = marks[m]
  <1>1. /\ Len(marks) \in Nat /\ Len(live) \in Nat /\ i \in Nat /\ i <= Len(marks)
        /\ marks[i].depth \in Nat
    BY Elements
  <1>2. marks[i].depth <= Len(live)
    BY DEF Laid, MarksSplit
  <1>3. live \in Seq(Region) /\ marks \in Seq(Marker)
    BY DEF TypeOK
  <1>4. \A j \in 1 .. marks[i].depth : j \in 1 .. Len(live) /\ live[j] \in Region
    BY <1>1, <1>2, Elements
  <1>5. \A m \in 1 .. i : m \in 1 .. Len(marks) /\ marks[m] \in Marker
    BY <1>1, Elements
  <1>6. live' = SubSeq(live, 1, marks[i].depth) /\ marks' = SubSeq(marks, 1, i)
    BY DEF ResetToMarker
  <1>7. /\ live' \in Seq(Region) /\ Len(live') = marks[i].depth
        /\ \A j \in 1 .. marks[i].depth : live'[j] = live[j]
    BY <1>1, <1>3, <1>4, <1>6, SubSeqProperties
  <1>8. /\ marks' \in Seq(Marker) /\ Len(marks') = i
        /\ \A m \in 1 .. i : marks'[m] = marks[m]
    BY <1>1, <1>3, <1>5, <1>6, SubSeqProperties
  <1> QED BY <1>1, <1>2, <1>4, <1>5, <1>7, <1>8

LEMMA ResetToMarkerLaid ==
  ASSUME TypeOK, Laid, NEW i \in 1 .. Len(marks), ResetToMarker(i)
  PROVE  TypeOK' /\ Laid'
  <1> DEFINE b == marks[i].blk
             o == marks[i].off
  <1>1. /\ b \in Nat \ {0} /\ o \in Nat /\ b <= last /\ o <= blocks[b].used
        /\ i \in Nat /\ Len(blocks) \in Nat
    BY Elements DEF Laid, MarksSplit
  <1>2. blocks # << >> /\ last \in 1 .. Len(blocks) /\ b \in 1 .. Len(blocks)
    BY <1>1 DEF TypeOK
  <1>3. /\ last' = b /\ status' = status
        /\ blocks' = [k \in 1 .. Len(blocks) |->
             [blocks[k] EXCEPT !.used = CASE k < b -> @ [] k = b -> o [] k > b -> 0]]
    BY DEF ResetToMarker
  <1>4. ASSUME NEW k \in 1 .. Len(blocks)
        PROVE  /\ blocks'[k] \in Block
               /\ blocks'[k].used = (IF k < b THEN blocks[k].used ELSE IF k = b THEN o ELSE 0)
               /\ blocks'[k].used \in Nat /\ blocks'[k].used <= blocks'[k].size
    <2>1. /\ blocks[k] \in Block /\ blocks[k].used \in Nat /\ blocks[k].size \in Nat
          /\ blocks[k].used <= blocks[k].size
      BY Elements
    <2>2. CASE k < b
      <3>1. blocks'[k] = [blocks[k] EXCEPT !.used = @]
        BY <1>1, <1>3, <2>2
      <3> QED BY <2>1, <2>2, <3>1 DEF Block
    <2>3. CASE k = b
      <3>1. blocks'[k] = [blocks[k] EXCEPT !.used = o]
        BY <1>1, <1>3, <2>3
      <3>2. blocks'[k] \in Block /\ blocks'[k].used = o /\ blocks'[k].size = blocks[k].size
        BY <1>1, <2>1, <3>1 DEF Block
      <3> QED BY <1>1, <2>1, <2>3, <3>2
    <2>4. CASE k > b
      <3>1. blocks'[k] = [blocks[k] EXCEPT !.used = 0]
        BY <1>1, <1>3, <2>4
      <3>2. blocks'[k] \in Block /\ blocks'[k].used = 0 /\ blocks'[k].size = blocks[k].size
        BY <2>1, <3>1 DEF Block
      <3> QED BY <1>1, <2>1, <2>4, <3>2
    <2> QED BY <1>1, <2>2, <2>3, <2>4
  <1>5. blocks' \in Seq(Block) /\ Len(blocks') = Len(blocks)
    <2> DEFINE e(k) ==
          [blocks[k] EXCEPT !.used = CASE k < b -> @ [] k = b -> o [] k > b -> 0]
    <2>1. blocks' = [k \in 1 .. Len(blocks) |-> e(k)]
      BY <1>3
    <2>2. \A k \in 1 .. Len(blocks) : blocks'[k] \in Block
      BY <1>4
    <2> HIDE DEF e
    <2>3. blocks' = [k \in 1 .. Len(blocks) |-> blocks'[k]]
      BY <2>1
    <2>4. blocks' \in [1 .. Len(blocks) -> Block]
      BY <2>2, <2>3
    <2> QED BY <1>1, <2>4
  <1> HIDE DEF b, o
  <1>6. TypeOK'
    <2>1. blocks' # << >>
      BY <1>1, <1>2, <1>5
    <2> QED BY <1>2, <1>3, <1>4, <1>5, <2>1, ResetFacts DEF TypeOK
  <1>7. LiveInOrder'
    <2>1. ASSUME NEW j \in 1 .. marks[i].depth
          PROVE  live[j].blk <= b /\ live[j].off + live[j].size <= blocks'[live[j].blk].used
      <3>1. /\ j \in 1 .. Len(live) /\ live[j].blk \in Nat \ {0} /\ live[j].blk <= last
            /\ live[j].off + live[j].size <= blocks[live[j].blk].used
            /\ j <= marks[i].depth
        BY ResetFacts, Elements DEF Laid, LiveInOrder
      <3>2. EndsBy(live[j], b, o)
        BY <3>1 DEF Laid, MarksSplit, b, o
      <3>3. live[j].blk \in 1 .. Len(blocks)
        BY <1>1, <1>2, <3>1
      <3>4. CASE live[j].blk < b
        BY <1>1, <1>4, <3>1, <3>3, <3>4
      <3>5. CASE live[j].blk = b /\ live[j].off + live[j].size <= o
        <4>1. blocks'[live[j].blk].used = o
          BY <1>1, <1>4, <3>3, <3>5
        <4> QED BY <1>1, <3>5, <4>1
      <3> QED BY <3>2, <3>4, <3>5 DEF EndsBy
    <2>2. \A j, k \in 1 .. marks[i].depth : j < k => EndsBy(live[j], live[k].blk, live[k].off)
      BY ResetFacts DEF Laid, LiveInOrder
    <2> QED BY <1>3, <2>1, <2>2, ResetFacts DEF LiveInOrder
  <1>8. RestIsEmpty'
    <2> SUFFICES ASSUME NEW k \in 1 .. Len(blocks), k > b PROVE blocks'[k].used = 0
      BY <1>3, <1>5 DEF RestIsEmpty
    <2>1. ~(k < b) /\ k # b
      BY <1>1
    <2> QED BY <1>4, <2>1
  <1>9. MarksSplit'
    <2> SUFFICES ASSUME NEW m \in 1 .. i
                 PROVE  /\ marks[m].blk <= b
                        /\ marks[m].off <= blocks'[marks[m].blk].used
                        /\ marks[m].depth <= marks[i].depth
                        /\ \A j \in 1 .. marks[i].depth :
                             IF j <= marks[m].depth
                             THEN EndsBy(live[j], marks[m].blk, marks[m].off)
                             ELSE Before(marks[m].blk, marks[m].off, live[j])
                        /\ \A n \in 1 .. i : n < m =>
                             /\ marks[n].depth <= marks[m].depth
                             /\ \/ marks[n].blk < marks[m].blk
                                \/ marks[n].blk = marks[m].blk /\ marks[n].off <= marks[m].off
      <3> DEFINE d == marks[i].depth
      <3>1. /\ last' = b /\ Len(marks') = i /\ Len(live') = d /\ d \in Nat /\ i \in Nat
            /\ \A m \in 1 .. i : marks'[m] = marks[m]
            /\ \A j \in 1 .. d : live'[j] = live[j]
        BY <1>1, <1>3, ResetFacts
      <3> HIDE DEF d
      <3> SUFFICES ASSUME NEW m \in 1 .. Len(marks') PROVE
            /\ marks'[m].blk <= last'
            /\ marks'[m].off <= blocks'[marks'[m].blk].used
            /\ marks'[m].depth <= Len(live')
            /\ \A j \in 1 .. Len(live') :
                 IF j <= marks'[m].depth
                 THEN EndsBy(live'[j], marks'[m].blk, marks'[m].off)
                 ELSE Before(marks'[m].blk, marks'[m].off, live'[j])
            /\ \A n \in 1 .. Len(marks') : n < m =>
                 /\ marks'[n].depth <= marks'[m].depth
                 /\ \/ marks'[n].blk < marks'[m].blk
                    \/ marks'[n].blk = marks'[m].blk /\ marks'[n].off <= marks'[m].off
        BY DEF MarksSplit, EndsBy, Before
      <3>2. m \in 1 .. i /\ marks'[m] = marks[m]
        BY <3>1
      <3> QED BY <3>1, <3>2 DEF d
    <2>1. /\ m \in 1 .. Len(marks) /\ m \in Nat /\ m <= i
          /\ marks[m].blk \in Nat \ {0} /\ marks[m].off \in Nat /\ marks[m].depth \in Nat
          /\ marks[i].depth \in Nat
      BY <1>1, ResetFacts, Elements
    <2>2. /\ marks[m].depth <= marks[i].depth
          /\ \/ marks[m].blk < b
             \/ marks[m].blk = b /\ marks[m].off <= o
      <3>1. CASE m < i
        BY <2>1, <3>1 DEF Laid, MarksSplit, b, o
      <3>2. CASE m = i
        BY <2>1, <3>2 DEF b, o
      <3> QED BY <1>1, <2>1, <3>1, <3>2
    <2>3. marks[m].off <= blocks[marks[m].blk].used
      BY <2>1 DEF Laid, MarksSplit
    <2>4. marks[m].blk \in 1 .. Len(blocks) /\ marks[m].blk <= b
      BY <1>1, <1>2, <2>1, <2>2
    <2>5. marks[m].off <= blocks'[marks[m].blk].used
      <3>1. CASE marks[m].blk < b
        BY <1>4, <2>3, <2>4, <3>1
      <3>2. CASE marks[m].blk = b /\ marks[m].off <= o
        <4>1. blocks'[marks[m].blk].used = o
          BY <1>1, <1>4, <2>4, <3>2
        <4> QED BY <3>2, <4>1
      <3> QED BY <2>2, <3>1, <3>2
    <2>6. \A j \in 1 .. marks[i].depth :
            IF j <= marks[m].depth
            THEN EndsBy(live[j], marks[m].blk, marks[m].off)
            ELSE Before(marks[m].blk, marks[m].off, live[j])
      BY <2>1, ResetFacts DEF Laid, MarksSplit
    <2>7. \A n \in 1 .. i : n < m =>
            /\ marks[n].depth <= marks[m].depth
            /\ \/ marks[n].blk < marks[m].blk
               \/ marks[n].blk = marks[m].blk /\ marks[n].off <= marks[m].off
      BY <2>1, ResetFacts DEF Laid, MarksSplit
    <2> QED BY <2>2, <2>4, <2>5, <2>6, <2>7
  <1> QED BY <1>6, <1>7, <1>8, <1>9 DEF Laid

LEMMA EmptyLive ==
  ASSUME live' = << >>, marks' = << >>
  PROVE  LiveInOrder' /\ MarksSplit'
  BY DEF LiveInOrder, MarksSplit

LEMMA ResetLaid ==
  ASSUME TypeOK, Laid, Reset
  PROVE  TypeOK' /\ Laid'
  <1>1. /\ Len(blocks) \in Nat /\ blocks # << >> /\ last \in 1 .. Len(blocks)
        /\ blocks' = [k \in 1 .. Len(blocks) |-> [blocks[k] EXCEPT !.used = 0]]
        /\ last' = 1 /\ live' = << >> /\ marks' = << >> /\ status' = status
    BY Elements DEF Reset, TypeOK
  <1>2. \A k \in 1 .. Len(blocks) :
          blocks'[k] \in Block /\ blocks'[k].used = 0 /\ blocks'[k].size \in Nat
    BY <1>1, Elements DEF Block
  <1>3. blocks' \in Seq(Block) /\ Len(blocks') = Len(blocks)
    BY <1>1, <1>2
  <1>4. TypeOK'
    <2>1. blocks' # << >> /\ 1 \in 1 .. Len(blocks')
      BY <1>1, <1>3
    <2>2. \A k \in 1 .. Len(blocks') : blocks'[k].used <= blocks'[k].size
      BY <1>2, <1>3
    <2> QED BY <1>1, <1>3, <2>1, <2>2 DEF TypeOK
  <1>5. RestIsEmpty'
    BY <1>2, <1>3 DEF RestIsEmpty
  <1> QED BY <1>1, <1>4, <1>5, EmptyLive DEF Laid

LEMMA StopLaid ==
  ASSUME TypeOK, Laid, FreeAll \/ OutOfMemory
  PROVE  TypeOK' /\ Laid'
  <1>1. CASE FreeAll
    BY <1>1, EmptyLive DEF FreeAll, TypeOK, Laid, RestIsEmpty
  <1>2. CASE OutOfMemory
    BY <1>2 DEF OutOfMemory, TypeOK, Laid, LiveInOrder, RestIsEmpty, MarksSplit
  <1> QED BY <1>1, <1>2

LEMMA NextLaid ==
  ASSUME TypeOK, Laid, [Next]_vars
  PROVE  TypeOK' /\ Laid'
  <1>1. CASE UNCHANGED vars
    BY <1>1 DEF vars, TypeOK, Laid, LiveInOrder, RestIsEmpty, MarksSplit
  <1>2. CASE Size
    BY <1>2, ListLaid DEF Size
  <1> QED
    BY <1>1, <1>2, AllocLaid, MarkLaid, ResetToMarkerLaid,
       ResetLaid, StopLaid DEF Next

(* The list, the live allocations and the markers keep their layout.       *)
THEOREM Layout == Spec => [](TypeOK /\ Laid)
  <1>1. Init => TypeOK /\ Laid
    BY DEF Init, TypeOK, Laid, LiveInOrder, RestIsEmpty, MarksSplit
  <1>2. TypeOK /\ Laid /\ [Next]_vars => (TypeOK /\ Laid)'
    BY NextLaid
  <1> QED BY <1>1, <1>2, PTL DEF Spec

(* No block is filled beyond its size, and `last' is a block of the list.  *)
COROLLARY TypeCorrect == Spec => []TypeOK
  BY Layout, PTL

-----------------------------------------------------------------------------
(***************************************************************************)
(* Nothing leaks.  A cell is in use when its offset is below the use of    *)
(* its block; that some live allocation covers each such cell (Covered) is *)
(* inductive together with the layout: the layout says of a marker that    *)
(* what it gives up starts behind it, so what is in front of it stays      *)
(* covered by what is kept.                                                *)
(***************************************************************************)
Holds(r, k, c) == r.blk = k /\ r.off <= c /\ c < r.off + r.size

Covered ==
  status = "ok" =>
    \A k \in 1 .. Len(blocks) : \A c \in Nat :
      c < blocks[k].used => \E i \in 1 .. Len(live) : Holds(live[i], k, c)

LEMMA AddCovered ==
  ASSUME TypeOK, Laid, Covered, status = "ok", NEW n \in Sizes, NEW o \in Nat, Added(n, o)
  PROVE  Covered'
  <1> DEFINE r == [blk |-> last', off |-> o, size |-> n]
  <1>1. /\ Len(blocks') \in Nat /\ last' \in 1 .. Len(blocks') /\ Len(List) \in Nat
        /\ o = IF last' <= Len(List) THEN List[last'].used ELSE 0
        /\ blocks'[last'].used = o + n /\ n \in Nat
        /\ \A j \in 1 .. Len(blocks') : j # last' => j \in 1 .. Len(List) /\ blocks'[j] = List[j]
    <2>1. /\ blocks' \in Seq(Block) /\ last' \in 1 .. Len(blocks')
          /\ o = IF last' <= Len(List) THEN List[last'].used ELSE 0
          /\ blocks'[last'].used = o + n
          /\ \A j \in 1 .. Len(blocks') : j # last' => j <= Len(List) /\ blocks'[j] = List[j]
      BY DEF Added
    <2> QED BY <2>1, ListFacts, SizesNat
  <1>2. /\ Len(live') = Len(live) + 1 /\ Len(live) \in Nat
        /\ \A i \in 1 .. Len(live) : live'[i] = live[i]
        /\ live'[Len(live) + 1] = r
    <2>1. live \in Seq(Region) /\ live' = Append(live, r) /\ Len(live) \in Nat
      BY Elements DEF TypeOK, Added
    <2>2. last' \in Nat \ {0} /\ r \in Region
      BY <1>1 DEF Region
    <2> HIDE DEF r
    <2> QED BY <2>1, <2>2, AppendProperties
  <1>3. ASSUME NEW k \in 1 .. Len(List), NEW c \in Nat, c < List[k].used
        PROVE  \E i \in 1 .. Len(live) : Holds(live[i], k, c)
    <2>1. CASE blocks = << >>
      <3>1. k = 1 /\ List[k].used = 0
        BY <2>1, <1>3 DEF List
      <3> QED BY <3>1, <1>3
    <2>2. CASE blocks # << >>
      <3>1. List = blocks
        BY <2>2 DEF List
      <3> QED BY <3>1, <1>3 DEF Covered
    <2> QED BY <2>1, <2>2
  <1>4. ASSUME NEW k \in 1 .. Len(blocks'), NEW c \in Nat, c < blocks'[k].used
        PROVE  \E i \in 1 .. Len(live') : Holds(live'[i], k, c)
    <2>1. CASE k = last' /\ c >= o
      <3>1. Holds(r, k, c)
        BY <2>1, <1>1, <1>4 DEF Holds
      <3>2. Len(live) + 1 \in 1 .. Len(live')
        BY <1>2
      <3> QED BY <3>1, <3>2, <1>2
    <2>2. CASE k # last' \/ c < o
      <3>1. k \in 1 .. Len(List) /\ c < List[k].used
        <4>1. CASE k # last'
          BY <4>1, <1>1, <1>4
        <4>2. CASE k = last' /\ c < o
          BY <4>2, <1>1
        <4> QED BY <2>2, <4>1, <4>2
      <3>2. PICK i \in 1 .. Len(live) : Holds(live[i], k, c)
        BY <3>1, <1>3
      <3>3. i \in 1 .. Len(live') /\ live'[i] = live[i]
        BY <1>2
      <3> QED BY <3>2, <3>3
    <2> QED BY <2>1, <2>2, <1>1
  <1> QED BY <1>4 DEF Covered

LEMMA ListCovered ==
  ASSUME Covered, blocks' = List, UNCHANGED <<live, status>>
  PROVE  Covered'
  <1>1. CASE blocks = << >>
    <2>1. Len(List) = 1 /\ List[1].used = 0
      BY <1>1 DEF List
    <2> QED BY <2>1 DEF Covered
  <1>2. CASE blocks # << >>
    BY <1>2 DEF Covered, List
  <1> QED BY <1>1, <1>2

LEMMA ResetToMarkerCovered ==
  ASSUME TypeOK, Laid, Covered, NEW i \in 1 .. Len(marks), ResetToMarker(i)
  PROVE  Covered'
  <1> DEFINE b == marks[i].blk
             o == marks[i].off
             d == marks[i].depth
  <1>1. /\ b \in Nat \ {0} /\ o \in Nat /\ o <= blocks[b].used
        /\ Len(blocks) \in Nat /\ status = "ok" /\ b \in 1 .. Len(blocks)
    <2>1. /\ b \in Nat \ {0} /\ o \in Nat /\ b <= last /\ o <= blocks[b].used
          /\ Len(blocks) \in Nat
      BY Elements DEF Laid, MarksSplit
    <2>2. last \in 1 .. Len(blocks)
      BY <2>1 DEF TypeOK
    <2> QED BY <2>1, <2>2 DEF ResetToMarker
  <1>2. blocks' = [k \in 1 .. Len(blocks) |->
          [blocks[k] EXCEPT !.used = CASE k < b -> @ [] k = b -> o [] k > b -> 0]]
    BY DEF ResetToMarker
  <1>3. ASSUME NEW k \in 1 .. Len(blocks), NEW c \in Nat, c < blocks'[k].used
        PROVE  /\ k < b \/ (k = b /\ c < o)
               /\ c < blocks[k].used
    <2>1. blocks[k] \in Block /\ blocks[k].used \in Nat
      BY Elements
    <2>2. CASE k < b
      <3>1. blocks'[k] = [blocks[k] EXCEPT !.used = @]
        BY <1>1, <1>2, <2>2
      <3>2. blocks'[k].used = blocks[k].used
        BY <2>1, <3>1 DEF Block
      <3> QED BY <3>2, <2>2, <1>3
    <2>3. CASE k = b
      <3>1. blocks'[k] = [blocks[k] EXCEPT !.used = o]
        BY <1>1, <1>2, <2>3
      <3>2. blocks'[k].used = o
        BY <2>1, <3>1 DEF Block
      <3> QED BY <3>2, <2>1, <2>3, <1>1, <1>3
    <2>4. CASE k > b
      <3>1. blocks'[k] = [blocks[k] EXCEPT !.used = 0]
        BY <1>1, <1>2, <2>4
      <3>2. blocks'[k].used = 0
        BY <2>1, <3>1 DEF Block
      <3> QED BY <3>2, <1>3
    <2> QED BY <1>1, <2>2, <2>3, <2>4
  <1>4. Len(blocks') = Len(blocks)
    BY <1>1, <1>2
  <1> HIDE DEF b, o, d
  <1>5. ASSUME NEW k \in 1 .. Len(blocks), NEW c \in Nat, c < blocks'[k].used
        PROVE  \E j \in 1 .. Len(live') : Holds(live'[j], k, c)
    <2>1. (k < b \/ (k = b /\ c < o)) /\ c < blocks[k].used
      BY <1>3, <1>5
    <2>2. PICK j \in 1 .. Len(live) : Holds(live[j], k, c)
      BY <1>1, <2>1 DEF Covered
    <2>3. live[j].blk \in Nat /\ live[j].off \in Nat /\ d \in Nat /\ j \in Nat
      BY Elements DEF d
    <2>4. ~Before(b, o, live[j])
      BY <1>1, <2>1, <2>2, <2>3 DEF Before, Holds
    <2>5. j <= d
      BY <2>4 DEF Laid, MarksSplit, b, o, d
    <2>6. j \in 1 .. d
      BY <2>3, <2>5
    <2>7. Len(live') = d /\ live'[j] = live[j]
      BY <2>6, ResetFacts DEF d
    <2> QED BY <2>2, <2>6, <2>7
  <1> QED BY <1>4, <1>5 DEF Covered

LEMMA ResetCovered ==
  ASSUME TypeOK, Reset
  PROVE  Covered'
  <1>1. /\ Len(blocks) \in Nat
        /\ blocks' = [k \in 1 .. Len(blocks) |-> [blocks[k] EXCEPT !.used = 0]]
    BY Elements DEF Reset
  <1>2. \A k \in 1 .. Len(blocks) : blocks'[k].used = 0
    BY <1>1, Elements DEF Block
  <1> QED BY <1>1, <1>2 DEF Covered

LEMMA PairsOf ==
  ASSUME NEW b, NEW S, NEW p
  PROVE  p \in {b} \X S <=> \E c \in S : p = <<b, c>>
  OBVIOUS

LEMMA NextCovered ==
  ASSUME TypeOK, Laid, Covered, [Next]_vars
  PROVE  Covered'
  <1>1. CASE UNCHANGED vars
    BY <1>1 DEF vars, Covered
  <1>2. ASSUME NEW n \in Sizes, AllocFit(n) \/ AllocNew(n)
        PROVE  Covered'
    <2>1. PICK o \in Nat : Added(n, o)
      BY <1>2, AllocFitAdded, AllocNewAdded
    <2>2. status = "ok"
      BY <1>2 DEF AllocFit, AllocNew
    <2> QED BY <2>1, <2>2, AddCovered
  <1>3. CASE Mark \/ Size
    BY <1>3, ListCovered DEF Mark, Size
  <1>4. CASE FreeAll \/ OutOfMemory
    BY <1>4 DEF FreeAll, OutOfMemory, Covered
  <1> QED BY <1>1, <1>2, <1>3, <1>4, ResetToMarkerCovered, ResetCovered DEF Next

(* Every byte that the arena counts as used belongs to an allocation that  *)
(* its callers hold, and the other way round (NothingLeaks), whichever     *)
(* blocks were passed over and however often they went back to markers.    *)
THEOREM NoByteLost == Spec => []NothingLeaks
  <1>1. Init => Covered
    BY DEF Init, Covered
  <1>2. TypeOK /\ Laid /\ Covered /\ [Next]_vars => Covered'
    BY NextCovered
  <1>3. TypeOK /\ Laid /\ Covered => NothingLeaks
    <2> SUFFICES ASSUME TypeOK, Laid, Covered, status = "ok"
                 PROVE  InUse = UNION {Cells(live[i]) : i \in 1 .. Len(live)}
      BY DEF NothingLeaks
    <2> DEFINE Cell(k, c) == k \in 1 .. Len(blocks) /\ c \in Nat /\ c < blocks[k].used
    <2>1. ASSUME NEW p
          PROVE  p \in InUse <=> \E k, c : p = <<k, c>> /\ Cell(k, c)
      <3>1. \A k \in 1 .. Len(blocks) : \A c :
              c \in 0 .. (blocks[k].used - 1) <=> c \in Nat /\ c < blocks[k].used
        BY Elements
      <3> DEFINE Row(k) == 0 .. (blocks[k].used - 1)
      <3>2. p \in InUse <=> \E k \in 1 .. Len(blocks) : p \in {k} \X Row(k)
        BY Zenon DEF InUse
      <3>3. \A k : \A c : c \in Row(k) <=> c \in 0 .. (blocks[k].used - 1)
        OBVIOUS
      <3> HIDE DEF Row
      <3>4. ASSUME NEW k
            PROVE  p \in {k} \X Row(k) <=> \E c \in Row(k) : p = <<k, c>>
        <4> DEFINE S == Row(k)
        <4> HIDE DEF S
        <4>1. p \in {k} \X S <=> \E c \in S : p = <<k, c>>
          BY PairsOf
        <4> QED BY <4>1 DEF S
      <3>5. \A k \in 1 .. Len(blocks) : \A c :
              c \in Row(k) <=> c \in Nat /\ c < blocks[k].used
        BY <3>1, <3>3, Zenon
      <3>6. p \in InUse <=> \E k \in 1 .. Len(blocks) : \E c \in Row(k) : p = <<k, c>>
        BY <3>2, <3>4, Zenon
      <3> QED BY <3>5, <3>6
    <2>2. ASSUME NEW p
          PROVE  p \in UNION {Cells(live[i]) : i \in 1 .. Len(live)}
                   <=> \E i \in 1 .. Len(live) : \E k, c :
                         p = <<k, c>> /\ c \in Nat /\ Holds(live[i], k, c)
      <3>1. \A i \in 1 .. Len(live) : \A c :
              c \in live[i].off .. (live[i].off + live[i].size - 1)
                <=> c \in Nat /\ live[i].off <= c /\ c < live[i].off + live[i].size
        BY Elements
      <3>2. p \in UNION {Cells(live[i]) : i \in 1 .. Len(live)}
              <=> \E i \in 1 .. Len(live) : p \in Cells(live[i])
        BY Zenon
      <3>3. \A r : p \in Cells(r) <=> \E c \in r.off .. (r.off + r.size - 1) : p = <<r.blk, c>>
        BY PairsOf DEF Cells
      <3> QED BY <3>1, <3>2, <3>3, Zenon DEF Holds
    <2>3. ASSUME NEW k, NEW c, Cell(k, c)
          PROVE  \E i \in 1 .. Len(live) : Holds(live[i], k, c)
      BY <2>3 DEF Covered
    <2>4. ASSUME NEW i \in 1 .. Len(live), NEW k, NEW c \in Nat, Holds(live[i], k, c)
          PROVE  Cell(k, c)
      <3>1. /\ live[i].blk \in Nat \ {0} /\ live[i].off \in Nat /\ live[i].size \in Nat
            /\ live[i].blk <= last /\ live[i].off + live[i].size <= blocks[live[i].blk].used
        BY Elements DEF Laid, LiveInOrder
      <3>2. k = live[i].blk /\ c < live[i].off + live[i].size
        BY <2>4 DEF Holds
      <3>3. Len(blocks) \in Nat /\ last \in 1 .. Len(blocks)
        BY <3>1, Elements DEF TypeOK
      <3>4. k \in 1 .. Len(blocks)
        BY <3>1, <3>2, <3>3
      <3>5. blocks[k].used \in Nat
        BY <3>4, Elements
      <3> QED BY <3>1, <3>2, <3>4, <3>5
    <2>5. \A k, c : Cell(k, c) => c \in Nat
      OBVIOUS
    <2> HIDE DEF Cell
    <2> DEFINE Used == InUse
               Held == UNION {Cells(live[i]) : i \in 1 .. Len(live)}
    <2>6. ASSUME NEW p
          PROVE  p \in Used <=> p \in Held
      <3>1. ASSUME p \in Used PROVE p \in Held
        <4>1. PICK k, c : p = <<k, c>> /\ Cell(k, c)
          BY <2>1, <3>1
        <4>2. PICK i \in 1 .. Len(live) : Holds(live[i], k, c)
          BY <2>3, <4>1
        <4> QED BY <2>2, <2>5, <4>1, <4>2, Zenon
      <3>2. ASSUME p \in Held PROVE p \in Used
        <4>1. PICK i \in 1 .. Len(live) : \E k, c :
                p = <<k, c>> /\ c \in Nat /\ Holds(live[i], k, c)
          BY <2>2, <3>2, Zenon
        <4>2. PICK k, c : p = <<k, c>> /\ c \in Nat /\ Holds(live[i], k, c)
          BY <4>1
        <4> QED BY <2>1, <2>4, <4>2, Zenon
      <3> QED BY <3>1, <3>2
    <2> HIDE DEF Used, Held
    <2>7. Used = Held
      BY <2>6
    <2> QED BY <2>7 DEF Used, Held
  <1> QED BY <1>1, <1>2, <1>3, Layout, PTL DEF Spec

-----------------------------------------------------------------------------
(***************************************************************************)
(* The mapping to Arena: the cells of the live allocations, and how many   *)
(* allocations each marker keeps.                                          *)
(***************************************************************************)
CellSets == {Cells(r) : r \in Region}
CellsOf(s) == [i \in 1 .. Len(s) |-> Cells(s[i])]
DepthsOf(s) == [m \in 1 .. Len(s) |-> s[m].depth]

LEMMA MappedLive ==
  ASSUME NEW s \in Seq(Region)
  PROVE  /\ CellsOf(s) \in Seq(CellSets) /\ Len(CellsOf(s)) = Len(s) /\ Len(s) \in Nat
         /\ \A i \in 1 .. Len(s) : CellsOf(s)[i] = Cells(s[i]) /\ Cells(s[i]) \in CellSets
  <1>1. Len(s) \in Nat /\ \A i \in 1 .. Len(s) : s[i] \in Region
    OBVIOUS
  <1>2. \A i \in 1 .. Len(s) : Cells(s[i]) \in CellSets
    BY <1>1 DEF CellSets
  <1>3. CellsOf(s) \in [1 .. Len(s) -> CellSets]
    BY <1>2 DEF CellsOf
  <1>4. \A i \in 1 .. Len(s) : CellsOf(s)[i] = Cells(s[i])
    BY DEF CellsOf
  <1>5. CellsOf(s) \in Seq(CellSets) /\ Len(CellsOf(s)) = Len(s)
    BY <1>1, <1>3
  <1> QED BY <1>1, <1>2, <1>4, <1>5

LEMMA MappedDepths ==
  ASSUME NEW s \in Seq(Marker)
  PROVE  /\ DepthsOf(s) \in Seq(Nat) /\ Len(DepthsOf(s)) = Len(s) /\ Len(s) \in Nat
         /\ \A m \in 1 .. Len(s) : DepthsOf(s)[m] = s[m].depth /\ s[m].depth \in Nat
  <1>1. Len(s) \in Nat /\ \A m \in 1 .. Len(s) : s[m] \in Marker
    OBVIOUS
  <1>2. \A m \in 1 .. Len(s) : s[m].depth \in Nat
    BY <1>1 DEF Marker
  <1>3. DepthsOf(s) \in [1 .. Len(s) -> Nat]
    BY <1>2 DEF DepthsOf
  <1>4. \A m \in 1 .. Len(s) : DepthsOf(s)[m] = s[m].depth
    BY DEF DepthsOf
  <1>5. DepthsOf(s) \in Seq(Nat) /\ Len(DepthsOf(s)) = Len(s)
    BY <1>1, <1>3
  <1> QED BY <1>1, <1>2, <1>4, <1>5

LEMMA MapAppend ==
  ASSUME NEW s \in Seq(Region), NEW r \in Region
  PROVE  CellsOf(Append(s, r)) = Append(CellsOf(s), Cells(r))
  <1> DEFINE a == CellsOf(Append(s, r))
             b == Append(CellsOf(s), Cells(r))
  <1>1. /\ Append(s, r) \in Seq(Region) /\ Len(Append(s, r)) = Len(s) + 1
        /\ \A i \in 1 .. Len(s) : Append(s, r)[i] = s[i]
        /\ Append(s, r)[Len(s) + 1] = r
    BY AppendProperties
  <1>2. /\ a \in Seq(CellSets) /\ Len(a) = Len(s) + 1 /\ Len(s) \in Nat
        /\ \A i \in 1 .. (Len(s) + 1) : a[i] = Cells(Append(s, r)[i])
    BY <1>1, MappedLive
  <1>3. Cells(r) \in CellSets
    BY DEF CellSets
  <1>4. /\ b \in Seq(CellSets) /\ Len(b) = Len(s) + 1
        /\ \A i \in 1 .. Len(s) : b[i] = Cells(s[i])
        /\ b[Len(s) + 1] = Cells(r)
    BY <1>3, MappedLive, AppendProperties
  <1>5. \A i \in 1 .. (Len(s) + 1) : a[i] = b[i]
    <2> TAKE i \in 1 .. (Len(s) + 1)
    <2>1. i \in 1 .. Len(s) \/ i = Len(s) + 1
      BY <1>2
    <2> QED BY <1>1, <1>2, <1>4, <2>1
  <1> HIDE DEF a, b
  <1>6. a = b
    BY <1>2, <1>4, <1>5, SeqEqual
  <1> QED BY <1>6 DEF a, b

LEMMA MapSubSeq ==
  ASSUME NEW s \in Seq(Region), NEW n \in 0 .. Len(s)
  PROVE  CellsOf(SubSeq(s, 1, n)) = SubSeq(CellsOf(s), 1, n)
  <1> DEFINE a == CellsOf(SubSeq(s, 1, n))
             b == SubSeq(CellsOf(s), 1, n)
  <1>1. Len(s) \in Nat /\ n \in Nat /\ n <= Len(s) /\ \A i \in 1 .. n : i \in 1 .. Len(s)
    BY MappedLive
  <1>2. /\ SubSeq(s, 1, n) \in Seq(Region) /\ Len(SubSeq(s, 1, n)) = n
        /\ \A i \in 1 .. n : SubSeq(s, 1, n)[i] = s[i]
    <2>1. \A i \in 1 .. n : s[i] \in Region
      BY <1>1
    <2> QED BY <1>1, <2>1, SubSeqProperties
  <1>3. /\ a \in Seq(CellSets) /\ Len(a) = n /\ \A i \in 1 .. n : a[i] = Cells(s[i])
    BY <1>2, MappedLive
  <1>4. \A i \in 1 .. n : CellsOf(s)[i] = Cells(s[i]) /\ CellsOf(s)[i] \in CellSets
    BY <1>1, MappedLive
  <1>5. /\ b \in Seq(CellSets) /\ Len(b) = n /\ \A i \in 1 .. n : b[i] = CellsOf(s)[i]
    BY <1>1, <1>4, SubSeqProperties
  <1> HIDE DEF a, b
  <1>6. a = b
    BY <1>3, <1>4, <1>5, SeqEqual
  <1> QED BY <1>6 DEF a, b

LEMMA MapDepthAppend ==
  ASSUME NEW s \in Seq(Marker), NEW k \in Marker
  PROVE  DepthsOf(Append(s, k)) = Append(DepthsOf(s), k.depth)
  <1> DEFINE a == DepthsOf(Append(s, k))
             b == Append(DepthsOf(s), k.depth)
  <1>1. /\ Append(s, k) \in Seq(Marker) /\ Len(Append(s, k)) = Len(s) + 1
        /\ \A i \in 1 .. Len(s) : Append(s, k)[i] = s[i]
        /\ Append(s, k)[Len(s) + 1] = k
    BY AppendProperties
  <1>2. /\ a \in Seq(Nat) /\ Len(a) = Len(s) + 1 /\ Len(s) \in Nat
        /\ \A i \in 1 .. (Len(s) + 1) : a[i] = Append(s, k)[i].depth
    BY <1>1, MappedDepths
  <1>3. k.depth \in Nat
    BY DEF Marker
  <1>4. /\ b \in Seq(Nat) /\ Len(b) = Len(s) + 1
        /\ \A i \in 1 .. Len(s) : b[i] = s[i].depth
        /\ b[Len(s) + 1] = k.depth
    BY <1>3, MappedDepths, AppendProperties
  <1>5. \A i \in 1 .. (Len(s) + 1) : a[i] = b[i]
    <2> TAKE i \in 1 .. (Len(s) + 1)
    <2>1. i \in 1 .. Len(s) \/ i = Len(s) + 1
      BY <1>2
    <2> QED BY <1>1, <1>2, <1>4, <2>1
  <1> HIDE DEF a, b
  <1>6. a = b
    BY <1>2, <1>4, <1>5, SeqEqual
  <1> QED BY <1>6 DEF a, b

LEMMA MapDepthSubSeq ==
  ASSUME NEW s \in Seq(Marker), NEW n \in 1 .. Len(s)
  PROVE  DepthsOf(SubSeq(s, 1, n)) = SubSeq(DepthsOf(s), 1, n)
  <1> DEFINE a == DepthsOf(SubSeq(s, 1, n))
             b == SubSeq(DepthsOf(s), 1, n)
  <1>1. Len(s) \in Nat /\ n \in Nat /\ n <= Len(s) /\ \A i \in 1 .. n : i \in 1 .. Len(s)
    BY MappedDepths
  <1>2. /\ SubSeq(s, 1, n) \in Seq(Marker) /\ Len(SubSeq(s, 1, n)) = n
        /\ \A i \in 1 .. n : SubSeq(s, 1, n)[i] = s[i]
    <2>1. \A i \in 1 .. n : s[i] \in Marker
      BY <1>1
    <2> QED BY <1>1, <2>1, SubSeqProperties
  <1>3. /\ a \in Seq(Nat) /\ Len(a) = n /\ \A i \in 1 .. n : a[i] = s[i].depth
    BY <1>2, MappedDepths
  <1>4. \A i \in 1 .. n : DepthsOf(s)[i] = s[i].depth /\ DepthsOf(s)[i] \in Nat
    BY <1>1, MappedDepths
  <1>5. /\ b \in Seq(Nat) /\ Len(b) = n /\ \A i \in 1 .. n : b[i] = DepthsOf(s)[i]
    BY <1>1, <1>4, SubSeqProperties
  <1> HIDE DEF a, b
  <1>6. a = b
    BY <1>3, <1>4, <1>5, SeqEqual
  <1> QED BY <1>6 DEF a, b

LEMMA Disjoint ==
  ASSUME NEW r \in Region, NEW t \in Region, EndsBy(r, t.blk, t.off)
  PROVE  Cells(r) \cap Cells(t) = {}
  <1>1. /\ r.blk \in Nat /\ r.off \in Nat /\ r.size \in Nat
        /\ t.blk \in Nat /\ t.off \in Nat /\ t.size \in Nat
    BY SizesNat DEF Region
  <1>2. CASE r.blk < t.blk
    <2>1. r.blk # t.blk
      BY <1>1, <1>2
    <2> QED BY <2>1 DEF Cells
  <1>3. CASE r.blk = t.blk /\ r.off + r.size <= t.off
    <2>1. \A o \in r.off .. (r.off + r.size - 1) : o \notin t.off .. (t.off + t.size - 1)
      BY <1>1, <1>3
    <2> QED BY <2>1 DEF Cells
  <1> QED BY <1>2, <1>3 DEF EndsBy

(* Both ways of allocating are an allocation of fresh cells.               *)
LEMMA AllocMaps ==
  ASSUME TypeOK, TypeOK', LiveInOrder', NEW r \in Region, live' = Append(live, r),
         marks' = marks, status = "ok", status' = status
  PROVE  Heap!Alloc
  <1>1. /\ live \in Seq(Region) /\ live' \in Seq(Region) /\ Len(live) \in Nat
        /\ Len(live') = Len(live) + 1
        /\ \A i \in 1 .. Len(live) : live'[i] = live[i] /\ live[i] \in Region
        /\ live'[Len(live) + 1] = r
    <2>1. live \in Seq(Region) /\ live' \in Seq(Region)
      BY DEF TypeOK
    <2>2. Len(live) \in Nat /\ \A i \in 1 .. Len(live) : live[i] \in Region
      BY <2>1
    <2> QED BY <2>1, <2>2, AppendProperties
  <1>2. /\ CellsOf(live') = Append(CellsOf(live), Cells(r))
        /\ Len(CellsOf(live')) = Len(CellsOf(live)) + 1
        /\ Len(CellsOf(live)) = Len(live)
        /\ CellsOf(live')[Len(CellsOf(live'))] = Cells(r)
    <2>1. Len(CellsOf(live')) = Len(live') /\ Len(CellsOf(live)) = Len(live)
      BY <1>1, MappedLive
    <2>2. Len(live) + 1 \in 1 .. Len(live')
      BY <1>1
    <2>3. CellsOf(live')[Len(live) + 1] = Cells(r)
      BY <1>1, <2>2, MappedLive
    <2> QED BY <1>1, <2>1, <2>3, MapAppend
  <1>3. \A i \in 1 .. Len(live) : CellsOf(live)[i] \cap Cells(r) = {}
    <2> TAKE i \in 1 .. Len(live)
    <2>1. /\ i \in 1 .. Len(live') /\ Len(live) + 1 \in 1 .. Len(live')
          /\ i < Len(live) + 1
      BY <1>1
    <2>2. EndsBy(live'[i], live'[Len(live) + 1].blk, live'[Len(live) + 1].off)
      BY <2>1 DEF LiveInOrder
    <2>3. EndsBy(live[i], r.blk, r.off) /\ live[i] \in Region
      BY <1>1, <2>2
    <2> QED BY <1>1, <2>3, Disjoint, MappedLive
  <1> QED BY <1>2, <1>3 DEF Heap!Alloc, CellsOf

LEMMA MarkMaps ==
  ASSUME TypeOK, Laid, Mark
  PROVE  Heap!Mark
  <1> DEFINE k == [blk |-> Current, off |-> List[Current].used, depth |-> Len(live)]
  <1>1. marks' = Append(marks, k) /\ live' = live /\ status = "ok" /\ status' = status
    BY DEF Mark
  <1>2. k \in Marker /\ k.depth = Len(live) /\ marks \in Seq(Marker) /\ live \in Seq(Region)
    BY ListFacts, Elements DEF Marker, TypeOK
  <1> HIDE DEF k
  <1>3. DepthsOf(marks') = Append(DepthsOf(marks), Len(CellsOf(live)))
    BY <1>1, <1>2, MapDepthAppend, MappedLive
  <1> QED BY <1>1, <1>3 DEF Heap!Mark, CellsOf, DepthsOf

LEMMA ResetToMarkerMaps ==
  ASSUME TypeOK, Laid, NEW i \in 1 .. Len(marks), ResetToMarker(i)
  PROVE  Heap!Next
  <1>1. /\ live \in Seq(Region) /\ marks \in Seq(Marker) /\ marks[i].depth \in 0 .. Len(live)
    BY ResetFacts DEF TypeOK
  <1>2. /\ live' = SubSeq(live, 1, marks[i].depth) /\ marks' = SubSeq(marks, 1, i)
        /\ status = "ok" /\ status' = status
    BY DEF ResetToMarker
  <1>3. DepthsOf(marks)[i] = marks[i].depth /\ i \in 1 .. Len(DepthsOf(marks))
    BY <1>1, MappedDepths
  <1>4. CellsOf(live') = SubSeq(CellsOf(live), 1, DepthsOf(marks)[i])
    BY <1>1, <1>2, <1>3, MapSubSeq
  <1>5. DepthsOf(marks') = SubSeq(DepthsOf(marks), 1, i)
    BY <1>1, <1>2, MapDepthSubSeq
  <1>6. Heap!ResetToMarker(i)
    BY <1>2, <1>3, <1>4, <1>5 DEF Heap!ResetToMarker, CellsOf, DepthsOf
  <1> QED BY <1>3, <1>6 DEF Heap!Next, DepthsOf

LEMMA EmptyMaps ==
  ASSUME NEW s, s = << >>
  PROVE  CellsOf(s) = << >> /\ DepthsOf(s) = << >>
  BY DEF CellsOf, DepthsOf

(* Initial states map to initial states, and every step to a step of Arena *)
(* or to none.                                                             *)
THEOREM Refines == Spec => IsArena
  <1>1. Init => Heap!Init
    BY EmptyMaps DEF Init, Heap!Init, CellsOf, DepthsOf
  <1>2. ASSUME TypeOK, Laid, TypeOK', Laid', [Next]_vars
        PROVE  [Heap!Next]_Heap!vars
    <2>1. ASSUME NEW n \in Sizes, AllocFit(n) \/ AllocNew(n)
          PROVE  Heap!Next
      <3>1. CASE AllocFit(n)
        <4>1. PICK k \in Current .. Len(List) :
                live' = Append(live, [blk |-> k, off |-> List[k].used, size |-> n])
          BY <3>1 DEF AllocFit
        <4>2. [blk |-> k, off |-> List[k].used, size |-> n] \in Region
          <5>1. Current \in 1 .. Len(List) /\ Len(List) \in Nat
            BY <1>2, ListFacts
          <5>2. k \in Nat \ {0} /\ k \in 1 .. Len(List)
            BY <5>1
          <5>3. List[k].used \in Nat
            BY <1>2, <5>2, ListFacts
          <5> QED BY <5>2, <5>3 DEF Region
        <4>3. marks' = marks /\ status = "ok" /\ status' = status
          BY <3>1 DEF AllocFit
        <4> QED BY <1>2, <4>1, <4>2, <4>3, AllocMaps DEF Laid, Heap!Next
      <3>2. CASE AllocNew(n)
        <4>1. [blk |-> Len(List) + 1, off |-> 0, size |-> n] \in Region
          BY <1>2, ListFacts DEF Region
        <4> QED BY <1>2, <3>2, <4>1, AllocMaps DEF AllocNew, Laid, Heap!Next
      <3> QED BY <2>1, <3>1, <3>2
    <2>2. CASE Mark
      BY <1>2, <2>2, MarkMaps DEF Heap!Next
    <2>3. CASE Size
      BY <2>3 DEF Size, Heap!vars
    <2>4. ASSUME NEW i \in 1 .. Len(marks), ResetToMarker(i) PROVE Heap!Next
      BY <1>2, <2>4, ResetToMarkerMaps
    <2>5. CASE Reset
      <3>1. Heap!Reset
        BY <2>5, EmptyMaps DEF Reset, Heap!Reset, CellsOf, DepthsOf
      <3> QED BY <3>1 DEF Heap!Next
    <2>6. CASE FreeAll
      <3>1. Heap!Stop
        BY <2>6, EmptyMaps DEF FreeAll, Heap!Stop, CellsOf, DepthsOf
      <3> QED BY <3>1 DEF Heap!Next
    <2>7. CASE OutOfMemory
      <3>1. Heap!Stop
        BY <2>7 DEF OutOfMemory, Heap!Stop
      <3> QED BY <3>1 DEF Heap!Next
    <2>8. CASE UNCHANGED vars
      BY <2>8 DEF vars, Heap!vars
    <2> QED BY <1>2, <2>1, <2>2, <2>3, <2>4, <2>5, <2>6, <2>7, <2>8 DEF Next
  <1>3. TypeOK /\ Laid /\ (TypeOK /\ Laid)' /\ [Next]_vars => [Heap!Next]_Heap!vars
    BY <1>2
  <1> QED BY <1>1, <1>3, Layout, PTL DEF Spec, IsArena, Heap!Spec
=============================================================================
