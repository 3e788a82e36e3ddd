---------------------------- MODULE RegSrcLemmas ----------------------------
(***************************************************************************)
(* Lemmas about RegSrc for every set of programs and every length of the   *)
(* arrays: what its operators return, the parts of the inductive invariant *)
(* of a search, that each step of a call preserves them, and how what a    *)
(* tree folds to relates to the values that running the code computes.     *)
(***************************************************************************)
EXTENDS RegSrc, NumberLemmas, SequenceTheorems, TLAPS

-----------------------------------------------------------------------------
(* What Ordered and LastAt return.                                         *)

IsOrdering(s, S) ==
  /\ s \in [1 .. Cardinality(S) -> S]
  /\ Range(s) = S /\ \A j, k \in DOMAIN s : j < k => s[j] < s[k]

LEMMA OrderingExists ==
  ASSUME NEW n \in Nat, NEW S, S \subseteq 1 .. n
  PROVE  \E s : IsOrdering(s, S)
<1> DEFINE T == {m \in Nat : \E X \in SUBSET (1 .. m) : ~\E s : IsOrdering(s, X)}
<1>1. T = {}
  <2> SUFFICES ASSUME T # {} PROVE FALSE
    OBVIOUS
  <2>1. PICK m \in T : \A d \in T : m <= d
    BY NatMin
  <2>2. PICK X \in SUBSET (1 .. m) : ~\E s : IsOrdering(s, X)
    OBVIOUS
  <2>3. m \in Nat
    OBVIOUS
  <2>4. CASE X \subseteq 1 .. (m - 1)
    <3>1. CASE m = 0
      <4>1. X = {} /\ Cardinality(X) = 0
        <5>1. X = {}
          BY <3>1, <2>2
        <5> QED BY <5>1, FS_EmptySet
      <4>2. IsOrdering([j \in 1 .. 0 |-> 0], X)
        BY <4>1 DEF IsOrdering, Range
      <4> QED BY <4>2, <2>2
    <3>2. CASE m # 0
      <4>1. m - 1 \in Nat /\ m - 1 < m
        BY <3>2, <2>3
      <4>2. m - 1 \in T
        BY <4>1, <2>2, <2>4
      <4>3. m <= m - 1
        BY <4>2, <2>1
      <4> QED BY <4>1, <4>3, <2>3
    <3> QED BY <3>1, <3>2
  <2>5. CASE ~(X \subseteq 1 .. (m - 1))
    <3>1. m \in X /\ m >= 1 /\ X \ {m} \subseteq 1 .. (m - 1)
      BY <2>5, <2>3
    <3>2. PICK s : IsOrdering(s, X \ {m})
      <4>1. m - 1 \in Nat /\ m - 1 < m
        BY <3>1, <2>3
      <4>2. m - 1 \notin T
        BY <4>1, <2>1, <2>3
      <4> QED BY <4>1, <4>2, <3>1
    <3>3. IsFiniteSet(X) /\ Cardinality(X) \in Nat
      <4>1. IsFiniteSet(1 .. m)
        BY <2>3, FS_Interval
      <4> QED BY <4>1, FS_Subset, FS_CardinalityType
    <3> DEFINE c == Cardinality(X)
               t == [j \in 1 .. c |-> IF j = c THEN m ELSE s[j]]
    <3>4. Cardinality(X \ {m}) = c - 1 /\ c \in Nat /\ c - 1 \in Nat
      <4>1. Cardinality(X \ {m}) = c - 1
        BY <3>1, <3>3, FS_RemoveElement
      <4>2. Cardinality(X \ {m}) \in Nat
        BY <3>3, FS_Subset, FS_CardinalityType
      <4> QED BY <4>1, <4>2, <3>3
    <3>5. /\ s \in [1 .. (c - 1) -> X \ {m}] /\ DOMAIN s = 1 .. (c - 1)
          /\ Range(s) = X \ {m} /\ \A j, k \in 1 .. (c - 1) : j < k => s[j] < s[k]
      BY <3>2, <3>4 DEF IsOrdering
    <3> HIDE DEF c
    <3>6. t \in [1 .. c -> X]
      BY <3>1, <3>4, <3>5
    <3>7. Range(t) = X
      <4>1. ASSUME NEW x \in X PROVE x \in Range(t)
        <5>1. CASE x = m
          BY <5>1, <3>4 DEF Range
        <5>2. CASE x # m
          <6>1. PICK j \in 1 .. (c - 1) : s[j] = x
            BY <5>2, <3>5 DEF Range
          <6>2. j \in 1 .. c /\ t[j] = x
            BY <6>1, <3>4
          <6> QED BY <6>2 DEF Range
        <5> QED BY <5>1, <5>2
      <4> QED BY <4>1, <3>6 DEF Range
    <3>8. ASSUME NEW j \in 1 .. c, NEW k \in 1 .. c, j < k PROVE t[j] < t[k]
      <4>1. j \in 1 .. (c - 1) /\ t[j] = s[j] /\ s[j] \in 1 .. (m - 1)
        <5>1. j \in 1 .. (c - 1)
          BY <3>8, <3>4
        <5>2. j # c
          BY <5>1, <3>4
        <5>3. s[j] \in X \ {m}
          BY <5>1, <3>5
        <5> QED BY <5>1, <5>2, <5>3, <3>1
      <4>2. CASE k = c
        BY <4>1, <4>2, <2>3
      <4>3. CASE k # c
        BY <4>1, <4>3, <3>8, <3>5, <3>4
      <4> QED BY <4>2, <4>3
    <3>9. IsOrdering(t, X)
      <4>1. DOMAIN t = 1 .. c
        OBVIOUS
      <4> HIDE DEF t
      <4> QED BY <4>1, <3>6, <3>7, <3>8 DEF IsOrdering, c
    <3> QED BY <3>9, <2>2
  <2> QED BY <2>4, <2>5
<1>2. n \notin T
  BY <1>1
<1> QED BY <1>2

LEMMA OrderedIs ==
  ASSUME NEW n \in Nat, NEW S, S \subseteq 1 .. n
  PROVE  /\ Ordered(S) \in Seq(S) /\ Len(Ordered(S)) \in Nat
         /\ Range(Ordered(S)) = S
<1>1. IsOrdering(Ordered(S), S)
  BY OrderingExists DEF Ordered, IsOrdering
<1>2. Cardinality(S) \in Nat
  <2>1. IsFiniteSet(1 .. n)
    BY FS_Interval
  <2> QED BY <2>1, FS_Subset, FS_CardinalityType
<1> QED BY <1>1, <1>2 DEF IsOrdering

LEMMA LastAtIs ==
  ASSUME NEW n \in Nat, NEW S, S \subseteq 1 .. n, NEW i \in Nat
  PROVE  /\ LastAt(S, i) \in 0 .. n /\ LastAt(S, i) <= i
         /\ LastAt(S, i) = 0 => \A k \in S : k > i
         /\ LastAt(S, i) # 0 =>
              LastAt(S, i) \in S /\ \A k \in S : k <= i => k <= LastAt(S, i)
<1> DEFINE X == {0} \cup {j \in S : j <= i}
<1>1. \A j \in S : j \in 1 .. n
  OBVIOUS
<1>2. X \subseteq 0 .. n /\ X # {}
  <2>1. ASSUME NEW x \in X PROVE x \in 0 .. n
    BY <1>1
  <2> QED BY <2>1
<1>3. PICK x : x = LastAt(S, i) /\ x \in X /\ \A y \in X : x >= y
  <2>1. LastAt(S, i) = Max(X)
    BY DEF LastAt
  <2> HIDE DEF X
  <2> QED BY <1>2, <2>1, MaxOfBounded
<1>4. x = 0 \/ (x \in S /\ x <= i)
  BY <1>3
<1>5. \A y \in S : y <= i => y <= x
  BY <1>1, <1>3
<1> HIDE DEF X
<1> QED BY <1>1, <1>2, <1>3, <1>4, <1>5

-----------------------------------------------------------------------------
(* The fold of a tree whose links lead to later nodes: the recursion is    *)
(* well-founded, and every fold is a number or invalid.                    *)

FoldType == [valid: BOOLEAN, value: Int]

LEMMA ImageFinite ==
  ASSUME NEW C, IsFiniteSet(C), NEW g
  PROVE  IsFiniteSet({g[c] : c \in C})
<1> DEFINE h == [c \in C |-> g[c]]
           D == {g[c] : c \in C}
<1>1. h \in Surjection(C, D)
  BY DEF Surjection
<1> QED BY <1>1, FS_Surjection

LEMMA DeepestTyped ==
  ASSUME NEW V, V \subseteq Int, IsFiniteSet(V)
  PROVE  /\ Deepest(V) \in V \cup {0} /\ Deepest(V) \in Int /\ Deepest(V) <= 0
         /\ \A v \in V : Deepest(V) <= v
<1>1. IsFiniteSet(V \cup {0}) /\ V \cup {0} \subseteq Int /\ V \cup {0} # {}
  BY FS_AddElement
<1>2. PICK m : m = Deepest(V) /\ m \in V \cup {0} /\ \A y \in V \cup {0} : m <= y
  BY <1>1, MinOfInts DEF Deepest
<1> QED BY <1>1, <1>2

LEMMA FoldOperandTyped ==
  ASSUME NEW temp, NEW folds, folds \subseteq FoldType, IsFiniteSet(folds)
  PROVE  FoldOperand(temp, folds) \in FoldType
<1> DEFINE V == {f.value : f \in folds}
<1>1. IsFiniteSet(V) /\ V \subseteq Int
  <2> DEFINE h == [f \in folds |-> f.value]
  <2>1. h \in Surjection(folds, V)
    BY DEF Surjection
  <2>2. IsFiniteSet(V)
    BY <2>1, FS_Surjection
  <2> QED BY <2>2 DEF FoldType
<1>2. Deepest(V) \in Int
  <2> HIDE DEF V
  <2> QED BY <1>1, DeepestTyped
<1>3. \A v \in Int : Valid(v) \in FoldType
  BY DEF Valid, FoldType
<1>4. Invalid \in FoldType
  BY DEF Invalid, FoldType
<1>5. IsConst(temp) => ConstVal[temp] \in Int
  BY FoldAssumption DEF IsConst
<1>6. CASE folds # {}
  <2>1. FoldOperand(temp, folds) \in {Valid(Deepest(V)), Invalid}
    BY <1>6 DEF FoldOperand
  <2> QED BY <2>1, <1>2, <1>3, <1>4
<1>7. CASE folds = {}
  <2>1. FoldOperand(temp, folds) =
          CASE temp \in StackRegs -> Valid(0)
            [] IsConst(temp)      -> Valid(ConstVal[temp])
            [] OTHER              -> Invalid
    BY <1>7 DEF FoldOperand
  <2> QED BY <2>1, <1>3, <1>4, <1>5
<1> QED BY <1>6, <1>7

(* What fold_add_sub computes of node x from the folds f of the others.    *)
Arithmetic == {"add", "sub", "mov"}

FoldsAt(tree, f, x, k) == {f[c] : c \in Range(tree[x].children[k])}

FoldBody(code, tree, f, x) ==
  LET inst == code[tree[x].node][tree[x].index]
      left == FoldOperand(inst.in[1], FoldsAt(tree, f, x, 1))
      right == IF Len(inst.in) = 2 THEN FoldOperand(inst.in[2], FoldsAt(tree, f, x, 2))
                                   ELSE Valid(0)
  IN  IF inst.op \notin Arithmetic \/ ~left.valid \/ ~right.valid
      THEN Invalid
      ELSE Valid(IF inst.op = "sub" THEN left.value - right.value
                                    ELSE left.value + right.value)

(* A tree over code: an operand's children come after its node.            *)
Linked(code, tree) ==
  /\ Len(tree) \in Nat /\ DOMAIN tree = 1 .. Len(tree)
  /\ \A x \in DOMAIN tree :
       /\ HasOperands(code[tree[x].node][tree[x].index])
       /\ Len(code[tree[x].node][tree[x].index].in) \in Nat
       /\ \A k \in 1 .. Len(code[tree[x].node][tree[x].index].in) :
            Range(tree[x].children[k]) \subseteq (x + 1) .. Len(tree)

LEMMA FoldIs ==
  ASSUME NEW code, NEW tree
  PROVE  fold_add_sub(code, tree) =
           CHOOSE f : f = [x \in DOMAIN tree |-> FoldBody(code, tree, f, x)]
BY Zenon DEF fold_add_sub, FoldBody, FoldsAt, Arithmetic

LEMMA BodyLocal ==
  ASSUME NEW code, NEW tree, Linked(code, tree), NEW x \in DOMAIN tree, NEW f, NEW g,
         \A y \in (x + 1) .. Len(tree) : f[y] = g[y]
  PROVE  FoldBody(code, tree, f, x) = FoldBody(code, tree, g, x)
<1> DEFINE inst == code[tree[x].node][tree[x].index]
<1>1. CASE inst.op \notin Arithmetic
  BY <1>1 DEF FoldBody
<1>2. CASE inst.op \in Arithmetic
  <2>1. Len(inst.in) \in {1, 2} /\ (inst.op # "mov" => Len(inst.in) = 2)
    BY <1>2 DEF Linked, HasOperands, Arithmetic
  <2>2. \A k \in 1 .. Len(inst.in) : Range(tree[x].children[k]) \subseteq (x + 1) .. Len(tree)
    BY DEF Linked
  <2> HIDE DEF inst
  <2>3. ASSUME NEW k \in 1 .. Len(inst.in)
        PROVE  FoldsAt(tree, f, x, k) = FoldsAt(tree, g, x, k)
    <3>1. \A c \in Range(tree[x].children[k]) : f[c] = g[c]
      BY <2>2
    <3> QED BY <3>1 DEF FoldsAt
  <2>4. FoldsAt(tree, f, x, 1) = FoldsAt(tree, g, x, 1)
    <3>1. ASSUME NEW n \in {1, 2} PROVE 1 \in 1 .. n
      OBVIOUS
    <3>2. 1 \in 1 .. Len(inst.in)
      BY <2>1, <3>1
    <3> QED BY <3>2, <2>3
  <2>5. Len(inst.in) = 2 => FoldsAt(tree, f, x, 2) = FoldsAt(tree, g, x, 2)
    <3>1. Len(inst.in) = 2 => 2 \in 1 .. Len(inst.in)
      OBVIOUS
    <3> QED BY <3>1, <2>3
  <2> QED BY <2>4, <2>5 DEF FoldBody, inst
<1> QED BY <1>1, <1>2

LEMMA FoldEquation ==
  ASSUME NEW code, NEW tree, Linked(code, tree)
  PROVE  fold_add_sub(code, tree) =
           [x \in DOMAIN tree |-> FoldBody(code, tree, fold_add_sub(code, tree), x)]
<1> DEFINE L == Len(tree)
           From(n, g) == g = [x \in (L - n + 1) .. L |-> FoldBody(code, tree, g, x)]
           T == {n \in Nat : n <= L /\ ~\E g : From(n, g)}
<1>1. L \in Nat /\ DOMAIN tree = 1 .. L
  BY DEF Linked
<1>2. T = {}
  <2> SUFFICES ASSUME T # {} PROVE FALSE
    OBVIOUS
  <2>1. PICK n \in T : \A d \in T : n <= d
    BY NatMin
  <2>2. n \in Nat /\ n <= L /\ ~\E g : From(n, g)
    OBVIOUS
  <2>3. n # 0
    <3>1. SUFFICES ASSUME n = 0 PROVE FALSE
      OBVIOUS
    <3> DEFINE g == [x \in (L + 1) .. L |-> 0]
    <3>2. From(0, g)
      <4>1. (L - 0 + 1) .. L = {} /\ (L + 1) .. L = {}
        BY <1>1
      <4>2. g = [x \in {} |-> 0]
        BY <4>1
      <4> QED BY <4>1, <4>2
    <3> QED BY <3>1, <3>2, <2>2
  <2>4. PICK g : From(n - 1, g)
    <3>1. n - 1 \in Nat /\ n - 1 <= L /\ n - 1 < n
      BY <2>2, <2>3, <1>1
    <3>2. n - 1 \notin T
      <4> HIDE DEF T
      <4> QED BY <3>1, <2>1, <2>2
    <3> QED BY <3>1, <3>2
  <2> DEFINE a == L - n + 1
             h == [x \in a .. L |-> IF x = a THEN FoldBody(code, tree, g, a) ELSE g[x]]
  <2>5. a \in 1 .. L /\ a .. L = {a} \cup ((a + 1) .. L) /\ L - (n - 1) + 1 = a + 1
    BY <2>2, <2>3, <1>1
  <2>6. \A y \in (a + 1) .. L : g[y] = FoldBody(code, tree, g, y)
    BY <2>4, <2>5
  <2>7. \A y \in (a + 1) .. L : h[y] = g[y]
    BY <2>5
  <2>8. ASSUME NEW x \in a .. L PROVE h[x] = FoldBody(code, tree, h, x)
    <3>1. \A y \in (x + 1) .. L : g[y] = h[y]
      BY <2>5, <2>7
    <3>2. x \in DOMAIN tree
      BY <2>5, <1>1
    <3>3. FoldBody(code, tree, g, x) = FoldBody(code, tree, h, x)
      <4> HIDE DEF h
      <4> QED BY <3>1, <3>2, BodyLocal
    <3>4. h[x] = FoldBody(code, tree, g, x)
      BY <2>5, <2>6
    <3> QED BY <3>3, <3>4
  <2>9. From(n, h)
    <3>1. h = [x \in a .. L |-> h[x]]
      OBVIOUS
    <3> HIDE DEF h
    <3> QED BY <3>1, <2>8
  <2> QED BY <2>9, <2>2
<1>3. PICK g : From(L, g)
  <2>1. L \notin T
    BY <1>2
  <2> QED BY <2>1, <1>1
<1>4. g = [x \in DOMAIN tree |-> FoldBody(code, tree, g, x)]
  <2>1. L - L + 1 = 1
    BY <1>1
  <2> QED BY <1>1, <1>3, <2>1
<1> QED BY <1>4, FoldIs

LEMMA FoldTyped ==
  ASSUME NEW code, NEW tree, Linked(code, tree)
  PROVE  \A x \in DOMAIN tree : fold_add_sub(code, tree)[x] \in FoldType
<1> DEFINE L == Len(tree)
           f == fold_add_sub(code, tree)
           T == {n \in Nat : n < L /\ f[L - n] \notin FoldType}
<1>1. L \in Nat /\ DOMAIN tree = 1 .. L
  BY DEF Linked
<1>2. \A x \in 1 .. L : f[x] = FoldBody(code, tree, f, x)
  BY <1>1, FoldEquation
<1> HIDE DEF f
<1>3. T = {}
  <2> SUFFICES ASSUME T # {} PROVE FALSE
    OBVIOUS
  <2>1. PICK n \in T : \A d \in T : n <= d
    BY NatMin
  <2> DEFINE x == L - n
             inst == code[tree[x].node][tree[x].index]
  <2>2. n \in Nat /\ n < L /\ x \in 1 .. L /\ f[x] \notin FoldType
    BY <1>1
  <2>3. ASSUME NEW y \in (x + 1) .. L PROVE f[y] \in FoldType
    <3>1. L - y \in Nat /\ L - y < n /\ L - (L - y) = y
      BY <2>2, <1>1
    <3>2. L - y \notin T
      BY <3>1, <2>1, <2>2
    <3> QED BY <3>1, <3>2, <2>2, <1>1
  <2>4. FoldBody(code, tree, f, x) \in FoldType
    <3>1. Invalid \in FoldType /\ Valid(0) \in FoldType /\ \A v \in Int : Valid(v) \in FoldType
      BY DEF Invalid, Valid, FoldType
    <3>2. CASE inst.op \notin Arithmetic
      BY <3>1, <3>2 DEF FoldBody
    <3>3. CASE inst.op \in Arithmetic
      <4>1. Len(inst.in) \in {1, 2}
        BY <3>3, <2>2, <1>1 DEF Linked, HasOperands, Arithmetic
      <4>2. \A k \in 1 .. Len(inst.in) : Range(tree[x].children[k]) \subseteq (x + 1) .. L
        BY <2>2, <1>1 DEF Linked
      <4>3. IsFiniteSet((x + 1) .. L)
        BY <2>2, <1>1, FS_Interval
      <4> HIDE DEF inst, x
      <4>4. ASSUME NEW k \in 1 .. Len(inst.in), NEW temp
            PROVE  FoldOperand(temp, FoldsAt(tree, f, x, k)) \in FoldType
        <5>1. IsFiniteSet(Range(tree[x].children[k]))
          BY <4>2, <4>3, FS_Subset
        <5>2. FoldsAt(tree, f, x, k) \subseteq FoldType
          BY <4>2, <2>3 DEF FoldsAt
        <5>3. IsFiniteSet(FoldsAt(tree, f, x, k))
          BY <5>1, ImageFinite DEF FoldsAt
        <5> QED BY <5>2, <5>3, FoldOperandTyped
      <4> DEFINE left == FoldOperand(inst.in[1], FoldsAt(tree, f, x, 1))
                 right == IF Len(inst.in) = 2 THEN FoldOperand(inst.in[2], FoldsAt(tree, f, x, 2))
                                              ELSE Valid(0)
      <4>5. left \in FoldType /\ right \in FoldType
        BY <4>1, <4>4, <3>1
      <4>6. FoldBody(code, tree, f, x) \in {Invalid, Valid(left.value - right.value),
                                              Valid(left.value + right.value)}
        BY DEF FoldBody, inst
      <4>7. left.value \in Int /\ right.value \in Int
        BY <4>5 DEF FoldType
      <4> QED BY <4>6, <4>7, <3>1
    <3> QED BY <3>2, <3>3
  <2> QED BY <2>2, <2>4, <1>2
<1> QED
  <2>1. ASSUME NEW x \in 1 .. L PROVE f[x] \in FoldType
    <3>1. L - x \in Nat /\ L - x < L /\ L - (L - x) = x
      BY <1>1
    <3> QED BY <3>1, <1>3
  <2> QED BY <2>1, <1>1 DEF f

(* The offset that find_sources is asked for is never negative.            *)
LEMMA OffsetTyped ==
  ASSUME NEW code, NEW tree, Linked(code, tree), 1 \in DOMAIN tree,
         NEW arg \in 1 .. Len(code[tree[1].node][tree[1].index].in)
  PROVE  LET r == fold_ld_st_stack_pointer(code, tree, arg)
         IN  r.valid \in BOOLEAN /\ r.value \in Nat
<1> DEFINE f == fold_add_sub(code, tree)
           C == Range(tree[1].children[arg])
           folds == {f[c] : c \in C}
           V == {g.value : g \in folds}
<1>1. C \subseteq 2 .. Len(tree) /\ Len(tree) \in Nat /\ DOMAIN tree = 1 .. Len(tree)
  BY DEF Linked
<1>2. IsFiniteSet(C)
  <2>1. IsFiniteSet(2 .. Len(tree))
    BY <1>1, FS_Interval
  <2> QED BY <1>1, <2>1, FS_Subset
<1>3. folds \subseteq FoldType /\ IsFiniteSet(folds)
  <2>1. \A c \in C : f[c] \in FoldType
    BY <1>1, FoldTyped
  <2> HIDE DEF f, C
  <2> QED BY <1>2, <2>1, ImageFinite
<1> DEFINE r == fold_ld_st_stack_pointer(code, tree, arg)
<1>4. r \in {Invalid, Valid(-Deepest(V))}
  BY DEF fold_ld_st_stack_pointer
<1> HIDE DEF folds
<1>5. IsFiniteSet(V) /\ V \subseteq Int
  <2> DEFINE h == [g \in folds |-> g.value]
  <2>1. h \in Surjection(folds, V)
    BY DEF Surjection
  <2>2. IsFiniteSet(V)
    BY <2>1, <1>3, FS_Surjection
  <2> QED BY <2>2, <1>3 DEF FoldType
<1>6. Deepest(V) \in Int /\ Deepest(V) <= 0
  <2> HIDE DEF V
  <2> QED BY <1>5, DeepestTyped
<1> HIDE DEF V
<1>7. -Deepest(V) \in Nat
  BY <1>6
<1> HIDE DEF r
<1>8. r.valid \in BOOLEAN /\ r.value \in Nat
  <2>1. CASE r = Invalid
    BY <2>1 DEF Invalid
  <2>2. CASE r = Valid(-Deepest(V))
    BY <2>2, <1>7 DEF Valid
  <2> QED BY <2>1, <2>2, <1>4
<1> QED BY <1>8 DEF r

-----------------------------------------------------------------------------
(* Reaching definitions of a program p, with a set of blocks that the way  *)
(* to them does not enter.                                                 *)

WritersOf(p, b, t) == {j \in DOMAIN p.code[b] : t \in Range(p.code[b][j].out)}

Before(p, b, i, t) == {j \in WritersOf(p, b, t) : j < i}

Closed(p, b, t, seen, S) ==
  /\ Range(p.pred[b]) \ seen \subseteq S
  /\ \A m \in S : WritersOf(p, m, t) = {} => Range(p.pred[m]) \ seen \subseteq S

Through(p, b, t, seen) ==
  {m \in DOMAIN p.code : \A S \in SUBSET DOMAIN p.code : Closed(p, b, t, seen, S) => m \in S}

LastWriters(p, S, t) ==
  {<<m, Max(WritersOf(p, m, t))>> : m \in {m \in S : WritersOf(p, m, t) # {}}}

Reaching(p, b, i, t, seen) ==
  IF Before(p, b, i, t) # {} THEN {<<b, Max(Before(p, b, i, t))>>}
  ELSE LastWriters(p, Through(p, b, t, seen), t)

LEMMA ReachingIs ==
  ASSUME NEW b, NEW i, NEW t
  PROVE  ReachingDefs(b, i, t) = Reaching(prog, b, i, t, {})
<1>1. \A c : Writers(c, t) = WritersOf(prog, c, t)
  BY DEF Writers, WritersOf, Inst
<1> DEFINE before == {j \in Writers(b, t) : j < i}
           closed(S) == /\ Range(prog.pred[b]) \subseteq S
                        /\ \A m \in S : Writers(m, t) = {} => Range(prog.pred[m]) \subseteq S
           through == {m \in Blocks : \A S \in SUBSET Blocks : closed(S) => m \in S}
<1>2. before = Before(prog, b, i, t)
  BY <1>1 DEF Before
<1>3. \A S : closed(S) <=> Closed(prog, b, t, {}, S)
  BY <1>1 DEF Closed
<1>4. through = Through(prog, b, t, {})
  <2> HIDE DEF closed
  <2> QED BY <1>3 DEF Through, Blocks
<1>5. {<<m, Max(Writers(m, t))>> : m \in {m \in through : Writers(m, t) # {}}}
        = LastWriters(prog, Through(prog, b, t, {}), t)
  <2> HIDE DEF through
  <2> QED BY <1>1, <1>4 DEF LastWriters
<1>6. ReachingDefs(b, i, t) =
        IF before # {} THEN {<<b, Max(before)>>}
        ELSE {<<m, Max(Writers(m, t))>> : m \in {m \in through : Writers(m, t) # {}}}
  BY DEF ReachingDefs
<1> HIDE DEF before, through
<1> QED BY <1>2, <1>5, <1>6 DEF Reaching

LEMMA ProgramFacts ==
  ASSUME NEW p, IsProgram(p)
  PROVE  /\ \A b \in DOMAIN p.code : /\ Range(p.pred[b]) \subseteq DOMAIN p.code
                                     /\ p.pred[b] \in Seq(DOMAIN p.code)
                                     /\ p.code[b] \in Seq(Instruction)
                                     /\ Len(p.code[b]) \in Nat
                                     /\ DOMAIN p.code[b] = 1 .. Len(p.code[b])
         /\ \A b \in DOMAIN p.code : \A i \in DOMAIN p.code[b] :
              /\ p.code[b][i] \in Instruction /\ HasOperands(p.code[b][i])
              /\ Len(p.code[b][i].in) \in Nat
              /\ DOMAIN p.code[b][i].in = 1 .. Len(p.code[b][i].in)
              /\ \A k \in DOMAIN p.code[b][i].in : p.code[b][i].in[k] \in Temps
              /\ DOMAIN p.code[b][i].out = 1 .. Len(p.code[b][i].out)
              /\ Len(p.code[b][i].out) \in Nat
<1>1. /\ p.code \in Seq(Seq(Instruction))
      /\ \A b \in DOMAIN p.code : \A i \in DOMAIN p.code[b] : HasOperands(p.code[b][i])
      /\ p.pred \in [DOMAIN p.code -> Seq(DOMAIN p.code)]
  BY DEF IsProgram
<1>2. ASSUME NEW b \in DOMAIN p.code
      PROVE  /\ Range(p.pred[b]) \subseteq DOMAIN p.code /\ p.pred[b] \in Seq(DOMAIN p.code)
             /\ p.code[b] \in Seq(Instruction) /\ Len(p.code[b]) \in Nat
             /\ DOMAIN p.code[b] = 1 .. Len(p.code[b])
  <2>1. p.pred[b] \in Seq(DOMAIN p.code) /\ p.code[b] \in Seq(Instruction)
    BY <1>1, ElementOfSeq, LenProperties
  <2>2. Range(p.pred[b]) \subseteq DOMAIN p.code
    BY <2>1, RangeOfSeq, ElementOfSeq DEF Range
  <2> QED BY <2>1, <2>2, LenProperties
<1>3. ASSUME NEW b \in DOMAIN p.code, NEW i \in DOMAIN p.code[b]
      PROVE  /\ p.code[b][i] \in Instruction /\ HasOperands(p.code[b][i])
             /\ Len(p.code[b][i].in) \in Nat
             /\ DOMAIN p.code[b][i].in = 1 .. Len(p.code[b][i].in)
             /\ \A k \in DOMAIN p.code[b][i].in : p.code[b][i].in[k] \in Temps
             /\ DOMAIN p.code[b][i].out = 1 .. Len(p.code[b][i].out)
             /\ Len(p.code[b][i].out) \in Nat
  <2>1. p.code[b][i] \in Instruction
    BY <1>2, ElementOfSeq
  <2>2. p.code[b][i].in \in Seq(Temps) /\ p.code[b][i].out \in Seq(Temps)
    BY <2>1 DEF Instruction
  <2> QED BY <1>1, <2>1, <2>2, LenProperties, ElementOfSeq
<1> QED BY <1>2, <1>3

LEMMA InstructionFacts ==
  ASSUME NEW p, IsProgram(p), NEW b \in DOMAIN p.code, NEW i \in DOMAIN p.code[b]
  PROVE  LET inst == p.code[b][i]
         IN  /\ inst \in Instruction /\ HasOperands(inst)
             /\ Len(inst.in) \in Nat /\ DOMAIN inst.in = 1 .. Len(inst.in)
             /\ \A k \in DOMAIN inst.in : inst.in[k] \in Temps
<1>1. /\ p.code[b][i] \in Instruction /\ HasOperands(p.code[b][i])
      /\ \A k \in DOMAIN p.code[b][i].in : p.code[b][i].in[k] \in Temps
  BY ProgramFacts
<1>2. /\ Len(p.code[b][i].in) \in Nat
      /\ DOMAIN p.code[b][i].in = 1 .. Len(p.code[b][i].in)
  BY ProgramFacts
<1> QED BY <1>1, <1>2

(* Through is itself closed, and the least such set.                       *)
LEMMA ThroughClosed ==
  ASSUME NEW p, IsProgram(p), NEW b \in DOMAIN p.code, NEW t, NEW seen
  PROVE  Closed(p, b, t, seen, Through(p, b, t, seen))
<1>1. \A m \in DOMAIN p.code : Range(p.pred[m]) \subseteq DOMAIN p.code
  BY ProgramFacts
<1>2. Range(p.pred[b]) \ seen \subseteq Through(p, b, t, seen)
  BY <1>1 DEF Through, Closed
<1>3. ASSUME NEW m \in Through(p, b, t, seen), WritersOf(p, m, t) = {},
             NEW n \in Range(p.pred[m]) \ seen
      PROVE  n \in Through(p, b, t, seen)
  <2>1. m \in DOMAIN p.code /\ n \in DOMAIN p.code
    BY <1>1 DEF Through
  <2>2. ASSUME NEW S \in SUBSET DOMAIN p.code, Closed(p, b, t, seen, S) PROVE n \in S
    <3>1. m \in S
      BY <2>2 DEF Through
    <3> QED BY <3>1, <2>2, <1>3 DEF Closed
  <2> QED BY <2>1, <2>2 DEF Through
<1> QED BY <1>2, <1>3 DEF Closed

LEMMA ThroughLeast ==
  ASSUME NEW p, NEW b, NEW t, NEW seen, NEW S \in SUBSET DOMAIN p.code,
         Closed(p, b, t, seen, S)
  PROVE  Through(p, b, t, seen) \subseteq S
BY DEF Through

LEMMA BeforeEnd ==
  ASSUME NEW p, IsProgram(p), NEW b \in DOMAIN p.code, NEW t
  PROVE  Before(p, b, Len(p.code[b]) + 1, t) = WritersOf(p, b, t)
<1>1. Len(p.code[b]) \in Nat /\ DOMAIN p.code[b] = 1 .. Len(p.code[b])
  BY ProgramFacts
<1> QED BY <1>1 DEF Before, WritersOf

(* No definition is found on the way over a predecessor that does not      *)
(* reach the place the search comes from.                                  *)
LEMMA PredSound ==
  ASSUME NEW p, IsProgram(p), NEW b \in DOMAIN p.code, NEW i, NEW t,
         Before(p, b, i, t) = {}, NEW m \in Range(p.pred[b])
  PROVE  Reaching(p, m, Len(p.code[m]) + 1, t, {}) \subseteq Reaching(p, b, i, t, {})
<1>1. m \in DOMAIN p.code
  BY ProgramFacts
<1>2. Closed(p, b, t, {}, Through(p, b, t, {}))
  BY ThroughClosed
<1>3. m \in Through(p, b, t, {})
  BY <1>2 DEF Closed
<1>4. Reaching(p, b, i, t, {}) = LastWriters(p, Through(p, b, t, {}), t)
  BY DEF Reaching
<1>5. Before(p, m, Len(p.code[m]) + 1, t) = WritersOf(p, m, t)
  BY <1>1, BeforeEnd
<1>6. CASE WritersOf(p, m, t) # {}
  <2>1. Reaching(p, m, Len(p.code[m]) + 1, t, {}) = {<<m, Max(WritersOf(p, m, t))>>}
    BY <1>5, <1>6 DEF Reaching
  <2> QED BY <2>1, <1>3, <1>4, <1>6 DEF LastWriters
<1>7. CASE WritersOf(p, m, t) = {}
  <2>1. Reaching(p, m, Len(p.code[m]) + 1, t, {}) = LastWriters(p, Through(p, m, t, {}), t)
    BY <1>5, <1>7 DEF Reaching
  <2>2. Closed(p, m, t, {}, Through(p, b, t, {}))
    BY <1>2, <1>3, <1>7 DEF Closed
  <2>3. Through(p, b, t, {}) \in SUBSET DOMAIN p.code
    BY DEF Through
  <2>4. Through(p, m, t, {}) \subseteq Through(p, b, t, {})
    BY <2>2, <2>3, ThroughLeast
  <2> QED BY <2>1, <2>4, <1>4 DEF LastWriters
<1> QED BY <1>6, <1>7

(* Every definition is found on the way over some predecessor that was not *)
(* seen, without going through this predecessor again.                     *)
LEMMA PredComplete ==
  ASSUME NEW p, IsProgram(p), NEW b \in DOMAIN p.code, NEW i, NEW t, NEW seen,
         Before(p, b, i, t) = {}, NEW q \in Reaching(p, b, i, t, seen)
  PROVE  \E m \in Range(p.pred[b]) \ seen :
           q \in Reaching(p, m, Len(p.code[m]) + 1, t, seen \cup {m})
<1>1. PICK n \in Through(p, b, t, seen) :
        WritersOf(p, n, t) # {} /\ q = <<n, Max(WritersOf(p, n, t))>>
  BY DEF Reaching, LastWriters
<1> DEFINE new == Range(p.pred[b]) \ seen
           U == {x \in DOMAIN p.code : \E m \in new :
                   x = m \/ (WritersOf(p, m, t) = {} /\ x \in Through(p, m, t, seen \cup {m}))}
<1>2. \A m \in DOMAIN p.code : Range(p.pred[m]) \subseteq DOMAIN p.code
  BY ProgramFacts
<1>3. Closed(p, b, t, seen, U)
  <2>1. new \subseteq U
    BY <1>2
  <2>2. ASSUME NEW x \in U, WritersOf(p, x, t) = {}, NEW y \in Range(p.pred[x]) \ seen
        PROVE  y \in U
    <3>1. PICK m \in new :
            x = m \/ (WritersOf(p, m, t) = {} /\ x \in Through(p, m, t, seen \cup {m}))
      OBVIOUS
    <3>2. m \in DOMAIN p.code /\ y \in DOMAIN p.code /\ WritersOf(p, m, t) = {}
      BY <3>1, <2>2, <1>2
    <3>3. Closed(p, m, t, seen \cup {m}, Through(p, m, t, seen \cup {m}))
      BY <3>2, ThroughClosed
    <3>4. y = m \/ y \in Through(p, m, t, seen \cup {m})
      BY <3>1, <3>3, <2>2 DEF Closed
    <3> QED BY <3>2, <3>4
  <2> HIDE DEF U
  <2> QED BY <2>1, <2>2 DEF Closed
<1>4. n \in U
  <2>1. U \in SUBSET DOMAIN p.code
    OBVIOUS
  <2> HIDE DEF U
  <2> QED BY <2>1, <1>1, <1>3, ThroughLeast
<1>5. PICK m \in new :
        n = m \/ (WritersOf(p, m, t) = {} /\ n \in Through(p, m, t, seen \cup {m}))
  BY <1>4
<1>6. Before(p, m, Len(p.code[m]) + 1, t) = WritersOf(p, m, t)
  BY <1>2, BeforeEnd
<1>7. q \in Reaching(p, m, Len(p.code[m]) + 1, t, seen \cup {m})
  <2>1. CASE WritersOf(p, m, t) # {}
    BY <2>1, <1>1, <1>5, <1>6 DEF Reaching
  <2>2. CASE WritersOf(p, m, t) = {}
    BY <2>2, <1>1, <1>5, <1>6 DEF Reaching, LastWriters
  <2> QED BY <2>1, <2>2
<1> QED BY <1>7

-----------------------------------------------------------------------------
(* Programs without loops: a search never meets a block it has been        *)
(* through, so the set of blocks seen on the way hides nothing.            *)

ClosedUp(p, b, S) ==
  Range(p.pred[b]) \subseteq S /\ \A m \in S : Range(p.pred[m]) \subseteq S

Ancestors(p, b) ==
  {m \in DOMAIN p.code : \A S \in SUBSET DOMAIN p.code : ClosedUp(p, b, S) => m \in S}

IsAcyclic(p) ==
  \A S \in (SUBSET DOMAIN p.code) \ {{}} : \E b \in S : Range(p.pred[b]) \cap S = {}

LEMMA AncestorsClosed ==
  ASSUME NEW p, IsProgram(p), NEW b \in DOMAIN p.code
  PROVE  ClosedUp(p, b, Ancestors(p, b))
<1>1. \A m \in DOMAIN p.code : Range(p.pred[m]) \subseteq DOMAIN p.code
  BY ProgramFacts
<1>2. Range(p.pred[b]) \subseteq Ancestors(p, b)
  BY <1>1 DEF Ancestors, ClosedUp
<1>3. ASSUME NEW m \in Ancestors(p, b), NEW n \in Range(p.pred[m]) PROVE n \in Ancestors(p, b)
  <2>1. m \in DOMAIN p.code /\ n \in DOMAIN p.code
    BY <1>1 DEF Ancestors
  <2>2. ASSUME NEW S \in SUBSET DOMAIN p.code, ClosedUp(p, b, S) PROVE n \in S
    <3>1. m \in S
      BY <2>2 DEF Ancestors
    <3> QED BY <3>1, <2>2 DEF ClosedUp
  <2> QED BY <2>1, <2>2 DEF Ancestors
<1> QED BY <1>2, <1>3 DEF ClosedUp

LEMMA AncestorsOfPred ==
  ASSUME NEW p, IsProgram(p), NEW b \in DOMAIN p.code, NEW m \in Range(p.pred[b])
  PROVE  m \in Ancestors(p, b) /\ Ancestors(p, m) \subseteq Ancestors(p, b)
<1>1. ClosedUp(p, b, Ancestors(p, b))
  BY AncestorsClosed
<1>2. m \in Ancestors(p, b) /\ ClosedUp(p, m, Ancestors(p, b))
  BY <1>1 DEF ClosedUp
<1>3. Ancestors(p, b) \in SUBSET DOMAIN p.code
  BY DEF Ancestors
<1> QED BY <1>2, <1>3 DEF Ancestors

LEMMA NotOwnAncestor ==
  ASSUME NEW p, IsProgram(p), IsAcyclic(p), NEW m \in DOMAIN p.code
  PROVE  m \notin Ancestors(p, m)
<1> SUFFICES ASSUME m \in Ancestors(p, m) PROVE FALSE
  OBVIOUS
<1> DEFINE S == {b \in Ancestors(p, m) : m \in Ancestors(p, b)}
<1>1. S \in (SUBSET DOMAIN p.code) \ {{}}
  BY DEF Ancestors
<1>2. PICK b \in S : Range(p.pred[b]) \cap S = {}
  <2> HIDE DEF S
  <2> QED BY <1>1 DEF IsAcyclic
<1>3. b \in DOMAIN p.code /\ b \in Ancestors(p, m) /\ m \in Ancestors(p, b)
  BY DEF Ancestors
<1>4. Range(p.pred[b]) \subseteq Ancestors(p, m) /\ Range(p.pred[b]) \subseteq DOMAIN p.code
  BY <1>3, AncestorsClosed, ProgramFacts DEF ClosedUp
<1> DEFINE R == {x \in DOMAIN p.code : \E c \in Range(p.pred[b]) : x = c \/ x \in Ancestors(p, c)}
<1>5. ClosedUp(p, b, R)
  <2>1. Range(p.pred[b]) \subseteq R
    BY <1>4
  <2>2. ASSUME NEW x \in R, NEW y \in Range(p.pred[x]) PROVE y \in R
    <3>1. PICK c \in Range(p.pred[b]) : x = c \/ x \in Ancestors(p, c)
      OBVIOUS
    <3>2. c \in DOMAIN p.code /\ x \in DOMAIN p.code /\ y \in DOMAIN p.code
      BY <1>4, ProgramFacts
    <3>3. y \in Ancestors(p, c)
      BY <3>1, <3>2, AncestorsClosed DEF ClosedUp
    <3> QED BY <3>2, <3>3
  <2> HIDE DEF R
  <2> QED BY <2>1, <2>2 DEF ClosedUp
<1>6. m \in R
  <2>1. R \in SUBSET DOMAIN p.code
    OBVIOUS
  <2> HIDE DEF R
  <2> QED BY <2>1, <1>3, <1>5 DEF Ancestors
<1>7. PICK c \in Range(p.pred[b]) : m = c \/ m \in Ancestors(p, c)
  BY <1>6
<1>8. c \in S
  BY <1>4, <1>7
<1> QED BY <1>2, <1>8

LEMMA SeenHidesNone ==
  ASSUME NEW p, IsProgram(p), NEW b \in DOMAIN p.code, NEW i, NEW t, NEW seen,
         seen \cap Ancestors(p, b) = {}
  PROVE  Reaching(p, b, i, t, {}) \subseteq Reaching(p, b, i, t, seen)
<1>1. ASSUME NEW S \in SUBSET DOMAIN p.code, Closed(p, b, t, seen, S)
      PROVE  Through(p, b, t, {}) \subseteq S
  <2> DEFINE X == S \cap Ancestors(p, b)
  <2>1. ClosedUp(p, b, Ancestors(p, b))
    BY AncestorsClosed
  <2>2. Range(p.pred[b]) \subseteq X
    BY <1>1, <2>1 DEF Closed, ClosedUp
  <2>3. ASSUME NEW x \in X, WritersOf(p, x, t) = {} PROVE Range(p.pred[x]) \subseteq X
    <3>1. Range(p.pred[x]) \subseteq Ancestors(p, b)
      BY <2>1 DEF ClosedUp
    <3>2. Range(p.pred[x]) \ seen \subseteq S
      BY <1>1, <2>3 DEF Closed
    <3> QED BY <3>1, <3>2
  <2>4. Closed(p, b, t, {}, X)
    <3> HIDE DEF X
    <3> QED BY <2>2, <2>3 DEF Closed
  <2>5. X \in SUBSET DOMAIN p.code
    OBVIOUS
  <2>6. Through(p, b, t, {}) \subseteq X
    <3> HIDE DEF X
    <3> QED BY <2>4, <2>5, ThroughLeast
  <2> QED BY <2>6
<1>2. Through(p, b, t, {}) \subseteq Through(p, b, t, seen)
  BY <1>1 DEF Through
<1> QED BY <1>2 DEF Reaching, LastWriters

-----------------------------------------------------------------------------
(* The invariant, for a program p.                                         *)

InstOf(p, info) == p.code[info.node][info.index]

NodeType(p) ==
  [node: DOMAIN p.code, index: Nat, op_index: Int, children: Seq(Seq(Nat))]

EntryType(p) ==
  [node: DOMAIN p.code, index: Nat \ {0}, info: Nat \ {0}, origin: Nat \ {0},
   kind: {"temp", "slot"}, temp: Temps, offset: Nat, seen: SUBSET DOMAIN p.code]

FrameType(p) ==
  [tree: Seq(NodeType(p)), arg: Nat, queue: Seq(EntryType(p)), src: EntryType(p),
   i: Nat, pc: {"pop", "scan", "found", "preds", "store", "load"}]

NodeOK(p, tree, x) ==
  /\ tree[x].index \in DOMAIN p.code[tree[x].node]
  /\ DOMAIN tree[x].children = DOMAIN InstOf(p, tree[x]).in

(* A child that is no store is a definition of the operand that reaches    *)
(* it; the others are below a load, and not the root's.                    *)
ChildOK(p, tree, x, k, c) ==
  IF InstOf(p, tree[c]).op = "st"
  THEN x > 1 /\ InstOf(p, tree[x]).op = "ld"
  ELSE <<tree[c].node, tree[c].index>>
         \in Reaching(p, tree[x].node, tree[x].index, InstOf(p, tree[x]).in[k], {})

LinkOK(p, tree, x, k) ==
  /\ Len(tree[x].children[k]) <= MaxBranches
  /\ Range(tree[x].children[k]) \subseteq (x + 1) .. Len(tree)
  /\ \A c \in Range(tree[x].children[k]) : ChildOK(p, tree, x, k, c)

TreeOK(p, tree) ==
  /\ tree \in Seq(NodeType(p)) /\ Len(tree) >= 1
  /\ \A x \in DOMAIN tree : NodeOK(p, tree, x)
  /\ \A x \in DOMAIN tree : \A k \in DOMAIN tree[x].children : LinkOK(p, tree, x, k)

(* What the search goes on from has nothing before it that the operand     *)
(* could not come from, and without loops it has not been there yet.       *)
EntryOK(p, tree, arg, s) ==
  /\ s \in EntryType(p)
  /\ s.info \in DOMAIN tree /\ s.origin \in DOMAIN tree[s.info].children
  /\ s.index <= Len(p.code[s.node]) + 1
  /\ Cardinality(s.seen) <= MaxTbs
  /\ s.kind = "temp" =>
       /\ s.temp = InstOf(p, tree[s.info]).in[s.origin]
       /\ Reaching(p, s.node, s.index, s.temp, {})
            \subseteq Reaching(p, tree[s.info].node, tree[s.info].index, s.temp, {})
  /\ s.kind = "slot" => s.info > 1 /\ InstOf(p, tree[s.info]).op = "ld"
  /\ s.info = 1 => s.origin = arg
  /\ IsAcyclic(p) => s.seen \cap Ancestors(p, s.node) = {}

(* Where the scan is, and what it knows about the instructions passed.     *)
PlaceOK(p, f) ==
  LET s == f.src
      before == Before(p, s.node, s.index, s.temp)
  IN  /\ f.pc # "pop" => f.i \in 0 .. Len(p.code[s.node])
      /\ f.pc \in {"found", "store", "load"} => f.i > 0
      /\ f.pc = "scan" /\ s.kind = "temp" => f.i = s.index - 1
      /\ f.pc = "found" => IF s.kind = "temp" THEN before # {} /\ f.i = Max(before)
                                              ELSE p.code[s.node][f.i].op = "st"
      /\ f.pc = "preds" /\ s.kind = "temp" => before = {}
      /\ f.pc = "store" => s.kind = "slot" /\ p.code[s.node][f.i].op = "st"
      /\ f.pc = "load" => LET last == f.tree[Len(f.tree)]
                          IN  /\ Len(f.tree) > 1 /\ last.node = s.node /\ last.index = f.i
                              /\ InstOf(p, last).op = "ld"

(* The entries that are still to be worked on, and the operands that have  *)
(* all their definitions, in the tree or at one of these entries.          *)
Live(f) == Range(f.queue) \cup (IF f.pc \in {"pop", "load"} THEN {} ELSE {f.src})

Has(p, f, x, k, q) ==
  \/ q \in Branches(f.tree, x, k)
  \/ \E s \in Live(f) : /\ s.kind = "temp" /\ s.info = x /\ s.origin = k
                        /\ q \in Reaching(p, s.node, s.index, s.temp, s.seen)

Owed(p, f, x, k) ==
  IF x = 1 THEN k = f.arg
  ELSE /\ IsAcyclic(p) /\ ~IsConst(InstOf(p, f.tree[x]).in[k])
       /\ ~(f.pc = "load" /\ x = Len(f.tree))

Complete(p, f) ==
  \A x \in DOMAIN f.tree : \A k \in DOMAIN f.tree[x].children : Owed(p, f, x, k) =>
    \A q \in Reaching(p, f.tree[x].node, f.tree[x].index, InstOf(p, f.tree[x]).in[k], {}) :
      Has(p, f, x, k, q)

FrameOK(p, f) ==
  /\ f \in FrameType(p)
  /\ TreeOK(p, f.tree)
  /\ f.arg \in DOMAIN f.tree[1].children
  /\ Len(f.queue) <= QueueLen
  /\ \A j \in DOMAIN f.queue : EntryOK(p, f.tree, f.arg, f.queue[j])
  /\ EntryOK(p, f.tree, f.arg, f.src)
  /\ PlaceOK(p, f)
  /\ Complete(p, f)

Waiting(f) == f.pc \in {"store", "load"}

FramesOK(p, calls) ==
  /\ calls \in Seq(FrameType(p)) /\ Len(calls) \in 1 .. MaxCalls
  /\ \A d \in 1 .. Len(calls) : FrameOK(p, calls[d]) /\ (Waiting(calls[d]) <=> d < Len(calls))

Inv ==
  /\ IsProgram(prog)
  /\ status \in {"running", "done", "aborted", "overrun", "exhausted"}
  /\ FramesOK(prog, frames)

-----------------------------------------------------------------------------
(* The stack of calls.                                                     *)

LEMMA FrontIs ==
  ASSUME NEW S, NEW s \in Seq(S), Len(s) >= 1
  PROVE  /\ Front(s) \in Seq(S) /\ Len(Front(s)) = Len(s) - 1
         /\ \A d \in 1 .. (Len(s) - 1) : Front(s)[d] = s[d]
         /\ Last(s) = s[Len(s)] /\ Last(s) \in S
<1>1. Len(s) \in Nat /\ \A d \in 1 .. Len(s) : s[d] \in S
  BY ElementOfSeq
<1> DEFINE n == Len(s) - 1
<1>2. Front(s) = SubSeq(s, 1, n) /\ 1 \in Int /\ n \in Nat /\ n \in Int
  BY <1>1 DEF Front
<1>3. \A d \in 1 .. n : s[d] \in S
  BY <1>1
<1> HIDE DEF n
<1>4. /\ SubSeq(s, 1, n) \in Seq(S) /\ Len(SubSeq(s, 1, n)) = n
      /\ \A d \in 1 .. n : SubSeq(s, 1, n)[d] = s[d]
  BY <1>2, <1>3, SubSeqProperties
<1> QED BY <1>1, <1>2, <1>4 DEF Last, n

LEMMA BecomeOK ==
  ASSUME NEW p, NEW calls, FramesOK(p, calls), NEW g, FrameOK(p, g), ~Waiting(g)
  PROVE  FramesOK(p, Front(calls) \o <<g>>)
<1> DEFINE r == Front(calls) \o <<g>>
           n == Len(calls)
<1>1. calls \in Seq(FrameType(p)) /\ n \in 1 .. MaxCalls /\ n \in Nat
  BY LenProperties DEF FramesOK
<1>2. g \in FrameType(p) /\ <<g>> \in Seq(FrameType(p))
  BY DEF FrameOK
<1>3. /\ Front(calls) \in Seq(FrameType(p)) /\ Len(Front(calls)) = n - 1
      /\ \A d \in 1 .. (n - 1) : Front(calls)[d] = calls[d]
  BY <1>1, FrontIs
<1>4. /\ r \in Seq(FrameType(p)) /\ Len(r) = n /\ r[n] = g
      /\ \A d \in 1 .. (n - 1) : r[d] = calls[d]
  <2> DEFINE u == Front(calls)
             w == <<g>>
  <2>1. w \in Seq(FrameType(p)) /\ Len(w) = 1 /\ w[1] = g
    BY <1>2
  <2> HIDE DEF u, w, n
  <2>2. u \in Seq(FrameType(p)) /\ Len(u) = n - 1 /\ \A d \in 1 .. (n - 1) : u[d] = calls[d]
    BY <1>3 DEF u
  <2>3. /\ u \o w \in Seq(FrameType(p)) /\ Len(u \o w) = Len(u) + Len(w)
        /\ \A d \in 1 .. Len(u) + Len(w) :
             (u \o w)[d] = IF d <= Len(u) THEN u[d] ELSE w[d - Len(u)]
    BY <2>1, <2>2, ConcatProperties
  <2>4. r = u \o w
    BY DEF u, w
  <2> HIDE DEF r
  <2>5. Len(u) + Len(w) = n /\ n - Len(u) = 1 /\ n \in 1 .. n /\ ~(n <= Len(u))
    BY <1>1, <2>1, <2>2
  <2>6. Len(r) = n /\ r[n] = g
    BY <2>1, <2>3, <2>4, <2>5
  <2>7. ASSUME NEW d \in 1 .. (n - 1) PROVE r[d] = calls[d]
    <3>1. d \in 1 .. n /\ d <= n - 1
      BY <1>1
    <3> QED BY <2>2, <2>3, <2>4, <2>5, <3>1
  <2> QED BY <2>3, <2>4, <2>6, <2>7
<1>5. \A d \in 1 .. n : FrameOK(p, calls[d]) /\ (Waiting(calls[d]) <=> d < n)
  BY DEF FramesOK
<1> HIDE DEF r
<1>6. ASSUME NEW d \in 1 .. n PROVE FrameOK(p, r[d]) /\ (Waiting(r[d]) <=> d < n)
  <2>1. CASE d = n
    BY <2>1, <1>1, <1>4
  <2>2. CASE d # n
    <3>1. d \in 1 .. (n - 1) /\ d < n
      BY <2>2, <1>1
    <3> QED BY <3>1, <1>4, <1>5
  <2> QED BY <2>1, <2>2
<1>7. FramesOK(p, r)
  BY <1>1, <1>4, <1>6 DEF FramesOK
<1> QED BY <1>7 DEF r

LEMMA CallOK ==
  ASSUME NEW p, NEW calls, FramesOK(p, calls), Len(calls) < MaxCalls,
         NEW g, FrameOK(p, g), Waiting(g), NEW h, FrameOK(p, h), ~Waiting(h)
  PROVE  FramesOK(p, Front(calls) \o <<g, h>>)
<1> DEFINE r == Front(calls) \o <<g, h>>
           n == Len(calls)
<1>1. calls \in Seq(FrameType(p)) /\ n \in 1 .. MaxCalls /\ n \in Nat /\ MaxCalls \in Nat
  BY LenProperties, RegSrcAssumption DEF FramesOK
<1>2. <<g, h>> \in Seq(FrameType(p))
  BY DEF FrameOK
<1>3. /\ Front(calls) \in Seq(FrameType(p)) /\ Len(Front(calls)) = n - 1
      /\ \A d \in 1 .. (n - 1) : Front(calls)[d] = calls[d]
  BY <1>1, FrontIs
<1>4. /\ r \in Seq(FrameType(p)) /\ Len(r) = n + 1 /\ r[n] = g /\ r[n + 1] = h
      /\ \A d \in 1 .. (n - 1) : r[d] = calls[d]
  BY <1>1, <1>2, <1>3, ConcatProperties
<1>5. \A d \in 1 .. n : FrameOK(p, calls[d]) /\ (Waiting(calls[d]) <=> d < n)
  BY DEF FramesOK
<1> HIDE DEF r
<1>6. ASSUME NEW d \in 1 .. (n + 1) PROVE FrameOK(p, r[d]) /\ (Waiting(r[d]) <=> d < n + 1)
  <2>1. CASE d = n
    BY <2>1, <1>1, <1>4
  <2>2. CASE d = n + 1
    BY <2>2, <1>1, <1>4
  <2>3. CASE d # n /\ d # n + 1
    <3>1. d \in 1 .. (n - 1) /\ d \in 1 .. n /\ d < n /\ d < n + 1
      BY <2>3, <1>1
    <3> QED BY <3>1, <1>4, <1>5
  <2> QED BY <2>1, <2>2, <2>3
<1>7. n + 1 \in 1 .. MaxCalls
  BY <1>1
<1>8. FramesOK(p, r)
  BY <1>4, <1>6, <1>7 DEF FramesOK
<1> QED BY <1>8 DEF r

LEMMA ResumeOK ==
  ASSUME NEW p, NEW calls, FramesOK(p, calls), Len(calls) > 1,
         NEW g, FrameOK(p, g), ~Waiting(g)
  PROVE  FramesOK(p, Front(Front(calls)) \o <<g>>)
<1> DEFINE below == Front(calls)
           r == Front(below) \o <<g>>
           n == Len(calls)
<1>1. calls \in Seq(FrameType(p)) /\ n \in 1 .. MaxCalls /\ n \in Nat /\ MaxCalls \in Nat
  BY LenProperties, RegSrcAssumption DEF FramesOK
<1>2. /\ below \in Seq(FrameType(p)) /\ Len(below) = n - 1
      /\ \A d \in 1 .. (n - 1) : below[d] = calls[d]
  BY <1>1, FrontIs
<1> HIDE DEF below
<1>3. /\ Front(below) \in Seq(FrameType(p)) /\ Len(Front(below)) = n - 2
      /\ \A d \in 1 .. (n - 2) : Front(below)[d] = calls[d]
  <2>1. Len(below) >= 1 /\ Len(below) - 1 = n - 2
    BY <1>1, <1>2
  <2>2. /\ Front(below) \in Seq(FrameType(p)) /\ Len(Front(below)) = n - 2
        /\ \A d \in 1 .. (n - 2) : Front(below)[d] = below[d]
    BY <1>2, <2>1, FrontIs
  <2> QED BY <1>1, <1>2, <2>2
<1>4. g \in FrameType(p) /\ <<g>> \in Seq(FrameType(p))
  BY DEF FrameOK
<1>5. /\ r \in Seq(FrameType(p)) /\ Len(r) = n - 1 /\ r[n - 1] = g
      /\ \A d \in 1 .. (n - 2) : r[d] = calls[d]
  BY <1>1, <1>3, <1>4, ConcatProperties
<1>6. \A d \in 1 .. n : FrameOK(p, calls[d]) /\ (Waiting(calls[d]) <=> d < n)
  BY DEF FramesOK
<1> HIDE DEF r
<1>7. ASSUME NEW d \in 1 .. (n - 1) PROVE FrameOK(p, r[d]) /\ (Waiting(r[d]) <=> d < n - 1)
  <2>1. CASE d = n - 1
    BY <2>1, <1>1, <1>5
  <2>2. CASE d # n - 1
    <3>1. d \in 1 .. (n - 2) /\ d \in 1 .. n /\ d < n /\ d < n - 1
      BY <2>2, <1>1
    <3> QED BY <3>1, <1>5, <1>6
  <2> QED BY <2>1, <2>2
<1>8. n - 1 \in 1 .. MaxCalls
  BY <1>1
<1>9. FramesOK(p, r)
  BY <1>5, <1>7, <1>8 DEF FramesOK
<1> QED BY <1>9 DEF r, below

-----------------------------------------------------------------------------
(* A tree that grows by one node.                                          *)

LEMMA TreeFacts ==
  ASSUME NEW p, IsProgram(p), NEW tree, TreeOK(p, tree)
  PROVE  /\ Len(tree) \in Nat \ {0} /\ DOMAIN tree = 1 .. Len(tree) /\ 1 \in DOMAIN tree
         /\ \A x \in DOMAIN tree :
              /\ tree[x] \in NodeType(p) /\ tree[x].node \in DOMAIN p.code
              /\ tree[x].index \in DOMAIN p.code[tree[x].node]
              /\ DOMAIN tree[x].children = DOMAIN InstOf(p, tree[x]).in
              /\ tree[x].children \in Seq(Seq(Nat))
              /\ InstOf(p, tree[x]) \in Instruction
              /\ \A k \in DOMAIN tree[x].children :
                   /\ InstOf(p, tree[x]).in[k] \in Temps /\ k \in Nat \ {0}
                   /\ tree[x].children[k] \in Seq(Nat)
                   /\ LinkOK(p, tree, x, k)
                   /\ Range(tree[x].children[k]) \subseteq DOMAIN tree
<1>1. tree \in Seq(NodeType(p)) /\ Len(tree) \in Nat \ {0} /\ DOMAIN tree = 1 .. Len(tree)
  BY LenProperties DEF TreeOK
<1>2. ASSUME NEW x \in DOMAIN tree
      PROVE  /\ tree[x] \in NodeType(p) /\ tree[x].node \in DOMAIN p.code
             /\ tree[x].index \in DOMAIN p.code[tree[x].node]
             /\ DOMAIN tree[x].children = DOMAIN InstOf(p, tree[x]).in
             /\ tree[x].children \in Seq(Seq(Nat))
             /\ InstOf(p, tree[x]) \in Instruction
             /\ \A k \in DOMAIN tree[x].children :
                  /\ InstOf(p, tree[x]).in[k] \in Temps /\ k \in Nat \ {0}
                  /\ tree[x].children[k] \in Seq(Nat)
                  /\ LinkOK(p, tree, x, k)
                  /\ Range(tree[x].children[k]) \subseteq DOMAIN tree
  <2>1. tree[x] \in NodeType(p)
    BY <1>1, ElementOfSeq
  <2>2. NodeOK(p, tree, x) /\ \A k \in DOMAIN tree[x].children : LinkOK(p, tree, x, k)
    BY DEF TreeOK
  <2>3. /\ tree[x].node \in DOMAIN p.code /\ tree[x].children \in Seq(Seq(Nat))
        /\ tree[x].index \in DOMAIN p.code[tree[x].node]
        /\ DOMAIN tree[x].children = DOMAIN InstOf(p, tree[x]).in
    BY <2>1, <2>2 DEF NodeType, NodeOK
  <2>4. /\ InstOf(p, tree[x]) \in Instruction
        /\ DOMAIN InstOf(p, tree[x]).in = 1 .. Len(InstOf(p, tree[x]).in)
        /\ \A k \in DOMAIN InstOf(p, tree[x]).in : InstOf(p, tree[x]).in[k] \in Temps
    <3> DEFINE b == tree[x].node
               i == tree[x].index
    <3> HIDE DEF b, i
    <3>1. b \in DOMAIN p.code /\ i \in DOMAIN p.code[b]
      BY <2>3 DEF b, i
    <3>2. LET inst == p.code[b][i]
          IN  /\ inst \in Instruction /\ DOMAIN inst.in = 1 .. Len(inst.in)
              /\ \A k \in DOMAIN inst.in : inst.in[k] \in Temps
      BY <3>1, InstructionFacts
    <3>3. InstOf(p, tree[x]) = p.code[b][i]
      BY DEF InstOf, b, i
    <3> QED BY <3>2, <3>3
  <2>5. ASSUME NEW k \in DOMAIN tree[x].children
        PROVE  tree[x].children[k] \in Seq(Nat) /\ Range(tree[x].children[k]) \subseteq DOMAIN tree
    <3>1. tree[x].children[k] \in Seq(Nat)
      BY <2>3, ElementOfSeq
    <3>2. Range(tree[x].children[k]) \subseteq (x + 1) .. Len(tree)
      BY <2>2 DEF LinkOK
    <3> QED BY <3>1, <3>2, <1>1
  <2> QED BY <2>1, <2>2, <2>3, <2>4, <2>5
<1> QED BY <1>1, <1>2

(* Found: node n is the new child of operand k of node a.                  *)
Grown(tree, a, k, n) ==
  Append([tree EXCEPT ![a].children[k] = Append(@, Len(tree) + 1)], n)

LEMMA GrownIs ==
  ASSUME NEW p, IsProgram(p), NEW tree, TreeOK(p, tree),
         NEW a \in DOMAIN tree, NEW k \in DOMAIN tree[a].children, NEW n \in NodeType(p)
  PROVE  LET t == Grown(tree, a, k, n)
             x == Len(tree) + 1
         IN  /\ t \in Seq(NodeType(p)) /\ Len(t) = x /\ DOMAIN t = 1 .. x /\ t[x] = n
             /\ \A y \in DOMAIN tree :
                  /\ t[y].node = tree[y].node /\ t[y].index = tree[y].index
                  /\ DOMAIN t[y].children = DOMAIN tree[y].children
                  /\ \A l \in DOMAIN tree[y].children :
                       t[y].children[l] = IF y = a /\ l = k THEN Append(tree[a].children[k], x)
                                                            ELSE tree[y].children[l]
<1> DEFINE t == Grown(tree, a, k, n)
           x == Len(tree) + 1
           linked == [tree EXCEPT ![a].children[k] = Append(@, x)]
           kids == [tree[a].children EXCEPT ![k] = Append(tree[a].children[k], x)]
           new == [tree[a] EXCEPT !.children = kids]
<1>1. tree \in Seq(NodeType(p)) /\ Len(tree) \in Nat /\ DOMAIN tree = 1 .. Len(tree)
  BY LenProperties DEF TreeOK
<1>2. tree[a] \in NodeType(p) /\ tree[a].children \in Seq(Seq(Nat)) /\ x \in Nat
  BY <1>1, TreeFacts
<1>3. /\ Append(tree[a].children[k], x) \in Seq(Nat)
      /\ DOMAIN tree[a].children = 1 .. Len(tree[a].children)
  <2>1. tree[a].children[k] \in Seq(Nat)
    BY TreeFacts
  <2> QED BY <2>1, <1>2, AppendProperties
<1>4. /\ kids \in Seq(Seq(Nat)) /\ DOMAIN kids = DOMAIN tree[a].children
      /\ \A l \in DOMAIN tree[a].children :
           kids[l] = IF l = k THEN Append(tree[a].children[k], x) ELSE tree[a].children[l]
  <2>1. kids \in Seq(Seq(Nat))
    BY <1>2, <1>3, ExceptSeq
  <2> QED BY <2>1
<1>7. linked = [tree EXCEPT ![a] = new]
  OBVIOUS
<1> HIDE DEF kids
<1>5. new \in NodeType(p)
  BY <1>2, <1>4 DEF NodeType
<1>6. /\ new.node = tree[a].node /\ new.index = tree[a].index
      /\ DOMAIN new.children = DOMAIN tree[a].children
      /\ \A l \in DOMAIN tree[a].children :
           new.children[l] = IF l = k THEN Append(tree[a].children[k], x)
                                      ELSE tree[a].children[l]
  BY <1>2, <1>4 DEF NodeType
<1> HIDE DEF new
<1>8. linked \in Seq(NodeType(p)) /\ Len(linked) = Len(tree) /\ DOMAIN linked = DOMAIN tree
  <2>1. [tree EXCEPT ![a] = new] \in Seq(NodeType(p))
    BY <1>1, <1>5, ExceptSeq
  <2>2. DOMAIN [tree EXCEPT ![a] = new] = DOMAIN tree
    OBVIOUS
  <2>3. Len([tree EXCEPT ![a] = new]) = Len(tree)
    BY <1>1, <1>5, ExceptSeq
  <2> QED BY <1>7, <2>1, <2>2, <2>3
<1>9. \A y \in DOMAIN tree : linked[y] = IF y = a THEN new ELSE tree[y]
  BY <1>7
<1> HIDE DEF linked
<1>10. /\ t \in Seq(NodeType(p)) /\ Len(t) = x /\ DOMAIN t = 1 .. x /\ t[x] = n
       /\ \A y \in DOMAIN tree : t[y] = linked[y]
  <2>1. t = Append(linked, n)
    BY DEF Grown, linked
  <2> QED BY <2>1, <1>1, <1>8, AppendProperties
<1> HIDE DEF t
<1>11. ASSUME NEW y \in DOMAIN tree
       PROVE  /\ t[y].node = tree[y].node /\ t[y].index = tree[y].index
              /\ DOMAIN t[y].children = DOMAIN tree[y].children
              /\ \A l \in DOMAIN tree[y].children :
                   t[y].children[l] = IF y = a /\ l = k THEN Append(tree[a].children[k], x)
                                                        ELSE tree[y].children[l]
  <2>1. CASE y = a
    BY <2>1, <1>6, <1>9, <1>10
  <2>2. CASE y # a
    BY <2>2, <1>9, <1>10
  <2> QED BY <2>1, <2>2
<1> QED BY <1>10, <1>11 DEF t

LEMMA AppendRange ==
  ASSUME NEW S, NEW s \in Seq(S), NEW e \in S
  PROVE  Range(Append(s, e)) = Range(s) \cup {e} /\ Len(Append(s, e)) = Len(s) + 1
<1>1. Append(s, e) = s \o <<e>> /\ <<e>> \in Seq(S)
  BY AppendIsConcat
<1>2. Range(<<e>>) = {e}
  BY DEF Range
<1>3. Range(s \o <<e>>) = Range(s) \cup Range(<<e>>)
  BY <1>1, RangeConcatenation
<1>4. Len(Append(s, e)) = Len(s) + 1
  BY AppendProperties
<1> QED BY <1>1, <1>2, <1>3, <1>4

LEMMA GrownOK ==
  ASSUME NEW p, IsProgram(p), NEW tree, TreeOK(p, tree),
         NEW a \in DOMAIN tree, NEW k \in DOMAIN tree[a].children, NEW n \in NodeType(p),
         Len(tree[a].children[k]) < MaxBranches,
         n.index \in DOMAIN p.code[n.node],
         DOMAIN n.children = DOMAIN InstOf(p, n).in,
         \A l \in DOMAIN n.children : n.children[l] = << >>,
         IF InstOf(p, n).op = "st"
         THEN a > 1 /\ InstOf(p, tree[a]).op = "ld"
         ELSE <<n.node, n.index>>
                \in Reaching(p, tree[a].node, tree[a].index, InstOf(p, tree[a]).in[k], {})
  PROVE  TreeOK(p, Grown(tree, a, k, n))
<1> DEFINE t == Grown(tree, a, k, n)
           x == Len(tree) + 1
<1>1. /\ Len(tree) \in Nat \ {0} /\ DOMAIN tree = 1 .. Len(tree) /\ x \in Nat
  BY TreeFacts
<1>2. /\ t \in Seq(NodeType(p)) /\ Len(t) = x /\ DOMAIN t = 1 .. x /\ t[x] = n
      /\ \A y \in DOMAIN tree :
           /\ t[y].node = tree[y].node /\ t[y].index = tree[y].index
           /\ DOMAIN t[y].children = DOMAIN tree[y].children
           /\ \A l \in DOMAIN tree[y].children :
                t[y].children[l] = IF y = a /\ l = k THEN Append(tree[a].children[k], x)
                                                     ELSE tree[y].children[l]
  BY GrownIs
<1> HIDE DEF t
<1>3. DOMAIN t = DOMAIN tree \cup {x} /\ MaxBranches \in Nat
  BY <1>1, <1>2, RegSrcAssumption
<1>4. \A y \in DOMAIN tree : InstOf(p, t[y]) = InstOf(p, tree[y])
  BY <1>2 DEF InstOf
<1>5. ASSUME NEW y \in DOMAIN t PROVE NodeOK(p, t, y)
  <2>1. CASE y = x
    BY <2>1, <1>2 DEF NodeOK
  <2>2. CASE y \in DOMAIN tree
    <3>1. NodeOK(p, tree, y)
      BY <2>2 DEF TreeOK
    <3> QED BY <2>2, <3>1, <1>2, <1>4 DEF NodeOK
  <2> QED BY <2>1, <2>2, <1>3
<1>6. ASSUME NEW y \in DOMAIN t, NEW l \in DOMAIN t[y].children PROVE LinkOK(p, t, y, l)
  <2>1. CASE y = x
    <3>1. t[y].children[l] = << >>
      BY <2>1, <1>2
    <3>2. Range(t[y].children[l]) = {} /\ Len(t[y].children[l]) = 0
      BY <3>1 DEF Range
    <3> QED BY <3>2, <1>3 DEF LinkOK
  <2>2. CASE y \in DOMAIN tree
    <3>1. l \in DOMAIN tree[y].children
      BY <2>2, <1>2
    <3>2. /\ LinkOK(p, tree, y, l) /\ tree[y].children[l] \in Seq(Nat)
          /\ Range(tree[y].children[l]) \subseteq DOMAIN tree
      BY <2>2, <3>1, TreeFacts
    <3>3. ASSUME NEW c \in Range(tree[y].children[l]) PROVE ChildOK(p, t, y, l, c)
      <4>1. ChildOK(p, tree, y, l, c) /\ c \in DOMAIN tree
        BY <3>2 DEF LinkOK
      <4>2. /\ InstOf(p, t[c]) = InstOf(p, tree[c]) /\ InstOf(p, t[y]) = InstOf(p, tree[y])
            /\ t[c].node = tree[c].node /\ t[c].index = tree[c].index
            /\ t[y].node = tree[y].node /\ t[y].index = tree[y].index
        BY <4>1, <2>2, <1>2, <1>4
      <4> QED BY <4>1, <4>2 DEF ChildOK
    <3>4. /\ Len(tree[y].children[l]) <= MaxBranches
          /\ Range(tree[y].children[l]) \subseteq (y + 1) .. Len(tree)
      BY <3>2 DEF LinkOK
    <3>5. CASE ~(y = a /\ l = k)
      <4>1. t[y].children[l] = tree[y].children[l]
        BY <3>1, <3>5, <2>2, <1>2
      <4>2. Range(t[y].children[l]) \subseteq (y + 1) .. Len(t)
        BY <4>1, <3>4, <2>2, <1>1, <1>2
      <4> QED BY <4>1, <4>2, <3>3, <3>4 DEF LinkOK
    <3>6. CASE y = a /\ l = k
      <4>1. t[y].children[l] = Append(tree[y].children[l], x)
        BY <3>1, <3>6, <2>2, <1>2
      <4>2. /\ Range(t[y].children[l]) = Range(tree[y].children[l]) \cup {x}
            /\ Len(t[y].children[l]) = Len(tree[y].children[l]) + 1
        <5>1. tree[y].children[l] \in Seq(Nat) /\ x \in Nat
          BY <3>2, <1>1
        <5> QED BY <4>1, <5>1, AppendRange, SMTT(30)
      <4>3. Len(t[y].children[l]) <= MaxBranches
        <5>1. Len(tree[y].children[l]) \in Nat
          BY <3>2, LenProperties
        <5> QED BY <5>1, <4>2, <3>6, <1>3
      <4>4. Range(t[y].children[l]) \subseteq (y + 1) .. Len(t)
        BY <4>2, <3>4, <2>2, <1>1, <1>2
      <4>5. ChildOK(p, t, y, l, x)
        <5>1. t[x] = n /\ InstOf(p, t[y]) = InstOf(p, tree[a])
              /\ t[y].node = tree[a].node /\ t[y].index = tree[a].index
          BY <3>6, <2>2, <1>2, <1>4
        <5> QED BY <5>1, <3>6 DEF ChildOK
      <4> QED BY <4>2, <4>3, <4>4, <4>5, <3>3 DEF LinkOK
    <3> QED BY <3>5, <3>6
  <2> QED BY <2>1, <2>2, <1>3
<1>7. TreeOK(p, t)
  BY <1>1, <1>2, <1>5, <1>6 DEF TreeOK
<1> QED BY <1>7 DEF t

(* The branches of the operands after that.                                *)
LEMMA GrownBranches ==
  ASSUME NEW p, IsProgram(p), NEW tree, TreeOK(p, tree),
         NEW a \in DOMAIN tree, NEW k \in DOMAIN tree[a].children, NEW n \in NodeType(p)
  PROVE  LET t == Grown(tree, a, k, n)
         IN  /\ <<n.node, n.index>> \in Branches(t, a, k)
             /\ \A y \in DOMAIN tree : \A l \in DOMAIN tree[y].children :
                  Branches(tree, y, l) \subseteq Branches(t, y, l)
<1> DEFINE t == Grown(tree, a, k, n)
           x == Len(tree) + 1
<1>1. /\ t[x] = n
      /\ \A y \in DOMAIN tree :
           /\ t[y].node = tree[y].node /\ t[y].index = tree[y].index
           /\ \A l \in DOMAIN tree[y].children :
                t[y].children[l] = IF y = a /\ l = k THEN Append(tree[a].children[k], x)
                                                     ELSE tree[y].children[l]
  BY GrownIs
<1> HIDE DEF t
<1>2. x \in Nat /\ tree[a].children[k] \in Seq(Nat)
  BY TreeFacts
<1>3. Range(t[a].children[k]) = Range(tree[a].children[k]) \cup {x}
  <2>1. t[a].children[k] = Append(tree[a].children[k], x)
    BY <1>1
  <2> QED BY <2>1, <1>2, AppendRange
<1>4. <<n.node, n.index>> \in Branches(t, a, k)
  BY <1>1, <1>3 DEF Branches
<1>5. ASSUME NEW y \in DOMAIN tree, NEW l \in DOMAIN tree[y].children
      PROVE  Branches(tree, y, l) \subseteq Branches(t, y, l)
  <2>1. Range(tree[y].children[l]) \subseteq Range(t[y].children[l])
    BY <1>1, <1>3
  <2>2. \A c \in Range(tree[y].children[l]) : t[c].node = tree[c].node /\ t[c].index = tree[c].index
    BY <1>1, TreeFacts
  <2> QED BY <2>1, <2>2 DEF Branches
<1> QED BY <1>4, <1>5 DEF t

-----------------------------------------------------------------------------
(* Entries of the queue.                                                   *)

LEMMA EntryStays ==
  ASSUME NEW p, NEW tree, NEW t, NEW arg, NEW s, EntryOK(p, tree, arg, s),
         DOMAIN tree \subseteq DOMAIN t,
         \A y \in DOMAIN tree : /\ t[y].node = tree[y].node /\ t[y].index = tree[y].index
                                /\ DOMAIN t[y].children = DOMAIN tree[y].children
  PROVE  EntryOK(p, t, arg, s)
<1>1. s.info \in DOMAIN tree /\ s.info \in DOMAIN t
  BY DEF EntryOK
<1>2. /\ t[s.info].node = tree[s.info].node /\ t[s.info].index = tree[s.info].index
      /\ DOMAIN t[s.info].children = DOMAIN tree[s.info].children
      /\ InstOf(p, t[s.info]) = InstOf(p, tree[s.info])
  BY <1>1 DEF InstOf
<1> QED BY <1>1, <1>2 DEF EntryOK

(* An operand has what it had when its branches stay and each entry is     *)
(* still there or has been replaced by what it leads to.                   *)
LEMMA HasStays ==
  ASSUME NEW p, NEW f, NEW g, NEW x, NEW k, NEW q, Has(p, f, x, k, q),
         Branches(f.tree, x, k) \subseteq Branches(g.tree, x, k),
         \A s \in Live(f) : s.kind = "temp" =>
           s \in Live(g) \/ \A r \in Reaching(p, s.node, s.index, s.temp, s.seen) :
                              Has(p, g, s.info, s.origin, r)
  PROVE  Has(p, g, x, k, q)
<1>1. CASE q \in Branches(f.tree, x, k)
  BY <1>1 DEF Has
<1>2. ASSUME NEW s \in Live(f), s.kind = "temp", s.info = x, s.origin = k,
             q \in Reaching(p, s.node, s.index, s.temp, s.seen)
      PROVE  Has(p, g, x, k, q)
  <2>1. CASE s \in Live(g)
    BY <1>2, <2>1 DEF Has
  <2>2. CASE \A r \in Reaching(p, s.node, s.index, s.temp, s.seen) :
               Has(p, g, s.info, s.origin, r)
    BY <1>2, <2>2
  <2> QED BY <1>2, <2>1, <2>2
<1> QED BY <1>1, <1>2 DEF Has

(* All definitions of an operand are in the tree or at an entry.           *)
Supplied(p, f, x, k) ==
  \A q \in Reaching(p, f.tree[x].node, f.tree[x].index, InstOf(p, f.tree[x]).in[k], {}) :
    Has(p, f, x, k, q)

(* A step that leaves the tree as it is.                                   *)
LEMMA SameTree ==
  ASSUME NEW p, NEW f, FrameOK(p, f), NEW g \in FrameType(p),
         g.tree = f.tree, g.arg = f.arg, Len(g.queue) <= QueueLen,
         \A j \in DOMAIN g.queue : EntryOK(p, g.tree, g.arg, g.queue[j]),
         EntryOK(p, g.tree, g.arg, g.src), PlaceOK(p, g),
         \A s \in Live(f) : s.kind = "temp" =>
           s \in Live(g) \/ \A q \in Reaching(p, s.node, s.index, s.temp, s.seen) :
                              Has(p, g, s.info, s.origin, q),
         f.pc = "load" /\ g.pc # "load" =>
           \A k \in DOMAIN g.tree[Len(g.tree)].children :
             Owed(p, g, Len(g.tree), k) => Supplied(p, g, Len(g.tree), k)
  PROVE  FrameOK(p, g)
<1>1. ASSUME NEW x \in DOMAIN g.tree, NEW k \in DOMAIN g.tree[x].children, Owed(p, g, x, k)
      PROVE  Supplied(p, g, x, k)
  <2>1. CASE Owed(p, f, x, k)
    <3>1. Supplied(p, f, x, k)
      BY <1>1, <2>1 DEF FrameOK, Complete, Supplied
    <3> QED BY <3>1, HasStays DEF Supplied
  <2>2. CASE ~Owed(p, f, x, k)
    BY <1>1, <2>2 DEF Owed
  <2> QED BY <2>1, <2>2
<1>2. Complete(p, g)
  BY <1>1 DEF Complete, Supplied
<1> QED BY <1>2 DEF FrameOK

(* What Inputs returns: an entry for each operand that is no constant.     *)
LEMMA InputsIs ==
  ASSUME IsProgram(prog), NEW f, TreeOK(prog, f.tree), NEW x \in DOMAIN f.tree
  PROVE  LET srcs == Inputs(x, f)
             n == f.tree[x]
         IN  /\ Len(srcs) \in Nat /\ DOMAIN srcs = 1 .. Len(srcs)
             /\ srcs \in Seq(Range(srcs))
             /\ \A j \in DOMAIN srcs : \E k \in DOMAIN n.children :
                  srcs[j] = TempSrc(n.node, n.index, x, k, f.src.seen)
             /\ \A k \in DOMAIN n.children : ~IsConst(InstOf(prog, n).in[k]) =>
                  TempSrc(n.node, n.index, x, k, f.src.seen) \in Range(srcs)
<1> DEFINE n == f.tree[x]
           S == {k \in DOMAIN n.children : ~IsConst(Inst(n.node, n.index).in[k])}
           ks == Ordered(S)
           srcs == Inputs(x, f)
<1>1. n.children \in Seq(Seq(Nat)) /\ Len(n.children) \in Nat
      /\ DOMAIN n.children = 1 .. Len(n.children)
  <2>1. n.children \in Seq(Seq(Nat))
    BY TreeFacts
  <2> QED BY <2>1, LenProperties
<1>2. ks \in Seq(S) /\ Len(ks) \in Nat /\ Range(ks) = S /\ DOMAIN ks = 1 .. Len(ks)
  <2>1. S \subseteq 1 .. Len(n.children)
    BY <1>1
  <2> HIDE DEF S
  <2> QED BY <1>1, <2>1, OrderedIs, LenProperties
<1>3. srcs = [j \in DOMAIN ks |-> TempSrc(n.node, n.index, x, ks[j], f.src.seen)]
  BY DEF Inputs
<1>4. S \subseteq DOMAIN n.children
      /\ \A k \in DOMAIN n.children : ~IsConst(InstOf(prog, n).in[k]) => k \in S
  BY DEF InstOf, Inst
<1> HIDE DEF S, ks, srcs, n
<1>5. Len(srcs) \in Nat /\ DOMAIN srcs = 1 .. Len(srcs)
  BY <1>2, <1>3
<1>6. \A j \in DOMAIN srcs : \E k \in DOMAIN n.children :
        srcs[j] = TempSrc(n.node, n.index, x, k, f.src.seen)
  BY <1>2, <1>3, <1>4 DEF Range
<1>7. ASSUME NEW k \in DOMAIN n.children, ~IsConst(InstOf(prog, n).in[k])
      PROVE  TempSrc(n.node, n.index, x, k, f.src.seen) \in Range(srcs)
  <2>1. PICK j \in DOMAIN ks : ks[j] = k
    BY <1>2, <1>4, <1>7 DEF Range
  <2>2. j \in DOMAIN srcs /\ srcs[j] = TempSrc(n.node, n.index, x, k, f.src.seen)
    BY <1>3, <2>1
  <2> QED BY <2>2 DEF Range
<1>8. srcs \in Seq(Range(srcs))
  <2>1. \A j \in DOMAIN srcs : srcs[j] \in Range(srcs)
    BY DEF Range
  <2>2. srcs = [j \in 1 .. Len(srcs) |-> srcs[j]]
    BY <1>3, <1>5
  <2> DEFINE R == Range(srcs)
             L == Len(srcs)
  <2>3. srcs \in [1 .. L -> R]
    BY <1>5, <2>1, <2>2
  <2> HIDE DEF R, L
  <2>4. srcs \in Seq(R)
    BY <1>5, <2>3 DEF L
  <2> QED BY <2>4 DEF R
<1> QED BY <1>5, <1>6, <1>7, <1>8 DEF srcs, n

(* They are good entries, and all that the node needs.                     *)
LEMMA InputsOK ==
  ASSUME IsProgram(prog), NEW f, TreeOK(prog, f.tree), EntryOK(prog, f.tree, f.arg, f.src),
         NEW x \in DOMAIN f.tree, x > 1, f.tree[x].node = f.src.node
  PROVE  /\ Inputs(x, f) \in Seq(EntryType(prog))
         /\ \A j \in DOMAIN Inputs(x, f) : EntryOK(prog, f.tree, f.arg, Inputs(x, f)[j])
<1> DEFINE srcs == Inputs(x, f)
           n == f.tree[x]
<1>1. Len(srcs) \in Nat /\ DOMAIN srcs = 1 .. Len(srcs)
      /\ \A j \in DOMAIN srcs : \E k \in DOMAIN n.children :
           srcs[j] = TempSrc(n.node, n.index, x, k, f.src.seen)
  BY InputsIs
<1>2. /\ n.node \in DOMAIN prog.code /\ n.index \in DOMAIN prog.code[n.node]
      /\ \A k \in DOMAIN n.children :
           InstOf(prog, n).in[k] \in Temps /\ k \in Nat \ {0}
      /\ x \in Nat \ {0}
  BY TreeFacts
<1>3. /\ DOMAIN prog.code[n.node] = 1 .. Len(prog.code[n.node])
      /\ Len(prog.code[n.node]) \in Nat
  BY <1>2, ProgramFacts
<1>4. /\ f.src.seen \in SUBSET DOMAIN prog.code /\ Cardinality(f.src.seen) <= MaxTbs
      /\ IsAcyclic(prog) => f.src.seen \cap Ancestors(prog, n.node) = {}
  BY DEF EntryOK, EntryType
<1>5. ASSUME NEW k \in DOMAIN n.children
      PROVE  EntryOK(prog, f.tree, f.arg, TempSrc(n.node, n.index, x, k, f.src.seen))
  <2> DEFINE s == TempSrc(n.node, n.index, x, k, f.src.seen)
  <2>1. /\ s.node = n.node /\ s.index = n.index /\ s.info = x /\ s.origin = k
        /\ s.kind = "temp" /\ s.temp = InstOf(prog, n).in[k] /\ s.seen = f.src.seen
        /\ s.offset = 0
    BY DEF TempSrc, InstOf, Inst
  <2>2. s \in EntryType(prog)
    <3> DEFINE t == InstOf(prog, n).in[k]
               seen == f.src.seen
    <3>1. s = [node |-> n.node, index |-> n.index, info |-> x, origin |-> k, kind |-> "temp",
               temp |-> t, offset |-> 0, seen |-> seen]
      BY DEF TempSrc, InstOf, Inst
    <3>2. n.index \in Nat \ {0}
      BY <1>2, <1>3
    <3>3. /\ n.node \in DOMAIN prog.code /\ x \in Nat \ {0} /\ k \in Nat \ {0}
          /\ t \in Temps /\ seen \in SUBSET DOMAIN prog.code /\ 0 \in Nat
          /\ "temp" \in {"temp", "slot"}
      BY <1>2, <1>4
    <3> HIDE DEF s, n, t, seen
    <3> QED BY <3>1, <3>2, <3>3, ZenonT(40) DEF EntryType
  <2> HIDE DEF s
  <2>3. s.index <= Len(prog.code[s.node]) + 1
    BY <1>2, <1>3, <2>1
  <2>4. EntryOK(prog, f.tree, f.arg, s)
    BY <1>2, <1>4, <2>1, <2>2, <2>3 DEF EntryOK
  <2> QED BY <2>4 DEF s
<1> HIDE DEF srcs
<1>6. \A j \in DOMAIN srcs : EntryOK(prog, f.tree, f.arg, srcs[j])
  BY <1>1, <1>5
<1>7. \A j \in DOMAIN srcs : srcs[j] \in EntryType(prog)
  BY <1>6 DEF EntryOK
<1>8. srcs \in Seq(EntryType(prog))
  <2>1. srcs = [j \in 1 .. Len(srcs) |-> srcs[j]]
    <3>1. srcs = [j \in DOMAIN srcs |-> srcs[j]]
      BY DEF srcs, Inputs
    <3> QED BY <3>1, <1>1
  <2> QED BY <1>1, <1>7, <2>1
<1> QED BY <1>6, <1>8 DEF srcs

LEMMA InputsSupply ==
  ASSUME IsProgram(prog), NEW f, TreeOK(prog, f.tree), EntryOK(prog, f.tree, f.arg, f.src),
         NEW x \in DOMAIN f.tree, f.tree[x].node = f.src.node, IsAcyclic(prog),
         NEW g, g.tree = f.tree, Range(Inputs(x, f)) \subseteq Live(g),
         NEW k \in DOMAIN f.tree[x].children, ~IsConst(InstOf(prog, f.tree[x]).in[k])
  PROVE  Supplied(prog, g, x, k)
<1> DEFINE n == f.tree[x]
           s == TempSrc(n.node, n.index, x, k, f.src.seen)
<1>1. s \in Live(g)
  BY InputsIs
<1>2. /\ s.node = n.node /\ s.index = n.index /\ s.info = x /\ s.origin = k
      /\ s.kind = "temp" /\ s.temp = InstOf(prog, n).in[k] /\ s.seen = f.src.seen
  BY DEF TempSrc, InstOf, Inst
<1> HIDE DEF s
<1>3. n.node \in DOMAIN prog.code /\ f.src.seen \cap Ancestors(prog, n.node) = {}
  BY TreeFacts DEF EntryOK
<1>4. Reaching(prog, n.node, n.index, s.temp, {}) \subseteq
        Reaching(prog, n.node, n.index, s.temp, f.src.seen)
  BY <1>3, SeenHidesNone
<1> QED BY <1>1, <1>2, <1>4 DEF Supplied, Has

LEMMA Queued ==
  ASSUME NEW p, NEW tree, NEW arg,
         NEW q \in Seq(EntryType(p)), \A j \in DOMAIN q : EntryOK(p, tree, arg, q[j]),
         NEW srcs \in Seq(EntryType(p)), \A j \in DOMAIN srcs : EntryOK(p, tree, arg, srcs[j])
  PROVE  /\ q \o srcs \in Seq(EntryType(p)) /\ Len(q \o srcs) = Len(q) + Len(srcs)
         /\ Range(q \o srcs) = Range(q) \cup Range(srcs)
         /\ \A j \in DOMAIN (q \o srcs) : EntryOK(p, tree, arg, (q \o srcs)[j])
<1>1. /\ q \o srcs \in Seq(EntryType(p)) /\ Len(q \o srcs) = Len(q) + Len(srcs)
      /\ Range(q \o srcs) = Range(q) \cup Range(srcs)
  BY ConcatProperties, RangeConcatenation
<1>2. \A e \in Range(q) \cup Range(srcs) : EntryOK(p, tree, arg, e)
  BY DEF Range
<1>3. \A j \in DOMAIN (q \o srcs) : (q \o srcs)[j] \in Range(q \o srcs)
  BY DEF Range
<1> QED BY <1>1, <1>2, <1>3

LEMMA FrameFacts ==
  ASSUME NEW p, IsProgram(p), NEW f, FrameOK(p, f)
  PROVE  /\ f \in FrameType(p) /\ TreeOK(p, f.tree)
         /\ f.queue \in Seq(EntryType(p)) /\ Len(f.queue) \in Nat /\ f.i \in Nat
         /\ f.src \in EntryType(p) /\ EntryOK(p, f.tree, f.arg, f.src)
         /\ f.src.node \in DOMAIN p.code /\ f.src.index \in Nat \ {0}
         /\ f.src.index <= Len(p.code[f.src.node]) + 1
         /\ f.src.kind \in {"temp", "slot"} /\ f.src.temp \in Temps
         /\ f.src.info \in DOMAIN f.tree /\ f.src.origin \in DOMAIN f.tree[f.src.info].children
         /\ Len(p.code[f.src.node]) \in Nat
         /\ DOMAIN p.code[f.src.node] = 1 .. Len(p.code[f.src.node])
<1>1. f \in FrameType(p) /\ TreeOK(p, f.tree) /\ EntryOK(p, f.tree, f.arg, f.src)
  BY DEF FrameOK
<1>2. f.queue \in Seq(EntryType(p)) /\ f.i \in Nat /\ f.src \in EntryType(p)
  BY <1>1 DEF FrameType
<1>3. /\ f.src.node \in DOMAIN p.code /\ f.src.index \in Nat \ {0}
      /\ f.src.kind \in {"temp", "slot"} /\ f.src.temp \in Temps
  BY <1>2 DEF EntryType
<1>4. /\ f.src.index <= Len(p.code[f.src.node]) + 1
      /\ f.src.info \in DOMAIN f.tree /\ f.src.origin \in DOMAIN f.tree[f.src.info].children
  BY <1>1 DEF EntryOK
<1>5. Len(p.code[f.src.node]) \in Nat /\ DOMAIN p.code[f.src.node] = 1 .. Len(p.code[f.src.node])
  BY <1>3, ProgramFacts
<1> QED BY <1>1, <1>2, <1>3, <1>4, <1>5, LenProperties

-----------------------------------------------------------------------------
(* What each action makes of the frame of its call.                        *)

LEMMA PopFrame ==
  ASSUME IsProgram(prog), NEW f, FrameOK(prog, f), f.pc = "pop", f.queue # << >>, NEW g,
         g = [f EXCEPT !.src = Head(f.queue), !.queue = Tail(f.queue),
                       !.i = Head(f.queue).index - 1, !.pc = "scan"]
  PROVE  FrameOK(prog, g) /\ ~Waiting(g)
<1> DEFINE s == Head(f.queue)
           n == Len(f.queue)
<1>1. f \in FrameType(prog) /\ f.queue \in Seq(EntryType(prog)) /\ n \in Nat
  BY FrameFacts
<1>2. /\ n >= 1 /\ s = f.queue[1] /\ Tail(f.queue) \in Seq(EntryType(prog))
      /\ Len(Tail(f.queue)) = n - 1 /\ DOMAIN Tail(f.queue) = 1 .. (n - 1)
      /\ \A j \in 1 .. (n - 1) : Tail(f.queue)[j] = f.queue[j + 1]
      /\ DOMAIN f.queue = 1 .. n
  BY <1>1, HeadTailProperties, LenProperties
<1>3. EntryOK(prog, f.tree, f.arg, s)
  BY <1>2 DEF FrameOK
<1>4. /\ s \in EntryType(prog) /\ s.index \in Nat \ {0} /\ s.node \in DOMAIN prog.code
      /\ s.index <= Len(prog.code[s.node]) + 1
  BY <1>3 DEF EntryOK, EntryType
<1>5. Len(prog.code[s.node]) \in Nat
  BY <1>4, ProgramFacts
<1>a. g = [f EXCEPT !.src = s, !.queue = Tail(f.queue), !.i = s.index - 1, !.pc = "scan"]
  OBVIOUS
<1> HIDE DEF s
<1>6. /\ g \in FrameType(prog) /\ g.tree = f.tree /\ g.arg = f.arg /\ g.src = s
      /\ g.queue = Tail(f.queue) /\ g.i = s.index - 1 /\ g.pc = "scan"
  <2>1. s.index - 1 \in Nat
    BY <1>4
  <2> QED BY <2>1, <1>1, <1>2, <1>4, <1>a DEF FrameType
<1>7. Len(g.queue) <= QueueLen
  BY <1>1, <1>2, <1>6, RegSrcAssumption DEF FrameOK
<1>8. \A j \in DOMAIN g.queue : EntryOK(prog, g.tree, g.arg, g.queue[j])
  <2>1. \A j \in 1 .. (n - 1) : j + 1 \in DOMAIN f.queue
    BY <1>1, <1>2
  <2> QED BY <2>1, <1>2, <1>6 DEF FrameOK
<1>9. PlaceOK(prog, g)
  BY <1>4, <1>5, <1>6 DEF PlaceOK
<1>10. \A e \in Live(f) : e \in Live(g)
  <2>1. Live(f) = Range(f.queue) /\ Live(g) = Range(Tail(f.queue)) \cup {s}
    BY <1>6 DEF Live
  <2>2. ASSUME NEW j \in 1 .. n PROVE f.queue[j] \in Range(Tail(f.queue)) \cup {s}
    <3>1. CASE j = 1
      BY <3>1, <1>2
    <3>2. CASE j # 1
      <4>1. j - 1 \in 1 .. (n - 1) /\ Tail(f.queue)[j - 1] = f.queue[j]
        BY <3>2, <1>1, <1>2
      <4> QED BY <4>1, <1>2 DEF Range
    <3> QED BY <3>1, <3>2
  <2> QED BY <2>1, <2>2, <1>2 DEF Range
<1>11. FrameOK(prog, g)
  BY <1>3, <1>6, <1>7, <1>8, <1>9, <1>10, SameTree
<1> QED BY <1>6, <1>11 DEF Waiting

(* Going on in the same entry, with another position.                      *)
LEMMA MovedFrame ==
  ASSUME IsProgram(prog), NEW f, FrameOK(prog, f), f.pc \notin {"pop", "load"},
         NEW i \in Nat, NEW pc \in {"scan", "found", "preds", "store"},
         NEW g, g = [f EXCEPT !.i = i, !.pc = pc], PlaceOK(prog, g)
  PROVE  FrameOK(prog, g) /\ (Waiting(g) <=> pc = "store")
<1>1. f \in FrameType(prog)
  BY FrameFacts
<1>2. /\ g \in FrameType(prog) /\ g.tree = f.tree /\ g.arg = f.arg /\ g.src = f.src
      /\ g.queue = f.queue /\ g.i = i /\ g.pc = pc
  BY <1>1 DEF FrameType
<1>3. Live(g) = Live(f)
  BY <1>2 DEF Live
<1>4. FrameOK(prog, g)
  BY <1>2, <1>3, SameTree DEF FrameOK
<1> QED BY <1>2, <1>4 DEF Waiting

LEMMA ScanTempFrame ==
  ASSUME IsProgram(prog), NEW f, FrameOK(prog, f), f.pc = "scan", f.src.kind = "temp",
         NEW j, j = LastAt(Writers(f.src.node, f.src.temp), f.i), NEW g,
         g = [f EXCEPT !.i = j, !.pc = IF j = 0 THEN "preds" ELSE "found"]
  PROVE  FrameOK(prog, g) /\ ~Waiting(g)
<1> DEFINE s == f.src
           W == WritersOf(prog, s.node, s.temp)
           n == Len(prog.code[s.node])
           pc == IF j = 0 THEN "preds" ELSE "found"
<1>1. /\ f \in FrameType(prog) /\ f.i \in Nat /\ s.index \in Nat \ {0} /\ s.index <= n + 1
      /\ n \in Nat /\ DOMAIN prog.code[s.node] = 1 .. n
  BY FrameFacts
<1>2. W \subseteq 1 .. n /\ Writers(s.node, s.temp) = W
  BY <1>1 DEF WritersOf, Writers, Inst
<1>3. f.i = s.index - 1
  BY DEF FrameOK, PlaceOK
<1>4. /\ j \in 0 .. n /\ j <= f.i
      /\ j = 0 => \A k \in W : k > f.i
      /\ j # 0 => j \in W /\ \A k \in W : k <= f.i => k <= j
  <2>1. j = LastAt(W, f.i)
    BY <1>2
  <2>2. n \in Nat /\ f.i \in Nat /\ W \subseteq 1 .. n
    BY <1>1, <1>2
  <2> HIDE DEF W, n
  <2>3. /\ LastAt(W, f.i) \in 0 .. n /\ LastAt(W, f.i) <= f.i
        /\ LastAt(W, f.i) = 0 => \A k \in W : k > f.i
        /\ LastAt(W, f.i) # 0 =>
             LastAt(W, f.i) \in W /\ \A k \in W : k <= f.i => k <= LastAt(W, f.i)
    BY <2>2, LastAtIs
  <2> QED BY <2>1, <2>3
<1> DEFINE before == Before(prog, s.node, s.index, s.temp)
<1>5. before = {k \in W : k < s.index} /\ \A k \in W : k \in Nat
  BY <1>2 DEF Before
<1> HIDE DEF W, s, before
<1>6. j = 0 => before = {}
  BY <1>1, <1>3, <1>4, <1>5
<1>7. j # 0 => before # {} /\ j = Max(before)
  <2>1. SUFFICES ASSUME j # 0 PROVE before # {} /\ j = Max(before)
    OBVIOUS
  <2>2. j \in before
    BY <2>1, <1>1, <1>3, <1>4, <1>5
  <2>3. \A k \in before : k <= j
    BY <2>1, <1>1, <1>3, <1>4, <1>5
  <2>4. before \subseteq 0 .. n
    BY <1>2, <1>5, <1>1
  <2>5. Max(before) \in before /\ \A k \in before : Max(before) >= k
    BY <2>2, <2>4, <1>1, MaxOfBounded
  <2>6. Max(before) <= j /\ j <= Max(before) /\ j \in Nat /\ Max(before) \in Nat
    BY <2>2, <2>3, <2>4, <2>5, <1>4
  <2> QED BY <2>2, <2>6
<1>8. g.i = j /\ g.pc = pc /\ g.src = s /\ s.kind = "temp"
  BY <1>1 DEF FrameType, s
<1>9. PlaceOK(prog, g)
  BY <1>4, <1>6, <1>7, <1>8 DEF PlaceOK, before
<1>10. j \in Nat /\ pc \in {"scan", "found", "preds", "store"} /\ pc # "store"
  BY <1>4
<1> QED BY <1>9, <1>10, MovedFrame

LEMMA ScanSlotFrame ==
  ASSUME IsProgram(prog), NEW f, FrameOK(prog, f), f.pc = "scan", f.src.kind = "slot",
         NEW j, j = LastAt(Stores(f.src.node), f.i)
  PROVE  /\ j \in Nat
         /\ j = 0 => LET g == [f EXCEPT !.i = 0, !.pc = "preds"]
                     IN  FrameOK(prog, g) /\ ~Waiting(g)
         /\ j # 0 => LET g == [f EXCEPT !.i = j, !.pc = "store"]
                     IN  /\ FrameOK(prog, g) /\ Waiting(g)
                         /\ j \in DOMAIN prog.code[f.src.node]
                         /\ Inst(f.src.node, j).op = "st"
<1> DEFINE n == Len(prog.code[f.src.node])
           W == Stores(f.src.node)
<1>1. /\ f \in FrameType(prog) /\ f.i \in Nat /\ n \in Nat /\ DOMAIN prog.code[f.src.node] = 1 .. n
  BY FrameFacts
<1>2. W \subseteq 1 .. n /\ \A k \in W : prog.code[f.src.node][k].op = "st"
  BY <1>1 DEF Stores, Inst
<1>3. j \in 0 .. n /\ (j # 0 => j \in W)
  <2> HIDE DEF W, n
  <2>1. LastAt(W, f.i) \in 0 .. n /\ (LastAt(W, f.i) # 0 => LastAt(W, f.i) \in W)
    BY <1>1, <1>2, LastAtIs
  <2> QED BY <2>1 DEF W
<1>4. ASSUME j = 0
      PROVE  LET g == [f EXCEPT !.i = 0, !.pc = "preds"] IN FrameOK(prog, g) /\ ~Waiting(g)
  <2> DEFINE g == [f EXCEPT !.i = 0, !.pc = "preds"]
  <2>1. g.i = 0 /\ g.pc = "preds" /\ g.src = f.src
    BY <1>1 DEF FrameType
  <2>2. PlaceOK(prog, g)
    <3> HIDE DEF g
    <3> QED BY <2>1, <1>1 DEF PlaceOK
  <2> QED BY <2>2, MovedFrame
<1>5. ASSUME j # 0
      PROVE  LET g == [f EXCEPT !.i = j, !.pc = "store"]
             IN  /\ FrameOK(prog, g) /\ Waiting(g)
                 /\ j \in DOMAIN prog.code[f.src.node] /\ Inst(f.src.node, j).op = "st"
  <2> DEFINE g == [f EXCEPT !.i = j, !.pc = "store"]
  <2>1. g.i = j /\ g.pc = "store" /\ g.src = f.src
    BY <1>1 DEF FrameType
  <2>2. j \in 1 .. n /\ prog.code[f.src.node][j].op = "st" /\ j > 0 /\ j \in Nat
    BY <1>2, <1>3, <1>5
  <2>3. PlaceOK(prog, g)
    <3> HIDE DEF g
    <3> QED BY <2>1, <2>2, <1>3 DEF PlaceOK
  <2>4. FrameOK(prog, g) /\ Waiting(g)
    BY <2>2, <2>3, MovedFrame
  <2> QED BY <2>2, <2>4, <1>1 DEF Inst
<1> QED BY <1>3, <1>4, <1>5

(* A new node of the tree has no children yet.                             *)
LEMMA SrcInfoIs ==
  ASSUME IsProgram(prog), NEW b \in DOMAIN prog.code, NEW i \in DOMAIN prog.code[b], NEW op \in Int
  PROVE  LET n == SrcInfo(b, i, op)
         IN  /\ n \in NodeType(prog) /\ n.node = b /\ n.index = i
             /\ DOMAIN n.children = DOMAIN prog.code[b][i].in
             /\ \A l \in DOMAIN n.children : n.children[l] = << >>
<1> DEFINE in == prog.code[b][i].in
           none == [k \in DOMAIN in |-> << >>]
<1>1. Len(in) \in Nat /\ DOMAIN in = 1 .. Len(in) /\ i \in Nat
  BY ProgramFacts
<1> HIDE DEF in
<1>2. none \in Seq(Seq(Nat))
  BY <1>1
<1>3. SrcInfo(b, i, op) = [node |-> b, index |-> i, op_index |-> op, children |-> none]
  BY DEF SrcInfo, Inst, in
<1>4. DOMAIN none = DOMAIN in /\ \A l \in DOMAIN none : none[l] = << >>
  OBVIOUS
<1> HIDE DEF none
<1> QED BY <1>1, <1>2, <1>3, <1>4 DEF NodeType, in

LEMMA NewFrame ==
  ASSUME IsProgram(prog), NEW b \in DOMAIN prog.code, NEW i \in DOMAIN prog.code[b],
         NEW k \in DOMAIN prog.code[b][i].in
  PROVE  FrameOK(prog, Frame(b, i, k)) /\ ~Waiting(Frame(b, i, k))
<1> DEFINE f == Frame(b, i, k)
           n == SrcInfo(b, i, -1)
           s == TempSrc(b, i, 1, k, {})
<1>1. /\ n \in NodeType(prog) /\ n.node = b /\ n.index = i
      /\ DOMAIN n.children = DOMAIN prog.code[b][i].in
      /\ \A l \in DOMAIN n.children : n.children[l] = << >>
  BY SrcInfoIs
<1>2. /\ DOMAIN prog.code[b] = 1 .. Len(prog.code[b]) /\ Len(prog.code[b]) \in Nat
      /\ k \in Nat \ {0} /\ prog.code[b][i].in[k] \in Temps /\ i \in Nat \ {0}
  BY ProgramFacts
<1>3. s = [node |-> b, index |-> i, info |-> 1, origin |-> k, kind |-> "temp",
           temp |-> prog.code[b][i].in[k], offset |-> 0, seen |-> {}]
  BY DEF TempSrc, Inst
<1>4. f = [tree |-> <<n>>, arg |-> k, queue |-> <<s>>, src |-> s, i |-> i, pc |-> "pop"]
  BY DEF Frame
<1> HIDE DEF f, n, s
<1>5. s \in EntryType(prog)
  BY <1>2, <1>3 DEF EntryType
<1>6. f \in FrameType(prog)
  BY <1>1, <1>2, <1>4, <1>5 DEF FrameType
<1>7. /\ f.tree = <<n>> /\ f.arg = k /\ f.queue = <<s>> /\ f.src = s /\ f.pc = "pop"
      /\ DOMAIN f.tree = {1} /\ Len(f.tree) = 1 /\ f.tree[1] = n
      /\ DOMAIN f.queue = {1} /\ Len(f.queue) = 1 /\ f.queue[1] = s
  BY <1>4
<1>8. InstOf(prog, n) = prog.code[b][i]
  BY <1>1 DEF InstOf
<1>9. TreeOK(prog, f.tree)
  <2>1. NodeOK(prog, f.tree, 1)
    BY <1>1, <1>7, <1>8 DEF NodeOK
  <2>2. ASSUME NEW l \in DOMAIN f.tree[1].children PROVE LinkOK(prog, f.tree, 1, l)
    <3>1. f.tree[1].children[l] = << >>
      BY <1>1, <1>7
    <3>2. Range(f.tree[1].children[l]) = {} /\ Len(f.tree[1].children[l]) = 0
      BY <3>1 DEF Range
    <3>3. MaxBranches \in Nat
      BY RegSrcAssumption
    <3> QED BY <3>2, <3>3 DEF LinkOK
  <2>3. f.tree \in Seq(NodeType(prog))
    BY <1>1, <1>7
  <2> QED BY <2>1, <2>2, <2>3, <1>7 DEF TreeOK
<1>10. EntryOK(prog, f.tree, f.arg, s)
  <2>1. /\ s.node = b /\ s.index = i /\ s.info = 1 /\ s.origin = k /\ s.kind = "temp"
        /\ s.temp = prog.code[b][i].in[k] /\ s.seen = {}
    BY <1>3
  <2>2. Cardinality(s.seen) <= MaxTbs
    BY <2>1, FS_EmptySet, RegSrcAssumption
  <2> QED BY <2>1, <2>2, <1>1, <1>2, <1>5, <1>7, <1>8 DEF EntryOK
<1>11. PlaceOK(prog, f)
  BY <1>7 DEF PlaceOK
<1>12. Complete(prog, f)
  <2> SUFFICES ASSUME NEW x \in DOMAIN f.tree, NEW l \in DOMAIN f.tree[x].children,
                      Owed(prog, f, x, l),
                      NEW q \in Reaching(prog, f.tree[x].node, f.tree[x].index,
                                         InstOf(prog, f.tree[x]).in[l], {})
               PROVE  Has(prog, f, x, l, q)
    BY DEF Complete
  <2>1. x = 1 /\ l = k
    BY <1>7 DEF Owed
  <2>2. q \in Reaching(prog, s.node, s.index, s.temp, s.seen)
    BY <2>1, <1>1, <1>3, <1>7, <1>8
  <2>3. s \in Live(f)
    BY <1>7 DEF Live, Range
  <2> QED BY <2>1, <2>2, <2>3, <1>3 DEF Has
<1>13. Len(f.queue) <= QueueLen
  BY <1>7, RegSrcAssumption
<1>14. f.arg \in DOMAIN f.tree[1].children
  BY <1>1, <1>7
<1>15. FrameOK(prog, f) /\ ~Waiting(f)
  BY <1>6, <1>7, <1>9, <1>10, <1>11, <1>12, <1>13, <1>14 DEF FrameOK, Waiting
<1> QED BY <1>15 DEF f

(* Entry s at the end of predecessor m.                                    *)
Onward(s, m) ==
  [tbset_set(s, m) EXCEPT !.node = m, !.index = Len(prog.code[m]) + 1]

LEMMA OnwardIs ==
  ASSUME IsProgram(prog), NEW s \in EntryType(prog), NEW m \in DOMAIN prog.code
  PROVE  LET e == Onward(s, m)
         IN  /\ e \in EntryType(prog) /\ e.node = m /\ e.index = Len(prog.code[m]) + 1
             /\ e.info = s.info /\ e.origin = s.origin /\ e.kind = s.kind
             /\ e.temp = s.temp /\ e.seen = s.seen \cup {m} /\ e.offset = s.offset
<1> DEFINE l == Len(prog.code[m]) + 1
           seen == s.seen \cup {m}
<1>1. l \in Nat \ {0}
  BY ProgramFacts
<1>2. seen \in SUBSET DOMAIN prog.code
  BY DEF EntryType
<1>3. Onward(s, m) = [[s EXCEPT !.seen = seen] EXCEPT !.node = m, !.index = l]
  BY DEF Onward, tbset_set
<1> HIDE DEF l, seen
<1>4. [s EXCEPT !.seen = seen] \in EntryType(prog)
  BY <1>2 DEF EntryType
<1> QED BY <1>1, <1>2, <1>3, <1>4, ZenonT(40) DEF EntryType, l, seen

LEMMA OnwardOK ==
  ASSUME IsProgram(prog), NEW tree, TreeOK(prog, tree), NEW arg, NEW s, EntryOK(prog, tree, arg, s),
         s.kind = "temp" => Before(prog, s.node, s.index, s.temp) = {},
         ~tbset_full(s), NEW m \in Range(prog.pred[s.node]), m \notin s.seen
  PROVE  EntryOK(prog, tree, arg, Onward(s, m))
<1> DEFINE e == Onward(s, m)
<1>1. /\ s \in EntryType(prog) /\ s.node \in DOMAIN prog.code /\ s.seen \subseteq DOMAIN prog.code
      /\ Cardinality(s.seen) <= MaxTbs /\ Cardinality(s.seen) # MaxTbs /\ MaxTbs \in Nat
  BY RegSrcAssumption DEF EntryOK, EntryType, tbset_full
<1>2. m \in DOMAIN prog.code
  BY <1>1, ProgramFacts
<1>3. /\ e \in EntryType(prog) /\ e.node = m /\ e.index = Len(prog.code[m]) + 1
      /\ e.info = s.info /\ e.origin = s.origin /\ e.kind = s.kind
      /\ e.temp = s.temp /\ e.seen = s.seen \cup {m}
  BY <1>1, <1>2, OnwardIs
<1> HIDE DEF e
<1>4. e.index <= Len(prog.code[e.node]) + 1
  BY <1>2, <1>3, ProgramFacts
<1>5. Cardinality(e.seen) <= MaxTbs
  <2>1. prog.code \in Seq(Seq(Instruction))
    BY DEF IsProgram
  <2>2. IsFiniteSet(DOMAIN prog.code)
    <3>1. DOMAIN prog.code = 1 .. Len(prog.code) /\ Len(prog.code) \in Nat
      BY <2>1, LenProperties
    <3>2. IsFiniteSet(1 .. Len(prog.code))
      BY <3>1, FS_Interval
    <3> QED BY <3>1, <3>2
  <2>3. IsFiniteSet(s.seen) /\ Cardinality(s.seen) \in Nat
    BY <1>1, <2>2, FS_Subset, FS_CardinalityType
  <2>4. Cardinality(s.seen \cup {m}) = Cardinality(s.seen) + 1
    BY <2>3, FS_AddElement
  <2> QED BY <1>1, <1>3, <2>3, <2>4
<1>6. s.kind = "temp" => Reaching(prog, e.node, e.index, e.temp, {})
                           \subseteq Reaching(prog, s.node, s.index, s.temp, {})
  BY <1>1, <1>3, PredSound
<1>7. IsAcyclic(prog) => e.seen \cap Ancestors(prog, e.node) = {}
  <2>1. SUFFICES ASSUME IsAcyclic(prog) PROVE e.seen \cap Ancestors(prog, m) = {}
    BY <1>3
  <2>2. Ancestors(prog, m) \subseteq Ancestors(prog, s.node)
    BY <1>1, AncestorsOfPred
  <2>3. m \notin Ancestors(prog, m)
    BY <1>2, <2>1, NotOwnAncestor
  <2>4. s.seen \cap Ancestors(prog, s.node) = {}
    BY <2>1 DEF EntryOK
  <2> QED BY <1>3, <2>2, <2>3, <2>4
<1>8. EntryOK(prog, tree, arg, e)
  BY <1>3, <1>4, <1>5, <1>6, <1>7 DEF EntryOK
<1> QED BY <1>8 DEF e

LEMMA NotEmpty ==
  ASSUME NEW S, NEW s \in Seq(S), NEW j \in DOMAIN s
  PROVE  s # << >>
OBVIOUS

LEMMA FunctionIsSeq ==
  ASSUME NEW n \in Nat, NEW S, NEW s \in [1 .. n -> S]
  PROVE  s \in Seq(S) /\ Len(s) = n /\ DOMAIN s = 1 .. n
OBVIOUS

(* What src_push does to a frame.                                          *)
LEMMA PushedFrame ==
  ASSUME NEW f, FrameOK(prog, f), f.queue \in Seq(EntryType(prog)),
         NEW srcs \in Seq(EntryType(prog)), Len(f.queue) + Len(srcs) <= QueueLen,
         \A j \in DOMAIN srcs : EntryOK(prog, f.tree, f.arg, srcs[j])
  PROVE  LET g == [f EXCEPT !.queue = f.queue \o srcs, !.pc = "pop"]
         IN  /\ g \in FrameType(prog) /\ g.tree = f.tree /\ g.arg = f.arg /\ g.src = f.src
             /\ g.queue = f.queue \o srcs /\ g.pc = "pop" /\ ~Waiting(g)
             /\ Len(g.queue) <= QueueLen
             /\ \A j \in DOMAIN g.queue : EntryOK(prog, g.tree, g.arg, g.queue[j])
             /\ Live(g) = Range(f.queue) \cup Range(srcs)
<1> DEFINE q == f.queue \o srcs
           g == [f EXCEPT !.queue = q, !.pc = "pop"]
<1>1. \A j \in DOMAIN f.queue : EntryOK(prog, f.tree, f.arg, f.queue[j])
  BY DEF FrameOK
<1>2. /\ q \in Seq(EntryType(prog)) /\ Len(q) = Len(f.queue) + Len(srcs)
      /\ Range(q) = Range(f.queue) \cup Range(srcs)
      /\ \A j \in DOMAIN q : EntryOK(prog, f.tree, f.arg, q[j])
  BY <1>1, Queued
<1> HIDE DEF q
<1>3. /\ g \in FrameType(prog) /\ g.tree = f.tree /\ g.arg = f.arg /\ g.src = f.src
      /\ g.queue = q /\ g.pc = "pop"
  BY <1>2 DEF FrameOK, FrameType
<1> HIDE DEF g
<1>4. ~Waiting(g) /\ Live(g) = Range(q)
  BY <1>3 DEF Waiting, Live
<1> QED BY <1>2, <1>3, <1>4 DEF g, q

(* What Preds pushes: an entry for every predecessor not been through.     *)
LEMMA PredsSources ==
  ASSUME IsProgram(prog), NEW f, FrameOK(prog, f), f.pc = "preds",
         NEW new, new = Ordered({j \in DOMAIN prog.pred[f.src.node] :
                                   ~tbset_isset(f.src, prog.pred[f.src.node][j])}),
         ~(new # << >> /\ tbset_full(f.src)),
         NEW srcs, srcs = [j \in DOMAIN new |-> Onward(f.src, prog.pred[f.src.node][new[j]])]
  PROVE  /\ srcs \in Seq(EntryType(prog))
         /\ \A j \in DOMAIN srcs : EntryOK(prog, f.tree, f.arg, srcs[j])
         /\ \A m \in Range(prog.pred[f.src.node]) \ f.src.seen :
              m \in DOMAIN prog.code /\ Onward(f.src, m) \in Range(srcs)
<1> DEFINE s == f.src
           pred == prog.pred[s.node]
           S == {j \in DOMAIN pred : ~tbset_isset(s, pred[j])}
<1>1. /\ f \in FrameType(prog) /\ TreeOK(prog, f.tree) /\ f.queue \in Seq(EntryType(prog))
      /\ EntryOK(prog, f.tree, f.arg, s) /\ s \in EntryType(prog) /\ s.node \in DOMAIN prog.code
  BY FrameFacts
<1>2. s.kind = "temp" => Before(prog, s.node, s.index, s.temp) = {}
  BY DEF FrameOK, PlaceOK
<1>3. pred \in Seq(DOMAIN prog.code) /\ Len(pred) \in Nat /\ DOMAIN pred = 1 .. Len(pred)
  BY <1>1, ProgramFacts, LenProperties, ZenonT(40)
<1>4. /\ new \in Seq(S) /\ Len(new) \in Nat /\ Range(new) = S /\ DOMAIN new = 1 .. Len(new)
      /\ S \subseteq DOMAIN pred /\ \A j \in DOMAIN new : new[j] \in S
  <2>1. S \subseteq 1 .. Len(pred) /\ new = Ordered(S)
    BY <1>3
  <2> HIDE DEF S
  <2>2. new \in Seq(S) /\ Len(new) \in Nat /\ Range(new) = S
    BY <1>3, <2>1, OrderedIs
  <2>3. DOMAIN new = 1 .. Len(new) /\ \A j \in DOMAIN new : new[j] \in S
    BY <2>2, LenProperties DEF Range
  <2> QED BY <1>3, <2>1, <2>2, <2>3
<1>5. ASSUME NEW j \in DOMAIN new
      PROVE  /\ EntryOK(prog, f.tree, f.arg, Onward(s, pred[new[j]]))
             /\ pred[new[j]] \in DOMAIN prog.code
  <2>1. new[j] \in DOMAIN pred /\ pred[new[j]] \notin s.seen
    BY <1>4 DEF tbset_isset
  <2>2. pred[new[j]] \in Range(pred) /\ pred[new[j]] \in DOMAIN prog.code
    BY <1>3, <2>1, ElementOfSeq DEF Range
  <2>3. ~tbset_full(s)
    <3>1. new # << >>
      BY <1>4, NotEmpty
    <3> QED BY <3>1
  <2> QED BY <1>1, <1>2, <2>1, <2>2, <2>3, OnwardOK
<1> HIDE DEF S
<1>6. /\ srcs \in Seq(EntryType(prog)) /\ DOMAIN srcs = DOMAIN new
      /\ \A j \in DOMAIN srcs : EntryOK(prog, f.tree, f.arg, srcs[j])
  <2>1. \A j \in DOMAIN new : Onward(s, pred[new[j]]) \in EntryType(prog)
    BY <1>5 DEF EntryOK
  <2>2. /\ srcs \in [1 .. Len(new) -> EntryType(prog)] /\ DOMAIN srcs = DOMAIN new
        /\ \A j \in DOMAIN new : srcs[j] = Onward(s, pred[new[j]])
    BY <1>4, <2>1
  <2>3. srcs \in Seq(EntryType(prog))
    BY <1>4, <2>2, FunctionIsSeq
  <2> QED BY <1>5, <2>2, <2>3
<1>7. ASSUME NEW m \in Range(pred) \ s.seen
      PROVE  m \in DOMAIN prog.code /\ Onward(s, m) \in Range(srcs)
  <2>1. PICK j \in DOMAIN pred : pred[j] = m
    BY DEF Range
  <2>2. j \in S
    BY <2>1 DEF S, tbset_isset
  <2>3. PICK l \in DOMAIN new : new[l] = j
    BY <1>4, <2>2 DEF Range
  <2> QED BY <1>5, <1>6, <2>1, <2>3 DEF Range
<1> QED BY <1>6, <1>7

LEMMA PredsFrame ==
  ASSUME IsProgram(prog), NEW f, FrameOK(prog, f), f.pc = "preds",
         NEW new, new = Ordered({j \in DOMAIN prog.pred[f.src.node] :
                                   ~tbset_isset(f.src, prog.pred[f.src.node][j])}),
         ~(new # << >> /\ tbset_full(f.src)),
         NEW srcs, srcs = [j \in DOMAIN new |-> Onward(f.src, prog.pred[f.src.node][new[j]])],
         Len(f.queue) + Len(srcs) <= QueueLen
  PROVE  LET g == [f EXCEPT !.queue = f.queue \o srcs, !.pc = "pop"]
         IN  FrameOK(prog, g) /\ ~Waiting(g)
<1> DEFINE s == f.src
           pred == prog.pred[s.node]
           g == [f EXCEPT !.queue = f.queue \o srcs, !.pc = "pop"]
<1>1. /\ f \in FrameType(prog) /\ TreeOK(prog, f.tree) /\ f.queue \in Seq(EntryType(prog))
      /\ EntryOK(prog, f.tree, f.arg, s) /\ s \in EntryType(prog) /\ s.node \in DOMAIN prog.code
  BY FrameFacts
<1>2. s.kind = "temp" => Before(prog, s.node, s.index, s.temp) = {}
  BY DEF FrameOK, PlaceOK
<1>3. /\ srcs \in Seq(EntryType(prog))
      /\ \A j \in DOMAIN srcs : EntryOK(prog, f.tree, f.arg, srcs[j])
      /\ \A m \in Range(pred) \ s.seen : m \in DOMAIN prog.code /\ Onward(s, m) \in Range(srcs)
  BY PredsSources
<1>4. /\ g \in FrameType(prog) /\ g.tree = f.tree /\ g.arg = f.arg /\ g.src = s
      /\ g.queue = f.queue \o srcs /\ g.pc = "pop" /\ ~Waiting(g)
      /\ Len(g.queue) <= QueueLen
      /\ \A j \in DOMAIN g.queue : EntryOK(prog, g.tree, g.arg, g.queue[j])
      /\ Live(g) = Range(f.queue) \cup Range(srcs)
  <2>1. FrameOK(prog, f) /\ Len(f.queue) + Len(srcs) <= QueueLen
    OBVIOUS
  <2> QED BY ONLY <1>1, <1>3, <2>1, PushedFrame
<1> HIDE DEF g
<1>5. Live(f) = Range(f.queue) \cup {s}
  BY DEF Live
<1>6. ASSUME s.kind = "temp", NEW q \in Reaching(prog, s.node, s.index, s.temp, s.seen)
      PROVE  Has(prog, g, s.info, s.origin, q)
  <2>1. PICK m \in Range(pred) \ s.seen :
          q \in Reaching(prog, m, Len(prog.code[m]) + 1, s.temp, s.seen \cup {m})
    BY <1>1, <1>2, <1>6, PredComplete, ZenonT(40)
  <2>2. m \in DOMAIN prog.code /\ Onward(s, m) \in Range(srcs)
    BY <1>3
  <2>3. LET e == Onward(s, m)
        IN  /\ e.node = m /\ e.index = Len(prog.code[m]) + 1
            /\ e.info = s.info /\ e.origin = s.origin /\ e.kind = s.kind
            /\ e.temp = s.temp /\ e.seen = s.seen \cup {m}
    BY <1>1, <2>2, OnwardIs, ZenonT(40)
  <2> QED BY <1>4, <1>6, <2>1, <2>2, <2>3 DEF Has
<1>7. PlaceOK(prog, g)
  BY <1>4 DEF PlaceOK
<1>8. FrameOK(prog, g)
  BY <1>1, <1>4, <1>5, <1>6, <1>7, SameTree
<1> QED BY <1>4, <1>8 DEF g

(* The node that Found adds.                                               *)
FoundInfo(f) == SrcInfo(f.src.node, f.i, OpIndex(f.src, Inst(f.src.node, f.i)))

FoundTree(f) == Grown(f.tree, f.src.info, f.src.origin, FoundInfo(f))

LEMMA WriterIsNoStore ==
  ASSUME NEW p, IsProgram(p), NEW b \in DOMAIN p.code, NEW t, NEW j \in WritersOf(p, b, t)
  PROVE  p.code[b][j].op # "st"
<1>1. j \in DOMAIN p.code[b] /\ t \in Range(p.code[b][j].out)
  BY DEF WritersOf
<1>2. p.code[b][j].out # << >>
  <2>1. \E k \in DOMAIN p.code[b][j].out : p.code[b][j].out[k] = t
    BY <1>1 DEF Range
  <2>2. DOMAIN << >> = {}
    OBVIOUS
  <2> QED BY <2>1, <2>2
<1>3. HasOperands(p.code[b][j])
  BY <1>1, ProgramFacts
<1> QED BY <1>2, <1>3 DEF HasOperands

LEMMA LastWriterIs ==
  ASSUME NEW p, IsProgram(p), NEW b \in DOMAIN p.code, NEW t, NEW W,
         W \subseteq WritersOf(p, b, t), W # {}
  PROVE  Max(W) \in W /\ p.code[b][Max(W)].op # "st"
<1> DEFINE n == Len(p.code[b])
<1>1. n \in Nat /\ DOMAIN p.code[b] = 1 .. n
  BY ProgramFacts
<1>2. W \subseteq 0 .. n
  BY <1>1 DEF WritersOf
<1> HIDE DEF n
<1>3. Max(W) \in W
  BY <1>1, <1>2, MaxOfBounded
<1> QED BY <1>3, WriterIsNoStore

LEMMA ReachingNoStore ==
  ASSUME NEW p, IsProgram(p), NEW b \in DOMAIN p.code, NEW i, NEW t,
         NEW q \in Reaching(p, b, i, t, {})
  PROVE  p.code[q[1]][q[2]].op # "st"
<1>1. CASE Before(p, b, i, t) # {}
  <2>1. q = <<b, Max(Before(p, b, i, t))>> /\ Before(p, b, i, t) \subseteq WritersOf(p, b, t)
    BY <1>1 DEF Reaching, Before
  <2> QED BY <1>1, <2>1, LastWriterIs
<1>2. CASE Before(p, b, i, t) = {}
  <2>1. PICK m \in Through(p, b, t, {}) :
          WritersOf(p, m, t) # {} /\ q = <<m, Max(WritersOf(p, m, t))>>
    BY <1>2 DEF Reaching, LastWriters
  <2>2. m \in DOMAIN p.code
    BY DEF Through
  <2> QED BY <2>1, <2>2, LastWriterIs
<1> QED BY <1>1, <1>2

LEMMA FoundNode ==
  ASSUME IsProgram(prog), NEW f, FrameOK(prog, f), f.pc = "found"
  PROVE  LET s == f.src
             n == FoundInfo(f)
         IN  /\ f.i \in DOMAIN prog.code[s.node]
             /\ n \in NodeType(prog) /\ n.node = s.node /\ n.index = f.i
             /\ DOMAIN n.children = DOMAIN InstOf(prog, n).in
             /\ \A l \in DOMAIN n.children : n.children[l] = << >>
             /\ InstOf(prog, n) = prog.code[s.node][f.i]
             /\ IF InstOf(prog, n).op = "st"
                THEN s.info > 1 /\ InstOf(prog, f.tree[s.info]).op = "ld"
                ELSE <<n.node, n.index>>
                       \in Reaching(prog, f.tree[s.info].node, f.tree[s.info].index,
                                    InstOf(prog, f.tree[s.info]).in[s.origin], {})
             /\ s.kind = "temp" =>
                  Reaching(prog, s.node, s.index, s.temp, s.seen) = {<<n.node, n.index>>}
<1> DEFINE s == f.src
           n == FoundInfo(f)
           W == WritersOf(prog, s.node, s.temp)
           before == Before(prog, s.node, s.index, s.temp)
           len == Len(prog.code[s.node])
           out == prog.code[s.node][f.i].out
<1>1. /\ s.node \in DOMAIN prog.code /\ len \in Nat /\ DOMAIN prog.code[s.node] = 1 .. len
      /\ s.kind \in {"temp", "slot"} /\ s.index \in Nat \ {0} /\ f.i \in Nat
      /\ EntryOK(prog, f.tree, f.arg, s)
  BY FrameFacts
<1>2. /\ f.i \in 0 .. len /\ f.i > 0
      /\ IF s.kind = "temp" THEN before # {} /\ f.i = Max(before)
                            ELSE prog.code[s.node][f.i].op = "st"
  BY DEF FrameOK, PlaceOK
<1>3. f.i \in DOMAIN prog.code[s.node]
  BY <1>1, <1>2
<1>4. s.kind = "temp" => f.i \in W
  <2>1. SUFFICES ASSUME s.kind = "temp" PROVE f.i \in W
    OBVIOUS
  <2>2. before \subseteq 0 .. len /\ before \subseteq W
    BY <1>1 DEF Before, WritersOf
  <2>3. Max(before) \in before
    <3> HIDE DEF before
    <3> QED BY <1>1, <1>2, <2>1, <2>2, MaxOfBounded
  <2> QED BY <1>2, <2>1, <2>2, <2>3
<1>5. OpIndex(s, Inst(s.node, f.i)) \in Int
  <2>1. CASE s.kind = "slot"
    BY <2>1 DEF OpIndex
  <2>2. CASE s.kind = "temp"
    <3> DEFINE J == {j \in DOMAIN out : out[j] = s.temp}
    <3>1. J \subseteq Nat /\ J # {}
      <4>1. DOMAIN out = 1 .. Len(out) /\ Len(out) \in Nat
        BY <1>1, <1>3, ProgramFacts, SMTT(30)
      <4>2. \E k \in DOMAIN out : out[k] = s.temp
        BY <1>4, <2>2 DEF WritersOf, Range
      <4>3. \A k \in DOMAIN out : k \in Nat
        BY <4>1
      <4> HIDE DEF out
      <4> QED BY <4>2, <4>3
    <3>2. Min(J) \in Nat
      <4> HIDE DEF J
      <4> QED BY <3>1, MinOfNats
    <3>3. OpIndex(s, Inst(s.node, f.i)) = Min(J) - 1
      BY <2>2 DEF OpIndex, Inst
    <3>4. Min(J) - 1 \in Int
      <4> HIDE DEF J
      <4> QED BY <3>2
    <3> QED BY <3>3, <3>4
  <2> QED BY <2>1, <2>2, <1>1
<1>6. /\ n \in NodeType(prog) /\ n.node = s.node /\ n.index = f.i
      /\ DOMAIN n.children = DOMAIN prog.code[s.node][f.i].in
      /\ \A l \in DOMAIN n.children : n.children[l] = << >>
  <2> DEFINE op == OpIndex(s, Inst(s.node, f.i))
  <2>1. n = SrcInfo(s.node, f.i, op) /\ op \in Int
    BY <1>5 DEF FoundInfo
  <2> HIDE DEF n, op, s
  <2>2. s.node \in DOMAIN prog.code /\ f.i \in DOMAIN prog.code[s.node]
    BY <1>1, <1>3
  <2>3. LET m == SrcInfo(s.node, f.i, op)
        IN  /\ m \in NodeType(prog) /\ m.node = s.node /\ m.index = f.i
            /\ DOMAIN m.children = DOMAIN prog.code[s.node][f.i].in
            /\ \A l \in DOMAIN m.children : m.children[l] = << >>
    BY <2>1, <2>2, SrcInfoIs
  <2> QED BY <2>1, <2>3
<1> HIDE DEF n
<1>7. InstOf(prog, n) = prog.code[s.node][f.i]
  BY <1>6 DEF InstOf
<1>8. s.kind = "temp" =>
        /\ Reaching(prog, s.node, s.index, s.temp, s.seen) = {<<n.node, n.index>>}
        /\ Reaching(prog, s.node, s.index, s.temp, {}) = {<<n.node, n.index>>}
        /\ InstOf(prog, n).op # "st"
  <2>1. CASE s.kind = "temp"
    <3>1. /\ Reaching(prog, s.node, s.index, s.temp, s.seen) = {<<s.node, f.i>>}
          /\ Reaching(prog, s.node, s.index, s.temp, {}) = {<<s.node, f.i>>}
      BY <1>2, <1>4, <2>1 DEF Reaching
    <3>2. prog.code[s.node][f.i].op # "st"
      BY <1>1, <1>4, <2>1, WriterIsNoStore
    <3> QED BY <1>6, <1>7, <3>1, <3>2
  <2> QED BY <2>1
<1>9. IF InstOf(prog, n).op = "st"
      THEN s.info > 1 /\ InstOf(prog, f.tree[s.info]).op = "ld"
      ELSE <<n.node, n.index>>
             \in Reaching(prog, f.tree[s.info].node, f.tree[s.info].index,
                          InstOf(prog, f.tree[s.info]).in[s.origin], {})
  <2>1. CASE s.kind = "temp"
    BY <2>1, <1>1, <1>8 DEF EntryOK
  <2>2. CASE s.kind = "slot"
    BY <2>2, <1>1, <1>2, <1>7 DEF EntryOK
  <2> QED BY <2>1, <2>2, <1>1
<1> QED BY <1>3, <1>6, <1>7, <1>8, <1>9 DEF n

LEMMA FoundTreeOK ==
  ASSUME IsProgram(prog), NEW f, FrameOK(prog, f), f.pc = "found",
         Len(f.tree[f.src.info].children[f.src.origin]) # MaxBranches
  PROVE  LET t == FoundTree(f)
             x == Len(f.tree) + 1
         IN  /\ TreeOK(prog, t) /\ t \in Seq(NodeType(prog)) /\ Len(t) = x /\ x > 1
             /\ DOMAIN t = DOMAIN f.tree \cup {x} /\ t[x] = FoundInfo(f)
             /\ f.arg \in DOMAIN t[1].children
             /\ \A y \in DOMAIN f.tree :
                  /\ t[y].node = f.tree[y].node /\ t[y].index = f.tree[y].index
                  /\ DOMAIN t[y].children = DOMAIN f.tree[y].children
                  /\ \A l \in DOMAIN f.tree[y].children :
                       Branches(f.tree, y, l) \subseteq Branches(t, y, l)
             /\ <<FoundInfo(f).node, FoundInfo(f).index>>
                  \in Branches(t, f.src.info, f.src.origin)
<1> DEFINE a == f.src.info
           k == f.src.origin
           n == FoundInfo(f)
           t == FoundTree(f)
           x == Len(f.tree) + 1
<1>1. /\ TreeOK(prog, f.tree) /\ a \in DOMAIN f.tree /\ k \in DOMAIN f.tree[a].children
      /\ f.arg \in DOMAIN f.tree[1].children
  BY FrameFacts DEF FrameOK
<1>2. Len(f.tree) \in Nat \ {0} /\ DOMAIN f.tree = 1 .. Len(f.tree)
  BY <1>1, TreeFacts
<1>3. Len(f.tree[a].children[k]) < MaxBranches
  <2>1. f.tree[a].children[k] \in Seq(Nat) /\ LinkOK(prog, f.tree, a, k)
    BY <1>1, TreeFacts
  <2>2. Len(f.tree[a].children[k]) \in Nat /\ Len(f.tree[a].children[k]) <= MaxBranches
    BY <2>1, LenProperties DEF LinkOK
  <2> QED BY <2>2, RegSrcAssumption
<1>4. /\ n \in NodeType(prog) /\ n.index \in DOMAIN prog.code[n.node]
      /\ DOMAIN n.children = DOMAIN InstOf(prog, n).in
      /\ \A l \in DOMAIN n.children : n.children[l] = << >>
      /\ IF InstOf(prog, n).op = "st"
         THEN a > 1 /\ InstOf(prog, f.tree[a]).op = "ld"
         ELSE <<n.node, n.index>>
                \in Reaching(prog, f.tree[a].node, f.tree[a].index,
                             InstOf(prog, f.tree[a]).in[k], {})
  BY FoundNode
<1> HIDE DEF a, k, n
<1>5. TreeOK(prog, Grown(f.tree, a, k, n))
  BY <1>1, <1>3, <1>4, GrownOK
<1>6. LET g == Grown(f.tree, a, k, n)
      IN  /\ g \in Seq(NodeType(prog)) /\ Len(g) = x /\ DOMAIN g = 1 .. x /\ g[x] = n
          /\ \A y \in DOMAIN f.tree :
               /\ g[y].node = f.tree[y].node /\ g[y].index = f.tree[y].index
               /\ DOMAIN g[y].children = DOMAIN f.tree[y].children
  BY <1>1, <1>4, GrownIs
<1>7. LET g == Grown(f.tree, a, k, n)
      IN  /\ <<n.node, n.index>> \in Branches(g, a, k)
          /\ \A y \in DOMAIN f.tree : \A l \in DOMAIN f.tree[y].children :
               Branches(f.tree, y, l) \subseteq Branches(g, y, l)
  BY <1>1, <1>4, GrownBranches
<1>8. t = Grown(f.tree, a, k, n)
  BY DEF FoundTree, a, k, n
<1> HIDE DEF t
<1>9. DOMAIN t = DOMAIN f.tree \cup {x} /\ x > 1
  <2>1. DOMAIN t = 1 .. x
    BY <1>6, <1>8
  <2>2. 1 .. x = (1 .. Len(f.tree)) \cup {x} /\ x > 1
    BY <1>2
  <2> QED BY <1>2, <2>1, <2>2
<1>10. 1 \in DOMAIN f.tree
  BY <1>2
<1> QED BY <1>1, <1>5, <1>6, <1>7, <1>8, <1>9, <1>10 DEF a, k, n, t

(* A step that adds the node that was found.                               *)
LEMMA FoundStep ==
  ASSUME IsProgram(prog), NEW f, FrameOK(prog, f), f.pc = "found",
         Len(f.tree[f.src.info].children[f.src.origin]) # MaxBranches,
         NEW g \in FrameType(prog), g.tree = FoundTree(f), g.arg = f.arg, g.src = f.src,
         Len(g.queue) <= QueueLen,
         \A j \in DOMAIN g.queue : EntryOK(prog, g.tree, g.arg, g.queue[j]),
         Range(f.queue) \subseteq Live(g), PlaceOK(prog, g),
         IsAcyclic(prog) /\ g.pc # "load" =>
           \A k \in DOMAIN FoundInfo(f).children :
             ~IsConst(InstOf(prog, FoundInfo(f)).in[k]) => Supplied(prog, g, Len(f.tree) + 1, k)
  PROVE  FrameOK(prog, g)
<1> DEFINE s == f.src
           n == FoundInfo(f)
           x == Len(f.tree) + 1
<1>1. /\ TreeOK(prog, g.tree) /\ x > 1
      /\ DOMAIN g.tree = DOMAIN f.tree \cup {x} /\ g.tree[x] = n /\ Len(g.tree) = x
      /\ f.arg \in DOMAIN g.tree[1].children
      /\ \A y \in DOMAIN f.tree :
           /\ g.tree[y].node = f.tree[y].node /\ g.tree[y].index = f.tree[y].index
           /\ DOMAIN g.tree[y].children = DOMAIN f.tree[y].children
           /\ \A l \in DOMAIN f.tree[y].children :
                Branches(f.tree, y, l) \subseteq Branches(g.tree, y, l)
      /\ <<n.node, n.index>> \in Branches(g.tree, s.info, s.origin)
  BY FoundTreeOK
<1>2. EntryOK(prog, g.tree, g.arg, g.src)
  BY <1>1, FrameFacts, EntryStays
<1>3. s.kind = "temp" => Reaching(prog, s.node, s.index, s.temp, s.seen) = {<<n.node, n.index>>}
  BY FoundNode
<1> HIDE DEF n
<1>4. ASSUME NEW e \in Live(f), e.kind = "temp"
      PROVE  e \in Live(g) \/ \A q \in Reaching(prog, e.node, e.index, e.temp, e.seen) :
                                 Has(prog, g, e.info, e.origin, q)
  <2>1. e \in Range(f.queue) \/ e = s
    BY DEF Live
  <2>2. CASE e = s
    BY <2>2, <1>1, <1>3, <1>4 DEF Has
  <2> QED BY <2>1, <2>2
<1>5. ASSUME NEW y \in DOMAIN g.tree, NEW k \in DOMAIN g.tree[y].children, Owed(prog, g, y, k)
      PROVE  Supplied(prog, g, y, k)
  <2>1. CASE y = x
    <3>1. x # 1
      BY <1>1, FrameFacts, TreeFacts
    <3> QED BY <2>1, <3>1, <1>1, <1>5 DEF Owed, n
  <2>2. CASE y \in DOMAIN f.tree
    <3>1. InstOf(prog, g.tree[y]) = InstOf(prog, f.tree[y]) /\ k \in DOMAIN f.tree[y].children
      BY <1>1, <2>2 DEF InstOf
    <3>2. Owed(prog, f, y, k)
      BY <3>1, <1>5 DEF Owed
    <3>3. Supplied(prog, f, y, k)
      BY <2>2, <3>1, <3>2 DEF FrameOK, Complete, Supplied
    <3>4. ASSUME NEW q, Has(prog, f, y, k, q) PROVE Has(prog, g, y, k, q)
      BY <2>2, <3>1, <3>4, <1>1, <1>4, HasStays
    <3> QED BY <2>2, <3>1, <3>3, <3>4, <1>1 DEF Supplied
  <2> QED BY <2>1, <2>2, <1>1
<1>6. Complete(prog, g)
  BY <1>5 DEF Complete, Supplied
<1> QED BY <1>1, <1>2, <1>6 DEF FrameOK

LEMMA FoundLoadFrame ==
  ASSUME IsProgram(prog), NEW f, FrameOK(prog, f), f.pc = "found",
         Len(f.tree[f.src.info].children[f.src.origin]) # MaxBranches,
         Inst(f.src.node, f.i).op = "ld"
  PROVE  /\ LET g == [[f EXCEPT !.tree = FoundTree(f)] EXCEPT !.pc = "load"]
            IN  FrameOK(prog, g) /\ Waiting(g)
         /\ FrameOK(prog, Frame(f.src.node, f.i, 1)) /\ ~Waiting(Frame(f.src.node, f.i, 1))
<1> DEFINE t == FoundTree(f)
           g == [[f EXCEPT !.tree = t] EXCEPT !.pc = "load"]
           x == Len(f.tree) + 1
           n == FoundInfo(f)
<1>1. /\ t \in Seq(NodeType(prog)) /\ Len(t) = x /\ x > 1 /\ t[x] = n
      /\ DOMAIN t = DOMAIN f.tree \cup {x}
      /\ \A y \in DOMAIN f.tree :
           /\ t[y].node = f.tree[y].node /\ t[y].index = f.tree[y].index
           /\ DOMAIN t[y].children = DOMAIN f.tree[y].children
  BY FoundTreeOK
<1>2. /\ f.i \in DOMAIN prog.code[f.src.node] /\ n.node = f.src.node /\ n.index = f.i
      /\ InstOf(prog, n) = prog.code[f.src.node][f.i]
  BY FoundNode
<1>3. /\ f \in FrameType(prog) /\ f.src.node \in DOMAIN prog.code
      /\ DOMAIN prog.code[f.src.node] = 1 .. Len(prog.code[f.src.node])
      /\ Len(prog.code[f.src.node]) \in Nat
  BY FrameFacts
<1> HIDE DEF t, n, x
<1>4. /\ g \in FrameType(prog) /\ g.tree = t /\ g.arg = f.arg /\ g.src = f.src
      /\ g.queue = f.queue /\ g.i = f.i /\ g.pc = "load"
  BY <1>1, <1>3 DEF FrameType
<1> HIDE DEF g
<1>5. \A j \in DOMAIN g.queue : EntryOK(prog, g.tree, g.arg, g.queue[j])
  <2>1. \A j \in DOMAIN f.queue : EntryOK(prog, f.tree, f.arg, f.queue[j])
    BY DEF FrameOK
  <2>2. DOMAIN f.tree \subseteq DOMAIN t
    BY <1>1
  <2> QED BY <1>1, <1>4, <2>1, <2>2, EntryStays
<1>6. Range(f.queue) \subseteq Live(g)
  BY <1>4 DEF Live
<1>7. PlaceOK(prog, g)
  <2>1. f.i \in 1 .. Len(prog.code[f.src.node])
    BY <1>2, <1>3
  <2>2. f.i > 0 /\ f.i \in 0 .. Len(prog.code[f.src.node])
    BY <2>1, <1>3
  <2>3. InstOf(prog, n).op = "ld"
    BY <1>2 DEF Inst
  <2> QED BY <1>1, <1>2, <1>4, <2>2, <2>3 DEF PlaceOK
<1>8. Len(g.queue) <= QueueLen
  BY <1>4 DEF FrameOK
<1>9. FrameOK(prog, g) /\ Waiting(g)
  <2>1. FrameOK(prog, g)
    BY <1>4, <1>5, <1>6, <1>7, <1>8, FoundStep DEF t
  <2> QED BY <2>1, <1>4 DEF Waiting
<1>10. 1 \in DOMAIN prog.code[f.src.node][f.i].in
  <2> DEFINE inst == prog.code[f.src.node][f.i]
  <2>1. f.src.node \in DOMAIN prog.code /\ f.i \in DOMAIN prog.code[f.src.node]
    BY <1>2, <1>3
  <2>2. HasOperands(inst) /\ Len(inst.in) \in Nat /\ DOMAIN inst.in = 1 .. Len(inst.in)
    BY <2>1, InstructionFacts
  <2>3. inst.op = "ld"
    BY DEF Inst
  <2> HIDE DEF inst
  <2>4. Len(inst.in) >= 1
    BY <2>2, <2>3 DEF HasOperands
  <2>5. 1 \in DOMAIN inst.in
    BY <2>2, <2>4
  <2> QED BY <2>5 DEF inst
<1>11. FrameOK(prog, Frame(f.src.node, f.i, 1)) /\ ~Waiting(Frame(f.src.node, f.i, 1))
  BY <1>2, <1>3, <1>10, NewFrame
<1> QED BY <1>9, <1>11 DEF g, t

LEMMA FoundPushFrame ==
  ASSUME IsProgram(prog), NEW f, FrameOK(prog, f), f.pc = "found",
         Len(f.tree[f.src.info].children[f.src.origin]) # MaxBranches,
         NEW h, h = [f EXCEPT !.tree = FoundTree(f)],
         NEW srcs, srcs = Inputs(Len(f.tree) + 1, h), Len(h.queue) + Len(srcs) <= QueueLen
  PROVE  LET g == [h EXCEPT !.queue = h.queue \o srcs, !.pc = "pop"]
         IN  FrameOK(prog, g) /\ ~Waiting(g)
<1> DEFINE t == FoundTree(f)
           g == [h EXCEPT !.queue = h.queue \o srcs, !.pc = "pop"]
           x == Len(f.tree) + 1
           n == FoundInfo(f)
<1>1. /\ TreeOK(prog, t) /\ t \in Seq(NodeType(prog)) /\ Len(t) = x /\ x > 1 /\ t[x] = n
      /\ DOMAIN t = DOMAIN f.tree \cup {x}
      /\ \A y \in DOMAIN f.tree :
           /\ t[y].node = f.tree[y].node /\ t[y].index = f.tree[y].index
           /\ DOMAIN t[y].children = DOMAIN f.tree[y].children
  BY FoundTreeOK
<1>2. n.node = f.src.node
  BY FoundNode
<1>3. f \in FrameType(prog) /\ f.queue \in Seq(EntryType(prog))
  BY FrameFacts
<1> HIDE DEF t, n
<1>4. /\ h \in FrameType(prog) /\ h.tree = t /\ h.arg = f.arg /\ h.src = f.src
      /\ h.queue = f.queue /\ h.i = f.i
  BY <1>1, <1>3 DEF FrameType, t
<1>5. /\ \A j \in DOMAIN h.queue : EntryOK(prog, h.tree, h.arg, h.queue[j])
      /\ EntryOK(prog, h.tree, h.arg, h.src)
  <2>1. /\ \A j \in DOMAIN f.queue : EntryOK(prog, f.tree, f.arg, f.queue[j])
        /\ EntryOK(prog, f.tree, f.arg, f.src)
    BY DEF FrameOK
  <2>2. DOMAIN f.tree \subseteq DOMAIN t
    BY <1>1
  <2> QED BY <1>1, <1>4, <2>1, <2>2, EntryStays
<1>6. /\ srcs \in Seq(EntryType(prog))
      /\ \A j \in DOMAIN srcs : EntryOK(prog, h.tree, h.arg, srcs[j])
  BY <1>1, <1>2, <1>4, <1>5, InputsOK
<1> DEFINE q == h.queue \o srcs
<1>7. /\ q \in Seq(EntryType(prog)) /\ Len(q) = Len(h.queue) + Len(srcs)
      /\ Range(q) = Range(h.queue) \cup Range(srcs)
      /\ \A j \in DOMAIN q : EntryOK(prog, h.tree, h.arg, q[j])
  <2>1. h.queue \in Seq(EntryType(prog))
    BY <1>3, <1>4
  <2>2. /\ \A j \in DOMAIN h.queue : EntryOK(prog, h.tree, h.arg, h.queue[j])
        /\ srcs \in Seq(EntryType(prog))
        /\ \A j \in DOMAIN srcs : EntryOK(prog, h.tree, h.arg, srcs[j])
    BY <1>5, <1>6
  <2> QED BY ONLY <2>1, <2>2, Queued
<1> HIDE DEF q
<1>8. /\ g \in FrameType(prog) /\ g.tree = t /\ g.arg = f.arg /\ g.src = f.src
      /\ g.queue = q /\ g.pc = "pop"
  BY <1>4, <1>7 DEF FrameType, q
<1> HIDE DEF g
<1>9. Live(g) = Range(f.queue) \cup Range(srcs) /\ ~Waiting(g) /\ PlaceOK(prog, g)
  BY <1>4, <1>7, <1>8 DEF Live, Waiting, PlaceOK
<1>10. ASSUME IsAcyclic(prog), NEW k \in DOMAIN n.children, ~IsConst(InstOf(prog, n).in[k])
       PROVE  Supplied(prog, g, x, k)
  BY <1>1, <1>2, <1>4, <1>5, <1>8, <1>9, <1>10, InputsSupply
<1>11. FrameOK(prog, g)
  BY <1>4, <1>7, <1>8, <1>9, <1>10, FoundStep DEF t, n
<1> QED BY <1>9, <1>11 DEF g, q

(* A nested call has returned: a store is the one searched for, or not.    *)
LEMMA StoreFrame ==
  ASSUME IsProgram(prog), NEW f, FrameOK(prog, f), f.pc = "store"
  PROVE  /\ LET g == [f EXCEPT !.pc = "found"] IN FrameOK(prog, g) /\ ~Waiting(g)
         /\ LET g == [f EXCEPT !.i = @ - 1, !.pc = "scan"] IN FrameOK(prog, g) /\ ~Waiting(g)
<1>1. f \in FrameType(prog) /\ f.i \in Nat /\ Len(prog.code[f.src.node]) \in Nat
  BY FrameFacts
<1>2. /\ f.i \in 0 .. Len(prog.code[f.src.node]) /\ f.i > 0
      /\ f.src.kind = "slot" /\ prog.code[f.src.node][f.i].op = "st"
  BY DEF FrameOK, PlaceOK
<1>3. LET g == [f EXCEPT !.pc = "found"] IN FrameOK(prog, g) /\ ~Waiting(g)
  <2> DEFINE i == f.i
             g == [f EXCEPT !.i = i, !.pc = "found"]
  <2>1. g.i = f.i /\ g.src = f.src /\ g.pc = "found" /\ g = [f EXCEPT !.pc = "found"]
    BY <1>1 DEF FrameType
  <2>2. PlaceOK(prog, g)
    <3> HIDE DEF g
    <3> QED BY <2>1, <1>2 DEF PlaceOK
  <2>3. FrameOK(prog, g)
    <3>1. f.pc \notin {"pop", "load"} /\ i \in Nat
      BY <1>1
    <3> HIDE DEF i
    <3> QED BY <3>1, <2>2, MovedFrame
  <2> HIDE DEF g
  <2> QED BY <2>1, <2>3 DEF Waiting
<1>4. LET g == [f EXCEPT !.i = @ - 1, !.pc = "scan"] IN FrameOK(prog, g) /\ ~Waiting(g)
  <2> DEFINE g == [f EXCEPT !.i = f.i - 1, !.pc = "scan"]
  <2>1. g.i = f.i - 1 /\ g.src = f.src /\ g.pc = "scan" /\ f.i - 1 \in Nat
    BY <1>1, <1>2 DEF FrameType
  <2>2. PlaceOK(prog, g)
    <3> HIDE DEF g
    <3> QED BY <2>1, <1>1, <1>2 DEF PlaceOK
  <2> QED BY <2>1, <2>2, MovedFrame
<1> QED BY <1>3, <1>4

(* A nested call has returned to a load: the source of its value is the    *)
(* slot at the offset that it folded to.                                   *)
SlotSrc(f, offset) ==
  [node |-> f.src.node, index |-> f.i, info |-> Len(f.tree), origin |-> 1,
   kind |-> "slot", temp |-> Inst(f.src.node, f.i).in[1],
   offset |-> offset, seen |-> f.src.seen]

LEMMA LoadFacts ==
  ASSUME IsProgram(prog), NEW f, FrameOK(prog, f), f.pc = "load"
  PROVE  /\ Len(f.tree) \in Nat \ {0} /\ Len(f.tree) > 1 /\ Len(f.tree) \in DOMAIN f.tree
         /\ f.tree[Len(f.tree)].node = f.src.node /\ f.tree[Len(f.tree)].index = f.i
         /\ InstOf(prog, f.tree[Len(f.tree)]) = prog.code[f.src.node][f.i]
         /\ f.i \in DOMAIN prog.code[f.src.node] /\ f.i \in Nat \ {0}
         /\ prog.code[f.src.node][f.i].op = "ld"
         /\ DOMAIN f.tree[Len(f.tree)].children = DOMAIN prog.code[f.src.node][f.i].in
         /\ 1 \in DOMAIN prog.code[f.src.node][f.i].in
         /\ prog.code[f.src.node][f.i].in[1] \in Temps
<1> DEFINE x == Len(f.tree)
           inst == prog.code[f.src.node][f.i]
<1>1. f \in FrameType(prog) /\ TreeOK(prog, f.tree) /\ f.src.node \in DOMAIN prog.code
  BY FrameFacts
<1>2. /\ x \in Nat \ {0} /\ x \in DOMAIN f.tree
      /\ f.tree[x].index \in DOMAIN prog.code[f.tree[x].node]
      /\ DOMAIN f.tree[x].children = DOMAIN InstOf(prog, f.tree[x]).in
  BY <1>1, TreeFacts
<1>3. /\ f.i > 0 /\ x > 1 /\ f.tree[x].node = f.src.node /\ f.tree[x].index = f.i
      /\ InstOf(prog, f.tree[x]).op = "ld" /\ f.i \in Nat
  BY FrameFacts DEF FrameOK, PlaceOK
<1>4. InstOf(prog, f.tree[x]) = inst
  BY <1>3 DEF InstOf
<1>5. f.i \in DOMAIN prog.code[f.src.node] /\ f.i # 0
  BY <1>2, <1>3
<1>6. /\ HasOperands(inst) /\ Len(inst.in) \in Nat /\ DOMAIN inst.in = 1 .. Len(inst.in)
      /\ \A k \in DOMAIN inst.in : inst.in[k] \in Temps
  BY <1>1, <1>5, InstructionFacts
<1> HIDE DEF inst, x
<1>7. Len(inst.in) >= 1
  BY <1>3, <1>4, <1>6 DEF HasOperands
<1>8. 1 \in DOMAIN inst.in /\ inst.in[1] \in Temps
  BY <1>6, <1>7
<1>9. f.i \in Nat \ {0}
  BY <1>3, <1>5
<1> QED BY <1>2, <1>3, <1>4, <1>5, <1>8, <1>9 DEF inst, x

LEMMA SlotOK ==
  ASSUME IsProgram(prog), NEW f, FrameOK(prog, f), f.pc = "load", NEW offset \in Nat
  PROVE  EntryOK(prog, f.tree, f.arg, SlotSrc(f, offset))
<1> DEFINE x == Len(f.tree)
           s == SlotSrc(f, offset)
           inst == prog.code[f.src.node][f.i]
           len == Len(prog.code[f.src.node])
<1>1. /\ x \in Nat \ {0} /\ x > 1 /\ x \in DOMAIN f.tree
      /\ f.tree[x].node = f.src.node /\ f.tree[x].index = f.i
      /\ InstOf(prog, f.tree[x]) = inst /\ inst.op = "ld"
      /\ f.i \in DOMAIN prog.code[f.src.node] /\ f.i \in Nat \ {0}
      /\ 1 \in DOMAIN f.tree[x].children /\ inst.in[1] \in Temps
  BY LoadFacts
<1>2. /\ f.src.node \in DOMAIN prog.code /\ len \in Nat
      /\ DOMAIN prog.code[f.src.node] = 1 .. len
      /\ EntryOK(prog, f.tree, f.arg, f.src) /\ f.src \in EntryType(prog)
  BY FrameFacts
<1>3. f.src.seen \in SUBSET DOMAIN prog.code /\ Cardinality(f.src.seen) <= MaxTbs
      /\ (IsAcyclic(prog) => f.src.seen \cap Ancestors(prog, f.src.node) = {})
  BY <1>2 DEF EntryOK, EntryType
<1>4. s = [node |-> f.src.node, index |-> f.i, info |-> x, origin |-> 1,
           kind |-> "slot", temp |-> inst.in[1], offset |-> offset, seen |-> f.src.seen]
  BY DEF SlotSrc, Inst
<1> HIDE DEF s, x, inst, len
<1>5. s \in EntryType(prog)
  BY <1>1, <1>2, <1>3, <1>4 DEF EntryType
<1>6. /\ s.node = f.src.node /\ s.index = f.i /\ s.info = x /\ s.origin = 1
      /\ s.kind = "slot" /\ s.seen = f.src.seen
  BY <1>4
<1>7. f.i <= len + 1
  BY <1>1, <1>2
<1>8. s.index <= Len(prog.code[s.node]) + 1
  BY <1>6, <1>7 DEF len
<1>9. EntryOK(prog, f.tree, f.arg, s)
  BY <1>1, <1>3, <1>5, <1>6, <1>8 DEF EntryOK
<1> QED BY <1>9 DEF s

LEMMA LoadFrame ==
  ASSUME IsProgram(prog), NEW f, FrameOK(prog, f), f.pc = "load",
         NEW first \in Seq(EntryType(prog)),
         \A j \in DOMAIN first : EntryOK(prog, f.tree, f.arg, first[j]),
         Len(f.queue) + Len(first \o Inputs(Len(f.tree), f)) <= QueueLen
  PROVE  LET g == [f EXCEPT !.queue = f.queue \o (first \o Inputs(Len(f.tree), f)), !.pc = "pop"]
         IN  FrameOK(prog, g) /\ ~Waiting(g)
<1> DEFINE x == Len(f.tree)
           in == Inputs(x, f)
           srcs == first \o in
           g == [f EXCEPT !.queue = f.queue \o srcs, !.pc = "pop"]
<1>1. /\ f \in FrameType(prog) /\ TreeOK(prog, f.tree) /\ f.queue \in Seq(EntryType(prog))
      /\ EntryOK(prog, f.tree, f.arg, f.src)
  BY FrameFacts
<1>2. x \in Nat \ {0} /\ x \in DOMAIN f.tree /\ x > 1 /\ f.tree[x].node = f.src.node
  BY LoadFacts
<1> HIDE DEF x
<1>5. /\ in \in Seq(EntryType(prog))
      /\ \A j \in DOMAIN in : EntryOK(prog, f.tree, f.arg, in[j])
  BY <1>1, <1>2, InputsOK
<1> HIDE DEF in
<1>9. /\ srcs \in Seq(EntryType(prog)) /\ Range(srcs) = Range(first) \cup Range(in)
      /\ \A j \in DOMAIN srcs : EntryOK(prog, f.tree, f.arg, srcs[j])
  <2>1. first \in Seq(EntryType(prog)) /\ \A j \in DOMAIN first : EntryOK(prog, f.tree, f.arg, first[j])
    OBVIOUS
  <2>2. srcs \in Seq(EntryType(prog)) /\ Range(srcs) = Range(first) \cup Range(in)
    BY <1>5, ConcatProperties, RangeConcatenation
  <2>3. \A e \in Range(first) \cup Range(in) : EntryOK(prog, f.tree, f.arg, e)
    BY <2>1, <1>5 DEF Range
  <2> HIDE DEF srcs
  <2>4. \A j \in DOMAIN srcs : srcs[j] \in Range(srcs)
    BY DEF Range
  <2> QED BY <2>2, <2>3, <2>4
<1>10. Len(f.queue) + Len(srcs) <= QueueLen
  BY DEF in, x
<1> HIDE DEF srcs
<1>11. /\ g \in FrameType(prog) /\ g.tree = f.tree /\ g.arg = f.arg /\ g.src = f.src
       /\ g.queue = f.queue \o srcs /\ g.pc = "pop" /\ ~Waiting(g)
       /\ Len(g.queue) <= QueueLen
       /\ \A j \in DOMAIN g.queue : EntryOK(prog, g.tree, g.arg, g.queue[j])
       /\ Live(g) = Range(f.queue) \cup Range(srcs)
  BY <1>1, <1>9, <1>10, PushedFrame
<1> HIDE DEF g
<1>12. Live(f) = Range(f.queue)
  BY DEF Live
<1>13. PlaceOK(prog, g)
  BY <1>11 DEF PlaceOK
<1>14. ASSUME NEW k \in DOMAIN g.tree[x].children, Owed(prog, g, x, k)
       PROVE  Supplied(prog, g, x, k)
  <2>1. IsAcyclic(prog) /\ ~IsConst(InstOf(prog, f.tree[x]).in[k]) /\ k \in DOMAIN f.tree[x].children
    BY <1>2, <1>11, <1>14 DEF Owed
  <2>2. Range(Inputs(x, f)) \subseteq Live(g)
    BY <1>9, <1>11 DEF in
  <2> QED BY <1>1, <1>2, <1>11, <2>1, <2>2, InputsSupply
<1>15. x = Len(g.tree)
  BY <1>11 DEF x
<1>16. FrameOK(prog, g)
  BY <1>1, <1>11, <1>12, <1>13, <1>14, <1>15, SameTree
<1> QED BY <1>11, <1>16 DEF g, srcs, in, x

-----------------------------------------------------------------------------
(* What reaches a position writes the temp.                                *)

LEMMA LastWriterWrites ==
  ASSUME NEW p, IsProgram(p), NEW b \in DOMAIN p.code, NEW t, NEW W,
         W \subseteq WritersOf(p, b, t), W # {}
  PROVE  Max(W) \in WritersOf(p, b, t)
<1> DEFINE n == Len(p.code[b])
<1>1. n \in Nat /\ DOMAIN p.code[b] = 1 .. n
  BY ProgramFacts
<1>2. W \subseteq 0 .. n
  BY <1>1 DEF WritersOf
<1> HIDE DEF n
<1>3. Max(W) \in W
  BY <1>1, <1>2, MaxOfBounded
<1> QED BY <1>3

LEMMA ReachingWrites ==
  ASSUME NEW p, IsProgram(p), NEW b \in DOMAIN p.code, NEW i, NEW t, NEW seen,
         NEW q \in Reaching(p, b, i, t, seen)
  PROVE  q = <<q[1], q[2]>> /\ q[1] \in DOMAIN p.code /\ q[2] \in WritersOf(p, q[1], t)
<1>1. CASE Before(p, b, i, t) # {}
  <2>1. q = <<b, Max(Before(p, b, i, t))>> /\ Before(p, b, i, t) \subseteq WritersOf(p, b, t)
    BY <1>1 DEF Reaching, Before
  <2>2. Max(Before(p, b, i, t)) \in WritersOf(p, b, t)
    BY <1>1, <2>1, LastWriterWrites
  <2> QED BY <2>1, <2>2
<1>2. CASE Before(p, b, i, t) = {}
  <2>1. PICK m \in Through(p, b, t, seen) :
          WritersOf(p, m, t) # {} /\ q = <<m, Max(WritersOf(p, m, t))>>
    BY <1>2 DEF Reaching, LastWriters
  <2>2. m \in DOMAIN p.code
    BY DEF Through
  <2>3. Max(WritersOf(p, m, t)) \in WritersOf(p, m, t)
    BY <2>1, <2>2, LastWriterWrites
  <2> QED BY <2>1, <2>2, <2>3
<1> QED BY <1>1, <1>2

(* Recursion over 0 .. n: the function that starts with a and goes on with *)
(* step.                                                                   *)
IsRecursion(f, n, S, a, step) ==
  f \in [0 .. n -> S] /\ f[0] = a /\ \A i \in 1 .. n : f[i] = step[<<i, f[i - 1]>>]

LEMMA RecursionExists ==
  ASSUME NEW n \in Nat, NEW S, NEW a \in S, NEW step \in [(1 .. n) \X S -> S]
  PROVE  \E f : IsRecursion(f, n, S, a, step)
<1> DEFINE Upto(m, f) == /\ f \in [0 .. m -> S] /\ f[0] = a
                         /\ \A i \in 1 .. m : f[i] = step[<<i, f[i - 1]>>]
           T == {m \in Nat : m <= n /\ ~\E f : Upto(m, f)}
<1>1. T = {}
  <2> SUFFICES ASSUME T # {} PROVE FALSE
    OBVIOUS
  <2>1. PICK m \in T : \A y \in T : m <= y
    <3>1. T \subseteq Nat
      OBVIOUS
    <3> HIDE DEF T
    <3> QED BY <3>1, NatMin
  <2>2. m \in Nat /\ m <= n /\ ~\E f : Upto(m, f)
    OBVIOUS
  <2>3. m # 0
    <3>1. SUFFICES ASSUME m = 0 PROVE FALSE
      OBVIOUS
    <3> DEFINE f == [i \in 0 .. 0 |-> a]
    <3>2. 1 .. 0 = {} /\ 0 \in 0 .. 0
      OBVIOUS
    <3>3. Upto(0, f)
      BY <3>2
    <3> QED BY <3>1, <3>3, <2>2
  <2>4. PICK g : Upto(m - 1, g)
    <3>1. m - 1 \in Nat /\ m - 1 <= n /\ ~(m <= m - 1)
      BY <2>2, <2>3
    <3>2. m - 1 \notin T
      <4> HIDE DEF T
      <4> QED BY <2>1, <3>1
    <3> QED BY <3>1, <3>2
  <2> DEFINE last == step[<<m, g[m - 1]>>]
             f == [i \in 0 .. m |-> IF i = m THEN last ELSE g[i]]
  <2>5. last \in S
    <3>1. m \in 1 .. n /\ m - 1 \in 0 .. (m - 1)
      BY <2>2, <2>3
    <3>2. g[m - 1] \in S
      BY <2>4, <3>1
    <3>3. <<m, g[m - 1]>> \in (1 .. n) \X S
      BY <3>1, <3>2
    <3> QED BY <3>3
  <2>6. \A i \in 0 .. (m - 1) : f[i] = g[i] /\ g[i] \in S
    BY <2>2, <2>4
  <2>7. f \in [0 .. m -> S]
    <3>1. \A i \in 0 .. m : i = m \/ i \in 0 .. (m - 1)
      BY <2>2
    <3> HIDE DEF last
    <3> QED BY <2>5, <2>6, <3>1
  <2>8. f[0] = a
    <3>1. 0 \in 0 .. (m - 1)
      BY <2>2, <2>3
    <3> QED BY <2>4, <2>6, <3>1
  <2>9. ASSUME NEW i \in 1 .. m PROVE f[i] = step[<<i, f[i - 1]>>]
    <3>1. i - 1 \in 0 .. (m - 1)
      BY <2>2
    <3>2. CASE i = m
      <4>1. f[i] = last /\ f[i - 1] = g[i - 1] /\ i - 1 = m - 1
        BY <3>1, <3>2, <2>2, <2>6
      <4> HIDE DEF f
      <4> QED BY <4>1, <3>2
    <3>3. CASE i # m
      <4>1. i \in 1 .. (m - 1) /\ i \in 0 .. (m - 1)
        BY <3>3, <2>2
      <4>2. g[i] = step[<<i, g[i - 1]>>]
        BY <2>4, <4>1
      <4> HIDE DEF f
      <4> QED BY <3>1, <4>1, <4>2, <2>6
    <3> QED BY <3>2, <3>3
  <2>10. Upto(m, f)
    <3> HIDE DEF f
    <3> QED BY <2>7, <2>8, <2>9
  <2> QED BY <2>2, <2>10
<1>2. \E f : Upto(n, f)
  <2>1. n \notin T
    BY <1>1
  <2> HIDE DEF Upto
  <2> QED BY <2>1
<1> QED BY <1>2 DEF IsRecursion

-----------------------------------------------------------------------------
(* The lifted code at work: where a value comes from.                      *)

ValueType == [Temps -> SUBSET Int]

LEMMA OnEntryTyped ==
  /\ OnEntry \in ValueType
  /\ \A t \in Temps : \A v \in OnEntry[t] :
       IF IsConst(t) THEN v = ConstVal[t] ELSE t \in StackRegs /\ v = 0
<1> DEFINE At0(t) == CASE t \in StackRegs -> {0} [] IsConst(t) -> {ConstVal[t]} [] OTHER -> {}
<1>1. OnEntry = [t \in Temps |-> At0(t)]
  BY DEF OnEntry
<1>2. ASSUME NEW t \in Temps
      PROVE  At0(t) \in SUBSET Int /\ \A v \in At0(t) :
               IF IsConst(t) THEN v = ConstVal[t] ELSE t \in StackRegs /\ v = 0
  <2>1. IsConst(t) => ConstVal[t] \in Int /\ t \notin StackRegs
    BY FoldAssumption DEF IsConst
  <2>2. CASE t \in StackRegs
    <3>1. At0(t) = {0} /\ ~IsConst(t)
      BY <2>1, <2>2
    <3> QED BY <2>2, <3>1
  <2>3. CASE t \notin StackRegs /\ IsConst(t)
    <3>1. At0(t) = {ConstVal[t]}
      BY <2>3
    <3> QED BY <2>1, <2>3, <3>1
  <2>4. CASE t \notin StackRegs /\ ~IsConst(t)
    <3>1. At0(t) = {}
      BY <2>4
    <3> QED BY <3>1
  <2> QED BY <2>2, <2>3, <2>4
<1> HIDE DEF At0
<1> QED BY <1>1, <1>2 DEF ValueType

LEMMA ResultTyped ==
  ASSUME NEW val \in ValueType, NEW inst \in Instruction, HasOperands(inst)
  PROVE  Result(val, inst) \in SUBSET Int
<1>1. inst.in \in Seq(Temps) /\ Len(inst.in) \in Nat /\ DOMAIN inst.in = 1 .. Len(inst.in)
  BY LenProperties DEF Instruction
<1>2. \A k \in 1 .. Len(inst.in) : val[inst.in[k]] \in SUBSET Int
  BY <1>1, ElementOfSeq DEF ValueType
<1>3. inst.op = "mov" => 1 \in 1 .. Len(inst.in)
  BY <1>1 DEF HasOperands
<1>4. inst.op \in {"add", "sub"} => 1 \in 1 .. Len(inst.in) /\ 2 \in 1 .. Len(inst.in)
  <2>1. inst.op \in {"add", "sub"} => Len(inst.in) = 2
    BY DEF HasOperands
  <2>2. 1 \in 1 .. 2 /\ 2 \in 1 .. 2
    OBVIOUS
  <2> QED BY <2>1, <2>2
<1>5. CASE inst.op = "mov"
  BY <1>2, <1>3, <1>5 DEF Result
<1>6. CASE inst.op = "add"
  <2>1. Result(val, inst) = {l + r : l \in val[inst.in[1]], r \in val[inst.in[2]]}
    BY <1>6 DEF Result
  <2>2. val[inst.in[1]] \in SUBSET Int /\ val[inst.in[2]] \in SUBSET Int
    BY <1>2, <1>4, <1>6
  <2> QED BY <2>1, <2>2
<1>7. CASE inst.op = "sub"
  <2>1. Result(val, inst) = {l - r : l \in val[inst.in[1]], r \in val[inst.in[2]]}
    BY <1>7 DEF Result
  <2>2. val[inst.in[1]] \in SUBSET Int /\ val[inst.in[2]] \in SUBSET Int
    BY <1>2, <1>4, <1>7
  <2> QED BY <2>1, <2>2
<1>8. CASE inst.op \notin {"mov", "add", "sub"}
  BY <1>8 DEF Result
<1> QED BY <1>5, <1>6, <1>7, <1>8

LEMMA ExecuteTyped ==
  ASSUME IsProgram(prog), NEW b \in Blocks, NEW i \in DOMAIN prog.code[b], NEW val \in ValueType
  PROVE  LET inst == prog.code[b][i]
         IN  /\ Execute(val, <<b, i>>) \in ValueType
             /\ \A t \in Temps : Execute(val, <<b, i>>)[t] =
                  IF t \in Range(inst.out) THEN Result(val, inst) ELSE val[t]
<1> DEFINE inst == prog.code[b][i]
<1>1. inst \in Instruction /\ HasOperands(inst)
  BY ProgramFacts DEF Blocks
<1>2. Execute(val, <<b, i>>) = [t \in Temps |-> IF t \in Range(inst.out) THEN Result(val, inst) ELSE val[t]]
  BY DEF Execute, Inst
<1> HIDE DEF inst
<1>3. Result(val, inst) \in SUBSET Int
  BY <1>1, ResultTyped
<1>4. Execute(val, <<b, i>>) \in ValueType
  BY <1>2, <1>3 DEF ValueType
<1> QED BY <1>2, <1>4 DEF inst

(* The values in a block, from the start on.                               *)
LEMMA WithinIs ==
  ASSUME IsProgram(prog), NEW b \in Blocks, NEW val \in ValueType
  PROVE  LET at == Within(val, b)
         IN  /\ at[0] = val
             /\ \A i \in 0 .. Len(prog.code[b]) : at[i] \in ValueType
             /\ \A i \in 1 .. Len(prog.code[b]) : at[i] = Execute(at[i - 1], <<b, i>>)
<1> DEFINE n == Len(prog.code[b])
           at == Within(val, b)
           Goes(f) == f = [i \in 0 .. n |-> IF i = 0 THEN val ELSE Execute(f[i - 1], <<b, i>>)]
           step == [z \in (1 .. n) \X ValueType |-> Execute(z[2], <<b, z[1]>>)]
<1>1. n \in Nat /\ DOMAIN prog.code[b] = 1 .. n
  BY ProgramFacts DEF Blocks
<1>2. at = CHOOSE f : Goes(f)
  BY DEF Within
<1>3. \A i \in 1 .. n : \A w \in ValueType : Execute(w, <<b, i>>) \in ValueType
  BY <1>1, ExecuteTyped
<1> HIDE DEF n, at
<1>4. step \in [(1 .. n) \X ValueType -> ValueType]
  BY <1>3
<1>5. \E f : IsRecursion(f, n, ValueType, val, step)
  <2> HIDE DEF step
  <2> QED BY <1>1, <1>4, RecursionExists
<1>6. PICK f : IsRecursion(f, n, ValueType, val, step)
  BY <1>5
<1>7. Goes(f)
  <2>1. f \in [0 .. n -> ValueType] /\ f[0] = val /\ \A i \in 1 .. n : f[i] = step[<<i, f[i - 1]>>]
    BY <1>6 DEF IsRecursion
  <2>2. ASSUME NEW i \in 0 .. n PROVE f[i] = IF i = 0 THEN val ELSE Execute(f[i - 1], <<b, i>>)
    <3>1. CASE i = 0
      BY <2>1, <3>1
    <3>2. CASE i # 0
      <4>1. i \in 1 .. n /\ i - 1 \in 0 .. n
        BY <1>1, <3>2
      <4>2. <<i, f[i - 1]>> \in (1 .. n) \X ValueType
        BY <2>1, <4>1
      <4> QED BY <2>1, <3>2, <4>1, <4>2
    <3> QED BY <3>1, <3>2
  <2>3. f = [i \in 0 .. n |-> f[i]]
    BY <2>1
  <2> QED BY <2>2, <2>3
<1>8. Goes(at)
  <2> HIDE DEF Goes
  <2> QED BY <1>2, <1>7
<1>9. at[0] = val /\ \A i \in 1 .. n : at[i] = Execute(at[i - 1], <<b, i>>)
  <2>1. \A i \in 0 .. n : at[i] = IF i = 0 THEN val ELSE Execute(at[i - 1], <<b, i>>)
    BY <1>8
  <2>2. 0 \in 0 .. n /\ \A i \in 1 .. n : i \in 0 .. n /\ i # 0
    BY <1>1
  <2> HIDE DEF Goes
  <2> QED BY <2>1, <2>2
<1> HIDE DEF Goes, step
<1>10. \A i \in 0 .. n : at[i] \in ValueType
  <2> DEFINE T == {i \in 0 .. n : at[i] \notin ValueType}
  <2> SUFFICES ASSUME T # {} PROVE FALSE
    OBVIOUS
  <2>1. PICK i \in T : \A y \in T : i <= y
    <3>1. T \subseteq Nat
      BY <1>1
    <3> HIDE DEF T
    <3> QED BY <3>1, NatMin
  <2>2. i \in 0 .. n /\ at[i] \notin ValueType
    OBVIOUS
  <2>3. i # 0
    BY <1>9, <2>2
  <2>4. i \in 1 .. n /\ i - 1 \in 0 .. n /\ ~(i <= i - 1)
    BY <1>1, <2>2, <2>3
  <2>5. at[i - 1] \in ValueType
    <3>1. i - 1 \notin T
      <4> HIDE DEF T
      <4> QED BY <2>1, <2>4
    <3> QED BY <2>4, <3>1
  <2> QED BY <1>3, <1>9, <2>2, <2>4, <2>5
<1> QED BY <1>9, <1>10 DEF at, n

-----------------------------------------------------------------------------
(* A way through the blocks, each a predecessor of the next.               *)
IsWay(p) ==
  /\ p \in Seq(Blocks) /\ Len(p) >= 1
  /\ \A j \in 2 .. Len(p) : p[j - 1] \in Range(prog.pred[p[j]])

LEMMA WayFacts ==
  ASSUME NEW p, IsWay(p)
  PROVE  /\ Len(p) \in Nat \ {0} /\ DOMAIN p = 1 .. Len(p)
         /\ \A n \in 1 .. Len(p) : p[n] \in Blocks
BY LenProperties, ElementOfSeq DEF IsWay

LEMMA PathIsWay ==
  ASSUME IsProgram(prog), NEW b \in Blocks, NEW p \in Paths(b)
  PROVE  IsWay(p) /\ p[Len(p)] = b
<1>1. Blocks \subseteq Nat /\ IsFiniteSet(Blocks) /\ Cardinality(Blocks) \in Nat
  <2>1. prog.code \in Seq(Seq(Instruction))
    BY DEF IsProgram
  <2>2. Len(prog.code) \in Nat /\ Blocks = 1 .. Len(prog.code)
    BY <2>1, LenProperties DEF Blocks
  <2>3. IsFiniteSet(1 .. Len(prog.code))
    <3> DEFINE n == Len(prog.code)
    <3>1. n \in Int /\ 1 \in Int
      BY <2>2
    <3> HIDE DEF n
    <3>2. IsFiniteSet(1 .. n)
      BY ONLY <3>1, FS_Interval
    <3> QED BY <3>2 DEF n
  <2> QED BY <2>2, <2>3, FS_CardinalityType
<1>2. PICK n \in 1 .. Cardinality(Blocks) : p \in [1 .. n -> Blocks]
  BY DEF Paths
<1>3. p \in Seq(Blocks) /\ Len(p) = n
  <2>1. n \in Nat
    BY <1>1
  <2> QED BY <1>2, <2>1, FunctionIsSeq, LenProperties
<1>4. p[Len(p)] = b /\ \A j \in 2 .. Len(p) : p[j - 1] \in Range(prog.pred[p[j]])
  BY DEF Paths, Last
<1> QED BY <1>1, <1>3, <1>4 DEF IsWay

(* The values on a way, from the entry on.                                 *)
LEMMA RunIs ==
  ASSUME IsProgram(prog), NEW p, IsWay(p)
  PROVE  /\ Run(p)[0] = OnEntry
         /\ \A n \in 0 .. Len(p) : Run(p)[n] \in ValueType
         /\ \A n \in 1 .. Len(p) : Run(p)[n] = Within(Run(p)[n - 1], p[n])[Len(prog.code[p[n]])]
<1> DEFINE L == Len(p)
           after == Run(p)
           After(w, n) == Within(w, p[n])[Len(prog.code[p[n]])]
           Goes(f) == f = [n \in 0 .. L |-> IF n = 0 THEN OnEntry ELSE After(f[n - 1], n)]
           step == [z \in (1 .. L) \X ValueType |-> After(z[2], z[1])]
<1>1. L \in Nat /\ \A n \in 1 .. L : p[n] \in Blocks
  BY WayFacts
<1>2. after = CHOOSE f : Goes(f)
  BY DEF Run
<1>3. ASSUME NEW n \in 1 .. L, NEW w \in ValueType PROVE After(w, n) \in ValueType
  <2> DEFINE b == p[n]
  <2>1. b \in Blocks
    BY <1>1
  <2>2. Len(prog.code[b]) \in 0 .. Len(prog.code[b])
    <3>1. Len(prog.code[b]) \in Nat
      BY <2>1, ProgramFacts DEF Blocks
    <3> QED BY <3>1
  <2> HIDE DEF b
  <2>3. \A i \in 0 .. Len(prog.code[b]) : Within(w, b)[i] \in ValueType
    BY <2>1, WithinIs
  <2>4. Within(w, b)[Len(prog.code[b])] \in ValueType
    BY <2>2, <2>3
  <2> QED BY <2>4 DEF b
<1>4. OnEntry \in ValueType
  BY OnEntryTyped
<1> DEFINE start == OnEntry
<1> HIDE DEF L, after, start, After
<1>5. step \in [(1 .. L) \X ValueType -> ValueType]
  BY <1>3
<1>6. PICK f : IsRecursion(f, L, ValueType, start, step)
  <2> HIDE DEF step
  <2>1. start \in ValueType
    BY <1>4 DEF start
  <2> QED BY <1>1, <1>5, <2>1, RecursionExists
<1>7. Goes(f)
  <2>1. f \in [0 .. L -> ValueType] /\ f[0] = start /\ \A n \in 1 .. L : f[n] = step[<<n, f[n - 1]>>]
    BY <1>6 DEF IsRecursion
  <2>2. ASSUME NEW n \in 0 .. L PROVE f[n] = IF n = 0 THEN start ELSE After(f[n - 1], n)
    <3>1. CASE n = 0
      BY <2>1, <3>1
    <3>2. CASE n # 0
      <4>1. n \in 1 .. L /\ n - 1 \in 0 .. L
        BY <1>1, <3>2
      <4>2. <<n, f[n - 1]>> \in (1 .. L) \X ValueType
        BY <2>1, <4>1
      <4> QED BY <2>1, <3>2, <4>1, <4>2
    <3> QED BY <3>1, <3>2
  <2>3. f = [n \in 0 .. L |-> f[n]]
    BY <2>1
  <2> QED BY <2>2, <2>3 DEF start
<1>8. Goes(after)
  <2> HIDE DEF Goes
  <2> QED BY <1>2, <1>7 DEF after
<1>9. after[0] = start /\ \A n \in 1 .. L : after[n] = After(after[n - 1], n)
  <2>1. \A n \in 0 .. L : after[n] = IF n = 0 THEN start ELSE After(after[n - 1], n)
    BY <1>8 DEF start
  <2>2. 0 \in 0 .. L /\ \A n \in 1 .. L : n \in 0 .. L /\ n # 0
    BY <1>1
  <2> HIDE DEF Goes
  <2> QED BY <2>1, <2>2
<1> HIDE DEF Goes, step
<1>10. \A n \in 0 .. L : after[n] \in ValueType
  <2> DEFINE T == {n \in 0 .. L : after[n] \notin ValueType}
  <2> SUFFICES ASSUME T # {} PROVE FALSE
    OBVIOUS
  <2>1. PICK n \in T : \A y \in T : n <= y
    <3>1. T \subseteq Nat
      BY <1>1
    <3> HIDE DEF T
    <3> QED BY <3>1, NatMin
  <2>2. n \in 0 .. L /\ after[n] \notin ValueType
    OBVIOUS
  <2>3. n # 0
    BY <1>4, <1>9, <2>2 DEF start
  <2>4. n \in 1 .. L /\ n - 1 \in 0 .. L /\ ~(n <= n - 1)
    BY <1>1, <2>2, <2>3
  <2>5. after[n - 1] \in ValueType
    <3>1. n - 1 \notin T
      <4> HIDE DEF T
      <4> QED BY <2>1, <2>4
    <3> QED BY <2>4, <3>1
  <2> QED BY <1>3, <1>9, <2>2, <2>4, <2>5
<1> QED BY <1>9, <1>10 DEF after, L, start, After

(* The values before position i of the nth block of a way.                 *)
LEMMA ValuesAre ==
  ASSUME IsProgram(prog), NEW p, IsWay(p), NEW n \in 1 .. Len(p)
  PROVE  /\ Values(p, n, 1) = IF n = 1 THEN OnEntry
                                       ELSE Values(p, n - 1, Len(prog.code[p[n - 1]]) + 1)
         /\ \A i \in 1 .. (Len(prog.code[p[n]]) + 1) : Values(p, n, i) \in ValueType
         /\ \A i \in 1 .. Len(prog.code[p[n]]) :
              Values(p, n, i + 1) = Execute(Values(p, n, i), <<p[n], i>>)
<1> DEFINE b == p[n]
           w == Run(p)[n - 1]
           N == Len(prog.code[b])
<1>1. Len(p) \in Nat /\ n \in Nat /\ n - 1 \in 0 .. Len(p) /\ b \in Blocks
  BY WayFacts
<1>2. w \in ValueType
  BY <1>1, RunIs
<1>3. N \in Nat
  BY <1>1, ProgramFacts DEF Blocks
<1>4. /\ Within(w, b)[0] = w
      /\ \A i \in 0 .. N : Within(w, b)[i] \in ValueType
      /\ \A i \in 1 .. N : Within(w, b)[i] = Execute(Within(w, b)[i - 1], <<b, i>>)
  <2> HIDE DEF w, b
  <2> QED BY <1>1, <1>2, WithinIs DEF N
<1>5. \A i : Values(p, n, i) = Within(w, b)[i - 1]
  BY DEF Values
<1> HIDE DEF N, w, b
<1>6. Values(p, n, 1) = w
  BY <1>4, <1>5
<1>7. \A i \in 1 .. (N + 1) : Values(p, n, i) \in ValueType
  <2>1. \A i \in 1 .. (N + 1) : i - 1 \in 0 .. N
    BY <1>3
  <2> QED BY <1>4, <1>5, <2>1
<1>8. \A i \in 1 .. N : Values(p, n, i + 1) = Execute(Values(p, n, i), <<b, i>>)
  <2>1. \A i \in 1 .. N : (i + 1) - 1 = i
    BY <1>3
  <2> QED BY <1>4, <1>5, <2>1
<1>9. CASE n = 1
  <2>1. w = OnEntry
    BY <1>9, RunIs DEF w
  <2> QED BY <1>6, <1>7, <1>8, <1>9, <2>1 DEF N, b
<1>10. CASE n # 1
  <2> DEFINE M == Len(prog.code[p[n - 1]])
  <2>1. n - 1 \in 1 .. Len(p)
    BY <1>1, <1>10
  <2>2. p[n - 1] \in Blocks
    BY <2>1, WayFacts
  <2>3. M \in Nat /\ (M + 1) - 1 = M
    <3>1. M \in Nat
      BY <2>2, ProgramFacts DEF Blocks
    <3> HIDE DEF M
    <3> QED BY <3>1
  <2>4. w = Within(Run(p)[n - 1 - 1], p[n - 1])[M]
    BY <2>1, RunIs DEF w
  <2>5. Values(p, n - 1, M + 1) = Within(Run(p)[n - 1 - 1], p[n - 1])[(M + 1) - 1]
    BY DEF Values
  <2>6. w = Values(p, n - 1, M + 1)
    <3> HIDE DEF M
    <3> QED BY <2>3, <2>4, <2>5
  <2> QED BY <1>6, <1>7, <1>8, <1>10, <2>6 DEF N, b
<1> QED BY <1>9, <1>10

(* Value v of temp t at position i of the nth block was there on entry, or *)
(* an instruction that the way passed computed it, and this definition     *)
(* reaches the position.                                                   *)
Computed(p, n, i, t, v) ==
  \E m \in 1 .. n : \E j \in DOMAIN prog.code[p[m]] :
    /\ t \in Range(prog.code[p[m]][j].out)
    /\ v \in Result(Values(p, m, j), prog.code[p[m]][j])
    /\ <<p[m], j>> \in Reaching(prog, p[n], i, t, {})

Known(p, n, i, t, v) == v \in OnEntry[t] \/ Computed(p, n, i, t, v)

LEMMA ComputedOnward ==
  ASSUME NEW p, NEW n \in Nat, NEW k \in Nat, n <= k, NEW i, NEW j, NEW t, NEW v, Known(p, n, i, t, v),
         Reaching(prog, p[n], i, t, {}) \subseteq Reaching(prog, p[k], j, t, {})
  PROVE  Known(p, k, j, t, v)
<1>1. CASE v \in OnEntry[t]
  BY <1>1 DEF Known
<1>2. CASE Computed(p, n, i, t, v)
  <2>1. PICK m \in 1 .. n : \E l \in DOMAIN prog.code[p[m]] :
          /\ t \in Range(prog.code[p[m]][l].out)
          /\ v \in Result(Values(p, m, l), prog.code[p[m]][l])
          /\ <<p[m], l>> \in Reaching(prog, p[n], i, t, {})
    BY <1>2 DEF Computed
  <2>2. m \in 1 .. k
    OBVIOUS
  <2>3. Computed(p, k, j, t, v)
    BY <2>1, <2>2 DEF Computed
  <2> QED BY <2>3 DEF Known
<1> QED BY <1>1, <1>2 DEF Known

(* The next position of the same block.                                    *)
LEMMA KnownNext ==
  ASSUME IsProgram(prog), NEW p, IsWay(p), NEW n \in 1 .. Len(p),
         NEW i \in 1 .. Len(prog.code[p[n]]), NEW t \in Temps,
         \A v \in Values(p, n, i)[t] : Known(p, n, i, t, v)
  PROVE  \A v \in Values(p, n, i + 1)[t] : Known(p, n, i + 1, t, v)
<1> DEFINE b == p[n]
           N == Len(prog.code[b])
           inst == prog.code[b][i]
           val == Values(p, n, i)
<1>1. b \in Blocks /\ n \in Nat /\ n \in 1 .. n
  BY WayFacts
<1>2. N \in Nat /\ DOMAIN prog.code[b] = 1 .. N
  BY <1>1, ProgramFacts DEF Blocks
<1>3. i \in DOMAIN prog.code[b] /\ i \in Nat /\ i \in 1 .. (N + 1) /\ i < i + 1
  BY <1>2
<1>4. val \in ValueType /\ Values(p, n, i + 1) = Execute(val, <<b, i>>)
  BY <1>3, ValuesAre
<1>5. Values(p, n, i + 1)[t] = IF t \in Range(inst.out) THEN Result(val, inst) ELSE val[t]
  <2> HIDE DEF val
  <2> QED BY <1>1, <1>3, <1>4, ExecuteTyped
<1> DEFINE W == Before(prog, b, i + 1, t)
<1>6. W \subseteq WritersOf(prog, b, t) /\ \A j \in W : j \in 1 .. N /\ j < i + 1
  BY <1>2 DEF Before, WritersOf
<1>7. CASE t \in Range(inst.out)
  <2>1. i \in W
    BY <1>3, <1>7 DEF Before, WritersOf
  <2>2. Max(W) = i
    <3>1. W \subseteq 0 .. N
      BY <1>6, <1>2
    <3>2. Max(W) \in W /\ Max(W) >= i
      <4> HIDE DEF W
      <4> QED BY <1>2, <2>1, <3>1, MaxOfBounded
    <3>3. Max(W) \in Nat /\ Max(W) < i + 1
      BY <1>6, <3>2
    <3> HIDE DEF W
    <3> QED BY <1>3, <3>2, <3>3
  <2>3. <<b, i>> \in Reaching(prog, b, i + 1, t, {})
    <3>1. W # {}
      BY <2>1
    <3>2. Reaching(prog, b, i + 1, t, {}) = {<<b, Max(W)>>}
      BY <3>1 DEF Reaching
    <3> HIDE DEF W
    <3> QED BY <2>2, <3>2
  <2>4. ASSUME NEW v \in Values(p, n, i + 1)[t] PROVE Computed(p, n, i + 1, t, v)
    <3>1. v \in Result(Values(p, n, i), prog.code[p[n]][i])
      BY <1>5, <1>7
    <3> QED BY <1>1, <1>3, <1>7, <2>3, <3>1 DEF Computed
  <2> QED BY <2>4 DEF Known
<1>8. CASE t \notin Range(inst.out)
  <2>1. i \notin WritersOf(prog, b, t)
    BY <1>8 DEF WritersOf
  <2>2. W = Before(prog, b, i, t)
    <3>1. \A j \in 1 .. N : j # i => (j < i + 1 <=> j < i)
      BY <1>3
    <3>2. WritersOf(prog, b, t) \subseteq 1 .. N
      BY <1>2 DEF WritersOf
    <3> QED BY <2>1, <3>1, <3>2 DEF Before
  <2>3. Reaching(prog, b, i + 1, t, {}) = Reaching(prog, b, i, t, {})
    BY <2>2 DEF Reaching
  <2>4. ASSUME NEW v \in Values(p, n, i + 1)[t] PROVE Known(p, n, i + 1, t, v)
    <3>1. Known(p, n, i, t, v)
      BY <1>5, <1>8
    <3> QED BY <1>1, <2>3, <3>1, ComputedOnward
  <2> QED BY <2>4
<1> QED BY <1>7, <1>8

(* A whole block.                                                          *)
LEMMA KnownWithin ==
  ASSUME IsProgram(prog), NEW p, IsWay(p), NEW n \in 1 .. Len(p), NEW t \in Temps,
         \A v \in Values(p, n, 1)[t] : Known(p, n, 1, t, v)
  PROVE  \A i \in 1 .. (Len(prog.code[p[n]]) + 1) :
           \A v \in Values(p, n, i)[t] : Known(p, n, i, t, v)
<1> DEFINE N == Len(prog.code[p[n]])
           OK(i) == \A v \in Values(p, n, i)[t] : Known(p, n, i, t, v)
           T == {i \in 1 .. (N + 1) : ~OK(i)}
<1>1. N \in Nat
  <2>1. p[n] \in Blocks
    BY WayFacts
  <2> QED BY <2>1, ProgramFacts DEF Blocks
<1>2. OK(1) /\ \A i \in 1 .. N : OK(i) => OK(i + 1)
  BY KnownNext
<1> HIDE DEF OK, N
<1>3. T = {}
  <2> SUFFICES ASSUME T # {} PROVE FALSE
    OBVIOUS
  <2>1. PICK i \in T : \A y \in T : i <= y
    <3>1. T \subseteq Nat
      BY <1>1
    <3> HIDE DEF T
    <3> QED BY <3>1, NatMin
  <2>2. i \in 1 .. (N + 1) /\ ~OK(i)
    OBVIOUS
  <2>3. i # 1
    BY <1>2, <2>2
  <2>4. i - 1 \in 1 .. N /\ i - 1 \in 1 .. (N + 1) /\ (i - 1) + 1 = i /\ ~(i <= i - 1)
    BY <1>1, <2>2, <2>3
  <2>5. OK(i - 1)
    <3>1. i - 1 \notin T
      <4> HIDE DEF T
      <4> QED BY <2>1, <2>4
    <3> QED BY <2>4, <3>1
  <2>6. OK((i - 1) + 1)
    BY <1>2, <2>4, <2>5
  <2> QED BY <2>2, <2>4, <2>6
<1> QED BY <1>3 DEF OK, N

(* Every value of a way.                                                   *)
LEMMA AllKnown ==
  ASSUME IsProgram(prog), NEW p, IsWay(p), NEW t \in Temps
  PROVE  \A n \in 1 .. Len(p) : \A i \in 1 .. (Len(prog.code[p[n]]) + 1) :
           \A v \in Values(p, n, i)[t] : Known(p, n, i, t, v)
<1> DEFINE L == Len(p)
           OK(n) == \A i \in 1 .. (Len(prog.code[p[n]]) + 1) :
                      \A v \in Values(p, n, i)[t] : Known(p, n, i, t, v)
           First(n) == \A v \in Values(p, n, 1)[t] : Known(p, n, 1, t, v)
           T == {n \in 1 .. L : ~OK(n)}
<1>1. L \in Nat
  BY WayFacts
<1>2. \A n \in 1 .. L : First(n) => OK(n)
  BY KnownWithin
<1>3. ASSUME NEW n \in 1 .. L, n = 1 PROVE First(n)
  <2>1. Values(p, n, 1) = OnEntry
    BY <1>3, ValuesAre
  <2> QED BY <2>1 DEF Known
<1>4. ASSUME NEW n \in 1 .. L, n # 1, OK(n - 1) PROVE First(n)
  <2> DEFINE m == p[n - 1]
             e == Len(prog.code[m]) + 1
  <2>1. n - 1 \in 1 .. L /\ n - 1 \in Nat /\ n \in Nat /\ n - 1 <= n /\ n \in 2 .. L
    BY <1>1, <1>4
  <2>2. m \in Blocks /\ p[n] \in Blocks
    BY <2>1, WayFacts
  <2>3. e \in 1 .. e
    <3>1. Len(prog.code[m]) \in Nat
      BY <2>2, ProgramFacts DEF Blocks
    <3> QED BY <3>1
  <2>4. Values(p, n, 1) = Values(p, n - 1, e)
    BY <1>4, ValuesAre
  <2>5. m \in Range(prog.pred[p[n]])
    BY <2>1 DEF IsWay
  <2>6. Before(prog, p[n], 1, t) = {}
    <3>1. DOMAIN prog.code[p[n]] \subseteq Nat \ {0}
      <4>1. DOMAIN prog.code[p[n]] = 1 .. Len(prog.code[p[n]]) /\ Len(prog.code[p[n]]) \in Nat
        BY <2>2, ProgramFacts DEF Blocks
      <4> QED BY <4>1
    <3> QED BY <3>1 DEF Before, WritersOf
  <2>7. Reaching(prog, m, e, t, {}) \subseteq Reaching(prog, p[n], 1, t, {})
    <3> DEFINE b == p[n]
    <3>1. b \in DOMAIN prog.code /\ Before(prog, b, 1, t) = {} /\ m \in Range(prog.pred[b])
      BY <2>2, <2>5, <2>6 DEF Blocks
    <3> HIDE DEF b, m
    <3> QED BY <3>1, PredSound DEF b
  <2>8. ASSUME NEW v \in Values(p, n, 1)[t] PROVE Known(p, n, 1, t, v)
    <3>1. Known(p, n - 1, e, t, v)
      BY <1>4, <2>3, <2>4
    <3> HIDE DEF e
    <3> QED BY <2>1, <2>7, <3>1, ComputedOnward
  <2> QED BY <2>8
<1> HIDE DEF OK, First, L
<1>5. T = {}
  <2> SUFFICES ASSUME T # {} PROVE FALSE
    OBVIOUS
  <2>1. PICK n \in T : \A y \in T : n <= y
    <3>1. T \subseteq Nat
      BY <1>1
    <3> HIDE DEF T
    <3> QED BY <3>1, NatMin
  <2>2. n \in 1 .. L /\ ~OK(n)
    OBVIOUS
  <2>3. n # 1
    BY <1>2, <1>3, <2>2
  <2>4. n - 1 \in 1 .. L /\ ~(n <= n - 1)
    BY <1>1, <2>2, <2>3
  <2>5. OK(n - 1)
    <3>1. n - 1 \notin T
      <4> HIDE DEF T
      <4> QED BY <2>1, <2>4
    <3> QED BY <2>4, <3>1
  <2> QED BY <1>2, <1>4, <2>2, <2>3, <2>5
<1> QED BY <1>5 DEF OK, L

-----------------------------------------------------------------------------
(* A fold is no higher than what it stands for.                            *)

(* The fold f of node x of a tree is no higher than what its instruction   *)
(* computes on any way.                                                    *)
BoundsNode(tree, f, x) ==
  f[x].valid =>
    \A p \in Seq(Blocks) : IsWay(p) => \A n \in 1 .. Len(p) : p[n] = tree[x].node =>
      \A v \in Result(Values(p, n, tree[x].index), InstOf(prog, tree[x])) : f[x].value <= v

(* A value that was computed on the way comes from a node of the tree.     *)
LEMMA ComputedBelow ==
  ASSUME IsProgram(prog), NEW tree, TreeOK(prog, tree), NEW x \in DOMAIN tree,
         NEW k \in DOMAIN tree[x].children, NEW f,
         \A c \in Range(tree[x].children[k]) : BoundsNode(tree, f, c),
         Reaching(prog, tree[x].node, tree[x].index, Operand(tree, x, k), {})
           \subseteq Branches(tree, x, k),
         NEW p, IsWay(p), NEW n \in 1 .. Len(p), p[n] = tree[x].node, NEW v,
         Computed(p, n, tree[x].index, Operand(tree, x, k), v)
  PROVE  \E c \in Range(tree[x].children[k]) : f[c].valid => f[c].value <= v
<1> DEFINE t == Operand(tree, x, k)
           i == tree[x].index
<1>1. PICK m \in 1 .. n : \E j \in DOMAIN prog.code[p[m]] :
        /\ t \in Range(prog.code[p[m]][j].out)
        /\ v \in Result(Values(p, m, j), prog.code[p[m]][j])
        /\ <<p[m], j>> \in Reaching(prog, p[n], i, t, {})
  BY DEF Computed
<1>2. PICK j \in DOMAIN prog.code[p[m]] :
        /\ v \in Result(Values(p, m, j), prog.code[p[m]][j])
        /\ <<p[m], j>> \in Reaching(prog, p[n], i, t, {})
  BY <1>1
<1>3. <<p[m], j>> \in Branches(tree, x, k)
  BY <1>2
<1>4. PICK c \in Range(tree[x].children[k]) : <<p[m], j>> = <<tree[c].node, tree[c].index>>
  BY <1>3 DEF Branches
<1>5. p[m] = tree[c].node /\ j = tree[c].index
  BY <1>4
<1>6. m \in 1 .. Len(p) /\ p \in Seq(Blocks)
  BY WayFacts DEF IsWay
<1>7. v \in Result(Values(p, m, tree[c].index), InstOf(prog, tree[c]))
  BY <1>2, <1>5 DEF InstOf
<1>8. BoundsNode(tree, f, c)
  OBVIOUS
<1>9. f[c].valid => f[c].value <= v
  BY <1>5, <1>6, <1>7, <1>8 DEF BoundsNode
<1> QED BY <1>9

LEMMA DeepestOf ==
  ASSUME NEW folds, folds \subseteq FoldType, IsFiniteSet(folds)
  PROVE  LET d == Deepest({f.value : f \in folds})
         IN  d \in Int /\ d <= 0 /\ \A g \in folds : d <= g.value
<1> DEFINE V == {f.value : f \in folds}
<1>1. IsFiniteSet(V) /\ V \subseteq Int
  <2> DEFINE h == [f \in folds |-> f.value]
  <2>1. h \in Surjection(folds, V)
    BY DEF Surjection
  <2>2. IsFiniteSet(V)
    BY <2>1, FS_Surjection
  <2> QED BY <2>2 DEF FoldType
<1>2. \A g \in folds : g.value \in V
  OBVIOUS
<1>3. Deepest(V) \in Int /\ Deepest(V) <= 0 /\ \A w \in V : Deepest(V) <= w
  <2> HIDE DEF V
  <2> QED BY <1>1, DeepestTyped
<1> HIDE DEF V
<1> QED BY <1>2, <1>3 DEF V

LEMMA FoldsTyped ==
  ASSUME NEW tree, Len(tree) \in Nat, DOMAIN tree = 1 .. Len(tree),
         NEW f, \A c \in DOMAIN tree : f[c] \in FoldType,
         NEW C, C \subseteq DOMAIN tree
  PROVE  {f[c] : c \in C} \subseteq FoldType /\ IsFiniteSet({f[c] : c \in C})
<1>1. IsFiniteSet(C)
  <2> DEFINE n == Len(tree)
  <2>1. n \in Int /\ 1 \in Int
    OBVIOUS
  <2>2. C \subseteq 1 .. n
    OBVIOUS
  <2> HIDE DEF n
  <2>3. IsFiniteSet(1 .. n)
    BY ONLY <2>1, FS_Interval
  <2> QED BY <2>2, <2>3, FS_Subset
<1> QED BY <1>1, ImageFinite

(* Nothing in the tree is a source of a constant.                          *)
LEMMA ConstHasNone ==
  ASSUME IsProgram(prog), NEW tree, TreeOK(prog, tree), NEW x \in DOMAIN tree,
         NEW k \in DOMAIN tree[x].children, IsConst(Operand(tree, x, k)),
         InstOf(prog, tree[x]).op # "ld"
  PROVE  Range(tree[x].children[k]) = {}
<1> SUFFICES ASSUME NEW c \in Range(tree[x].children[k]) PROVE FALSE
  OBVIOUS
<1> DEFINE t == Operand(tree, x, k)
           q == <<tree[c].node, tree[c].index>>
<1>1. ChildOK(prog, tree, x, k, c)
  BY TreeFacts DEF LinkOK
<1>2. q \in Reaching(prog, tree[x].node, tree[x].index, t, {})
  BY <1>1 DEF ChildOK, Operand, Inst, InstOf
<1>3. tree[x].node \in DOMAIN prog.code
  BY TreeFacts
<1> DEFINE b == tree[x].node
           i == tree[x].index
<1> HIDE DEF q, t, b, i
<1>4. q[1] \in DOMAIN prog.code /\ q[2] \in WritersOf(prog, q[1], t)
  <2>1. b \in DOMAIN prog.code /\ q \in Reaching(prog, b, i, t, {})
    BY <1>2, <1>3 DEF b, i
  <2> QED BY <2>1, ReachingWrites
<1> DEFINE inst == prog.code[q[1]][q[2]]
<1>5. q[2] \in DOMAIN prog.code[q[1]] /\ t \in Range(inst.out)
  BY <1>4 DEF WritersOf
<1>6. HasOperands(inst)
  BY <1>4, <1>5, ProgramFacts
<1> HIDE DEF inst
<1>7. PICK l \in DOMAIN inst.out : inst.out[l] = t
  BY <1>5 DEF Range
<1> QED BY <1>6, <1>7 DEF HasOperands, t

(* Nor does anything compute it.                                           *)
LEMMA ConstNotComputed ==
  ASSUME IsProgram(prog), NEW p, IsWay(p), NEW n \in 1 .. Len(p), NEW i, NEW t, IsConst(t), NEW v
  PROVE  ~Computed(p, n, i, t, v)
<1> SUFFICES ASSUME Computed(p, n, i, t, v) PROVE FALSE
  OBVIOUS
<1>1. PICK m \in 1 .. n : \E j \in DOMAIN prog.code[p[m]] : t \in Range(prog.code[p[m]][j].out)
  BY DEF Computed
<1>2. PICK j \in DOMAIN prog.code[p[m]] : t \in Range(prog.code[p[m]][j].out)
  BY <1>1
<1> DEFINE inst == prog.code[p[m]][j]
<1>3. m \in 1 .. Len(p)
  BY WayFacts
<1>4. HasOperands(inst)
  <2>1. p[m] \in DOMAIN prog.code
    BY <1>3, WayFacts DEF Blocks
  <2> QED BY <2>1, ProgramFacts
<1> HIDE DEF inst
<1>5. PICK l \in DOMAIN inst.out : inst.out[l] = t
  BY <1>2 DEF Range, inst
<1> QED BY <1>4, <1>5 DEF HasOperands

(* What an operand of an arithmetic instruction folds to.                  *)
LEMMA OperandBound ==
  ASSUME IsProgram(prog), NEW tree, TreeOK(prog, tree), NEW x \in DOMAIN tree,
         NEW k \in DOMAIN tree[x].children, InstOf(prog, tree[x]).op # "ld",
         NEW f, \A c \in DOMAIN tree : f[c] \in FoldType,
         \A c \in Range(tree[x].children[k]) : BoundsNode(tree, f, c),
         IsConst(Operand(tree, x, k))
           \/ Reaching(prog, tree[x].node, tree[x].index, Operand(tree, x, k), {})
                \subseteq Branches(tree, x, k),
         FoldOperand(Operand(tree, x, k), FoldsAt(tree, f, x, k)).valid,
         NEW p, IsWay(p), NEW n \in 1 .. Len(p), p[n] = tree[x].node,
         NEW v \in Values(p, n, tree[x].index)[Operand(tree, x, k)]
  PROVE  LET o == FoldOperand(Operand(tree, x, k), FoldsAt(tree, f, x, k))
         IN  /\ o.value \in Int /\ v \in Int /\ o.value <= v
             /\ IsConst(Operand(tree, x, k)) => o.value = v
<1> DEFINE t == Operand(tree, x, k)
           i == tree[x].index
           C == Range(tree[x].children[k])
           folds == FoldsAt(tree, f, x, k)
           o == FoldOperand(t, folds)
           d == Deepest({g.value : g \in folds})
<1>1. /\ Len(tree) \in Nat /\ DOMAIN tree = 1 .. Len(tree)
      /\ tree[x].node \in DOMAIN prog.code /\ i \in DOMAIN prog.code[tree[x].node]
      /\ t \in Temps /\ C \subseteq DOMAIN tree
  BY TreeFacts DEF Operand, Inst, InstOf
<1>2. folds = {f[c] : c \in C}
  BY DEF FoldsAt
<1>3. folds \subseteq FoldType /\ IsFiniteSet(folds)
  <2> HIDE DEF C
  <2>1. {f[c] : c \in C} \subseteq FoldType /\ IsFiniteSet({f[c] : c \in C})
    BY <1>1, FoldsTyped
  <2> HIDE DEF folds
  <2> QED BY <1>2, <2>1
<1>4. d \in Int /\ d <= 0 /\ \A g \in folds : d <= g.value
  <2> HIDE DEF folds
  <2> QED BY <1>3, DeepestOf
<1>5. i \in 1 .. (Len(prog.code[p[n]]) + 1)
  <2>1. Len(prog.code[p[n]]) \in Nat /\ DOMAIN prog.code[p[n]] = 1 .. Len(prog.code[p[n]])
    BY <1>1, ProgramFacts
  <2> QED BY <1>1, <2>1
<1>6. Known(p, n, i, t, v)
  BY <1>1, <1>5, AllKnown
<1>7. v \in Int
  BY <1>1, <1>5, ValuesAre DEF ValueType
<1>8. o.valid
  OBVIOUS
<1> HIDE DEF t, i, folds, C
<1>9. CASE IsConst(t)
  <2>1. folds = {}
    <3>1. C = {}
      BY <1>9, ConstHasNone DEF C, t
    <3> QED BY <1>2, <3>1
  <2>2. v = ConstVal[t] /\ t \notin StackRegs /\ ConstVal[t] \in Int
    <3>1. ~Computed(p, n, i, t, v)
      BY <1>9, ConstNotComputed
    <3>2. v \in OnEntry[t]
      BY <1>6, <3>1 DEF Known
    <3>3. t \notin StackRegs /\ ConstVal[t] \in Int
      BY <1>9, FoldAssumption DEF IsConst
    <3> QED BY <1>1, <1>9, <3>2, <3>3, OnEntryTyped
  <2>3. o = Valid(ConstVal[t])
    BY <1>9, <2>1, <2>2 DEF FoldOperand
  <2>4. o.value = v
    BY <2>2, <2>3 DEF Valid
  <2> QED BY <1>7, <2>4 DEF t, folds
<1>10. CASE ~IsConst(t)
  <2>1. CASE v \in OnEntry[t]
    <3>1. v = 0 /\ t \in StackRegs
      BY <1>1, <1>10, <2>1, OnEntryTyped
    <3>2. CASE folds = {}
      <4>1. o = Valid(0)
        BY <1>10, <3>1, <3>2 DEF FoldOperand
      <4>2. o.value = 0
        BY <4>1 DEF Valid
      <4> QED BY <1>10, <3>1, <4>2 DEF t, folds
    <3>3. CASE folds # {}
      <4>1. o = Valid(d)
        BY <1>8, <3>3 DEF FoldOperand, Invalid
      <4>2. o.value = d
        BY <4>1 DEF Valid
      <4> HIDE DEF o, d
      <4>3. o.value \in Int /\ v \in Int /\ o.value <= v
        BY <1>4, <3>1, <4>2
      <4> QED BY <1>10, <4>3 DEF o, t, folds
    <3> QED BY <3>2, <3>3
  <2>2. CASE Computed(p, n, i, t, v)
    <3>1. PICK c \in C : f[c].valid => f[c].value <= v
      <4>1. Reaching(prog, tree[x].node, tree[x].index, Operand(tree, x, k), {})
              \subseteq Branches(tree, x, k)
        BY <1>10 DEF t
      <4> QED BY <2>2, <4>1, ComputedBelow DEF t, i, C
    <3>2. f[c] \in folds
      BY <1>2
    <3>3. folds # {}
      BY <3>2
    <3>4. o = Valid(d) /\ \A g \in folds : g.valid
      BY <1>8, <3>3 DEF FoldOperand, Invalid
    <3>5. o.value = d
      BY <3>4 DEF Valid
    <3>6. f[c].value <= v /\ f[c].value \in Int /\ d <= f[c].value
      BY <1>3, <1>4, <3>1, <3>2, <3>4 DEF FoldType
    <3> HIDE DEF o, d
    <3>7. o.value \in Int /\ v \in Int /\ o.value <= v
      <4> DEFINE fc == f[c].value
      <4>1. fc <= v /\ fc \in Int /\ d <= fc
        BY <3>6
      <4> HIDE DEF fc
      <4> QED BY <1>4, <1>7, <3>5, <4>1
    <3> QED BY <1>10, <3>7 DEF o, t, folds
  <2> QED BY <1>6, <2>1, <2>2 DEF Known
<1> QED BY <1>9, <1>10

(* A tree that has all definitions of the operands below its root.         *)
FullTree(tree) ==
  \A x \in 2 .. Len(tree) : \A k \in DOMAIN tree[x].children :
    \/ IsConst(Operand(tree, x, k))
    \/ Reaching(prog, tree[x].node, tree[x].index, Operand(tree, x, k), {})
         \subseteq Branches(tree, x, k)

LEMMA TreeLinked ==
  ASSUME IsProgram(prog), NEW tree, TreeOK(prog, tree)
  PROVE  Linked(prog.code, tree)
<1>1. ASSUME NEW x \in DOMAIN tree
      PROVE  LET inst == prog.code[tree[x].node][tree[x].index]
             IN  /\ HasOperands(inst) /\ Len(inst.in) \in Nat
                 /\ \A k \in 1 .. Len(inst.in) :
                      Range(tree[x].children[k]) \subseteq (x + 1) .. Len(tree)
  <2> DEFINE inst == prog.code[tree[x].node][tree[x].index]
  <2>1. HasOperands(inst) /\ Len(inst.in) \in Nat /\ DOMAIN inst.in = 1 .. Len(inst.in)
    <3>1. tree[x].node \in DOMAIN prog.code /\ tree[x].index \in DOMAIN prog.code[tree[x].node]
      BY TreeFacts
    <3> QED BY <3>1, InstructionFacts
  <2>2. DOMAIN tree[x].children = 1 .. Len(inst.in)
    <3>1. DOMAIN tree[x].children = DOMAIN InstOf(prog, tree[x]).in
      BY TreeFacts
    <3> QED BY <2>1, <3>1 DEF InstOf
  <2>3. \A k \in DOMAIN tree[x].children : LinkOK(prog, tree, x, k)
    BY TreeFacts
  <2> QED BY <2>1, <2>2, <2>3 DEF LinkOK
<1>2. Len(tree) \in Nat /\ DOMAIN tree = 1 .. Len(tree)
  BY TreeFacts
<1> QED BY <1>1, <1>2 DEF Linked

(* A node, when its children are bounded.                                  *)
LEMMA NodeBound ==
  ASSUME IsProgram(prog), Plain, NEW tree, TreeOK(prog, tree), FullTree(tree),
         NEW x \in 2 .. Len(tree),
         \A y \in (x + 1) .. Len(tree) : BoundsNode(tree, fold_add_sub(prog.code, tree), y)
  PROVE  BoundsNode(tree, fold_add_sub(prog.code, tree), x)
<1> DEFINE f == fold_add_sub(prog.code, tree)
           b == tree[x].node
           i == tree[x].index
           inst == InstOf(prog, tree[x])
<1>1. /\ Len(tree) \in Nat /\ DOMAIN tree = 1 .. Len(tree) /\ x \in DOMAIN tree
      /\ b \in Blocks /\ i \in DOMAIN prog.code[b]
      /\ DOMAIN tree[x].children = DOMAIN inst.in
  <2>1. Len(tree) \in Nat /\ DOMAIN tree = 1 .. Len(tree)
    BY TreeFacts
  <2>2. x \in DOMAIN tree
    BY <2>1
  <2> QED BY <2>1, <2>2, TreeFacts DEF Blocks
<1>2. inst = Inst(b, i) /\ HasOperands(inst) /\ DOMAIN inst.in = 1 .. Len(inst.in)
  <2>1. inst = prog.code[b][i]
    BY DEF InstOf
  <2> HIDE DEF inst, b, i
  <2>2. HasOperands(inst) /\ DOMAIN inst.in = 1 .. Len(inst.in)
    BY <1>1, <2>1, InstructionFacts DEF Blocks
  <2> QED BY <2>1, <2>2 DEF Inst
<1>3. /\ \A c \in DOMAIN tree : f[c] \in FoldType
      /\ f[x] = FoldBody(prog.code, tree, f, x)
  <2>1. Linked(prog.code, tree)
    BY TreeLinked
  <2>2. \A c \in DOMAIN tree : f[c] \in FoldType
    BY <2>1, FoldTyped
  <2>3. f = [y \in DOMAIN tree |-> FoldBody(prog.code, tree, f, y)]
    BY <2>1, FoldEquation
  <2>4. f[x] = FoldBody(prog.code, tree, f, x)
    <3> HIDE DEF f
    <3> QED BY <1>1, <2>3
  <2> QED BY <2>2, <2>4
<1> DEFINE left == FoldOperand(inst.in[1], FoldsAt(tree, f, x, 1))
           right == IF Len(inst.in) = 2 THEN FoldOperand(inst.in[2], FoldsAt(tree, f, x, 2))
                                        ELSE Valid(0)
<1> SUFFICES ASSUME f[x].valid,
                    NEW p \in Seq(Blocks), IsWay(p), NEW n \in 1 .. Len(p), p[n] = b,
                    NEW v \in Result(Values(p, n, i), inst)
             PROVE  f[x].value <= v
  BY DEF BoundsNode
<1>4. f[x] = IF inst.op \notin Arithmetic \/ ~left.valid \/ ~right.valid
             THEN Invalid
             ELSE Valid(IF inst.op = "sub" THEN left.value - right.value
                                           ELSE left.value + right.value)
  BY <1>3 DEF FoldBody, InstOf
<1> DEFINE val == Values(p, n, i)
<1>5. ASSUME NEW k \in DOMAIN inst.in, inst.op \in Arithmetic,
             FoldOperand(inst.in[k], FoldsAt(tree, f, x, k)).valid, NEW w \in val[inst.in[k]]
      PROVE  LET o == FoldOperand(inst.in[k], FoldsAt(tree, f, x, k))
             IN  /\ o.value \in Int /\ w \in Int /\ o.value <= w
                 /\ IsConst(inst.in[k]) => o.value = w
  <2>1. Operand(tree, x, k) = inst.in[k]
    BY DEF Operand, Inst, InstOf
  <2>2. k \in DOMAIN tree[x].children
    BY <1>1
  <2>3. \A c \in Range(tree[x].children[k]) : BoundsNode(tree, f, c)
    <3>1. Range(tree[x].children[k]) \subseteq (x + 1) .. Len(tree)
      BY <1>1, <2>2, TreeFacts DEF LinkOK
    <3> QED BY <3>1
  <2>4. inst.op # "ld"
    BY <1>5 DEF Arithmetic
  <2>5. IsConst(Operand(tree, x, k))
          \/ Reaching(prog, tree[x].node, tree[x].index, Operand(tree, x, k), {})
               \subseteq Branches(tree, x, k)
    BY <2>2 DEF FullTree
  <2>6. /\ FoldOperand(Operand(tree, x, k), FoldsAt(tree, f, x, k)).valid
        /\ w \in Values(p, n, tree[x].index)[Operand(tree, x, k)]
    BY <1>5, <2>1
  <2> HIDE DEF f
  <2>7. LET o == FoldOperand(Operand(tree, x, k), FoldsAt(tree, f, x, k))
        IN  /\ o.value \in Int /\ w \in Int /\ o.value <= w
            /\ IsConst(Operand(tree, x, k)) => o.value = w
    BY <1>1, <1>3, <2>2, <2>3, <2>4, <2>5, <2>6, OperandBound
  <2> QED BY <2>1, <2>7
<1> HIDE DEF f, val
<1>6. inst.op \in Arithmetic /\ left.valid /\ right.valid
  BY <1>4 DEF Invalid
<1>7. CASE inst.op = "mov"
  <2>1. Len(inst.in) = 1 /\ 1 \in DOMAIN inst.in
    <3>1. Len(inst.in) = 1
      BY <1>2, <1>7 DEF HasOperands
    <3>2. 1 \in 1 .. 1
      OBVIOUS
    <3> QED BY <1>2, <3>1, <3>2
  <2>2. v \in val[inst.in[1]]
    BY <1>7 DEF Result, val
  <2>3. left.value \in Int /\ v \in Int /\ left.value <= v
    BY <1>5, <1>6, <2>1, <2>2
  <2>4. right.value = 0
    BY <2>1 DEF Valid
  <2>5. f[x].value = left.value + right.value
    BY <1>4, <1>6, <1>7 DEF Valid
  <2> HIDE DEF left, right
  <2> QED BY <2>3, <2>4, <2>5
<1>8. CASE inst.op \in {"add", "sub"}
  <2>1. Len(inst.in) = 2 /\ 1 \in DOMAIN inst.in /\ 2 \in DOMAIN inst.in
    <3>1. Len(inst.in) = 2
      BY <1>2, <1>8 DEF HasOperands
    <3>2. 1 \in 1 .. 2 /\ 2 \in 1 .. 2
      OBVIOUS
    <3> QED BY <1>2, <3>1, <3>2
  <2>2. IsConst(inst.in[2])
    <3> HIDE DEF inst, b, i
    <3> QED BY <1>1, <1>2, <1>8 DEF Plain
  <2>3. right = FoldOperand(inst.in[2], FoldsAt(tree, f, x, 2))
    BY <2>1
  <2>4. PICK l \in val[inst.in[1]], r \in val[inst.in[2]] :
          v = IF inst.op = "sub" THEN l - r ELSE l + r
    <3>1. CASE inst.op = "add"
      <4>1. v \in {l + r : l \in val[inst.in[1]], r \in val[inst.in[2]]}
        BY <3>1 DEF Result, val
      <4> QED BY <3>1, <4>1
    <3>2. CASE inst.op = "sub"
      <4>1. v \in {l - r : l \in val[inst.in[1]], r \in val[inst.in[2]]}
        BY <3>2 DEF Result, val
      <4> QED BY <3>2, <4>1
    <3> QED BY <1>8, <3>1, <3>2
  <2>5. left.value \in Int /\ l \in Int /\ left.value <= l
    BY <1>5, <1>6, <2>1
  <2>6. right.value \in Int /\ r \in Int /\ right.value = r
    <3>1. FoldOperand(inst.in[2], FoldsAt(tree, f, x, 2)).valid
      BY <1>6, <2>3
    <3> HIDE DEF right
    <3> QED BY <1>5, <1>6, <2>1, <2>2, <2>3, <3>1
  <2>7. f[x].value = IF inst.op = "sub" THEN left.value - right.value ELSE left.value + right.value
    BY <1>4, <1>6 DEF Valid
  <2> HIDE DEF left, right, inst
  <2> QED BY <2>4, <2>5, <2>6, <2>7
<1> QED BY <1>6, <1>7, <1>8 DEF Arithmetic

LEMMA NodesBound ==
  ASSUME IsProgram(prog), Plain, NEW tree, TreeOK(prog, tree), FullTree(tree)
  PROVE  \A x \in 2 .. Len(tree) : BoundsNode(tree, fold_add_sub(prog.code, tree), x)
<1> DEFINE L == Len(tree)
           OK(x) == BoundsNode(tree, fold_add_sub(prog.code, tree), x)
           T == {n \in Nat : L - n \in 2 .. L /\ ~OK(L - n)}
<1>1. L \in Nat
  BY TreeFacts
<1>2. \A x \in 2 .. L : (\A y \in (x + 1) .. L : OK(y)) => OK(x)
  BY NodeBound
<1> HIDE DEF OK, L
<1>3. T = {}
  <2> SUFFICES ASSUME T # {} PROVE FALSE
    OBVIOUS
  <2>1. PICK n \in T : \A m \in T : n <= m
    <3>1. T \subseteq Nat
      OBVIOUS
    <3> HIDE DEF T
    <3> QED BY <3>1, NatMin
  <2>2. n \in Nat /\ L - n \in 2 .. L /\ ~OK(L - n)
    OBVIOUS
  <2>3. ASSUME NEW y \in (L - n + 1) .. L PROVE OK(y)
    <3>1. L - y \in Nat /\ ~(n <= L - y) /\ L - (L - y) = y /\ y \in 2 .. L
      BY <1>1, <2>2
    <3>2. L - y \notin T
      <4> HIDE DEF T
      <4> QED BY <2>1, <3>1
    <3> QED BY <3>1, <3>2
  <2> QED BY <1>2, <2>2, <2>3
<1>4. ASSUME NEW x \in 2 .. L PROVE OK(x)
  <2>1. L - x \in Nat /\ L - (L - x) = x
    BY <1>1
  <2>2. L - x \notin T
    BY <1>3
  <2> QED BY <2>1, <2>2
<1> QED BY <1>4 DEF OK, L

(* The address of a load or a store, when its search is complete.          *)
LEMMA AddressBound ==
  ASSUME IsProgram(prog), Plain, NEW tree, TreeOK(prog, tree), FullTree(tree),
         NEW arg \in DOMAIN tree[1].children, ~IsConst(Operand(tree, 1, arg)),
         Reaching(prog, tree[1].node, tree[1].index, Operand(tree, 1, arg), {})
           \subseteq Branches(tree, 1, arg),
         fold_ld_st_stack_pointer(prog.code, tree, arg).valid,
         NEW p, IsWay(p), p[Len(p)] = tree[1].node,
         NEW v \in Values(p, Len(p), tree[1].index)[Operand(tree, 1, arg)]
  PROVE  fold_ld_st_stack_pointer(prog.code, tree, arg).value >= -v
<1> DEFINE f == fold_add_sub(prog.code, tree)
           t == Operand(tree, 1, arg)
           i == tree[1].index
           C == Range(tree[1].children[arg])
           folds == {f[c] : c \in C}
           d == Deepest({g.value : g \in folds})
           o == fold_ld_st_stack_pointer(prog.code, tree, arg)
<1>1. /\ Len(tree) \in Nat /\ DOMAIN tree = 1 .. Len(tree) /\ 1 \in DOMAIN tree
      /\ tree[1].node \in DOMAIN prog.code /\ i \in DOMAIN prog.code[tree[1].node]
      /\ DOMAIN tree[1].children = DOMAIN InstOf(prog, tree[1]).in
      /\ InstOf(prog, tree[1]) \in Instruction /\ LinkOK(prog, tree, 1, arg)
  BY TreeFacts
<1>2. t \in Temps /\ C \subseteq 2 .. Len(tree)
  <2>1. t \in Temps
    <3>1. t = InstOf(prog, tree[1]).in[arg] /\ arg \in DOMAIN InstOf(prog, tree[1]).in
      BY <1>1 DEF Operand, Inst, InstOf
    <3>2. InstOf(prog, tree[1]).in \in Seq(Temps)
      BY <1>1 DEF Instruction
    <3> HIDE DEF t
    <3> QED BY <3>1, <3>2, ElementOfSeq
  <2>2. C \subseteq (1 + 1) .. Len(tree)
    BY <1>1 DEF LinkOK
  <2> QED BY <2>1, <2>2
<1>3. \A c \in DOMAIN tree : f[c] \in FoldType
  BY TreeLinked, FoldTyped
<1>4. \A c \in C : BoundsNode(tree, f, c)
  BY <1>2, NodesBound
<1>5. Len(p) \in Nat /\ Len(p) \in 1 .. Len(p) /\ IsWay(p)
  BY WayFacts
<1>6. Known(p, Len(p), i, t, v)
  <2>1. Len(prog.code[p[Len(p)]]) \in Nat
        /\ DOMAIN prog.code[p[Len(p)]] = 1 .. Len(prog.code[p[Len(p)]])
    BY <1>1, ProgramFacts
  <2>2. i \in 1 .. (Len(prog.code[p[Len(p)]]) + 1)
    BY <1>1, <2>1
  <2> QED BY <1>2, <1>5, <2>2, AllKnown
<1>7. v \in OnEntry[t] => v = 0
  BY <1>2, OnEntryTyped
<1>8. Computed(p, Len(p), i, t, v) => \E c \in C : f[c].valid => f[c].value <= v
  <2> HIDE DEF f
  <2> QED BY <1>1, <1>4, <1>5, ComputedBelow
<1>9. v \in Int
  <2>1. Len(prog.code[p[Len(p)]]) \in Nat
        /\ DOMAIN prog.code[p[Len(p)]] = 1 .. Len(prog.code[p[Len(p)]])
    BY <1>1, ProgramFacts
  <2>2. i \in 1 .. (Len(prog.code[p[Len(p)]]) + 1)
    BY <1>1, <2>1
  <2> QED BY <1>2, <1>5, <2>2, ValuesAre DEF ValueType
<1>10. (\A g \in folds : g.valid) /\ o.value = -d
  <2>1. o = IF \A g \in folds : g.valid THEN Valid(-d) ELSE Invalid
    BY DEF fold_ld_st_stack_pointer
  <2> HIDE DEF folds, d
  <2>2. o.valid
    OBVIOUS
  <2> HIDE DEF o
  <2> QED BY <2>1, <2>2 DEF Valid, Invalid
<1>11. folds \subseteq FoldType /\ IsFiniteSet(folds)
  <2>1. C \subseteq DOMAIN tree
    BY <1>1, <1>2
  <2> HIDE DEF f, C
  <2> QED BY <1>1, <1>3, <2>1, FoldsTyped
<1>12. d \in Int /\ d <= 0 /\ \A g \in folds : d <= g.value
  <2> HIDE DEF folds
  <2> QED BY <1>11, DeepestOf
<1>13. d <= v
  <2>1. CASE v \in OnEntry[t]
    <3> HIDE DEF d, t
    <3> QED BY <1>7, <1>12, <2>1
  <2>2. CASE Computed(p, Len(p), i, t, v)
    <3>1. PICK c \in C : f[c].valid => f[c].value <= v
      BY <1>8, <2>2
    <3>2. f[c] \in folds
      OBVIOUS
    <3> DEFINE w == f[c].value
    <3>3. w <= v /\ w \in Int /\ d <= w
      BY <1>10, <1>11, <1>12, <3>1, <3>2 DEF FoldType
    <3> HIDE DEF w, d
    <3> QED BY <1>9, <1>12, <3>3
  <2> HIDE DEF d, t, i
  <2> QED BY <1>6, <2>1, <2>2 DEF Known
<1> HIDE DEF d, o
<1>14. o.value >= -v
  BY <1>9, <1>10, <1>12, <1>13
<1> QED BY <1>14 DEF o

-----------------------------------------------------------------------------
(* What routes, ways from the entry, carry.                                *)

LEMMA UpTo ==
  ASSUME NEW n \in Nat, NEW k \in Nat, NEW G, k \in G, \A i \in k .. n : i \in G => i + 1 \in G
  PROVE  k .. (n + 1) \subseteq G
<1> DEFINE T == {i \in k .. (n + 1) : i \notin G}
<1>1. T = {}
  <2> SUFFICES ASSUME T # {} PROVE FALSE
    OBVIOUS
  <2>1. PICK i \in T : \A y \in T : i <= y
    <3>1. T \subseteq Nat
      OBVIOUS
    <3> HIDE DEF T
    <3> QED BY <3>1, NatMin
  <2>2. i \in k .. (n + 1) /\ i \notin G
    OBVIOUS
  <2>3. i # k
    BY <2>2
  <2>4. i - 1 \in k .. n /\ i - 1 \in k .. (n + 1) /\ (i - 1) + 1 = i /\ ~(i <= i - 1)
    BY <2>2, <2>3
  <2>5. i - 1 \in G
    <3>1. i - 1 \notin T
      <4> HIDE DEF T
      <4> QED BY <2>1, <2>4
    <3> QED BY <2>4, <3>1
  <2> QED BY <2>2, <2>4, <2>5
<1> QED BY <1>1

(* A definition hides all earlier ones.                                    *)
LEMMA WrittenAt ==
  ASSUME IsProgram(prog), NEW b \in Blocks, NEW i \in 1 .. Len(prog.code[b]), NEW t,
         t \in Range(prog.code[b][i].out)
  PROVE  Reaching(prog, b, i + 1, t, {}) = {<<b, i>>}
<1> DEFINE N == Len(prog.code[b])
           W == Before(prog, b, i + 1, t)
<1>1. N \in Nat /\ DOMAIN prog.code[b] = 1 .. N
  BY ProgramFacts DEF Blocks
<1>2. W \subseteq 0 .. N /\ \A j \in W : j < i + 1
  BY <1>1 DEF Before, WritersOf
<1>3. i \in W /\ i \in Nat
  <2>1. i \in DOMAIN prog.code[b] /\ i < i + 1 /\ i \in Nat
    BY <1>1
  <2> QED BY <2>1 DEF Before, WritersOf
<1>4. Max(W) = i
  <2> HIDE DEF W, N
  <2>1. Max(W) \in W /\ Max(W) >= i
    BY <1>1, <1>2, <1>3, MaxOfBounded
  <2>2. Max(W) < i + 1
    BY <1>2, <2>1
  <2>3. Max(W) \in 0 .. N
    BY <1>2, <2>1
  <2>4. Max(W) \in Nat
    BY <1>1, <2>3
  <2> QED BY <1>3, <2>1, <2>2, <2>4
<1>5. W # {}
  BY <1>3
<1>6. Reaching(prog, b, i + 1, t, {}) = {<<b, Max(W)>>}
  BY <1>5 DEF Reaching
<1> HIDE DEF W
<1> QED BY <1>4, <1>6

LEMMA UnwrittenAt ==
  ASSUME IsProgram(prog), NEW b \in Blocks, NEW i \in 1 .. Len(prog.code[b]), NEW t,
         t \notin Range(prog.code[b][i].out)
  PROVE  Reaching(prog, b, i + 1, t, {}) = Reaching(prog, b, i, t, {})
<1> DEFINE N == Len(prog.code[b])
<1>1. N \in Nat /\ DOMAIN prog.code[b] = 1 .. N
  BY ProgramFacts DEF Blocks
<1>2. \A j \in 1 .. N : j # i => (j < i + 1 <=> j < i)
  BY <1>1
<1>3. WritersOf(prog, b, t) \subseteq 1 .. N /\ i \notin WritersOf(prog, b, t)
  BY <1>1 DEF WritersOf
<1>4. Before(prog, b, i + 1, t) = Before(prog, b, i, t)
  BY <1>2, <1>3 DEF Before
<1> QED BY <1>4 DEF Reaching

LEMMA FromPred ==
  ASSUME IsProgram(prog), NEW b \in Blocks, NEW m \in Range(prog.pred[b]), NEW t
  PROVE  /\ m \in Blocks /\ Before(prog, b, 1, t) = {}
         /\ Reaching(prog, m, Len(prog.code[m]) + 1, t, {}) \subseteq Reaching(prog, b, 1, t, {})
<1>1. b \in DOMAIN prog.code /\ m \in DOMAIN prog.code /\ m \in Blocks
  BY ProgramFacts DEF Blocks
<1>2. Before(prog, b, 1, t) = {}
  <2>1. DOMAIN prog.code[b] \subseteq Nat \ {0}
    <3>1. DOMAIN prog.code[b] = 1 .. Len(prog.code[b]) /\ Len(prog.code[b]) \in Nat
      BY <1>1, ProgramFacts
    <3> QED BY <3>1
  <2> QED BY <2>1 DEF Before, WritersOf
<1> QED BY <1>1, <1>2, PredSound

(* A temp without a definition that reaches has the value it had on entry. *)
IsRoute(p) == IsWay(p) /\ p[1] = 1

LEMMA Unwritten ==
  ASSUME IsProgram(prog), NEW p, IsWay(p), NEW t \in Temps
  PROVE  \A n \in 1 .. Len(p) : \A i \in 1 .. (Len(prog.code[p[n]]) + 1) :
           Reaching(prog, p[n], i, t, {}) = {} => Values(p, n, i)[t] = OnEntry[t]
<1> DEFINE L == Len(p)
           N(n) == Len(prog.code[p[n]])
           OK(n, i) == Reaching(prog, p[n], i, t, {}) = {} => Values(p, n, i)[t] = OnEntry[t]
<1>1. L \in Nat /\ \A n \in 1 .. L : p[n] \in Blocks
  BY WayFacts
<1>2. \A n \in 1 .. L : N(n) \in Nat /\ DOMAIN prog.code[p[n]] = 1 .. N(n)
  BY <1>1, ProgramFacts DEF Blocks
<1>3. ASSUME NEW n \in 1 .. L, NEW i \in 1 .. N(n), OK(n, i) PROVE OK(n, i + 1)
  <2>1. i \in 1 .. (N(n) + 1) /\ i \in DOMAIN prog.code[p[n]] /\ p[n] \in Blocks
    BY <1>1, <1>2
  <2> DEFINE val == Values(p, n, i)
             inst == prog.code[p[n]][i]
  <2>2. val \in ValueType /\ Values(p, n, i + 1) = Execute(val, <<p[n], i>>)
    BY <2>1, ValuesAre
  <2>3. Values(p, n, i + 1)[t] = IF t \in Range(inst.out) THEN Result(val, inst) ELSE val[t]
    <3> HIDE DEF val
    <3> QED BY <2>1, <2>2, ExecuteTyped
  <2>4. CASE t \in Range(inst.out)
    BY <2>1, <2>4, WrittenAt
  <2>5. CASE t \notin Range(inst.out)
    <3>1. Reaching(prog, p[n], i + 1, t, {}) = Reaching(prog, p[n], i, t, {})
      BY <2>1, <2>5, UnwrittenAt
    <3> QED BY <1>3, <2>3, <2>5, <3>1
  <2> QED BY <2>4, <2>5
<1>4. ASSUME NEW n \in 1 .. L, OK(n, 1) PROVE \A i \in 1 .. (N(n) + 1) : OK(n, i)
  <2> DEFINE G == {i \in Nat : OK(n, i)}
  <2>1. 1 \in G /\ N(n) \in Nat
    BY <1>2, <1>4
  <2>2. \A i \in 1 .. N(n) : i \in G => i + 1 \in G
    <3> HIDE DEF OK, N
    <3> QED BY <1>3
  <2>3. 1 .. (N(n) + 1) \subseteq G
    <3> HIDE DEF G, N
    <3> QED BY <2>1, <2>2, UpTo
  <2> HIDE DEF OK, N
  <2> QED BY <2>3
<1>5. L >= 1 => OK(1, 1)
  <2>1. L >= 1 => Values(p, 1, 1) = OnEntry
    <3>1. L >= 1 => 1 \in 1 .. Len(p)
      BY <1>1
    <3> QED BY <3>1, ValuesAre
  <2> QED BY <2>1
<1>6. ASSUME NEW n \in 1 .. L, n # 1, OK(n - 1, N(n - 1) + 1) PROVE OK(n, 1)
  <2>1. n - 1 \in 1 .. L /\ n \in 2 .. L
    BY <1>1, <1>6
  <2>2. Values(p, n, 1) = Values(p, n - 1, N(n - 1) + 1)
    BY <1>6, ValuesAre
  <2>3. p[n - 1] \in Range(prog.pred[p[n]]) /\ p[n] \in Blocks
    BY <1>1, <2>1 DEF IsWay
  <2>4. Reaching(prog, p[n - 1], N(n - 1) + 1, t, {}) \subseteq Reaching(prog, p[n], 1, t, {})
    BY <2>3, FromPred
  <2> HIDE DEF N
  <2> QED BY <1>6, <2>2, <2>4
<1> DEFINE All(n) == \A i \in 1 .. (N(n) + 1) : OK(n, i)
           G == {n \in 1 .. L : All(n)}
<1>7. ASSUME NEW n \in 1 .. (L - 1), n \in G PROVE n + 1 \in G
  <2>1. n + 1 \in 1 .. L /\ n + 1 # 1 /\ (n + 1) - 1 = n /\ n \in 1 .. L
    BY <1>1
  <2>2. OK(n, N(n) + 1)
    <3>1. N(n) + 1 \in 1 .. (N(n) + 1)
      <4>1. N(n) \in Nat
        BY <1>2, <2>1
      <4> HIDE DEF N
      <4> QED BY <4>1
    <3>2. All(n)
      BY <1>7
    <3> HIDE DEF OK, N
    <3> QED BY <3>1, <3>2
  <2> HIDE DEF OK, N
  <2>3. OK(n + 1, 1)
    BY <1>6, <2>1, <2>2
  <2> QED BY <1>4, <2>1, <2>3
<1>8. ASSUME NEW n \in 1 .. L PROVE All(n)
  <2>1. 1 \in G
    <3> HIDE DEF OK, N
    <3> QED BY <1>1, <1>4, <1>5, <1>8
  <2>2. L - 1 \in Nat /\ (L - 1) + 1 = L
    BY <1>1, <1>8
  <2>3. 1 .. ((L - 1) + 1) \subseteq G
    <3> HIDE DEF G, L
    <3> QED BY <1>7, <2>1, <2>2, UpTo
  <2> HIDE DEF All
  <2> QED BY <2>2, <2>3
<1> QED BY <1>8

(* Ways that agree at first.                                               *)
LEMMA SameValues ==
  ASSUME IsProgram(prog), NEW p, IsWay(p), NEW r, IsWay(r), NEW k \in 1 .. Len(p), k <= Len(r),
         \A n \in 1 .. k : p[n] = r[n]
  PROVE  \A n \in 1 .. k : \A i : Values(p, n, i) = Values(r, n, i)
<1>1. Len(p) \in Nat /\ Len(r) \in Nat /\ k \in Nat /\ k >= 1
  BY WayFacts
<1> DEFINE G == {n \in Nat : Run(p)[n] = Run(r)[n]}
<1>2. 0 \in G
  BY RunIs
<1>3. ASSUME NEW n \in 0 .. (k - 1), n \in G PROVE n + 1 \in G
  <2>1. n + 1 \in 1 .. Len(p) /\ n + 1 \in 1 .. Len(r) /\ n + 1 \in 1 .. k /\ (n + 1) - 1 = n
    BY <1>1
  <2>2. /\ Run(p)[n + 1] = Within(Run(p)[(n + 1) - 1], p[n + 1])[Len(prog.code[p[n + 1]])]
        /\ Run(r)[n + 1] = Within(Run(r)[(n + 1) - 1], r[n + 1])[Len(prog.code[r[n + 1]])]
    BY <2>1, RunIs
  <2>3. Run(p)[n] = Run(r)[n] /\ p[n + 1] = r[n + 1]
    BY <1>3, <2>1
  <2>4. n + 1 \in Nat
    BY <2>1
  <2> QED BY <2>1, <2>2, <2>3, <2>4
<1>4. 0 .. ((k - 1) + 1) \subseteq G
  <2>1. k - 1 \in Nat /\ 0 \in Nat
    BY <1>1
  <2> HIDE DEF G
  <2> QED BY <1>2, <1>3, <2>1, UpTo
<1>5. ASSUME NEW n \in 1 .. k, NEW i PROVE Values(p, n, i) = Values(r, n, i)
  <2>1. n - 1 \in 0 .. ((k - 1) + 1)
    BY <1>1
  <2>2. Run(p)[n - 1] = Run(r)[n - 1] /\ p[n] = r[n]
    BY <1>4, <2>1
  <2> QED BY <2>2 DEF Values
<1> QED BY <1>5

LEMMA AppendWay ==
  ASSUME NEW p, IsWay(p), NEW b \in Blocks, p[Len(p)] \in Range(prog.pred[b])
  PROVE  LET r == Append(p, b)
         IN  /\ IsWay(r) /\ Len(r) = Len(p) + 1 /\ r[Len(r)] = b
             /\ \A n \in 1 .. Len(p) : r[n] = p[n]
<1> DEFINE r == Append(p, b)
<1>1. Len(p) \in Nat \ {0} /\ p \in Seq(Blocks)
  BY WayFacts DEF IsWay
<1>2. /\ r \in Seq(Blocks) /\ Len(r) = Len(p) + 1 /\ r[Len(p) + 1] = b
      /\ \A n \in 1 .. Len(p) : r[n] = p[n]
  BY <1>1, AppendProperties
<1> HIDE DEF r
<1>3. ASSUME NEW j \in 2 .. Len(r) PROVE r[j - 1] \in Range(prog.pred[r[j]])
  <2>1. CASE j = Len(p) + 1
    <3>1. j - 1 = Len(p) /\ j - 1 \in 1 .. Len(p)
      BY <1>1, <2>1
    <3> QED BY <1>2, <2>1, <3>1
  <2>2. CASE j # Len(p) + 1
    <3>1. j \in 2 .. Len(p) /\ j \in 1 .. Len(p) /\ j - 1 \in 1 .. Len(p)
      BY <1>1, <1>2, <2>2
    <3> QED BY <1>2, <3>1 DEF IsWay
  <2> QED BY <2>1, <2>2
<1>4. IsWay(r)
  BY <1>1, <1>2, <1>3 DEF IsWay
<1> QED BY <1>1, <1>2, <1>4 DEF r

(* Some route leaves A in temp t at position i of block b.                 *)
Carries(b, i, t, A) ==
  \E r \in Seq(Blocks) : IsRoute(r) /\ r[Len(r)] = b /\ Values(r, Len(r), i)[t] = A

LEMMA CarryOver ==
  ASSUME IsProgram(prog), NEW b \in Blocks, NEW i \in 1 .. Len(prog.code[b]), NEW t \in Temps,
         t \notin Range(prog.code[b][i].out), NEW A, Carries(b, i, t, A)
  PROVE  Carries(b, i + 1, t, A)
<1>1. PICK r \in Seq(Blocks) : IsRoute(r) /\ r[Len(r)] = b /\ Values(r, Len(r), i)[t] = A
  BY DEF Carries
<1> DEFINE n == Len(r)
           val == Values(r, n, i)
<1>2. IsWay(r) /\ n \in 1 .. Len(r)
  BY <1>1, WayFacts DEF IsRoute
<1>3. Len(prog.code[b]) \in Nat /\ DOMAIN prog.code[b] = 1 .. Len(prog.code[b])
  BY ProgramFacts DEF Blocks
<1>4. i \in 1 .. (Len(prog.code[b]) + 1) /\ i \in DOMAIN prog.code[b]
  BY <1>3
<1>5. val \in ValueType /\ Values(r, n, i + 1) = Execute(val, <<b, i>>)
  BY <1>1, <1>2, <1>4, ValuesAre
<1>6. Values(r, n, i + 1)[t] = val[t]
  <2> HIDE DEF val
  <2> QED BY <1>4, <1>5, ExecuteTyped
<1> QED BY <1>1, <1>6 DEF Carries

LEMMA CarryWithin ==
  ASSUME IsProgram(prog), NEW b \in Blocks, NEW t \in Temps, NEW A,
         NEW i \in 1 .. (Len(prog.code[b]) + 1), NEW j \in i .. (Len(prog.code[b]) + 1),
         \A l \in i .. (j - 1) : l \notin WritersOf(prog, b, t),
         Carries(b, i, t, A)
  PROVE  Carries(b, j, t, A)
<1> DEFINE N == Len(prog.code[b])
           G == {l \in Nat : Carries(b, l, t, A)}
<1>1. N \in Nat /\ DOMAIN prog.code[b] = 1 .. N
  BY ProgramFacts DEF Blocks
<1>2. i \in Nat /\ j \in Nat /\ i >= 1 /\ i <= j /\ j <= N + 1
  BY <1>1
<1>3. ASSUME NEW l \in i .. (j - 1), l \in G PROVE l + 1 \in G
  <2>1. l \in 1 .. N /\ l \in DOMAIN prog.code[b] /\ l + 1 \in Nat
    <3> HIDE DEF N
    <3> QED BY <1>1, <1>2
  <2>2. t \notin Range(prog.code[b][l].out)
    BY <2>1 DEF WritersOf
  <2>3. Carries(b, l + 1, t, A)
    BY <1>3, <2>1, <2>2, CarryOver
  <2> QED BY <2>1, <2>3
<1>4. i .. ((j - 1) + 1) \subseteq G
  <2>1. i \in G /\ j - 1 \in Nat
    BY <1>2
  <2> HIDE DEF G
  <2> QED BY <1>2, <1>3, <2>1, UpTo
<1>5. j \in i .. ((j - 1) + 1)
  BY <1>2
<1> QED BY <1>4, <1>5

LEMMA CarryFromPred ==
  ASSUME IsProgram(prog), NEW b \in Blocks, NEW m \in Range(prog.pred[b]), NEW t, NEW A,
         Carries(m, Len(prog.code[m]) + 1, t, A)
  PROVE  Carries(b, 1, t, A)
<1> DEFINE e == Len(prog.code[m]) + 1
<1>1. PICK p \in Seq(Blocks) : IsRoute(p) /\ p[Len(p)] = m /\ Values(p, Len(p), e)[t] = A
  BY DEF Carries
<1> DEFINE r == Append(p, b)
<1>2. IsWay(p) /\ p[1] = 1 /\ Len(p) \in Nat \ {0}
  BY <1>1, WayFacts DEF IsRoute
<1>3. IsWay(r) /\ Len(r) = Len(p) + 1 /\ r[Len(r)] = b /\ \A n \in 1 .. Len(p) : r[n] = p[n]
  BY <1>1, <1>2, AppendWay
<1> HIDE DEF r
<1>4. /\ Len(p) \in 1 .. Len(p) /\ Len(p) <= Len(r) /\ 1 \in 1 .. Len(p)
      /\ Len(r) # 1 /\ Len(r) - 1 = Len(p) /\ Len(r) \in 1 .. Len(r)
  BY <1>2, <1>3
<1>5. IsRoute(r)
  BY <1>2, <1>3, <1>4 DEF IsRoute
<1>6. Values(r, Len(r), 1) = Values(r, Len(p), e)
  <2>1. r[Len(r) - 1] = m
    BY <1>1, <1>3, <1>4
  <2> QED BY <1>3, <1>4, <2>1, ValuesAre
<1>7. \A i : Values(p, Len(p), i) = Values(r, Len(p), i)
  BY <1>2, <1>3, <1>4, SameValues
<1>8. Values(r, Len(r), 1)[t] = A
  BY <1>1, <1>6, <1>7
<1>9. r \in Seq(Blocks)
  BY <1>3 DEF IsWay
<1> QED BY <1>3, <1>5, <1>8, <1>9 DEF Carries

LEMMA CarryThrough ==
  ASSUME IsProgram(prog), NEW b \in Blocks, NEW t \in Temps, NEW A,
         NEW m \in Through(prog, b, t, {}), Carries(m, Len(prog.code[m]) + 1, t, A)
  PROVE  Carries(b, 1, t, A)
<1> DEFINE End(x) == Len(prog.code[x]) + 1
           S == {x \in DOMAIN prog.code : Carries(x, End(x), t, A) => Carries(b, 1, t, A)}
<1>1. Range(prog.pred[b]) \subseteq S
  <2>1. Range(prog.pred[b]) \subseteq DOMAIN prog.code
    BY ProgramFacts DEF Blocks
  <2> QED BY <2>1, CarryFromPred
<1>2. ASSUME NEW x \in S, WritersOf(prog, x, t) = {} PROVE Range(prog.pred[x]) \subseteq S
  <2>1. x \in Blocks /\ Range(prog.pred[x]) \subseteq DOMAIN prog.code /\ Len(prog.code[x]) \in Nat
    BY ProgramFacts DEF Blocks
  <2>2. ASSUME NEW y \in Range(prog.pred[x]), Carries(y, End(y), t, A) PROVE Carries(b, 1, t, A)
    <3>1. Carries(x, 1, t, A)
      BY <2>1, <2>2, CarryFromPred
    <3>2. 1 \in 1 .. (Len(prog.code[x]) + 1) /\ End(x) \in 1 .. (Len(prog.code[x]) + 1)
      BY <2>1
    <3>3. Carries(x, End(x), t, A)
      <4> HIDE DEF End
      <4> QED BY <1>2, <2>1, <3>1, <3>2, CarryWithin
    <3> QED BY <3>3
  <2> HIDE DEF End
  <2> QED BY <2>1, <2>2
<1>3. Closed(prog, b, t, {}, S)
  <2> HIDE DEF S
  <2> QED BY <1>1, <1>2 DEF Closed
<1>4. m \in S
  <2>1. S \in SUBSET DOMAIN prog.code
    OBVIOUS
  <2> HIDE DEF S
  <2> QED BY <1>3, <2>1 DEF Through
<1> QED BY <1>4

(* What a definition that reaches leaves arrives on some route.            *)
LEMMA DefinitionArrives ==
  ASSUME IsProgram(prog), NEW b \in Blocks, NEW i \in 1 .. (Len(prog.code[b]) + 1),
         NEW t \in Temps, NEW m, NEW j, <<m, j>> \in Reaching(prog, b, i, t, {}), NEW A,
         Carries(m, j + 1, t, A)
  PROVE  Carries(b, i, t, A)
<1> DEFINE W == Before(prog, b, i, t)
<1>1. Len(prog.code[b]) \in Nat /\ DOMAIN prog.code[b] = 1 .. Len(prog.code[b])
  BY ProgramFacts DEF Blocks
<1>2. WritersOf(prog, b, t) \subseteq 1 .. Len(prog.code[b])
  BY <1>1 DEF WritersOf
<1>3. CASE W # {}
  <2>1. m = b /\ j = Max(W)
    BY <1>3 DEF Reaching
  <2>2. W \subseteq 0 .. Len(prog.code[b])
    BY <1>2 DEF Before
  <2>3. j \in W /\ \A y \in W : j >= y
    <3> HIDE DEF W
    <3> QED BY <1>1, <1>3, <2>1, <2>2, MaxOfBounded
  <2>4. j \in 1 .. Len(prog.code[b]) /\ j < i
    BY <1>2, <2>3 DEF Before
  <2>5. j + 1 \in 1 .. (Len(prog.code[b]) + 1) /\ i \in (j + 1) .. (Len(prog.code[b]) + 1)
    BY <1>1, <2>4
  <2>6. ASSUME NEW l \in (j + 1) .. (i - 1) PROVE l \notin WritersOf(prog, b, t)
    <3>1. l < i /\ ~(j >= l)
      BY <1>1, <2>4
    <3>2. l \notin W
      BY <2>3, <3>1
    <3> QED BY <3>1, <3>2 DEF Before
  <2> QED BY <2>1, <2>5, <2>6, CarryWithin
<1>4. CASE W = {}
  <2>1. PICK x \in Through(prog, b, t, {}) :
          WritersOf(prog, x, t) # {} /\ <<m, j>> = <<x, Max(WritersOf(prog, x, t))>>
    BY <1>4 DEF Reaching, LastWriters
  <2> DEFINE V == WritersOf(prog, m, t)
             N == Len(prog.code[m])
  <2>2. m = x /\ j = Max(V) /\ V # {} /\ m \in Blocks
    BY <2>1 DEF Through, Blocks
  <2>3. N \in Nat /\ V \subseteq 1 .. N
    <3>1. N \in Nat /\ DOMAIN prog.code[m] = 1 .. N
      BY <2>2, ProgramFacts DEF Blocks
    <3> QED BY <3>1 DEF WritersOf
  <2>4. j \in V /\ \A y \in V : j >= y
    <3> HIDE DEF V, N
    <3>1. V \subseteq 0 .. N
      BY <2>3
    <3> QED BY <2>2, <2>3, <3>1, MaxOfBounded
  <2>5. j + 1 \in 1 .. (N + 1) /\ N + 1 \in (j + 1) .. (N + 1)
    <3> HIDE DEF V, N
    <3> QED BY <2>3, <2>4
  <2>6. ASSUME NEW l \in (j + 1) .. ((N + 1) - 1) PROVE l \notin V
    <3>1. ~(j >= l)
      <4> HIDE DEF V, N
      <4> QED BY <2>3, <2>4
    <3> QED BY <2>4, <3>1
  <2>7. Carries(m, N + 1, t, A)
    BY <2>2, <2>5, <2>6, CarryWithin
  <2>8. Carries(b, 1, t, A)
    BY <2>1, <2>2, <2>7, CarryThrough
  <2>9. 1 \in 1 .. (Len(prog.code[b]) + 1) /\ i \in 1 .. (Len(prog.code[b]) + 1)
    BY <1>1
  <2>10. ASSUME NEW l \in 1 .. (i - 1) PROVE l \notin WritersOf(prog, b, t)
    <3>1. l < i
      BY <1>1
    <3> QED BY <1>4, <3>1 DEF Before
  <2> QED BY <2>8, <2>9, <2>10, CarryWithin
<1> QED BY <1>3, <1>4

-----------------------------------------------------------------------------
(* Without loops, routes are the paths.                                    *)

LEMMA BlocksFinite ==
  ASSUME IsProgram(prog)
  PROVE  Blocks \subseteq Nat /\ IsFiniteSet(Blocks) /\ Cardinality(Blocks) \in Nat
<1>1. prog.code \in Seq(Seq(Instruction))
  BY DEF IsProgram
<1>2. Len(prog.code) \in Nat /\ Blocks = 1 .. Len(prog.code)
  BY <1>1, LenProperties DEF Blocks
<1> DEFINE n == Len(prog.code)
<1>3. n \in Int /\ 1 \in Int
  BY <1>2
<1> HIDE DEF n
<1>4. IsFiniteSet(1 .. n)
  BY ONLY <1>3, FS_Interval
<1>5. IsFiniteSet(Blocks)
  BY <1>2, <1>4 DEF n
<1> QED BY <1>2, <1>5, FS_CardinalityType

LEMMA WayTurnsNot ==
  ASSUME IsProgram(prog), Acyclic, NEW p, IsWay(p), NEW a \in 1 .. Len(p), NEW c \in (a + 1) .. Len(p)
  PROVE  p[a] # p[c]
<1> SUFFICES ASSUME p[a] = p[c] PROVE FALSE
  OBVIOUS
<1> DEFINE S == {p[j] : j \in (a + 1) .. c}
<1>1. Len(p) \in Nat /\ \A j \in 1 .. Len(p) : p[j] \in Blocks
  BY WayFacts
<1>2. S \in (SUBSET Blocks) \ {{}}
  <2>1. \A j \in (a + 1) .. c : j \in 1 .. Len(p)
    BY <1>1
  <2>2. c \in (a + 1) .. c
    BY <1>1
  <2> QED BY <1>1, <2>1, <2>2
<1>3. PICK b \in S : Range(prog.pred[b]) \cap S = {}
  <2> HIDE DEF S
  <2> QED BY <1>2 DEF Acyclic
<1>4. PICK j \in (a + 1) .. c : b = p[j]
  OBVIOUS
<1>5. j \in 2 .. Len(p)
  BY <1>1
<1>6. p[j - 1] \in Range(prog.pred[b])
  BY <1>4, <1>5 DEF IsWay
<1>7. p[j - 1] \in S
  <2>1. CASE j = a + 1
    <3>1. j - 1 = a /\ c \in (a + 1) .. c
      BY <1>1, <2>1
    <3> QED BY <3>1
  <2>2. CASE j # a + 1
    <3>1. j - 1 \in (a + 1) .. c
      BY <1>1, <2>2
    <3> QED BY <3>1
  <2> QED BY <2>1, <2>2
<1> QED BY <1>3, <1>6, <1>7

LEMMA RouteIsPath ==
  ASSUME IsProgram(prog), Acyclic, NEW p, IsRoute(p)
  PROVE  p \in Paths(p[Len(p)])
<1> DEFINE n == Len(p)
<1>1. /\ IsWay(p) /\ p[1] = 1 /\ p \in Seq(Blocks) /\ n \in Nat /\ n >= 1 /\ DOMAIN p = 1 .. n
      /\ \A j \in 1 .. n : p[j] \in Blocks
  BY WayFacts DEF IsRoute, IsWay
<1>2. p \in [1 .. n -> Blocks]
  BY <1>1
<1>3. ASSUME NEW a \in 1 .. n, NEW c \in 1 .. n, p[a] = p[c] PROVE a = c
  <2>1. a < c \/ c < a \/ a = c
    OBVIOUS
  <2>2. ASSUME a < c PROVE FALSE
    <3>1. c \in (a + 1) .. Len(p)
      BY <1>1, <2>2
    <3> QED BY <1>1, <1>3, <3>1, WayTurnsNot
  <2>3. ASSUME c < a PROVE FALSE
    <3>1. a \in (c + 1) .. Len(p)
      BY <1>1, <2>3
    <3> QED BY <1>1, <1>3, <3>1, WayTurnsNot
  <2> QED BY <2>1, <2>2, <2>3
<1>4. n \in 1 .. Cardinality(Blocks)
  <2> HIDE DEF n
  <2>1. p \in Injection(1 .. n, Blocks)
    BY <1>2, <1>3 DEF Injection, IsInjective
  <2>2. Cardinality(1 .. n) <= Cardinality(Blocks)
    BY <2>1, BlocksFinite, FS_Injection
  <2>3. Cardinality(1 .. n) = n
    BY <1>1, FS_Interval
  <2> QED BY <1>1, <2>2, <2>3, BlocksFinite
<1>5. \A j \in 2 .. Len(p) : p[j - 1] \in Range(prog.pred[p[j]])
  BY <1>1 DEF IsWay
<1> QED BY <1>1, <1>2, <1>4, <1>5 DEF Paths, Last

LEMMA PathIsRoute ==
  ASSUME IsProgram(prog), NEW b \in Blocks, NEW p \in Paths(b)
  PROVE  IsRoute(p) /\ p[Len(p)] = b
BY PathIsWay DEF IsRoute, Paths

-----------------------------------------------------------------------------
(* Where all paths agree, a fold is exact.                                 *)

LEMMA OnEntryIs ==
  ASSUME NEW t \in Temps
  PROVE  OnEntry[t] = IF IsConst(t) THEN {ConstVal[t]} ELSE IF t \in StackRegs THEN {0} ELSE {}
<1>1. OnEntry[t] = CASE t \in StackRegs -> {0} [] IsConst(t) -> {ConstVal[t]} [] OTHER -> {}
  BY DEF OnEntry
<1>2. IsConst(t) => t \notin StackRegs
  BY FoldAssumption DEF IsConst
<1>3. CASE IsConst(t)
  BY <1>1, <1>2, <1>3
<1>4. CASE ~IsConst(t)
  BY <1>1, <1>4
<1> QED BY <1>3, <1>4

LEMMA ConstUnwritten ==
  ASSUME IsProgram(prog), NEW b \in Blocks, NEW i, NEW t, IsConst(t)
  PROVE  Reaching(prog, b, i, t, {}) = {}
<1> SUFFICES ASSUME NEW q \in Reaching(prog, b, i, t, {}) PROVE FALSE
  OBVIOUS
<1>1. q[1] \in DOMAIN prog.code /\ q[2] \in WritersOf(prog, q[1], t)
  BY ReachingWrites DEF Blocks
<1> DEFINE inst == prog.code[q[1]][q[2]]
<1>2. q[2] \in DOMAIN prog.code[q[1]] /\ t \in Range(inst.out)
  BY <1>1 DEF WritersOf
<1>3. HasOperands(inst)
  BY <1>1, <1>2, ProgramFacts
<1> HIDE DEF inst
<1>4. PICK l \in DOMAIN inst.out : inst.out[l] = t
  BY <1>2 DEF Range
<1> QED BY <1>3, <1>4 DEF HasOperands

LEMMA ConstKept ==
  ASSUME IsProgram(prog), NEW p, IsWay(p), NEW n \in 1 .. Len(p),
         NEW i \in 1 .. (Len(prog.code[p[n]]) + 1), NEW t \in Temps, IsConst(t)
  PROVE  Values(p, n, i)[t] = {ConstVal[t]}
<1>1. p[n] \in Blocks
  BY WayFacts
<1>2. Reaching(prog, p[n], i, t, {}) = {}
  BY <1>1, ConstUnwritten
<1>3. Values(p, n, i)[t] = OnEntry[t]
  BY <1>2, Unwritten
<1> QED BY <1>3, OnEntryIs

(* Temps never point above the stack.                                      *)
LEMMA NeverAbove ==
  ASSUME IsProgram(prog), Acyclic, Regular, NEW b \in Blocks, NEW i \in DOMAIN prog.code[b],
         NEW t \in Temps, ~IsConst(t), NEW w, Carries(b, i, t, {w})
  PROVE  w <= 0
<1>1. PICK r \in Seq(Blocks) : IsRoute(r) /\ r[Len(r)] = b /\ Values(r, Len(r), i)[t] = {w}
  BY DEF Carries
<1>2. r \in Paths(b)
  BY <1>1, RouteIsPath
<1>3. \A v \in Values(r, Len(r), i)[t] : v <= 0
  BY <1>2 DEF Regular
<1> QED BY <1>1, <1>3

Outcome(g) == IF g.valid THEN {g.value} ELSE {}

(* On some route the node computes what it folds to, or nothing known.     *)
Exact(tree, f, x) ==
  \E p \in Seq(Blocks) :
    /\ IsRoute(p) /\ p[Len(p)] = tree[x].node
    /\ Result(Values(p, Len(p), tree[x].index), InstOf(prog, tree[x])) = Outcome(f[x])

LEMMA ChildArrives ==
  ASSUME IsProgram(prog), NEW tree, TreeOK(prog, tree), NEW x \in DOMAIN tree,
         NEW k \in DOMAIN tree[x].children, x = 1 \/ InstOf(prog, tree[x]).op # "ld",
         NEW c \in Range(tree[x].children[k]), NEW f, Exact(tree, f, c)
  PROVE  Carries(tree[x].node, tree[x].index, Operand(tree, x, k), Outcome(f[c]))
<1> DEFINE b == tree[x].node
           i == tree[x].index
           t == Operand(tree, x, k)
           m == tree[c].node
           j == tree[c].index
           inst == InstOf(prog, tree[c])
           A == Outcome(f[c])
<1>1. /\ b \in DOMAIN prog.code /\ i \in DOMAIN prog.code[b] /\ t \in Temps
      /\ c \in DOMAIN tree /\ ChildOK(prog, tree, x, k, c)
  BY TreeFacts DEF Operand, Inst, InstOf, LinkOK
<1>2. m \in DOMAIN prog.code /\ j \in DOMAIN prog.code[m]
  BY <1>1, TreeFacts
<1>3. <<m, j>> \in Reaching(prog, b, i, t, {})
  <2>1. ~(x > 1 /\ InstOf(prog, tree[x]).op = "ld")
    OBVIOUS
  <2> QED BY <1>1, <2>1 DEF ChildOK, Operand, Inst, InstOf
<1>4. PICK p \in Seq(Blocks) : IsRoute(p) /\ p[Len(p)] = m /\ Result(Values(p, Len(p), j), inst) = A
  BY DEF Exact
<1>5. b \in Blocks /\ m \in Blocks
  BY <1>1, <1>2 DEF Blocks
<1>6. DOMAIN prog.code[m] = 1 .. Len(prog.code[m]) /\ Len(prog.code[m]) \in Nat
      /\ DOMAIN prog.code[b] = 1 .. Len(prog.code[b]) /\ Len(prog.code[b]) \in Nat
  BY <1>1, <1>2, ProgramFacts
<1>7. inst = prog.code[m][j]
  BY DEF InstOf
<1> HIDE DEF b, i, t, m, j, inst, A
<1>8. t \in Range(inst.out)
  <2> DEFINE q == <<m, j>>
  <2>1. q[1] = m /\ q[2] = j /\ q \in Reaching(prog, b, i, t, {})
    BY <1>3
  <2> HIDE DEF q
  <2>2. j \in WritersOf(prog, m, t)
    BY <1>1, <2>1, ReachingWrites
  <2> QED BY <1>7, <2>2 DEF WritersOf
<1>9. j \in 1 .. Len(prog.code[m]) /\ j \in 1 .. (Len(prog.code[m]) + 1)
      /\ i \in 1 .. (Len(prog.code[b]) + 1)
  BY <1>1, <1>2, <1>6
<1> DEFINE n == Len(p)
           val == Values(p, n, j)
<1>10. IsWay(p) /\ n \in 1 .. Len(p)
  BY <1>4, WayFacts DEF IsRoute
<1>11. val \in ValueType /\ Values(p, n, j + 1) = Execute(val, <<m, j>>)
  BY <1>4, <1>9, <1>10, ValuesAre
<1>12. Values(p, n, j + 1)[t] = A
  <2>1. Result(val, inst) = A
    BY <1>4
  <2> HIDE DEF val
  <2> QED BY <1>1, <1>2, <1>5, <1>7, <1>8, <1>11, <2>1, ExecuteTyped
<1>13. Carries(m, j + 1, t, A)
  BY <1>4, <1>12 DEF Carries
<1>14. Carries(b, i, t, A)
  BY <1>1, <1>3, <1>5, <1>9, <1>13, DefinitionArrives
<1> QED BY <1>14 DEF b, i, t, A

(* Of several definitions, the deepest is one that arrives.                *)
Joined(tree, f, x, k) ==
  LET folds == {f[c] : c \in Range(tree[x].children[k])}
      d == Deepest({g.value : g \in folds})
  IN  /\ d \in Int
      /\ Carries(tree[x].node, tree[x].index, Operand(tree, x, k),
                 IF \A g \in folds : g.valid THEN {d} ELSE {})

LEMMA JoinExact ==
  ASSUME IsProgram(prog), Acyclic, Regular, NEW tree, TreeOK(prog, tree), NEW x \in DOMAIN tree,
         NEW k \in DOMAIN tree[x].children, x = 1 \/ InstOf(prog, tree[x]).op # "ld",
         ~IsConst(Operand(tree, x, k)), NEW f, \A c \in DOMAIN tree : f[c] \in FoldType,
         \A c \in Range(tree[x].children[k]) : Exact(tree, f, c), Range(tree[x].children[k]) # {}
  PROVE  Joined(tree, f, x, k)
<1> DEFINE C == Range(tree[x].children[k])
           folds == {f[c] : c \in C}
           V == {g.value : g \in folds}
           d == Deepest(V)
           Here(A) == Carries(tree[x].node, tree[x].index, Operand(tree, x, k), A)
<1>1. /\ Len(tree) \in Nat /\ DOMAIN tree = 1 .. Len(tree) /\ C \subseteq DOMAIN tree
      /\ tree[x].node \in Blocks /\ tree[x].index \in DOMAIN prog.code[tree[x].node]
      /\ Operand(tree, x, k) \in Temps
  BY TreeFacts DEF Operand, Inst, InstOf, Blocks
<1>2. \A c \in C : Here(Outcome(f[c]))
  BY ChildArrives
<1>3. folds \subseteq FoldType /\ IsFiniteSet(folds)
  <2> HIDE DEF C
  <2> QED BY <1>1, FoldsTyped
<1>4. d \in Int /\ d <= 0 /\ \A g \in folds : d <= g.value
  <2> HIDE DEF folds
  <2> QED BY <1>3, DeepestOf
<1>5. d \in V \cup {0}
  <2> DEFINE X == V \cup {0}
  <2>1. IsFiniteSet(V) /\ V \subseteq Int
    <3> HIDE DEF folds
    <3> DEFINE h == [g \in folds |-> g.value]
    <3>1. h \in Surjection(folds, V)
      BY DEF Surjection
    <3>2. IsFiniteSet(V)
      BY <1>3, <3>1, FS_Surjection
    <3> QED BY <1>3, <3>2 DEF FoldType
  <2> HIDE DEF V
  <2> QED BY <2>1, DeepestTyped
<1>6. \A c \in C : f[c] \in folds /\ f[c].value \in V
  OBVIOUS
<1>7. \A w \in V : \E c \in C : w = f[c].value
  OBVIOUS
<1>8. C # {}
  OBVIOUS
<1> HIDE DEF d, V, C
<1> DEFINE all == \A g \in folds : g.valid
<1>9. ASSUME all PROVE Here(IF all THEN {d} ELSE {})
  <2>1. \A c \in C : Outcome(f[c]) = {f[c].value}
    BY <1>6, <1>9 DEF Outcome
  <2>2. \A c \in C : Here({f[c].value})
    BY <1>2, <2>1
  <2>3. d \in V
    <3> SUFFICES ASSUME d \notin V PROVE FALSE
      OBVIOUS
    <3>1. d = 0
      BY <1>5
    <3>2. PICK c \in C : TRUE
      BY <1>8
    <3> DEFINE w == f[c].value
    <3>3. Here({w}) /\ w \in V /\ d <= w /\ w \in Int
      BY <1>3, <1>4, <1>6, <2>2 DEF FoldType
    <3> HIDE DEF w
    <3>4. w <= 0
      BY <1>1, <3>3, NeverAbove
    <3>5. w = 0
      BY <3>1, <3>3, <3>4
    <3> QED BY <3>1, <3>3, <3>5
  <2>4. PICK c \in C : d = f[c].value
    BY <1>7, <2>3
  <2>5. Here({d})
    BY <2>2, <2>4
  <2> QED BY <1>9, <2>5
<1>10. ASSUME ~all PROVE Here(IF all THEN {d} ELSE {})
  <2>1. PICK c \in C : ~f[c].valid
    BY <1>10
  <2>2. Here({})
    BY <1>2, <2>1 DEF Outcome
  <2> QED BY <1>10, <2>2
<1>11. d \in Int /\ Here(IF all THEN {d} ELSE {})
  <2> HIDE DEF all
  <2> QED BY <1>4, <1>9, <1>10
<1> QED BY <1>11 DEF Joined, d, V, C

LEMMA RouteThere ==
  ASSUME IsProgram(prog), Regular, NEW b \in Blocks
  PROVE  \E p \in Seq(Blocks) : IsRoute(p) /\ p[Len(p)] = b
<1>1. PICK p \in Paths(b) : TRUE
  BY DEF Regular
<1>2. IsRoute(p) /\ p[Len(p)] = b
  BY PathIsRoute
<1> QED BY <1>2 DEF IsRoute, IsWay

(* What is at an operand without a definition.                             *)
LEMMA UnwrittenCarries ==
  ASSUME IsProgram(prog), Regular, NEW b \in Blocks, NEW i \in DOMAIN prog.code[b],
         NEW t \in Temps, Reaching(prog, b, i, t, {}) = {}
  PROVE  Carries(b, i, t, OnEntry[t])
<1>1. PICK p \in Seq(Blocks) : IsRoute(p) /\ p[Len(p)] = b
  BY RouteThere
<1>2. IsWay(p) /\ Len(p) \in 1 .. Len(p)
  BY <1>1, WayFacts DEF IsRoute
<1>3. DOMAIN prog.code[b] = 1 .. Len(prog.code[b]) /\ Len(prog.code[b]) \in Nat
  BY ProgramFacts DEF Blocks
<1>4. i \in 1 .. (Len(prog.code[b]) + 1)
  BY <1>3
<1>5. Values(p, Len(p), i)[t] = OnEntry[t]
  BY <1>1, <1>2, <1>4, Unwritten
<1> QED BY <1>1, <1>5 DEF Carries

LEMMA OperandExact ==
  ASSUME IsProgram(prog), Acyclic, Regular, NEW tree, TreeOK(prog, tree), NEW x \in DOMAIN tree,
         NEW k \in DOMAIN tree[x].children, InstOf(prog, tree[x]).op # "ld",
         NEW f, \A c \in DOMAIN tree : f[c] \in FoldType,
         \A c \in Range(tree[x].children[k]) : Exact(tree, f, c),
         IsConst(Operand(tree, x, k))
           \/ Reaching(prog, tree[x].node, tree[x].index, Operand(tree, x, k), {})
                \subseteq Branches(tree, x, k)
  PROVE  LET o == FoldOperand(Operand(tree, x, k), FoldsAt(tree, f, x, k))
         IN  /\ o.valid => o.value \in Int
             /\ IsConst(Operand(tree, x, k)) => o = Valid(ConstVal[Operand(tree, x, k)])
             /\ Carries(tree[x].node, tree[x].index, Operand(tree, x, k), Outcome(o))
<1> DEFINE t == Operand(tree, x, k)
           C == Range(tree[x].children[k])
           folds == FoldsAt(tree, f, x, k)
           o == FoldOperand(t, folds)
           d == Deepest({g.value : g \in folds})
           Here(A) == Carries(tree[x].node, tree[x].index, t, A)
<1>1. /\ tree[x].node \in Blocks /\ tree[x].index \in DOMAIN prog.code[tree[x].node]
      /\ t \in Temps
  BY TreeFacts DEF Operand, Inst, InstOf, Blocks
<1>2. folds = {f[c] : c \in C}
  BY DEF FoldsAt
<1>3. IsConst(t) => C = {}
  BY ConstHasNone
<1>4. CASE C = {}
  <2>1. folds = {}
    BY <1>2, <1>4
  <2>2. Reaching(prog, tree[x].node, tree[x].index, t, {}) = {}
    <3>1. CASE IsConst(t)
      <4> HIDE DEF t
      <4> QED BY <1>1, <3>1, ConstUnwritten
    <3>2. CASE ~IsConst(t)
      <4>1. Branches(tree, x, k) = {}
        BY <1>4 DEF Branches
      <4> QED BY <3>2, <4>1
    <3> QED BY <3>1, <3>2
  <2>3. Here(OnEntry[t])
    <3> HIDE DEF t
    <3> QED BY <1>1, <2>2, UnwrittenCarries
  <2>4. OnEntry[t] = IF IsConst(t) THEN {ConstVal[t]} ELSE IF t \in StackRegs THEN {0} ELSE {}
    BY <1>1, OnEntryIs
  <2>5. IsConst(t) => t \notin StackRegs /\ ConstVal[t] \in Int
    BY FoldAssumption DEF IsConst
  <2> HIDE DEF t, folds
  <2>6. o = IF IsConst(t) THEN Valid(ConstVal[t]) ELSE IF t \in StackRegs THEN Valid(0) ELSE Invalid
    <3>1. CASE IsConst(t)
      BY <2>1, <2>5, <3>1 DEF FoldOperand
    <3>2. CASE ~IsConst(t)
      BY <2>1, <3>2 DEF FoldOperand
    <3> QED BY <3>1, <3>2
  <2>7. Outcome(o) = OnEntry[t] /\ (o.valid => o.value \in Int)
        /\ (IsConst(t) => o = Valid(ConstVal[t]))
    <3>1. CASE IsConst(t)
      BY <2>4, <2>5, <2>6, <3>1 DEF Outcome, Valid
    <3>2. CASE ~IsConst(t) /\ t \in StackRegs
      BY <2>4, <2>6, <3>2 DEF Outcome, Valid
    <3>3. CASE ~IsConst(t) /\ t \notin StackRegs
      BY <2>4, <2>6, <3>3 DEF Outcome, Invalid
    <3> QED BY <3>1, <3>2, <3>3
  <2> HIDE DEF o
  <2>8. Here(Outcome(o))
    BY <2>3, <2>7
  <2> QED BY <2>7, <2>8 DEF o, t, folds
<1>5. CASE C # {}
  <2>1. ~IsConst(t)
    BY <1>3, <1>5
  <2>2. d \in Int /\ Here(IF \A g \in folds : g.valid THEN {d} ELSE {})
    <3>1. Joined(tree, f, x, k)
      <4>1. ~IsConst(Operand(tree, x, k)) /\ Range(tree[x].children[k]) # {}
        BY <1>5, <2>1
      <4> HIDE DEF t, C, folds, o, d, Here
      <4> QED BY <4>1, JoinExact
    <3> QED BY <1>2, <3>1 DEF Joined
  <2>3. folds # {}
    BY <1>2, <1>5
  <2> HIDE DEF t, folds, d
  <2>4. o = IF \A g \in folds : g.valid THEN Valid(d) ELSE Invalid
    BY <2>3 DEF FoldOperand, d
  <2>5. Outcome(o) = (IF \A g \in folds : g.valid THEN {d} ELSE {}) /\ (o.valid => o.value \in Int)
    <3>1. CASE \A g \in folds : g.valid
      BY <2>2, <2>4, <3>1 DEF Outcome, Valid
    <3>2. CASE ~\A g \in folds : g.valid
      BY <2>4, <3>2 DEF Outcome, Invalid
    <3> QED BY <3>1, <3>2
  <2> HIDE DEF o
  <2>6. Here(Outcome(o))
    BY <2>2, <2>5
  <2> QED BY <2>1, <2>5, <2>6 DEF o, t, folds
<1> QED BY <1>4, <1>5

LEMMA ExactBy ==
  ASSUME NEW tree, NEW x, NEW f, NEW p \in Seq(Blocks), IsRoute(p), p[Len(p)] = tree[x].node,
         Result(Values(p, Len(p), tree[x].index), InstOf(prog, tree[x])) = Outcome(f[x])
  PROVE  Exact(tree, f, x)
BY DEF Exact

LEMMA PlainRight ==
  ASSUME Plain, NEW b \in Blocks, NEW i \in DOMAIN prog.code[b],
         prog.code[b][i].op \in {"add", "sub"}
  PROVE  IsConst(prog.code[b][i].in[2])
BY DEF Plain, Inst

LEMMA NodeExact ==
  ASSUME IsProgram(prog), Acyclic, Plain, Regular, NEW tree, TreeOK(prog, tree), FullTree(tree),
         NEW x \in 2 .. Len(tree),
         \A y \in (x + 1) .. Len(tree) : Exact(tree, fold_add_sub(prog.code, tree), y)
  PROVE  Exact(tree, fold_add_sub(prog.code, tree), x)
<1> DEFINE f == fold_add_sub(prog.code, tree)
           b == tree[x].node
           i == tree[x].index
           inst == InstOf(prog, tree[x])
<1> SUFFICES Exact(tree, f, x)
  OBVIOUS
<1>1. /\ Len(tree) \in Nat /\ DOMAIN tree = 1 .. Len(tree) /\ x \in DOMAIN tree
      /\ b \in Blocks /\ i \in DOMAIN prog.code[b]
      /\ DOMAIN tree[x].children = DOMAIN inst.in
  <2>1. Len(tree) \in Nat /\ DOMAIN tree = 1 .. Len(tree)
    BY TreeFacts
  <2>2. x \in DOMAIN tree
    BY <2>1
  <2> QED BY <2>1, <2>2, TreeFacts DEF Blocks
<1>2. HasOperands(inst) /\ DOMAIN inst.in = 1 .. Len(inst.in) /\ inst = prog.code[b][i]
      /\ \A k \in DOMAIN inst.in : inst.in[k] \in Temps
  <2>1. inst = prog.code[b][i]
    BY DEF InstOf
  <2> HIDE DEF b, i, inst
  <2> QED BY <1>1, <2>1, InstructionFacts DEF Blocks
<1>3. /\ \A c \in DOMAIN tree : f[c] \in FoldType
      /\ f[x] = FoldBody(prog.code, tree, f, x)
  <2>1. Linked(prog.code, tree)
    BY TreeLinked
  <2>2. \A c \in DOMAIN tree : f[c] \in FoldType
    BY <2>1, FoldTyped
  <2>3. f = [y \in DOMAIN tree |-> FoldBody(prog.code, tree, f, y)]
    BY <2>1, FoldEquation
  <2>4. f[x] = FoldBody(prog.code, tree, f, x)
    <3> HIDE DEF f
    <3> QED BY <1>1, <2>3
  <2> QED BY <2>2, <2>4
<1> DEFINE left == FoldOperand(inst.in[1], FoldsAt(tree, f, x, 1))
           right == IF Len(inst.in) = 2 THEN FoldOperand(inst.in[2], FoldsAt(tree, f, x, 2))
                                        ELSE Valid(0)
<1>4. f[x] = IF inst.op \notin Arithmetic \/ ~left.valid \/ ~right.valid
             THEN Invalid
             ELSE Valid(IF inst.op = "sub" THEN left.value - right.value
                                           ELSE left.value + right.value)
  BY <1>3 DEF FoldBody, InstOf
<1>5. ASSUME NEW k \in DOMAIN inst.in, inst.op \in Arithmetic
      PROVE  LET o == FoldOperand(inst.in[k], FoldsAt(tree, f, x, k))
             IN  /\ o.valid => o.value \in Int
                 /\ IsConst(inst.in[k]) => o = Valid(ConstVal[inst.in[k]])
                 /\ Carries(b, i, inst.in[k], Outcome(o))
  <2>1. Operand(tree, x, k) = inst.in[k]
    BY DEF Operand, Inst, InstOf
  <2>2. k \in DOMAIN tree[x].children
    BY <1>1
  <2>3. \A c \in Range(tree[x].children[k]) : Exact(tree, f, c)
    <3>1. Range(tree[x].children[k]) \subseteq (x + 1) .. Len(tree)
      BY <1>1, <2>2, TreeFacts DEF LinkOK
    <3> QED BY <3>1
  <2>4. inst.op # "ld"
    BY <1>5 DEF Arithmetic
  <2>5. IsConst(Operand(tree, x, k))
          \/ Reaching(prog, tree[x].node, tree[x].index, Operand(tree, x, k), {})
               \subseteq Branches(tree, x, k)
    BY <2>2 DEF FullTree
  <2> HIDE DEF f
  <2>6. LET o == FoldOperand(Operand(tree, x, k), FoldsAt(tree, f, x, k))
        IN  /\ o.valid => o.value \in Int
            /\ IsConst(Operand(tree, x, k)) => o = Valid(ConstVal[Operand(tree, x, k)])
            /\ Carries(tree[x].node, tree[x].index, Operand(tree, x, k), Outcome(o))
    BY <1>1, <1>3, <2>2, <2>3, <2>4, <2>5, OperandExact
  <2> QED BY <2>1, <2>6
<1> HIDE DEF f
<1>6. CASE inst.op \notin Arithmetic
  <2>1. PICK p \in Seq(Blocks) : IsRoute(p) /\ p[Len(p)] = b
    BY <1>1, RouteThere
  <2>2. Result(Values(p, Len(p), i), inst) = {}
    BY <1>6 DEF Result, Arithmetic
  <2>3. Outcome(f[x]) = {}
    BY <1>4, <1>6 DEF Outcome, Invalid
  <2>4. p[Len(p)] = tree[x].node
        /\ Result(Values(p, Len(p), tree[x].index), InstOf(prog, tree[x])) = Outcome(f[x])
    BY <2>1, <2>2, <2>3
  <2> QED BY <2>1, <2>4, ExactBy
<1>7. CASE inst.op = "mov"
  <2>1. Len(inst.in) = 1 /\ 1 \in DOMAIN inst.in
    <3>1. Len(inst.in) = 1
      BY <1>2, <1>7 DEF HasOperands
    <3>2. 1 \in 1 .. 1
      OBVIOUS
    <3> QED BY <1>2, <3>1, <3>2
  <2>2. (left.valid => left.value \in Int) /\ Carries(b, i, inst.in[1], Outcome(left))
    BY <1>5, <1>7, <2>1 DEF Arithmetic
  <2>3. PICK p \in Seq(Blocks) : /\ IsRoute(p) /\ p[Len(p)] = b
                                 /\ Values(p, Len(p), i)[inst.in[1]] = Outcome(left)
    BY <2>2 DEF Carries
  <2>4. Result(Values(p, Len(p), i), inst) = Outcome(left)
    BY <1>7, <2>3 DEF Result
  <2>5. right = Valid(0) /\ right.valid /\ right.value = 0
    BY <2>1 DEF Valid
  <2> HIDE DEF right, left
  <2>6. Outcome(f[x]) = Outcome(left)
    <3>1. CASE ~left.valid
      BY <1>4, <3>1 DEF Outcome, Invalid
    <3>2. CASE left.valid
      <4>1. f[x] = Valid(left.value + right.value)
        BY <1>4, <1>7, <2>5, <3>2 DEF Arithmetic
      <4>2. left.value + right.value = left.value
        BY <2>2, <2>5, <3>2
      <4> QED BY <3>2, <4>1, <4>2 DEF Outcome, Valid
    <3> QED BY <3>1, <3>2
  <2>7. p[Len(p)] = tree[x].node
        /\ Result(Values(p, Len(p), tree[x].index), InstOf(prog, tree[x])) = Outcome(f[x])
    BY <2>3, <2>4, <2>6
  <2> QED BY <2>3, <2>7, ExactBy
<1>8. CASE inst.op \in {"add", "sub"}
  <2>1. Len(inst.in) = 2 /\ 1 \in DOMAIN inst.in /\ 2 \in DOMAIN inst.in
    <3>1. Len(inst.in) = 2
      BY <1>2, <1>8 DEF HasOperands
    <3>2. 1 \in 1 .. 2 /\ 2 \in 1 .. 2
      OBVIOUS
    <3> QED BY <1>2, <3>1, <3>2
  <2> DEFINE v == ConstVal[inst.in[2]]
  <2>2. IsConst(inst.in[2]) /\ v \in Int /\ inst.in[2] \in Temps
    <3>1. IsConst(inst.in[2])
      <4>1. prog.code[b][i].op \in {"add", "sub"}
        BY <1>2, <1>8
      <4>2. IsConst(prog.code[b][i].in[2])
        BY <1>1, <4>1, PlainRight
      <4> QED BY <1>2, <4>2
    <3>2. v \in Int
      BY <3>1, FoldAssumption DEF IsConst
    <3> QED BY <1>2, <2>1, <3>1, <3>2
  <2>3. inst.op \in Arithmetic
    BY <1>8 DEF Arithmetic
  <2>4. (left.valid => left.value \in Int) /\ Carries(b, i, inst.in[1], Outcome(left))
    BY <1>5, <2>1, <2>3
  <2>5. right = Valid(v) /\ right.valid /\ right.value = v
    <3>1. right = FoldOperand(inst.in[2], FoldsAt(tree, f, x, 2))
      BY <2>1
    <3>2. right = Valid(v)
      BY <1>5, <2>1, <2>2, <2>3, <3>1
    <3> HIDE DEF right, v
    <3> QED BY <3>2 DEF Valid
  <2>6. PICK p \in Seq(Blocks) : /\ IsRoute(p) /\ p[Len(p)] = b
                                 /\ Values(p, Len(p), i)[inst.in[1]] = Outcome(left)
    BY <2>4 DEF Carries
  <2> DEFINE val == Values(p, Len(p), i)
  <2>7. val[inst.in[2]] = {v}
    <3>1. IsWay(p) /\ Len(p) \in 1 .. Len(p)
      BY <2>6, WayFacts DEF IsRoute
    <3>2. i \in 1 .. (Len(prog.code[p[Len(p)]]) + 1)
      <4>1. DOMAIN prog.code[b] = 1 .. Len(prog.code[b]) /\ Len(prog.code[b]) \in Nat
        BY <1>1, ProgramFacts DEF Blocks
      <4> QED BY <1>1, <2>6, <4>1
    <3> QED BY <2>2, <3>1, <3>2, ConstKept
  <2>8. Result(val, inst) = IF inst.op = "sub" THEN {l - r : l \in Outcome(left), r \in {v}}
                                               ELSE {l + r : l \in Outcome(left), r \in {v}}
    <3>1. val[inst.in[1]] = Outcome(left)
      BY <2>6
    <3> HIDE DEF val, left, v
    <3> QED BY <1>8, <2>7, <3>1 DEF Result
  <2> HIDE DEF right, left, v, val
  <2>9. Outcome(f[x]) = Result(val, inst)
    <3>1. CASE ~left.valid
      BY <1>4, <2>8, <3>1 DEF Outcome, Invalid
    <3>2. CASE left.valid
      <4>1. Outcome(left) = {left.value}
        BY <3>2 DEF Outcome
      <4>2. f[x] = Valid(IF inst.op = "sub" THEN left.value - v ELSE left.value + v)
        BY <1>4, <2>3, <2>5, <3>2
      <4>3. Outcome(f[x]) = {IF inst.op = "sub" THEN left.value - v ELSE left.value + v}
        BY <4>2 DEF Outcome, Valid
      <4>4. Result(val, inst) = {IF inst.op = "sub" THEN left.value - v ELSE left.value + v}
        BY <2>8, <4>1
      <4> QED BY <4>3, <4>4
    <3> QED BY <3>1, <3>2
  <2>10. IsRoute(p) /\ p[Len(p)] = b /\ Result(Values(p, Len(p), i), inst) = Outcome(f[x])
    BY <2>6, <2>9 DEF val
  <2>11. p[Len(p)] = tree[x].node
         /\ Result(Values(p, Len(p), tree[x].index), InstOf(prog, tree[x])) = Outcome(f[x])
    BY <2>10
  <2> QED BY <2>6, <2>11, ExactBy
<1> QED BY <1>6, <1>7, <1>8 DEF Arithmetic

LEMMA NodesExact ==
  ASSUME IsProgram(prog), Acyclic, Plain, Regular, NEW tree, TreeOK(prog, tree), FullTree(tree)
  PROVE  \A x \in 2 .. Len(tree) : Exact(tree, fold_add_sub(prog.code, tree), x)
<1> DEFINE L == Len(tree)
           OK(x) == Exact(tree, fold_add_sub(prog.code, tree), x)
           T == {n \in Nat : L - n \in 2 .. L /\ ~OK(L - n)}
<1>1. L \in Nat
  BY TreeFacts
<1>2. \A x \in 2 .. L : (\A y \in (x + 1) .. L : OK(y)) => OK(x)
  BY NodeExact
<1> HIDE DEF OK, L
<1>3. T = {}
  <2> SUFFICES ASSUME T # {} PROVE FALSE
    OBVIOUS
  <2>1. PICK n \in T : \A m \in T : n <= m
    <3>1. T \subseteq Nat
      OBVIOUS
    <3> HIDE DEF T
    <3> QED BY <3>1, NatMin
  <2>2. n \in Nat /\ L - n \in 2 .. L /\ ~OK(L - n)
    OBVIOUS
  <2>3. ASSUME NEW y \in (L - n + 1) .. L PROVE OK(y)
    <3>1. L - y \in Nat /\ ~(n <= L - y) /\ L - (L - y) = y /\ y \in 2 .. L
      BY <1>1, <2>2
    <3>2. L - y \notin T
      <4> HIDE DEF T
      <4> QED BY <2>1, <3>1
    <3> QED BY <3>1, <3>2
  <2> QED BY <1>2, <2>2, <2>3
<1>4. ASSUME NEW x \in 2 .. L PROVE OK(x)
  <2>1. L - x \in Nat /\ L - (L - x) = x
    BY <1>1
  <2>2. L - x \notin T
    BY <1>3
  <2> QED BY <2>1, <2>2
<1> QED BY <1>4 DEF OK, L

(* Where all paths agree, an address that is known folds to its offset.    *)
LEMMA AddressExact ==
  ASSUME IsProgram(prog), Acyclic, Plain, Regular, NEW tree, TreeOK(prog, tree), FullTree(tree),
         NEW arg \in DOMAIN tree[1].children, InstOf(prog, tree[1]).op \in {"ld", "st"},
         arg = AddressArg(InstOf(prog, tree[1])),
         Reaching(prog, tree[1].node, tree[1].index, Operand(tree, 1, arg), {})
           \subseteq Branches(tree, 1, arg),
         NEW p, IsRoute(p), p[Len(p)] = tree[1].node
  PROVE  LET o == fold_ld_st_stack_pointer(prog.code, tree, arg)
             A == Address(p, Len(p), tree[1].index)
         IN  A # {} \/ (o.valid /\ o.value # 0) => o.valid /\ A = {-o.value}
<1> DEFINE f == fold_add_sub(prog.code, tree)
           b == tree[1].node
           i == tree[1].index
           inst == InstOf(prog, tree[1])
           t == Operand(tree, 1, arg)
           C == Range(tree[1].children[arg])
           folds == {f[c] : c \in C}
           d == Deepest({g.value : g \in folds})
           o == fold_ld_st_stack_pointer(prog.code, tree, arg)
           A == Address(p, Len(p), i)
           all == \A g \in folds : g.valid
<1>1. /\ Len(tree) \in Nat /\ DOMAIN tree = 1 .. Len(tree) /\ 1 \in DOMAIN tree
      /\ b \in Blocks /\ i \in DOMAIN prog.code[b]
      /\ LinkOK(prog, tree, 1, arg)
  BY TreeFacts DEF Blocks
<1>2. inst = prog.code[b][i] /\ t = inst.in[arg] /\ t \in Temps
  <2>1. inst = prog.code[b][i] /\ t = inst.in[arg]
    BY DEF Operand, Inst, InstOf
  <2>2. inst.in[arg] \in Temps
    BY <1>1, TreeFacts
  <2> QED BY <2>1, <2>2
<1>3. ~IsConst(t)
  <2>1. inst.op \in {"ld", "st"} /\ arg = AddressArg(inst)
    OBVIOUS
  <2> HIDE DEF b, i, inst, t
  <2> QED BY <1>1, <1>2, <2>1 DEF Plain, Inst
<1>4. /\ p \in Paths(b) /\ A \in Addresses(b, i) /\ IsWay(p) /\ Len(p) \in 1 .. Len(p)
      /\ p[Len(p)] = b
  BY RouteIsPath, WayFacts DEF Addresses, IsRoute
<1>5. \A r : IsRoute(r) /\ r[Len(r)] = b => Values(r, Len(r), i)[t] = A
  <2> TAKE r
  <2> HAVE IsRoute(r) /\ r[Len(r)] = b
  <2>1. Address(r, Len(r), i) \in Addresses(b, i)
    BY RouteIsPath DEF Addresses
  <2>2. inst.op \in {"ld", "st"} /\ Inst(b, i) = inst
    BY <1>2 DEF Inst
  <2> HIDE DEF b, i, A, inst
  <2>3. Address(r, Len(r), i) = A
    BY <1>1, <1>4, <2>1, <2>2 DEF Regular
  <2>4. Address(r, Len(r), i) = Values(r, Len(r), i)[Inst(b, i).in[AddressArg(Inst(b, i))]]
    BY DEF Address
  <2>5. arg = AddressArg(inst)
    BY DEF inst
  <2> QED BY <1>2, <2>2, <2>3, <2>4, <2>5
<1>6. A # {0}
  <2>1. inst.op \in {"ld", "st"} /\ Inst(b, i) = inst
    BY <1>2 DEF Inst
  <2> HIDE DEF b, i, A, inst
  <2>2. {0} \notin Addresses(b, i)
    BY <1>1, <2>1 DEF Regular
  <2> QED BY <1>4, <2>2
<1>7. o = IF all THEN Valid(-d) ELSE Invalid
  BY DEF fold_ld_st_stack_pointer
<1>8. CASE C = {}
  <2>1. Branches(tree, 1, arg) = {}
    BY <1>8 DEF Branches
  <2>2. Reaching(prog, b, i, t, {}) = {}
    BY <2>1
  <2>3. A = OnEntry[t]
    <3>1. i \in 1 .. (Len(prog.code[b]) + 1)
      <4>1. DOMAIN prog.code[b] = 1 .. Len(prog.code[b]) /\ Len(prog.code[b]) \in Nat
        BY <1>1, ProgramFacts DEF Blocks
      <4> QED BY <1>1, <4>1
    <3>2. Values(p, Len(p), i)[t] = A
      BY <1>4, <1>5
    <3> HIDE DEF A, b, i, t
    <3> QED BY <1>2, <1>4, <2>2, <3>1, <3>2, Unwritten
  <2>4. A = {}
    <3> HIDE DEF A, t
    <3> QED BY <1>2, <1>3, <1>6, <2>3, OnEntryIs
  <2>5. folds = {} /\ {g.value : g \in folds} = {}
    BY <1>8
  <2>6. d = 0
    <3>1. d = Min({0})
      BY <2>5 DEF Deepest
    <3>2. Min({0}) = 0
      BY DEF Min
    <3> QED BY <3>1, <3>2
  <2> HIDE DEF o, d, A, folds
  <2>7. o = Valid(-d)
    BY <1>7, <2>5
  <2>8. o.value = 0
    <3>1. d \in Int /\ d <= 0 /\ d >= 0
      BY <2>6
    <3>2. -d \in Int /\ -d <= 0 /\ -d >= 0
      BY <3>1
    <3>3. o.value = -d
      BY <2>7 DEF Valid
    <3> DEFINE e == -d
    <3> HIDE DEF e
    <3>4. e = 0
      BY <3>2 DEF e
    <3> QED BY <3>3, <3>4 DEF e
  <2> QED BY <2>4, <2>8 DEF o, A
<1>9. CASE C # {}
  <2>1. \A c \in DOMAIN tree : f[c] \in FoldType
    BY TreeLinked, FoldTyped
  <2>2. \A c \in C : Exact(tree, f, c)
    <3>1. C \subseteq (1 + 1) .. Len(tree)
      BY <1>1 DEF LinkOK
    <3>2. \A c \in 2 .. Len(tree) : Exact(tree, f, c)
      BY NodesExact
    <3> QED BY <3>1, <3>2
  <2>3. d \in Int /\ Carries(b, i, t, IF all THEN {d} ELSE {})
    <3>1. Joined(tree, f, 1, arg)
      <4>1. ~IsConst(Operand(tree, 1, arg)) /\ Range(tree[1].children[arg]) # {}
        BY <1>3, <1>9
      <4>2. 1 \in DOMAIN tree
        BY <1>1
      <4> HIDE DEF f, t, C, folds, o, d, A, all, b, i, inst
      <4>3. \A c \in Range(tree[1].children[arg]) : Exact(tree, f, c)
        BY <2>2 DEF C
      <4> QED BY <2>1, <4>1, <4>2, <4>3, JoinExact
    <3> HIDE DEF f
    <3> QED BY <3>1 DEF Joined
  <2> HIDE DEF d, all, t, b, i, A
  <2>4. A = IF all THEN {d} ELSE {}
    BY <1>5, <2>3 DEF Carries
  <2> HIDE DEF o
  <2>5. CASE all
    <3>1. o.valid /\ o.value = -d
      BY <1>7, <2>5 DEF Valid
    <3>2. -o.value = d
      BY <2>3, <3>1
    <3> QED BY <2>4, <2>5, <3>1, <3>2 DEF o, A, i
  <2>6. CASE ~all
    <3>1. A = {} /\ ~o.valid
      BY <1>7, <2>4, <2>6 DEF Invalid
    <3> QED BY <3>1 DEF o, A, i
  <2> QED BY <2>5, <2>6
<1> QED BY <1>8, <1>9
=============================================================================
