--------------------------- MODULE CfgBuildProofs ---------------------------
(***************************************************************************)
(* The control-flow graph that main builds is right for every sequence of  *)
(* lifted blocks and every size of the arrays.  The two operations on a    *)
(* graph, add_edge and the split, are described field by field first       *)
(* (IsAdded, IsSplit); then each part of what a graph keeps is shown to    *)
(* survive both; then comes the invariant of the walk (IInv): all blocks   *)
(* in front of the one it is at have the edges they need.                  *)
(***************************************************************************)
EXTENDS CfgBuild, SequenceTheorems, NumberLemmas, TLAPS

Types == {"DIRECT", "FALLTHROUGH"}
EdgeType == [node: Nat \ {0}, type: Types]

IsGraph(ns) ==
  /\ ns \in Seq(Node)
  /\ \A m \in 1 .. Len(ns) :
       /\ ns[m].next \in 0 .. Len(ns)
       /\ \A k \in 1 .. Len(ns[m].succ) : ns[m].succ[k].node \in 1 .. Len(ns)
       /\ \A k \in 1 .. Len(ns[m].pred) : ns[m].pred[k].node \in 1 .. Len(ns)

(* The fields that an edge does not change.                                *)
SameCode(ns, r) ==
  /\ Len(r) = Len(ns)
  /\ \A m \in 1 .. Len(ns) :
       /\ r[m].addr = ns[m].addr /\ r[m].size = ns[m].size
       /\ r[m].insns = ns[m].insns /\ r[m].next = ns[m].next
       /\ r[m].exits = ns[m].exits

(* r is ns with an edge from src to dst.                                   *)
IsAdded(ns, r, src, dst, type) ==
  /\ r \in Seq(Node) /\ SameCode(ns, r)
  /\ \A m \in 1 .. Len(ns) :
       /\ r[m].succ = IF m = src /\ ~HasEdge(ns, src, dst)
                      THEN Append(ns[m].succ, Edge(dst, type)) ELSE ns[m].succ
       /\ r[m].pred = IF m = dst /\ ~HasEdge(ns, src, dst)
                      THEN Append(ns[m].pred, Edge(src, type)) ELSE ns[m].pred

LEMMA AddEdgeFacts ==
  ASSUME NEW ns, IsGraph(ns), NEW src \in 1 .. Len(ns), NEW dst \in 1 .. Len(ns),
         NEW type \in Types
  PROVE  IsAdded(ns, AddEdge(ns, src, dst, type), src, dst, type)
<1> DEFINE r == AddEdge(ns, src, dst, type)
<1>1. CASE HasEdge(ns, src, dst)
  BY <1>1 DEF AddEdge, SameCode, IsGraph, IsAdded
<1>2. CASE ~HasEdge(ns, src, dst)
  <2> DEFINE r1 == [ns EXCEPT ![src].succ = Append(@, Edge(dst, type))]
             a  == [ns[src] EXCEPT !.succ = Append(@, Edge(dst, type))]
  <2>1. ns[src] \in Node /\ ns[dst] \in Node
    BY ElementOfSeq DEF IsGraph
  <2>2. /\ Edge(dst, type) \in EdgeType /\ Edge(src, type) \in EdgeType
    BY DEF Edge, EdgeType, Types, IsGraph
  <2>3. a \in Node
    BY <2>1, <2>2, AppendProperties DEF Node, EdgeType, Types
  <2>4. r1 = [ns EXCEPT ![src] = a]
    OBVIOUS
  <2>5. r1 \in Seq(Node) /\ Len(r1) = Len(ns) /\ \A m \in 1 .. Len(ns) : r1[m] = IF m = src THEN a ELSE ns[m]
    BY <2>3, <2>4, ExceptSeq DEF IsGraph
  <2> DEFINE b == [r1[dst] EXCEPT !.pred = Append(@, Edge(src, type))]
  <2>6. r1[dst] \in Node
    BY <2>5, <2>3, <2>1
  <2>7. b \in Node
    BY <2>6, <2>2, AppendProperties DEF Node, EdgeType, Types
  <2>8. r = [r1 EXCEPT ![dst] = b]
    BY <1>2 DEF AddEdge
  <2>9. r \in Seq(Node) /\ Len(r) = Len(ns) /\ \A m \in 1 .. Len(ns) : r[m] = IF m = dst THEN b ELSE r1[m]
    <3> HIDE DEF r1, b
    <3> QED BY <2>8, <2>7, <2>5, ExceptSeq DEF IsGraph
  <2>10. /\ a.succ = Append(ns[src].succ, Edge(dst, type)) /\ a.pred = ns[src].pred
         /\ a.addr = ns[src].addr /\ a.size = ns[src].size /\ a.insns = ns[src].insns
         /\ a.next = ns[src].next /\ a.exits = ns[src].exits
    BY <2>1 DEF Node
  <2>11. /\ b.pred = Append(r1[dst].pred, Edge(src, type)) /\ b.succ = r1[dst].succ
         /\ b.addr = r1[dst].addr /\ b.size = r1[dst].size /\ b.insns = r1[dst].insns
         /\ b.next = r1[dst].next /\ b.exits = r1[dst].exits
    BY <2>6 DEF Node
  <2> HIDE DEF r1, a, b, r
  <2>12. SameCode(ns, r)
    BY <2>5, <2>9, <2>10, <2>11 DEF SameCode
  <2>13. ASSUME NEW m \in 1 .. Len(ns)
         PROVE  /\ r[m].succ = IF m = src THEN Append(ns[m].succ, Edge(dst, type)) ELSE ns[m].succ
                /\ r[m].pred = IF m = dst THEN Append(ns[m].pred, Edge(src, type)) ELSE ns[m].pred
    BY <2>5, <2>9, <2>10, <2>11
  <2> QED BY <1>2, <2>9, <2>12, <2>13 DEF IsAdded, r
<1> QED BY <1>1, <1>2

LEMMA NodeFields ==
  ASSUME NEW x \in Node
  PROVE  /\ x.addr \in Nat /\ x.size \in Nat \ {0} /\ x.next \in Nat /\ x.exits \in Nat
         /\ x.insns \in Seq(Insn) \ {<< >>} /\ Len(x.insns) \in Nat \ {0}
         /\ \A k \in 1 .. Len(x.insns) : x.insns[k] \in Insn /\ x.insns[k].at \in Nat
         /\ x.succ \in Seq(EdgeType) /\ Len(x.succ) \in Nat
         /\ \A k \in 1 .. Len(x.succ) : x.succ[k] \in EdgeType
         /\ x.pred \in Seq(EdgeType) /\ Len(x.pred) \in Nat
         /\ \A k \in 1 .. Len(x.pred) : x.pred[k] \in EdgeType
<1>1. /\ x.addr \in Nat /\ x.size \in Nat \ {0} /\ x.next \in Nat /\ x.exits \in Nat
      /\ x.insns \in Seq(Insn) \ {<< >>}
      /\ x.succ \in Seq(EdgeType) /\ x.pred \in Seq(EdgeType)
  BY DEF Node, EdgeType, Types
<1>2. /\ Len(x.insns) \in Nat \ {0} /\ Len(x.succ) \in Nat /\ Len(x.pred) \in Nat
  BY <1>1, EmptySeq, LenProperties
<1>3. /\ \A k \in 1 .. Len(x.insns) : x.insns[k] \in Insn
      /\ \A k \in 1 .. Len(x.succ) : x.succ[k] \in EdgeType
      /\ \A k \in 1 .. Len(x.pred) : x.pred[k] \in EdgeType
  BY <1>1, ElementOfSeq
<1>4. \A y \in Insn : y.at \in Nat
  BY DEF Insn
<1> QED BY <1>1, <1>2, <1>3, <1>4

(* r is nodes after node m was cut before its instruction j.               *)
IsSplit(r, m, j) ==
  LET tail == Len(nodes) + 1
  IN  /\ r \in Seq(Node) /\ Len(r) = tail
      /\ \A d \in Ids : d # m =>
           /\ r[d].addr = nodes[d].addr /\ r[d].size = nodes[d].size
           /\ r[d].insns = nodes[d].insns /\ r[d].next = nodes[d].next
           /\ r[d].exits = nodes[d].exits /\ r[d].succ = nodes[d].succ
      /\ r[m].addr = nodes[m].addr
      /\ r[m].size = nodes[m].insns[j].at - nodes[m].addr
      /\ r[m].insns = SubSeq(nodes[m].insns, 1, j - 1)
      /\ r[m].next = tail /\ r[m].exits = nodes[m].exits
      /\ r[m].succ = <<Edge(tail, "FALLTHROUGH")>>
      /\ r[tail].addr = nodes[m].insns[j].at
      /\ r[tail].size = nodes[m].addr + nodes[m].size - nodes[m].insns[j].at
      /\ r[tail].insns = SubSeq(nodes[m].insns, j, Len(nodes[m].insns))
      /\ r[tail].next = nodes[m].next /\ r[tail].exits = nodes[m].exits
      /\ r[tail].succ = nodes[m].succ
      /\ r[tail].pred = <<Edge(m, "FALLTHROUGH")>>
      /\ \A d \in Ids :
           /\ Len(r[d].pred) = Len(nodes[d].pred)
           /\ \A k \in 1 .. Len(nodes[d].pred) :
                r[d].pred[k] =
                  IF HasEdge(nodes, m, d) /\ nodes[d].pred[k].node = m
                  THEN Edge(tail, nodes[d].pred[k].type) ELSE nodes[d].pred[k]

LEMMA SplitFacts ==
  ASSUME IsGraph(nodes), NEW m \in Ids, NEW j \in 2 .. Len(nodes[m].insns),
         nodes[m].addr < nodes[m].insns[j].at,
         nodes[m].insns[j].at < nodes[m].addr + nodes[m].size
  PROVE  IsSplit(Split(m, j), m, j)
<1> DEFINE tail == Len(nodes) + 1
           h    == HeadOf(m, j)
           t    == RestOf(m, j)
           c    == Append([nodes EXCEPT ![m] = h], t)
           p    == Repoint(c, m, tail)
           r    == Split(m, j)
<1>1. /\ Len(nodes) \in Nat /\ nodes \in Seq(Node) /\ nodes[m] \in Node /\ tail \in Nat
  BY ElementOfSeq, LenProperties DEF IsGraph, Ids
<1>2. /\ nodes[m].insns \in Seq(Insn) /\ Len(nodes[m].insns) \in Nat
      /\ \A k \in 1 .. Len(nodes[m].insns) : nodes[m].insns[k] \in Insn
      /\ nodes[m].insns[j].at \in Nat
  BY <1>1, NodeFields
<1>3. /\ SubSeq(nodes[m].insns, 1, j - 1) \in Seq(Insn) \ {<< >>}
      /\ SubSeq(nodes[m].insns, j, Len(nodes[m].insns)) \in Seq(Insn) \ {<< >>}
  <2>1. /\ SubSeq(nodes[m].insns, 1, j - 1) \in Seq(Insn)
        /\ Len(SubSeq(nodes[m].insns, 1, j - 1)) = j - 1
    BY <1>2, SubSeqProperties
  <2>2. /\ SubSeq(nodes[m].insns, j, Len(nodes[m].insns)) \in Seq(Insn)
        /\ Len(SubSeq(nodes[m].insns, j, Len(nodes[m].insns))) = Len(nodes[m].insns) - j + 1
    BY <1>2, SubSeqProperties
  <2>3. Len(SubSeq(nodes[m].insns, 1, j - 1)) # 0
        /\ Len(SubSeq(nodes[m].insns, j, Len(nodes[m].insns))) # 0
    BY <1>2, <2>1, <2>2
  <2>4. Len(<< >>) = 0
    BY EmptySeq
  <2> QED BY <2>1, <2>2, <2>3, <2>4
<1>4. /\ h \in Node
      /\ h.addr = nodes[m].addr /\ h.size = nodes[m].insns[j].at - nodes[m].addr
      /\ h.insns = SubSeq(nodes[m].insns, 1, j - 1) /\ h.next = tail
      /\ h.exits = nodes[m].exits /\ h.succ = << >> /\ h.pred = nodes[m].pred
  <2> DEFINE size  == nodes[m].insns[j].at - nodes[m].addr
             insns == SubSeq(nodes[m].insns, 1, j - 1)
  <2>0. nodes[m].addr \in Nat
    BY <1>1, NodeFields
  <2>1. size \in Nat \ {0}
    BY <1>2, <2>0
  <2>2. h = [nodes[m] EXCEPT !.size = size, !.insns = insns, !.next = tail, !.succ = << >>]
    BY DEF HeadOf
  <2> HIDE DEF size, insns, tail, h
  <2>3. insns \in Seq(Insn) \ {<< >>}
    BY <1>3 DEF insns
  <2>4. tail \in Nat
    BY <1>1 DEF tail
  <2>5. /\ h \in Node /\ h.addr = nodes[m].addr /\ h.size = size /\ h.insns = insns
        /\ h.next = tail /\ h.exits = nodes[m].exits /\ h.succ = << >> /\ h.pred = nodes[m].pred
    <3> DEFINE x == nodes[m]
    <3>1. x \in Node
      BY <1>1
    <3> HIDE DEF x
    <3>2. LET g == [x EXCEPT !.size = size, !.insns = insns, !.next = tail, !.succ = << >>]
          IN  /\ g \in Node /\ g.addr = x.addr /\ g.size = size /\ g.insns = insns
              /\ g.next = tail /\ g.exits = x.exits /\ g.succ = << >> /\ g.pred = x.pred
      BY <3>1, <2>1, <2>3, <2>4, EmptySeq DEF Node
    <3> QED BY <3>2, <2>2 DEF x
  <2> QED BY <2>5 DEF size, insns
<1>5. /\ t \in Node
      /\ t.addr = nodes[m].insns[j].at
      /\ t.size = nodes[m].addr + nodes[m].size - nodes[m].insns[j].at
      /\ t.insns = SubSeq(nodes[m].insns, j, Len(nodes[m].insns))
      /\ t.next = nodes[m].next /\ t.exits = nodes[m].exits
      /\ t.succ = nodes[m].succ /\ t.pred = << >>
  <2>1. /\ nodes[m].addr \in Nat /\ nodes[m].size \in Nat
        /\ nodes[m].addr + nodes[m].size - nodes[m].insns[j].at \in Nat \ {0}
    BY <1>1, <1>2, NodeFields, SMTT(30)
  <2> DEFINE addr  == nodes[m].insns[j].at
             size  == nodes[m].addr + nodes[m].size - nodes[m].insns[j].at
             insns == SubSeq(nodes[m].insns, j, Len(nodes[m].insns))
  <2>2. t = [nodes[m] EXCEPT !.addr = addr, !.size = size, !.insns = insns, !.pred = << >>]
    BY DEF RestOf
  <2>3. addr \in Nat /\ size \in Nat \ {0} /\ insns \in Seq(Insn) \ {<< >>}
    BY <1>2, <1>3, <2>1
  <2> HIDE DEF addr, size, insns, t
  <2>4. /\ t \in Node /\ t.addr = addr /\ t.size = size /\ t.insns = insns
        /\ t.next = nodes[m].next /\ t.exits = nodes[m].exits /\ t.succ = nodes[m].succ
        /\ t.pred = << >>
    <3> DEFINE x == nodes[m]
    <3>1. x \in Node
      BY <1>1
    <3> HIDE DEF x
    <3>2. LET g == [x EXCEPT !.addr = addr, !.size = size, !.insns = insns, !.pred = << >>]
          IN  /\ g \in Node /\ g.addr = addr /\ g.size = size /\ g.insns = insns
              /\ g.next = x.next /\ g.exits = x.exits /\ g.succ = x.succ /\ g.pred = << >>
      BY <3>1, <2>3, EmptySeq DEF Node
    <3> QED BY <3>2, <2>2 DEF x
  <2> QED BY <2>4 DEF addr, size, insns
<1>6. /\ c \in Seq(Node) /\ Len(c) = tail /\ c[tail] = t
      /\ \A d \in Ids : c[d] = IF d = m THEN h ELSE nodes[d]
  <2> HIDE DEF h, t
  <2>1. /\ [nodes EXCEPT ![m] = h] \in Seq(Node)
        /\ Len([nodes EXCEPT ![m] = h]) = Len(nodes)
        /\ \A d \in Ids : [nodes EXCEPT ![m] = h][d] = IF d = m THEN h ELSE nodes[d]
    BY <1>1, <1>4, ExceptSeq DEF Ids
  <2> QED BY <2>1, <1>1, <1>5, AppendProperties DEF Ids
<1>7. \A d \in 1 .. tail : HasEdge(c, tail, d) <=> HasEdge(nodes, m, d)
  BY <1>5, <1>6 DEF HasEdge
<1> DEFINE NewPred(d) ==
      IF HasEdge(nodes, m, d)
      THEN [k \in 1 .. Len(c[d].pred) |->
              IF c[d].pred[k].node = m THEN [c[d].pred[k] EXCEPT !.node = tail] ELSE c[d].pred[k]]
      ELSE c[d].pred
<1>8. ASSUME NEW d \in 1 .. tail
      PROVE  /\ NewPred(d) \in Seq(EdgeType) /\ Len(NewPred(d)) = Len(c[d].pred)
             /\ \A k \in 1 .. Len(c[d].pred) :
                  NewPred(d)[k] = IF HasEdge(nodes, m, d) /\ c[d].pred[k].node = m
                                  THEN Edge(tail, c[d].pred[k].type) ELSE c[d].pred[k]
  <2>1. c[d].pred \in Seq(EdgeType) /\ Len(c[d].pred) \in Nat
    <3>1. c[d] \in Node
      <4> HIDE DEF c
      <4> QED BY <1>6, ElementOfSeq
    <3> HIDE DEF c
    <3> QED BY <3>1, NodeFields
  <2> DEFINE q == c[d].pred
  <2>2. ASSUME NEW k \in 1 .. Len(q)
        PROVE  /\ q[k] \in EdgeType
               /\ [q[k] EXCEPT !.node = tail] = Edge(tail, q[k].type)
               /\ Edge(tail, q[k].type) \in EdgeType
    <3>1. q[k] \in EdgeType
      BY <2>1, ElementOfSeq
    <3> QED BY <3>1, <1>1 DEF EdgeType, Edge
  <2> HIDE DEF q
  <2>3. [k \in 1 .. Len(q) |->
              IF q[k].node = m THEN [q[k] EXCEPT !.node = tail] ELSE q[k]] \in Seq(EdgeType)
    BY <2>1, <2>2, IsASeq DEF q
  <2> QED BY <2>1, <2>2, <2>3 DEF q
<1>9. p = [d \in 1 .. tail |-> [c[d] EXCEPT !.pred = NewPred(d)]]
  <2>1. ASSUME NEW d \in 1 .. tail
        PROVE  c[d] = [c[d] EXCEPT !.pred = c[d].pred]
    <3>1. c[d] \in Node
      <4> HIDE DEF c
      <4> QED BY <1>6, ElementOfSeq
    <3> HIDE DEF c
    <3> QED BY <3>1 DEF Node
  <2>2. p = [d \in 1 .. tail |->
              IF HasEdge(c, tail, d)
              THEN [c[d] EXCEPT !.pred =
                     [k \in 1 .. Len(@) |-> IF @[k].node = m THEN [@[k] EXCEPT !.node = tail] ELSE @[k]]]
              ELSE c[d]]
    BY <1>6 DEF Repoint
  <2> HIDE DEF c, p
  <2> QED BY <2>1, <2>2, <1>7
<1>10. ASSUME NEW d \in 1 .. tail
       PROVE  /\ p[d] \in Node /\ p[d].pred = NewPred(d)
              /\ p[d].addr = c[d].addr /\ p[d].size = c[d].size /\ p[d].insns = c[d].insns
              /\ p[d].next = c[d].next /\ p[d].exits = c[d].exits /\ p[d].succ = c[d].succ
  <2>1. c[d] \in Node
    BY <1>6, <1>1, ElementOfSeq
  <2>2. p[d] = [c[d] EXCEPT !.pred = NewPred(d)]
    BY <1>9
  <2> HIDE DEF NewPred, p, c
  <2> QED BY <2>1, <2>2, <1>8 DEF Node, EdgeType, Types
<1>11. p \in Seq(Node) /\ Len(p) = tail
  <2>1. p \in [1 .. tail -> Node]
    <3> HIDE DEF NewPred, c
    <3> QED BY <1>9, <1>10
  <2> HIDE DEF p
  <2> QED BY <2>1, <1>1
<1>12. IsGraph(p)
  <2> SUFFICES ASSUME NEW d \in 1 .. tail
               PROVE  /\ p[d].next \in 0 .. tail
                      /\ \A k \in 1 .. Len(p[d].succ) : p[d].succ[k].node \in 1 .. tail
                      /\ \A k \in 1 .. Len(p[d].pred) : p[d].pred[k].node \in 1 .. tail
    BY <1>11 DEF IsGraph
  <2>1. /\ c[d].next \in 0 .. tail
        /\ \A k \in 1 .. Len(c[d].succ) : c[d].succ[k].node \in 1 .. tail
        /\ \A k \in 1 .. Len(c[d].pred) : c[d].pred[k].node \in 1 .. tail
    <3> HIDE DEF h, t, c
    <3>1. \A e \in Ids :
            /\ nodes[e].next \in 0 .. Len(nodes)
            /\ \A k \in 1 .. Len(nodes[e].succ) : nodes[e].succ[k].node \in 1 .. Len(nodes)
            /\ \A k \in 1 .. Len(nodes[e].pred) : nodes[e].pred[k].node \in 1 .. Len(nodes)
      BY DEF IsGraph, Ids
    <3>2. CASE d = tail
      BY <1>1, <1>5, <1>6, <3>1, <3>2, EmptySeq
    <3>3. CASE d = m
      BY <1>1, <1>4, <1>6, <3>1, <3>3, EmptySeq, SMTT(30)
    <3>4. CASE d \in Ids /\ d # m
      BY <1>1, <1>6, <3>1, <3>4, SMTT(30)
    <3> QED BY <1>1, <3>2, <3>3, <3>4 DEF Ids
  <2>2. \A k \in 1 .. Len(p[d].pred) : p[d].pred[k].node \in {tail, c[d].pred[k].node}
    <3>1. \A type : Edge(tail, type).node = tail
      BY DEF Edge
    <3> HIDE DEF NewPred, c, p, h, t, tail
    <3> QED BY <3>1, <1>8, <1>10
  <2>3. Len(p[d].pred) = Len(c[d].pred) /\ p[d].succ = c[d].succ /\ p[d].next = c[d].next
    <3> HIDE DEF NewPred, c, p, h, t
    <3> QED BY <1>8, <1>10
  <2>4. tail \in 1 .. tail
    BY <1>1
  <2> HIDE DEF NewPred, c, p, h, t, tail
  <2> QED BY <2>1, <2>2, <2>3, <2>4
<1>13. ~HasEdge(p, m, tail)
  <2>1. p[m].succ = << >>
    <3> HIDE DEF NewPred, c, p, h, t
    <3> QED BY <1>1, <1>4, <1>6, <1>10 DEF Ids
  <2> HIDE DEF p
  <2> QED BY <2>1, EmptySeq DEF HasEdge
<1>14. /\ r \in Seq(Node) /\ SameCode(p, r)
       /\ \A d \in 1 .. tail :
            /\ r[d].succ = IF d = m THEN Append(p[d].succ, Edge(tail, "FALLTHROUGH")) ELSE p[d].succ
            /\ r[d].pred = IF d = tail THEN Append(p[d].pred, Edge(m, "FALLTHROUGH")) ELSE p[d].pred
  <2>1. r = AddEdge(p, m, tail, "FALLTHROUGH")
    BY DEF Split
  <2> HIDE DEF p, r
  <2>2. m \in 1 .. Len(p) /\ tail \in 1 .. Len(p) /\ "FALLTHROUGH" \in Types
    BY <1>1, <1>11 DEF Types, Ids
  <2> HIDE DEF tail
  <2>3. IsAdded(p, AddEdge(p, m, tail, "FALLTHROUGH"), m, tail, "FALLTHROUGH")
    BY <2>2, <1>12, AddEdgeFacts
  <2> QED BY <2>1, <2>3, <1>11, <1>13 DEF IsAdded
<1>15. NewPred(tail) = << >>
  <2>1. c[tail].pred = << >>
    BY <1>5, <1>6
  <2>2. NewPred(tail) \in Seq(EdgeType) /\ Len(NewPred(tail)) = 0
    BY <2>1, <1>8, <1>1
  <2> HIDE DEF NewPred
  <2> QED BY <2>2, EmptySeq
<1>16. \A d \in Ids : c[d].pred = nodes[d].pred
  BY <1>4, <1>6
<1> HIDE DEF NewPred, c, p, h, t, r
<1>17. ASSUME NEW d \in 1 .. tail
       PROVE  /\ r[d].addr = c[d].addr /\ r[d].size = c[d].size /\ r[d].insns = c[d].insns
              /\ r[d].next = c[d].next /\ r[d].exits = c[d].exits
              /\ r[d].succ = IF d = m THEN Append(c[d].succ, Edge(tail, "FALLTHROUGH")) ELSE c[d].succ
              /\ r[d].pred = IF d = tail THEN Append(NewPred(d), Edge(m, "FALLTHROUGH")) ELSE NewPred(d)
  BY <1>10, <1>11, <1>14 DEF SameCode
<1>18. ASSUME NEW d \in Ids, d # m
       PROVE  /\ r[d].addr = nodes[d].addr /\ r[d].size = nodes[d].size
              /\ r[d].insns = nodes[d].insns /\ r[d].next = nodes[d].next
              /\ r[d].exits = nodes[d].exits /\ r[d].succ = nodes[d].succ
  <2>1. d \in 1 .. tail /\ c[d] = nodes[d]
    BY <1>1, <1>6, <1>18 DEF Ids
  <2> QED BY <2>1, <1>17, <1>18
<1>19. /\ r[m].addr = h.addr /\ r[m].size = h.size /\ r[m].insns = h.insns
       /\ r[m].next = h.next /\ r[m].exits = h.exits
       /\ r[m].succ = <<Edge(tail, "FALLTHROUGH")>>
  <2>1. m \in 1 .. tail /\ c[m] = h
    BY <1>1, <1>6 DEF Ids
  <2>2. Append(<< >>, Edge(tail, "FALLTHROUGH")) = <<Edge(tail, "FALLTHROUGH")>>
    OBVIOUS
  <2> QED BY <2>1, <2>2, <1>4, <1>17
<1>20. /\ r[tail].addr = t.addr /\ r[tail].size = t.size /\ r[tail].insns = t.insns
       /\ r[tail].next = t.next /\ r[tail].exits = t.exits /\ r[tail].succ = t.succ
       /\ r[tail].pred = <<Edge(m, "FALLTHROUGH")>>
  <2>1. tail \in 1 .. tail /\ c[tail] = t /\ tail # m
    BY <1>1, <1>6 DEF Ids
  <2>2. Append(<< >>, Edge(m, "FALLTHROUGH")) = <<Edge(m, "FALLTHROUGH")>>
    OBVIOUS
  <2> QED BY <2>1, <2>2, <1>15, <1>17
<1>21. ASSUME NEW d \in Ids
       PROVE  /\ Len(r[d].pred) = Len(nodes[d].pred)
              /\ \A k \in 1 .. Len(nodes[d].pred) :
                   r[d].pred[k] =
                     IF HasEdge(nodes, m, d) /\ nodes[d].pred[k].node = m
                     THEN Edge(tail, nodes[d].pred[k].type) ELSE nodes[d].pred[k]
  <2>1. d \in 1 .. tail /\ d # tail
    BY <1>1 DEF Ids
  <2>2. r[d].pred = NewPred(d)
    BY <2>1, <1>17
  <2> QED BY <2>1, <2>2, <1>8, <1>16
<1> HIDE DEF tail
<1> QED BY <1>4, <1>5, <1>11, <1>14, <1>18, <1>19, <1>20, <1>21 DEF IsSplit, SameCode, r, tail

-----------------------------------------------------------------------------
(* The invariants of a graph, for any sequence of nodes.                   *)

Within(ns, m, a) == ns[m].addr <= a /\ a < ns[m].addr + ns[m].size

InsnsIn(ns, m) ==
  /\ ns[m].insns[1].at = ns[m].addr
  /\ \A j, l \in 1 .. Len(ns[m].insns) :
       /\ Within(ns, m, ns[m].insns[j].at)
       /\ j < l => ns[m].insns[j].at < ns[m].insns[l].at

NextIn(ns, m) ==
  /\ ns[m].next = 0 <=> \A d \in 1 .. Len(ns) : ns[d].addr <= ns[m].addr
  /\ ns[m].next # 0 =>
       /\ ns[m].addr + ns[m].size <= ns[ns[m].next].addr
       /\ \A d \in 1 .. Len(ns) : ns[d].addr <= ns[m].addr \/ ns[ns[m].next].addr <= ns[d].addr

TiledIn(ns) ==
  /\ \A m \in 1 .. Len(ns) : InsnsIn(ns, m) /\ NextIn(ns, m)
  /\ \A m, d \in 1 .. Len(ns) : m # d => ns[m].addr # ns[d].addr
  /\ \A m \in 1 .. Len(ns) : ns[1].addr <= ns[m].addr

(* Only the last instruction of a block leaves it.                         *)
Silent(ns) ==
  \A m \in 1 .. Len(ns) : \A j \in 1 .. Len(ns[m].insns) :
    j < Len(ns[m].insns) => ns[m].insns[j].exits = 0

MirrorIn(ns) ==
  /\ \A m, d \in 1 .. Len(ns) : \A type \in Types :
       Edge(d, type) \in ToSet(ns[m].succ) <=> Edge(m, type) \in ToSet(ns[d].pred)
  /\ \A m \in 1 .. Len(ns) :
       /\ \A k, l \in 1 .. Len(ns[m].succ) : ns[m].succ[k].node = ns[m].succ[l].node => k = l
       /\ \A k, l \in 1 .. Len(ns[m].pred) : ns[m].pred[k].node = ns[m].pred[l].node => k = l

FallsToNext(ns) ==
  \A m \in 1 .. Len(ns) : \A k \in 1 .. Len(ns[m].succ) :
    ns[m].succ[k].type = "FALLTHROUGH" => ns[m].succ[k].node = ns[m].next

LEMMA TiledIsIn == Tiled <=> TiledIn(nodes)
BY DEF Tiled, TiledIn, InsnsIn, NextIn, Within, InBlock, Ids

LEMMA GraphFields ==
  ASSUME NEW ns, IsGraph(ns)
  PROVE  /\ Len(ns) \in Nat
         /\ \A m \in 1 .. Len(ns) : /\ ns[m] \in Node
                                     /\ ns[m].addr \in Nat /\ ns[m].size \in Nat \ {0}
                                     /\ ns[m].next \in 0 .. Len(ns) /\ ns[m].exits \in Nat
                                     /\ Len(ns[m].insns) \in Nat \ {0}
                                     /\ \A k \in 1 .. Len(ns[m].insns) : ns[m].insns[k].at \in Nat
<1>1. Len(ns) \in Nat /\ \A m \in 1 .. Len(ns) : ns[m] \in Node
  BY LenProperties, ElementOfSeq DEF IsGraph
<1> QED BY <1>1, NodeFields DEF IsGraph

(* A block ends before the next one starts, so that an address is in at    *)
(* most one.                                                               *)
LEMMA InOrder ==
  ASSUME NEW ns, IsGraph(ns), TiledIn(ns),
         NEW m \in 1 .. Len(ns), NEW d \in 1 .. Len(ns), ns[m].addr < ns[d].addr
  PROVE  /\ ns[m].next # 0
         /\ ns[m].addr + ns[m].size <= ns[ns[m].next].addr
         /\ ns[ns[m].next].addr <= ns[d].addr
<1>1. NextIn(ns, m)
  BY DEF TiledIn
<1>2. /\ ns[m].addr \in Nat /\ ns[d].addr \in Nat
  BY GraphFields
<1> QED BY <1>1, <1>2 DEF NextIn

LEMMA OneBlock ==
  ASSUME NEW ns, IsGraph(ns), TiledIn(ns), NEW a \in Nat,
         NEW m \in 1 .. Len(ns), NEW d \in 1 .. Len(ns), Within(ns, m, a), Within(ns, d, a)
  PROVE  m = d
<1>1. \A e \in 1 .. Len(ns) : ns[e].addr \in Nat /\ ns[e].size \in Nat /\ ns[e].next \in 0 .. Len(ns)
  BY GraphFields
<1>2. ASSUME NEW x \in 1 .. Len(ns), NEW y \in 1 .. Len(ns), ns[x].addr < ns[y].addr
      PROVE  ~(Within(ns, x, a) /\ Within(ns, y, a))
  <2>1. /\ ns[x].next # 0 /\ ns[x].addr + ns[x].size <= ns[ns[x].next].addr
        /\ ns[ns[x].next].addr <= ns[y].addr
    BY <1>2, InOrder
  <2>2. ns[x].next \in 1 .. Len(ns)
    BY <2>1, <1>1
  <2>3. /\ ns[ns[x].next].addr \in Nat /\ ns[x].addr \in Nat /\ ns[x].size \in Nat
        /\ ns[y].addr \in Nat
    BY <1>1, <2>2
  <2> DEFINE end   == ns[x].addr + ns[x].size
             next  == ns[ns[x].next].addr
             start == ns[y].addr
  <2>4. /\ end \in Nat /\ next \in Nat /\ start \in Nat
        /\ end <= next /\ next <= start
    BY <2>1, <2>3, SMTT(30)
  <2>5. /\ Within(ns, x, a) => a < end
        /\ Within(ns, y, a) => start <= a
    BY DEF Within
  <2> HIDE DEF end, next, start
  <2>6. end <= start
    BY <2>4
  <2> QED BY <2>4, <2>5, <2>6
<1>3. ns[m].addr = ns[d].addr
  BY <1>1, <1>2
<1> QED BY <1>3 DEF TiledIn

(* The instruction at an address is the first of its block if the block    *)
(* starts there.                                                           *)
LEMMA AtStart ==
  ASSUME NEW ns, IsGraph(ns), TiledIn(ns),
         NEW m \in 1 .. Len(ns), NEW d \in 1 .. Len(ns), NEW j \in 1 .. Len(ns[d].insns),
         ns[d].insns[j].at = ns[m].addr
  PROVE  d = m /\ j = 1
<1>1. /\ Len(ns[d].insns) \in Nat \ {0} /\ ns[m].addr \in Nat /\ ns[m].size \in Nat \ {0}
      /\ \A k \in 1 .. Len(ns[d].insns) : ns[d].insns[k].at \in Nat
  BY GraphFields
<1>2. InsnsIn(ns, d)
  BY DEF TiledIn
<1>3. Within(ns, d, ns[m].addr) /\ Within(ns, m, ns[m].addr)
  BY <1>1, <1>2 DEF InsnsIn, Within
<1>4. d = m
  BY <1>1, <1>3, OneBlock
<1>5. 1 \in 1 .. Len(ns[d].insns)
  BY <1>1
<1>6. ~(1 < j)
  BY <1>1, <1>2, <1>4, <1>5 DEF InsnsIn
<1> QED BY <1>1, <1>4, <1>6

-----------------------------------------------------------------------------
(* What a split does to the tiling.                                        *)

(* The node and the place are fit to be cut.                               *)
Cuttable(m, j) ==
  /\ m \in Ids /\ j \in 2 .. Len(nodes[m].insns)
  /\ nodes[m].addr < nodes[m].insns[j].at
  /\ nodes[m].insns[j].at < nodes[m].addr + nodes[m].size

LEMMA InsnsSplit ==
  ASSUME IsGraph(nodes), NEW m, NEW j, Cuttable(m, j), NEW r, IsSplit(r, m, j)
  PROVE  LET tail == Len(nodes) + 1
         IN  /\ Len(r[m].insns) = j - 1
             /\ \A k \in 1 .. (j - 1) : r[m].insns[k] = nodes[m].insns[k]
             /\ Len(r[tail].insns) = Len(nodes[m].insns) - j + 1
             /\ \A k \in 1 .. (Len(nodes[m].insns) - j + 1) :
                  r[tail].insns[k] = nodes[m].insns[j + k - 1]
<1>1. nodes[m] \in Node
  BY GraphFields DEF Cuttable, Ids
<1>2. /\ Len(nodes[m].insns) \in Nat
      /\ \A k \in 1 .. Len(nodes[m].insns) : nodes[m].insns[k] \in Insn
  BY <1>1, NodeFields
<1>3. j \in 2 .. Len(nodes[m].insns)
  BY DEF Cuttable
<1> DEFINE s == nodes[m].insns
           h == SubSeq(s, 1, j - 1)
           t == SubSeq(s, j, Len(s))
<1>4. Len(h) = j - 1 /\ \A k \in 1 .. (j - 1) : h[k] = s[k]
  <2> HIDE DEF s
  <2>1. j - 1 \in Int /\ \A k \in 1 .. j - 1 : s[k] \in Insn
    BY <1>2, <1>3 DEF s
  <2>2. /\ Len(h) = IF 1 <= j - 1 THEN j - 1 - 1 + 1 ELSE 0
        /\ \A k \in 1 .. j - 1 - 1 + 1 : h[k] = s[1 + k - 1]
    BY <2>1, SubSeqProperties
  <2> HIDE DEF h
  <2> QED BY <2>2, <1>3
<1>5. Len(t) = Len(s) - j + 1 /\ \A k \in 1 .. (Len(s) - j + 1) : t[k] = s[j + k - 1]
  <2> HIDE DEF s
  <2>1. Len(s) \in Int /\ \A k \in j .. Len(s) : s[k] \in Insn
    BY <1>2, <1>3 DEF s
  <2>2. /\ Len(t) = IF j <= Len(s) THEN Len(s) - j + 1 ELSE 0
        /\ \A k \in 1 .. Len(s) - j + 1 : t[k] = s[j + k - 1]
    BY <2>1, <1>3, SubSeqProperties
  <2> HIDE DEF t
  <2> QED BY <2>2, <1>3 DEF s
<1> QED BY <1>4, <1>5 DEF IsSplit

LEMMA SplitGraph ==
  ASSUME IsGraph(nodes), NEW m, NEW j, Cuttable(m, j), NEW r, IsSplit(r, m, j)
  PROVE  IsGraph(r)
<1> DEFINE tail == Len(nodes) + 1
<1>1. /\ r \in Seq(Node) /\ Len(r) = tail /\ m \in Ids
      /\ Len(nodes) \in Nat
  BY GraphFields DEF IsSplit, Cuttable
<1> SUFFICES ASSUME NEW d \in 1 .. tail
             PROVE  /\ r[d].next \in 0 .. tail
                    /\ \A k \in 1 .. Len(r[d].succ) : r[d].succ[k].node \in 1 .. tail
                    /\ \A k \in 1 .. Len(r[d].pred) : r[d].pred[k].node \in 1 .. tail
  BY <1>1 DEF IsGraph
<1>2. \A e \in Ids :
        /\ nodes[e].next \in 0 .. Len(nodes)
        /\ \A k \in 1 .. Len(nodes[e].succ) : nodes[e].succ[k].node \in 1 .. Len(nodes)
        /\ \A k \in 1 .. Len(nodes[e].pred) : nodes[e].pred[k].node \in 1 .. Len(nodes)
  BY DEF IsGraph, Ids
<1>3. \A e, type : /\ Edge(e, type).node = e
                   /\ Len(<<Edge(e, type)>>) = 1 /\ <<Edge(e, type)>>[1] = Edge(e, type)
  BY DEF Edge
<1>4. CASE d = tail
  <2>1. r[d].next = nodes[m].next /\ r[d].succ = nodes[m].succ /\ r[d].pred = <<Edge(m, "FALLTHROUGH")>>
    BY <1>4 DEF IsSplit
  <2> QED BY <2>1, <1>1, <1>2, <1>3 DEF Ids
<1>5. CASE d \in Ids
  <2>1. \A k \in 1 .. Len(r[d].pred) : r[d].pred[k].node \in 1 .. tail
    <3>1. /\ Len(r[d].pred) = Len(nodes[d].pred)
          /\ \A k \in 1 .. Len(nodes[d].pred) :
               r[d].pred[k] = Edge(tail, nodes[d].pred[k].type) \/ r[d].pred[k] = nodes[d].pred[k]
      BY <1>5 DEF IsSplit
    <3>2. \A k \in 1 .. Len(nodes[d].pred) : nodes[d].pred[k].node \in 1 .. tail
      BY <1>1, <1>2, <1>5
    <3>3. tail \in 1 .. tail
      BY <1>1
    <3> HIDE DEF tail
    <3> QED BY <3>1, <3>2, <3>3, <1>3, SMTT(30)
  <2>2. CASE d = m
    <3>1. r[d].next = tail /\ r[d].succ = <<Edge(tail, "FALLTHROUGH")>>
      BY <2>2 DEF IsSplit
    <3> QED BY <2>1, <3>1, <1>1, <1>3
  <2>3. CASE d # m
    <3>1. r[d].next = nodes[d].next /\ r[d].succ = nodes[d].succ
      BY <1>5, <2>3 DEF IsSplit
    <3> QED BY <2>1, <3>1, <1>1, <1>2, <1>5
  <2> QED BY <2>2, <2>3
<1> QED BY <1>1, <1>4, <1>5 DEF Ids

LEMMA SplitTiled ==
  ASSUME IsGraph(nodes), TiledIn(nodes), NEW m, NEW j, Cuttable(m, j),
         NEW r, IsSplit(r, m, j)
  PROVE  TiledIn(r)
<1> DEFINE tail == Len(nodes) + 1
           a    == nodes[m].insns[j].at
           len  == Len(nodes[m].insns)
<1>1. /\ Len(nodes) \in Nat /\ len \in Nat /\ a \in Nat
      /\ m \in Ids /\ j \in 2 .. len
      /\ nodes[m].addr < a /\ a < nodes[m].addr + nodes[m].size
  BY GraphFields DEF Cuttable, Ids
<1>2. \A d \in Ids : /\ nodes[d].addr \in Nat /\ nodes[d].size \in Nat
                     /\ nodes[d].next \in 0 .. Len(nodes)
                     /\ \A k \in 1 .. Len(nodes[d].insns) : nodes[d].insns[k].at \in Nat
  BY GraphFields DEF Ids
<1>3. Len(r) = tail /\ 1 .. tail = Ids \cup {tail} /\ tail \notin Ids
  BY <1>1, SMTT(30) DEF IsSplit, Ids
<1>4. /\ \A d \in Ids : r[d].addr = nodes[d].addr
      /\ r[tail].addr = a
      /\ r[m].size = a - nodes[m].addr /\ r[m].next = tail
      /\ r[tail].size = nodes[m].addr + nodes[m].size - a /\ r[tail].next = nodes[m].next
      /\ \A d \in Ids \ {m} : r[d].size = nodes[d].size /\ r[d].insns = nodes[d].insns
                               /\ r[d].next = nodes[d].next
  BY DEF IsSplit
(* Seen from any other node, the two halves are where the node was.        *)
<1>5. ASSUME NEW d \in Ids, d # m
      PROVE  \/ nodes[d].addr < nodes[m].addr
             \/ a < nodes[d].addr /\ nodes[m].addr < nodes[d].addr
  <2>1. nodes[d].addr # nodes[m].addr
    BY <1>1, <1>5 DEF TiledIn, Ids
  <2>2. CASE nodes[m].addr < nodes[d].addr
    <3>1. /\ nodes[m].next # 0
          /\ nodes[m].addr + nodes[m].size <= nodes[nodes[m].next].addr
          /\ nodes[nodes[m].next].addr <= nodes[d].addr
      BY <1>1, <2>2, InOrder DEF Ids
    <3>2. nodes[nodes[m].next].addr \in Nat
      BY <3>1, <1>1, <1>2 DEF Ids
    <3>3. nodes[m].addr \in Nat /\ nodes[m].size \in Nat /\ nodes[d].addr \in Nat
      BY <1>1, <1>2
    <3>4. a < nodes[m].addr + nodes[m].size /\ a \in Nat
      BY <1>1
    <3> HIDE DEF a
    <3> QED BY <3>1, <3>2, <3>3, <3>4, <2>2
  <2> QED BY <1>1, <1>2, <2>1, <2>2
<1>6. \A d \in Ids : InsnsIn(nodes, d) /\ NextIn(nodes, d)
  BY DEF TiledIn, Ids
<1> HIDE DEF a
<1>61. /\ \A k \in 1 .. len : /\ nodes[m].insns[k].at \in Nat
                              /\ nodes[m].addr <= nodes[m].insns[k].at
                              /\ nodes[m].insns[k].at < nodes[m].addr + nodes[m].size
       /\ \A k, l \in 1 .. len : k < l => nodes[m].insns[k].at < nodes[m].insns[l].at
       /\ nodes[m].insns[1].at = nodes[m].addr
       /\ nodes[m].addr \in Nat /\ nodes[m].size \in Nat
  BY <1>1, <1>2, <1>6 DEF InsnsIn, Within
<1> HIDE DEF len
<1>62. \A d \in Ids :
         /\ nodes[d].next = 0 <=> \A e \in Ids : nodes[e].addr <= nodes[d].addr
         /\ nodes[d].next # 0 =>
              /\ nodes[d].addr + nodes[d].size <= nodes[nodes[d].next].addr
              /\ \A e \in Ids : nodes[e].addr <= nodes[d].addr
                                \/ nodes[nodes[d].next].addr <= nodes[e].addr
  BY <1>6 DEF NextIn, Ids
<1>63. \A d \in Ids : nodes[d].next # 0 => nodes[d].next \in Ids /\ nodes[nodes[d].next].addr \in Nat
  BY <1>1, <1>2 DEF Ids
<1>7. ASSUME NEW d \in 1 .. tail PROVE InsnsIn(r, d)
  <2>1. CASE d \in Ids /\ d # m
    BY <2>1, <1>4, <1>6 DEF InsnsIn, Within
  <2>2. CASE d = m
    <3>1. /\ Len(r[m].insns) = j - 1
          /\ \A k \in 1 .. (j - 1) : r[m].insns[k] = nodes[m].insns[k]
      BY InsnsSplit
    <3>2. \A k \in 1 .. (j - 1) : /\ nodes[m].insns[k].at < a
                                  /\ nodes[m].addr <= nodes[m].insns[k].at
                                  /\ nodes[m].insns[k].at \in Nat
      BY <1>1, <1>61 DEF a
    <3>3. \A k, l \in 1 .. (j - 1) : k < l => nodes[m].insns[k].at < nodes[m].insns[l].at
      <4>1. \A k \in 1 .. (j - 1) : k \in 1 .. len
        BY <1>1
      <4> QED BY <4>1, <1>61
    <3>4. nodes[m].insns[1].at = nodes[m].addr /\ 1 \in 1 .. (j - 1)
      BY <1>1, <1>61
    <3>5. r[m].addr = nodes[m].addr /\ r[m].size = a - nodes[m].addr /\ nodes[m].addr \in Nat
      BY <1>1, <1>2, <1>4
    <3>6. \A k \in 1 .. (j - 1) : Within(r, m, r[m].insns[k].at)
      <4> TAKE k \in 1 .. (j - 1)
      <4> DEFINE x == nodes[m].insns[k].at
      <4>1. r[m].insns[k].at = x /\ x \in Nat /\ x < a /\ nodes[m].addr <= x
        BY <3>1, <3>2
      <4> HIDE DEF x
      <4>2. nodes[m].addr + (a - nodes[m].addr) = a
        BY <3>5, <1>1
      <4> QED BY <4>1, <4>2, <3>5 DEF Within
    <3> QED BY <2>2, <3>1, <3>3, <3>4, <3>5, <3>6 DEF InsnsIn
  <2>3. CASE d = tail
    <3>1. /\ Len(r[tail].insns) = len - j + 1
          /\ \A k \in 1 .. (len - j + 1) : r[tail].insns[k] = nodes[m].insns[j + k - 1]
      BY InsnsSplit DEF len
    <3>2. \A k \in 1 .. (len - j + 1) : j + k - 1 \in 1 .. len
      BY <1>1
    <3>3. \A k \in 1 .. (len - j + 1) :
            /\ a <= nodes[m].insns[j + k - 1].at
            /\ nodes[m].insns[j + k - 1].at < nodes[m].addr + nodes[m].size
            /\ nodes[m].insns[j + k - 1].at \in Nat
      <4> TAKE k \in 1 .. (len - j + 1)
      <4>1. j < j + k - 1 \/ j + k - 1 = j
        BY <1>1
      <4>2. j + k - 1 \in 1 .. len
        BY <3>2
      <4>3. j \in 1 .. len /\ nodes[m].insns[j].at = a
        BY <1>1 DEF a
      <4> DEFINE l == j + k - 1
      <4>4. l \in 1 .. len /\ (j < l \/ l = j)
        BY <4>1, <4>2
      <4> HIDE DEF l
      <4>5. /\ nodes[m].insns[l].at \in Nat /\ nodes[m].insns[l].at < nodes[m].addr + nodes[m].size
            /\ a < nodes[m].insns[l].at \/ nodes[m].insns[l].at = a
        BY <1>61, <4>3, <4>4
      <4>6. a <= nodes[m].insns[l].at
        BY <4>5, <1>1
      <4> QED BY <4>5, <4>6 DEF l
    <3>4. \A k, l \in 1 .. (len - j + 1) :
            k < l => nodes[m].insns[j + k - 1].at < nodes[m].insns[j + l - 1].at
      <4> TAKE k, l \in 1 .. (len - j + 1)
      <4>1. k < l => j + k - 1 < j + l - 1
        BY <1>1
      <4> QED BY <1>61, <3>2, <4>1
    <3>5. nodes[m].insns[j + 1 - 1].at = a /\ 1 \in 1 .. (len - j + 1)
      BY <1>1 DEF a
    <3>6. /\ r[tail].addr = a /\ r[tail].size = nodes[m].addr + nodes[m].size - a
          /\ nodes[m].addr \in Nat /\ nodes[m].size \in Nat
      BY <1>1, <1>2, <1>4
    <3> HIDE DEF tail
    <3>7. \A k \in 1 .. (len - j + 1) : Within(r, tail, r[tail].insns[k].at)
      <4> TAKE k \in 1 .. (len - j + 1)
      <4> DEFINE x == nodes[m].insns[j + k - 1].at
      <4>1. r[tail].insns[k].at = x /\ x \in Nat /\ a <= x /\ x < nodes[m].addr + nodes[m].size
        BY <3>1, <3>3
      <4> HIDE DEF x
      <4>2. a + (nodes[m].addr + nodes[m].size - a) = nodes[m].addr + nodes[m].size
        BY <3>6, <1>1
      <4> QED BY <4>1, <4>2, <3>6 DEF Within
    <3>8. r[tail].insns[1].at = a
      BY <3>1, <3>5
    <3>9. \A k, l \in 1 .. (len - j + 1) : k < l => r[tail].insns[k].at < r[tail].insns[l].at
      BY <3>1, <3>4
    <3> QED BY <2>3, <3>1, <3>6, <3>7, <3>8, <3>9 DEF InsnsIn
  <2> QED BY <1>3, <2>1, <2>2, <2>3
<1>8. ASSUME NEW d \in 1 .. tail PROVE NextIn(r, d)
  <2>1. CASE d \in Ids /\ d # m
    <3>1. /\ nodes[d].next = 0 <=> \A e \in Ids : nodes[e].addr <= nodes[d].addr
          /\ nodes[d].next # 0 =>
               /\ nodes[d].addr + nodes[d].size <= nodes[nodes[d].next].addr
               /\ \A e \in Ids : nodes[e].addr <= nodes[d].addr
                                 \/ nodes[nodes[d].next].addr <= nodes[e].addr
               /\ nodes[d].next \in Ids
      BY <2>1, <1>62, <1>63
    <3>2. \/ nodes[d].addr < nodes[m].addr
          \/ a < nodes[d].addr /\ nodes[m].addr < nodes[d].addr
      BY <2>1, <1>5
    <3>3. /\ r[d].next = nodes[d].next /\ r[d].addr = nodes[d].addr /\ r[d].size = nodes[d].size
          /\ nodes[d].next # 0 => r[nodes[d].next].addr = nodes[nodes[d].next].addr
      BY <2>1, <3>1, <1>4
    <3>4. nodes[d].next = 0 => a <= nodes[d].addr
      BY <3>1, <3>2, <1>1, <1>2, <2>1
    <3>5. nodes[d].next # 0 => a <= nodes[d].addr \/ nodes[nodes[d].next].addr <= a
      <4>1. nodes[m].addr \in Nat /\ nodes[d].addr \in Nat /\ a \in Nat /\ m \in Ids
        BY <1>1, <1>2, <2>1
      <4>2. nodes[d].next # 0 => /\ nodes[nodes[d].next].addr \in Nat
                                 /\ \/ nodes[m].addr <= nodes[d].addr
                                    \/ nodes[nodes[d].next].addr <= nodes[m].addr
        BY <3>1, <1>63, <2>1, <4>1
      <4>3. nodes[m].addr < a
        BY <1>1
      <4> DEFINE x == nodes[m].addr
                 y == nodes[d].addr
                 z == nodes[nodes[d].next].addr
      <4>4. nodes[d].next # 0 => /\ x \in Nat /\ y \in Nat /\ z \in Nat /\ a \in Nat /\ x < a
                                 /\ (x <= y \/ z <= x) /\ (y < x \/ a < y)
        BY <4>1, <4>2, <4>3, <3>2
      <4> HIDE DEF x, y, z
      <4>5. nodes[d].next # 0 => a <= y \/ z <= a
        BY <4>4
      <4> QED BY <4>5 DEF y, z
    <3> HIDE DEF tail
    <3> QED BY <3>1, <3>3, <3>4, <3>5, <1>3, <1>4 DEF NextIn
  <2>2. CASE d = m
    <3>1. /\ r[d].next = tail /\ tail # 0 /\ r[d].addr = nodes[m].addr
          /\ r[d].size = a - nodes[m].addr /\ r[tail].addr = a /\ nodes[m].addr \in Nat
      BY <2>2, <1>1, <1>2, <1>4
    <3>2. \A e \in Ids : nodes[e].addr <= nodes[m].addr \/ a <= nodes[e].addr
      <4> TAKE e \in Ids
      <4>1. nodes[m].addr \in Nat /\ nodes[e].addr \in Nat /\ a \in Nat
        BY <1>1, <1>2
      <4> QED BY <4>1, <1>5
    <3> HIDE DEF tail
    <3>3. \A e \in 1 .. Len(r) : r[e].addr <= r[d].addr \/ a <= r[e].addr
      BY <3>1, <3>2, <1>1, <1>3, <1>4, SMTT(30)
    <3>4. ~(r[tail].addr <= r[d].addr)
      BY <3>1, <1>1
    <3>5. nodes[m].addr + (a - nodes[m].addr) <= a
      BY <3>1, <1>1
    <3> QED BY <3>1, <3>3, <3>4, <3>5, <1>3 DEF NextIn
  <2>3. CASE d = tail
    <3>1. /\ nodes[m].next = 0 <=> \A e \in Ids : nodes[e].addr <= nodes[m].addr
          /\ nodes[m].next # 0 =>
               /\ nodes[m].addr + nodes[m].size <= nodes[nodes[m].next].addr
               /\ \A e \in Ids : nodes[e].addr <= nodes[m].addr
                                 \/ nodes[nodes[m].next].addr <= nodes[e].addr
               /\ nodes[m].next \in Ids
      BY <1>1, <1>62, <1>63
    <3>2. \A e \in Ids : nodes[e].addr <= a <=> nodes[e].addr <= nodes[m].addr
      <4> TAKE e \in Ids
      <4>1. nodes[m].addr \in Nat /\ nodes[e].addr \in Nat /\ a \in Nat /\ nodes[m].addr < a
        BY <1>1, <1>2
      <4>2. CASE e = m
        BY <4>1, <4>2
      <4>3. CASE e # m
        BY <4>1, <4>3, <1>5
      <4> QED BY <4>2, <4>3
    <3>3. /\ r[tail].next = nodes[m].next /\ r[tail].addr = a
          /\ r[tail].size = nodes[m].addr + nodes[m].size - a
          /\ nodes[m].addr \in Nat /\ nodes[m].size \in Nat
          /\ nodes[m].next # 0 => r[nodes[m].next].addr = nodes[nodes[m].next].addr
      BY <3>1, <1>1, <1>2, <1>4
    <3>4. a + (nodes[m].addr + nodes[m].size - a) = nodes[m].addr + nodes[m].size /\ a <= a
      BY <3>3, <1>1
    <3>5. /\ \A e \in 1 .. Len(r) : e = tail \/ (e \in Ids /\ r[e].addr = nodes[e].addr)
          /\ \A e \in Ids : e \in 1 .. Len(r) /\ r[e].addr = nodes[e].addr
      BY <1>3, <1>4
    <3> HIDE DEF tail
    <3>6. nodes[m].next = 0 <=> \A e \in 1 .. Len(r) : r[e].addr <= r[tail].addr
      BY <3>1, <3>2, <3>3, <3>4, <3>5
    <3>7. nodes[m].next # 0 => r[tail].addr + r[tail].size <= r[r[tail].next].addr
      BY <3>1, <3>3, <3>4
    <3>8. nodes[m].next # 0 =>
            \A e \in 1 .. Len(r) : r[e].addr <= r[tail].addr \/ r[r[tail].next].addr <= r[e].addr
      BY <3>1, <3>2, <3>3, <3>4, <3>5
    <3> QED BY <2>3, <3>3, <3>6, <3>7, <3>8 DEF NextIn
  <2> QED BY <1>3, <2>1, <2>2, <2>3
<1>9. ASSUME NEW d \in 1 .. tail, NEW e \in 1 .. tail, d # e
      PROVE  r[d].addr # r[e].addr
  <2>1. \A x \in Ids : nodes[x].addr # a
    BY <1>1, <1>2, <1>5
  <2>2. \A x, y \in Ids : x # y => nodes[x].addr # nodes[y].addr
    BY DEF TiledIn, Ids
  <2> QED BY <2>1, <2>2, <1>3, <1>4, <1>9
<1>10. \A d \in 1 .. tail : r[1].addr <= r[d].addr
  <2>1. 1 \in Ids /\ \A d \in Ids : nodes[1].addr <= nodes[d].addr
    BY <1>1 DEF TiledIn, Ids
  <2>2. nodes[1].addr <= a
    BY <2>1, <1>1, <1>2
  <2> QED BY <2>1, <2>2, <1>3, <1>4
<1> QED BY <1>3, <1>7, <1>8, <1>9, <1>10 DEF TiledIn
-----------------------------------------------------------------------------
(* Steps that leave addresses, instructions and the chain alone.           *)

Alike(ns, r) ==
  /\ Len(r) = Len(ns)
  /\ \A m \in 1 .. Len(ns) : /\ r[m].addr = ns[m].addr /\ r[m].size = ns[m].size
                             /\ r[m].insns = ns[m].insns /\ r[m].next = ns[m].next

CodeIn(ns) == UNION {ToSet(ns[m].insns) : m \in 1 .. Len(ns)}

LEMMA AlikeKeeps ==
  ASSUME NEW ns, IsGraph(ns), NEW r, Alike(ns, r)
  PROVE  /\ TiledIn(ns) => TiledIn(r)
         /\ Silent(ns) => Silent(r)
         /\ CodeIn(r) = CodeIn(ns)
<1>1. \A m \in 1 .. Len(ns) : ns[m].next \in 0 .. Len(ns) /\ Len(ns) \in Nat
  BY GraphFields
<1>2. ASSUME TiledIn(ns) PROVE TiledIn(r)
  <2>1. \A m \in 1 .. Len(r) : InsnsIn(r, m)
    BY <1>2 DEF TiledIn, InsnsIn, Within, Alike
  <2>2. ASSUME NEW m \in 1 .. Len(r) PROVE NextIn(r, m)
    <3>1. /\ NextIn(ns, m) /\ r[m].addr = ns[m].addr /\ r[m].size = ns[m].size
          /\ r[m].next = ns[m].next
      BY <1>2 DEF TiledIn, Alike
    <3>2. ns[m].next # 0 => r[ns[m].next].addr = ns[ns[m].next].addr
      BY <1>1 DEF Alike
    <3>3. Len(r) = Len(ns) /\ \A d \in 1 .. Len(ns) : r[d].addr = ns[d].addr
      BY DEF Alike
    <3> QED BY <3>1, <3>2, <3>3 DEF NextIn
  <2>3. /\ \A m, d \in 1 .. Len(r) : m # d => r[m].addr # r[d].addr
        /\ \A m \in 1 .. Len(r) : r[1].addr <= r[m].addr
    <3>1. \A m \in 1 .. Len(ns) : 1 \in 1 .. Len(ns)
      BY <1>1
    <3> QED BY <1>2, <3>1 DEF TiledIn, Alike
  <2> QED BY <2>1, <2>2, <2>3 DEF TiledIn
<1>3. ASSUME Silent(ns) PROVE Silent(r)
  BY <1>3 DEF Silent, Alike
<1>4. CodeIn(r) = CodeIn(ns)
  BY DEF CodeIn, Alike
<1> QED BY <1>2, <1>3, <1>4

LEMMA ToSetIs ==
  ASSUME NEW s
  PROVE  \A x : x \in ToSet(s) <=> \E k \in 1 .. Len(s) : s[k] = x
BY DEF ToSet

LEMMA ToSetAppend ==
  ASSUME NEW S, NEW s \in Seq(S), NEW x \in S
  PROVE  ToSet(Append(s, x)) = ToSet(s) \cup {x}
<1>1. /\ Len(Append(s, x)) = Len(s) + 1 /\ Append(s, x)[Len(s) + 1] = x
      /\ \A k \in 1 .. Len(s) : Append(s, x)[k] = s[k]
      /\ Len(s) \in Nat
  BY AppendProperties, LenProperties
<1>2. 1 .. (Len(s) + 1) = 1 .. Len(s) \cup {Len(s) + 1}
  BY <1>1
<1> HIDE DEF ToSet
<1>3. \A y : y \in ToSet(Append(s, x)) <=> \E k \in 1 .. Len(s) \cup {Len(s) + 1} : Append(s, x)[k] = y
  BY <1>1, <1>2 DEF ToSet
<1> QED BY <1>1, <1>3, ToSetIs

-----------------------------------------------------------------------------
(* What a new edge does to the graph.                                      *)

ExitsEdge(ns) ==
  \A m \in 1 .. Len(ns) :
    (ns[m].insns[Len(ns[m].insns)].exits = 0 /\ ns[m].exits > 0)
      => ns[m].next # 0 /\ HasEdge(ns, m, ns[m].next)

LEMMA HasEdgeIs ==
  ASSUME NEW ns, IsGraph(ns), NEW m \in 1 .. Len(ns), NEW d
  PROVE  HasEdge(ns, m, d) <=> \E type \in Types : Edge(d, type) \in ToSet(ns[m].succ)
<1>1. ns[m] \in Node
  BY GraphFields
<1>2. \A k \in 1 .. Len(ns[m].succ) : ns[m].succ[k] \in EdgeType
  BY <1>1, NodeFields
<1>3. \A e \in EdgeType : e = Edge(e.node, e.type) /\ e.type \in Types
  BY DEF EdgeType, Edge
<1>4. \A type : Edge(d, type).node = d
  BY DEF Edge
<1> QED BY <1>2, <1>3, <1>4, ToSetIs DEF HasEdge

LEMMA Added ==
  ASSUME NEW ns, IsGraph(ns), NEW src \in 1 .. Len(ns), NEW dst \in 1 .. Len(ns),
         NEW type \in Types, NEW r, IsAdded(ns, r, src, dst, type)
  PROVE  /\ IsGraph(r) /\ Alike(ns, r)
         /\ HasEdge(r, src, dst)
         /\ \A m, d \in 1 .. Len(ns) : HasEdge(ns, m, d) => HasEdge(r, m, d)
         /\ ExitsEdge(ns) => ExitsEdge(r)
         /\ FallsToNext(ns) /\ (type = "DIRECT" \/ dst = ns[src].next) => FallsToNext(r)
<1>1. Alike(ns, r) /\ r \in Seq(Node) /\ Len(r) = Len(ns)
  BY DEF IsAdded, SameCode, Alike
<1>2. ASSUME NEW m \in 1 .. Len(ns)
      PROVE  /\ ns[m].succ \in Seq(EdgeType) /\ ns[m].pred \in Seq(EdgeType)
             /\ Len(ns[m].succ) \in Nat /\ Len(ns[m].pred) \in Nat
             /\ ns[m].next \in 0 .. Len(ns)
             /\ \A k \in 1 .. Len(ns[m].succ) : ns[m].succ[k].node \in 1 .. Len(ns)
             /\ \A k \in 1 .. Len(ns[m].pred) : ns[m].pred[k].node \in 1 .. Len(ns)
  BY GraphFields, NodeFields DEF IsGraph
<1>3. /\ Edge(dst, type) \in EdgeType /\ Edge(src, type) \in EdgeType
      /\ Edge(dst, type).node = dst /\ Edge(src, type).node = src
      /\ Edge(dst, type).type = type
  <2>1. Len(ns) \in Nat
    BY GraphFields
  <2> QED BY <2>1 DEF Edge, EdgeType
<1> DEFINE new == ~HasEdge(ns, src, dst)
(* The lists of a node, with the new edge at the end.                      *)
<1>4. ASSUME NEW m \in 1 .. Len(ns)
      PROVE  /\ Len(r[m].succ) = IF m = src /\ new THEN Len(ns[m].succ) + 1 ELSE Len(ns[m].succ)
             /\ \A k \in 1 .. Len(ns[m].succ) : r[m].succ[k] = ns[m].succ[k]
             /\ m = src /\ new => r[m].succ[Len(ns[m].succ) + 1] = Edge(dst, type)
             /\ Len(r[m].pred) = IF m = dst /\ new THEN Len(ns[m].pred) + 1 ELSE Len(ns[m].pred)
             /\ \A k \in 1 .. Len(ns[m].pred) : r[m].pred[k] = ns[m].pred[k]
             /\ m = dst /\ new => r[m].pred[Len(ns[m].pred) + 1] = Edge(src, type)
  <2>1. /\ r[m].succ = IF m = src /\ new THEN Append(ns[m].succ, Edge(dst, type)) ELSE ns[m].succ
        /\ r[m].pred = IF m = dst /\ new THEN Append(ns[m].pred, Edge(src, type)) ELSE ns[m].pred
    BY DEF IsAdded
  <2> HIDE DEF new
  <2> QED BY <2>1, <1>2, <1>3, AppendProperties
<1>41. ASSUME NEW m \in 1 .. Len(ns)
       PROVE  /\ \A k \in 1 .. Len(r[m].succ) :
                   \/ k \in 1 .. Len(ns[m].succ) /\ r[m].succ[k] = ns[m].succ[k]
                   \/ /\ m = src /\ new /\ k = Len(ns[m].succ) + 1
                      /\ r[m].succ[k] = Edge(dst, type)
              /\ \A k \in 1 .. Len(r[m].pred) :
                   \/ k \in 1 .. Len(ns[m].pred) /\ r[m].pred[k] = ns[m].pred[k]
                   \/ r[m].pred[k] = Edge(src, type)
              /\ \A k \in 1 .. Len(ns[m].succ) : k \in 1 .. Len(r[m].succ)
  <2> DEFINE s  == Len(ns[m].succ)
             p  == Len(ns[m].pred)
             s1 == Len(r[m].succ)
             p1 == Len(r[m].pred)
  <2>1. s \in Nat /\ p \in Nat
    BY <1>2
  <2> HIDE DEF new
  <2>2. (s1 = s /\ ~(m = src /\ new)) \/ (s1 = s + 1 /\ m = src /\ new)
    BY <1>4
  <2>3. p1 = p \/ (p1 = p + 1 /\ m = dst /\ new)
    BY <1>4
  <2> HIDE DEF s, p, s1, p1
  <2>4. \A k \in 1 .. s1 : k \in 1 .. s \/ (k = s + 1 /\ m = src /\ new)
    BY <2>1, <2>2
  <2>5. \A k \in 1 .. p1 : k \in 1 .. p \/ (k = p + 1 /\ m = dst /\ new)
    BY <2>1, <2>3
  <2>6. \A k \in 1 .. s : k \in 1 .. s1
    BY <2>1, <2>2
  <2>7. /\ \A k \in 1 .. s : r[m].succ[k] = ns[m].succ[k]
        /\ m = src /\ new => r[m].succ[s + 1] = Edge(dst, type)
        /\ \A k \in 1 .. p : r[m].pred[k] = ns[m].pred[k]
        /\ m = dst /\ new => r[m].pred[p + 1] = Edge(src, type)
    BY <1>4 DEF s, p
  <2>8. \A k \in 1 .. s1 :
          \/ k \in 1 .. s /\ r[m].succ[k] = ns[m].succ[k]
          \/ m = src /\ new /\ k = s + 1 /\ r[m].succ[k] = Edge(dst, type)
    BY <2>4, <2>7
  <2>9. \A k \in 1 .. p1 :
          \/ k \in 1 .. p /\ r[m].pred[k] = ns[m].pred[k]
          \/ r[m].pred[k] = Edge(src, type)
    BY <2>5, <2>7
  <2> QED BY <2>6, <2>8, <2>9 DEF s, p, s1, p1
<1> HIDE DEF new
<1>5. IsGraph(r)
  <2> SUFFICES ASSUME NEW m \in 1 .. Len(ns)
               PROVE  /\ r[m].next \in 0 .. Len(ns)
                      /\ \A k \in 1 .. Len(r[m].succ) : r[m].succ[k].node \in 1 .. Len(ns)
                      /\ \A k \in 1 .. Len(r[m].pred) : r[m].pred[k].node \in 1 .. Len(ns)
    BY <1>1 DEF IsGraph
  <2>1. r[m].next \in 0 .. Len(ns)
    BY <1>1, <1>2 DEF Alike
  <2>2. ASSUME NEW k \in 1 .. Len(r[m].succ) PROVE r[m].succ[k].node \in 1 .. Len(ns)
    <3>1. \/ k \in 1 .. Len(ns[m].succ) /\ r[m].succ[k] = ns[m].succ[k]
          \/ r[m].succ[k] = Edge(dst, type)
      BY <1>41
    <3> QED BY <3>1, <1>2, <1>3
  <2>3. ASSUME NEW k \in 1 .. Len(r[m].pred) PROVE r[m].pred[k].node \in 1 .. Len(ns)
    <3>1. \/ k \in 1 .. Len(ns[m].pred) /\ r[m].pred[k] = ns[m].pred[k]
          \/ r[m].pred[k] = Edge(src, type)
      BY <1>41
    <3> QED BY <3>1, <1>2, <1>3
  <2> QED BY <2>1, <2>2, <2>3
<1>6. \A m, d \in 1 .. Len(ns) : HasEdge(ns, m, d) => HasEdge(r, m, d)
  BY <1>4, <1>41 DEF HasEdge
<1>7. HasEdge(r, src, dst)
  <2>1. CASE new
    <3>1. Len(ns[src].succ) + 1 \in 1 .. Len(r[src].succ)
      BY <2>1, <1>2, <1>4
    <3> QED BY <2>1, <3>1, <1>3, <1>4 DEF HasEdge
  <2>2. CASE ~new
    BY <2>2, <1>6 DEF new
  <2> QED BY <2>1, <2>2
<1>8. ExitsEdge(ns) => ExitsEdge(r)
  <2>1. \A m \in 1 .. Len(ns) : ns[m].next # 0 => ns[m].next \in 1 .. Len(ns)
    BY <1>2
  <2>2. \A m \in 1 .. Len(ns) : /\ r[m].exits = ns[m].exits /\ r[m].insns = ns[m].insns
                                /\ r[m].next = ns[m].next
    BY DEF IsAdded, SameCode
  <2> QED BY <1>1, <1>6, <2>1, <2>2 DEF ExitsEdge
<1>9. ASSUME FallsToNext(ns), type = "DIRECT" \/ dst = ns[src].next
      PROVE  FallsToNext(r)
  <2> SUFFICES ASSUME NEW m \in 1 .. Len(ns), NEW k \in 1 .. Len(r[m].succ),
                      r[m].succ[k].type = "FALLTHROUGH"
               PROVE  r[m].succ[k].node = r[m].next
    BY <1>1 DEF FallsToNext
  <2>1. r[m].next = ns[m].next
    BY <1>1 DEF Alike
  <2>2. CASE k \in 1 .. Len(ns[m].succ)
    BY <2>1, <2>2, <1>4, <1>9 DEF FallsToNext
  <2>3. CASE m = src /\ new /\ k = Len(ns[m].succ) + 1
    <3>1. r[m].succ[k] = Edge(dst, type)
      BY <2>3, <1>4
    <3> QED BY <3>1, <2>1, <2>3, <1>3, <1>9
  <2> QED BY <2>2, <2>3, <1>41
<1> QED BY <1>1, <1>5, <1>6, <1>7, <1>8, <1>9

LEMMA AddedMirror ==
  ASSUME NEW ns, IsGraph(ns), MirrorIn(ns), NEW src \in 1 .. Len(ns), NEW dst \in 1 .. Len(ns),
         NEW type \in Types, NEW r, IsAdded(ns, r, src, dst, type)
  PROVE  MirrorIn(r)
<1> DEFINE new == ~HasEdge(ns, src, dst)
<1>1. Len(r) = Len(ns) /\ Len(ns) \in Nat
  BY GraphFields DEF IsAdded, SameCode
<1>2. \A m \in 1 .. Len(ns) : /\ ns[m].succ \in Seq(EdgeType) /\ ns[m].pred \in Seq(EdgeType)
                              /\ Len(ns[m].succ) \in Nat /\ Len(ns[m].pred) \in Nat
                              /\ \A k \in 1 .. Len(ns[m].pred) : ns[m].pred[k] \in EdgeType
  BY GraphFields, NodeFields
<1>3. /\ \A d \in 1 .. Len(ns) : Edge(d, type) \in EdgeType
      /\ \A d, x, t, u : Edge(d, t) = Edge(x, u) <=> d = x /\ t = u
      /\ \A d, t : Edge(d, t).node = d
  <2>1. \A d, t : Edge(d, t).node = d /\ Edge(d, t).type = t
    BY DEF Edge
  <2> QED BY <1>1, <2>1 DEF Edge, EdgeType
<1>4. ASSUME NEW m \in 1 .. Len(ns)
      PROVE  /\ \A e : e \in ToSet(r[m].succ)
                      <=> e \in ToSet(ns[m].succ) \/ (m = src /\ new /\ e = Edge(dst, type))
             /\ \A e : e \in ToSet(r[m].pred)
                      <=> e \in ToSet(ns[m].pred) \/ (m = dst /\ new /\ e = Edge(src, type))
  <2>1. /\ r[m].succ = IF m = src /\ new THEN Append(ns[m].succ, Edge(dst, type)) ELSE ns[m].succ
        /\ r[m].pred = IF m = dst /\ new THEN Append(ns[m].pred, Edge(src, type)) ELSE ns[m].pred
    BY DEF IsAdded
  <2> HIDE DEF new
  <2>2. \A e : e \in ToSet(Append(ns[m].succ, Edge(dst, type)))
               <=> e \in ToSet(ns[m].succ) \/ e = Edge(dst, type)
    BY <1>2, <1>3, ToSetAppend
  <2>3. \A e : e \in ToSet(Append(ns[m].pred, Edge(src, type)))
               <=> e \in ToSet(ns[m].pred) \/ e = Edge(src, type)
    BY <1>2, <1>3, ToSetAppend
  <2>4. \A e : e \in ToSet(r[m].succ)
               <=> e \in ToSet(ns[m].succ) \/ (m = src /\ new /\ e = Edge(dst, type))
    BY <2>1, <2>2
  <2>5. \A e : e \in ToSet(r[m].pred)
               <=> e \in ToSet(ns[m].pred) \/ (m = dst /\ new /\ e = Edge(src, type))
    BY <2>1, <2>3
  <2> QED BY <2>4, <2>5
<1>5. \A m, d \in 1 .. Len(ns) : \A t \in Types :
        Edge(d, t) \in ToSet(ns[m].succ) <=> Edge(m, t) \in ToSet(ns[d].pred)
  BY DEF MirrorIn
<1>6. \A m, d \in 1 .. Len(ns) : \A t \in Types :
        Edge(d, t) \in ToSet(r[m].succ) <=> Edge(m, t) \in ToSet(r[d].pred)
  <2> TAKE m, d \in 1 .. Len(ns)
  <2> TAKE t \in Types
  <2> HIDE DEF new
  <2>1. Edge(d, t) \in ToSet(r[m].succ)
          <=> Edge(d, t) \in ToSet(ns[m].succ) \/ (m = src /\ new /\ d = dst /\ t = type)
    BY <1>3, <1>4
  <2>2. Edge(m, t) \in ToSet(r[d].pred)
          <=> Edge(m, t) \in ToSet(ns[d].pred) \/ (d = dst /\ new /\ m = src /\ t = type)
    BY <1>3, <1>4
  <2> QED BY <2>1, <2>2, <1>5
(* No predecessor of dst is src yet.                                       *)
<1>7. new => /\ \A k \in 1 .. Len(ns[src].succ) : ns[src].succ[k].node # dst
             /\ \A k \in 1 .. Len(ns[dst].pred) : ns[dst].pred[k].node # src
  <2>1. new => \A t \in Types : Edge(dst, t) \notin ToSet(ns[src].succ)
    BY HasEdgeIs
  <2>2. new => \A t \in Types : Edge(src, t) \notin ToSet(ns[dst].pred)
    BY <2>1, <1>5
  <2>3. \A e \in EdgeType : e = Edge(e.node, e.type) /\ e.type \in Types
    BY DEF EdgeType, Edge
  <2>4. \A k \in 1 .. Len(ns[dst].pred) : ns[dst].pred[k] \in ToSet(ns[dst].pred)
    BY ToSetIs
  <2> QED BY <2>2, <2>3, <2>4, <1>2 DEF HasEdge
<1>8. ASSUME NEW m \in 1 .. Len(ns), NEW k \in 1 .. Len(r[m].succ), NEW l \in 1 .. Len(r[m].succ),
             r[m].succ[k].node = r[m].succ[l].node
      PROVE  k = l
  <2>1. \A x, y \in 1 .. Len(ns[m].succ) : ns[m].succ[x].node = ns[m].succ[y].node => x = y
    BY DEF MirrorIn
  <2>2. CASE m = src /\ new
    <3>1. r[m].succ = Append(ns[m].succ, Edge(dst, type))
      BY <2>2 DEF IsAdded
    <3> HIDE DEF new
    <3>2. /\ Len(r[m].succ) = Len(ns[m].succ) + 1 /\ r[m].succ[Len(ns[m].succ) + 1] = Edge(dst, type)
          /\ \A x \in 1 .. Len(ns[m].succ) : r[m].succ[x] = ns[m].succ[x]
          /\ Len(ns[m].succ) \in Nat
      BY <3>1, <1>2, <1>3, AppendProperties
    <3>3. \A x \in 1 .. Len(r[m].succ) : x \in 1 .. Len(ns[m].succ) \/ x = Len(ns[m].succ) + 1
      BY <3>2
    <3>4. \A x \in 1 .. Len(ns[m].succ) : r[m].succ[x].node = ns[m].succ[x].node
                                            /\ r[m].succ[x].node # dst
      BY <3>2, <2>2, <1>7
    <3>5. r[m].succ[Len(ns[m].succ) + 1].node = dst
      BY <3>2, <1>3
    <3>6. CASE k \in 1 .. Len(ns[m].succ) /\ l \in 1 .. Len(ns[m].succ)
      BY <3>4, <3>6, <2>1, <1>8
    <3>7. CASE ~(k \in 1 .. Len(ns[m].succ) /\ l \in 1 .. Len(ns[m].succ))
      BY <3>3, <3>4, <3>5, <3>7, <1>8
    <3> QED BY <3>6, <3>7
  <2>3. CASE ~(m = src /\ new)
    BY <2>1, <2>3, <1>8 DEF IsAdded
  <2> QED BY <2>2, <2>3
<1>9. ASSUME NEW m \in 1 .. Len(ns), NEW k \in 1 .. Len(r[m].pred), NEW l \in 1 .. Len(r[m].pred),
             r[m].pred[k].node = r[m].pred[l].node
      PROVE  k = l
  <2>1. \A x, y \in 1 .. Len(ns[m].pred) : ns[m].pred[x].node = ns[m].pred[y].node => x = y
    BY DEF MirrorIn
  <2>2. CASE m = dst /\ new
    <3>1. r[m].pred = Append(ns[m].pred, Edge(src, type))
      BY <2>2 DEF IsAdded
    <3> HIDE DEF new
    <3>2. /\ Len(r[m].pred) = Len(ns[m].pred) + 1 /\ r[m].pred[Len(ns[m].pred) + 1] = Edge(src, type)
          /\ \A x \in 1 .. Len(ns[m].pred) : r[m].pred[x] = ns[m].pred[x]
          /\ Len(ns[m].pred) \in Nat
      BY <3>1, <1>2, <1>3, AppendProperties
    <3>3. \A x \in 1 .. Len(r[m].pred) : x \in 1 .. Len(ns[m].pred) \/ x = Len(ns[m].pred) + 1
      BY <3>2
    <3>4. \A x \in 1 .. Len(ns[m].pred) : r[m].pred[x].node = ns[m].pred[x].node
                                            /\ r[m].pred[x].node # src
      BY <3>2, <2>2, <1>7
    <3>5. r[m].pred[Len(ns[m].pred) + 1].node = src
      BY <3>2, <1>3
    <3>6. CASE k \in 1 .. Len(ns[m].pred) /\ l \in 1 .. Len(ns[m].pred)
      BY <3>4, <3>6, <2>1, <1>9
    <3>7. CASE ~(k \in 1 .. Len(ns[m].pred) /\ l \in 1 .. Len(ns[m].pred))
      BY <3>3, <3>4, <3>5, <3>7, <1>9
    <3> QED BY <3>6, <3>7
  <2>3. CASE ~(m = dst /\ new)
    BY <2>1, <2>3, <1>9 DEF IsAdded
  <2> QED BY <2>2, <2>3
<1> QED BY <1>1, <1>6, <1>8, <1>9 DEF MirrorIn

-----------------------------------------------------------------------------
(* What a split does to the graph.                                         *)

LEMMA SplitSilent ==
  ASSUME IsGraph(nodes), Silent(nodes), NEW m, NEW j, Cuttable(m, j), NEW r, IsSplit(r, m, j)
  PROVE  Silent(r) /\ r[m].insns[j - 1].exits = 0
<1> DEFINE tail == Len(nodes) + 1
           len  == Len(nodes[m].insns)
<1>1. m \in Ids /\ j \in 2 .. len /\ len \in Nat /\ Len(nodes) \in Nat /\ Len(r) = tail
  BY GraphFields DEF Cuttable, Ids, IsSplit
<1>2. /\ Len(r[m].insns) = j - 1
      /\ \A k \in 1 .. (j - 1) : r[m].insns[k] = nodes[m].insns[k]
      /\ Len(r[tail].insns) = len - j + 1
      /\ \A k \in 1 .. (len - j + 1) : r[tail].insns[k] = nodes[m].insns[j + k - 1]
  BY InsnsSplit
<1>3. \A k \in 1 .. len : k < len => nodes[m].insns[k].exits = 0
  BY <1>1 DEF Silent, Ids
<1>4. \A d \in Ids : d # m => r[d].insns = nodes[d].insns
  BY DEF IsSplit
<1> HIDE DEF len
<1>5. \A k \in 1 .. (j - 1) : r[m].insns[k].exits = 0
  <2>1. \A k \in 1 .. (j - 1) : k \in 1 .. len /\ k < len
    BY <1>1
  <2> QED BY <2>1, <1>2, <1>3
<1>6. \A k \in 1 .. (len - j + 1) : k < len - j + 1 => r[tail].insns[k].exits = 0
  <2>1. \A k \in 1 .. (len - j + 1) : k < len - j + 1 => j + k - 1 \in 1 .. len /\ j + k - 1 < len
    BY <1>1
  <2> QED BY <2>1, <1>2, <1>3
<1>7. j - 1 \in 1 .. (j - 1)
  BY <1>1
<1>8. ASSUME NEW d \in 1 .. tail, NEW k \in 1 .. Len(r[d].insns), k < Len(r[d].insns)
      PROVE  r[d].insns[k].exits = 0
  <2>1. d = m \/ d = tail \/ (d \in Ids /\ d # m)
    BY <1>1 DEF Ids
  <2> QED BY <2>1, <1>2, <1>4, <1>5, <1>6, <1>8 DEF Silent, Ids
<1> QED BY <1>1, <1>5, <1>7, <1>8 DEF Silent

LEMMA SplitCode ==
  ASSUME IsGraph(nodes), NEW m, NEW j, Cuttable(m, j), NEW r, IsSplit(r, m, j)
  PROVE  CodeIn(r) = CodeIn(nodes)
<1> DEFINE tail == Len(nodes) + 1
           len  == Len(nodes[m].insns)
<1>1. /\ m \in Ids /\ j \in 2 .. len /\ len \in Nat /\ Len(nodes) \in Nat /\ Len(r) = tail
      /\ m \in 1 .. tail /\ tail \in 1 .. tail
  BY GraphFields DEF Cuttable, Ids, IsSplit
<1>2. /\ Len(r[m].insns) = j - 1
      /\ \A k \in 1 .. (j - 1) : r[m].insns[k] = nodes[m].insns[k]
      /\ Len(r[tail].insns) = len - j + 1
      /\ \A k \in 1 .. (len - j + 1) : r[tail].insns[k] = nodes[m].insns[j + k - 1]
  BY InsnsSplit
<1>3. \A d \in Ids : d # m => r[d].insns = nodes[d].insns
  BY DEF IsSplit
<1> HIDE DEF len
<1>4. ASSUME NEW x
      PROVE  x \in ToSet(nodes[m].insns) <=> x \in ToSet(r[m].insns) \/ x \in ToSet(r[tail].insns)
  <2>1. \A k \in 1 .. len : \/ k \in 1 .. (j - 1)
                            \/ k - j + 1 \in 1 .. (len - j + 1) /\ j + (k - j + 1) - 1 = k
    BY <1>1
  <2>2. /\ \A k \in 1 .. (j - 1) : k \in 1 .. len
        /\ \A k \in 1 .. (len - j + 1) : j + k - 1 \in 1 .. len
    BY <1>1
  <2>3. ASSUME NEW k \in 1 .. len
        PROVE  nodes[m].insns[k] \in ToSet(r[m].insns) \cup ToSet(r[tail].insns)
    <3>1. CASE k \in 1 .. (j - 1)
      BY <3>1, <1>2, ToSetIs
    <3>2. CASE k - j + 1 \in 1 .. (len - j + 1) /\ j + (k - j + 1) - 1 = k
      <4>1. r[tail].insns[k - j + 1] = nodes[m].insns[k]
        BY <3>2, <1>2
      <4> QED BY <3>2, <4>1, <1>2, ToSetIs
    <3> QED BY <3>1, <3>2, <2>1
  <2>4. x \in ToSet(nodes[m].insns) => x \in ToSet(r[m].insns) \/ x \in ToSet(r[tail].insns)
    BY <2>3, ToSetIs DEF len
  <2>5. x \in ToSet(r[m].insns) => x \in ToSet(nodes[m].insns)
    BY <2>2, <1>2, ToSetIs DEF len
  <2>6. x \in ToSet(r[tail].insns) => x \in ToSet(nodes[m].insns)
    <3>1. ASSUME NEW k \in 1 .. Len(r[tail].insns), x = r[tail].insns[k]
          PROVE  x \in ToSet(nodes[m].insns)
      <4>1. j + k - 1 \in 1 .. len /\ x = nodes[m].insns[j + k - 1]
        BY <3>1, <2>2, <1>2
      <4> DEFINE l == j + k - 1
      <4>2. l \in 1 .. len /\ x = nodes[m].insns[l]
        BY <4>1
      <4> HIDE DEF l
      <4> QED BY <4>2, ToSetIs DEF len
    <3> QED BY <3>1, ToSetIs
  <2> QED BY <2>4, <2>5, <2>6
<1>5. ASSUME NEW x
      PROVE  x \in CodeIn(nodes) <=> x \in CodeIn(r)
  <2>1. x \in CodeIn(nodes) <=> \E d \in Ids : x \in ToSet(nodes[d].insns)
    BY DEF CodeIn, Ids
  <2>2. x \in CodeIn(r) <=> \E d \in 1 .. tail : x \in ToSet(r[d].insns)
    BY <1>1 DEF CodeIn
  <2>3. \A d \in 1 .. tail : d \in Ids \/ d = tail
    BY <1>1 DEF Ids
  <2>4. \A d \in Ids : d \in 1 .. tail
    BY <1>1 DEF Ids
  <2> HIDE DEF tail
  <2> QED BY <2>1, <2>2, <2>3, <2>4, <1>1, <1>3, <1>4
<1> QED BY <1>5

LEMMA SplitEdges ==
  ASSUME IsGraph(nodes), NEW m, NEW j, Cuttable(m, j), NEW r, IsSplit(r, m, j)
  PROVE  LET tail == Len(nodes) + 1
         IN  /\ \A x \in Ids \ {m} : \A d : HasEdge(r, x, d) <=> HasEdge(nodes, x, d)
             /\ \A d : HasEdge(r, tail, d) <=> HasEdge(nodes, m, d)
             /\ \A d : HasEdge(r, m, d) <=> d = tail
             /\ ExitsEdge(nodes) => ExitsEdge(r)
             /\ FallsToNext(nodes) => FallsToNext(r)
<1> DEFINE tail == Len(nodes) + 1
           len  == Len(nodes[m].insns)
<1>1. /\ m \in Ids /\ j \in 2 .. len /\ len \in Nat /\ Len(nodes) \in Nat /\ Len(r) = tail
      /\ tail # 0
  BY GraphFields DEF Cuttable, Ids, IsSplit
<1>2. /\ \A d \in Ids \ {m} : /\ r[d].succ = nodes[d].succ /\ r[d].next = nodes[d].next
                              /\ r[d].insns = nodes[d].insns /\ r[d].exits = nodes[d].exits
      /\ r[tail].succ = nodes[m].succ /\ r[tail].next = nodes[m].next
      /\ r[tail].exits = nodes[m].exits
      /\ r[m].succ = <<Edge(tail, "FALLTHROUGH")>> /\ r[m].next = tail
  BY DEF IsSplit
<1>3. /\ Len(r[m].succ) = 1 /\ r[m].succ[1].node = tail
  BY <1>2 DEF Edge
<1>4. \A d : HasEdge(r, m, d) <=> d = tail
  BY <1>3 DEF HasEdge
<1>5. /\ \A x \in Ids \ {m} : \A d : HasEdge(r, x, d) <=> HasEdge(nodes, x, d)
      /\ \A d : HasEdge(r, tail, d) <=> HasEdge(nodes, m, d)
  BY <1>2 DEF HasEdge
<1>6. \A d \in 1 .. tail : d = m \/ d = tail \/ d \in Ids \ {m}
  BY <1>1 DEF Ids
<1>7. r[tail].insns[Len(r[tail].insns)] = nodes[m].insns[len]
  <2>1. /\ Len(r[tail].insns) = len - j + 1
        /\ \A k \in 1 .. (len - j + 1) : r[tail].insns[k] = nodes[m].insns[j + k - 1]
    BY InsnsSplit
  <2>2. len - j + 1 \in 1 .. (len - j + 1) /\ j + (len - j + 1) - 1 = len
    BY <1>1
  <2> HIDE DEF len
  <2> QED BY <2>1, <2>2
<1>8. ExitsEdge(nodes) => ExitsEdge(r)
  <2> HIDE DEF tail
  <2> SUFFICES ASSUME ExitsEdge(nodes), NEW d \in 1 .. tail,
                      r[d].insns[Len(r[d].insns)].exits = 0, r[d].exits > 0
               PROVE  r[d].next # 0 /\ HasEdge(r, d, r[d].next)
    BY <1>1 DEF ExitsEdge
  <2>1. \A x \in Ids : (nodes[x].insns[Len(nodes[x].insns)].exits = 0 /\ nodes[x].exits > 0)
                         => nodes[x].next # 0 /\ HasEdge(nodes, x, nodes[x].next)
    BY DEF ExitsEdge, Ids
  <2>2. CASE d = m
    BY <2>2, <1>1, <1>2, <1>4
  <2>3. CASE d = tail
    BY <2>1, <2>3, <1>1, <1>2, <1>5, <1>7
  <2>4. CASE d \in Ids \ {m}
    BY <2>1, <2>4, <1>2, <1>5
  <2> QED BY <2>2, <2>3, <2>4, <1>6
<1>9. FallsToNext(nodes) => FallsToNext(r)
  <2> HIDE DEF tail
  <2>1. \A k \in 1 .. Len(r[m].succ) : r[m].succ[k].node = r[m].next
    BY <1>2, <1>3
  <2> SUFFICES ASSUME FallsToNext(nodes), NEW d \in 1 .. Len(r), NEW k \in 1 .. Len(r[d].succ),
                      r[d].succ[k].type = "FALLTHROUGH"
               PROVE  r[d].succ[k].node = r[d].next
    BY DEF FallsToNext
  <2>2. \A x \in Ids : \A l \in 1 .. Len(nodes[x].succ) :
          nodes[x].succ[l].type = "FALLTHROUGH" => nodes[x].succ[l].node = nodes[x].next
    BY DEF FallsToNext, Ids
  <2>3. CASE d = m
    BY <2>1, <2>3
  <2>4. CASE d = tail
    BY <2>2, <2>4, <1>1, <1>2
  <2>5. CASE d \in Ids \ {m}
    BY <2>2, <2>5, <1>2
  <2> QED BY <2>3, <2>4, <2>5, <1>1, <1>6
<1> QED BY <1>4, <1>5, <1>8, <1>9

LEMMA SplitMirror ==
  ASSUME IsGraph(nodes), MirrorIn(nodes), NEW m, NEW j, Cuttable(m, j), NEW r, IsSplit(r, m, j)
  PROVE  MirrorIn(r)
<1> DEFINE tail == Len(nodes) + 1
<1>1. m \in Ids /\ Len(nodes) \in Nat /\ Len(r) = tail /\ tail \notin Ids /\ tail # m
  BY GraphFields, SMTT(30) DEF Cuttable, Ids, IsSplit
<1>2. \A d \in 1 .. tail : d = tail \/ d \in Ids
  BY <1>1 DEF Ids
<1>3. \A d \in Ids :
        /\ \A k \in 1 .. Len(nodes[d].succ) : nodes[d].succ[k].node \in Ids
        /\ \A k \in 1 .. Len(nodes[d].pred) : nodes[d].pred[k].node \in Ids
                                              /\ nodes[d].pred[k] \in EdgeType
  BY GraphFields, NodeFields DEF IsGraph, Ids
<1>4. /\ \A d, x, t, u : Edge(d, t) = Edge(x, u) <=> d = x /\ t = u
      /\ \A d, t : Edge(d, t).node = d /\ Edge(d, t).type = t
      /\ \A e \in EdgeType : e = Edge(e.node, e.type)
  <2>1. \A d, t : Edge(d, t).node = d /\ Edge(d, t).type = t
    BY DEF Edge
  <2> QED BY <2>1 DEF Edge, EdgeType
<1>5. /\ \A d \in Ids \ {m} : r[d].succ = nodes[d].succ
      /\ r[tail].succ = nodes[m].succ
      /\ r[m].succ = <<Edge(tail, "FALLTHROUGH")>>
      /\ r[tail].pred = <<Edge(m, "FALLTHROUGH")>>
  BY DEF IsSplit
<1>6. \A d \in Ids :
        /\ Len(r[d].pred) = Len(nodes[d].pred)
        /\ \A k \in 1 .. Len(nodes[d].pred) :
             r[d].pred[k] = IF HasEdge(nodes, m, d) /\ nodes[d].pred[k].node = m
                            THEN Edge(tail, nodes[d].pred[k].type) ELSE nodes[d].pred[k]
  BY DEF IsSplit
<1>7. \A x, d \in Ids : \A t \in Types :
        Edge(d, t) \in ToSet(nodes[x].succ) <=> Edge(x, t) \in ToSet(nodes[d].pred)
  BY DEF MirrorIn, Ids
<1>8. \A e : /\ Len(<<e>>) = 1 /\ <<e>>[1] = e
             /\ \A x : x \in ToSet(<<e>>) <=> x = e
  <2>1. \A e : Len(<<e>>) = 1 /\ <<e>>[1] = e
    OBVIOUS
  <2> QED BY <2>1, ToSetIs
(* Where the predecessors of an old node are now.                          *)
<1>9. ASSUME NEW d \in Ids, NEW t \in Types
      PROVE  /\ \A x \in Ids \ {m} : Edge(x, t) \in ToSet(r[d].pred) <=> Edge(x, t) \in ToSet(nodes[d].pred)
             /\ Edge(tail, t) \in ToSet(r[d].pred) <=> Edge(m, t) \in ToSet(nodes[d].pred)
             /\ Edge(m, t) \notin ToSet(r[d].pred)
  <2> HIDE DEF tail
  <2>1. (\E u \in Types : Edge(m, u) \in ToSet(nodes[d].pred)) => HasEdge(nodes, m, d)
    BY <1>1, <1>7, HasEdgeIs DEF Ids
  <2>2. ASSUME NEW k \in 1 .. Len(nodes[d].pred)
        PROVE  r[d].pred[k] = IF nodes[d].pred[k].node = m
                              THEN Edge(tail, nodes[d].pred[k].type) ELSE nodes[d].pred[k]
    <3>1. /\ nodes[d].pred[k] \in EdgeType
          /\ nodes[d].pred[k] = Edge(nodes[d].pred[k].node, nodes[d].pred[k].type)
          /\ nodes[d].pred[k].type \in Types
      BY <1>3, <1>4 DEF EdgeType
    <3>2. nodes[d].pred[k] \in ToSet(nodes[d].pred)
      BY ToSetIs
    <3> QED BY <3>1, <3>2, <2>1, <1>6
  <2>3. \A k \in 1 .. Len(nodes[d].pred) :
          /\ nodes[d].pred[k] = Edge(nodes[d].pred[k].node, nodes[d].pred[k].type)
          /\ nodes[d].pred[k].node # tail
    BY <1>1, <1>3, <1>4
  <2>4. \A x : x \in ToSet(r[d].pred) <=> \E k \in 1 .. Len(nodes[d].pred) : r[d].pred[k] = x
    BY <1>6, ToSetIs
  <2>5. \A x : x \in ToSet(nodes[d].pred) <=> \E k \in 1 .. Len(nodes[d].pred) : nodes[d].pred[k] = x
    BY ToSetIs
  <2>6. \A x \in Ids \ {m} : Edge(x, t) \in ToSet(r[d].pred) <=> Edge(x, t) \in ToSet(nodes[d].pred)
    BY <2>2, <2>3, <2>4, <2>5, <1>1, <1>4, SMTT(30)
  <2>7. Edge(tail, t) \in ToSet(r[d].pred) <=> Edge(m, t) \in ToSet(nodes[d].pred)
    <3>1. ASSUME NEW k \in 1 .. Len(nodes[d].pred)
          PROVE  r[d].pred[k] = Edge(tail, t) <=> nodes[d].pred[k] = Edge(m, t)
      <4>1. /\ nodes[d].pred[k] = Edge(nodes[d].pred[k].node, nodes[d].pred[k].type)
            /\ nodes[d].pred[k].node # tail
        BY <2>3
      <4>2. CASE nodes[d].pred[k].node = m
        <5>1. r[d].pred[k] = Edge(tail, nodes[d].pred[k].type)
          BY <2>2, <4>2
        <5> QED BY <5>1, <4>1, <4>2, <1>4
      <4>3. CASE nodes[d].pred[k].node # m
        <5>1. r[d].pred[k] = nodes[d].pred[k]
          BY <2>2, <4>3
        <5> QED BY <5>1, <4>1, <4>3, <1>4
      <4> QED BY <4>2, <4>3
    <3> QED BY <3>1, <2>4, <2>5
  <2>8. Edge(m, t) \notin ToSet(r[d].pred)
    BY <2>2, <2>3, <2>4, <1>1, <1>4
  <2> QED BY <2>6, <2>7, <2>8
<1>10. ASSUME NEW x \in 1 .. tail, NEW d \in 1 .. tail, NEW t \in Types
       PROVE  Edge(d, t) \in ToSet(r[x].succ) <=> Edge(x, t) \in ToSet(r[d].pred)
  <2>1. \A y \in Ids : Edge(tail, t) \notin ToSet(nodes[y].succ)
    BY <1>1, <1>3, <1>4, ToSetIs
  <2> HIDE DEF tail
  <2>0. /\ Edge(d, t) \in ToSet(r[m].succ) <=> d = tail /\ t = "FALLTHROUGH"
        /\ Edge(x, t) \in ToSet(r[tail].pred) <=> x = m /\ t = "FALLTHROUGH"
    BY <1>4, <1>5, <1>8
  <2>2. CASE x = m
    <3>1. CASE d = tail
      BY <2>0, <2>2, <3>1
    <3>2. CASE d \in Ids
      BY <2>0, <2>2, <3>2, <1>1, <1>9
    <3> QED BY <3>1, <3>2, <1>2
  <2>3. CASE x = tail
    <3>1. CASE d = tail
      BY <2>0, <2>1, <2>3, <3>1, <1>1, <1>5
    <3>2. CASE d \in Ids
      <4>1. Edge(d, t) \in ToSet(r[x].succ) <=> Edge(m, t) \in ToSet(nodes[d].pred)
        BY <2>3, <3>2, <1>1, <1>5, <1>7
      <4> QED BY <4>1, <2>3, <3>2, <1>9
    <3> QED BY <3>1, <3>2, <1>2
  <2>4. CASE x \in Ids \ {m}
    <3>1. CASE d = tail
      BY <2>0, <2>1, <2>4, <3>1, <1>5
    <3>2. CASE d \in Ids
      <4>1. Edge(d, t) \in ToSet(r[x].succ) <=> Edge(x, t) \in ToSet(nodes[d].pred)
        BY <2>4, <3>2, <1>5, <1>7
      <4> QED BY <4>1, <2>4, <3>2, <1>9
    <3> QED BY <3>1, <3>2, <1>2
  <2> QED BY <2>2, <2>3, <2>4, <1>2
<1>11. ASSUME NEW x \in 1 .. tail, NEW k \in 1 .. Len(r[x].succ), NEW l \in 1 .. Len(r[x].succ),
              r[x].succ[k].node = r[x].succ[l].node
       PROVE  k = l
  <2>1. \A d \in Ids : \A y, z \in 1 .. Len(nodes[d].succ) :
          nodes[d].succ[y].node = nodes[d].succ[z].node => y = z
    BY DEF MirrorIn, Ids
  <2> HIDE DEF tail
  <2>2. CASE x = m
    BY <2>2, <1>5, <1>8
  <2>3. CASE x = tail
    BY <2>1, <2>3, <1>1, <1>5, <1>11
  <2>4. CASE x \in Ids \ {m}
    BY <2>1, <2>4, <1>5, <1>11
  <2> QED BY <2>2, <2>3, <2>4, <1>2
<1>12. ASSUME NEW x \in 1 .. tail, NEW k \in 1 .. Len(r[x].pred), NEW l \in 1 .. Len(r[x].pred),
              r[x].pred[k].node = r[x].pred[l].node
       PROVE  k = l
  <2>1. \A d \in Ids : \A y, z \in 1 .. Len(nodes[d].pred) :
          nodes[d].pred[y].node = nodes[d].pred[z].node => y = z
    BY DEF MirrorIn, Ids
  <2> HIDE DEF tail
  <2>2. CASE x = tail
    BY <2>2, <1>5, <1>8
  <2>3. CASE x \in Ids
    <3>1. /\ k \in 1 .. Len(nodes[x].pred) /\ l \in 1 .. Len(nodes[x].pred)
          /\ nodes[x].pred[k].node \in Ids /\ nodes[x].pred[l].node \in Ids
      BY <2>3, <1>3, <1>6
    <3>2. nodes[x].pred[k].node = nodes[x].pred[l].node
      <4> DEFINE q(y) == nodes[x].pred[y].node
                 h    == HasEdge(nodes, m, x)
      <4>1. ASSUME NEW y \in 1 .. Len(nodes[x].pred)
            PROVE  r[x].pred[y].node = IF h /\ q(y) = m THEN tail ELSE q(y)
        <5>1. r[x].pred[y] = IF h /\ q(y) = m THEN Edge(tail, nodes[x].pred[y].type)
                                              ELSE nodes[x].pred[y]
          BY <2>3, <1>6
        <5> HIDE DEF h
        <5>2. CASE h /\ q(y) = m
          BY <5>1, <5>2, <1>4
        <5>3. CASE ~(h /\ q(y) = m)
          BY <5>1, <5>3
        <5> QED BY <5>2, <5>3
      <4>2. q(k) # tail /\ q(l) # tail
        BY <3>1, <1>1
      <4> HIDE DEF q, h
      <4>3. q(k) = q(l)
        BY <4>1, <4>2, <3>1, <1>12
      <4> QED BY <4>3 DEF q
    <3> QED BY <2>1, <2>3, <3>1, <3>2
  <2> QED BY <2>2, <2>3, <1>2
<1> QED BY <1>1, <1>10, <1>11, <1>12 DEF MirrorIn

-----------------------------------------------------------------------------
(* Transfers of control and the edges for them.                            *)

LastIn(ns, m) == ns[m].insns[Len(ns[m].insns)]

TargetsIn(ns, m) ==
  IF LastIn(ns, m).exits > 0 THEN ToSet(LastIn(ns, m).pcs) ELSE {ns[m].addr + ns[m].size}

(* What is at address t is the start of a block to which m has an edge.    *)
Reached(ns, m, t) ==
  \A d \in 1 .. Len(ns) : \A k \in 1 .. Len(ns[d].insns) :
    ns[d].insns[k].at = t => k = 1 /\ HasEdge(ns, m, d)

Covered(ns, m) == \A t \in TargetsIn(ns, m) : Reached(ns, m, t)

LEMMA ReachedStart ==
  ASSUME NEW ns, IsGraph(ns), TiledIn(ns), NEW m \in 1 .. Len(ns), NEW d \in 1 .. Len(ns),
         HasEdge(ns, m, d)
  PROVE  Reached(ns, m, ns[d].addr)
BY AtStart DEF Reached

LEMMA ReachedAdded ==
  ASSUME NEW ns, IsGraph(ns), NEW src \in 1 .. Len(ns), NEW dst \in 1 .. Len(ns),
         NEW type \in Types, NEW r, IsAdded(ns, r, src, dst, type), NEW m \in 1 .. Len(ns)
  PROVE  /\ \A t : Reached(ns, m, t) => Reached(r, m, t)
         /\ TargetsIn(r, m) = TargetsIn(ns, m)
         /\ Covered(ns, m) => Covered(r, m)
<1>1. /\ Len(r) = Len(ns)
      /\ \A d \in 1 .. Len(ns) : /\ r[d].insns = ns[d].insns /\ r[d].addr = ns[d].addr
                                 /\ r[d].size = ns[d].size
                                 /\ HasEdge(ns, m, d) => HasEdge(r, m, d)
  BY Added DEF Alike
<1>2. \A t : Reached(ns, m, t) => Reached(r, m, t)
  BY <1>1 DEF Reached
<1>3. TargetsIn(r, m) = TargetsIn(ns, m)
  BY <1>1 DEF TargetsIn, LastIn
<1> QED BY <1>2, <1>3 DEF Covered

LEMMA ReachedSplit ==
  ASSUME IsGraph(nodes), NEW m, NEW j, Cuttable(m, j), NEW r, IsSplit(r, m, j),
         NEW x \in Ids, NEW t, Reached(nodes, x, t)
  PROVE  Reached(r, IF x = m THEN Len(nodes) + 1 ELSE x, t)
<1> DEFINE tail == Len(nodes) + 1
           len  == Len(nodes[m].insns)
           y    == IF x = m THEN tail ELSE x
<1>1. m \in Ids /\ j \in 2 .. len /\ len \in Nat /\ Len(nodes) \in Nat /\ Len(r) = tail
  BY GraphFields DEF Cuttable, Ids, IsSplit
<1>2. /\ Len(r[m].insns) = j - 1
      /\ \A k \in 1 .. (j - 1) : r[m].insns[k] = nodes[m].insns[k]
      /\ Len(r[tail].insns) = len - j + 1
      /\ \A k \in 1 .. (len - j + 1) : r[tail].insns[k] = nodes[m].insns[j + k - 1]
  BY InsnsSplit
<1>3. \A d \in Ids : d # m => r[d].insns = nodes[d].insns
  BY DEF IsSplit
<1>4. \A d : HasEdge(nodes, x, d) => HasEdge(r, y, d)
  BY <1>1, SplitEdges
<1> HIDE DEF y
<1>5. \A d \in Ids : \A k \in 1 .. Len(nodes[d].insns) :
        nodes[d].insns[k].at = t => k = 1 /\ HasEdge(r, y, d)
  BY <1>4 DEF Reached, Ids
<1> SUFFICES ASSUME NEW d \in 1 .. tail, NEW k \in 1 .. Len(r[d].insns), r[d].insns[k].at = t
             PROVE  k = 1 /\ HasEdge(r, y, d)
  BY <1>1 DEF Reached, y
<1>6. d = tail \/ d = m \/ (d \in Ids /\ d # m)
  BY <1>1 DEF Ids
<1>7. CASE d = tail
  <2>1. k \in 1 .. (len - j + 1) /\ nodes[m].insns[j + k - 1].at = t
    BY <1>2, <1>7
  <2>2. j + k - 1 \in 1 .. len /\ j + k - 1 # 1
    BY <2>1, <1>1
  <2> QED BY <2>1, <2>2, <1>1, <1>5
<1>8. CASE d = m
  <2>1. k \in 1 .. (j - 1) /\ nodes[m].insns[k].at = t
    BY <1>2, <1>8
  <2>2. k \in 1 .. len
    BY <2>1, <1>1
  <2> QED BY <2>1, <2>2, <1>1, <1>5, <1>8
<1>9. CASE d \in Ids /\ d # m
  BY <1>3, <1>5, <1>9
<1> QED BY <1>6, <1>7, <1>8, <1>9

LEMMA TargetsSplit ==
  ASSUME IsGraph(nodes), Silent(nodes), NEW m, NEW j, Cuttable(m, j), NEW r, IsSplit(r, m, j)
  PROVE  LET tail == Len(nodes) + 1
         IN  /\ TargetsIn(r, m) = {r[tail].addr}
             /\ TargetsIn(r, tail) = TargetsIn(nodes, m)
             /\ \A x \in Ids \ {m} : TargetsIn(r, x) = TargetsIn(nodes, x)
             /\ LastIn(r, m).exits = 0
             /\ \A x \in Ids \ {m} : LastIn(r, x) = LastIn(nodes, x)
<1> DEFINE tail == Len(nodes) + 1
           len  == Len(nodes[m].insns)
           a    == nodes[m].insns[j].at
<1>1. /\ m \in Ids /\ j \in 2 .. len /\ len \in Nat /\ Len(nodes) \in Nat
      /\ a \in Nat /\ nodes[m].addr \in Nat /\ nodes[m].size \in Nat
  BY GraphFields DEF Cuttable, Ids
<1>2. /\ Len(r[m].insns) = j - 1
      /\ Len(r[tail].insns) = len - j + 1
      /\ \A k \in 1 .. (len - j + 1) : r[tail].insns[k] = nodes[m].insns[j + k - 1]
  BY InsnsSplit
<1>3. /\ \A d \in Ids \ {m} : /\ r[d].insns = nodes[d].insns /\ r[d].addr = nodes[d].addr
                              /\ r[d].size = nodes[d].size
      /\ r[m].addr = nodes[m].addr /\ r[m].size = a - nodes[m].addr
      /\ r[tail].addr = a /\ r[tail].size = nodes[m].addr + nodes[m].size - a
  BY DEF IsSplit
<1>4. LastIn(r, m).exits = 0
  BY <1>2, SplitSilent DEF LastIn
<1>5. LastIn(r, tail) = LastIn(nodes, m)
  <2>1. len - j + 1 \in 1 .. (len - j + 1) /\ j + (len - j + 1) - 1 = len
    BY <1>1
  <2>2. r[tail].insns[len - j + 1] = nodes[m].insns[len]
    BY <2>1, <1>2
  <2> QED BY <2>2, <1>2 DEF LastIn
<1>6. TargetsIn(r, m) = {r[tail].addr}
  <2>1. r[m].addr + r[m].size = r[tail].addr
    <3> HIDE DEF a
    <3> QED BY <1>1, <1>3
  <2> QED BY <2>1, <1>4 DEF TargetsIn
<1>7. TargetsIn(r, tail) = TargetsIn(nodes, m)
  <2>1. r[tail].addr + r[tail].size = nodes[m].addr + nodes[m].size
    <3> HIDE DEF a
    <3> QED BY <1>1, <1>3
  <2> QED BY <2>1, <1>5 DEF TargetsIn
<1>8. \A x \in Ids \ {m} : TargetsIn(r, x) = TargetsIn(nodes, x) /\ LastIn(r, x) = LastIn(nodes, x)
  BY <1>3 DEF TargetsIn, LastIn
<1> QED BY <1>4, <1>6, <1>7, <1>8

(* A cut leaves every block covered that was, the tail in place of the     *)
(* block itself; the head goes on to the tail.                             *)
LEMMA CoveredSplit ==
  ASSUME IsGraph(nodes), TiledIn(nodes), Silent(nodes), NEW m, NEW j, Cuttable(m, j),
         NEW r, IsSplit(r, m, j)
  PROVE  /\ \A x \in Ids \ {m} : Covered(nodes, x) => Covered(r, x)
         /\ Covered(r, m)
         /\ Covered(nodes, m) => Covered(r, Len(nodes) + 1)
<1> DEFINE tail == Len(nodes) + 1
<1>1. m \in Ids /\ Len(nodes) \in Nat /\ Len(r) = tail
  BY GraphFields DEF Cuttable, Ids, IsSplit
<1>2. \A x \in Ids \ {m} : Covered(nodes, x) => Covered(r, x)
  BY ReachedSplit, TargetsSplit DEF Covered
<1>3. Covered(nodes, m) => Covered(r, tail)
  BY <1>1, ReachedSplit, TargetsSplit DEF Covered
<1>4. Covered(r, m)
  <2>1. HasEdge(r, m, tail)
    BY SplitEdges
  <2>2. m \in 1 .. Len(r) /\ tail \in 1 .. Len(r)
    BY <1>1 DEF Ids
  <2>3. IsGraph(r) /\ TiledIn(r)
    BY SplitGraph, SplitTiled
  <2>4. TargetsIn(r, m) = {r[tail].addr}
    BY TargetsSplit
  <2> HIDE DEF tail
  <2> QED BY <2>1, <2>2, <2>3, <2>4, ReachedStart DEF Covered
<1> QED BY <1>2, <1>3, <1>4

(* What follows a block that has no exit is the next one of the chain.     *)
LEMMA CoveredNext ==
  ASSUME NEW ns, IsGraph(ns), TiledIn(ns), NEW m \in 1 .. Len(ns),
         ~(LastIn(ns, m).exits > 0), ns[m].next # 0 => HasEdge(ns, m, ns[m].next)
  PROVE  Covered(ns, m)
<1> DEFINE t == ns[m].addr + ns[m].size
<1> SUFFICES ASSUME NEW d \in 1 .. Len(ns), NEW k \in 1 .. Len(ns[d].insns), ns[d].insns[k].at = t
             PROVE  k = 1 /\ HasEdge(ns, m, d)
  BY DEF Covered, TargetsIn, Reached
<1>1. \A e \in 1 .. Len(ns) : ns[e].addr \in Nat /\ ns[e].size \in Nat \ {0} /\ ns[e].next \in 0 .. Len(ns)
  BY GraphFields
<1>2. ns[d].addr <= t /\ t < ns[d].addr + ns[d].size
  BY DEF TiledIn, InsnsIn, Within
<1>3. d # m
  BY <1>1, <1>2
<1>4. ns[m].addr < ns[d].addr
  <2>1. CASE ns[d].addr < ns[m].addr
    <3>1. /\ ns[d].next # 0 /\ ns[d].addr + ns[d].size <= ns[ns[d].next].addr
          /\ ns[ns[d].next].addr <= ns[m].addr
      BY <2>1, InOrder
    <3>2. ns[d].next \in 1 .. Len(ns)
      BY <3>1, <1>1
    <3>3. /\ ns[d].addr \in Nat /\ ns[d].size \in Nat /\ ns[ns[d].next].addr \in Nat
          /\ ns[m].addr \in Nat /\ ns[m].size \in Nat \ {0}
      BY <3>2, <1>1
    <3>4. t < ns[m].addr
      <4>1. ns[d].addr + ns[d].size <= ns[m].addr
        BY <3>1, <3>3, SMTT(30)
      <4>2. t \in Nat
        BY <3>3, SMTT(30)
      <4> HIDE DEF t
      <4> QED BY <4>1, <4>2, <3>3, <1>2
    <3> QED BY <3>3, <3>4
  <2>2. ns[d].addr # ns[m].addr
    BY <1>3 DEF TiledIn
  <2> QED BY <2>1, <2>2, <1>1
<1>5. ns[m].next # 0 /\ t <= ns[ns[m].next].addr /\ ns[ns[m].next].addr <= ns[d].addr
  BY <1>4, InOrder
<1>6. ns[m].next \in 1 .. Len(ns)
  BY <1>1, <1>5
<1>7. ns[d].addr = ns[ns[m].next].addr /\ t = ns[d].addr
  <2>1. ns[ns[m].next].addr \in Nat /\ ns[d].addr \in Nat /\ t \in Nat
    BY <1>1, <1>6, SMTT(30)
  <2> HIDE DEF t
  <2> QED BY <2>1, <1>2, <1>5
<1>8. d = ns[m].next
  BY <1>6, <1>7 DEF TiledIn
<1>9. k = 1
  BY <1>7, AtStart
<1> QED BY <1>5, <1>8, <1>9

-----------------------------------------------------------------------------
(* The chain that the first loop builds.                                   *)

GraphInv(ns) ==
  /\ IsGraph(ns) /\ TiledIn(ns) /\ Silent(ns) /\ MirrorIn(ns) /\ FallsToNext(ns)
  /\ ExitsEdge(ns)

InChain(ns, o) ==
  /\ \A m \in 1 .. Len(ns) :
       /\ ns[m].next = IF m = Len(ns) THEN 0 ELSE m + 1
       /\ ns[m].addr + ns[m].size <= o
       /\ ns[m].exits = 0 /\ ns[m].succ = << >> /\ ns[m].pred = << >>
  /\ \A m, d \in 1 .. Len(ns) : m < d => ns[m].addr + ns[m].size <= ns[d].addr

LEMMA ChainedGraph ==
  ASSUME NEW ns, IsGraph(ns), NEW o, InChain(ns, o), Silent(ns),
         \A m \in 1 .. Len(ns) : InsnsIn(ns, m)
  PROVE  GraphInv(ns)
<1>1. /\ Len(ns) \in Nat
      /\ \A m \in 1 .. Len(ns) : ns[m].addr \in Nat /\ ns[m].size \in Nat \ {0}
  BY GraphFields
<1>2. \A m, d \in 1 .. Len(ns) : m < d => ns[m].addr < ns[d].addr
  <2> TAKE m, d \in 1 .. Len(ns)
  <2> HAVE m < d
  <2>1. ns[m].addr + ns[m].size <= ns[d].addr
    BY DEF InChain
  <2>2. ns[m].addr \in Nat /\ ns[m].size \in Nat \ {0} /\ ns[d].addr \in Nat
    BY <1>1
  <2> QED BY <2>1, <2>2
<1>3. \A m, d \in 1 .. Len(ns) : m # d => ns[m].addr # ns[d].addr
  <2> TAKE m, d \in 1 .. Len(ns)
  <2>1. m < d \/ d < m \/ m = d
    BY <1>1
  <2>2. ns[m].addr \in Nat /\ ns[d].addr \in Nat
    BY <1>1
  <2> QED BY <2>1, <2>2, <1>2
<1>4. \A m \in 1 .. Len(ns) : ns[1].addr <= ns[m].addr
  <2> TAKE m \in 1 .. Len(ns)
  <2>1. 1 \in 1 .. Len(ns) /\ (1 < m \/ m = 1) /\ ns[1].addr \in Nat /\ ns[m].addr \in Nat
    BY <1>1
  <2> QED BY <2>1, <1>2
<1>5. ASSUME NEW m \in 1 .. Len(ns) PROVE NextIn(ns, m)
  <2>1. /\ ns[m].addr \in Nat /\ Len(ns) \in 1 .. Len(ns) /\ ns[Len(ns)].addr \in Nat
        /\ (m < Len(ns) \/ m = Len(ns))
    BY <1>1
  <2>2. CASE m = Len(ns)
    <3>1. \A d \in 1 .. Len(ns) : ns[d].addr <= ns[m].addr
      <4> TAKE d \in 1 .. Len(ns)
      <4>1. (d < m \/ d = m) /\ ns[d].addr \in Nat
        BY <1>1, <2>2
      <4> QED BY <4>1, <2>1, <1>2
    <3> QED BY <2>2, <3>1 DEF NextIn, InChain
  <2>3. CASE m < Len(ns)
    <3>1. m + 1 \in 1 .. Len(ns) /\ m < m + 1
      BY <1>1, <2>3
    <3>2. ns[m].next = m + 1 /\ m + 1 # 0 /\ ns[m].addr + ns[m].size <= ns[m + 1].addr
      BY <1>1, <2>3, <3>1 DEF InChain
    <3>3. ~(ns[Len(ns)].addr <= ns[m].addr)
      BY <2>1, <2>3, <1>2
    <3>4. \A d \in 1 .. Len(ns) : ns[d].addr <= ns[m].addr \/ ns[m + 1].addr <= ns[d].addr
      <4> TAKE d \in 1 .. Len(ns)
      <4>1. (d < m \/ d = m \/ d = m + 1 \/ m + 1 < d)
        BY <1>1, <2>3
      <4>2. ns[d].addr \in Nat /\ ns[m + 1].addr \in Nat
        BY <1>1, <3>1
      <4> QED BY <4>1, <4>2, <2>1, <3>1, <1>2
    <3> QED BY <2>1, <3>2, <3>3, <3>4 DEF NextIn
  <2> QED BY <2>1, <2>2, <2>3
<1>6. TiledIn(ns)
  BY <1>3, <1>4, <1>5 DEF TiledIn
<1>7. \A m \in 1 .. Len(ns) : Len(ns[m].succ) = 0 /\ Len(ns[m].pred) = 0 /\ ns[m].exits = 0
  BY EmptySeq DEF InChain
<1>8. MirrorIn(ns)
  BY <1>7, ToSetIs DEF MirrorIn
<1>9. FallsToNext(ns) /\ ExitsEdge(ns)
  BY <1>7 DEF FallsToNext, ExitsEdge
<1> QED BY <1>6, <1>8, <1>9 DEF GraphInv

(* The node for a block, lifted at address o.                              *)
NewNode(tb, o) ==
  [addr |-> o, size |-> tb.size, insns |-> Lifter(tb.insns, o),
   next |-> 0, exits |-> 0, succ |-> << >>, pred |-> << >>]

LEMMA NewNodeFacts ==
  ASSUME IsView(view), NEW c \in 1 .. Len(view), NEW o \in Nat,
         Lifter(view[c].insns, o) # << >>
  PROVE  LET x == NewNode(view[c], o)
         IN  /\ x \in Node
             /\ x.insns[1].at = o
             /\ \A j \in 1 .. Len(x.insns) : o <= x.insns[j].at /\ x.insns[j].at < o + x.size
             /\ \A j, l \in 1 .. Len(x.insns) :
                  j < l => x.insns[j].at < x.insns[l].at /\ x.insns[j].exits = 0
<1> DEFINE tb == view[c]
           s  == tb.insns
           t  == Lifter(s, o)
           x  == NewNode(tb, o)
<1>1. tb \in Tb
  BY ElementOfSeq DEF IsView
<1>2. tb.size \in Nat \ {0} /\ s \in Seq(Insn)
  BY <1>1 DEF Tb
<1>3. Len(s) \in Nat /\ \A j \in 1 .. Len(s) : s[j] \in Insn
  BY <1>2, ElementOfSeq, LenProperties
<1>4. /\ \A j \in 1 .. Len(s) : s[j].at < tb.size
      /\ s # << >> => s[1].at = 0
      /\ \A j, l \in 1 .. Len(s) : j < l => s[j].at < s[l].at /\ s[j].exits = 0
  BY DEF IsView
<1> HIDE DEF tb, s
<1>5. ASSUME NEW j \in 1 .. Len(s)
      PROVE  /\ t[j] \in Insn /\ t[j].at = o + s[j].at /\ t[j].exits = s[j].exits
             /\ s[j].at \in Nat
  <2>1. t[j] = [s[j] EXCEPT !.at = o + @]
    BY DEF Lifter
  <2> DEFINE y == s[j]
  <2>2. y \in Insn /\ y.at \in Nat
    BY <1>3 DEF Insn
  <2> HIDE DEF y, t
  <2>3. t[j] = [y EXCEPT !.at = o + y.at]
    BY <2>1 DEF y
  <2>4. o + y.at \in Nat
    BY <2>2
  <2> QED BY <2>2, <2>3, <2>4 DEF Insn, y
<1>6. t \in Seq(Insn) /\ Len(t) = Len(s)
  <2>1. t = [j \in 1 .. Len(s) |-> t[j]]
    BY DEF Lifter
  <2> HIDE DEF t
  <2>2. [j \in 1 .. Len(s) |-> t[j]] \in Seq(Insn)
    BY <1>3, <1>5, IsASeq
  <2>3. Len([j \in 1 .. Len(s) |-> t[j]]) = Len(s)
    BY <1>3
  <2> QED BY <2>1, <2>2, <2>3
<1>7. t # << >>
  BY DEF s, tb
<1>8. s # << >> /\ 1 \in 1 .. Len(s)
  <2>1. Len(t) # 0
    <3> HIDE DEF t
    <3> QED BY <1>6, <1>7, EmptySeq
  <2> QED BY <2>1, <1>3, <1>6, EmptySeq
<1> HIDE DEF t
<1>9. x \in Node /\ x.insns = t /\ x.size = tb.size
  <2>1. << >> \in Seq(EdgeType) /\ 0 \in Nat
    BY EmptySeq
  <2>2. x = [addr |-> o, size |-> tb.size, insns |-> t,
             next |-> 0, exits |-> 0, succ |-> << >>, pred |-> << >>]
    BY DEF NewNode, t, s
  <2> HIDE DEF x
  <2> QED BY <2>1, <2>2, <1>2, <1>6, <1>7 DEF Node, EdgeType, Types
<1> HIDE DEF x
<1>10. x.insns[1].at = o
  BY <1>4, <1>5, <1>8, <1>9
<1>11. ASSUME NEW j \in 1 .. Len(t)
       PROVE  o <= t[j].at /\ t[j].at < o + tb.size
  <2>1. t[j].at = o + s[j].at /\ s[j].at \in Nat /\ s[j].at < tb.size
    BY <1>4, <1>5, <1>6
  <2> QED BY <2>1, <1>2
<1>12. ASSUME NEW j \in 1 .. Len(t), NEW l \in 1 .. Len(t), j < l
       PROVE  t[j].at < t[l].at /\ t[j].exits = 0
  <2>1. /\ t[j].at = o + s[j].at /\ s[j].at \in Nat /\ t[j].exits = s[j].exits
        /\ t[l].at = o + s[l].at /\ s[l].at \in Nat
    BY <1>5, <1>6
  <2>2. s[j].at < s[l].at /\ s[j].exits = 0
    BY <1>4, <1>6, <1>12
  <2> QED BY <2>1, <2>2, SMTT(30)
<1> QED BY <1>9, <1>10, <1>11, <1>12 DEF x, tb

LEMMA LiftStep ==
  ASSUME IsView(view), off \in Nat, call \in Nat \ {0}, IsGraph(nodes), InChain(nodes, off),
         TiledIn(nodes), Silent(nodes), Lift
  PROVE  /\ IsGraph(nodes') /\ InChain(nodes', off') /\ GraphInv(nodes')
         /\ Len(nodes) <= Len(nodes')
<1> DEFINE x    == NewNode(view[call], off)
           len  == Len(nodes)
           tail == Len(nodes) + 1
           f    == [k \in Ids |-> IF k = Len(nodes) THEN [nodes[k] EXCEPT !.next = k + 1]
                                                    ELSE nodes[k]]
<1>1. /\ call \in 1 .. Len(view) /\ off' = off + view[call].size
      /\ nodes' = IF x.insns = << >> THEN nodes ELSE f \o <<x>>
  <2>1. Len(view) \in Nat
    BY LenProperties DEF IsView
  <2> QED BY <2>1 DEF Lift, NewNode
<1>2. view[call].size \in Nat \ {0}
  <2>1. view[call] \in Tb
    BY <1>1, ElementOfSeq DEF IsView
  <2> QED BY <2>1 DEF Tb
<1>3. /\ len \in Nat
      /\ \A m \in Ids : /\ nodes[m] \in Node /\ nodes[m].addr \in Nat /\ nodes[m].size \in Nat
                        /\ nodes[m].next \in 0 .. len
  BY GraphFields DEF Ids
<1>4. \A m \in Ids : nodes[m].addr + nodes[m].size <= off'
  <2> TAKE m \in Ids
  <2>1. nodes[m].addr + nodes[m].size <= off
    BY DEF InChain, Ids
  <2>2. nodes[m].addr + nodes[m].size \in Nat
    <3>1. nodes[m].addr \in Nat /\ nodes[m].size \in Nat
      BY <1>3
    <3> QED BY <3>1
  <2> QED BY <2>1, <2>2, <1>1, <1>2
<1>5. CASE x.insns = << >>
  <2>1. InChain(nodes', off')
    BY <1>1, <1>4, <1>5 DEF InChain, Ids
  <2> QED BY <2>1, <1>1, <1>3, <1>5, ChainedGraph DEF TiledIn
<1>6. CASE x.insns # << >>
  <2>1. Lifter(view[call].insns, off) # << >>
    BY <1>6 DEF NewNode
  <2>2. /\ x \in Node /\ x.insns[1].at = off
        /\ \A j \in 1 .. Len(x.insns) : off <= x.insns[j].at /\ x.insns[j].at < off + x.size
        /\ \A j, l \in 1 .. Len(x.insns) :
             j < l => x.insns[j].at < x.insns[l].at /\ x.insns[j].exits = 0
    BY <2>1, <1>1, NewNodeFacts
  <2>3. /\ x.addr = off /\ x.size = view[call].size /\ x.next = 0 /\ x.exits = 0
        /\ x.succ = << >> /\ x.pred = << >>
    BY DEF NewNode
  <2>4. Len(x.insns) \in Nat \ {0}
    BY <2>2, NodeFields
  <2> HIDE DEF x
  <2>5. ASSUME NEW k \in Ids
        PROVE  /\ f[k] \in Node
               /\ f[k].addr = nodes[k].addr /\ f[k].size = nodes[k].size
               /\ f[k].insns = nodes[k].insns /\ f[k].exits = nodes[k].exits
               /\ f[k].succ = nodes[k].succ /\ f[k].pred = nodes[k].pred
               /\ f[k].next = k + 1
    <3>1. nodes[k] \in Node /\ k \in Nat /\ k + 1 \in Nat
      BY <1>3 DEF Ids
    <3>2. CASE k = Len(nodes)
      <4> DEFINE y == nodes[k]
      <4>1. f[k] = [y EXCEPT !.next = k + 1] /\ y \in Node
        BY <3>1, <3>2
      <4> HIDE DEF y, f
      <4> QED BY <4>1, <3>1 DEF Node, y
    <3>3. CASE k # Len(nodes)
      <4>1. f[k] = nodes[k]
        BY <3>3
      <4>2. nodes[k].next = k + 1
        BY <3>3 DEF InChain, Ids
      <4> HIDE DEF f
      <4> QED BY <4>1, <4>2, <3>1
    <3> QED BY <3>2, <3>3
  <2>6. f \in Seq(Node) /\ Len(f) = len
    <3>1. f = [k \in 1 .. len |-> f[k]] /\ \A k \in 1 .. len : f[k] \in Node
      BY <2>5 DEF Ids
    <3>2. Len([k \in 1 .. len |-> f[k]]) = len
      BY <1>3
    <3> HIDE DEF f, len
    <3> QED BY <3>1, <3>2, <1>3, IsASeq
  <2> HIDE DEF f
  <2>7. /\ nodes' \in Seq(Node) /\ Len(nodes') = tail /\ nodes'[tail] = x
        /\ \A k \in Ids : nodes'[k] = f[k]
    <3>1. nodes' = f \o <<x>>
      BY <1>1, <1>6
    <3>2. nodes' = Append(f, x)
      BY <3>1, <2>2, <2>6
    <3> QED BY <3>2, <2>2, <2>6, AppendProperties DEF Ids
  <2>8. \A k \in 1 .. tail : k = tail \/ (k \in Ids /\ k # tail)
    BY <1>3 DEF Ids
  <2>9. /\ \A k \in Ids : /\ nodes'[k].addr = nodes[k].addr /\ nodes'[k].size = nodes[k].size
                          /\ nodes'[k].insns = nodes[k].insns /\ nodes'[k].next = k + 1
                          /\ nodes'[k].exits = 0 /\ nodes'[k].succ = << >>
                          /\ nodes'[k].pred = << >> /\ k < tail
        /\ nodes'[tail].addr = off /\ nodes'[tail].size = view[call].size
        /\ nodes'[tail].insns = x.insns /\ nodes'[tail].next = 0
        /\ nodes'[tail].exits = 0 /\ nodes'[tail].succ = << >> /\ nodes'[tail].pred = << >>
    <3>1. ASSUME NEW k \in Ids
          PROVE  /\ nodes'[k].addr = nodes[k].addr /\ nodes'[k].size = nodes[k].size
                 /\ nodes'[k].insns = nodes[k].insns /\ nodes'[k].next = k + 1
                 /\ nodes'[k].exits = 0 /\ nodes'[k].succ = << >>
                 /\ nodes'[k].pred = << >> /\ k < tail
      <4>1. nodes[k].exits = 0 /\ nodes[k].succ = << >> /\ nodes[k].pred = << >>
        BY DEF InChain, Ids
      <4>2. k < tail
        BY <1>3 DEF Ids
      <4>3. nodes'[k] = f[k]
        BY <2>7
      <4> HIDE DEF tail
      <4> QED BY <4>1, <4>2, <4>3, <2>5
    <3>2. nodes'[tail] = x
      BY <2>7
    <3> HIDE DEF tail
    <3> QED BY <3>1, <3>2, <2>3
  <2>10. IsGraph(nodes')
    <3> SUFFICES ASSUME NEW k \in 1 .. tail
                 PROVE  /\ nodes'[k].next \in 0 .. tail
                        /\ Len(nodes'[k].succ) = 0 /\ Len(nodes'[k].pred) = 0
      BY <2>7, <1>3 DEF IsGraph
    <3>1. k + 1 \in 0 .. tail \/ k = tail
      BY <1>3
    <3>2. 0 \in 0 .. tail /\ Len(<< >>) = 0
      BY <1>3, EmptySeq
    <3> QED BY <2>8, <2>9, <3>1, <3>2
  <2>11. InChain(nodes', off')
    <3>1. ASSUME NEW m \in 1 .. tail
          PROVE  /\ nodes'[m].next = IF m = tail THEN 0 ELSE m + 1
                 /\ nodes'[m].addr + nodes'[m].size <= off'
                 /\ nodes'[m].exits = 0 /\ nodes'[m].succ = << >> /\ nodes'[m].pred = << >>
      <4>1. off + view[call].size <= off'
        BY <1>1, <1>2
      <4> HIDE DEF tail
      <4> QED BY <4>1, <2>8, <2>9, <1>4
    <3>2. ASSUME NEW m \in 1 .. tail, NEW d \in 1 .. tail, m < d
          PROVE  nodes'[m].addr + nodes'[m].size <= nodes'[d].addr
      <4>1. m \in Ids
        BY <3>2, <1>3 DEF Ids
      <4>2. CASE d = tail
        BY <4>1, <4>2, <2>9 DEF InChain, Ids
      <4>3. CASE d \in Ids
        BY <4>1, <4>3, <3>2, <2>9 DEF InChain, Ids
      <4> QED BY <4>2, <4>3, <2>8
    <3> QED BY <3>1, <3>2, <2>7 DEF InChain
  <2>12. \A m \in 1 .. tail : InsnsIn(nodes', m)
    <3>1. ASSUME NEW m \in Ids PROVE InsnsIn(nodes', m)
      BY <2>9 DEF TiledIn, InsnsIn, Within, Ids
    <3>2. InsnsIn(nodes', tail)
      <4>1. nodes'[tail].insns = x.insns /\ nodes'[tail].addr = off /\ nodes'[tail].size = x.size
        BY <2>3, <2>9
      <4> HIDE DEF tail
      <4> QED BY <4>1, <2>2 DEF InsnsIn, Within
    <3> QED BY <3>1, <3>2, <2>8
  <2>13. Silent(nodes')
    <3> SUFFICES ASSUME NEW m \in 1 .. tail, NEW j \in 1 .. Len(nodes'[m].insns),
                        j < Len(nodes'[m].insns)
                 PROVE  nodes'[m].insns[j].exits = 0
      BY <2>7 DEF Silent
    <3>1. CASE m \in Ids
      BY <3>1, <2>9, SMTT(30) DEF Silent, Ids
    <3>2. CASE m = tail
      <4>1. j \in 1 .. Len(x.insns) /\ j < Len(x.insns) /\ Len(x.insns) \in 1 .. Len(x.insns)
        BY <3>2, <2>4, <2>9
      <4> QED BY <4>1, <3>2, <2>2, <2>9
    <3> QED BY <3>1, <3>2, <2>8
  <2>14. \A m \in 1 .. Len(nodes') : InsnsIn(nodes', m)
    BY <2>7, <2>12
  <2>15. Len(nodes) <= Len(nodes')
    BY <1>3, <2>7
  <2> QED BY <2>10, <2>11, <2>13, <2>14, <2>15, ChainedGraph
<1> QED BY <1>5, <1>6

-----------------------------------------------------------------------------
(* The steps on the graph, each with the whole of its invariant.           *)

LEMMA AddedInv ==
  ASSUME NEW ns, GraphInv(ns), NEW src \in 1 .. Len(ns), NEW dst \in 1 .. Len(ns),
         NEW type \in Types, type = "DIRECT" \/ dst = ns[src].next
  PROVE  LET r == AddEdge(ns, src, dst, type)
         IN  IsAdded(ns, r, src, dst, type) /\ GraphInv(r) /\ CodeIn(r) = CodeIn(ns)
<1> DEFINE r == AddEdge(ns, src, dst, type)
<1>1. IsGraph(ns) /\ IsAdded(ns, r, src, dst, type)
  BY AddEdgeFacts DEF GraphInv
<1> HIDE DEF r
<1>2. IsGraph(r) /\ Alike(ns, r) /\ ExitsEdge(r) /\ FallsToNext(r)
  BY <1>1, Added DEF GraphInv
<1>3. TiledIn(r) /\ Silent(r) /\ CodeIn(r) = CodeIn(ns)
  BY <1>1, <1>2, AlikeKeeps DEF GraphInv
<1>4. MirrorIn(r)
  BY <1>1, AddedMirror DEF GraphInv
<1> QED BY <1>1, <1>2, <1>3, <1>4 DEF GraphInv, r

LEMMA SplitInv ==
  ASSUME GraphInv(nodes), NEW m, NEW j, Cuttable(m, j)
  PROVE  LET r == Split(m, j)
         IN  IsSplit(r, m, j) /\ GraphInv(r) /\ CodeIn(r) = CodeIn(nodes)
<1> DEFINE r == Split(m, j)
<1>1. IsGraph(nodes) /\ IsSplit(r, m, j)
  BY SplitFacts DEF GraphInv, Cuttable
<1> HIDE DEF r
<1>2. IsGraph(r) /\ TiledIn(r) /\ Silent(r) /\ MirrorIn(r) /\ FallsToNext(r) /\ ExitsEdge(r)
  BY <1>1, SplitGraph, SplitTiled, SplitSilent, SplitMirror, SplitEdges DEF GraphInv
<1>3. CodeIn(r) = CodeIn(nodes)
  BY <1>1, SplitCode
<1> QED BY <1>1, <1>2, <1>3 DEF GraphInv, r

(* r is nodes after c more exits of node m were counted.                   *)
IsCounted(r, m, c) ==
  /\ r \in Seq(Node) /\ Len(r) = Len(nodes)
  /\ \A x \in 1 .. Len(nodes) :
       /\ r[x].addr = nodes[x].addr /\ r[x].size = nodes[x].size
       /\ r[x].insns = nodes[x].insns /\ r[x].next = nodes[x].next
       /\ r[x].succ = nodes[x].succ /\ r[x].pred = nodes[x].pred
       /\ r[x].exits = IF x = m THEN nodes[m].exits + c ELSE nodes[x].exits

LEMMA CountedFacts ==
  ASSUME IsGraph(nodes), NEW m \in Ids, NEW c \in Nat
  PROVE  IsCounted([nodes EXCEPT ![m].exits = @ + c], m, c)
<1> DEFINE y == nodes[m]
           z == [y EXCEPT !.exits = y.exits + c]
           r == [nodes EXCEPT ![m].exits = @ + c]
<1>1. nodes \in Seq(Node) /\ y \in Node /\ y.exits \in Nat
  BY GraphFields DEF IsGraph, Ids
<1>2. r = [nodes EXCEPT ![m] = z]
  OBVIOUS
<1> HIDE DEF y, r
<1>3. y.exits + c \in Nat
  BY <1>1
<1>4. /\ z \in Node /\ z.exits = y.exits + c
      /\ z.addr = y.addr /\ z.size = y.size /\ z.insns = y.insns /\ z.next = y.next
      /\ z.succ = y.succ /\ z.pred = y.pred
  BY <1>1, <1>3 DEF Node
<1> HIDE DEF z
<1>5. /\ r \in Seq(Node) /\ Len(r) = Len(nodes)
      /\ \A x \in 1 .. Len(nodes) : r[x] = IF x = m THEN z ELSE nodes[x]
  BY <1>1, <1>2, <1>4, ExceptSeq DEF Ids
<1>6. IsCounted(r, m, c)
  BY <1>4, <1>5 DEF y, IsCounted
<1> QED BY <1>6 DEF r

LEMMA CountedInv ==
  ASSUME GraphInv(nodes), NEW m \in Ids, NEW c \in Nat,
         LastIn(nodes, m).exits = 0 => c = 0, NEW r, IsCounted(r, m, c)
  PROVE  /\ GraphInv(r) /\ Alike(nodes, r) /\ CodeIn(r) = CodeIn(nodes)
         /\ \A x \in Ids : Covered(nodes, x) => Covered(r, x)
<1>1. /\ IsGraph(nodes) /\ nodes[m].exits \in Nat /\ Ids = 1 .. Len(nodes)
  BY GraphFields DEF GraphInv, Ids
<1>5. r \in Seq(Node) /\ Len(r) = Len(nodes)
  BY DEF IsCounted
<1>6. \A x \in Ids : /\ r[x].addr = nodes[x].addr /\ r[x].size = nodes[x].size
                     /\ r[x].insns = nodes[x].insns /\ r[x].next = nodes[x].next
                     /\ r[x].succ = nodes[x].succ /\ r[x].pred = nodes[x].pred
                     /\ r[x].exits = IF x = m THEN nodes[m].exits + c ELSE nodes[x].exits
  BY <1>1 DEF IsCounted
<1>7. Alike(nodes, r)
  BY <1>1, <1>5, <1>6 DEF Alike
<1>8. IsGraph(r)
  <2>1. ASSUME NEW x \in Ids
        PROVE  /\ nodes[x].next \in 0 .. Len(nodes)
               /\ \A k \in 1 .. Len(nodes[x].succ) : nodes[x].succ[k].node \in 1 .. Len(nodes)
               /\ \A k \in 1 .. Len(nodes[x].pred) : nodes[x].pred[k].node \in 1 .. Len(nodes)
    BY <1>1 DEF IsGraph
  <2>2. ASSUME NEW x \in Ids
        PROVE  r[x].next = nodes[x].next /\ r[x].succ = nodes[x].succ /\ r[x].pred = nodes[x].pred
    BY <1>6
  <2>3. ASSUME NEW x \in Ids
        PROVE  /\ r[x].next \in 0 .. Len(r)
               /\ \A k \in 1 .. Len(r[x].succ) : r[x].succ[k].node \in 1 .. Len(r)
               /\ \A k \in 1 .. Len(r[x].pred) : r[x].pred[k].node \in 1 .. Len(r)
    BY <2>1, <2>2, <1>5
  <2> QED BY <2>3, <1>1, <1>5 DEF IsGraph
<1>9. TiledIn(r) /\ Silent(r) /\ CodeIn(r) = CodeIn(nodes)
  BY <1>1, <1>7, AlikeKeeps DEF GraphInv
<1>10. MirrorIn(r)
  <2>1. MirrorIn(nodes)
    BY DEF GraphInv
  <2>2. ASSUME NEW x \in Ids, NEW d \in Ids, NEW type \in Types
        PROVE  Edge(d, type) \in ToSet(r[x].succ) <=> Edge(x, type) \in ToSet(r[d].pred)
    <3>1. r[x].succ = nodes[x].succ /\ r[d].pred = nodes[d].pred
      BY <1>6
    <3> QED BY <2>1, <3>1, <1>1 DEF MirrorIn
  <2>3. ASSUME NEW x \in Ids
        PROVE  /\ \A k, l \in 1 .. Len(r[x].succ) : r[x].succ[k].node = r[x].succ[l].node => k = l
               /\ \A k, l \in 1 .. Len(r[x].pred) : r[x].pred[k].node = r[x].pred[l].node => k = l
    <3>1. r[x].succ = nodes[x].succ /\ r[x].pred = nodes[x].pred
      BY <1>6
    <3> QED BY <2>1, <3>1, <1>1 DEF MirrorIn
  <2> QED BY <2>2, <2>3, <1>1, <1>5 DEF MirrorIn
<1>11. FallsToNext(r)
  BY <1>1, <1>5, <1>6 DEF GraphInv, FallsToNext
<1>12. \A x, d \in Ids : HasEdge(r, x, d) <=> HasEdge(nodes, x, d)
  BY <1>6 DEF HasEdge
<1>13. ExitsEdge(r)
  <2> SUFFICES ASSUME NEW x \in Ids, LastIn(nodes, x).exits = 0, r[x].exits > 0
               PROVE  nodes[x].next # 0 /\ HasEdge(r, x, nodes[x].next)
    BY <1>1, <1>5, <1>6 DEF ExitsEdge, LastIn
  <2>1. r[x].exits = nodes[x].exits
    BY <1>1, <1>6
  <2>2. nodes[x].next # 0 /\ HasEdge(nodes, x, nodes[x].next)
    BY <2>1, <1>1 DEF GraphInv, ExitsEdge, LastIn
  <2> QED BY <2>2, <1>6 DEF HasEdge
<1>14. ASSUME NEW x \in Ids, Covered(nodes, x) PROVE Covered(r, x)
  <2>1. TargetsIn(r, x) = TargetsIn(nodes, x)
    BY <1>6 DEF TargetsIn, LastIn
  <2>2. \A t : Reached(nodes, x, t) => Reached(r, x, t)
    BY <1>1, <1>5, <1>6, <1>12, SMTT(30) DEF Reached
  <2> QED BY <1>14, <2>1, <2>2 DEF Covered
<1> QED BY <1>6, <1>7, <1>8, <1>9, <1>10, <1>11, <1>13, <1>14 DEF GraphInv

-----------------------------------------------------------------------------
(* The invariant.  Every block in front of the one the walk is at has its  *)
(* edges; of that one, what has been looked at so far.                     *)

WalkIn(ns, p) ==
  \A m \in 1 .. Len(ns) : p = 0 \/ ns[m].addr < ns[p].addr => Covered(ns, m)

ScanIn(ns, p, js, k) ==
  p # 0 => \A l \in 1 .. Len(ns[p].insns) :
             l < k => /\ ToSet(ns[p].insns[l].pcs) \subseteq ToSet(js)
                      /\ ns[p].insns[l].exits <= ns[p].exits

JumpsIn(ns, p, js, k) ==
  /\ p # 0
  /\ LastIn(ns, p).exits > 0 =>
       /\ ToSet(LastIn(ns, p).pcs) \subseteq ToSet(js)
       /\ \A l \in 1 .. Len(js) : l < k => Reached(ns, p, js[l])

LinkIn(ns, p) == p # 0 /\ (LastIn(ns, p).exits > 0 => Covered(ns, p))

VarsOK ==
  /\ IsView(view)
  /\ pc \in {"lift", "scan", "jumps", "link", "done", "aborted", "overrun"}
  /\ call \in 1 .. (Len(view) + 1) /\ off \in Nat
  /\ n \in 0 .. Len(nodes)
  /\ jumps \in Seq(Nat) /\ indirect \in Nat /\ i \in Nat \ {0}

IInv ==
  /\ VarsOK /\ GraphInv(nodes)
  /\ pc = "lift" => InChain(nodes, off)
  /\ pc \in {"scan", "jumps", "link", "done"} => WalkIn(nodes, n)
  /\ pc = "scan" => ScanIn(nodes, n, jumps, i)
  /\ pc = "jumps" => JumpsIn(nodes, n, jumps, i)
  /\ pc = "link" => LinkIn(nodes, n)
  /\ pc = "done" => n = 0

LEMMA InitInv == Init => IInv
<1> SUFFICES ASSUME Init PROVE IInv
  OBVIOUS
<1>1. Len(nodes) = 0 /\ nodes \in Seq(Node) /\ jumps \in Seq(Nat)
  BY EmptySeq DEF Init
<1>2. 1 .. 0 = {}
  OBVIOUS
<1>3. IsView(view)
  BY CfgBuildAssumption DEF Init
<1>4. VarsOK
  <2>1. Len(view) \in Nat
    BY <1>3, LenProperties DEF IsView
  <2> QED BY <2>1, <1>1, <1>3 DEF Init, VarsOK
<1>5. InChain(nodes, off) /\ IsGraph(nodes) /\ Silent(nodes)
      /\ \A m \in 1 .. Len(nodes) : InsnsIn(nodes, m)
  BY <1>1, <1>2 DEF InChain, IsGraph, Silent
<1>6. GraphInv(nodes)
  BY <1>5, ChainedGraph
<1> QED BY <1>4, <1>5, <1>6 DEF IInv, Init

(* The step stores a graph r that fits what the jump was looked up for.    *)
LEMMA Stored ==
  ASSUME IInv, pc = "jumps", NEW r, GraphInv(r), Len(nodes) <= Len(r), WalkIn(r, n),
         JumpsIn(r, n, jumps, i + 1), Store(r, "jumps"), i' = i + 1,
         UNCHANGED <<view, call, off, n, jumps, indirect>>
  PROVE  IInv'
<1>1. \/ nodes' = r /\ pc' = "jumps"
      \/ nodes' = nodes /\ pc' = "aborted"
  BY DEF Store
<1>2. GraphInv(nodes')
  BY <1>1 DEF IInv
<1>3. Len(nodes) \in Nat /\ Len(r) \in Nat
  BY GraphFields DEF IInv, GraphInv
<1>4. Len(nodes) <= Len(nodes')
  BY <1>1, <1>3
<1>5. VarsOK'
  <2>1. n \in 0 .. Len(nodes')
    BY <1>1, <1>3, <1>4 DEF IInv, VarsOK
  <2> QED BY <2>1, <1>1 DEF IInv, VarsOK
<1> QED BY <1>1, <1>2, <1>5 DEF IInv

(* The walk goes on behind a block that is covered.                        *)
LEMMA WalkOn ==
  ASSUME NEW ns, IsGraph(ns), TiledIn(ns), NEW p \in 1 .. Len(ns), WalkIn(ns, p), Covered(ns, p)
  PROVE  WalkIn(ns, ns[p].next)
<1> SUFFICES ASSUME NEW m \in 1 .. Len(ns),
                    ns[p].next = 0 \/ ns[m].addr < ns[ns[p].next].addr
             PROVE  Covered(ns, m)
  BY DEF WalkIn
<1>1. ns[m].addr \in Nat /\ ns[p].addr \in Nat /\ ns[p].next \in 0 .. Len(ns) /\ Len(ns) \in Nat
  BY GraphFields
<1>2. ns[m].addr <= ns[p].addr
  <2>1. NextIn(ns, p)
    BY DEF TiledIn
  <2>2. CASE ns[p].next = 0
    BY <2>1, <2>2 DEF NextIn
  <2>3. CASE ns[p].next # 0
    <3>1. ns[ns[p].next].addr \in Nat
      BY <2>3, <1>1, GraphFields
    <3>2. ns[m].addr <= ns[p].addr \/ ns[ns[p].next].addr <= ns[m].addr
      BY <2>1, <2>3 DEF NextIn
    <3> QED BY <3>1, <3>2, <2>3, <1>1
  <2> QED BY <2>2, <2>3
<1>3. CASE m = p
  BY <1>3
<1>4. CASE m # p
  <2>1. ns[m].addr # ns[p].addr
    BY <1>4 DEF TiledIn
  <2>2. ns[m].addr < ns[p].addr
    BY <2>1, <1>1, <1>2
  <2> QED BY <2>2 DEF WalkIn
<1> QED BY <1>3, <1>4

-----------------------------------------------------------------------------
(* One lemma per kind of step.                                             *)

LEMMA LiftKeeps == IInv /\ Lift => IInv'
<1> SUFFICES ASSUME IInv, Lift PROVE IInv'
  OBVIOUS
<1>1. /\ pc = "lift" /\ call <= Len(view) /\ call' = call + 1 /\ off' = off + view[call].size
      /\ UNCHANGED <<view, pc, n, jumps, indirect, i>>
  BY DEF Lift
<1>2. /\ IsView(view) /\ off \in Nat /\ call \in Nat \ {0} /\ IsGraph(nodes)
      /\ InChain(nodes, off) /\ TiledIn(nodes) /\ Silent(nodes) /\ Len(view) \in Nat
  BY <1>1, LenProperties DEF IInv, VarsOK, GraphInv, IsView
<1>3. IsGraph(nodes') /\ InChain(nodes', off') /\ GraphInv(nodes') /\ Len(nodes) <= Len(nodes')
  BY <1>2, LiftStep
<1>4. VarsOK'
  <2>1. call \in 1 .. Len(view)
    BY <1>1, <1>2
  <2>2. view[call].size \in Nat
    <3>1. view[call] \in Tb
      BY <2>1, <1>2, ElementOfSeq DEF IsView
    <3> QED BY <3>1 DEF Tb
  <2>3. call' \in 1 .. (Len(view') + 1) /\ off' \in Nat
    BY <2>1, <2>2, <1>1, <1>2
  <2>4. n' \in 0 .. Len(nodes')
    <3>1. Len(nodes) \in Nat /\ Len(nodes') \in Nat /\ Len(nodes) <= Len(nodes')
      BY <1>2, <1>3, GraphFields
    <3> QED BY <3>1, <1>1 DEF IInv, VarsOK
  <2> QED BY <2>3, <2>4, <1>1 DEF IInv, VarsOK
<1> QED BY <1>1, <1>3, <1>4 DEF IInv

LEMMA LiftedKeeps == IInv /\ Lifted => IInv'
<1> SUFFICES ASSUME IInv, Lifted PROVE IInv'
  OBVIOUS
<1>1. /\ n' = IF nodes = << >> THEN 0 ELSE 1
      /\ jumps' = << >> /\ indirect' = 0 /\ i' = 1 /\ pc' = "scan"
      /\ UNCHANGED <<view, call, off, nodes>>
  BY DEF Lifted, Visit
<1>2. IsGraph(nodes) /\ TiledIn(nodes) /\ nodes \in Seq(Node) /\ Len(nodes) \in Nat
  BY GraphFields DEF IInv, GraphInv, IsGraph
<1>3. n' \in 0 .. Len(nodes) /\ (n' = 0 => Len(nodes) = 0)
  BY <1>1, <1>2, EmptySeq
<1>4. VarsOK'
  BY <1>1, <1>3, EmptySeq DEF IInv, VarsOK
<1>5. WalkIn(nodes, n')
  <2> SUFFICES ASSUME NEW m \in 1 .. Len(nodes), n' = 0 \/ nodes[m].addr < nodes[n'].addr
               PROVE  FALSE
    BY DEF WalkIn
  <2>1. n' = 1 /\ 1 \in 1 .. Len(nodes)
    BY <1>1, <1>2, <1>3
  <2>2. nodes[1].addr <= nodes[m].addr /\ nodes[1].addr \in Nat /\ nodes[m].addr \in Nat
    BY <2>1, <1>2, GraphFields DEF TiledIn
  <2> QED BY <2>1, <2>2
<1>6. ScanIn(nodes, n', jumps', i')
  <2>1. \A l \in Nat : l >= 1 => ~(l < 1)
    OBVIOUS
  <2> QED BY <1>1, <2>1 DEF ScanIn
<1> QED BY <1>1, <1>4, <1>5, <1>6 DEF IInv

LEMMA ToSetConcat ==
  ASSUME NEW S, NEW s \in Seq(S), NEW t \in Seq(S)
  PROVE  ToSet(s) \subseteq ToSet(s \o t) /\ ToSet(t) \subseteq ToSet(s \o t)
<1>1. /\ Len(s) \in Nat /\ Len(t) \in Nat /\ Len(s \o t) = Len(s) + Len(t)
      /\ \A k \in 1 .. Len(s) + Len(t) : (s \o t)[k] = IF k <= Len(s) THEN s[k] ELSE t[k - Len(s)]
  BY ConcatProperties, LenProperties
<1>2. \A k \in 1 .. Len(s) : k \in 1 .. Len(s \o t) /\ (s \o t)[k] = s[k]
  BY <1>1
<1>3. ASSUME NEW k \in 1 .. Len(t)
      PROVE  Len(s) + k \in 1 .. Len(s \o t) /\ (s \o t)[Len(s) + k] = t[k]
  <2>1. Len(s) + k \in 1 .. Len(s) + Len(t) /\ ~(Len(s) + k <= Len(s)) /\ Len(s) + k - Len(s) = k
    BY <1>1
  <2> QED BY <2>1, <1>1
<1>4. ASSUME NEW x \in ToSet(s) PROVE x \in ToSet(s \o t)
  <2>1. PICK k \in 1 .. Len(s) : s[k] = x
    BY ToSetIs
  <2> QED BY <2>1, <1>2, ToSetIs
<1>5. ASSUME NEW x \in ToSet(t) PROVE x \in ToSet(s \o t)
  <2>1. PICK k \in 1 .. Len(t) : t[k] = x
    BY ToSetIs
  <2>2. PICK l \in 1 .. Len(s \o t) : (s \o t)[l] = x
    BY <2>1, <1>3
  <2> QED BY <2>2, ToSetIs
<1> QED BY <1>4, <1>5

LEMMA ScanKeeps == IInv /\ Scan => IInv'
<1> SUFFICES ASSUME IInv, Scan PROVE IInv'
  OBVIOUS
<1> DEFINE insn == nodes[n].insns[i]
           last == LastIn(nodes, n)
<1>1. /\ pc = "scan" /\ n # 0 /\ i <= Len(nodes[n].insns)
      /\ jumps' = jumps \o insn.pcs /\ indirect' = indirect + insn.indirect
      /\ nodes' = [nodes EXCEPT ![n].exits = @ + insn.exits]
      /\ i' = i + 1 /\ pc' \in {"scan", "overrun"}
      /\ UNCHANGED <<view, call, off, n>>
  BY DEF Scan
<1>2. /\ n \in Ids /\ GraphInv(nodes) /\ IsGraph(nodes) /\ TiledIn(nodes) /\ Silent(nodes)
      /\ jumps \in Seq(Nat) /\ indirect \in Nat /\ i \in Nat \ {0} /\ Len(nodes) \in Nat
  BY <1>1, GraphFields DEF IInv, VarsOK, GraphInv, Ids
<1>3. /\ nodes[n] \in Node /\ nodes[n].exits \in Nat /\ Len(nodes[n].insns) \in Nat \ {0}
      /\ \A k \in 1 .. Len(nodes[n].insns) : nodes[n].insns[k] \in Insn
  BY <1>2, GraphFields, NodeFields DEF Ids
<1>4. i \in 1 .. Len(nodes[n].insns)
  BY <1>1, <1>2, <1>3
<1>5. insn.pcs \in Seq(Nat) /\ insn.indirect \in Nat /\ insn.exits \in Nat
  <2>1. insn \in Insn
    BY <1>3, <1>4
  <2> QED BY <2>1 DEF Insn
<1>6. last.exits = 0 => insn.exits = 0
  <2>1. i < Len(nodes[n].insns) => insn.exits = 0
    BY <1>2, <1>4 DEF Silent, Ids
  <2>2. ~(i < Len(nodes[n].insns)) => i = Len(nodes[n].insns)
    BY <1>1, <1>2, <1>3
  <2> QED BY <2>1, <2>2 DEF LastIn
<1> HIDE DEF insn, last
<1>7. IsCounted(nodes', n, insn.exits)
  BY <1>1, <1>2, <1>5, CountedFacts
<1>8. GraphInv(nodes') /\ Alike(nodes, nodes') /\ \A x \in Ids : Covered(nodes, x) => Covered(nodes', x)
  BY <1>2, <1>5, <1>6, <1>7, CountedInv DEF last
<1>9. VarsOK'
  <2>1. jumps' \in Seq(Nat)
    BY <1>1, <1>2, <1>5, ConcatProperties
  <2>2. indirect' \in Nat /\ i' \in Nat \ {0}
    BY <1>1, <1>2, <1>5
  <2>3. Len(nodes') = Len(nodes)
    BY <1>7 DEF IsCounted
  <2> QED BY <2>1, <2>2, <2>3, <1>1 DEF IInv, VarsOK
<1>10. WalkIn(nodes', n')
  <2>1. WalkIn(nodes, n)
    BY <1>1 DEF IInv
  <2> QED BY <2>1, <1>1, <1>2, <1>8 DEF WalkIn, Alike, Ids
<1>11. ScanIn(nodes', n', jumps', i')
  <2>1. ScanIn(nodes, n, jumps, i)
    BY <1>1 DEF IInv
  <2>2. nodes'[n].insns = nodes[n].insns /\ nodes'[n].exits = nodes[n].exits + insn.exits
    BY <1>2, <1>7 DEF IsCounted, Ids
  <2>3. ToSet(jumps) \subseteq ToSet(jumps') /\ ToSet(insn.pcs) \subseteq ToSet(jumps')
    BY <1>1, <1>2, <1>5, ToSetConcat
  <2>4. ASSUME NEW l \in 1 .. Len(nodes[n].insns), l < i + 1
        PROVE  /\ ToSet(nodes[n].insns[l].pcs) \subseteq ToSet(jumps')
               /\ nodes[n].insns[l].exits <= nodes[n].exits + insn.exits
    <3>1. l < i \/ l = i
      BY <2>4, <1>2
    <3>2. CASE l < i
      <4>1. /\ ToSet(nodes[n].insns[l].pcs) \subseteq ToSet(jumps)
            /\ nodes[n].insns[l].exits <= nodes[n].exits
        BY <2>1, <3>2, <1>1 DEF ScanIn
      <4>2. nodes[n].insns[l].exits \in Nat
        BY <1>3 DEF Insn
      <4> QED BY <4>1, <4>2, <2>3, <1>3, <1>5
    <3>3. CASE l = i
      BY <2>3, <3>3, <1>3, <1>5 DEF insn
    <3> QED BY <3>1, <3>2, <3>3
  <2> QED BY <2>2, <2>4, <1>1 DEF ScanIn
<1> QED BY <1>1, <1>8, <1>9, <1>10, <1>11 DEF IInv

LEMMA ScannedKeeps == IInv /\ Scanned => IInv'
<1> SUFFICES ASSUME IInv, Scanned PROVE IInv'
  OBVIOUS
<1> DEFINE last == LastIn(nodes, n)
<1>1. /\ pc = "scan" /\ n # 0 /\ i > Len(nodes[n].insns) /\ i' = 1
      /\ pc' = IF nodes[n].exits > 0 THEN "jumps" ELSE "link"
      /\ UNCHANGED <<view, call, off, nodes, n, jumps, indirect>>
  BY DEF Scanned
<1>2. n \in Ids /\ GraphInv(nodes) /\ WalkIn(nodes, n) /\ ScanIn(nodes, n, jumps, i) /\ i \in Nat
  BY <1>1, GraphFields DEF IInv, VarsOK, GraphInv, Ids
<1>3. VarsOK'
  BY <1>1 DEF IInv, VarsOK
<1>4. Len(nodes[n].insns) \in Nat \ {0} /\ nodes[n].exits \in Nat /\ last.exits \in Nat
  <2>1. nodes[n] \in Node
    BY <1>2, GraphFields DEF GraphInv, Ids
  <2>2. /\ Len(nodes[n].insns) \in Nat \ {0} /\ nodes[n].exits \in Nat
        /\ \A k \in 1 .. Len(nodes[n].insns) : nodes[n].insns[k] \in Insn
    BY <2>1, NodeFields
  <2>3. last \in Insn
    BY <2>2 DEF LastIn
  <2> QED BY <2>2, <2>3 DEF Insn
<1>5. ToSet(last.pcs) \subseteq ToSet(jumps) /\ last.exits <= nodes[n].exits
  <2>1. Len(nodes[n].insns) \in 1 .. Len(nodes[n].insns) /\ Len(nodes[n].insns) < i
    BY <1>1, <1>2, <1>4
  <2> QED BY <2>1, <1>1, <1>2 DEF ScanIn, LastIn
<1>6. JumpsIn(nodes, n, jumps, 1)
  <2>1. \A l \in 1 .. Len(jumps) : ~(l < 1)
    OBVIOUS
  <2> QED BY <2>1, <1>1, <1>5 DEF JumpsIn
<1>7. pc' = "link" => LinkIn(nodes, n)
  BY <1>1, <1>4, <1>5 DEF LinkIn
<1> QED BY <1>1, <1>2, <1>3, <1>6, <1>7 DEF IInv

LEMMA JumpOutKeeps == IInv /\ JumpOut => IInv'
<1> SUFFICES ASSUME IInv, JumpOut PROVE IInv'
  OBVIOUS
<1>1. /\ pc = "jumps" /\ i <= Len(jumps) /\ i' = i + 1
      /\ \A m \in Ids : InBlock(m, jumps[i]) =>
           \A j \in 1 .. Len(nodes[m].insns) : ~IsInsn(m, j, jumps[i])
      /\ UNCHANGED <<view, pc, call, off, nodes, n, jumps, indirect>>
  BY DEF JumpOut
<1>2. TiledIn(nodes) /\ i \in Nat \ {0} /\ JumpsIn(nodes, n, jumps, i)
  BY <1>1 DEF IInv, VarsOK, GraphInv
<1>3. Reached(nodes, n, jumps[i])
  <2> SUFFICES ASSUME NEW d \in Ids, NEW k \in 1 .. Len(nodes[d].insns),
                      nodes[d].insns[k].at = jumps[i]
               PROVE  FALSE
    BY DEF Reached, Ids
  <2>1. InBlock(d, jumps[i])
    BY <1>2 DEF TiledIn, InsnsIn, Within, InBlock, Ids
  <2> QED BY <2>1, <1>1 DEF IsInsn
<1>4. JumpsIn(nodes, n, jumps, i + 1)
  <2>1. \A l \in 1 .. Len(jumps) : l < i + 1 => l < i \/ l = i
    BY <1>2
  <2> QED BY <2>1, <1>2, <1>3 DEF JumpsIn
<1>5. VarsOK'
  BY <1>1, <1>2 DEF IInv, VarsOK
<1> QED BY <1>1, <1>4, <1>5 DEF IInv

(* A new edge from the block that the walk is at.                          *)
LEMMA AddedWalk ==
  ASSUME NEW ns, IsGraph(ns), NEW p \in 1 .. Len(ns), NEW dst \in 1 .. Len(ns), NEW type \in Types,
         NEW r, IsAdded(ns, r, p, dst, type)
  PROVE  /\ WalkIn(ns, p) => WalkIn(r, p)
         /\ LastIn(r, p) = LastIn(ns, p)
         /\ \A js, k : JumpsIn(ns, p, js, k) => JumpsIn(r, p, js, k)
<1>1. /\ Len(r) = Len(ns)
      /\ \A m \in 1 .. Len(ns) : r[m].addr = ns[m].addr /\ r[m].insns = ns[m].insns
  BY DEF IsAdded, SameCode
<1>2. \A m \in 1 .. Len(ns) : Covered(ns, m) => Covered(r, m)
  BY ReachedAdded
<1>3. \A t : Reached(ns, p, t) => Reached(r, p, t)
  BY ReachedAdded
<1>4. LastIn(r, p) = LastIn(ns, p)
  BY <1>1 DEF LastIn
<1>5. WalkIn(ns, p) => WalkIn(r, p)
  BY <1>1, <1>2 DEF WalkIn
<1>6. \A js, k : JumpsIn(ns, p, js, k) => JumpsIn(r, p, js, k)
  BY <1>3, <1>4 DEF JumpsIn
<1> QED BY <1>4, <1>5, <1>6

LEMMA JumpToBlockKeeps == IInv /\ JumpToBlock => IInv'
<1> SUFFICES ASSUME IInv, JumpToBlock PROVE IInv'
  OBVIOUS
<1>1. PICK m \in Ids : /\ jumps[i] = nodes[m].addr
                       /\ Store(AddEdge(nodes, n, m, "DIRECT"), "jumps")
  BY DEF JumpToBlock
<1>2. /\ pc = "jumps" /\ i <= Len(jumps) /\ i' = i + 1
      /\ UNCHANGED <<view, call, off, n, jumps, indirect>>
  BY DEF JumpToBlock
<1>3. /\ n \in Ids /\ GraphInv(nodes) /\ IsGraph(nodes) /\ WalkIn(nodes, n)
      /\ JumpsIn(nodes, n, jumps, i) /\ i \in Nat \ {0} /\ Len(nodes) \in Nat
  BY <1>2, GraphFields DEF IInv, VarsOK, GraphInv, JumpsIn, Ids
<1> DEFINE r == AddEdge(nodes, n, m, "DIRECT")
<1>4. IsAdded(nodes, r, n, m, "DIRECT") /\ GraphInv(r) /\ "DIRECT" \in Types
  BY <1>3, AddedInv DEF Ids, Types
<1> HIDE DEF r
<1>5. WalkIn(r, n) /\ JumpsIn(r, n, jumps, i)
  BY <1>3, <1>4, AddedWalk DEF Ids
<1>6. Len(r) = Len(nodes) /\ r[m].addr = jumps[i] /\ HasEdge(r, n, m)
  <2>1. m \in 1 .. Len(nodes) /\ n \in 1 .. Len(nodes) /\ jumps[i] = nodes[m].addr
    BY <1>1, <1>3 DEF Ids
  <2>2. SameCode(nodes, r)
    BY <1>4 DEF IsAdded
  <2>3. Len(r) = Len(nodes) /\ r[m].addr = nodes[m].addr
    BY <2>1, <2>2 DEF SameCode
  <2> QED BY <2>1, <2>3, <1>1, <1>3, <1>4, Added
<1>7. Reached(r, n, jumps[i])
  BY <1>3, <1>4, <1>6, ReachedStart DEF GraphInv, Ids
<1>8. JumpsIn(r, n, jumps, i + 1)
  <2>1. \A l \in 1 .. Len(jumps) : l < i + 1 => l < i \/ l = i
    BY <1>3
  <2> QED BY <2>1, <1>5, <1>7 DEF JumpsIn
<1>9. Store(r, "jumps") /\ Len(nodes) <= Len(r)
  BY <1>1, <1>3, <1>6 DEF r
<1> QED BY <1>2, <1>4, <1>5, <1>8, <1>9, Stored

(* An instruction that does not start its block is a place to cut it.     *)
LEMMA PlaceCuttable ==
  ASSUME IsGraph(nodes), TiledIn(nodes), NEW m \in Ids, NEW j \in 1 .. Len(nodes[m].insns),
         InBlock(m, nodes[m].insns[j].at), nodes[m].insns[j].at # nodes[m].addr
  PROVE  Cuttable(m, j)
<1>1. nodes[m].insns[1].at = nodes[m].addr
  BY DEF TiledIn, InsnsIn, Ids
<1>2. j # 1
  BY <1>1
<1>3. nodes[m].insns[j].at \in Nat /\ nodes[m].addr \in Nat /\ Len(nodes[m].insns) \in Nat
  BY GraphFields DEF Ids
<1> DEFINE a == nodes[m].insns[j].at
<1>4. nodes[m].addr <= a /\ a < nodes[m].addr + nodes[m].size /\ a # nodes[m].addr
  BY DEF InBlock
<1>5. nodes[m].addr < a
  <2> HIDE DEF a
  <2>1. a \in Nat
    BY <1>3 DEF a
  <2> QED BY <2>1, <1>3, <1>4
<1> QED BY <1>2, <1>3, <1>4, <1>5 DEF Cuttable

LEMMA JumpIntoKeeps == IInv /\ JumpInto => IInv'
<1> SUFFICES ASSUME IInv, JumpInto PROVE IInv'
  OBVIOUS
<1> DEFINE tail == Len(nodes) + 1
<1>1. PICK m \in Ids : \E j \in 1 .. Len(nodes[m].insns) :
        /\ InBlock(m, jumps[i]) /\ jumps[i] # nodes[m].addr /\ IsInsn(m, j, jumps[i])
        /\ Store(IF m = n THEN Split(m, j)
                          ELSE AddEdge(Split(m, j), n, tail, "DIRECT"), "jumps")
  BY DEF JumpInto
<1>2. PICK j \in 1 .. Len(nodes[m].insns) :
        /\ InBlock(m, jumps[i]) /\ jumps[i] # nodes[m].addr /\ IsInsn(m, j, jumps[i])
        /\ Store(IF m = n THEN Split(m, j)
                          ELSE AddEdge(Split(m, j), n, tail, "DIRECT"), "jumps")
  BY <1>1
<1>3. /\ pc = "jumps" /\ i <= Len(jumps) /\ i' = i + 1
      /\ UNCHANGED <<view, call, off, n, jumps, indirect>>
  BY DEF JumpInto
<1>4. /\ n \in Ids /\ GraphInv(nodes) /\ IsGraph(nodes) /\ TiledIn(nodes) /\ Silent(nodes)
      /\ WalkIn(nodes, n) /\ JumpsIn(nodes, n, jumps, i) /\ i \in Nat \ {0} /\ Len(nodes) \in Nat
  BY <1>3, GraphFields DEF IInv, VarsOK, GraphInv, JumpsIn, Ids
<1>5. Cuttable(m, j)
  BY <1>2, <1>4, PlaceCuttable DEF IsInsn
<1> DEFINE c == Split(m, j)
<1>6. IsSplit(c, m, j) /\ GraphInv(c)
  BY <1>4, <1>5, SplitInv
<1> HIDE DEF c
<1>7. /\ Len(c) = tail /\ c[tail].addr = jumps[i] /\ c[n].addr = nodes[n].addr
      /\ \A d \in Ids : c[d].addr = nodes[d].addr
      /\ jumps[i] = nodes[m].insns[j].at
  BY <1>2, <1>4, <1>6 DEF IsSplit, IsInsn
<1>8. WalkIn(c, n)
  <2> SUFFICES ASSUME NEW x \in 1 .. tail, c[x].addr < c[n].addr
               PROVE  Covered(c, x)
    BY <1>3, <1>4, <1>7 DEF WalkIn, JumpsIn
  <2>1. x = tail \/ x = m \/ x \in Ids \ {m}
    BY <1>4 DEF Ids
  <2>2. CASE x = m
    BY <2>2, <1>4, <1>5, <1>6, CoveredSplit
  <2>3. CASE x \in Ids \ {m}
    <3>1. Covered(nodes, x)
      BY <2>3, <1>4, <1>7 DEF WalkIn, Ids
    <3> QED BY <3>1, <2>3, <1>4, <1>5, <1>6, CoveredSplit
  <2>4. CASE x = tail
    <3>1. nodes[m].addr < nodes[m].insns[j].at
      BY <1>5 DEF Cuttable
    <3>2. nodes[m].addr \in Nat /\ nodes[m].insns[j].at \in Nat /\ nodes[n].addr \in Nat
      BY <1>4, GraphFields DEF Ids
    <3>3. nodes[m].insns[j].at < nodes[n].addr
      BY <2>4, <1>7
    <3>4. nodes[m].addr < nodes[n].addr
      BY <3>1, <3>2, <3>3
    <3>5. Covered(nodes, m)
      BY <3>4, <1>4 DEF WalkIn, Ids
    <3> QED BY <3>5, <2>4, <1>4, <1>5, <1>6, CoveredSplit
  <2> QED BY <2>1, <2>2, <2>3, <2>4
<1>9. Len(nodes) <= tail /\ tail \in Nat /\ n \in 1 .. tail /\ tail \in 1 .. tail /\ n # 0
  BY <1>4 DEF Ids
<1>10. CASE m = n
  <2>1. LastIn(c, n).exits = 0
    BY <1>4, <1>5, <1>6, <1>10, TargetsSplit
  <2>2. JumpsIn(c, n, jumps, i + 1)
    BY <2>1, <1>9 DEF JumpsIn
  <2>3. Store(c, "jumps")
    BY <1>2, <1>10 DEF c
  <2> HIDE DEF tail
  <2> QED BY <2>2, <2>3, <1>3, <1>6, <1>7, <1>8, <1>9, Stored
<1>11. CASE m # n
  <2> DEFINE r == AddEdge(c, n, tail, "DIRECT")
  <2>1. IsGraph(c) /\ "DIRECT" \in Types
    BY <1>6 DEF GraphInv, Types
  <2>2. IsAdded(c, r, n, tail, "DIRECT") /\ GraphInv(r)
    <3> HIDE DEF tail
    <3> QED BY <2>1, <1>6, <1>7, <1>9, AddedInv
  <2> HIDE DEF r
  <2>3. LastIn(c, n) = LastIn(nodes, n)
    BY <1>4, <1>5, <1>6, <1>11, TargetsSplit
  <2>4. \A t : Reached(nodes, n, t) => Reached(c, n, t)
    BY <1>4, <1>5, <1>6, <1>11, ReachedSplit
  <2>5. JumpsIn(c, n, jumps, i)
    BY <2>3, <2>4, <1>4 DEF JumpsIn
  <2> HIDE DEF tail
  <2>6. WalkIn(r, n) /\ JumpsIn(r, n, jumps, i)
    BY <2>1, <2>2, <2>5, <1>7, <1>8, <1>9, AddedWalk
  <2>7. Len(r) = tail /\ r[tail].addr = jumps[i] /\ HasEdge(r, n, tail)
    <3>1. Len(r) = tail /\ r[tail].addr = c[tail].addr
      BY <2>2, <1>7, <1>9 DEF IsAdded, SameCode
    <3>2. HasEdge(r, n, tail)
      BY <2>1, <2>2, <1>7, <1>9, Added
    <3> QED BY <3>1, <3>2, <1>7
  <2>8. Reached(r, n, jumps[i])
    BY <2>2, <2>7, <1>9, ReachedStart DEF GraphInv
  <2>9. JumpsIn(r, n, jumps, i + 1)
    <3>1. \A l \in 1 .. Len(jumps) : l < i + 1 => l < i \/ l = i
      BY <1>4
    <3> QED BY <3>1, <2>6, <2>8 DEF JumpsIn
  <2>10. Store(r, "jumps")
    BY <1>2, <1>11 DEF r, c
  <2> QED BY <2>2, <2>6, <2>7, <2>9, <2>10, <1>3, <1>9, Stored
<1> QED BY <1>10, <1>11

LEMMA JumpsDoneKeeps == IInv /\ JumpsDone => IInv'
<1> SUFFICES ASSUME IInv, JumpsDone PROVE IInv'
  OBVIOUS
<1>1. /\ pc = "jumps" /\ i > Len(jumps) /\ pc' = "link"
      /\ UNCHANGED <<view, call, off, nodes, n, jumps, indirect, i>>
  BY DEF JumpsDone
<1>2. JumpsIn(nodes, n, jumps, i) /\ jumps \in Seq(Nat) /\ i \in Nat
  BY <1>1 DEF IInv, VarsOK
<1>3. LinkIn(nodes, n)
  <2> SUFFICES ASSUME LastIn(nodes, n).exits > 0 PROVE Covered(nodes, n)
    BY <1>2 DEF LinkIn, JumpsIn
  <2>1. \A l \in 1 .. Len(jumps) : Reached(nodes, n, jumps[l])
    <3>1. \A l \in 1 .. Len(jumps) : l < i
      BY <1>1, <1>2, LenProperties
    <3> QED BY <3>1, <1>2 DEF JumpsIn
  <2>2. \A t \in ToSet(LastIn(nodes, n).pcs) : \E l \in 1 .. Len(jumps) : jumps[l] = t
    BY <1>2, ToSetIs DEF JumpsIn
  <2> QED BY <2>1, <2>2 DEF Covered, TargetsIn
<1>4. VarsOK'
  BY <1>1 DEF IInv, VarsOK
<1> QED BY <1>1, <1>3, <1>4 DEF IInv

LEMMA LinkKeeps == IInv /\ Link => IInv'
<1> SUFFICES ASSUME IInv, Link PROVE IInv'
  OBVIOUS
<1>1. /\ pc = "link" /\ n' = nodes[n].next /\ jumps' = << >> /\ indirect' = 0 /\ i' = 1
      /\ UNCHANGED <<view, call, off>>
      /\ IF FallsThrough THEN Store(AddEdge(nodes, n, nodes[n].next, "FALLTHROUGH"), "scan")
                         ELSE pc' = "scan" /\ UNCHANGED nodes
  BY DEF Link, Visit
<1>2. /\ n \in Ids /\ GraphInv(nodes) /\ IsGraph(nodes) /\ TiledIn(nodes) /\ WalkIn(nodes, n)
      /\ LinkIn(nodes, n) /\ Len(nodes) \in Nat
  BY <1>1, GraphFields DEF IInv, VarsOK, GraphInv, LinkIn, Ids
<1>3. /\ nodes[n].next \in 0 .. Len(nodes) /\ nodes[n].exits \in Nat
      /\ nodes[n].next # 0 => nodes[n].next \in 1 .. Len(nodes)
  BY <1>2, GraphFields DEF Ids
<1>4. LastIn(nodes, n).exits \in Nat
  <2>1. nodes[n] \in Node
    BY <1>2, GraphFields DEF Ids
  <2>2. /\ Len(nodes[n].insns) \in Nat \ {0}
        /\ \A k \in 1 .. Len(nodes[n].insns) : nodes[n].insns[k] \in Insn
    BY <2>1, NodeFields
  <2>3. LastIn(nodes, n) \in Insn
    BY <2>2 DEF LastIn
  <2> QED BY <2>3 DEF Insn
<1>5. ASSUME NEW r, GraphInv(r), Len(r) = Len(nodes), r[n].next = nodes[n].next,
             WalkIn(r, n), Covered(r, n), nodes' = r, pc' = "scan"
      PROVE  IInv'
  <2>1. WalkIn(r, n')
    BY <1>1, <1>2, <1>5, WalkOn DEF GraphInv, Ids
  <2>2. ScanIn(r, n', << >>, 1)
    <3>1. \A l \in Nat : l >= 1 => ~(l < 1)
      OBVIOUS
    <3> QED BY <3>1 DEF ScanIn
  <2>3. VarsOK'
    BY <1>1, <1>3, <1>5, EmptySeq DEF IInv, VarsOK
  <2> QED BY <2>1, <2>2, <2>3, <1>1, <1>5 DEF IInv
<1>6. CASE FallsThrough
  <2> DEFINE r == AddEdge(nodes, n, nodes[n].next, "FALLTHROUGH")
  <2>1. nodes[n].next \in 1 .. Len(nodes) /\ "FALLTHROUGH" \in Types
    BY <1>3, <1>6 DEF FallsThrough, Types
  <2>2. IsAdded(nodes, r, n, nodes[n].next, "FALLTHROUGH") /\ GraphInv(r)
    BY <2>1, <1>2, AddedInv DEF Ids
  <2>3. Store(r, "scan")
    BY <1>1, <1>6
  <2> HIDE DEF r
  <2>4. WalkIn(r, n) /\ LastIn(r, n) = LastIn(nodes, n)
    BY <2>1, <2>2, <1>2, AddedWalk DEF Ids
  <2>5. Len(r) = Len(nodes) /\ r[n].next = nodes[n].next /\ HasEdge(r, n, nodes[n].next)
    <3>1. Len(r) = Len(nodes) /\ r[n].next = nodes[n].next
      BY <2>2, <1>2 DEF IsAdded, SameCode, Ids
    <3>2. HasEdge(r, n, nodes[n].next)
      BY <2>1, <2>2, <1>2, Added DEF Ids
    <3> QED BY <3>1, <3>2
  <2>6. Covered(r, n)
    <3>1. CASE LastIn(nodes, n).exits > 0
      <4>1. Covered(nodes, n)
        BY <3>1, <1>2 DEF LinkIn
      <4> QED BY <4>1, <2>1, <2>2, <1>2, ReachedAdded DEF Ids
    <3>2. CASE ~(LastIn(nodes, n).exits > 0)
      BY <3>2, <2>2, <2>4, <2>5, <1>2, CoveredNext DEF GraphInv, Ids
    <3> QED BY <3>1, <3>2
  <2>7. CASE nodes' = r /\ pc' = "scan"
    BY <2>2, <2>4, <2>5, <2>6, <2>7, <1>5
  <2>8. CASE nodes' = nodes /\ pc' = "aborted"
    <3>1. VarsOK'
      BY <2>8, <1>1, <1>3, EmptySeq DEF IInv, VarsOK
    <3> QED BY <2>8, <3>1 DEF IInv
  <2> QED BY <2>3, <2>7, <2>8 DEF Store
<1>7. CASE ~FallsThrough
  <2>1. Covered(nodes, n)
    <3>1. CASE LastIn(nodes, n).exits > 0
      BY <3>1, <1>2 DEF LinkIn
    <3>2. CASE ~(LastIn(nodes, n).exits > 0)
      <4>1. LastIn(nodes, n).exits = 0
        BY <3>2, <1>4
      <4>2. nodes[n].next # 0 => nodes[n].exits > 0
        BY <1>3, <1>7 DEF FallsThrough
      <4>3. nodes[n].next # 0 => HasEdge(nodes, n, nodes[n].next)
        BY <4>1, <4>2, <1>2 DEF GraphInv, ExitsEdge, LastIn, Ids
      <4> QED BY <4>3, <3>2, <1>2, CoveredNext DEF Ids
    <3> QED BY <3>1, <3>2
  <2>2. nodes' = nodes /\ pc' = "scan"
    BY <1>1, <1>7
  <2> QED BY <2>1, <2>2, <1>2, <1>5
<1> QED BY <1>6, <1>7

LEMMA FinishKeeps == IInv /\ Finish => IInv'
BY DEF IInv, VarsOK, Finish

LEMMA NextInv == IInv /\ [Next]_vars => IInv'
<1> SUFFICES ASSUME IInv, [Next]_vars PROVE IInv'
  OBVIOUS
<1>1. CASE UNCHANGED vars
  BY <1>1 DEF IInv, VarsOK, vars
<1> QED BY <1>1, LiftKeeps, LiftedKeeps, ScanKeeps, ScannedKeeps, JumpOutKeeps,
        JumpToBlockKeeps, JumpIntoKeeps, JumpsDoneKeeps, LinkKeeps, FinishKeeps DEF Next

LEMMA SpecInv == Spec => []IInv
BY InitInv, NextInv, PTL DEF Spec

-----------------------------------------------------------------------------
(* The walk of the DOT output.  That Walk is the function its definition   *)
(* describes is shown for each length.                                     *)
ComesTo(g, k) ==
  IF k = 1 THEN (IF nodes = << >> THEN 0 ELSE 1)
  ELSE IF g[k - 1] = 0 THEN 0 ELSE nodes[g[k - 1]].next

LEMMA WalkIs == Walk = CHOOSE g : g = [k \in 1 .. (Len(nodes) + 1) |-> ComesTo(g, k)]
BY Zenon DEF Walk, ComesTo

LEMMA WalkExists ==
  ASSUME Len(nodes) \in Nat
  PROVE  \E g : g = [k \in 1 .. (Len(nodes) + 1) |-> ComesTo(g, k)]
<1> DEFINE Table(m, g) == g = [k \in 1 .. (m + 1) |-> ComesTo(g, k)]
           T == {m \in Nat : ~\E g : Table(m, g)}
<1>1. T = {}
  <2> SUFFICES ASSUME T # {} PROVE FALSE
    OBVIOUS
  <2>1. PICK m \in T : \A d \in T : m <= d
    BY NatMin
  <2>2. m # 0
    <3> DEFINE g == [k \in 1 .. (0 + 1) |-> IF nodes = << >> THEN 0 ELSE 1]
    <3>1. \A k \in 1 .. (0 + 1) : k = 1
      OBVIOUS
    <3>2. \A k \in 1 .. (0 + 1) : ComesTo(g, k) = IF nodes = << >> THEN 0 ELSE 1
      BY <3>1 DEF ComesTo
    <3>3. Table(0, g)
      BY <3>2
    <3> QED BY <3>3
  <2>3. PICK g : Table(m - 1, g)
    <3>1. m \in Nat /\ m - 1 \in Nat /\ m - 1 < m
      BY <2>2
    <3> HIDE DEF Table
    <3>2. m - 1 \notin T
      <4> HIDE DEF T
      <4> QED BY <3>1, <2>1
    <3> QED BY <3>1, <3>2
  <2> DEFINE h == [k \in 1 .. (m + 1) |-> IF k = m + 1 THEN ComesTo(g, m + 1) ELSE g[k]]
  <2>4. ASSUME NEW k \in 1 .. (m + 1) PROVE h[k] = ComesTo(h, k)
    <3>1. k # 1 => h[k - 1] = g[k - 1]
      OBVIOUS
    <3>2. ComesTo(h, k) = ComesTo(g, k)
      <4> HIDE DEF h
      <4> QED BY <3>1 DEF ComesTo
    <3>3. k # m + 1 => g[k] = ComesTo(g, k)
      <4>1. k # m + 1 => k \in 1 .. (m - 1 + 1)
        OBVIOUS
      <4> QED BY <4>1, <2>3
    <3> QED BY <3>2, <3>3
  <2>5. h = [k \in 1 .. (m + 1) |-> h[k]]
    OBVIOUS
  <2> HIDE DEF h
  <2>6. Table(m, h)
    BY <2>4, <2>5
  <2> QED BY <2>6
<1>2. Len(nodes) \notin T
  BY <1>1
<1> QED BY <1>2

LEMMA WalkTells ==
  ASSUME IsGraph(nodes)
  PROVE  /\ DOMAIN Walk = 1 .. (Len(nodes) + 1)
         /\ Walk[1] = IF nodes = << >> THEN 0 ELSE 1
         /\ \A k \in 1 .. Len(nodes) :
              Walk[k + 1] = IF Walk[k] = 0 THEN 0 ELSE nodes[Walk[k]].next
         /\ \A k \in 1 .. (Len(nodes) + 1) : Walk[k] \in 0 .. Len(nodes)
<1> DEFINE N == Len(nodes)
<1>1. N \in Nat
  BY GraphFields
<1>2. Walk = [k \in 1 .. (N + 1) |-> ComesTo(Walk, k)]
  BY <1>1, WalkExists, WalkIs
<1>3. DOMAIN Walk = 1 .. (N + 1) /\ \A k \in 1 .. (N + 1) : Walk[k] = ComesTo(Walk, k)
  BY <1>2
<1>4. Walk[1] = IF nodes = << >> THEN 0 ELSE 1
  BY <1>1, <1>3 DEF ComesTo
<1>5. ASSUME NEW k \in 1 .. N
      PROVE  Walk[k + 1] = IF Walk[k] = 0 THEN 0 ELSE nodes[Walk[k]].next
  <2>1. k + 1 \in 1 .. (N + 1) /\ k + 1 # 1 /\ k + 1 - 1 = k
    BY <1>1
  <2> QED BY <2>1, <1>3 DEF ComesTo
<1> DEFINE T == {k \in Nat : k \in 1 .. (N + 1) /\ Walk[k] \notin 0 .. N}
<1>6. T = {}
  <2> SUFFICES ASSUME T # {} PROVE FALSE
    OBVIOUS
  <2>1. PICK k \in T : \A d \in T : k <= d
    BY NatMin
  <2>2. k # 1
    BY <1>4, <1>1, <2>1, EmptySeq, LenProperties DEF IsGraph
  <2>3. k - 1 \in 1 .. N /\ Walk[k - 1] \in 0 .. N /\ k - 1 + 1 = k
    BY <2>1, <2>2, <1>1
  <2>4. Walk[k] = IF Walk[k - 1] = 0 THEN 0 ELSE nodes[Walk[k - 1]].next
    BY <2>3, <1>5
  <2>5. Walk[k - 1] # 0 => Walk[k - 1] \in 1 .. N
    BY <2>3, <1>1
  <2>6. Walk[k] \in 0 .. N
    BY <2>4, <2>5, <1>1, GraphFields
  <2> QED BY <2>1, <2>6
<1>7. \A k \in 1 .. (N + 1) : Walk[k] \in 0 .. N
  BY <1>1, <1>6
<1> QED BY <1>3, <1>4, <1>5, <1>7

(* Addresses rise along the walk, so that it comes to no block twice.      *)
LEMMA WalkRises ==
  ASSUME IsGraph(nodes), TiledIn(nodes),
         NEW j \in 1 .. (Len(nodes) + 1), NEW k \in 1 .. (Len(nodes) + 1),
         j < k, Walk[k] # 0
  PROVE  Walk[j] # 0 /\ nodes[Walk[j]].addr < nodes[Walk[k]].addr
<1> DEFINE N == Len(nodes)
           Rises(l) == Walk[l] # 0 => Walk[j] # 0 /\ nodes[Walk[j]].addr < nodes[Walk[l]].addr
           T == {l \in Nat : l \in 1 .. (N + 1) /\ j < l /\ ~Rises(l)}
<1>1. N \in Nat
  BY GraphFields
<1>2. T = {}
  <2> SUFFICES ASSUME T # {} PROVE FALSE
    OBVIOUS
  <2>1. PICK l \in T : \A d \in T : l <= d
    BY NatMin
  <2>2. l \in Nat /\ l \in 1 .. (N + 1) /\ j < l /\ Walk[l] # 0
    BY <2>1
  <2>3. l - 1 \in 1 .. N /\ j <= l - 1 /\ l - 1 + 1 = l
    BY <2>2, <1>1
  <2> DEFINE v == Walk[l - 1]
  <2>4. v \in 1 .. N /\ Walk[l] = nodes[v].next
    <3>1. Walk[l] = IF v = 0 THEN 0 ELSE nodes[v].next
      BY <2>3, WalkTells
    <3>2. v \in 0 .. N
      <4>1. l - 1 \in 1 .. (N + 1)
        BY <2>3, <1>1
      <4> QED BY <4>1, WalkTells
    <3> QED BY <3>1, <3>2, <2>2, <1>1
  <2>5. nodes[v].addr < nodes[Walk[l]].addr
    <3>1. NextIn(nodes, v)
      BY <2>4 DEF TiledIn
    <3>2. Walk[l] \in 1 .. N
      BY <2>2, <1>1, WalkTells
    <3>3. /\ nodes[v].addr \in Nat /\ nodes[v].size \in Nat \ {0}
          /\ nodes[Walk[l]].addr \in Nat
      BY <2>4, <3>2, GraphFields
    <3>4. nodes[v].addr + nodes[v].size <= nodes[Walk[l]].addr
      BY <3>1, <2>2, <2>4 DEF NextIn
    <3> HIDE DEF v
    <3> QED BY <3>3, <3>4
  <2>6. Walk[j] # 0 /\ nodes[Walk[j]].addr <= nodes[v].addr
    <3>1. CASE j = l - 1
      <4>1. nodes[v].addr \in Nat
        BY <2>4, GraphFields
      <4> QED BY <3>1, <2>4, <4>1
    <3>2. CASE j # l - 1
      <4>1. l - 1 \notin T
        <5> HIDE DEF T
        <5> QED BY <2>1, <2>2
      <4>2. Rises(l - 1)
        BY <4>1, <3>2, <2>3, <1>1
      <4>3. Walk[j] # 0 /\ Walk[j] \in 1 .. N
        <5>1. Walk[j] # 0 /\ Walk[j] \in 0 .. N
          BY <4>2, <2>4, WalkTells
        <5> QED BY <5>1, <1>1
      <4>4. nodes[Walk[j]].addr \in Nat /\ nodes[v].addr \in Nat
        BY <4>3, <2>4, GraphFields
      <4> QED BY <4>2, <4>3, <4>4, <2>4, SMTT(30)
    <3> QED BY <3>1, <3>2
  <2>7. Walk[j] \in 1 .. N /\ Walk[l] \in 1 .. N
    <3>1. Walk[j] \in 0 .. N /\ Walk[l] \in 0 .. N
      BY <2>2, WalkTells
    <3> QED BY <3>1, <2>6, <2>2, <1>1
  <2>8. nodes[Walk[j]].addr \in Nat /\ nodes[v].addr \in Nat /\ nodes[Walk[l]].addr \in Nat
    BY <2>7, <2>4, GraphFields
  <2>9. Rises(l)
    BY <2>5, <2>6, <2>8
  <2> QED BY <2>1, <2>9
<1>3. k \in Nat /\ Rises(k)
  BY <1>1, <1>2
<1> QED BY <1>3

(* There are more steps than blocks, so that it has ended.                 *)
LEMMA WalkEnds ==
  ASSUME IsGraph(nodes), TiledIn(nodes)
  PROVE  Walk[Len(nodes) + 1] = 0
<1> DEFINE N == Len(nodes)
<1> SUFFICES ASSUME Walk[N + 1] # 0 PROVE FALSE
  OBVIOUS
<1>1. N \in Nat /\ N + 1 \in 1 .. (N + 1)
  BY GraphFields
<1>2. ASSUME NEW j \in 1 .. (N + 1) PROVE Walk[j] \in 1 .. N
  <2>1. Walk[j] # 0
    <3>1. CASE j = N + 1
      BY <3>1
    <3>2. CASE j # N + 1
      <4>1. j < N + 1
        BY <3>2, <1>1
      <4> QED BY <4>1, <1>1, WalkRises
    <3> QED BY <3>1, <3>2
  <2> QED BY <2>1, <1>1, WalkTells
<1> DEFINE f == [j \in 1 .. (N + 1) |-> Walk[j]]
<1>3. f \in [1 .. (N + 1) -> 1 .. N]
  BY <1>2
<1>4. /\ IsFiniteSet(1 .. (N + 1)) /\ IsFiniteSet(1 .. N)
      /\ Cardinality(1 .. N) < Cardinality(1 .. (N + 1))
  <2> HIDE DEF N
  <2>1. /\ IsFiniteSet(1 .. (N + 1)) /\ IsFiniteSet(1 .. N)
        /\ Cardinality(1 .. N) = (IF 1 > N THEN 0 ELSE N - 1 + 1)
        /\ Cardinality(1 .. (N + 1)) = (IF 1 > N + 1 THEN 0 ELSE N + 1 - 1 + 1)
    BY <1>1, FS_Interval
  <2> QED BY <2>1, <1>1
<1>5. \E x, y \in 1 .. (N + 1) : x # y /\ f[x] = f[y]
  <2> HIDE DEF f
  <2> QED BY <1>3, <1>4, FS_PigeonHole
<1>6. PICK x \in 1 .. (N + 1), y \in 1 .. (N + 1) : x # y /\ Walk[x] = Walk[y]
  BY <1>5
<1>7. Walk[x] \in 1 .. N /\ Walk[y] \in 1 .. N /\ nodes[Walk[x]].addr \in Nat
  BY <1>2, GraphFields
<1>8. x < y \/ y < x
  BY <1>6, <1>1
<1>9. CASE x < y
  <2>1. nodes[Walk[x]].addr < nodes[Walk[y]].addr
    BY <1>9, <1>7, <1>1, WalkRises
  <2> QED BY <2>1, <1>6, <1>7
<1>10. CASE y < x
  <2>1. nodes[Walk[y]].addr < nodes[Walk[x]].addr
    BY <1>10, <1>7, <1>1, WalkRises
  <2> QED BY <2>1, <1>6, <1>7
<1> QED BY <1>8, <1>9, <1>10

(* It comes to every block: it cannot step over one, because no address is *)
(* between those of a block and the next.                                  *)
LEMMA WalkMeetsAll ==
  ASSUME IsGraph(nodes), TiledIn(nodes), NEW m \in 1 .. Len(nodes)
  PROVE  \E k \in 1 .. Len(nodes) : Walk[k] = m
<1> DEFINE N == Len(nodes)
           Before(k) == Walk[k] # 0 /\ nodes[Walk[k]].addr <= nodes[m].addr
           T == {k \in Nat : k \in 1 .. (N + 1) /\ ~Before(k)}
<1>1. N \in Nat /\ N # 0 /\ nodes # << >>
  <2>1. N \in Nat
    BY GraphFields
  <2> QED BY <2>1, LenProperties, EmptySeq DEF IsGraph
<1>2. N + 1 \in T
  BY <1>1, WalkEnds
<1>3. PICK k \in T : \A d \in T : k <= d
  <2> HIDE DEF T
  <2>1. T \subseteq Nat
    BY DEF T
  <2> QED BY <1>2, <2>1, NatMin
<1>4. k # 1
  <2>1. Walk[1] = 1
    BY <1>1, WalkTells
  <2>2. nodes[1].addr <= nodes[m].addr
    BY DEF TiledIn
  <2>3. Before(1)
    BY <2>1, <2>2
  <2> QED BY <2>3, <1>3
<1>5. k - 1 \in 1 .. N /\ k - 1 + 1 = k /\ k \in 1 .. (N + 1) /\ ~Before(k)
  BY <1>1, <1>3, <1>4
<1>6. Before(k - 1)
  <2>1. k - 1 \notin T
    <3> HIDE DEF T
    <3>1. k \in Nat
      BY <1>5
    <3> QED BY <1>3, <3>1
  <2> QED BY <2>1, <1>5, <1>1
<1> DEFINE v == Walk[k - 1]
<1>7. v \in 1 .. N /\ Walk[k] = nodes[v].next /\ Walk[k] \in 0 .. N
  <2>1. Walk[k] = IF v = 0 THEN 0 ELSE nodes[v].next
    BY <1>5, WalkTells
  <2>2. v \in 0 .. N /\ Walk[k] \in 0 .. N
    <3>1. k - 1 \in 1 .. (N + 1)
      BY <1>5, <1>1
    <3> QED BY <3>1, <1>5, WalkTells
  <2> QED BY <2>1, <2>2, <1>6, <1>1
<1>8. nodes[v].addr \in Nat /\ nodes[m].addr \in Nat /\ nodes[v].addr <= nodes[m].addr
  BY <1>6, <1>7, GraphFields
<1>9. NextIn(nodes, v)
  BY <1>7 DEF TiledIn
<1>10. nodes[m].addr <= nodes[v].addr
  <2>1. CASE Walk[k] = 0
    BY <2>1, <1>7, <1>9 DEF NextIn
  <2>2. CASE Walk[k] # 0
    <3>1. Walk[k] \in 1 .. N
      BY <2>2, <1>7, <1>1
    <3>2. nodes[Walk[k]].addr \in Nat /\ ~(nodes[Walk[k]].addr <= nodes[m].addr)
      BY <3>1, <1>5, <2>2, GraphFields
    <3> QED BY <3>2, <2>2, <1>7, <1>9 DEF NextIn
  <2> QED BY <2>1, <2>2
<1>11. v = m
  BY <1>8, <1>10, <1>7 DEF TiledIn
<1> QED BY <1>5, <1>11

LEMMA WalkedIs ==
  ASSUME IsGraph(nodes), TiledIn(nodes)
  PROVE  /\ Walked \subseteq 1 .. Len(nodes)
         /\ \A k \in Walked : Walk[k] \in 1 .. Len(nodes)
         /\ \A j, k \in Walked : nodes[Walk[j]].addr = nodes[Walk[k]].addr => j = k
         /\ \A m \in 1 .. Len(nodes) : \E k \in Walked : Walk[k] = m
<1> DEFINE N == Len(nodes)
<1>1. N \in Nat
  BY GraphFields
<1>2. Walked \subseteq 1 .. N /\ \A k \in Walked : Walk[k] \in 1 .. N
  BY <1>1, WalkTells, WalkEnds DEF Walked
<1>3. ASSUME NEW j \in Walked, NEW k \in Walked, j < k
      PROVE  nodes[Walk[j]].addr < nodes[Walk[k]].addr
  <2>1. j \in 1 .. (N + 1) /\ k \in 1 .. (N + 1) /\ Walk[k] # 0
    BY <1>1, <1>2
  <2> QED BY <2>1, <1>3, WalkRises
<1>4. ASSUME NEW j \in Walked, NEW k \in Walked, nodes[Walk[j]].addr = nodes[Walk[k]].addr
      PROVE  j = k
  <2>1. j \in Nat /\ k \in Nat /\ nodes[Walk[j]].addr \in Nat /\ nodes[Walk[k]].addr \in Nat
    BY <1>1, <1>2, GraphFields
  <2>2. ~(j < k)
    BY <2>1, <1>3, <1>4
  <2>3. ~(k < j)
    BY <2>1, <1>3, <1>4
  <2> QED BY <2>1, <2>2, <2>3
<1>5. ASSUME NEW m \in 1 .. N PROVE \E k \in Walked : Walk[k] = m
  <2>1. PICK k \in 1 .. N : Walk[k] = m
    BY WalkMeetsAll
  <2>2. k \in DOMAIN Walk /\ Walk[k] # 0
    BY <2>1, <1>1, WalkTells
  <2> QED BY <2>1, <2>2 DEF Walked
<1> QED BY <1>2, <1>4, <1>5

-----------------------------------------------------------------------------
(* The variables keep their types and no pointer dangles (TypeOK), for any *)
(* views: no block is cut into an empty one.                               *)
THEOREM TypeCorrect == Spec => []TypeOK
<1>1. IInv => TypeOK
  <2> SUFFICES ASSUME IInv PROVE TypeOK
    OBVIOUS
  <2>1. IsGraph(nodes) /\ nodes \in Seq(Node) /\ Len(nodes) \in Nat
    BY GraphFields DEF IInv, GraphInv, IsGraph
  <2>2. \A k : k \in 0 .. Len(nodes) <=> k \in Ids \cup {0}
    BY <2>1 DEF Ids
  <2>3. \A m \in Ids :
          /\ nodes[m].next \in Ids \cup {0}
          /\ \A k \in 1 .. Len(nodes[m].succ) : nodes[m].succ[k].node \in Ids
          /\ \A k \in 1 .. Len(nodes[m].pred) : nodes[m].pred[k].node \in Ids
    BY <2>1, <2>2 DEF IsGraph, Ids
  <2> QED BY <2>1, <2>2, <2>3 DEF IInv, VarsOK, TypeOK
<1> QED BY <1>1, SpecInv, PTL

(* The chain runs through all blocks in the order of their addresses and   *)
(* each holds the instructions of its range, however often main splits     *)
(* blocks (Tiled).                                                         *)
THEOREM TilesCode == Spec => []Tiled
<1>1. IInv => Tiled
  BY TiledIsIn DEF IInv, GraphInv
<1> QED BY <1>1, SpecInv, PTL

(* The lists of successors and predecessors tell the same edges, each      *)
(* once, through all that add_edge and splitting do to them (Mirror).      *)
THEOREM EdgesMirror == Spec => []Mirror
<1>1. IInv => Mirror
  BY DEF IInv, GraphInv, MirrorIn, Mirror, Types, Ids
<1> QED BY <1>1, SpecInv, PTL

(* A fallthrough edge leads to the next block, whichever end of it is      *)
(* split (FallthroughToNext).                                              *)
THEOREM FallthroughNext == Spec => []FallthroughToNext
<1>1. IInv => FallthroughToNext
  BY DEF IInv, GraphInv, FallsToNext, FallthroughToNext, Ids
<1> QED BY <1>1, SpecInv, PTL

(* When main has walked the chain, every transfer of control inside the    *)
(* lifted code has its edge, between the right blocks (TransfersCovered).  *)
THEOREM AllTransfers == Spec => []TransfersCovered
<1>1. IInv => TransfersCovered
  <2> SUFFICES ASSUME IInv, pc = "done", NEW m \in Ids, NEW d \in Ids,
                      NEW j \in 1 .. Len(nodes[d].insns), nodes[d].insns[j].at \in Targets(m)
               PROVE  j = 1 /\ HasEdge(nodes, m, d)
    BY DEF TransfersCovered
  <2>1. Covered(nodes, m)
    BY DEF IInv, WalkIn, Ids
  <2>2. Targets(m) = TargetsIn(nodes, m)
    BY DEF Targets, TargetsIn, LastIn
  <2> QED BY <2>1, <2>2 DEF Covered, Reached, Ids
<1> QED BY <1>1, SpecInv, PTL

(* What is printed of a finished graph is that graph: the output ends,     *)
(* with every block and every edge in it once (DotIsGraph).                *)
THEOREM DotShowsGraph == Spec => []DotIsGraph
<1>1. IInv => DotIsGraph
  <2> SUFFICES ASSUME IInv, pc = "done" PROVE DotIsGraph
    BY DEF DotIsGraph
  <2>1. IsGraph(nodes) /\ TiledIn(nodes) /\ MirrorIn(nodes) /\ Ids = 1 .. Len(nodes)
    BY DEF IInv, GraphInv, Ids
  <2>2. Walk[Len(nodes) + 1] = 0
    BY <2>1, WalkEnds
  <2>3. IsInjective(DotNodes)
    BY <2>1, WalkedIs DEF IsInjective, DotNodes
  <2>4. Range(DotNodes) = {nodes[m].addr : m \in Ids}
    BY <2>1, WalkedIs, SMTT(30) DEF Range, DotNodes
  <2> DEFINE Places == UNION {{k} \X DOMAIN nodes[Walk[k]].succ : k \in Walked}
             Name(p) == <<nodes[Walk[p[1]]].addr,
                          nodes[nodes[Walk[p[1]]].succ[p[2]].node].addr>>
  <2>5. DotEdges = [p \in Places |-> Name(p)]
    BY DEF DotEdges
  <2>6. ASSUME NEW p \in Places
        PROVE  /\ p[1] \in Walked /\ Walk[p[1]] \in Ids /\ p[2] \in DOMAIN nodes[Walk[p[1]]].succ
               /\ p = <<p[1], p[2]>>
    <3>1. PICK k \in Walked : p \in {k} \X DOMAIN nodes[Walk[k]].succ
      OBVIOUS
    <3>2. p[1] = k /\ p[2] \in DOMAIN nodes[Walk[k]].succ /\ p = <<p[1], p[2]>>
      BY <3>1
    <3> QED BY <3>2, <2>1, WalkedIs
  <2>7. ASSUME NEW k \in Walked, NEW e \in DOMAIN nodes[Walk[k]].succ
        PROVE  <<k, e>> \in Places
    OBVIOUS
  <2>8. ASSUME NEW m \in Ids
        PROVE  /\ DOMAIN nodes[m].succ = 1 .. Len(nodes[m].succ)
               /\ \A e \in DOMAIN nodes[m].succ : nodes[m].succ[e].node \in Ids
               /\ \A e, l \in DOMAIN nodes[m].succ :
                    nodes[m].succ[e].node = nodes[m].succ[l].node => e = l
    <3>1. nodes[m] \in Node
      BY <2>1, GraphFields
    <3>2. nodes[m].succ \in Seq(EdgeType)
      BY <3>1, NodeFields DEF Types
    <3>3. DOMAIN nodes[m].succ = 1 .. Len(nodes[m].succ)
      BY <3>2, LenProperties
    <3> QED BY <2>1, <3>3 DEF IsGraph, MirrorIn
  <2> HIDE DEF Places, Name
  <2>9. IsInjective(DotEdges)
    <3> SUFFICES ASSUME NEW p \in Places, NEW q \in Places, Name(p) = Name(q) PROVE p = q
      BY <2>5 DEF IsInjective
    <3> DEFINE m == Walk[p[1]]
               d == Walk[q[1]]
    <3>1. /\ nodes[m].addr = nodes[d].addr
          /\ nodes[nodes[m].succ[p[2]].node].addr = nodes[nodes[d].succ[q[2]].node].addr
      BY DEF Name
    <3>2. p[1] = q[1]
      BY <3>1, <2>1, <2>6, WalkedIs
    <3>3. nodes[m].succ[p[2]].node \in Ids /\ nodes[m].succ[q[2]].node \in Ids
      BY <3>2, <2>6, <2>8
    <3>4. nodes[m].succ[p[2]].node = nodes[m].succ[q[2]].node
      BY <3>1, <3>2, <3>3, <2>1 DEF TiledIn
    <3>5. p[2] = q[2]
      BY <3>2, <3>4, <2>6, <2>8
    <3> QED BY <3>2, <3>5, <2>6
  <2> DEFINE Drawn == {e \in Ids \X Ids : HasEdge(nodes, e[1], e[2])}
  <2>10. Range(DotEdges) = {<<nodes[e[1]].addr, nodes[e[2]].addr>> : e \in Drawn}
    <3>1. ASSUME NEW p \in Places
          PROVE  \E e \in Drawn : Name(p) = <<nodes[e[1]].addr, nodes[e[2]].addr>>
      <4> DEFINE m == Walk[p[1]]
                 d == nodes[m].succ[p[2]].node
      <4>1. m \in Ids /\ d \in Ids /\ HasEdge(nodes, m, d)
        BY <2>6, <2>8 DEF HasEdge
      <4>2. <<m, d>> \in Drawn /\ <<m, d>>[1] = m /\ <<m, d>>[2] = d
        BY <4>1
      <4>3. Name(p) = <<nodes[m].addr, nodes[d].addr>>
        BY DEF Name
      <4> HIDE DEF m, d, Drawn
      <4> QED BY <4>2, <4>3
    <3>2. ASSUME NEW e \in Drawn
          PROVE  \E p \in Places : Name(p) = <<nodes[e[1]].addr, nodes[e[2]].addr>>
      <4>1. e[1] \in Ids /\ e[2] \in Ids /\ HasEdge(nodes, e[1], e[2])
        OBVIOUS
      <4>2. PICK k \in Walked : Walk[k] = e[1]
        BY <4>1, <2>1, WalkedIs
      <4>3. PICK l \in DOMAIN nodes[e[1]].succ : nodes[e[1]].succ[l].node = e[2]
        BY <4>1, <2>8 DEF HasEdge
      <4>4. <<k, l>> \in Places /\ <<k, l>>[1] = k /\ <<k, l>>[2] = l
        BY <4>2, <4>3, <2>7
      <4>5. Name(<<k, l>>) = <<nodes[e[1]].addr, nodes[e[2]].addr>>
        BY <4>2, <4>3, <4>4 DEF Name
      <4> QED BY <4>4, <4>5
    <3>3. DOMAIN DotEdges = Places /\ \A p \in Places : DotEdges[p] = Name(p)
      BY <2>5
    <3> HIDE DEF Drawn
    <3>4. \A x : x \in Range(DotEdges) <=> \E p \in Places : x = Name(p)
      BY <3>3 DEF Range
    <3> QED BY <3>1, <3>2, <3>4
  <2> QED BY <2>2, <2>3, <2>4, <2>9, <2>10 DEF DotIsGraph
<1> QED BY <1>1, SpecInv, PTL

(* The second loop of main neither loses an instruction nor makes one up   *)
(* (CodeKept).                                                             *)
THEOREM CodeIsKept == Spec => CodeKept
<1>1. IInv /\ [Next]_vars => [pc # "lift" => Code' = Code]_vars
  <2> SUFFICES ASSUME IInv, Next, pc # "lift" PROVE Code' = Code
    BY DEF vars, Code, Ids
  <2>1. CodeIn(nodes) = Code /\ CodeIn(nodes') = Code'
    BY DEF CodeIn, Code, Ids
  <2>2. GraphInv(nodes) /\ IsGraph(nodes) /\ TiledIn(nodes)
    BY DEF IInv, GraphInv
  <2>3. CASE Scan
    <3>1. n \in Ids /\ i \in 1 .. Len(nodes[n].insns)
      <4>1. n # 0 /\ i <= Len(nodes[n].insns)
        BY <2>3 DEF Scan
      <4>2. n \in 1 .. Len(nodes) /\ i \in Nat \ {0}
        BY <4>1, <2>2, GraphFields DEF IInv, VarsOK
      <4> QED BY <4>1, <4>2, <2>2, GraphFields DEF Ids
    <3> DEFINE insn == nodes[n].insns[i]
    <3>2. insn.exits \in Nat
      <4>1. nodes[n] \in Node
        BY <3>1, <2>2, GraphFields DEF Ids
      <4>2. insn \in Insn
        BY <4>1, <3>1, NodeFields
      <4> QED BY <4>2 DEF Insn
    <3>3. nodes' = [nodes EXCEPT ![n].exits = @ + insn.exits]
      BY <2>3 DEF Scan
    <3> HIDE DEF insn
    <3>4. IsCounted(nodes', n, insn.exits)
      BY <3>1, <3>2, <3>3, <2>2, CountedFacts
    <3>5. Alike(nodes, nodes')
      BY <3>4 DEF IsCounted, Alike
    <3> QED BY <3>5, <2>1, <2>2, AlikeKeeps
  <2>4. CASE JumpToBlock
    <3>1. pc = "jumps"
      BY <2>4 DEF JumpToBlock
    <3>2. n \in Ids
      BY <3>1, <2>2, GraphFields DEF IInv, VarsOK, JumpsIn, Ids
    <3>3. PICK m \in Ids : Store(AddEdge(nodes, n, m, "DIRECT"), "jumps")
      BY <2>4 DEF JumpToBlock
    <3>4. CodeIn(AddEdge(nodes, n, m, "DIRECT")) = CodeIn(nodes)
      BY <3>2, <2>2, AddedInv DEF Ids, Types
    <3> QED BY <3>3, <3>4, <2>1 DEF Store
  <2>5. CASE JumpInto
    <3>1. pc = "jumps"
      BY <2>5 DEF JumpInto
    <3>2. n \in Ids
      BY <3>1, <2>2, GraphFields DEF IInv, VarsOK, JumpsIn, Ids
    <3>3. PICK m \in Ids : \E j \in 1 .. Len(nodes[m].insns) :
            /\ InBlock(m, jumps[i]) /\ jumps[i] # nodes[m].addr /\ IsInsn(m, j, jumps[i])
            /\ Store(IF m = n THEN Split(m, j)
                              ELSE AddEdge(Split(m, j), n, Len(nodes) + 1, "DIRECT"), "jumps")
      BY <2>5 DEF JumpInto
    <3>4. PICK j \in 1 .. Len(nodes[m].insns) :
            /\ InBlock(m, jumps[i]) /\ jumps[i] # nodes[m].addr /\ IsInsn(m, j, jumps[i])
            /\ Store(IF m = n THEN Split(m, j)
                              ELSE AddEdge(Split(m, j), n, Len(nodes) + 1, "DIRECT"), "jumps")
      BY <3>3
    <3>5. Cuttable(m, j)
      BY <3>4, <2>2, PlaceCuttable DEF IsInsn
    <3> DEFINE c == Split(m, j)
    <3>6. IsSplit(c, m, j) /\ GraphInv(c) /\ CodeIn(c) = CodeIn(nodes)
      BY <3>5, <2>2, SplitInv
    <3> HIDE DEF c
    <3>7. n \in 1 .. Len(c) /\ Len(nodes) + 1 \in 1 .. Len(c)
      BY <3>2, <3>6, <2>2, GraphFields DEF IsSplit, Ids
    <3>8. CodeIn(AddEdge(c, n, Len(nodes) + 1, "DIRECT")) = CodeIn(nodes)
      BY <3>6, <3>7, AddedInv DEF Types
    <3>9. nodes' \in {nodes, c, AddEdge(c, n, Len(nodes) + 1, "DIRECT")}
      BY <3>4 DEF Store, c
    <3> QED BY <3>6, <3>8, <3>9, <2>1
  <2>6. CASE Link
    <3>1. n \in Ids
      BY <2>6, <2>2, GraphFields DEF Link, IInv, VarsOK, LinkIn, Ids
    <3>2. CASE FallsThrough
      <4>1. nodes[n].next \in 1 .. Len(nodes)
        BY <3>1, <3>2, <2>2, GraphFields DEF FallsThrough, Ids
      <4>2. CodeIn(AddEdge(nodes, n, nodes[n].next, "FALLTHROUGH")) = CodeIn(nodes)
        BY <3>1, <4>1, <2>2, AddedInv DEF Ids, Types
      <4>3. Store(AddEdge(nodes, n, nodes[n].next, "FALLTHROUGH"), "scan")
        BY <2>6, <3>2 DEF Link
      <4> QED BY <4>2, <4>3, <2>1 DEF Store
    <3>3. CASE ~FallsThrough
      BY <2>6, <3>3, <2>1 DEF Link
    <3> QED BY <3>2, <3>3
  <2>7. CASE Lifted \/ Scanned \/ JumpOut \/ JumpsDone \/ Finish
    BY <2>7, <2>1 DEF Lifted, Scanned, JumpOut, JumpsDone, Finish
  <2>8. ~Lift
    BY DEF Lift
  <2> QED BY <2>3, <2>4, <2>5, <2>6, <2>7, <2>8 DEF Next
<1> QED BY <1>1, SpecInv, PTL DEF Spec, CodeKept
=============================================================================
