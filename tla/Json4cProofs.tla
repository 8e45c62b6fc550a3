---------------------------- MODULE Json4cProofs ----------------------------
(***************************************************************************)
(* Proofs about the tree of json4c.c: the pointers that addChild leaves    *)
(* chain what was added, in order, and so the walks of jToString and jFree *)
(* read live nodes only, visit all of them, and jFree releases them all;   *)
(* the text jToString returns is the one of the tree, and a reader takes   *)
(* the strings from it that were added.                                    *)
(*                                                                         *)
(* The walk along next is a recursive function.  That it returns the list  *)
(* is proved from the end of the list, by the least number of nodes left   *)
(* at which it would not.                                                  *)
(***************************************************************************)
EXTENDS Json4c, LeastElement, SequenceTheorems, TLAPS

Types == {Json4cObject, Json4cArray, Json4cNumber, Json4cString}
Texts == {<<>>} \cup Values \cup {strreplace(v) : v \in Values}
Pointers == 0 .. MaxNodes
NodeRecord == [type: Types, keyed: BOOLEAN, value: Texts, next: Pointers, child: Pointers]
States == {"unused", "live", "freed"}

-----------------------------------------------------------------------------
(* The shape of a tree: heap and lists are node and given, mem is memory,   *)
(* open the nodes that are not attached yet.                                *)

ShapeType(heap, lists, mem, open) ==
    /\ heap \in [Nodes -> NodeRecord] /\ lists = [n \in Nodes |-> lists[n]]
    /\ mem \in [Nodes -> States] /\ open \subseteq Nodes

\* The child at place i of p.
At(heap, lists, p, i, c) ==
    heap[p].type \in Instances /\ i \in 1 .. Len(lists[p]) /\ lists[p][i] = c

InList(heap, lists, c) == \E p \in Nodes : \E i \in 1 .. Len(lists[p]) : At(heap, lists, p, i, c)

\* The pointers of an instance chain what was added to it, in order.
Chained(heap, lists) ==
    \A p \in Nodes :
        IF heap[p].type \in Instances
        THEN /\ lists[p] \in Seq(Nodes)
             /\ heap[p].child = IF Len(lists[p]) = 0 THEN NULL ELSE lists[p][1]
             /\ \A i \in 1 .. Len(lists[p]) :
                    heap[lists[p][i]].next = IF i = Len(lists[p]) THEN NULL ELSE lists[p][i + 1]
        ELSE heap[p].child = NULL

\* A node is in one list, once, of an older instance, unless it is the root, new or open.
Linked(heap, lists, mem, open) ==
    /\ \A p, c \in Nodes : \A i \in 1 .. Len(lists[p]) :
           At(heap, lists, p, i, c) => p < c /\ mem[p] # "unused" /\ mem[c] # "unused" /\ c \notin open
    /\ \A p, q, c \in Nodes : \A i \in 1 .. Len(lists[p]), j \in 1 .. Len(lists[q]) :
           At(heap, lists, p, i, c) /\ At(heap, lists, q, j, c) => p = q /\ i = j
    /\ \A c \in Nodes : ~InList(heap, lists, c) =>
           /\ heap[c].next = NULL
           /\ c = Root \/ c \in open \/ mem[c] = "unused"
    /\ \A n \in Nodes : mem[n] = "unused" =>
           /\ lists[n] = <<>> /\ heap[n].type \in Instances /\ n \notin open /\ n # Root
    /\ Root \notin open /\ heap[Root].type \in Instances

Shape(heap, lists, mem, open) ==
    /\ ShapeType(heap, lists, mem, open) /\ Chained(heap, lists) /\ Linked(heap, lists, mem, open)

\* n at the end of the list of p.
Tip(heap, lists, p, n) ==
    IF heap[p].child = NULL
    THEN [heap EXCEPT ![p] = [@ EXCEPT !.child = n]]
    ELSE [heap EXCEPT ![lists[p][Len(lists[p])]] = [@ EXCEPT !.next = n]]

-----------------------------------------------------------------------------
(* The phases.                                                              *)

\* malloc has given out the first nodes, and nothing is released yet.
Unreleased ==
    /\ \A n \in Nodes : memory[n] # "freed"
    /\ \A n, k \in Nodes : memory[n] = "unused" /\ n <= k => memory[k] = "unused"

Used(n) == n \in Nodes /\ memory[n] # "unused"

\* What a call has written so far is not of interest here.
StackType(calls) == \E R : calls \in Seq([node: Nodes, child: Pointers, ret: R])

\* The calls of jToString: each is at a child of its own, the last perhaps past them.
PrintInv(calls) ==
    \A i \in 1 .. Len(calls) :
        /\ Used(calls[i].node)
        /\ calls[i].child = NULL \/ Used(calls[i].child)
        /\ i < Len(calls) => calls[i].child # NULL

Below(p) == IF node[p].type \in Instances THEN Len(given[p]) ELSE 0

\* A call of jFree is at the k-th child: those before are gone, but for the one whose call
\* is on the stack above it; the others are all there.
FreeAt(calls, mem, i, k) ==
    LET p == calls[i].node
    IN  /\ calls[i].child = IF k <= Below(p) THEN given[p][k] ELSE NULL
        /\ \A j \in k .. Below(p) : mem[given[p][j]] = "live"
        /\ \A j \in 1 .. k - 1 :
               IF i < Len(calls) /\ j = k - 1
               THEN given[p][j] = calls[i + 1].node
               ELSE mem[given[p][j]] = "freed"
        /\ i < Len(calls) => k > 1

OnStack(calls, n) == \E i \in 1 .. Len(calls) : calls[i].node = n

\* The rest of the tree: nothing is left below what is released, and nothing is
\* missing below what no call has come to.
FreeRest(calls, mem) ==
    \A p \in Nodes : \A i \in 1 .. Below(p) :
        /\ mem[p] = "freed" => mem[given[p][i]] = "freed"
        /\ mem[p] = "live" /\ ~OnStack(calls, p) => mem[given[p][i]] = "live"

FreeInv(calls, mem) ==
    /\ \A i \in 1 .. Len(calls) :
           /\ mem[calls[i].node] = "live"
           /\ \E k \in 1 .. Below(calls[i].node) + 1 : FreeAt(calls, mem, i, k)
    /\ \A i, j \in 1 .. Len(calls) : i < j => calls[i].node < calls[j].node
    /\ IF calls = <<>> THEN mem[Root] = "freed" ELSE calls[1].node = Root
    /\ FreeRest(calls, mem)

JsonInv ==
    /\ StackType(stack)
    /\ Shape(node, given, memory, loose)
    /\ pc \in {"build", "print", "free", "done"}
    /\ pc = "build" => Unreleased
    /\ pc = "print" => Unreleased /\ loose = {} /\ stack # <<>> /\ PrintInv(stack)
    /\ pc = "free" => stack # <<>> /\ loose = {} /\ FreeInv(stack, memory)
    /\ pc = "done" => stack = <<>> /\ loose = {} /\ FreeInv(stack, memory)

-----------------------------------------------------------------------------
(* Sequences.                                                               *)

LEMMA FrontLast ==
    ASSUME NEW S, NEW s \in Seq(S), s # <<>>
    PROVE  /\ Len(s) \in Nat /\ Len(s) >= 1 /\ Last(s) = s[Len(s)] /\ Last(s) \in S
           /\ Front(s) \in Seq(S) /\ Len(Front(s)) = Len(s) - 1
           /\ \A i \in 1 .. Len(s) - 1 : Front(s)[i] = s[i]
<1>1. Len(s) \in Nat /\ Len(s) >= 1 /\ \A i \in 1 .. Len(s) : s[i] \in S
  BY EmptySeq, LenProperties, ElementOfSeq
<1> DEFINE n == Len(s) - 1
<1>2. 1 \in Int /\ n \in Int /\ \A i \in 1 .. n : s[i] \in S
  BY <1>1
<1>3. /\ SubSeq(s, 1, n) \in Seq(S)
      /\ Len(SubSeq(s, 1, n)) = IF 1 <= n THEN n - 1 + 1 ELSE 0
      /\ \A i \in 1 .. n - 1 + 1 : SubSeq(s, 1, n)[i] = s[1 + i - 1]
  <2> HIDE DEF n
  <2> QED  BY <1>2, SubSeqProperties
<1>4. Front(s) = SubSeq(s, 1, n) /\ Last(s) = s[Len(s)]
  BY DEF Front, Last
<1>5. Len(Front(s)) = n
  <2>1. n \in Int /\ n >= 0
    BY <1>1
  <2> HIDE DEF n
  <2>2. 1 <= n \/ n = 0
    BY <2>1
  <2> QED  BY <1>3, <1>4, <2>1, <2>2
<1>6. \A i \in 1 .. n : Front(s)[i] = s[i]
  <2> SUFFICES ASSUME NEW i \in 1 .. n PROVE Front(s)[i] = s[i]
    OBVIOUS
  <2>1. i \in 1 .. n - 1 + 1 /\ 1 + i - 1 = i
    BY <1>1
  <2> QED  BY <1>3, <1>4, <2>1
<1> QED  BY <1>1, <1>3, <1>4, <1>5, <1>6

-----------------------------------------------------------------------------
(* malloc: the first node not in use.                                       *)

LEMMA Bounds == MaxNodes \in Nat /\ MaxNodes >= 1 /\ Nodes \subseteq Nat /\ Root \in Nodes
                /\ NULL \notin Nodes /\ Pointers = Nodes \cup {NULL}
BY JsonAssumption DEF Nodes, Root, NULL, Pointers

LEMMA NewIs ==
    ASSUME New # NULL
    PROVE  New \in Nodes /\ memory[New] = "unused" /\ \A k \in 1 .. New - 1 : memory[k] # "unused"
<1> DEFINE free == {n \in Nodes : memory[n] = "unused"}
<1>1. free # {} /\ free \subseteq Nat
  BY Bounds DEF New
<1>2. PICK n \in free : \A k \in free : n <= k
  <2> HIDE DEF free
  <2> QED  BY <1>1, LeastNat
<1>3. \A k \in 1 .. n - 1 : memory[k] # "unused"
  <2> SUFFICES ASSUME NEW k \in 1 .. n - 1, memory[k] = "unused" PROVE FALSE
    OBVIOUS
  <2>1. k \in free /\ ~(n <= k)
    BY Bounds DEF Nodes
  <2> QED  BY <1>2, <2>1
<1>4. n \in Nodes /\ memory[n] = "unused"
  OBVIOUS
<1>5. \E m \in Nodes : memory[m] = "unused" /\ \A k \in 1 .. m - 1 : memory[k] # "unused"
  BY <1>3, <1>4
<1> QED  BY <1>4, <1>5 DEF New

-----------------------------------------------------------------------------
(* The walk along next is the list of the children.                         *)

LEMMA AtIs ==
    ASSUME NEW heap, NEW lists, NEW mem, NEW open, Shape(heap, lists, mem, open),
           NEW p \in Nodes, NEW i \in 1 .. Len(lists[p]), heap[p].type \in Instances
    PROVE  /\ lists[p] \in Seq(Nodes) /\ Len(lists[p]) \in Nat
           /\ lists[p][i] \in Nodes /\ At(heap, lists, p, i, lists[p][i])
           /\ InList(heap, lists, lists[p][i])
<1>1. lists[p] \in Seq(Nodes)
  BY DEF Shape, Chained
<1>2. Len(lists[p]) \in Nat /\ lists[p][i] \in Nodes
  BY <1>1, LenProperties, ElementOfSeq
<1>3. At(heap, lists, p, i, lists[p][i])
  BY DEF At
<1> QED  BY <1>1, <1>2, <1>3 DEF InList

LEMMA ChildrenAre ==
    ASSUME Shape(node, given, memory, loose), NEW p \in Nodes, node[p].type \in Instances
    PROVE  Children(p) = given[p]
<1> DEFINE All == 0 .. MaxNodes
           In(c) == InList(node, given, c)
           Own(c) == CHOOSE q \in Nodes : \E i \in 1 .. Len(given[q]) : At(node, given, q, i, c)
           Place(c) == CHOOSE i \in 1 .. Len(given[Own(c)]) : At(node, given, Own(c), i, c)
           g == [c \in All |-> IF c = NULL THEN <<>>
                               ELSE IF In(c) THEN SubSeq(given[Own(c)], Place(c), Len(given[Own(c)]))
                               ELSE <<c>>]
<1>1. ASSUME NEW q \in Nodes, node[q].type \in Instances, NEW i \in 1 .. Len(given[q])
      PROVE  LET c == given[q][i] IN c \in Nodes /\ In(c) /\ Own(c) = q /\ Place(c) = i
  <2> DEFINE c == given[q][i]
  <2>1. c \in Nodes /\ In(c) /\ At(node, given, q, i, c)
    BY <1>1, AtIs
  <2>2. \E r \in Nodes : \E j \in 1 .. Len(given[r]) : At(node, given, r, j, c)
    BY <2>1
  <2>3. Own(c) \in Nodes /\ \E j \in 1 .. Len(given[Own(c)]) : At(node, given, Own(c), j, c)
    BY <2>2
  <2>4. Place(c) \in 1 .. Len(given[Own(c)]) /\ At(node, given, Own(c), Place(c), c)
    BY <2>3
  <2> HIDE DEF Own, Place, c
  <2>5. Own(c) = q /\ Place(c) = i
    BY <2>1, <2>3, <2>4 DEF Shape, Linked
  <2> QED  BY <2>1, <2>5 DEF c
<1>2. ASSUME NEW q \in Nodes, node[q].type \in Instances, NEW i \in 1 .. Len(given[q])
      PROVE  /\ g[given[q][i]] = SubSeq(given[q], i, Len(given[q]))
             /\ g[given[q][i]] = <<given[q][i]>> \o g[node[given[q][i]].next]
  <2> DEFINE c == given[q][i]
             n == Len(given[q])
  <2>1. c \in Nodes /\ In(c) /\ Own(c) = q /\ Place(c) = i
    BY <1>1, <1>2
  <2>2. c \in All /\ c # NULL
    BY <2>1, Bounds DEF Pointers
  <2>3. g[c] = SubSeq(given[q], i, n)
    <3> HIDE DEF In, Own, Place, c
    <3> QED  BY <2>1, <2>2
  <2>4. given[q] \in Seq(Nodes) /\ n \in Nat /\ node[c].next = IF i = n THEN NULL ELSE given[q][i + 1]
    BY <1>2, LenProperties DEF Shape, Chained
  <2>5. SubSeq(given[q], i, n) = <<c>> \o SubSeq(given[q], i + 1, n)
    <3>1. i \in 1 .. Len(given[q]) /\ n \in i .. Len(given[q])
      BY <2>4
    <3> QED  BY <2>4, <3>1, SubSeqRecursiveFirst
  <2>6. g[node[c].next] = SubSeq(given[q], i + 1, n)
    <3>1. CASE i = n
      <4>1. g[NULL] = <<>>
        BY Bounds DEF NULL, Pointers
      <4>2. SubSeq(given[q], i + 1, n) = <<>>
        <5>1. i + 1 \in Int /\ n \in Int /\ n < i + 1
          BY <2>4, <3>1
        <5> QED  BY <5>1, SubSeqEmpty
      <4> QED  BY <2>4, <3>1, <4>1, <4>2
    <3>2. CASE i # n
      <4> DEFINE d == given[q][i + 1]
      <4>1. i + 1 \in 1 .. Len(given[q])
        BY <2>4, <3>2
      <4>2. d \in Nodes /\ In(d) /\ Own(d) = q /\ Place(d) = i + 1
        BY <1>1, <1>2, <4>1
      <4>3. d \in All /\ d # NULL
        BY <4>2, Bounds DEF Pointers
      <4>4. g[d] = SubSeq(given[q], i + 1, n)
        <5> HIDE DEF In, Own, Place, d
        <5> QED  BY <4>2, <4>3
      <4> QED  BY <2>4, <3>2, <4>4
    <3> QED  BY <3>1, <3>2
  <2> QED  BY <2>3, <2>5, <2>6
<1>3. ASSUME NEW c \in All PROVE g[c] = IF c = NULL THEN <<>> ELSE <<c>> \o g[node[c].next]
  <2>1. CASE c = NULL
    BY <2>1
  <2>2. CASE c # NULL /\ In(c)
    <3>1. PICK q \in Nodes : \E i \in 1 .. Len(given[q]) : At(node, given, q, i, c)
      BY <2>2 DEF InList
    <3>2. PICK i \in 1 .. Len(given[q]) : At(node, given, q, i, c)
      BY <3>1
    <3>3. node[q].type \in Instances /\ c = given[q][i]
      BY <3>2 DEF At
    <3> HIDE DEF g
    <3> QED  BY <1>2, <2>2, <3>3
  <2>3. CASE c # NULL /\ ~In(c)
    <3>1. c \in Nodes
      BY <2>3, Bounds DEF Pointers
    <3>2. node[c].next = NULL
      BY <2>3, <3>1 DEF Shape, Linked
    <3>3. g[c] = <<c>>
      <4> HIDE DEF In
      <4> QED  BY <2>3
    <3>4. g[NULL] = <<>>
      BY Bounds DEF NULL, Pointers
    <3>5. <<c>> \o <<>> = <<c>>
      <4>1. <<c>> \in Seq({c})
        OBVIOUS
      <4> QED  BY <4>1, ConcatEmptySeq
    <3> HIDE DEF g
    <3> QED  BY <2>3, <3>2, <3>3, <3>4, <3>5
  <2> QED  BY <2>1, <2>2, <2>3
<1>4. g = [c \in All |-> IF c = NULL THEN <<>> ELSE <<c>> \o g[node[c].next]]
  <2>1. g = [c \in All |-> g[c]]
    OBVIOUS
  <2> HIDE DEF g
  <2> QED  BY <1>3, <2>1
<1> HIDE DEF g
<1> DEFINE list == CHOOSE f : f = [c \in All |->
                       IF c = NULL THEN <<>> ELSE <<c>> \o f[node[c].next]]
           s == given[p]
           n == Len(s)
<1>5. list = [c \in All |-> IF c = NULL THEN <<>> ELSE <<c>> \o list[node[c].next]]
  BY <1>4
<1>6. Children(p) = list[node[p].child]
  BY DEF Children
<1>7. /\ s \in Seq(Nodes) /\ n = Len(s) /\ n \in Nat /\ \A i \in 1 .. n : s[i] \in Nodes
      /\ node[p].child = IF n = 0 THEN NULL ELSE s[1]
      /\ \A i \in 1 .. n : node[s[i]].next = IF i = n THEN NULL ELSE s[i + 1]
  BY LenProperties, ElementOfSeq DEF Shape, Chained
<1> HIDE DEF list, s, n
<1>8. /\ list[NULL] = <<>>
      /\ \A c \in Nodes : list[c] = <<c>> \o list[node[c].next]
  <2>1. NULL \in All /\ \A c \in Nodes : c \in All /\ c # NULL
    BY Bounds DEF Pointers
  <2> QED  BY <1>5, <2>1
\* From the end of the list: m children are left after the i-th.
<1>9. \A m \in Nat : m < n => list[s[n - m]] = SubSeq(s, n - m, n)
  <2> DEFINE Not == {m \in Nat : m < n /\ list[s[n - m]] # SubSeq(s, n - m, n)}
  <2> SUFFICES ASSUME Not # {} PROVE FALSE
    OBVIOUS
  <2>1. PICK m \in Not : \A k \in Not : m <= k
    <3>1. Not \subseteq Nat
      OBVIOUS
    <3> HIDE DEF Not
    <3> QED  BY <3>1, LeastNat
  <2>2. m \in Nat /\ m < n /\ list[s[n - m]] # SubSeq(s, n - m, n)
    OBVIOUS
  <2> DEFINE i == n - m
  <2>3. i \in 1 .. n /\ n \in i .. n /\ i \in Int
    BY <1>7, <2>2
  <2>4. list[s[i]] = <<s[i]>> \o list[node[s[i]].next]
    BY <1>7, <1>8, <2>3
  <2>5. SubSeq(s, i, n) = <<s[i]>> \o SubSeq(s, i + 1, n)
    <3> HIDE DEF i
    <3> QED  BY <1>7, <2>3, SubSeqRecursiveFirst
  <2>6. list[node[s[i]].next] = SubSeq(s, i + 1, n)
    <3>1. CASE m = 0
      <4>1. i = n
        BY <1>7, <3>1
      <4>2. node[s[i]].next = NULL
        BY <1>7, <2>3, <4>1
      <4>3. SubSeq(s, i + 1, n) = <<>>
        <5>1. i + 1 \in Int /\ n \in Int /\ n < i + 1
          BY <1>7, <4>1
        <5> QED  BY <5>1, SubSeqEmpty
      <4> QED  BY <1>8, <4>2, <4>3
    <3>2. CASE m # 0
      <4>1. m - 1 \in Nat /\ m - 1 < n /\ ~(m <= m - 1) /\ n - (m - 1) = i + 1 /\ i # n
        BY <1>7, <2>2, <3>2
      <4>2. list[s[n - (m - 1)]] = SubSeq(s, n - (m - 1), n)
        BY <2>1, <4>1
      <4>3. node[s[i]].next = s[i + 1]
        BY <1>7, <2>3, <4>1
      <4> HIDE DEF i
      <4> QED  BY <4>1, <4>2, <4>3
    <3> QED  BY <3>1, <3>2
  <2> QED  BY <2>2, <2>4, <2>5, <2>6
<1>10. CASE n = 0
  <2>1. s = <<>>
    BY <1>7, <1>10, EmptySeq
  <2> QED  BY <1>6, <1>7, <1>8, <1>10, <2>1 DEF s
<1>11. CASE n # 0
  <2>1. n - 1 \in Nat /\ n - 1 < n /\ n - (n - 1) = 1
    BY <1>7, <1>11
  <2>2. list[s[1]] = SubSeq(s, 1, n)
    BY <1>9, <2>1
  <2>3. SubSeq(s, 1, n) = s
    BY <1>7, SubSeqFull
  <2> QED  BY <1>6, <1>7, <1>11, <2>2, <2>3 DEF s
<1> QED  BY <1>10, <1>11


-----------------------------------------------------------------------------
(* A node is made, and put at the end of a list.                            *)

LEMMA Made ==
    ASSUME NEW heap, NEW lists, NEW mem, NEW open, Shape(heap, lists, mem, open),
           NEW n \in Nodes, mem[n] = "unused", NEW r \in NodeRecord, r.next = NULL, r.child = NULL,
           NEW what, r.type \in Instances => what = <<>>
    PROVE  Shape([heap EXCEPT ![n] = r], [lists EXCEPT ![n] = what],
                 [mem EXCEPT ![n] = "live"], open \cup {n})
<1> DEFINE h == [heap EXCEPT ![n] = r]
           l == [lists EXCEPT ![n] = what]
           m == [mem EXCEPT ![n] = "live"]
           o == open \cup {n}
<1>1. ShapeType(heap, lists, mem, open)
  BY DEF Shape
<1>2. /\ h[n] = r /\ l[n] = what /\ m[n] = "live"
      /\ \A q \in Nodes : q # n => h[q] = heap[q] /\ l[q] = lists[q] /\ m[q] = mem[q]
  BY <1>1 DEF ShapeType
<1>3. ShapeType(h, l, m, o)
  <2>1. l = [q \in Nodes |-> l[q]]
    BY <1>1 DEF ShapeType
  <2> QED  BY <1>1, <2>1 DEF ShapeType, States
<1>4. lists[n] = <<>> /\ heap[n].type \in Instances /\ n \notin open /\ n # Root
  BY DEF Shape, Linked
<1> HIDE DEF h, l, m, o
<1>5. Len(<<>>) = 0 /\ 1 .. 0 = {} /\ <<>> \in Seq(Nodes)
  BY EmptySeq
<1>6. \A p, c \in Nodes : \A i : At(h, l, p, i, c) <=> At(heap, lists, p, i, c)
  BY <1>2, <1>4, <1>5 DEF At
<1>7. \A c \in Nodes : InList(h, l, c) <=> InList(heap, lists, c)
  <2> SUFFICES ASSUME NEW c \in Nodes PROVE InList(h, l, c) <=> InList(heap, lists, c)
    OBVIOUS
  <2>1. \A p \in Nodes : \A i : At(h, l, p, i, c) => i \in 1 .. Len(l[p])
    BY DEF At
  <2>2. \A p \in Nodes : \A i : At(heap, lists, p, i, c) => i \in 1 .. Len(lists[p])
    BY DEF At
  <2> QED  BY <1>6, <2>1, <2>2 DEF InList
<1>8. Chained(h, l)
  <2> SUFFICES ASSUME NEW p \in Nodes
               PROVE  IF h[p].type \in Instances
                      THEN /\ l[p] \in Seq(Nodes)
                           /\ h[p].child = IF Len(l[p]) = 0 THEN NULL ELSE l[p][1]
                           /\ \A i \in 1 .. Len(l[p]) :
                                h[l[p][i]].next = IF i = Len(l[p]) THEN NULL ELSE l[p][i + 1]
                      ELSE h[p].child = NULL
    BY DEF Chained
  <2>1. CASE p = n
    BY <1>2, <1>5, <2>1
  <2>2. CASE p # n
    <3>1. h[p] = heap[p] /\ l[p] = lists[p]
      BY <1>2, <2>2
    <3>2. ASSUME h[p].type \in Instances, NEW i \in 1 .. Len(l[p]) PROVE l[p][i] # n /\ l[p][i] \in Nodes
      <4>1. l[p][i] \in Nodes /\ At(heap, lists, p, i, l[p][i])
        BY <3>1, <3>2, AtIs
      <4>2. mem[l[p][i]] # "unused"
        BY <3>1, <4>1 DEF Shape, Linked
      <4> QED  BY <4>1, <4>2
    <3> QED  BY <1>2, <3>1, <3>2 DEF Shape, Chained
  <2> QED  BY <2>1, <2>2
<1>9. Linked(h, l, m, o)
  <2>1. ASSUME NEW p \in Nodes, NEW c \in Nodes, NEW i \in 1 .. Len(l[p]), At(h, l, p, i, c)
        PROVE  p < c /\ m[p] # "unused" /\ m[c] # "unused" /\ c \notin o
    <3>1. At(heap, lists, p, i, c) /\ i \in 1 .. Len(lists[p])
      BY <1>6, <2>1 DEF At
    <3>2. p < c /\ mem[p] # "unused" /\ mem[c] # "unused" /\ c \notin open
      BY <3>1 DEF Shape, Linked
    <3> QED  BY <1>2, <3>2 DEF o
  <2>2. ASSUME NEW p \in Nodes, NEW q \in Nodes, NEW c \in Nodes, NEW i \in 1 .. Len(l[p]),
               NEW j \in 1 .. Len(l[q]), At(h, l, p, i, c), At(h, l, q, j, c)
        PROVE  p = q /\ i = j
    <3>1. /\ At(heap, lists, p, i, c) /\ i \in 1 .. Len(lists[p])
          /\ At(heap, lists, q, j, c) /\ j \in 1 .. Len(lists[q])
      BY <1>6, <2>2 DEF At
    <3> QED  BY <3>1 DEF Shape, Linked
  <2>3. ASSUME NEW c \in Nodes, ~InList(h, l, c)
        PROVE  h[c].next = NULL /\ (c = Root \/ c \in o \/ m[c] = "unused")
    <3>1. heap[c].next = NULL /\ (c = Root \/ c \in open \/ mem[c] = "unused")
      BY <1>7, <2>3 DEF Shape, Linked
    <3> QED  BY <1>2, <3>1 DEF o
  <2>4. ASSUME NEW c \in Nodes, m[c] = "unused"
        PROVE  l[c] = <<>> /\ h[c].type \in Instances /\ c \notin o /\ c # Root
    <3>1. c # n
      BY <1>2, <2>4
    <3> QED  BY <1>2, <2>4, <3>1 DEF Shape, Linked, o
  <2>5. Root \notin o /\ h[Root].type \in Instances
    BY <1>2, <1>4, Bounds DEF Shape, Linked, o
  <2> QED  BY <2>1, <2>2, <2>3, <2>4, <2>5 DEF Linked
<1> QED  BY <1>3, <1>8, <1>9 DEF Shape, h, l, m, o

LEMMA Attached ==
    ASSUME NEW heap, NEW lists, NEW mem, NEW open, Shape(heap, lists, mem, open),
           NEW n \in open, NEW p \in Nodes, p < n, mem[p] # "unused", heap[p].type \in Instances
    PROVE  Shape(Tip(heap, lists, p, n), [lists EXCEPT ![p] = Append(@, n)], mem, open \ {n})
<1> DEFINE s == lists[p]
           last == s[Len(s)]
           h == IF heap[p].child = NULL THEN [heap EXCEPT ![p] = [@ EXCEPT !.child = n]]
                ELSE [heap EXCEPT ![last] = [@ EXCEPT !.next = n]]
           l == [lists EXCEPT ![p] = Append(@, n)]
           o == open \ {n}
<1>1. ShapeType(heap, lists, mem, open)
  BY DEF Shape
<1>2. /\ s \in Seq(Nodes) /\ Len(s) \in Nat /\ n \in Nodes
      /\ heap[p].child = IF Len(s) = 0 THEN NULL ELSE s[1]
      /\ \A i \in 1 .. Len(s) :
             /\ s[i] \in Nodes /\ At(heap, lists, p, i, s[i]) /\ InList(heap, lists, s[i])
             /\ heap[s[i]].next = IF i = Len(s) THEN NULL ELSE s[i + 1]
  BY <1>1, LenProperties, AtIs DEF Shape, ShapeType, Chained
<1>3. heap[p].child = NULL <=> Len(s) = 0
  <2>1. Len(s) # 0 => s[1] \in Nodes
    BY <1>2
  <2> QED  BY <1>2, <2>1, Bounds
<1>4. ~InList(heap, lists, n) /\ heap[n].next = NULL
  <2>1. ASSUME InList(heap, lists, n) PROVE FALSE
    BY <1>2, <2>1 DEF InList, Shape, Linked
  <2> QED  BY <1>2, <2>1 DEF Shape, Linked
<1>5. /\ \A q \in Nodes : heap[q] \in NodeRecord
      /\ \A q \in Nodes : q # p => l[q] = lists[q]
      /\ l[p] = Append(s, n) /\ l = [q \in Nodes |-> l[q]]
  BY <1>1 DEF ShapeType
<1>6. /\ l[p] \in Seq(Nodes) /\ Len(l[p]) = Len(s) + 1 /\ \A i \in 1 .. Len(s) : l[p][i] = s[i]
      /\ l[p][Len(s) + 1] = n
  <2> HIDE DEF s, l
  <2>1. /\ Append(s, n) \in Seq(Nodes) /\ Len(Append(s, n)) = Len(s) + 1
        /\ \A i \in 1 .. Len(s) : Append(s, n)[i] = s[i]
        /\ Append(s, n)[Len(s) + 1] = n
    <3>1. s \in Seq(Nodes) /\ n \in Nodes
      BY <1>2
    <3> QED  BY <3>1, AppendProperties
  <2> QED  BY <1>5, <2>1
<1>7. /\ h \in [Nodes -> NodeRecord]
      /\ \A q \in Nodes : h[q].type = heap[q].type
      /\ \A q \in Nodes : h[q].child = IF q = p /\ Len(s) = 0 THEN n ELSE heap[q].child
      /\ \A q \in Nodes : h[q].next = IF Len(s) # 0 /\ q = last THEN n ELSE heap[q].next
  <2>1. n \in Pointers /\ heap \in [Nodes -> NodeRecord]
    BY <1>1, <1>2, Bounds DEF ShapeType
  <2>2. CASE Len(s) = 0
    <3>1. h = [heap EXCEPT ![p] = [@ EXCEPT !.child = n]]
      BY <1>3, <2>2
    <3> HIDE DEF h
    <3> QED  BY <2>1, <2>2, <3>1 DEF NodeRecord
  <2>3. CASE Len(s) # 0
    <3>1. h = [heap EXCEPT ![last] = [@ EXCEPT !.next = n]] /\ last \in Nodes
      BY <1>2, <1>3, <2>3
    <3> HIDE DEF h, last, s
    <3> QED  BY <2>1, <2>3, <3>1 DEF NodeRecord
  <2> QED  BY <2>2, <2>3
<1>8. ShapeType(h, l, mem, o)
  BY <1>1, <1>5, <1>7 DEF ShapeType
<1> HIDE DEF h, l, o, last
\* One place more.
<1>9. ASSUME NEW q \in Nodes, NEW c \in Nodes, NEW i
      PROVE  At(h, l, q, i, c) <=> At(heap, lists, q, i, c) \/ (q = p /\ i = Len(s) + 1 /\ c = n)
  <2>1. CASE q # p
    BY <1>5, <1>7, <2>1 DEF At
  <2>2. CASE q = p
    <3>1. i \in 1 .. Len(s) + 1 <=> i \in 1 .. Len(s) \/ i = Len(s) + 1
      BY <1>2
    <3>2. ~(Len(s) + 1 \in 1 .. Len(s))
      BY <1>2
    <3> QED  BY <1>6, <1>7, <2>2, <3>1, <3>2 DEF At, s
  <2> QED  BY <2>1, <2>2
<1>10. \A c \in Nodes : InList(h, l, c) <=> InList(heap, lists, c) \/ c = n
  <2> SUFFICES ASSUME NEW c \in Nodes PROVE InList(h, l, c) <=> InList(heap, lists, c) \/ c = n
    OBVIOUS
  <2>1. \A q \in Nodes : \A i : At(h, l, q, i, c) => i \in 1 .. Len(l[q])
    BY DEF At
  <2>2. \A q \in Nodes : \A i : At(heap, lists, q, i, c) => i \in 1 .. Len(lists[q])
    BY DEF At
  <2> QED  BY <1>9, <2>1, <2>2 DEF InList
\* Only the last child's pointer changes, and no other list has that child.
<1>11. ASSUME NEW q \in Nodes, NEW i \in 1 .. Len(lists[q]), heap[q].type \in Instances
       PROVE  /\ lists[q][i] \in Nodes
              /\ h[lists[q][i]].next = IF q = p /\ i = Len(s) THEN n ELSE heap[lists[q][i]].next
  <2>1. lists[q][i] \in Nodes /\ At(heap, lists, q, i, lists[q][i])
    BY <1>11, AtIs
  <2>2. ASSUME Len(s) # 0, lists[q][i] = last PROVE q = p /\ i = Len(s)
    <3>1. Len(s) \in 1 .. Len(s) /\ Len(s) \in 1 .. Len(lists[p])
      BY <1>2, <2>2
    <3>2. At(heap, lists, p, Len(s), last)
      BY <1>2, <3>1 DEF last
    <3> QED  BY <1>2, <2>1, <2>2, <3>1, <3>2 DEF Shape, Linked
  <2>3. q = p /\ i = Len(s) => Len(s) # 0 /\ lists[q][i] = last
    BY <1>2 DEF last
  <2> QED  BY <1>7, <2>1, <2>2, <2>3
<1>12. h[n].next = NULL
  <2>1. Len(s) # 0 => last # n
    <3>1. Len(s) # 0 => InList(heap, lists, last)
      BY <1>2 DEF last
    <3> QED  BY <1>4, <3>1
  <2> QED  BY <1>2, <1>4, <1>7, <2>1
<1>13. Chained(h, l)
  <2> SUFFICES ASSUME NEW q \in Nodes
               PROVE  IF h[q].type \in Instances
                      THEN /\ l[q] \in Seq(Nodes)
                           /\ h[q].child = IF Len(l[q]) = 0 THEN NULL ELSE l[q][1]
                           /\ \A i \in 1 .. Len(l[q]) :
                                h[l[q][i]].next = IF i = Len(l[q]) THEN NULL ELSE l[q][i + 1]
                      ELSE h[q].child = NULL
    BY DEF Chained
  <2>1. CASE q # p
    BY <1>5, <1>7, <1>11, <2>1 DEF Shape, Chained
  <2>2. CASE q = p
    <3>1. Len(l[p]) # 0 /\ h[p].child = l[p][1]
      BY <1>2, <1>6, <1>7
    <3>2. ASSUME NEW i \in 1 .. Len(l[p])
          PROVE  h[l[p][i]].next = IF i = Len(l[p]) THEN NULL ELSE l[p][i + 1]
      <4>1. CASE i = Len(s) + 1
        BY <1>6, <1>12, <4>1
      <4>2. CASE i = Len(s)
        <5>1. i \in 1 .. Len(lists[p]) /\ i # Len(l[p]) /\ l[p][i + 1] = n /\ l[p][i] = lists[p][i]
          BY <1>2, <1>6, <4>2
        <5> QED  BY <1>11, <4>2, <5>1
      <4>3. CASE i # Len(s) /\ i # Len(s) + 1
        <5>1. i \in 1 .. Len(s) /\ i + 1 \in 1 .. Len(s) /\ i \in 1 .. Len(lists[p])
          BY <1>2, <1>6, <4>3
        <5>2. l[p][i] = s[i] /\ l[p][i + 1] = s[i + 1] /\ i # Len(l[p])
          BY <1>2, <1>6, <5>1
        <5> QED  BY <1>2, <1>11, <4>3, <5>1, <5>2
      <4> QED  BY <4>1, <4>2, <4>3
    <3> QED  BY <1>6, <1>7, <2>2, <3>1, <3>2
  <2> QED  BY <2>1, <2>2
<1>14. Linked(h, l, mem, o)
  <2>1. ASSUME NEW q \in Nodes, NEW c \in Nodes, NEW i \in 1 .. Len(l[q]), At(h, l, q, i, c)
        PROVE  q < c /\ mem[q] # "unused" /\ mem[c] # "unused" /\ c \notin o
    <3>1. CASE At(heap, lists, q, i, c)
      <4>1. i \in 1 .. Len(lists[q])
        BY <3>1 DEF At
      <4> QED  BY <3>1, <4>1 DEF Shape, Linked, o
    <3>2. CASE q = p /\ i = Len(s) + 1 /\ c = n
      <4>1. mem[n] # "unused"
        BY <1>2 DEF Shape, Linked
      <4> QED  BY <3>2, <4>1 DEF o
    <3> QED  BY <1>9, <2>1, <3>1, <3>2
  <2>2. ASSUME NEW q \in Nodes, NEW r \in Nodes, NEW c \in Nodes, NEW i \in 1 .. Len(l[q]),
               NEW j \in 1 .. Len(l[r]), At(h, l, q, i, c), At(h, l, r, j, c)
        PROVE  q = r /\ i = j
    <3>1. CASE c = n
      <4>1. \A t \in Nodes : \A k : ~At(heap, lists, t, k, n)
        BY <1>4 DEF InList, At
      <4> QED  BY <1>9, <2>2, <3>1, <4>1
    <3>2. CASE c # n
      <4>1. /\ At(heap, lists, q, i, c) /\ i \in 1 .. Len(lists[q])
            /\ At(heap, lists, r, j, c) /\ j \in 1 .. Len(lists[r])
        BY <1>9, <2>2, <3>2 DEF At
      <4> QED  BY <4>1 DEF Shape, Linked
    <3> QED  BY <3>1, <3>2
  <2>3. ASSUME NEW c \in Nodes, ~InList(h, l, c)
        PROVE  h[c].next = NULL /\ (c = Root \/ c \in o \/ mem[c] = "unused")
    <3>1. ~InList(heap, lists, c) /\ c # n
      BY <1>10, <2>3
    <3>2. Len(s) # 0 => InList(heap, lists, last)
      BY <1>2 DEF last
    <3>3. h[c].next = heap[c].next
      BY <1>7, <3>1, <3>2
    <3> QED  BY <3>1, <3>3 DEF Shape, Linked, o
  <2>4. ASSUME NEW c \in Nodes, mem[c] = "unused"
        PROVE  l[c] = <<>> /\ h[c].type \in Instances /\ c \notin o /\ c # Root
    BY <1>5, <1>7, <2>4 DEF Shape, Linked, o
  <2>5. Root \notin o /\ h[Root].type \in Instances
    BY <1>7, Bounds DEF Shape, Linked, o
  <2> QED  BY <2>1, <2>2, <2>3, <2>4, <2>5 DEF Linked
<1> QED  BY <1>8, <1>13, <1>14 DEF Shape, Tip, h, l, o, last, s

-----------------------------------------------------------------------------
(* The initial tree, and the steps of building.                             *)

LEMMA StartShape == Init => JsonInv
<1> SUFFICES ASSUME Init PROVE JsonInv
  OBVIOUS
<1>1. /\ node = [n \in Nodes |-> Blank] /\ given = [n \in Nodes |-> <<>>] /\ loose = {}
      /\ memory = [n \in Nodes |-> IF n = Root THEN "live" ELSE "unused"] /\ pc = "build"
  BY DEF Init
<1>2. Len(<<>>) = 0 /\ 1 .. 0 = {} /\ <<>> \in Seq(Nodes)
  BY EmptySeq
<1>3. Blank \in NodeRecord /\ Blank.type \in Instances /\ Blank.next = NULL /\ Blank.child = NULL
  <2>1. NULL \in Pointers
    BY Bounds
  <2> QED  BY <2>1 DEF Blank, NodeRecord, Types, Texts, Instances
<1>4. ShapeType(node, given, memory, loose)
  BY <1>1, <1>3 DEF ShapeType, States
<1>5. Chained(node, given)
  BY <1>1, <1>2, <1>3 DEF Chained
<1>6. \A p, c \in Nodes : \A i : ~At(node, given, p, i, c)
  BY <1>1, <1>2 DEF At
<1>7. Linked(node, given, memory, loose)
  BY <1>1, <1>3, <1>6, Bounds DEF Linked
<1>8. Unreleased
  BY <1>1, Bounds DEF Unreleased, Nodes, Root
<1>9. StackType(stack)
  BY <1>2, EmptySeq DEF StackType, Init
<1> QED  BY <1>1, <1>4, <1>5, <1>7, <1>8, <1>9 DEF Shape, JsonInv

\* addChild finds the end of the list that given keeps.
LEMMA AddChildIs ==
    ASSUME Shape(node, given, memory, loose), NEW p \in Nodes, node[p].type \in Instances,
           NEW heap, NEW n
    PROVE  addChild(heap, p, n) = Tip(heap, given, p, n)
BY ChildrenAre DEF addChild, Last, Tip

\* A node that is in use now was not new, and what is new is not freed.
LEMMA StillUnreleased ==
    ASSUME Shape(node, given, memory, loose), Unreleased, New # NULL,
           memory' = [memory EXCEPT ![New] = "live"]
    PROVE  Unreleased'
<1>1. New \in Nodes /\ memory[New] = "unused" /\ \A k \in 1 .. New - 1 : memory[k] # "unused"
  BY NewIs
<1>2. memory \in [Nodes -> States]
  BY DEF Shape, ShapeType
<1>3. \A n \in Nodes : memory'[n] # "freed"
  BY <1>1, <1>2 DEF Unreleased
<1>4. ASSUME NEW n \in Nodes, NEW k \in Nodes, memory'[n] = "unused", n <= k
      PROVE  memory'[k] = "unused"
  <2>1. n # New /\ memory[n] = "unused" /\ memory[k] = "unused"
    BY <1>1, <1>2, <1>4 DEF Unreleased
  <2>2. k # New
    <3> SUFFICES ASSUME k = New PROVE FALSE
      OBVIOUS
    <3>1. n \in 1 .. New - 1
      BY <1>1, <1>4, <2>1 DEF Nodes
    <3> QED  BY <1>1, <2>1, <3>1
  <2> QED  BY <1>1, <1>2, <2>1, <2>2
<1> QED  BY <1>3, <1>4 DEF Unreleased

\* What a step of building reads: the parent and its children, all in use.
LEMMA BuildTouches ==
    ASSUME Shape(node, given, memory, loose), Unreleased, NEW p \in Nodes,
           memory[p] = "live", node[p].type \in Instances
    PROVE  \A c \in {p} \cup ToSet(Children(p)) : memory[c] = "live"
<1> SUFFICES ASSUME NEW c \in ToSet(Children(p)) PROVE memory[c] = "live"
  OBVIOUS
<1>1. Children(p) = given[p]
  BY ChildrenAre
<1>2. given[p] \in Seq(Nodes)
  BY DEF Shape, Chained
<1>3. PICK i \in 1 .. Len(given[p]) : c = given[p][i]
  BY <1>1, <1>2, LenProperties DEF ToSet
<1>4. c \in Nodes /\ At(node, given, p, i, c)
  BY <1>3, AtIs
<1>5. memory[c] # "unused"
  BY <1>3, <1>4 DEF Shape, Linked
<1> QED  BY <1>4, <1>5 DEF Unreleased, Shape, ShapeType, States

LEMMA AddKeeps ==
    ASSUME JsonInv, pc = "build", NEW p \in Nodes, memory[p] = "live", node[p].type \in Instances,
           NEW type \in {Json4cNumber, Json4cString}, NEW value \in Texts, NEW what,
           Add(p, type, value, what), UNCHANGED <<pc, loose, stack>>
    PROVE  JsonInv' /\ \A c \in touched' : memory[c] = "live"
<1> DEFINE r == [type |-> type, keyed |-> node[p].type = Json4cObject, value |-> value,
                 next |-> NULL, child |-> NULL]
           heap == [node EXCEPT ![New] = r]
           lists == [given EXCEPT ![New] = what]
           open == loose \cup {New}
<1>1. /\ New # NULL /\ node' = addChild(heap, p, New)
      /\ memory' = [memory EXCEPT ![New] = "live"]
      /\ given' = [given EXCEPT ![p] = Append(@, New), ![New] = what]
      /\ touched' = {p} \cup ToSet(Children(p))
  BY DEF Add
<1>2. Shape(node, given, memory, loose) /\ Unreleased
  BY DEF JsonInv
<1>3. New \in Nodes /\ memory[New] = "unused" /\ p # New
  BY <1>1, NewIs
<1>4. p < New
  <2> SUFFICES ASSUME ~(p < New) PROVE FALSE
    OBVIOUS
  <2>1. New <= p
    BY <1>3 DEF Nodes
  <2> QED  BY <1>2, <1>3, <2>1 DEF Unreleased
<1>5. r \in NodeRecord /\ r.next = NULL /\ r.child = NULL /\ r.type \notin Instances
  <2>1. NULL \in Pointers /\ (node[p].type = Json4cObject) \in BOOLEAN
    BY Bounds
  <2> QED  BY <2>1 DEF NodeRecord, Types, Instances, Json4cNumber, Json4cString, Json4cObject,
                     Json4cArray
<1>6. /\ New \notin loose /\ given[New] = <<>> /\ p \in DOMAIN given
      /\ given = [n \in Nodes |-> given[n]] /\ memory \in [Nodes -> States]
      /\ node \in [Nodes -> NodeRecord]
  BY <1>2, <1>3 DEF Shape, Linked, ShapeType
<1>7. Shape(heap, lists, memory', open)
  <2> HIDE DEF r
  <2> QED  BY <1>1, <1>2, <1>3, <1>5, Made
<1>8. /\ heap[p] = node[p] /\ lists[p] = given[p] /\ memory'[p] # "unused" /\ New \in open
      /\ New \in Nodes /\ given' = [lists EXCEPT ![p] = Append(@, New)] /\ open \ {New} = loose
  <2>1. given' = [lists EXCEPT ![p] = Append(@, New)]
    BY <1>1, <1>3, <1>6
  <2> QED  BY <1>1, <1>3, <1>6, <2>1
<1> HIDE DEF heap, lists, open, r
<1>9. addChild(heap, p, New) = Tip(heap, lists, p, New)
  BY <1>2, <1>8, AddChildIs DEF Tip
<1>10. Shape(node', given', memory', open \ {New})
  <2>1. heap[p].type \in Instances
    BY <1>8
  <2>2. Shape(Tip(heap, lists, p, New), [lists EXCEPT ![p] = Append(@, New)], memory', open \ {New})
    <3> DEFINE m == memory'
               n == New
    <3>1. n \in open /\ p < n /\ m[p] # "unused" /\ Shape(heap, lists, m, open)
      BY <1>4, <1>7, <1>8
    <3> HIDE DEF m, n
    <3>2. Shape(Tip(heap, lists, p, n), [lists EXCEPT ![p] = Append(@, n)], m, open \ {n})
      BY <2>1, <3>1, Attached
    <3> QED  BY <3>2 DEF m, n
  <2> QED  BY <1>1, <1>8, <1>9, <2>2
<1>11. Shape(node, given, memory, loose)'
  BY <1>8, <1>10
<1>12. Unreleased'
  BY <1>1, <1>2, StillUnreleased
<1>13. \A c \in touched' : memory[c] = "live"
  BY <1>1, <1>2, BuildTouches
<1> QED  BY <1>11, <1>12, <1>13 DEF JsonInv, StackType

LEMMA CreateKeeps ==
    ASSUME JsonInv, Create
    PROVE  JsonInv' /\ \A c \in touched' : memory[c] = "live"
<1>1. PICK type \in Instances :
          node' = [node EXCEPT ![New] =
              [type |-> type, keyed |-> FALSE, value |-> <<>>, next |-> NULL, child |-> NULL]]
  BY DEF Create
<1> DEFINE r == [type |-> type, keyed |-> FALSE, value |-> <<>>, next |-> NULL, child |-> NULL]
<1>2. /\ pc = "build" /\ pc' = pc /\ New # NULL /\ memory' = [memory EXCEPT ![New] = "live"]
      /\ loose' = loose \cup {New} /\ touched' = {} /\ given' = given
      /\ stack' = stack
  BY DEF Create
<1>3. Shape(node, given, memory, loose) /\ Unreleased
  BY <1>2 DEF JsonInv
<1>4. New \in Nodes /\ memory[New] = "unused"
  BY <1>2, NewIs
<1>5. r \in NodeRecord /\ r.next = NULL /\ r.child = NULL
  <2>1. NULL \in Pointers /\ <<>> \in Texts
    BY Bounds DEF Texts
  <2> QED  BY <2>1 DEF NodeRecord, Types, Instances
<1>6. given' = [given EXCEPT ![New] = <<>>]
  BY <1>2, <1>3, <1>4 DEF Shape, Linked, ShapeType
<1>7. Shape(node, given, memory, loose)'
  <2>1. node' = [node EXCEPT ![New] = r]
    BY <1>1
  <2> DEFINE none == <<>>
  <2>2. r.type \in Instances => none = <<>>
    OBVIOUS
  <2> HIDE DEF r
  <2>3. Shape([node EXCEPT ![New] = r], [given EXCEPT ![New] = none],
              [memory EXCEPT ![New] = "live"], loose \cup {New})
    <3> HIDE DEF none
    <3> QED  BY <1>3, <1>4, <1>5, <2>2, Made
  <2> QED  BY <1>2, <1>6, <2>1, <2>3
<1>8. Unreleased'
  BY <1>2, <1>3, StillUnreleased
<1> QED  BY <1>2, <1>7, <1>8 DEF JsonInv, StackType

\* The key that addInstanceToObject sets moves no pointer.
LEMMA KeyedShape ==
    ASSUME NEW heap, NEW lists, NEW mem, NEW open, Shape(heap, lists, mem, open),
           NEW n \in Nodes, NEW b \in BOOLEAN
    PROVE  Shape([heap EXCEPT ![n] = [@ EXCEPT !.keyed = b]], lists, mem, open)
<1> DEFINE h == [heap EXCEPT ![n] = [@ EXCEPT !.keyed = b]]
<1>1. /\ h \in [Nodes -> NodeRecord]
      /\ \A q \in Nodes : /\ h[q].type = heap[q].type /\ h[q].next = heap[q].next
                          /\ h[q].child = heap[q].child
  BY DEF Shape, ShapeType, NodeRecord
<1> HIDE DEF h
<1>2. ShapeType(h, lists, mem, open)
  BY <1>1 DEF Shape, ShapeType
<1>3. \A p \in Nodes : \A i, c : At(h, lists, p, i, c) <=> At(heap, lists, p, i, c)
  BY <1>1 DEF At
<1>4. \A c : InList(h, lists, c) <=> InList(heap, lists, c)
  BY <1>3 DEF InList
<1>5. Chained(h, lists)
  <2>1. \A p \in Nodes : \A i \in 1 .. Len(lists[p]) :
            heap[p].type \in Instances => lists[p][i] \in Nodes
    BY AtIs
  <2> QED  BY <1>1, <2>1 DEF Shape, Chained
<1>6. Linked(h, lists, mem, open)
  <2>1. Linked(heap, lists, mem, open)
    BY DEF Shape
  <2>2. ASSUME NEW p \in Nodes, NEW c \in Nodes, NEW i \in 1 .. Len(lists[p]), At(h, lists, p, i, c)
        PROVE  p < c /\ mem[p] # "unused" /\ mem[c] # "unused" /\ c \notin open
    BY <1>3, <2>1, <2>2 DEF Linked
  <2>3. ASSUME NEW p \in Nodes, NEW q \in Nodes, NEW c \in Nodes, NEW i \in 1 .. Len(lists[p]),
               NEW j \in 1 .. Len(lists[q]), At(h, lists, p, i, c), At(h, lists, q, j, c)
        PROVE  p = q /\ i = j
    BY <1>3, <2>1, <2>3 DEF Linked
  <2>4. ASSUME NEW c \in Nodes, ~InList(h, lists, c)
        PROVE  h[c].next = NULL /\ (c = Root \/ c \in open \/ mem[c] = "unused")
    BY <1>1, <1>4, <2>1, <2>4 DEF Linked
  <2>5. ASSUME NEW c \in Nodes, mem[c] = "unused"
        PROVE  lists[c] = <<>> /\ h[c].type \in Instances /\ c \notin open /\ c # Root
    BY <1>1, <2>1, <2>5 DEF Linked
  <2>6. Root \notin open /\ h[Root].type \in Instances
    BY <1>1, <2>1, Bounds DEF Linked
  <2> QED  BY <2>2, <2>3, <2>4, <2>5, <2>6 DEF Linked
<1> QED  BY <1>2, <1>5, <1>6 DEF Shape, h

LEMMA AddInstanceKeeps ==
    ASSUME JsonInv, AddInstance
    PROVE  JsonInv' /\ \A c \in touched' : memory[c] = "live"
<1>1. PICK n \in loose, p \in Nodes :
        /\ p < n /\ memory[p] = "live" /\ node[p].type \in Instances
        /\ node' = addChild([node EXCEPT ![n] = [@ EXCEPT !.keyed = node[p].type = Json4cObject]], p, n)
        /\ loose' = loose \ {n}
        /\ given' = [given EXCEPT ![p] = Append(@, n)]
        /\ touched' = {n, p} \cup ToSet(Children(p))
  BY DEF AddInstance
<1> DEFINE b == (node[p].type = Json4cObject)
           heap == [node EXCEPT ![n] = [@ EXCEPT !.keyed = b]]
<1>2. /\ pc = "build" /\ pc' = pc /\ memory' = memory /\ stack' = stack
      /\ Shape(node, given, memory, loose) /\ Unreleased
  BY DEF AddInstance, JsonInv
<1>3. n \in Nodes /\ memory[n] = "live" /\ n # p
  BY <1>1, <1>2, Bounds DEF Shape, ShapeType, Linked, Unreleased, States
<1>4. Shape(heap, given, memory, loose) /\ heap[p] = node[p]
  <2>1. b \in BOOLEAN
    OBVIOUS
  <2>2. heap[p] = node[p]
    BY <1>1, <1>2, <1>3 DEF Shape, ShapeType
  <2> HIDE DEF b
  <2> QED  BY <1>2, <1>3, <2>1, <2>2, KeyedShape
<1>5. node' = addChild(heap, p, n)
  BY <1>1
<1> HIDE DEF heap, b
<1>6. addChild(heap, p, n) = Tip(heap, given, p, n)
  BY <1>1, <1>2, AddChildIs
<1>7. Shape(node', given', memory, loose \ {n})
  <2>1. heap[p].type \in Instances /\ memory[p] # "unused"
    BY <1>1, <1>4
  <2>2. Shape(Tip(heap, given, p, n), [given EXCEPT ![p] = Append(@, n)], memory, loose \ {n})
    BY <1>1, <1>4, <2>1, Attached
  <2> QED  BY <1>1, <1>5, <1>6, <2>2
<1>8. Shape(node, given, memory, loose)'
  BY <1>1, <1>2, <1>7
<1>9. Unreleased'
  BY <1>2 DEF Unreleased
<1>10. \A c \in touched' : memory[c] = "live"
  BY <1>1, <1>2, <1>3, BuildTouches
<1> QED  BY <1>2, <1>8, <1>9, <1>10 DEF JsonInv, StackType

-----------------------------------------------------------------------------
(* The stack of calls.                                                      *)

LEMMA Pushed ==
    ASSUME NEW calls, StackType(calls), NEW n \in Nodes, NEW c \in Pointers, NEW r
    PROVE  LET call == [node |-> n, child |-> c, ret |-> r]
           IN  /\ StackType(Append(calls, call)) /\ Len(Append(calls, call)) = Len(calls) + 1
               /\ \A i \in 1 .. Len(calls) : Append(calls, call)[i] = calls[i]
               /\ Append(calls, call)[Len(calls) + 1] = call
<1> DEFINE call == [node |-> n, child |-> c, ret |-> r]
<1>1. PICK R : calls \in Seq([node: Nodes, child: Pointers, ret: R])
  BY DEF StackType
<1> DEFINE More == [node: Nodes, child: Pointers, ret: R \cup {r}]
<1>2. call \in More /\ [node: Nodes, child: Pointers, ret: R] \subseteq More
  OBVIOUS
<1>3. calls \in Seq(More)
  <2> HIDE DEF More
  <2> QED  BY <1>1, <1>2, SeqMonotonic
<1>4. /\ Append(calls, call) \in Seq(More) /\ Len(Append(calls, call)) = Len(calls) + 1
      /\ \A i \in 1 .. Len(calls) : Append(calls, call)[i] = calls[i]
      /\ Append(calls, call)[Len(calls) + 1] = call
  <2> HIDE DEF More, call
  <2> QED  BY <1>2, <1>3, AppendProperties
<1>5. StackType(Append(calls, call))
  <2>1. Append(calls, call) \in Seq([node: Nodes, child: Pointers, ret: R \cup {r}])
    BY <1>4
  <2> HIDE DEF call
  <2> QED  BY <2>1, Zenon DEF StackType
<1> QED  BY <1>4, <1>5

LEMMA CallIs ==
    ASSUME NEW calls, StackType(calls)
    PROVE  /\ Len(calls) \in Nat
           /\ calls # <<>> <=> Len(calls) >= 1
           /\ \A i \in 1 .. Len(calls) :
                  /\ calls[i].node \in Nodes /\ calls[i].child \in Pointers
                  /\ calls[i] = [node |-> calls[i].node, child |-> calls[i].child,
                                 ret |-> calls[i].ret]
<1>1. PICK R : calls \in Seq([node: Nodes, child: Pointers, ret: R])
  BY DEF StackType
<1> DEFINE S == [node: Nodes, child: Pointers, ret: R]
<1>2. /\ Len(calls) \in Nat /\ (calls # <<>> <=> Len(calls) >= 1)
      /\ \A i \in 1 .. Len(calls) : calls[i] \in S
  <2>1. calls \in Seq(S)
    BY <1>1
  <2> HIDE DEF S
  <2> QED  BY <2>1, LenProperties, EmptySeq, ElementOfSeq
<1> QED  BY <1>2

LEMMA Popped ==
    ASSUME NEW calls, StackType(calls), calls # <<>>
    PROVE  /\ StackType(Front(calls)) /\ Len(Front(calls)) = Len(calls) - 1
           /\ \A i \in 1 .. Len(calls) - 1 : Front(calls)[i] = calls[i]
           /\ Last(calls) = calls[Len(calls)] /\ Len(calls) \in 1 .. Len(calls)
<1>1. PICK R : calls \in Seq([node: Nodes, child: Pointers, ret: R])
  BY DEF StackType
<1> DEFINE S == [node: Nodes, child: Pointers, ret: R]
<1>2. /\ Front(calls) \in Seq(S) /\ Len(Front(calls)) = Len(calls) - 1
      /\ \A i \in 1 .. Len(calls) - 1 : Front(calls)[i] = calls[i]
      /\ Last(calls) = calls[Len(calls)] /\ Len(calls) \in Nat /\ Len(calls) >= 1
  <2>1. calls \in Seq(S)
    BY <1>1
  <2> HIDE DEF S
  <2> QED  BY <2>1, FrontLast
<1>3. StackType(Front(calls))
  BY <1>2, Zenon DEF StackType
<1>4. Len(calls) \in 1 .. Len(calls)
  BY <1>2
<1> QED  BY <1>2, <1>3, <1>4

\* The call on top with its child pointer moved on.
LEMMA Moved ==
    ASSUME NEW calls, StackType(calls), calls # <<>>, NEW c \in Pointers, NEW r
    PROVE  LET call == [node |-> Last(calls).node, child |-> c, ret |-> r]
               new == Append(Front(calls), call)
           IN  /\ StackType(new) /\ Len(new) = Len(calls)
               /\ \A i \in 1 .. Len(calls) - 1 : new[i] = calls[i]
               /\ new[Len(calls)] = call
<1>1. /\ StackType(Front(calls)) /\ Len(Front(calls)) = Len(calls) - 1
      /\ \A i \in 1 .. Len(calls) - 1 : Front(calls)[i] = calls[i]
      /\ Last(calls) = calls[Len(calls)] /\ Len(calls) \in 1 .. Len(calls)
  BY Popped
<1>2. Last(calls).node \in Nodes /\ Len(calls) \in Nat /\ Len(calls) - 1 + 1 = Len(calls)
  <2>1. Len(calls) \in Nat /\ \A i \in 1 .. Len(calls) : calls[i].node \in Nodes
    BY CallIs
  <2> QED  BY <1>1, <2>1
<1> DEFINE n == Last(calls).node
           front == Front(calls)
<1>3. n \in Nodes /\ StackType(front) /\ Len(front) = Len(calls) - 1
  BY <1>1, <1>2
<1> HIDE DEF n, front
<1>4. LET call == [node |-> n, child |-> c, ret |-> r]
      IN  /\ StackType(Append(front, call)) /\ Len(Append(front, call)) = Len(front) + 1
          /\ \A i \in 1 .. Len(front) : Append(front, call)[i] = front[i]
          /\ Append(front, call)[Len(front) + 1] = call
  BY <1>3, Pushed
<1> QED  BY <1>1, <1>2, <1>3, <1>4 DEF n, front

-----------------------------------------------------------------------------
(* Walking the finished tree.                                               *)

LEMMA Walk ==
    ASSUME Shape(node, given, memory, loose), NEW n \in Nodes
    PROVE  /\ node[n].child = NULL \/ Used(node[n].child)
           /\ node[n].next = NULL \/ Used(node[n].next)
           /\ node[n].child \in Pointers /\ node[n].next \in Pointers
<1>1. node[n] \in NodeRecord /\ node[n].child \in Pointers /\ node[n].next \in Pointers
  BY DEF Shape, ShapeType, NodeRecord
<1>2. ASSUME NEW p \in Nodes, node[p].type \in Instances, NEW i \in 1 .. Len(given[p])
      PROVE  Used(given[p][i])
  <2>1. given[p][i] \in Nodes /\ At(node, given, p, i, given[p][i])
    BY <1>2, AtIs
  <2> QED  BY <2>1 DEF Shape, Linked, Used
<1>3. node[n].child = NULL \/ Used(node[n].child)
  <2>1. CASE node[n].type \notin Instances
    BY <2>1 DEF Shape, Chained
  <2>2. CASE node[n].type \in Instances /\ Len(given[n]) # 0
    <3>1. given[n] \in Seq(Nodes) /\ node[n].child = given[n][1]
      BY <2>2 DEF Shape, Chained
    <3>2. 1 \in 1 .. Len(given[n])
      BY <2>2, <3>1, LenProperties
    <3> QED  BY <1>2, <2>2, <3>1, <3>2
  <2>3. CASE node[n].type \in Instances /\ Len(given[n]) = 0
    BY <2>3 DEF Shape, Chained
  <2> QED  BY <2>1, <2>2, <2>3
<1>4. node[n].next = NULL \/ Used(node[n].next)
  <2>1. CASE ~InList(node, given, n)
    BY <2>1 DEF Shape, Linked
  <2>2. CASE InList(node, given, n)
    <3>1. PICK p \in Nodes : \E i \in 1 .. Len(given[p]) : At(node, given, p, i, n)
      BY <2>2 DEF InList
    <3>2. PICK i \in 1 .. Len(given[p]) : At(node, given, p, i, n)
      BY <3>1
    <3>3. /\ node[p].type \in Instances /\ given[p][i] = n /\ given[p] \in Seq(Nodes)
          /\ node[n].next = IF i = Len(given[p]) THEN NULL ELSE given[p][i + 1]
      BY <3>2 DEF At, Shape, Chained
    <3>4. i # Len(given[p]) => i + 1 \in 1 .. Len(given[p])
      BY <3>3, LenProperties
    <3> QED  BY <1>2, <3>3, <3>4
  <2> QED  BY <2>1, <2>2
<1> QED  BY <1>1, <1>3, <1>4

LEMMA UsedIsLive ==
    ASSUME Shape(node, given, memory, loose), Unreleased, NEW n, Used(n)
    PROVE  n \in Nodes /\ memory[n] = "live"
BY DEF Shape, ShapeType, States, Unreleased, Used

\* A child of p, at a place of its list.
LEMMA ChildAt ==
    ASSUME Shape(node, given, memory, loose), NEW p \in Nodes, node[p].type \in Instances,
           NEW i \in 1 .. Len(given[p])
    PROVE  /\ given[p] \in Seq(Nodes) /\ Len(given[p]) \in Nat
           /\ given[p][i] \in Nodes /\ At(node, given, p, i, given[p][i])
           /\ p < given[p][i] /\ Used(given[p][i]) /\ Used(p)
           /\ node[given[p][i]].next = IF i = Len(given[p]) THEN NULL ELSE given[p][i + 1]
<1>1. /\ given[p] \in Seq(Nodes) /\ Len(given[p]) \in Nat
      /\ given[p][i] \in Nodes /\ At(node, given, p, i, given[p][i])
  BY AtIs
<1>2. p < given[p][i] /\ Used(given[p][i]) /\ Used(p)
  BY <1>1 DEF Shape, Linked, Used
<1> QED  BY <1>1, <1>2 DEF Shape, Chained

\* Two places with the same child are one.
LEMMA OnePlace ==
    ASSUME Shape(node, given, memory, loose), NEW p \in Nodes, NEW q \in Nodes,
           node[p].type \in Instances, node[q].type \in Instances,
           NEW i \in 1 .. Len(given[p]), NEW j \in 1 .. Len(given[q]), given[p][i] = given[q][j]
    PROVE  p = q /\ i = j
<1>1. At(node, given, p, i, given[p][i]) /\ At(node, given, q, j, given[p][i]) /\ given[p][i] \in Nodes
  BY AtIs
<1> QED  BY <1>1 DEF Shape, Linked

-----------------------------------------------------------------------------
(* jToString.                                                               *)

LEMMA Single ==
    ASSUME NEW n \in Nodes, NEW c \in Pointers, NEW r
    PROVE  LET new == <<[node |-> n, child |-> c, ret |-> r]>>
           IN  /\ StackType(new) /\ new # <<>> /\ Len(new) = 1
               /\ new[1] = [node |-> n, child |-> c, ret |-> r]
<1> DEFINE call == [node |-> n, child |-> c, ret |-> r]
           S == [node: Nodes, child: Pointers, ret: {r}]
<1>1. call \in S
  OBVIOUS
<1>2. <<call>> \in Seq(S)
  <2> HIDE DEF call, S
  <2> QED  BY <1>1
<1>3. StackType(<<call>>)
  <2>1. <<call>> \in Seq([node: Nodes, child: Pointers, ret: {r}])
    BY <1>2
  <2> HIDE DEF call
  <2> QED  BY <2>1, Zenon DEF StackType
<1>4. Len(<<call>>) = 1 /\ <<call>>[1] = call /\ <<call>> # <<>>
  <2> HIDE DEF call
  <2> QED  OBVIOUS
<1> QED  BY <1>3, <1>4

\* The call on top goes on to its next child.
LEMMA PrintMoves ==
    ASSUME Shape(node, given, memory, loose), NEW calls, StackType(calls), calls # <<>>,
           PrintInv(calls), Last(calls).child # NULL, NEW r
    PROVE  LET call == [node |-> Last(calls).node, child |-> node[Last(calls).child].next, ret |-> r]
               new == Append(Front(calls), call)
           IN  StackType(new) /\ new # <<>> /\ PrintInv(new)
<1> DEFINE c == node[Last(calls).child].next
           call == [node |-> Last(calls).node, child |-> c, ret |-> r]
           new == Append(Front(calls), call)
<1>1. Last(calls) = calls[Len(calls)] /\ Len(calls) \in 1 .. Len(calls) /\ Len(calls) \in Nat
  BY Popped, CallIs
<1>2. Used(Last(calls).child) /\ Used(Last(calls).node)
  BY <1>1 DEF PrintInv
<1>3. c \in Pointers /\ (c = NULL \/ Used(c))
  BY <1>2, Walk DEF Used
<1>4. /\ StackType(new) /\ Len(new) = Len(calls)
      /\ \A i \in 1 .. Len(calls) - 1 : new[i] = calls[i]
      /\ new[Len(calls)] = call
  <2> HIDE DEF c
  <2> QED  BY <1>3, Moved
<1> HIDE DEF new, c
<1>5. new # <<>>
  <2>1. Len(new) >= 1
    BY <1>1, <1>4
  <2> QED  BY <1>4, <2>1, CallIs
<1>6. PrintInv(new)
  <2> SUFFICES ASSUME NEW i \in 1 .. Len(new)
               PROVE  /\ Used(new[i].node)
                      /\ new[i].child = NULL \/ Used(new[i].child)
                      /\ i < Len(new) => new[i].child # NULL
    BY DEF PrintInv
  <2>1. CASE i = Len(calls)
    BY <1>1, <1>2, <1>3, <1>4, <2>1
  <2>2. CASE i # Len(calls)
    <3>1. i \in 1 .. Len(calls) - 1 /\ i \in 1 .. Len(calls) /\ i < Len(calls)
      BY <1>1, <1>4, <2>2
    <3> QED  BY <1>4, <3>1 DEF PrintInv
  <2> QED  BY <2>1, <2>2
<1> QED  BY <1>4, <1>5, <1>6 DEF new, c

\* The tree and the phase's facts are as they were.
LEMMA PrintStep ==
    ASSUME JsonInv, pc = "print", pc' = pc, UNCHANGED tree,
           StackType(stack'), stack' # <<>>, PrintInv(stack')
    PROVE  JsonInv'
<1>1. node' = node /\ memory' = memory /\ loose' = loose /\ given' = given
  BY DEF tree
<1>2. /\ Shape(node, given, memory, loose) /\ Unreleased /\ loose = {} /\ pc' = "print"
  BY DEF JsonInv
<1>3. Unreleased' /\ Shape(node, given, memory, loose)'
  BY <1>1, <1>2 DEF Unreleased
<1>4. PrintInv(stack)'
  BY <1>1 DEF PrintInv, Used
<1> QED  BY <1>1, <1>2, <1>3, <1>4 DEF JsonInv

LEMMA ToStringKeeps ==
    ASSUME JsonInv, jToString
    PROVE  JsonInv' /\ \A c \in touched' : memory[c] = "live"
<1>1. /\ pc = "build" /\ loose = {} /\ pc' = "print" /\ touched' = {Root}
      /\ stack' = <<ToStringCall(Root)>>
      /\ node' = node /\ memory' = memory /\ loose' = loose /\ given' = given
  BY DEF jToString, tree
<1>2. Shape(node, given, memory, loose) /\ Unreleased
  BY <1>1 DEF JsonInv
<1>3. Used(Root) /\ Root \in Nodes
  BY <1>2, Bounds DEF Shape, Linked, Used
<1>4. node[Root].child \in Pointers /\ (node[Root].child = NULL \/ Used(node[Root].child))
  BY <1>2, <1>3, Walk
<1> DEFINE call == [node |-> Root, child |-> node[Root].child, ret |-> Opening(Root)]
<1>5. /\ stack' = <<call>> /\ StackType(<<call>>) /\ <<call>> # <<>> /\ Len(<<call>>) = 1
      /\ <<call>>[1] = call
  <2> DEFINE r == Opening(Root)
             c == node[Root].child
  <2>1. c \in Pointers
    BY <1>4
  <2>2. stack' = <<call>>
    BY <1>1 DEF ToStringCall
  <2> HIDE DEF r, c
  <2>3. LET new == <<[node |-> Root, child |-> c, ret |-> r]>>
        IN  /\ StackType(new) /\ new # <<>> /\ Len(new) = 1
            /\ new[1] = [node |-> Root, child |-> c, ret |-> r]
    BY <1>3, <2>1, Single
  <2> QED  BY <2>2, <2>3 DEF r, c
<1>6. PrintInv(stack')
  <2>1. call.node = Root /\ call.child = node[Root].child
    OBVIOUS
  <2> HIDE DEF call
  <2> QED  BY <1>3, <1>4, <1>5, <2>1 DEF PrintInv
<1>7. Shape(node, given, memory, loose)' /\ Unreleased'
  BY <1>1, <1>2 DEF Unreleased
<1>8. PrintInv(stack)' /\ StackType(stack)' /\ stack' # <<>>
  <2>1. PrintInv(stack)'
    BY <1>1, <1>6 DEF PrintInv, Used
  <2> HIDE DEF call
  <2> QED  BY <1>5, <2>1
<1>9. \A c \in touched' : memory[c] = "live"
  BY <1>1, <1>2, <1>3, UsedIsLive
<1> QED  BY <1>1, <1>7, <1>8, <1>9 DEF JsonInv

LEMMA PrintTop ==
    ASSUME JsonInv, pc = "print"
    PROVE  /\ Shape(node, given, memory, loose) /\ Unreleased /\ loose = {}
           /\ StackType(stack) /\ stack # <<>> /\ PrintInv(stack)
           /\ Last(stack) = stack[Len(stack)] /\ Len(stack) \in 1 .. Len(stack) /\ Len(stack) \in Nat
           /\ Used(Last(stack).node)
           /\ Last(stack).child = NULL \/ Used(Last(stack).child)
<1>1. /\ Shape(node, given, memory, loose) /\ Unreleased /\ loose = {}
      /\ StackType(stack) /\ stack # <<>> /\ PrintInv(stack)
  BY DEF JsonInv
<1>2. Last(stack) = stack[Len(stack)] /\ Len(stack) \in 1 .. Len(stack)
  BY <1>1, Popped
<1>3. Len(stack) \in Nat
  BY <1>1, CallIs
<1>4. Used(stack[Len(stack)].node)
      /\ (stack[Len(stack)].child = NULL \/ Used(stack[Len(stack)].child))
  BY <1>1, <1>2 DEF PrintInv
<1> QED  BY <1>1, <1>2, <1>3, <1>4

LEMMA ScalarKeeps ==
    ASSUME JsonInv, ScalarToString
    PROVE  JsonInv' /\ \A c \in touched' : memory[c] = "live"
<1> DEFINE call == Last(stack)
<1>1. /\ pc = "print" /\ pc' = pc /\ UNCHANGED tree /\ call.child # NULL
      /\ touched' = {call.child}
      /\ \E buffer : stack' = Append(Front(stack), Appended(call, buffer))
  BY DEF ScalarToString
<1>2. PICK buffer : stack' = Append(Front(stack), Appended(call, buffer))
  BY <1>1
<1>3. /\ Shape(node, given, memory, loose) /\ Unreleased
      /\ StackType(stack) /\ stack # <<>> /\ PrintInv(stack)
      /\ Used(call.child)
  BY <1>1, PrintTop
<1> DEFINE r == kstrncat(kstrncat(call.ret, buffer), <<",">>)
<1>4. Appended(call, buffer) = [node |-> call.node, child |-> node[call.child].next, ret |-> r]
  BY DEF Appended
<1> HIDE DEF r
<1>5. StackType(stack') /\ stack' # <<>> /\ PrintInv(stack')
  <2>1. LET new == Append(Front(stack), [node |-> Last(stack).node,
                                         child |-> node[Last(stack).child].next, ret |-> r])
        IN  StackType(new) /\ new # <<>> /\ PrintInv(new)
    BY <1>1, <1>3, PrintMoves
  <2> QED  BY <1>2, <1>4, <2>1
<1>6. JsonInv'
  BY <1>1, <1>5, PrintStep
<1> QED  BY <1>1, <1>3, <1>6, UsedIsLive

LEMMA InstanceKeeps ==
    ASSUME JsonInv, InstanceToString
    PROVE  JsonInv' /\ \A c \in touched' : memory[c] = "live"
<1> DEFINE n == Last(stack).child
           call == [node |-> n, child |-> node[n].child, ret |-> Opening(n)]
           new == Append(stack, call)
<1>1. /\ pc = "print" /\ pc' = pc /\ UNCHANGED tree /\ n # NULL
      /\ touched' = {n} /\ stack' = new
  BY DEF InstanceToString, ToStringCall
<1>2. /\ Shape(node, given, memory, loose) /\ Unreleased
      /\ StackType(stack) /\ stack # <<>> /\ PrintInv(stack) /\ Len(stack) \in Nat
      /\ n = stack[Len(stack)].child /\ Used(n)
  BY <1>1, PrintTop
<1>3. n \in Nodes /\ node[n].child \in Pointers /\ (node[n].child = NULL \/ Used(node[n].child))
  BY <1>2, Walk DEF Used
<1>4. /\ StackType(new) /\ Len(new) = Len(stack) + 1
      /\ \A i \in 1 .. Len(stack) : new[i] = stack[i]
      /\ new[Len(stack) + 1] = call
  <2> DEFINE m == n
             c == node[n].child
             r == Opening(n)
  <2>1. m \in Nodes /\ c \in Pointers
    BY <1>3
  <2> HIDE DEF m, c, r
  <2>2. LET it == [node |-> m, child |-> c, ret |-> r]
        IN  /\ StackType(Append(stack, it)) /\ Len(Append(stack, it)) = Len(stack) + 1
            /\ \A i \in 1 .. Len(stack) : Append(stack, it)[i] = stack[i]
            /\ Append(stack, it)[Len(stack) + 1] = it
    BY <1>2, <2>1, Pushed
  <2> QED  BY <2>2 DEF m, c, r
<1>5. call.node = n /\ call.child = node[n].child
  OBVIOUS
<1> HIDE DEF n, call, new
<1>6. PrintInv(new)
  <2> SUFFICES ASSUME NEW i \in 1 .. Len(new)
               PROVE  /\ Used(new[i].node)
                      /\ new[i].child = NULL \/ Used(new[i].child)
                      /\ i < Len(new) => new[i].child # NULL
    BY DEF PrintInv
  <2>1. CASE i = Len(stack) + 1
    BY <1>2, <1>3, <1>4, <1>5, <2>1
  <2>2. CASE i = Len(stack)
    <3>1. i \in 1 .. Len(stack)
      BY <1>2, <1>4, <2>2
    <3> QED  BY <1>1, <1>2, <1>4, <2>2, <3>1 DEF PrintInv
  <2>3. CASE i # Len(stack) + 1 /\ i # Len(stack)
    <3>1. i \in 1 .. Len(stack) /\ i < Len(stack)
      BY <1>2, <1>4, <2>3
    <3> QED  BY <1>2, <1>4, <3>1 DEF PrintInv
  <2> QED  BY <2>1, <2>2, <2>3
<1>7. new # <<>>
  <2>1. Len(new) >= 1
    BY <1>2, <1>4
  <2> QED  BY <1>4, <2>1, CallIs
<1>8. JsonInv'
  BY <1>1, <1>4, <1>6, <1>7, PrintStep
<1> QED  BY <1>1, <1>2, <1>8, UsedIsLive

LEMMA FrontPrints ==
    ASSUME NEW calls, StackType(calls), calls # <<>>, PrintInv(calls), Front(calls) # <<>>
    PROVE  /\ StackType(Front(calls)) /\ PrintInv(Front(calls)) /\ Last(Front(calls)).child # NULL
<1> DEFINE rest == Front(calls)
<1>1. /\ StackType(rest) /\ Len(rest) = Len(calls) - 1 /\ Len(calls) \in 1 .. Len(calls)
      /\ \A i \in 1 .. Len(calls) - 1 : rest[i] = calls[i]
  BY Popped
<1> HIDE DEF rest
<1>2. /\ Last(rest) = rest[Len(rest)] /\ Len(rest) \in 1 .. Len(rest) /\ Len(rest) \in Nat
  <2>1. rest # <<>>
    BY DEF rest
  <2>2. Last(rest) = rest[Len(rest)] /\ Len(rest) \in 1 .. Len(rest)
    BY <1>1, <2>1, Popped
  <2>3. Len(rest) \in Nat
    BY <1>1, CallIs
  <2> QED  BY <2>2, <2>3
<1>3. \A i \in 1 .. Len(rest) : i \in 1 .. Len(calls) - 1 /\ i \in 1 .. Len(calls) /\ i < Len(calls)
  BY <1>1, <1>2
<1>4. ASSUME NEW i \in 1 .. Len(rest)
      PROVE  Used(rest[i].node) /\ rest[i].child # NULL /\ Used(rest[i].child)
  BY <1>1, <1>3 DEF PrintInv
<1>5. PrintInv(rest) /\ Last(rest).child # NULL
  BY <1>2, <1>4 DEF PrintInv
<1> QED  BY <1>1, <1>2, <1>5 DEF rest

\* A text that is not the root's goes to the call below, which goes on.
LEMMA ReturnUpKeeps ==
    ASSUME JsonInv, ReturnString, Front(stack) # <<>>
    PROVE  JsonInv' /\ \A c \in touched' : memory[c] = "live"
<1> DEFINE rest == Front(stack)
           call == Last(rest)
           buffer == Closed(Last(stack))
           r == kstrncat(kstrncat(call.ret, buffer), <<",">>)
<1>1. /\ pc = "print" /\ pc' = pc /\ UNCHANGED tree
      /\ stack' = Append(Front(rest), Appended(call, buffer)) /\ touched' = {Last(stack).node}
  BY DEF ReturnString
<1>2. /\ Shape(node, given, memory, loose) /\ Unreleased
      /\ StackType(stack) /\ stack # <<>> /\ PrintInv(stack) /\ Used(Last(stack).node)
  BY <1>1, PrintTop
<1>3. /\ StackType(rest) /\ PrintInv(rest) /\ call.child # NULL /\ rest # <<>>
  BY <1>2, FrontPrints
<1> HIDE DEF rest, buffer
<1>4. Appended(call, buffer) = [node |-> call.node, child |-> node[call.child].next, ret |-> r]
  BY DEF Appended
<1> HIDE DEF r
<1>5. StackType(stack') /\ stack' # <<>> /\ PrintInv(stack')
  <2>1. LET new == Append(Front(rest), [node |-> Last(rest).node,
                                        child |-> node[Last(rest).child].next, ret |-> r])
        IN  StackType(new) /\ new # <<>> /\ PrintInv(new)
    BY <1>2, <1>3, PrintMoves
  <2> QED  BY <1>1, <1>4, <2>1
<1>6. JsonInv'
  BY <1>1, <1>5, PrintStep
<1> QED  BY <1>1, <1>2, <1>6, UsedIsLive

-----------------------------------------------------------------------------
(* jFree.                                                                   *)

\* The facts about jFree are about the tree, which it does not change.
LEMMA FreeStep ==
    ASSUME Shape(node, given, memory, loose), loose = {}, UNCHANGED <<node, loose, given>>,
           memory' \in [Nodes -> States],
           \A n \in Nodes : memory[n] = "unused" <=> memory'[n] = "unused",
           StackType(stack'), FreeInv(stack', memory'),
           \/ pc' = "free" /\ stack' # <<>>
           \/ pc' = "done" /\ stack' = <<>>
    PROVE  JsonInv'
<1>1. Shape(node, given, memory', loose)
  <2>1. ShapeType(node, given, memory', loose)
    BY DEF Shape, ShapeType
  <2>2. Linked(node, given, memory', loose)
    <3>1. Linked(node, given, memory, loose)
      BY DEF Shape
    <3>2. ASSUME NEW p \in Nodes, NEW c \in Nodes, NEW i \in 1 .. Len(given[p]),
                 At(node, given, p, i, c)
          PROVE  p < c /\ memory'[p] # "unused" /\ memory'[c] # "unused" /\ c \notin loose
      BY <3>1, <3>2 DEF Linked
    <3>3. \A c \in Nodes : ~InList(node, given, c) =>
              node[c].next = NULL /\ (c = Root \/ c \in loose \/ memory'[c] = "unused")
      BY <3>1 DEF Linked
    <3>4. \A n \in Nodes : memory'[n] = "unused" =>
              given[n] = <<>> /\ node[n].type \in Instances /\ n \notin loose /\ n # Root
      BY <3>1 DEF Linked
    <3> QED  BY <3>1, <3>2, <3>3, <3>4 DEF Linked
  <2> QED  BY <2>1, <2>2 DEF Shape
<1>2. FreeInv(stack, memory)'
  BY DEF FreeInv, FreeAt, FreeRest, OnStack, Below
<1> QED  BY <1>1, <1>2 DEF JsonInv

LEMMA BelowIs ==
    ASSUME Shape(node, given, memory, loose), NEW p \in Nodes
    PROVE  /\ Below(p) \in Nat
           /\ \A i \in 1 .. Below(p) : node[p].type \in Instances /\ i \in 1 .. Len(given[p])
           /\ node[p].child = IF Below(p) = 0 THEN NULL ELSE given[p][1]
<1>1. CASE node[p].type \in Instances
  <2>1. given[p] \in Seq(Nodes) /\ Below(p) = Len(given[p])
    BY <1>1 DEF Shape, Chained, Below
  <2> QED  BY <1>1, <2>1, LenProperties DEF Shape, Chained
<1>2. CASE node[p].type \notin Instances
  BY <1>2 DEF Shape, Chained, Below
<1> QED  BY <1>1, <1>2

\* The call of jFree for a node that no call has come to.
LEMMA FreshCall ==
    ASSUME Shape(node, given, memory, loose), NEW calls, NEW mem, NEW i \in Nat, i = Len(calls),
           NEW p \in Nodes, calls[i].node = p, calls[i].child = node[p].child,
           \A j \in 1 .. Below(p) : mem[given[p][j]] = "live"
    PROVE  \E k \in 1 .. Below(p) + 1 : FreeAt(calls, mem, i, k)
<1>1. Below(p) \in Nat /\ node[p].child = IF Below(p) = 0 THEN NULL ELSE given[p][1]
  BY BelowIs
<1>2. 1 \in 1 .. Below(p) + 1
  BY <1>1
<1>3. FreeAt(calls, mem, i, 1)
  BY <1>1 DEF FreeAt
<1> QED  BY <1>2, <1>3

LEMMA ReturnRootKeeps ==
    ASSUME JsonInv, ReturnString, Front(stack) = <<>>
    PROVE  JsonInv' /\ \A c \in touched' : memory[c] = "live"
<1> DEFINE call == [node |-> Root, child |-> node[Root].child, ret |-> <<>>]
<1>1. /\ pc = "print" /\ pc' = "free" /\ stack' = <<call>> /\ touched' = {Last(stack).node}
      /\ UNCHANGED <<node, memory, loose, given>>
  BY DEF ReturnString, tree, FreeCall
<1>2. /\ Shape(node, given, memory, loose) /\ Unreleased /\ loose = {} /\ Used(Last(stack).node)
      /\ memory \in [Nodes -> States]
  BY <1>1, PrintTop DEF Shape, ShapeType
<1>3. Root \in Nodes /\ Used(Root) /\ memory[Root] = "live" /\ node[Root].child \in Pointers
  <2>1. Used(Root)
    BY <1>2, Bounds DEF Shape, Linked, Used
  <2> QED  BY <1>2, <2>1, UsedIsLive, Walk
<1>4. /\ StackType(<<call>>) /\ <<call>> # <<>> /\ Len(<<call>>) = 1 /\ <<call>>[1] = call
  <2> DEFINE r == <<>>
             c == node[Root].child
  <2>1. c \in Pointers
    BY <1>3
  <2> HIDE DEF r, c
  <2>2. LET new == <<[node |-> Root, child |-> c, ret |-> r]>>
        IN  /\ StackType(new) /\ new # <<>> /\ Len(new) = 1
            /\ new[1] = [node |-> Root, child |-> c, ret |-> r]
    BY <1>3, <2>1, Single
  <2> QED  BY <2>2 DEF r, c
<1>5. call.node = Root /\ call.child = node[Root].child
  OBVIOUS
<1> DEFINE calls == <<call>>
<1> HIDE DEF call
<1>6. StackType(calls) /\ calls # <<>> /\ Len(calls) = 1 /\ calls[1] = call
  BY <1>4
<1> HIDE DEF calls
<1>7. ASSUME NEW p \in Nodes, NEW i \in 1 .. Below(p)
      PROVE  memory[given[p][i]] = "live"
  <2>1. node[p].type \in Instances /\ i \in 1 .. Len(given[p])
    BY <1>2, BelowIs
  <2>2. Used(given[p][i])
    BY <1>2, <2>1, ChildAt
  <2> QED  BY <1>2, <2>2, UsedIsLive
<1>8. \E k \in 1 .. Below(Root) + 1 : FreeAt(calls, memory, 1, k)
  <2>1. 1 \in Nat /\ 1 = Len(calls) /\ calls[1].node = Root /\ calls[1].child = node[Root].child
    BY <1>5, <1>6
  <2>2. \A j \in 1 .. Below(Root) : memory[given[Root][j]] = "live"
    BY <1>3, <1>7
  <2> QED  BY <1>2, <1>3, <2>1, <2>2, FreshCall
<1>9. FreeRest(calls, memory)
  BY <1>2, <1>7 DEF FreeRest, Unreleased
<1>10. FreeInv(calls, memory)
  <2>1. \A i \in 1 .. Len(calls) : i = 1
    BY <1>6
  <2> QED  BY <1>3, <1>5, <1>6, <1>8, <1>9, <2>1 DEF FreeInv
<1>11. JsonInv'
  <2>1. stack' = calls
    BY <1>1 DEF calls
  <2>2. memory' \in [Nodes -> States] /\ \A n \in Nodes : memory[n] = "unused" <=> memory'[n] = "unused"
    BY <1>1, <1>2
  <2>3. StackType(stack') /\ FreeInv(stack', memory') /\ stack' # <<>>
    BY <1>1, <1>6, <1>10, <2>1
  <2> QED  BY <1>1, <1>2, <2>2, <2>3, FreeStep
<1> QED  BY <1>1, <1>2, <1>11, UsedIsLive

LEMMA FreeTop ==
    ASSUME JsonInv, pc = "free"
    PROVE  /\ Shape(node, given, memory, loose) /\ loose = {} /\ memory \in [Nodes -> States]
           /\ StackType(stack) /\ stack # <<>> /\ FreeInv(stack, memory)
           /\ Last(stack) = stack[Len(stack)] /\ Len(stack) \in 1 .. Len(stack) /\ Len(stack) \in Nat
           /\ Last(stack).node \in Nodes /\ memory[Last(stack).node] = "live"
           /\ \A i \in 1 .. Len(stack) : stack[i].node \in Nodes
<1>1. /\ Shape(node, given, memory, loose) /\ loose = {} /\ memory \in [Nodes -> States]
      /\ StackType(stack) /\ stack # <<>> /\ FreeInv(stack, memory)
  BY DEF JsonInv, Shape, ShapeType
<1>2. Last(stack) = stack[Len(stack)] /\ Len(stack) \in 1 .. Len(stack)
  BY <1>1, Popped
<1>3. Len(stack) \in Nat /\ \A i \in 1 .. Len(stack) : stack[i].node \in Nodes
  BY <1>1, CallIs
<1>4. memory[stack[Len(stack)].node] = "live"
  BY <1>1, <1>2 DEF FreeInv
<1> QED  BY <1>1, <1>2, <1>3, <1>4

\* The child a call of jFree is at is there, has no call yet, and all below it is there.
LEMMA NextChild ==
    ASSUME JsonInv, pc = "free", NEW k \in 1 .. Below(Last(stack).node) + 1,
           FreeAt(stack, memory, Len(stack), k), Last(stack).child # NULL
    PROVE  LET p == Last(stack).node
               c == Last(stack).child
           IN  /\ k \in 1 .. Below(p) /\ c = given[p][k] /\ c \in Nodes /\ memory[c] = "live"
               /\ p < c /\ ~OnStack(stack, c)
               /\ node[c].next = IF k = Below(p) THEN NULL ELSE given[p][k + 1]
<1> DEFINE p == Last(stack).node
           c == Last(stack).child
<1>1. /\ Shape(node, given, memory, loose) /\ FreeInv(stack, memory)
      /\ Last(stack) = stack[Len(stack)] /\ Len(stack) \in 1 .. Len(stack) /\ Len(stack) \in Nat
      /\ p \in Nodes /\ \A i \in 1 .. Len(stack) : stack[i].node \in Nodes
  BY FreeTop
<1>2. Below(p) \in Nat /\ \A i \in 1 .. Below(p) : node[p].type \in Instances /\ i \in 1 .. Len(given[p])
  BY <1>1, BelowIs
<1>3. k \in 1 .. Below(p) /\ c = given[p][k] /\ memory[c] = "live"
  BY <1>1, <1>2 DEF FreeAt
<1>4. node[p].type \in Instances /\ k \in 1 .. Len(given[p]) /\ Below(p) = Len(given[p])
  BY <1>2, <1>3 DEF Below
<1>5. c \in Nodes /\ p < c /\ node[c].next = IF k = Below(p) THEN NULL ELSE given[p][k + 1]
  BY <1>1, <1>3, <1>4, ChildAt
<1>6. ~OnStack(stack, c)
  <2> SUFFICES ASSUME NEW i \in 1 .. Len(stack), stack[i].node = c PROVE FALSE
    BY DEF OnStack
  <2>1. i = Len(stack) \/ i < Len(stack)
    BY <1>1
  <2>2. stack[i].node = p \/ stack[i].node < p
    BY <1>1, <2>1 DEF FreeInv
  <2> QED  BY <1>1, <1>5, <2>2 DEF Nodes
<1> QED  BY <1>3, <1>5, <1>6

\* The stack after a call for the child.
LEMMA ChildCall ==
    ASSUME JsonInv, FreeChild
    PROVE  LET m == Len(stack)
               c == Last(stack).child
           IN  /\ StackType(stack') /\ stack' # <<>> /\ Len(stack') = m + 1
               /\ \A i \in 1 .. m - 1 : stack'[i] = stack[i]
               /\ stack'[m].node = Last(stack).node /\ stack'[m].child = node[c].next
               /\ stack'[m + 1].node = c /\ stack'[m + 1].child = node[c].child
<1> DEFINE m == Len(stack)
           c == Last(stack).child
           p == Last(stack).node
           rest == Append(Front(stack), [node |-> p, child |-> node[c].next, ret |-> Last(stack).ret])
<1>1. /\ pc = "free" /\ c # NULL
      /\ stack' = Append(Append(Front(stack), [Last(stack) EXCEPT !.child = node[@].next]), FreeCall(c))
  BY DEF FreeChild
<1>2. /\ Shape(node, given, memory, loose) /\ StackType(stack) /\ stack # <<>>
      /\ FreeInv(stack, memory) /\ Last(stack) = stack[m] /\ m \in 1 .. m /\ m \in Nat
      /\ \A i \in 1 .. m : stack[i] = [node |-> stack[i].node, child |-> stack[i].child,
                                       ret |-> stack[i].ret]
  BY <1>1, FreeTop, CallIs
<1>3. c \in Nodes
  <2>1. PICK k \in 1 .. Below(stack[m].node) + 1 : FreeAt(stack, memory, m, k)
    BY <1>2 DEF FreeInv
  <2> QED  BY <1>1, <1>2, <2>1, NextChild
<1>4. node[c].next \in Pointers /\ node[c].child \in Pointers
  BY <1>2, <1>3, Walk
<1>5. stack' = Append(rest, [node |-> c, child |-> node[c].child, ret |-> <<>>])
  <2>1. stack[m] = [node |-> stack[m].node, child |-> stack[m].child, ret |-> stack[m].ret]
    BY <1>2
  <2>2. [stack[m] EXCEPT !.child = node[@].next] =
            [node |-> stack[m].node, child |-> node[stack[m].child].next, ret |-> stack[m].ret]
    BY <2>1
  <2> QED  BY <1>1, <1>2, <2>2 DEF FreeCall
<1>6. /\ StackType(rest) /\ Len(rest) = m
      /\ \A i \in 1 .. m - 1 : rest[i] = stack[i]
      /\ rest[m].node = p /\ rest[m].child = node[c].next
  <2> DEFINE x == node[c].next
             r == Last(stack).ret
  <2>1. x \in Pointers
    BY <1>4
  <2> HIDE DEF x, r
  <2>2. LET call == [node |-> Last(stack).node, child |-> x, ret |-> r]
            new == Append(Front(stack), call)
        IN  /\ StackType(new) /\ Len(new) = Len(stack)
            /\ \A i \in 1 .. Len(stack) - 1 : new[i] = stack[i]
            /\ new[Len(stack)] = call
    BY <1>2, <2>1, Moved
  <2>3. [node |-> p, child |-> x, ret |-> r].node = p /\ [node |-> p, child |-> x, ret |-> r].child = x
    OBVIOUS
  <2> QED  BY <2>2, <2>3 DEF x, r
<1> HIDE DEF rest, c, p
<1>7. /\ StackType(stack') /\ Len(stack') = m + 1
      /\ \A i \in 1 .. m : stack'[i] = rest[i]
      /\ stack'[m + 1].node = c /\ stack'[m + 1].child = node[c].child
  <2> DEFINE x == node[c].child
             r == <<>>
  <2>1. x \in Pointers
    BY <1>4
  <2> HIDE DEF x, r
  <2>2. LET call == [node |-> c, child |-> x, ret |-> r]
        IN  /\ StackType(Append(rest, call)) /\ Len(Append(rest, call)) = Len(rest) + 1
            /\ \A i \in 1 .. Len(rest) : Append(rest, call)[i] = rest[i]
            /\ Append(rest, call)[Len(rest) + 1] = call
    BY <1>3, <1>6, <2>1, Pushed
  <2>3. [node |-> c, child |-> x, ret |-> r].node = c /\ [node |-> c, child |-> x, ret |-> r].child = x
    OBVIOUS
  <2> QED  BY <1>5, <1>6, <2>2, <2>3 DEF x, r
<1>8. stack' # <<>>
  <2>1. Len(stack') >= 1
    BY <1>2, <1>7
  <2> QED  BY <1>7, <2>1, CallIs
<1>9. \A i \in 1 .. m - 1 : i \in 1 .. m
  BY <1>2
<1> QED  BY <1>2, <1>6, <1>7, <1>8, <1>9 DEF p, c

LEMMA FreeChildKeeps ==
    ASSUME JsonInv, FreeChild
    PROVE  JsonInv' /\ \A n \in touched' : memory[n] = "live"
<1> DEFINE m == Len(stack)
           c == Last(stack).child
           p == Last(stack).node
           calls == stack'
<1>1. /\ pc = "free" /\ pc' = pc /\ c # NULL /\ touched' = {c}
      /\ UNCHANGED <<node, memory, loose, given>>
  BY DEF FreeChild, tree
<1>2. /\ Shape(node, given, memory, loose) /\ loose = {} /\ StackType(stack) /\ stack # <<>>
      /\ FreeInv(stack, memory) /\ Last(stack) = stack[m] /\ m \in 1 .. m /\ m \in Nat
      /\ memory \in [Nodes -> States] /\ p \in Nodes /\ memory[p] = "live"
      /\ \A i \in 1 .. m : stack[i].node \in Nodes
  BY <1>1, FreeTop
<1>3. PICK k \in 1 .. Below(p) + 1 : FreeAt(stack, memory, m, k)
  BY <1>2 DEF FreeInv
<1>4. /\ k \in 1 .. Below(p) /\ c = given[p][k] /\ c \in Nodes /\ memory[c] = "live"
      /\ p < c /\ ~OnStack(stack, c)
      /\ node[c].next = IF k = Below(p) THEN NULL ELSE given[p][k + 1]
  BY <1>1, <1>3, NextChild
<1>5. /\ StackType(calls) /\ calls # <<>> /\ Len(calls) = m + 1
      /\ \A i \in 1 .. m - 1 : calls[i] = stack[i]
      /\ calls[m].node = p /\ calls[m].child = node[c].next
      /\ calls[m + 1].node = c /\ calls[m + 1].child = node[c].child
  BY ChildCall
<1>6. Below(p) \in Nat
  BY <1>2, BelowIs
<1> HIDE DEF m, c, p, calls
<1>7. ASSUME NEW i \in 1 .. m PROVE calls[i].node = stack[i].node
  <2>1. i = m \/ i \in 1 .. m - 1
    BY <1>2
  <2> QED  BY <1>2, <1>5, <2>1 DEF p
\* The calls below the top are where they were.
<1>8. ASSUME NEW i \in 1 .. m - 1
      PROVE  \E l \in 1 .. Below(calls[i].node) + 1 : FreeAt(calls, memory, i, l)
  <2>1. i \in 1 .. m /\ i < Len(stack) /\ i < Len(calls) /\ i + 1 \in 1 .. m
    BY <1>2, <1>5 DEF m
  <2>2. PICK l \in 1 .. Below(stack[i].node) + 1 : FreeAt(stack, memory, i, l)
    BY <1>2, <2>1 DEF FreeInv, m
  <2>3. calls[i] = stack[i] /\ calls[i + 1].node = stack[i + 1].node
    BY <1>5, <1>7, <2>1
  <2>4. FreeAt(calls, memory, i, l)
    BY <2>1, <2>2, <2>3 DEF FreeAt
  <2> QED  BY <2>2, <2>3, <2>4
\* The call that was the top has gone on by one place, and waits for the child's.
<1>9. \E l \in 1 .. Below(p) + 1 : FreeAt(calls, memory, m, l)
  <2>1. k + 1 \in 1 .. Below(p) + 1 /\ k + 1 > 1 /\ k + 1 - 1 = k
    BY <1>4, <1>6
  <2>2. calls[m].child = IF k + 1 <= Below(p) THEN given[p][k + 1] ELSE NULL
    BY <1>4, <1>5, <1>6
  <2>3. \A j \in k + 1 .. Below(p) : memory[given[p][j]] = "live"
    <3>1. \A j \in k + 1 .. Below(p) : j \in k .. Below(p)
      BY <1>4, <1>6
    <3> QED  BY <1>2, <1>3, <3>1 DEF FreeAt, p
  <2>4. ASSUME NEW j \in 1 .. k
        PROVE  IF m < Len(calls) /\ j = k THEN given[p][j] = calls[m + 1].node
               ELSE memory[given[p][j]] = "freed"
    <3>1. CASE j = k
      BY <1>2, <1>4, <1>5, <3>1
    <3>2. CASE j # k
      <4>1. j \in 1 .. k - 1 /\ ~(m < Len(stack))
        BY <1>2, <1>4, <1>6, <3>2 DEF m
      <4>2. memory[given[p][j]] = "freed"
        BY <1>2, <1>3, <4>1 DEF FreeAt, p
      <4> QED  BY <3>2, <4>2
    <3> QED  BY <3>1, <3>2
  <2>5. FreeAt(calls, memory, m, k + 1)
    BY <1>5, <2>1, <2>2, <2>3, <2>4 DEF FreeAt
  <2> QED  BY <2>1, <2>5
\* The child's call is at its start.
<1>10. \E l \in 1 .. Below(c) + 1 : FreeAt(calls, memory, m + 1, l)
  <2>1. m + 1 \in Nat /\ m + 1 = Len(calls)
    BY <1>2, <1>5
  <2>2. \A j \in 1 .. Below(c) : memory[given[c][j]] = "live"
    BY <1>2, <1>4 DEF FreeInv, FreeRest
  <2> QED  BY <1>2, <1>4, <1>5, <2>1, <2>2, FreshCall
<1>11. ASSUME NEW i \in 1 .. Len(calls)
       PROVE  /\ memory[calls[i].node] = "live"
              /\ \E l \in 1 .. Below(calls[i].node) + 1 : FreeAt(calls, memory, i, l)
  <2>1. CASE i = m + 1
    BY <1>4, <1>5, <1>10, <2>1
  <2>2. CASE i = m
    BY <1>2, <1>5, <1>9, <2>2
  <2>3. CASE i # m + 1 /\ i # m
    <3>1. i \in 1 .. m - 1 /\ i \in 1 .. Len(stack) /\ i \in 1 .. m
      BY <1>2, <1>5, <2>3 DEF m
    <3>2. memory[stack[i].node] = "live"
      BY <1>2, <3>1 DEF FreeInv
    <3> QED  BY <1>7, <1>8, <3>1, <3>2
  <2> QED  BY <2>1, <2>2, <2>3
<1>12. ASSUME NEW i \in 1 .. Len(calls), NEW j \in 1 .. Len(calls), i < j
       PROVE  calls[i].node < calls[j].node
  <2>1. i \in 1 .. m /\ (j \in 1 .. m \/ j = m + 1)
    BY <1>2, <1>5, <1>12
  <2>2. CASE j \in 1 .. m
    BY <1>2, <1>7, <1>12, <2>1, <2>2 DEF FreeInv, m
  <2>3. CASE j = m + 1
    <3>1. i = m \/ i < m
      BY <1>2, <2>1
    <3>2. stack[i].node = p \/ stack[i].node < p
      BY <1>2, <2>1, <3>1 DEF FreeInv, m, p
    <3>3. p \in Nat /\ c \in Nat /\ stack[i].node \in Nat
      BY <1>2, <1>4, <2>1, Bounds
    <3> QED  BY <1>4, <1>5, <1>7, <2>1, <2>3, <3>2, <3>3
  <2> QED  BY <2>1, <2>2, <2>3
<1>13. calls[1].node = Root
  <2>1. 1 \in 1 .. m
    BY <1>2
  <2> QED  BY <1>2, <1>7, <2>1 DEF FreeInv
<1>14. FreeRest(calls, memory)
  <2>1. \A n : OnStack(stack, n) => OnStack(calls, n)
    <3>1. \A i \in 1 .. Len(stack) : i \in 1 .. m /\ i \in 1 .. Len(calls)
      BY <1>2, <1>5 DEF m
    <3> QED  BY <1>7, <3>1 DEF OnStack
  <2> QED  BY <1>2, <2>1 DEF FreeInv, FreeRest
<1>15. FreeInv(calls, memory)
  BY <1>5, <1>11, <1>12, <1>13, <1>14 DEF FreeInv
<1>16. JsonInv'
  <2>1. memory' \in [Nodes -> States] /\ \A n \in Nodes : memory[n] = "unused" <=> memory'[n] = "unused"
    BY <1>1, <1>2
  <2>2. StackType(stack') /\ FreeInv(stack', memory') /\ stack' # <<>>
    BY <1>1, <1>5, <1>15 DEF calls
  <2> QED  BY <1>1, <1>2, <2>1, <2>2, FreeStep
<1> QED  BY <1>1, <1>4, <1>16

\* All below the node of a call that is past its children is gone.
LEMMA FreeNodeKeeps ==
    ASSUME JsonInv, FreeNode
    PROVE  JsonInv' /\ \A n \in touched' : memory[n] = "live"
<1> DEFINE m == Len(stack)
           p == Last(stack).node
           calls == Front(stack)
           mem == [memory EXCEPT ![p] = "freed"]
<1>1. /\ pc = "free" /\ Last(stack).child = NULL /\ touched' = {p} /\ memory' = mem
      /\ stack' = calls /\ pc' = (IF m = 1 THEN "done" ELSE "free")
      /\ UNCHANGED <<node, loose, given>>
  BY DEF FreeNode
<1>2. /\ Shape(node, given, memory, loose) /\ loose = {} /\ StackType(stack) /\ stack # <<>>
      /\ FreeInv(stack, memory) /\ Last(stack) = stack[m] /\ m \in 1 .. m /\ m \in Nat
      /\ memory \in [Nodes -> States] /\ p \in Nodes /\ memory[p] = "live"
      /\ \A i \in 1 .. m : stack[i].node \in Nodes
  BY <1>1, FreeTop
<1>3. PICK k \in 1 .. Below(p) + 1 : FreeAt(stack, memory, m, k)
  BY <1>2 DEF FreeInv
<1>4. /\ Below(p) \in Nat
      /\ \A q \in Nodes : /\ Below(q) \in Nat
                          /\ \A i \in 1 .. Below(q) : /\ node[q].type \in Instances
                                                      /\ i \in 1 .. Len(given[q])
                                                      /\ given[q][i] \in Nodes
                                                      /\ q < given[q][i]
  BY <1>2, BelowIs, ChildAt
<1>5. k = Below(p) + 1
  <2> SUFFICES ASSUME k # Below(p) + 1 PROVE FALSE
    OBVIOUS
  <2>1. k \in 1 .. Below(p) /\ k <= Below(p)
    BY <1>3, <1>4
  <2>2. given[p][k] \in Nodes
    BY <1>2, <1>4, <2>1
  <2> QED  BY <1>1, <1>2, <1>3, <2>1, <2>2, Bounds DEF FreeAt
<1>6. \A j \in 1 .. Below(p) : memory[given[p][j]] = "freed"
  <2>1. \A j \in 1 .. Below(p) : j \in 1 .. k - 1 /\ ~(m < Len(stack))
    BY <1>2, <1>4, <1>5
  <2> QED  BY <1>2, <1>3, <2>1 DEF FreeAt
<1>7. /\ StackType(calls) /\ Len(calls) = m - 1 /\ \A i \in 1 .. m - 1 : calls[i] = stack[i]
  BY <1>2, Popped
<1>8. /\ mem \in [Nodes -> States] /\ mem[p] = "freed"
      /\ \A n \in Nodes : n # p => mem[n] = memory[n]
  BY <1>2 DEF States
<1> HIDE DEF m, p, calls, mem
<1>9. ASSUME NEW i \in 1 .. m - 1
      PROVE  /\ i \in 1 .. m /\ i < Len(stack) /\ i + 1 \in 1 .. m
             /\ stack[i].node \in Nodes /\ stack[i].node < p /\ stack[i].node # p
  <2>1. i \in 1 .. m /\ i < Len(stack) /\ i + 1 \in 1 .. m /\ i < m
    BY <1>2 DEF m
  <2>2. stack[i].node \in Nodes /\ stack[i].node < p
    BY <1>2, <2>1 DEF FreeInv, m, p
  <2> QED  BY <1>2, <2>1, <2>2, Bounds
\* The call below was at the node released; no other has it among its children.
<1>10. ASSUME NEW i \in 1 .. m - 1
       PROVE  \E l \in 1 .. Below(calls[i].node) + 1 : FreeAt(calls, mem, i, l)
  <2> DEFINE q == stack[i].node
  <2>1. PICK l \in 1 .. Below(q) + 1 : FreeAt(stack, memory, i, l)
    BY <1>2, <1>9 DEF FreeInv, m
  <2>2. calls[i] = stack[i] /\ q \in Nodes /\ q # p /\ i < Len(stack) /\ l > 1 /\ Below(q) \in Nat
    BY <1>4, <1>7, <1>9, <2>1 DEF FreeAt
  <2>3. l - 1 \in 1 .. l - 1 /\ l - 1 \in 1 .. Below(q) /\ given[q][l - 1] = stack[i + 1].node
    <3>1. l - 1 \in 1 .. l - 1 /\ l - 1 \in 1 .. Below(q)
      BY <2>2
    <3> QED  BY <2>1, <2>2, <3>1 DEF FreeAt
  <2>4. \A j \in l .. Below(q) : given[q][j] \in Nodes /\ given[q][j] # p
    <3> SUFFICES ASSUME NEW j \in l .. Below(q) PROVE given[q][j] \in Nodes /\ given[q][j] # p
      OBVIOUS
    <3>1. j \in 1 .. Below(q) /\ j # l - 1
      BY <2>2
    <3>2. given[q][j] \in Nodes
      BY <1>4, <2>2, <3>1
    <3>3. given[q][j] # p
      <4> SUFFICES ASSUME given[q][j] = p PROVE FALSE
        OBVIOUS
      <4>1. CASE i = m - 1
        <5>1. given[q][l - 1] = p
          BY <1>2, <2>3, <4>1 DEF p
        <5>2. /\ node[q].type \in Instances /\ j \in 1 .. Len(given[q])
              /\ l - 1 \in 1 .. Len(given[q])
          BY <1>4, <2>2, <2>3, <3>1
        <5> DEFINE e == l - 1
        <5>3. e \in 1 .. Len(given[q]) /\ given[q][j] = given[q][e] /\ j # e
          BY <3>1, <5>1, <5>2
        <5> HIDE DEF q, e
        <5> QED  BY <1>2, <2>2, <5>2, <5>3, OnePlace
      <4>2. CASE i # m - 1
        <5> DEFINE r == stack[m - 1].node
        <5>1. m - 1 \in 1 .. m - 1 /\ m - 1 \in 1 .. m /\ i < m - 1 /\ m - 1 + 1 = m
          BY <1>2, <1>9, <4>2
        <5>2. PICK h \in 1 .. Below(r) + 1 : FreeAt(stack, memory, m - 1, h)
          BY <1>2, <5>1 DEF FreeInv, m
        <5>3. r \in Nodes /\ q # r /\ m - 1 < Len(stack)
          <6>1. q < r /\ r \in Nodes
            BY <1>2, <1>9, <5>1 DEF FreeInv, m
          <6>2. q \in Nodes
            BY <2>2
          <6> HIDE DEF q, r
          <6>3. q # r
            BY <6>1, <6>2, Bounds
          <6> QED  BY <1>9, <5>1, <6>1, <6>3
        <5>4. Below(r) \in Nat /\ h > 1
          BY <1>4, <5>2, <5>3 DEF FreeAt
        <5>5. h - 1 \in 1 .. h - 1 /\ h - 1 \in 1 .. Below(r)
          BY <5>4
        <5>6. given[r][h - 1] = p
          BY <1>2, <5>1, <5>2, <5>3, <5>5 DEF FreeAt, p
        <5>7. /\ node[q].type \in Instances /\ j \in 1 .. Len(given[q])
              /\ node[r].type \in Instances /\ h - 1 \in 1 .. Len(given[r])
          BY <1>4, <2>2, <3>1, <5>3, <5>5
        <5> DEFINE e == h - 1
        <5>8. e \in 1 .. Len(given[r]) /\ given[q][j] = given[r][e]
          BY <5>6, <5>7
        <5> HIDE DEF q, r, e
        <5> QED  BY <1>2, <2>2, <5>3, <5>7, <5>8, OnePlace
      <4> QED  BY <4>1, <4>2
    <3> QED  BY <3>2, <3>3
  <2>5. calls[i].child = IF l <= Below(q) THEN given[q][l] ELSE NULL
    BY <2>1, <2>2 DEF FreeAt
  <2>6. \A j \in l .. Below(q) : mem[given[q][j]] = "live"
    BY <1>8, <2>1, <2>4 DEF FreeAt
  <2>7. ASSUME NEW j \in 1 .. l - 1
        PROVE  IF i < Len(calls) /\ j = l - 1 THEN given[q][j] = calls[i + 1].node
               ELSE mem[given[q][j]] = "freed"
    <3>1. j \in 1 .. Below(q) /\ given[q][j] \in Nodes
      BY <1>4, <2>2, <2>7
    <3>2. CASE j # l - 1
      <4>1. memory[given[q][j]] = "freed"
        BY <2>1, <2>7, <3>2 DEF FreeAt
      <4> QED  BY <1>8, <3>1, <3>2, <4>1
    <3>3. CASE j = l - 1 /\ i < Len(calls)
      <4>1. i + 1 \in 1 .. m - 1
        BY <1>2, <1>7, <1>9, <3>3
      <4> QED  BY <1>7, <2>3, <3>3, <4>1
    <3>4. CASE j = l - 1 /\ ~(i < Len(calls))
      <4>1. i + 1 = m
        BY <1>2, <1>7, <1>9, <3>4
      <4> QED  BY <1>2, <1>8, <2>3, <3>4, <4>1 DEF p
    <3> QED  BY <3>2, <3>3, <3>4
  <2>8. FreeAt(calls, mem, i, l)
    BY <2>2, <2>5, <2>6, <2>7 DEF FreeAt
  <2> QED  BY <2>1, <2>2, <2>8
<1>11. ASSUME NEW i \in 1 .. Len(calls)
       PROVE  /\ mem[calls[i].node] = "live"
              /\ \E l \in 1 .. Below(calls[i].node) + 1 : FreeAt(calls, mem, i, l)
  <2>1. i \in 1 .. m - 1 /\ i \in 1 .. Len(stack)
    BY <1>2, <1>7 DEF m
  <2>2. memory[stack[i].node] = "live"
    BY <1>2, <2>1 DEF FreeInv
  <2> QED  BY <1>7, <1>8, <1>9, <1>10, <2>1, <2>2
<1>12. ASSUME NEW i \in 1 .. Len(calls), NEW j \in 1 .. Len(calls), i < j
       PROVE  calls[i].node < calls[j].node
  <2>1. i \in 1 .. m - 1 /\ j \in 1 .. m - 1 /\ i \in 1 .. m /\ j \in 1 .. m
    BY <1>2, <1>7
  <2> QED  BY <1>2, <1>7, <1>12, <2>1 DEF FreeInv, m
<1>13. (m = 1 <=> calls = <<>>) /\ (m # 1 => 1 \in 1 .. m - 1)
  <2>1. Len(calls) \in Nat /\ (calls # <<>> <=> Len(calls) >= 1)
    BY <1>7, CallIs
  <2> QED  BY <1>2, <1>7, <2>1
<1>14. IF calls = <<>> THEN mem[Root] = "freed" ELSE calls[1].node = Root
  <2>1. stack[1].node = Root
    BY <1>2 DEF FreeInv
  <2> QED  BY <1>2, <1>7, <1>8, <1>13, <2>1 DEF p
\* The parent of what was released is the call below, so all it concerns is on the stack.
<1>15. FreeRest(calls, mem)
  <2> SUFFICES ASSUME NEW q \in Nodes, NEW i \in 1 .. Below(q)
               PROVE  /\ mem[q] = "freed" => mem[given[q][i]] = "freed"
                      /\ mem[q] = "live" /\ ~OnStack(calls, q) => mem[given[q][i]] = "live"
    BY DEF FreeRest
  <2>1. given[q][i] \in Nodes /\ q < given[q][i]
    BY <1>4
  <2>2. mem[q] = "freed" => mem[given[q][i]] = "freed"
    <3>1. CASE q = p
      BY <1>6, <1>8, <2>1, <3>1
    <3>2. CASE q # p
      <4>1. mem[q] = "freed" => memory[given[q][i]] = "freed"
        BY <1>2, <1>8, <3>2 DEF FreeInv, FreeRest
      <4> QED  BY <1>8, <2>1, <4>1
    <3> QED  BY <3>1, <3>2
  <2>3. ASSUME mem[q] = "live", ~OnStack(calls, q) PROVE mem[given[q][i]] = "live"
    <3>1. q # p /\ memory[q] = "live"
      BY <1>8, <2>3
    <3>2. ~OnStack(stack, q)
      <4> SUFFICES ASSUME NEW j \in 1 .. m, stack[j].node = q PROVE FALSE
        BY DEF OnStack, m
      <4>1. j \in 1 .. m - 1
        BY <1>2, <3>1 DEF p
      <4>2. j \in 1 .. Len(calls) /\ calls[j].node = q
        BY <1>7, <4>1
      <4> QED  BY <2>3, <4>2 DEF OnStack
    <3>3. memory[given[q][i]] = "live"
      BY <1>2, <3>1, <3>2 DEF FreeInv, FreeRest
    <3>4. given[q][i] # p
      <4> SUFFICES ASSUME given[q][i] = p PROVE FALSE
        OBVIOUS
      <4>1. CASE m = 1
        <5>1. p = Root
          BY <1>2, <4>1 DEF p, FreeInv
        <5> QED  BY <2>1, <5>1 DEF Root, Nodes
      <4>2. CASE m # 1
        <5> DEFINE r == stack[m - 1].node
        <5>1. m - 1 \in 1 .. m - 1 /\ m - 1 \in 1 .. m /\ m - 1 + 1 = m
          BY <1>2, <4>2
        <5>2. PICK h \in 1 .. Below(r) + 1 : FreeAt(stack, memory, m - 1, h)
          BY <1>2, <5>1 DEF FreeInv, m
        <5>3. r \in Nodes /\ m - 1 < Len(stack)
          BY <1>9, <5>1
        <5>4. Below(r) \in Nat /\ h > 1
          BY <1>4, <5>2, <5>3 DEF FreeAt
        <5>5. h - 1 \in 1 .. h - 1 /\ h - 1 \in 1 .. Below(r)
          BY <5>4
        <5>6. given[r][h - 1] = p
          BY <1>2, <5>1, <5>2, <5>3, <5>5 DEF FreeAt, p
        <5>7. /\ node[q].type \in Instances /\ i \in 1 .. Len(given[q])
              /\ node[r].type \in Instances /\ h - 1 \in 1 .. Len(given[r])
          BY <1>4, <5>3, <5>5
        <5>8. OnStack(stack, r)
          BY <1>2, <5>1 DEF OnStack, m
        <5> DEFINE e == h - 1
        <5>9. q = r
          <6>1. e \in 1 .. Len(given[r]) /\ given[q][i] = given[r][e]
            BY <5>6, <5>7
          <6> HIDE DEF r, e
          <6> QED  BY <1>2, <5>3, <5>7, <6>1, OnePlace
        <5> QED  BY <3>2, <5>8, <5>9
      <4> QED  BY <4>1, <4>2
    <3> QED  BY <1>8, <2>1, <3>3, <3>4
  <2> QED  BY <2>2, <2>3
<1>16. FreeInv(calls, mem)
  BY <1>11, <1>12, <1>14, <1>15 DEF FreeInv
<1>17. JsonInv'
  <2>1. memory' \in [Nodes -> States] /\ \A n \in Nodes : memory[n] = "unused" <=> memory'[n] = "unused"
    BY <1>1, <1>2, <1>8
  <2>2. StackType(stack') /\ FreeInv(stack', memory')
    BY <1>1, <1>7, <1>16
  <2>3. \/ pc' = "free" /\ stack' # <<>>
        \/ pc' = "done" /\ stack' = <<>>
    BY <1>1, <1>13
  <2> QED  BY <1>1, <1>2, <2>1, <2>2, <2>3, FreeStep
<1> QED  BY <1>1, <1>2, <1>17

-----------------------------------------------------------------------------
(* The theorems.                                                            *)

LEMMA StepKeeps == JsonInv /\ [Next]_vars => JsonInv' /\ (Next => \A n \in touched' : memory[n] = "live")
<1> SUFFICES ASSUME JsonInv, [Next]_vars
             PROVE  JsonInv' /\ (Next => \A n \in touched' : memory[n] = "live")
  OBVIOUS
<1>1. CASE AddNumber
  <2>1. PICK p \in Nodes : /\ memory[p] = "live" /\ node[p].type \in Instances
                           /\ Add(p, Json4cNumber, <<>>, <<>>)
    BY <1>1 DEF AddNumber
  <2>2. pc = "build" /\ UNCHANGED <<pc, loose, stack>> /\ <<>> \in Texts
    BY <1>1 DEF AddNumber, Texts
  <2> QED  BY <2>1, <2>2, AddKeeps
<1>2. CASE AddString
  <2>1. PICK p \in Nodes, value \in Values :
            /\ memory[p] = "live" /\ node[p].type \in Instances
            /\ \/ Add(p, Json4cString, strreplace(value), value)
               \/ Add(p, Json4cString, value, value)
    BY <1>2 DEF AddString, Instances
  <2>2. /\ pc = "build" /\ UNCHANGED <<pc, loose, stack>>
        /\ strreplace(value) \in Texts /\ value \in Texts
    BY <1>2 DEF AddString, Texts
  <2> QED  BY <2>1, <2>2, AddKeeps
<1>3. CASE Create
  BY <1>3, CreateKeeps
<1>4. CASE AddInstance
  BY <1>4, AddInstanceKeeps
<1>5. CASE jToString
  BY <1>5, ToStringKeeps
<1>6. CASE ScalarToString
  BY <1>6, ScalarKeeps
<1>7. CASE InstanceToString
  BY <1>7, InstanceKeeps
<1>8. CASE ReturnString
  BY <1>8, ReturnUpKeeps, ReturnRootKeeps
<1>9. CASE FreeChild
  BY <1>9, FreeChildKeeps
<1>10. CASE FreeNode
  BY <1>10, FreeNodeKeeps
<1>11. CASE UNCHANGED vars /\ ~Next
  <2>1. /\ pc' = pc /\ node' = node /\ memory' = memory /\ loose' = loose /\ given' = given
        /\ stack' = stack
    BY <1>11 DEF vars, tree
  <2>2. Shape(node, given, memory, loose) => Shape(node, given, memory, loose)'
    BY <2>1
  <2>3. (StackType(stack) => StackType(stack)') /\ (Unreleased => Unreleased')
    BY <2>1 DEF StackType, Unreleased
  <2>4. PrintInv(stack) => PrintInv(stack)'
    BY <2>1 DEF PrintInv, Used
  <2>5. FreeInv(stack, memory) => FreeInv(stack, memory)'
    BY <2>1 DEF FreeInv, FreeAt, FreeRest, OnStack, Below
  <2> QED  BY <1>11, <2>1, <2>2, <2>3, <2>4, <2>5 DEF JsonInv
<1> QED  BY <1>1, <1>2, <1>3, <1>4, <1>5, <1>6, <1>7, <1>8, <1>9, <1>10, <1>11 DEF Next

\* The pointers of the tree chain what was added to it, in order, from the first step of
\* building to the last of jFree, which has released exactly what is behind its calls.
THEOREM TreeInvariant == Spec => []JsonInv
<1>1. Init => JsonInv
  BY StartShape
<1>2. JsonInv /\ [Next]_vars => JsonInv'
  BY StepKeeps
<1> QED  BY <1>1, <1>2, PTL DEF Spec

\* jToString and jFree, which walk the pointers of the tree, and the calls that add to it
\* read or release no node that was released before, or never given out.
THEOREM NoUseAfterFree == Spec => OnlyLiveTouched
<1>1. JsonInv /\ [Next]_vars => [\A n \in touched' : memory[n] = "live"]_vars
  BY StepKeeps
<1> QED  BY <1>1, TreeInvariant, PTL DEF Spec, OnlyLiveTouched

\* When jFree returns from the root, the whole tree is released.
THEOREM DeepClean == Spec => []AllReleased
<1>1. JsonInv => AllReleased
  <2> SUFFICES ASSUME JsonInv, pc = "done" PROVE \A n \in Nodes : memory[n] # "live"
    BY DEF AllReleased
  <2>1. /\ Shape(node, given, memory, loose) /\ loose = {} /\ stack = <<>> /\ FreeInv(stack, memory)
        /\ memory \in [Nodes -> States]
    BY DEF JsonInv, Shape, ShapeType
  <2>2. memory[Root] = "freed"
    BY <2>1 DEF FreeInv
  <2> DEFINE Left == {n \in Nodes : memory[n] = "live"}
  <2> SUFFICES ASSUME Left # {} PROVE FALSE
    OBVIOUS
  <2>3. PICK n \in Left : \A k \in Left : n <= k
    <3>1. Left \subseteq Nat
      BY Bounds
    <3> HIDE DEF Left
    <3> QED  BY <3>1, LeastNat
  <2>4. n \in Nodes /\ memory[n] = "live" /\ n # Root /\ InList(node, given, n)
    BY <2>1, <2>2 DEF Shape, Linked
  <2>5. PICK p \in Nodes : \E i \in 1 .. Len(given[p]) : At(node, given, p, i, n)
    BY <2>4 DEF InList
  <2>6. PICK i \in 1 .. Len(given[p]) : At(node, given, p, i, n)
    BY <2>5
  <2>7. p < n /\ memory[p] # "unused" /\ i \in 1 .. Below(p) /\ given[p][i] = n
    BY <2>1, <2>4, <2>6 DEF Shape, Linked, At, Below
  <2>8. memory[p] # "freed"
    BY <2>1, <2>4, <2>7 DEF FreeInv, FreeRest
  <2>9. p \in Left /\ ~(n <= p)
    BY <2>1, <2>4, <2>7, <2>8, Bounds DEF States
  <2> QED  BY <2>3, <2>9
<1> QED  BY <1>1, TreeInvariant, PTL

-----------------------------------------------------------------------------
(* Buffers.                                                                 *)

\* ksnprintf enlarges its buffer until the text is in it with its NUL: no text is cut off,
\* whatever initLen is.
THEOREM NothingCut ==
    ASSUME NEW S, NEW s \in Seq(S)
    PROVE  ksnprintf(s) = s
<1> DEFINE n == Len(s)
           Fits(i) == n < i * initLen
           Large == {i \in Nat : i >= 1 /\ Fits(i)}
<1>1. n \in Nat /\ initLen \in Nat /\ initLen >= 1
  BY LenProperties, JsonAssumption
<1> HIDE DEF n
<1>2. ASSUME NEW a \in Nat, NEW b \in Nat, b >= 1 PROVE a < (a + 1) * b
  BY <1>2
<1>3. n + 1 \in Large
  <2>1. n < (n + 1) * initLen
    BY <1>1, <1>2
  <2> QED  BY <1>1, <2>1
<1>4. PICK i \in Large : \A j \in Large : i <= j
  <2>1. Large # {} /\ Large \subseteq Nat
    BY <1>3
  <2> HIDE DEF Large
  <2> QED  BY <2>1, LeastNat
<1>5. i \in 1 .. n + 1 /\ Fits(i)
  <2>1. i \in Nat /\ i >= 1 /\ Fits(i) /\ i <= n + 1
    BY <1>3, <1>4
  <2> HIDE DEF Fits
  <2> QED  BY <1>1, <2>1
<1>6. ASSUME NEW j \in 1 .. i - 1 PROVE ~Fits(j)
  <2>1. j \in Nat /\ j >= 1 /\ ~(i <= j)
    BY <1>5
  <2> QED  BY <1>4, <2>1
<1>7. \A j \in 1 .. i - 1 : n >= j * initLen
  <2> SUFFICES ASSUME NEW j \in 1 .. i - 1 PROVE n >= j * initLen
    OBVIOUS
  <2>1. ~(n < j * initLen) /\ j * initLen \in Int
    BY <1>1, <1>6
  <2> QED  BY <1>1, <2>1
<1> DEFINE index == CHOOSE k \in 1 .. n + 1 :
                        n < k * initLen /\ \A j \in 1 .. k - 1 : n >= j * initLen
<1>8. n < index * initLen
  BY <1>5, <1>7
<1>9. ksnprintf(s) = vsnprintf(s, index * initLen)
  BY DEF ksnprintf, n
<1> QED  BY <1>8, <1>9 DEF vsnprintf, n

-----------------------------------------------------------------------------
(* FlattenSeq.                                                              *)

LEMMA FunctionSeq ==
    ASSUME NEW S, NEW n \in Nat, NEW f \in [1 .. n -> S]
    PROVE  f \in Seq(S) /\ Len(f) = n /\ DOMAIN f = 1 .. n
<1>1. f \in Seq(S)
  BY SeqDef
<1>2. DOMAIN f = 1 .. n /\ DOMAIN f = 1 .. Len(f) /\ Len(f) \in Nat
  BY <1>1, LenProperties
<1>3. Len(f) = n
  BY <1>2
<1> QED  BY <1>1, <1>2, <1>3

Flat(ss) == CHOOSE f : f = [i \in 1 .. Len(ss) |-> IF i = 1 THEN ss[i] ELSE f[i - 1] \o ss[i]]

LEMMA FlatIs ==
    ASSUME NEW ss, Len(ss) \in Nat
    PROVE  \A i \in 1 .. Len(ss) : Flat(ss)[i] = IF i = 1 THEN ss[i] ELSE Flat(ss)[i - 1] \o ss[i]
<1> DEFINE n == Len(ss)
           To(g, m) == /\ g = [i \in 1 .. n |-> g[i]]
                       /\ \A i \in 1 .. m : g[i] = IF i = 1 THEN ss[i] ELSE g[i - 1] \o ss[i]
           Bad == {m \in Nat : m <= n /\ ~\E g : To(g, m)}
<1> HIDE DEF n
<1>1. n \in Nat
  BY DEF n
<1>2. Bad = {}
  <2> SUFFICES ASSUME Bad # {} PROVE FALSE
    OBVIOUS
  <2>1. PICK m \in Bad : \A k \in Bad : m <= k
    <3>1. Bad \subseteq Nat
      OBVIOUS
    <3> HIDE DEF Bad
    <3> QED  BY <3>1, LeastNat
  <2>2. m \in Nat /\ m <= n /\ ~\E g : To(g, m)
    OBVIOUS
  <2>3. CASE m = 0
    <3> DEFINE g == [i \in 1 .. n |-> i]
    <3>1. To(g, m)
      BY <2>3
    <3> HIDE DEF To, g
    <3> QED  BY <2>2, <3>1
  <2>4. CASE m # 0
    <3>1. m - 1 \in Nat /\ m - 1 <= n /\ ~(m <= m - 1) /\ m \in 1 .. n
      BY <1>1, <2>2, <2>4
    <3>2. PICK g : To(g, m - 1)
      <4> HIDE DEF To
      <4> QED  BY <2>1, <3>1
    <3> DEFINE new == IF m = 1 THEN ss[m] ELSE g[m - 1] \o ss[m]
               h == [i \in 1 .. n |-> IF i = m THEN new ELSE g[i]]
    <3>3. h = [i \in 1 .. n |-> h[i]]
      OBVIOUS
    <3> HIDE DEF new
    <3>4. ASSUME NEW i \in 1 .. m PROVE h[i] = IF i = 1 THEN ss[i] ELSE h[i - 1] \o ss[i]
      <4>1. i \in 1 .. n /\ (i # 1 => i - 1 \in 1 .. n /\ i - 1 # m)
        BY <1>1, <2>2
      <4>2. h[i] = (IF i = m THEN new ELSE g[i]) /\ (i # 1 => h[i - 1] = g[i - 1])
        BY <4>1
      <4>3. CASE i = m
        BY <4>2, <4>3 DEF new
      <4>4. CASE i # m
        <5>1. i \in 1 .. m - 1
          BY <2>2, <4>4
        <5> QED  BY <3>2, <4>2, <4>4, <5>1
      <4> QED  BY <4>3, <4>4
    <3>5. To(h, m)
      BY <3>3, <3>4
    <3> HIDE DEF To, h
    <3> QED  BY <2>2, <3>5
  <2> QED  BY <2>3, <2>4
<1>3. \E g : To(g, n)
  <2>1. n \notin Bad
    BY <1>2
  <2> HIDE DEF To
  <2> QED  BY <1>1, <2>1
<1>4. PICK g : To(g, n)
  BY <1>3
<1>5. g = [i \in 1 .. n |-> IF i = 1 THEN ss[i] ELSE g[i - 1] \o ss[i]]
  <2>1. \A i \in 1 .. n : g[i] = IF i = 1 THEN ss[i] ELSE g[i - 1] \o ss[i]
    BY <1>4
  <2>2. g = [i \in 1 .. n |-> g[i]]
    BY <1>4
  <2> QED  BY <2>1, <2>2
<1>6. Flat(ss) = [i \in 1 .. n |-> IF i = 1 THEN ss[i] ELSE Flat(ss)[i - 1] \o ss[i]]
  <2>1. Flat(ss) = CHOOSE f : f = [i \in 1 .. n |-> IF i = 1 THEN ss[i] ELSE f[i - 1] \o ss[i]]
    BY DEF Flat, n
  <2> QED  BY <1>5, <2>1
<1> QED  BY <1>6 DEF n

LEMMA FlattenIs ==
    ASSUME NEW ss, Len(ss) \in Nat, Len(ss) # 0
    PROVE  FlattenSeq(ss) = Flat(ss)[Len(ss)]
BY DEF FlattenSeq, Flat

LEMMA FlattenOne ==
    ASSUME NEW ss, Len(ss) = 1
    PROVE  FlattenSeq(ss) = ss[1]
<1>1. Len(ss) \in Nat /\ Len(ss) # 0 /\ 1 \in 1 .. Len(ss)
  OBVIOUS
<1> QED  BY <1>1, FlatIs, FlattenIs

LEMMA FlattenMore ==
    ASSUME NEW ss, NEW tt, Len(ss) \in Nat, Len(ss) # 0, Len(tt) = Len(ss) + 1,
           \A i \in 1 .. Len(ss) : tt[i] = ss[i]
    PROVE  FlattenSeq(tt) = FlattenSeq(ss) \o tt[Len(tt)]
<1> DEFINE n == Len(ss)
           Bad == {i \in Nat : i \in 1 .. n /\ Flat(tt)[i] # Flat(ss)[i]}
<1>1. n \in Nat /\ n # 0 /\ Len(tt) = n + 1 /\ Len(tt) \in Nat /\ Len(tt) # 0
  OBVIOUS
<1>2. /\ \A i \in 1 .. n : Flat(ss)[i] = IF i = 1 THEN ss[i] ELSE Flat(ss)[i - 1] \o ss[i]
      /\ \A i \in 1 .. n + 1 : Flat(tt)[i] = IF i = 1 THEN tt[i] ELSE Flat(tt)[i - 1] \o tt[i]
  BY <1>1, FlatIs
<1>3. Bad = {}
  <2> SUFFICES ASSUME Bad # {} PROVE FALSE
    OBVIOUS
  <2>1. PICK i \in Bad : \A k \in Bad : i <= k
    <3>1. Bad \subseteq Nat
      OBVIOUS
    <3> HIDE DEF Bad
    <3> QED  BY <3>1, LeastNat
  <2>2. i \in 1 .. n /\ i \in 1 .. n + 1 /\ tt[i] = ss[i] /\ Flat(tt)[i] # Flat(ss)[i]
    BY <1>1
  <2>3. i # 1
    BY <1>2, <2>2
  <2>4. i - 1 \in 1 .. n /\ i - 1 \in Nat /\ ~(i <= i - 1)
    BY <1>1, <2>2, <2>3
  <2>5. Flat(tt)[i - 1] = Flat(ss)[i - 1]
    BY <2>1, <2>4
  <2> QED  BY <1>2, <2>2, <2>3, <2>5
<1>4. Flat(tt)[n] = Flat(ss)[n]
  <2>1. n \in Nat /\ n \in 1 .. n
    BY <1>1
  <2> HIDE DEF n
  <2> QED  BY <1>3, <2>1
<1>5. n + 1 \in 1 .. n + 1 /\ n + 1 # 1 /\ n + 1 - 1 = n
  BY <1>1
<1>6. Flat(tt)[n + 1] = Flat(tt)[n] \o tt[n + 1]
  <2>1. \A i \in 1 .. n + 1 : Flat(tt)[i] = IF i = 1 THEN tt[i] ELSE Flat(tt)[i - 1] \o tt[i]
    BY <1>2
  <2> HIDE DEF n
  <2> DEFINE m == n + 1
  <2>2. m \in 1 .. n + 1 /\ m # 1 /\ m - 1 = n
    BY <1>1
  <2> HIDE DEF m
  <2>3. Flat(tt)[m] = Flat(tt)[m - 1] \o tt[m]
    BY <2>1, <2>2
  <2> QED  BY <2>2, <2>3 DEF m
<1> QED  BY <1>1, <1>4, <1>6, FlattenIs

LEMMA FlattenType ==
    ASSUME NEW S, NEW ss, Len(ss) \in Nat, Len(ss) # 0, \A i \in 1 .. Len(ss) : ss[i] \in Seq(S)
    PROVE  FlattenSeq(ss) \in Seq(S)
<1> DEFINE n == Len(ss)
           Bad == {i \in Nat : i \in 1 .. n /\ Flat(ss)[i] \notin Seq(S)}
<1>1. n \in Nat /\ n # 0
  OBVIOUS
<1>2. \A i \in 1 .. n : Flat(ss)[i] = IF i = 1 THEN ss[i] ELSE Flat(ss)[i - 1] \o ss[i]
  BY <1>1, FlatIs
<1>3. Bad = {}
  <2> SUFFICES ASSUME Bad # {} PROVE FALSE
    OBVIOUS
  <2>1. PICK i \in Bad : \A k \in Bad : i <= k
    <3>1. Bad \subseteq Nat
      OBVIOUS
    <3> HIDE DEF Bad
    <3> QED  BY <3>1, LeastNat
  <2>2. i \in 1 .. n /\ ss[i] \in Seq(S) /\ Flat(ss)[i] \notin Seq(S)
    BY <1>1
  <2>3. i # 1
    BY <1>2, <2>2
  <2>4. i - 1 \in 1 .. n /\ i - 1 \in Nat /\ ~(i <= i - 1)
    BY <1>1, <2>2, <2>3
  <2>5. Flat(ss)[i - 1] \in Seq(S)
    BY <2>1, <2>4
  <2>6. Flat(ss)[i - 1] \o ss[i] \in Seq(S)
    BY <2>2, <2>5, ConcatProperties
  <2> QED  BY <1>2, <2>2, <2>3, <2>6
<1>4. n \in Nat /\ n \in 1 .. n
  BY <1>1
<1> HIDE DEF n
<1>5. Flat(ss)[n] \in Seq(S)
  BY <1>3, <1>4
<1> QED  BY <1>1, <1>5, FlattenIs DEF n

-----------------------------------------------------------------------------
(* What is written: r is the record of a node, list its children, W a       *)
(* function that gives the text of every node.                              *)

Symbol == Char \cup {"key", "number", "{", "[", "}", "]", ","}

Name(r) == IF r.keyed THEN <<"key">> ELSE <<>>
Begin(r) == Name(r) \o <<IF r.type = Json4cObject THEN "{" ELSE "[">>
End(r) == <<IF r.type = Json4cObject THEN "}" ELSE "]">>

Body(W, r, list) ==
    IF r.type = Json4cNumber THEN Name(r) \o <<"number">>
    ELSE IF r.type = Json4cString THEN Name(r) \o <<"quote">> \o r.value \o <<"quote">>
    ELSE Begin(r) \o Joined([i \in DOMAIN list |-> W[list[i]]]) \o End(r)

IsWritten(W, heap, lists) == \A n \in Nodes : W[n] = Body(W, heap[n], lists[n])

\* The texts of the first k children, with commas between them.
Pre(W, list, k) == Joined([i \in 1 .. k |-> W[list[i]]])

\* What a call of jToString for an instance has written when it is past k children.
Ret(W, r, list, k) == IF k = 0 THEN Begin(r) ELSE Begin(r) \o Pre(W, list, k) \o <<",">>

LEMMA Symbols ==
    /\ <<"key">> \in Seq(Symbol) /\ <<"number">> \in Seq(Symbol) /\ <<"quote">> \in Seq(Symbol)
    /\ <<",">> \in Seq(Symbol) /\ <<>> \in Seq(Symbol)
    /\ \A r : Name(r) \in Seq(Symbol) /\ Begin(r) \in Seq(Symbol) /\ End(r) \in Seq(Symbol)
<1>1. /\ <<"key">> \in Seq(Symbol) /\ <<"number">> \in Seq(Symbol) /\ <<"quote">> \in Seq(Symbol)
      /\ <<",">> \in Seq(Symbol) /\ <<>> \in Seq(Symbol)
  BY DEF Symbol, Char
<1>2. \A r : Name(r) \in Seq(Symbol)
  BY <1>1 DEF Name
<1>3. /\ <<"{">> \in Seq(Symbol) /\ <<"[">> \in Seq(Symbol)
      /\ <<"}">> \in Seq(Symbol) /\ <<"]">> \in Seq(Symbol)
  BY DEF Symbol
<1>4. ASSUME NEW r
      PROVE /\ End(r) \in Seq(Symbol)
            /\ <<IF r.type = Json4cObject THEN "{" ELSE "[">> \in Seq(Symbol)
  BY <1>3 DEF End
<1>5. ASSUME NEW r PROVE Begin(r) \in Seq(Symbol)
  BY <1>2, <1>4, ConcatProperties DEF Begin
<1> QED  BY <1>1, <1>2, <1>4, <1>5

LEMMA strreplaceType ==
    ASSUME NEW v \in Seq(Char) PROVE strreplace(v) \in Seq(Char)
<1> DEFINE f == [i \in DOMAIN v |-> IF v[i] = "quote" THEN <<"backslash", "quote">> ELSE <<v[i]>>]
<1>1. Len(v) \in Nat /\ DOMAIN v = 1 .. Len(v) /\ \A i \in 1 .. Len(v) : v[i] \in Char
  BY LenProperties, ElementOfSeq
<1>2. <<"backslash", "quote">> \in Seq(Char) /\ \A c \in Char : <<c>> \in Seq(Char)
  BY DEF Char
<1>3. f \in [1 .. Len(v) -> Seq(Char)]
  BY <1>1, <1>2
<1>4. strreplace(v) = FlattenSeq(f)
  BY DEF strreplace
<1> HIDE DEF f
<1>5. f \in Seq(Seq(Char)) /\ Len(f) = Len(v) /\ \A i \in 1 .. Len(f) : f[i] \in Seq(Char)
  BY <1>1, <1>3, FunctionSeq
<1>6. CASE Len(v) = 0
  <2>1. FlattenSeq(f) = f /\ f = <<>>
    BY <1>5, <1>6, EmptySeq DEF FlattenSeq
  <2> QED  BY <1>4, <2>1, EmptySeq
<1>7. CASE Len(v) # 0
  BY <1>1, <1>4, <1>5, <1>7, FlattenType
<1> QED  BY <1>6, <1>7

LEMMA ValueType ==
    ASSUME Shape(node, given, memory, loose), NEW n \in Nodes
    PROVE  node[n].value \in Seq(Symbol)
<1>1. node[n].value \in Texts
  BY DEF Shape, ShapeType, NodeRecord
<1>2. \A v \in Values : v \in Seq(Char) /\ strreplace(v) \in Seq(Char)
  BY JsonAssumption, strreplaceType
<1>3. Char \subseteq Symbol
  BY DEF Char, Symbol
<1>4. \A v \in Seq(Char) : v \in Seq(Symbol)
  BY <1>3, SeqMonotonic
<1> QED  BY <1>1, <1>2, <1>4, EmptySeq DEF Texts

\* One child more.
LEMMA PreIs ==
    ASSUME NEW W, NEW list, NEW k \in Nat, \A i \in 1 .. k : W[list[i]] \in Seq(Symbol)
    PROVE  /\ k = 0 => Pre(W, list, k) = <<>>
           /\ k = 1 => Pre(W, list, k) = W[list[1]]
           /\ k > 1 => Pre(W, list, k) = Pre(W, list, k - 1) \o (<<",">> \o W[list[k]])
           /\ Pre(W, list, k) \in Seq(Symbol)
<1> DEFINE F(n) == [i \in 1 .. n |-> IF i = 1 THEN W[list[i]] ELSE <<",">> \o W[list[i]]]
<1>1. ASSUME NEW n \in Nat, n <= k
      PROVE  /\ Pre(W, list, n) = FlattenSeq(F(n)) /\ F(n) \in Seq(Seq(Symbol)) /\ Len(F(n)) = n
             /\ \A i \in 1 .. n : F(n)[i] \in Seq(Symbol)
  <2>1. \A i \in 1 .. n : i \in 1 .. k
    BY <1>1
  <2>2. \A i \in 1 .. n : (<<",">> \o W[list[i]]) \in Seq(Symbol)
    BY <2>1, Symbols, ConcatProperties
  <2>3. F(n) \in [1 .. n -> Seq(Symbol)]
    BY <2>1, <2>2
  <2>4. Pre(W, list, n) = FlattenSeq(F(n))
    <3> DEFINE g == [i \in 1 .. n |-> W[list[i]]]
    <3>1. DOMAIN g = 1 .. n /\ \A i \in 1 .. n : g[i] = W[list[i]]
      OBVIOUS
    <3>2. Pre(W, list, n) = FlattenSeq([i \in DOMAIN g |-> IF i = 1 THEN g[i] ELSE <<",">> \o g[i]])
      BY DEF Pre, Joined
    <3>3. [i \in DOMAIN g |-> IF i = 1 THEN g[i] ELSE <<",">> \o g[i]] = F(n)
      <4> HIDE DEF g
      <4> QED  BY <3>1
    <3> QED  BY <3>2, <3>3
  <2> DEFINE f == F(n)
  <2>5. f \in [1 .. n -> Seq(Symbol)]
    BY <2>3
  <2> HIDE DEF f
  <2>6. f \in Seq(Seq(Symbol)) /\ Len(f) = n /\ \A i \in 1 .. n : f[i] \in Seq(Symbol)
    BY <2>5, FunctionSeq
  <2> QED  BY <2>4, <2>6 DEF f
<1>2. CASE k = 0
  <2> DEFINE f == F(k)
  <2>1. Pre(W, list, k) = FlattenSeq(f) /\ f \in Seq(Seq(Symbol)) /\ Len(f) = 0
    <3>1. k <= k
      OBVIOUS
    <3> HIDE DEF F
    <3> QED  BY <1>1, <1>2, <3>1
  <2> HIDE DEF f
  <2>2. FlattenSeq(f) = f /\ f = <<>>
    BY <2>1, EmptySeq DEF FlattenSeq
  <2>3. Pre(W, list, k) = <<>> /\ <<>> \in Seq(Symbol)
    BY <2>1, <2>2, EmptySeq
  <2>4. ~(k = 1) /\ ~(k > 1)
    BY <1>2
  <2> HIDE DEF f, F
  <2> QED  BY <2>3, <2>4
<1>3. CASE k # 0
  <2> DEFINE f == F(k)
  <2>1. /\ Pre(W, list, k) = FlattenSeq(f) /\ Len(f) = k /\ \A i \in 1 .. k : f[i] \in Seq(Symbol)
    <3>1. k <= k
      OBVIOUS
    <3> HIDE DEF F
    <3> QED  BY <1>1, <1>3, <3>1
  <2>2. f[1] = W[list[1]] /\ f[k] = IF k = 1 THEN W[list[k]] ELSE <<",">> \o W[list[k]]
    <3>1. 1 \in 1 .. k /\ k \in 1 .. k
      BY <1>3
    <3> QED  BY <3>1
  <2>3. Pre(W, list, k) \in Seq(Symbol)
    <3> HIDE DEF f
    <3> QED  BY <1>3, <2>1, FlattenType
  <2>4. CASE k = 1
    <3>1. Pre(W, list, k) = f[1]
      <4> HIDE DEF f
      <4> QED  BY <2>1, <2>4, FlattenOne
    <3> QED  BY <2>2, <2>3, <2>4, <3>1
  <2>5. CASE k # 1
    <3> DEFINE h == F(k - 1)
    <3>1. k - 1 \in Nat /\ k - 1 <= k /\ k - 1 # 0 /\ k > 1 /\ k - 1 + 1 = k
      BY <1>3, <2>5
    <3>2. Pre(W, list, k - 1) = FlattenSeq(h) /\ Len(h) = k - 1
      BY <1>1, <3>1
    <3>3. \A i \in 1 .. k - 1 : f[i] = h[i]
      <4>1. \A i \in 1 .. k - 1 : i \in 1 .. k
        BY <3>1
      <4> QED  BY <4>1
    <3>4. FlattenSeq(f) = FlattenSeq(h) \o f[k]
      <4> HIDE DEF f, h
      <4> QED  BY <2>1, <3>1, <3>2, <3>3, FlattenMore
    <3> HIDE DEF f, h
    <3> QED  BY <1>3, <2>1, <2>2, <2>3, <2>5, <3>2, <3>4
  <2> QED  BY <2>4, <2>5
<1> QED  BY <1>2, <1>3

LEMMA Associative ==
    ASSUME NEW s \in Seq(Symbol), NEW t \in Seq(Symbol), NEW u \in Seq(Symbol)
    PROVE  (s \o t) \o u = s \o (t \o u)
BY ConcatAssociative

LEMMA RetMore ==
    ASSUME NEW W, NEW r, NEW list, NEW k \in Nat, \A i \in 1 .. k + 1 : W[list[i]] \in Seq(Symbol)
    PROVE  /\ Ret(W, r, list, k) \in Seq(Symbol)
           /\ (Ret(W, r, list, k) \o W[list[k + 1]]) \o <<",">> = Ret(W, r, list, k + 1)
<1> DEFINE w == W[list[k + 1]]
           b == Begin(r)
           q == Pre(W, list, k)
           c == <<",">>
<1>1. b \in Seq(Symbol) /\ w \in Seq(Symbol) /\ c \in Seq(Symbol)
  <2>1. k + 1 \in 1 .. k + 1
    OBVIOUS
  <2> QED  BY <2>1, Symbols
<1>2. k + 1 \in Nat /\ k + 1 > 0 /\ k + 1 # 0 /\ k + 1 - 1 = k /\ \A i \in 1 .. k : i \in 1 .. k + 1
  OBVIOUS
<1>3. q \in Seq(Symbol) /\ Pre(W, list, k + 1) = IF k = 0 THEN w ELSE q \o (c \o w)
  <2>1. q \in Seq(Symbol)
    BY <1>2, PreIs
  <2>2. /\ k + 1 = 1 => Pre(W, list, k + 1) = W[list[1]]
        /\ k + 1 > 1 => Pre(W, list, k + 1) = Pre(W, list, k) \o (<<",">> \o W[list[k + 1]])
    <3> DEFINE m == k + 1
    <3>1. m \in Nat /\ m - 1 = k /\ \A i \in 1 .. m : W[list[i]] \in Seq(Symbol)
      BY <1>2
    <3> HIDE DEF m
    <3>2. /\ m = 1 => Pre(W, list, m) = W[list[1]]
          /\ m > 1 => Pre(W, list, m) = Pre(W, list, m - 1) \o (<<",">> \o W[list[m]])
      BY <3>1, PreIs
    <3> QED  BY <3>1, <3>2 DEF m
  <2>3. CASE k = 0
    BY <2>1, <2>2, <2>3
  <2>4. CASE k # 0
    <3>1. k + 1 > 1
      BY <2>4
    <3> QED  BY <1>2, <2>1, <2>2, <2>4, <3>1
  <2> QED  BY <2>3, <2>4
<1>4. /\ Ret(W, r, list, k) = IF k = 0 THEN b ELSE b \o q \o c
      /\ Ret(W, r, list, k + 1) = b \o Pre(W, list, k + 1) \o c
  BY <1>2 DEF Ret
<1> HIDE DEF w, b, q, c
<1>5. b \o q \in Seq(Symbol) /\ (b \o q) \o c \in Seq(Symbol) /\ c \o w \in Seq(Symbol)
  BY <1>1, <1>3, ConcatProperties
<1>6. CASE k = 0
  BY <1>1, <1>3, <1>4, <1>6 DEF w, c
<1>7. CASE k # 0
  <2> DEFINE bq == b \o q
             cw == c \o w
             x == q \o cw
  <2>1. bq \in Seq(Symbol) /\ cw \in Seq(Symbol)
    BY <1>5
  <2>2. bq \o cw = b \o (q \o cw)
    <3>1. b \in Seq(Symbol) /\ q \in Seq(Symbol) /\ cw \in Seq(Symbol)
      BY <1>1, <1>3, <2>1
    <3> HIDE DEF cw
    <3> QED  BY <3>1, Associative
  <2>3. (bq \o c) \o w = bq \o (c \o w)
    <3> HIDE DEF bq
    <3> QED  BY <1>1, <2>1, ConcatAssociative
  <2>4. (Ret(W, r, list, k) \o w) \o c = ((bq \o c) \o w) \o c
    BY <1>4, <1>7
  <2>5. Ret(W, r, list, k + 1) = (b \o x) \o c
    BY <1>3, <1>4, <1>7
  <2>6. Ret(W, r, list, k) \in Seq(Symbol)
    BY <1>4, <1>5, <1>7
  <2> HIDE DEF bq
  <2> QED  BY <2>2, <2>3, <2>4, <2>5, <2>6 DEF w, c
<1> QED  BY <1>6, <1>7

\* The last comma goes.
LEMMA WithoutComma ==
    ASSUME NEW s \in Seq(Symbol)
    PROVE  Front(s \o <<",">>) = s
<1> DEFINE c == <<",">>
           t == s \o c
<1>1. c \in Seq(Symbol) /\ Len(c) = 1 /\ Len(s) \in Nat
  BY Symbols, LenProperties
<1>2. t \in Seq(Symbol) /\ Len(t) = Len(s) + 1 /\ Front(t) = SubSeq(t, 1, Len(s))
  <2>1. t \in Seq(Symbol) /\ Len(t) = Len(s) + Len(c)
    <3> HIDE DEF c
    <3> QED  BY <1>1, ConcatProperties
  <2> HIDE DEF t, c
  <2>2. Len(t) = Len(s) + 1 /\ Len(t) - 1 = Len(s)
    BY <1>1, <2>1
  <2> QED  BY <2>1, <2>2 DEF Front
<1>3. CASE Len(s) = 0
  <2>1. s = <<>>
    BY <1>3, EmptySeq
  <2>2. SubSeq(t, 1, Len(s)) = <<>>
    <3>1. 1 \in Int /\ Len(s) \in Int /\ Len(s) < 1
      BY <1>3
    <3> QED  BY <3>1, SubSeqEmpty
  <2> QED  BY <1>2, <2>1, <2>2
<1>4. CASE Len(s) # 0
  <2>1. 1 \in 1 .. Len(s) /\ Len(s) \in 1 .. Len(s)
    <3> HIDE DEF c
    <3> QED  BY <1>1, <1>4
  <2>2. SubSeq(t, 1, Len(s)) = SubSeq(s, 1, Len(s))
    <3> HIDE DEF c
    <3> QED  BY <1>1, <2>1, SubSeqOfConcat1
  <2>3. SubSeq(s, 1, Len(s)) = s
    BY SubSeqFull
  <2> QED  BY <1>2, <2>2, <2>3
<1> QED  BY <1>3, <1>4

-----------------------------------------------------------------------------
(* The texts of the nodes of a tree.                                        *)

LEMMA YoungerChildren ==
    ASSUME Shape(node, given, memory, loose), NEW n \in Nodes
    PROVE  /\ node[n].type \in Instances \/ node[n].type = Json4cNumber \/ node[n].type = Json4cString
           /\ node[n].type \in Instances =>
                  /\ node[n].type # Json4cNumber /\ node[n].type # Json4cString
                  /\ given[n] \in Seq(Nodes) /\ Len(given[n]) \in Nat
                  /\ DOMAIN given[n] = 1 .. Len(given[n])
                  /\ \A i \in 1 .. Len(given[n]) : given[n][i] \in Nodes /\ n < given[n][i]
<1>1. node[n].type \in Types
  BY DEF Shape, ShapeType, NodeRecord
<1>2. ASSUME node[n].type \in Instances
      PROVE  /\ given[n] \in Seq(Nodes) /\ Len(given[n]) \in Nat
             /\ DOMAIN given[n] = 1 .. Len(given[n])
             /\ \A i \in 1 .. Len(given[n]) : given[n][i] \in Nodes /\ n < given[n][i]
  <2>1. given[n] \in Seq(Nodes)
    BY <1>2 DEF Shape, Chained
  <2>2. Len(given[n]) \in Nat /\ DOMAIN given[n] = 1 .. Len(given[n])
    BY <2>1, LenProperties
  <2> QED  BY <1>2, <2>1, <2>2, ChildAt
<1> QED  BY <1>1, <1>2 DEF Types, Instances, Json4cNumber, Json4cString, Json4cObject, Json4cArray

\* The text of a node depends on those of its children only.
LEMMA BodySame ==
    ASSUME Shape(node, given, memory, loose), NEW n \in Nodes, NEW g, NEW h,
           \A c \in Nodes : n < c => g[c] = h[c]
    PROVE  Body(g, node[n], given[n]) = Body(h, node[n], given[n])
<1>1. CASE node[n].type \in Instances
  <2> DEFINE list == given[n]
  <2>1. \A i \in DOMAIN list : g[list[i]] = h[list[i]]
    BY <1>1, YoungerChildren
  <2> HIDE DEF list
  <2>2. [i \in DOMAIN list |-> g[list[i]]] = [i \in DOMAIN list |-> h[list[i]]]
    BY <2>1
  <2> QED  BY <2>2 DEF Body, list
<1>2. CASE node[n].type \notin Instances
  BY <1>2, YoungerChildren DEF Body
<1> QED  BY <1>1, <1>2

LEMMA WrittenIs ==
    ASSUME Shape(node, given, memory, loose)
    PROVE  IsWritten(Written, node, given)
<1> DEFINE B(g, n) == Body(g, node[n], given[n])
           To(g, m) == /\ g = [n \in Nodes |-> g[n]]
                       /\ \A n \in Nodes : n > MaxNodes - m => g[n] = B(g, n)
           Bad == {m \in Nat : m <= MaxNodes /\ ~\E g : To(g, m)}
<1>1. MaxNodes \in Nat /\ \A n \in Nodes : n \in Nat /\ n >= 1 /\ n <= MaxNodes
  BY JsonAssumption DEF Nodes
<1>2. ASSUME NEW n \in Nodes, NEW g, NEW h, \A c \in Nodes : n < c => g[c] = h[c]
      PROVE  B(g, n) = B(h, n)
  BY <1>2, BodySame
<1> HIDE DEF B
<1>3. Bad = {}
  <2> SUFFICES ASSUME Bad # {} PROVE FALSE
    OBVIOUS
  <2>1. PICK m \in Bad : \A k \in Bad : m <= k
    <3>1. Bad \subseteq Nat
      OBVIOUS
    <3> HIDE DEF Bad
    <3> QED  BY <3>1, LeastNat
  <2>2. m \in Nat /\ m <= MaxNodes /\ ~\E g : To(g, m)
    OBVIOUS
  <2>3. CASE m = 0
    <3> DEFINE g == [n \in Nodes |-> n]
    <3>1. To(g, m)
      BY <1>1, <2>3
    <3> HIDE DEF To, g
    <3> QED  BY <2>2, <3>1
  <2>4. CASE m # 0
    <3>1. m - 1 \in Nat /\ m - 1 <= MaxNodes /\ ~(m <= m - 1)
      BY <1>1, <2>2, <2>4
    <3>2. PICK g : To(g, m - 1)
      <4> HIDE DEF To
      <4> QED  BY <2>1, <3>1
    <3> DEFINE last == MaxNodes - m + 1
               new == B(g, last)
               h == [n \in Nodes |-> IF n = last THEN new ELSE g[n]]
    <3>3. last \in Int /\ last = MaxNodes - (m - 1)
      BY <1>1, <2>2
    <3> HIDE DEF new
    <3>4. ASSUME NEW n \in Nodes, n > MaxNodes - m PROVE h[n] = B(h, n)
      <4>1. n = last \/ n > MaxNodes - (m - 1)
        BY <1>1, <2>2, <3>4
      <4>2. \A c \in Nodes : n < c => g[c] = h[c]
        BY <1>1, <2>2, <3>4
      <4> HIDE DEF h, last
      <4>3. B(g, n) = B(h, n)
        BY <1>2, <4>2
      <4>4. CASE n = last
        <5>1. h[n] = new
          BY <4>4 DEF h
        <5> QED  BY <4>3, <4>4, <5>1 DEF new
      <4>5. CASE n # last
        <5>1. h[n] = g[n]
          BY <4>5 DEF h
        <5> QED  BY <3>2, <4>1, <4>3, <4>5, <5>1
      <4> QED  BY <4>4, <4>5
    <3>5. h = [n \in Nodes |-> h[n]]
      OBVIOUS
    <3> HIDE DEF h
    <3>6. To(h, m)
      BY <3>4, <3>5
    <3> HIDE DEF To
    <3> QED  BY <2>2, <3>6
  <2> QED  BY <2>3, <2>4
<1>4. \E g : To(g, MaxNodes)
  <2>1. MaxNodes \notin Bad
    BY <1>3
  <2> HIDE DEF To
  <2> QED  BY <1>1, <2>1
<1>5. PICK g : To(g, MaxNodes)
  BY <1>4
<1>6. g = [n \in Nodes |-> B(g, n)]
  <2>1. \A n \in Nodes : g[n] = B(g, n)
    BY <1>1, <1>5
  <2>2. g = [n \in Nodes |-> g[n]]
    BY <1>5
  <2> QED  BY <2>1, <2>2
<1>7. Written = CHOOSE f : f = [n \in Nodes |-> B(f, n)]
  BY DEF Written, B, Body, Name, Begin, End, Key, Closing
<1>8. Written = [n \in Nodes |-> B(Written, n)]
  BY <1>6, <1>7
<1>9. \A n \in Nodes : Written[n] = B(Written, n)
  <2> DEFINE w == Written
  <2>1. w = [n \in Nodes |-> B(w, n)]
    BY <1>8
  <2> HIDE DEF w
  <2>2. \A n \in Nodes : w[n] = B(w, n)
    BY <2>1
  <2> QED  BY <2>2 DEF w
<1> QED  BY <1>9 DEF B, IsWritten

LEMMA WrittenInstance ==
    ASSUME Shape(node, given, memory, loose), NEW W, IsWritten(W, node, given), NEW n \in Nodes,
           node[n].type \in Instances
    PROVE  W[n] = Begin(node[n]) \o Pre(W, given[n], Len(given[n])) \o End(node[n])
BY YoungerChildren DEF IsWritten, Body, Pre

LEMMA WrittenType ==
    ASSUME Shape(node, given, memory, loose), NEW W, IsWritten(W, node, given)
    PROVE  \A n \in Nodes : W[n] \in Seq(Symbol)
<1> DEFINE Bad == {m \in Nat : MaxNodes - m \in Nodes /\ W[MaxNodes - m] \notin Seq(Symbol)}
<1>1. MaxNodes \in Nat /\ \A n \in Nodes : n \in Nat /\ n >= 1 /\ n <= MaxNodes
  BY JsonAssumption DEF Nodes
<1>2. Bad = {}
  <2> SUFFICES ASSUME Bad # {} PROVE FALSE
    OBVIOUS
  <2>1. PICK m \in Bad : \A k \in Bad : m <= k
    <3>1. Bad \subseteq Nat
      OBVIOUS
    <3> HIDE DEF Bad
    <3> QED  BY <3>1, LeastNat
  <2> DEFINE n == MaxNodes - m
  <2>2. n \in Nodes /\ W[n] \notin Seq(Symbol) /\ m \in Nat
    OBVIOUS
  <2>3. ASSUME NEW c \in Nodes, n < c PROVE W[c] \in Seq(Symbol)
    <3> DEFINE k == MaxNodes - c
    <3>1. k \in Nat /\ ~(m <= k) /\ MaxNodes - k = c
      BY <1>1, <2>3
    <3> HIDE DEF k
    <3> QED  BY <2>1, <3>1
  <2> HIDE DEF n
  <2>4. W[n] = Body(W, node[n], given[n])
    BY <2>2 DEF IsWritten
  <2>5. Name(node[n]) \in Seq(Symbol) /\ node[n].value \in Seq(Symbol)
    BY <2>2, Symbols, ValueType
  <2>6. CASE node[n].type = Json4cNumber
    <3>1. W[n] = Name(node[n]) \o <<"number">>
      BY <2>4, <2>6 DEF Body
    <3> DEFINE a == Name(node[n])
               u == <<"number">>
    <3>2. a \in Seq(Symbol) /\ u \in Seq(Symbol)
      BY <2>5, Symbols
    <3> HIDE DEF a, u
    <3>3. a \o u \in Seq(Symbol)
      BY <3>2, ConcatProperties
    <3> QED  BY <2>2, <3>1, <3>3 DEF a, u
  <2>7. CASE node[n].type = Json4cString
    <3> DEFINE a == Name(node[n]) \o <<"quote">>
               b == a \o node[n].value
    <3>1. W[n] = b \o <<"quote">>
      BY <2>4, <2>7 DEF Body, Json4cString, Json4cNumber
    <3>2. a \in Seq(Symbol)
      BY <2>5, Symbols, ConcatProperties
    <3> HIDE DEF a
    <3>3. b \in Seq(Symbol)
      BY <2>5, <3>2, ConcatProperties
    <3> HIDE DEF b
    <3>4. b \o <<"quote">> \in Seq(Symbol)
      BY <3>3, Symbols, ConcatProperties
    <3> QED  BY <2>2, <3>1, <3>4
  <2>8. CASE node[n].type \in Instances
    <3> DEFINE list == given[n]
               q == Pre(W, list, Len(list))
               b == Begin(node[n])
               e == End(node[n])
    <3>1. Len(list) \in Nat /\ \A i \in 1 .. Len(list) : W[list[i]] \in Seq(Symbol)
      BY <2>2, <2>3, <2>8, YoungerChildren
    <3>2. q \in Seq(Symbol)
      <4> HIDE DEF list
      <4> QED  BY <3>1, PreIs
    <3>3. W[n] = (b \o q) \o e
      BY <2>2, <2>8, WrittenInstance
    <3>4. b \in Seq(Symbol) /\ e \in Seq(Symbol)
      BY Symbols
    <3> HIDE DEF q, b, e
    <3>5. b \o q \in Seq(Symbol)
      BY <3>2, <3>4, ConcatProperties
    <3> DEFINE bq == b \o q
    <3>6. bq \in Seq(Symbol)
      BY <3>5
    <3> HIDE DEF bq
    <3>7. bq \o e \in Seq(Symbol)
      BY <3>4, <3>6, ConcatProperties
    <3> QED  BY <2>2, <3>3, <3>7 DEF bq
  <2> QED  BY <2>2, <2>6, <2>7, <2>8, YoungerChildren
<1> SUFFICES ASSUME NEW n \in Nodes, W[n] \notin Seq(Symbol) PROVE FALSE
  OBVIOUS
<1> DEFINE k == MaxNodes - n
<1>3. k \in Nat /\ MaxNodes - k = n
  BY <1>1
<1> HIDE DEF k
<1> QED  BY <1>2, <1>3

\* What jToString returns for a node that has no children to walk.
LEMMA ScalarText ==
    ASSUME Shape(node, given, memory, loose), NEW W, IsWritten(W, node, given), NEW n \in Nodes
    PROVE  /\ node[n].type = Json4cNumber => numberToString(n) = W[n]
           /\ node[n].type = Json4cString => stringToString(n) = W[n]
<1>1. W[n] \in Seq(Symbol) /\ W[n] = Body(W, node[n], given[n])
  BY WrittenType DEF IsWritten
<1>2. ksnprintf(W[n]) = W[n]
  BY <1>1, NothingCut
<1>3. node[n].type = Json4cNumber => numberToString(n) = ksnprintf(W[n])
  BY <1>1 DEF numberToString, Key, Body, Name
<1>4. node[n].type = Json4cString => stringToString(n) = ksnprintf(W[n])
  BY <1>1 DEF stringToString, Key, Body, Name, Json4cString, Json4cNumber
<1> QED  BY <1>2, <1>3, <1>4

\* What it returns for an instance, past all children.
LEMMA ClosedText ==
    ASSUME Shape(node, given, memory, loose), NEW W, IsWritten(W, node, given), NEW call,
           call.node \in Nodes, node[call.node].type \in Instances,
           call.ret = Ret(W, node[call.node], given[call.node], Len(given[call.node]))
    PROVE  Closed(call) = W[call.node]
<1> DEFINE p == call.node
           list == given[p]
           n == Len(list)
           b == Begin(node[p])
           q == Pre(W, list, n)
           e == End(node[p])
           c == <<",">>
           bq == b \o q
           w == W[p]
<1>1. n \in Nat /\ \A i \in 1 .. n : W[list[i]] \in Seq(Symbol)
  BY WrittenType, YoungerChildren
<1>2. /\ q \in Seq(Symbol) /\ b \in Seq(Symbol) /\ e \in Seq(Symbol) /\ c \in Seq(Symbol)
      /\ n = 0 => q = <<>>
  <2>1. q \in Seq(Symbol) /\ (n = 0 => q = <<>>)
    <3> HIDE DEF n, list
    <3> QED  BY <1>1, PreIs
  <2> QED  BY <2>1, Symbols
<1>3. w = bq \o e /\ w \in Seq(Symbol)
  BY WrittenInstance, WrittenType
<1>4. call.ret = IF n = 0 THEN b ELSE bq \o c
  BY DEF Ret
<1>5. node[p].child = NULL <=> n = 0
  <2>1. node[p].child = IF n = 0 THEN NULL ELSE list[1]
    BY DEF Shape, Chained
  <2>2. n # 0 => list[1] \in Nodes
    BY <1>1, YoungerChildren
  <2> QED  BY <2>1, <2>2, Bounds
<1>6. Closing(p) = e
  BY DEF Closing, End
<1> DEFINE kept == IF node[p].child = NULL THEN call.ret ELSE Front(call.ret)
<1>7. Closed(call) = ksnprintf(kept \o e)
  BY <1>6 DEF Closed, kstrncat
<1>8. kept = bq
  <2>1. CASE n = 0
    <3>1. bq = b
      <4>1. q = <<>>
        BY <1>2, <2>1
      <4> HIDE DEF q, b
      <4> QED  BY <1>2, <4>1, ConcatEmptySeq
    <3> QED  BY <1>4, <1>5, <2>1, <3>1
  <2>2. CASE n # 0
    <3>1. bq \in Seq(Symbol)
      <4> HIDE DEF q, b
      <4> QED  BY <1>2, ConcatProperties
    <3>2. Front(bq \o c) = bq
      <4> HIDE DEF bq
      <4> QED  BY <3>1, WithoutComma
    <3> QED  BY <1>4, <1>5, <2>2, <3>2
  <2> QED  BY <2>1, <2>2
<1> HIDE DEF kept, bq, e, w
<1>9. Closed(call) = ksnprintf(w)
  BY <1>3, <1>7, <1>8
<1>10. ksnprintf(w) = w
  BY <1>3, NothingCut
<1> QED  BY <1>9, <1>10 DEF w

-----------------------------------------------------------------------------
(* The calls of jToString write the texts of their nodes.                   *)

\* Call i has the texts of k children of its node, and is at the next one.
Writes(W, calls, i, k) ==
    LET p == calls[i].node
    IN  /\ calls[i].ret = Ret(W, node[p], given[p], k)
        /\ calls[i].child = IF k < Len(given[p]) THEN given[p][k + 1] ELSE NULL
        /\ i < Len(calls) => calls[i + 1].node = calls[i].child

Writing(W, calls) ==
    /\ \A i \in 1 .. Len(calls) :
           /\ node[calls[i].node].type \in Instances
           /\ \E k \in 0 .. Len(given[calls[i].node]) : Writes(W, calls, i, k)
    /\ calls # <<>> => calls[1].node = Root

TextInv ==
    \A W : IsWritten(W, node, given) =>
        /\ pc = "build" => text = <<>>
        /\ pc = "print" => text = <<>> /\ Writing(W, stack)
        /\ pc \in {"free", "done"} => text = W[Root]

Added(s, t) == (s \o t) \o <<",">>

\* The call at a child has its text and goes on.
LEMMA WritingMoves ==
    ASSUME Shape(node, given, memory, loose), NEW W, IsWritten(W, node, given),
           NEW calls, StackType(calls), calls # <<>>, Writing(W, calls), Last(calls).child # NULL,
           NEW r, r = Added(Last(calls).ret, W[Last(calls).child])
    PROVE  /\ Last(calls).child \in Nodes
           /\ Last(calls).ret \in Seq(Symbol)
           /\ LET call == [node |-> Last(calls).node, child |-> node[Last(calls).child].next,
                           ret |-> r]
              IN  Writing(W, Append(Front(calls), call))
<1> DEFINE m == Len(calls)
           p == Last(calls).node
           c == Last(calls).child
           next == node[c].next
           call == [node |-> p, child |-> next, ret |-> r]
           new == Append(Front(calls), call)
           n == Len(given[p])
<1>1. /\ Last(calls) = calls[m] /\ m \in 1 .. m /\ m \in Nat /\ p \in Nodes
      /\ node[p].type \in Instances
  <2>1. Last(calls) = calls[m] /\ m \in 1 .. m /\ m \in Nat
    BY Popped, CallIs
  <2>2. calls[m].node \in Nodes /\ node[calls[m].node].type \in Instances
    BY <2>1, CallIs DEF Writing
  <2> QED  BY <2>1, <2>2
<1>2. PICK k \in 0 .. n : Writes(W, calls, m, k)
  BY <1>1 DEF Writing
<1>3. n \in Nat /\ \A i \in 1 .. n : given[p][i] \in Nodes /\ W[given[p][i]] \in Seq(Symbol)
  BY <1>1, YoungerChildren, WrittenType
<1>4. k \in Nat /\ k < n /\ k + 1 \in 1 .. n /\ c = given[p][k + 1] /\ c \in Nodes
  <2>1. k < n /\ c = given[p][k + 1]
    BY <1>1, <1>2 DEF Writes
  <2>2. k \in Nat /\ k + 1 \in 1 .. n
    BY <1>2, <1>3, <2>1
  <2> QED  BY <1>3, <2>1, <2>2
<1>5. /\ Last(calls).ret = Ret(W, node[p], given[p], k) /\ Last(calls).ret \in Seq(Symbol)
      /\ r = Ret(W, node[p], given[p], k + 1)
  <2> DEFINE list == given[p]
             it == node[p]
  <2>1. \A i \in 1 .. k + 1 : W[list[i]] \in Seq(Symbol)
    BY <1>3, <1>4
  <2>2. Last(calls).ret = Ret(W, it, list, k)
    BY <1>1, <1>2 DEF Writes
  <2>3. W[c] = W[list[k + 1]]
    BY <1>4
  <2> HIDE DEF list, it, p, c
  <2>4. /\ Ret(W, it, list, k) \in Seq(Symbol)
        /\ Added(Ret(W, it, list, k), W[list[k + 1]]) = Ret(W, it, list, k + 1)
    BY <1>4, <2>1, RetMore DEF Added
  <2>5. r = Added(Last(calls).ret, W[c])
    BY DEF c
  <2> QED  BY <2>2, <2>3, <2>4, <2>5 DEF list, it
<1>6. next = IF k + 1 < n THEN given[p][k + 1 + 1] ELSE NULL
  <2>1. next = IF k + 1 = n THEN NULL ELSE given[p][k + 1 + 1]
    BY <1>1, <1>4, ChildAt
  <2> QED  BY <1>3, <1>4, <2>1
<1>7. next \in Pointers
  BY <1>4, Walk
<1>8. /\ Len(new) = m /\ \A i \in 1 .. m - 1 : new[i] = calls[i]
      /\ new[m] = call
  <2> HIDE DEF next
  <2> QED  BY <1>7, Moved
<1>9. call.node = p /\ call.child = next /\ call.ret = r
  OBVIOUS
<1> HIDE DEF new, call, next, m, c, p, n
<1>10. Writes(W, new, m, k + 1) /\ k + 1 \in 0 .. n
  <2>1. ~(m < Len(new)) /\ k + 1 \in 0 .. n
    BY <1>1, <1>3, <1>4, <1>8
  <2> QED  BY <1>5, <1>6, <1>8, <1>9, <2>1 DEF Writes, n
<1>11. ASSUME NEW i \in 1 .. m - 1
       PROVE  /\ node[new[i].node].type \in Instances
              /\ \E j \in 0 .. Len(given[new[i].node]) : Writes(W, new, i, j)
  <2>1. i \in 1 .. Len(calls) /\ i < m /\ i + 1 \in 1 .. m
    BY <1>1 DEF m
  <2>2. PICK j \in 0 .. Len(given[calls[i].node]) : Writes(W, calls, i, j)
    BY <2>1 DEF Writing
  <2>3. new[i + 1].node = calls[i + 1].node
    <3>1. i + 1 = m \/ i + 1 \in 1 .. m - 1
      BY <1>1, <2>1
    <3> QED  BY <1>1, <1>8, <1>9, <3>1 DEF p
  <2>4. Writes(W, new, i, j)
    BY <1>8, <2>1, <2>2, <2>3 DEF Writes, m
  <2> QED  BY <1>8, <2>1, <2>2, <2>4 DEF Writing
<1>12. Writing(W, new)
  <2>1. ASSUME NEW i \in 1 .. Len(new)
        PROVE  /\ node[new[i].node].type \in Instances
               /\ \E j \in 0 .. Len(given[new[i].node]) : Writes(W, new, i, j)
    <3>1. i = m \/ i \in 1 .. m - 1
      BY <1>1, <1>8
    <3> QED  BY <1>1, <1>8, <1>9, <1>10, <1>11, <3>1 DEF n
  <2>2. new[1].node = Root
    <3>1. calls[1].node = Root
      BY DEF Writing
    <3>2. 1 = m \/ 1 \in 1 .. m - 1
      BY <1>1
    <3> QED  BY <1>1, <1>8, <1>9, <3>1, <3>2 DEF p
  <2> QED  BY <2>1, <2>2 DEF Writing
<1> QED  BY <1>4, <1>5, <1>12 DEF new, call, next, c, p

\* kstrncat cuts nothing off the text of a child and the comma.
LEMMA CommaText ==
    ASSUME NEW s \in Seq(Symbol), NEW t \in Seq(Symbol)
    PROVE  kstrncat(kstrncat(s, t), <<",">>) = Added(s, t)
<1> DEFINE st == s \o t
           c == <<",">>
<1>1. st \in Seq(Symbol) /\ c \in Seq(Symbol)
  BY Symbols, ConcatProperties
<1>2. kstrncat(s, t) = st
  BY <1>1, NothingCut DEF kstrncat
<1> HIDE DEF st, c
<1>3. st \o c \in Seq(Symbol)
  BY <1>1, ConcatProperties
<1>4. ksnprintf(st \o c) = st \o c
  BY <1>3, NothingCut
<1>5. kstrncat(st, c) = st \o c
  BY <1>4 DEF kstrncat
<1> QED  BY <1>2, <1>5 DEF st, c, Added

\* A call for an instance that nothing is written of yet.
LEMMA WritingStarts ==
    ASSUME Shape(node, given, memory, loose), NEW W, NEW calls, NEW i \in Nat, i = Len(calls),
           NEW p \in Nodes, node[p].type \in Instances,
           calls[i].node = p, calls[i].child = node[p].child, calls[i].ret = Opening(p)
    PROVE  \E k \in 0 .. Len(given[p]) : Writes(W, calls, i, k)
<1>1. Opening(p) = Begin(node[p])
  <2>1. Begin(node[p]) \in Seq(Symbol)
    BY Symbols
  <2>2. Opening(p) = ksnprintf(Begin(node[p]))
    BY DEF Opening, Begin, Key, Name
  <2> QED  BY <2>1, <2>2, NothingCut
<1>2. /\ Len(given[p]) \in Nat
      /\ node[p].child = IF 0 < Len(given[p]) THEN given[p][0 + 1] ELSE NULL
  <2>1. Len(given[p]) \in Nat /\ node[p].child = IF Len(given[p]) = 0 THEN NULL ELSE given[p][1]
    BY YoungerChildren DEF Shape, Chained
  <2> QED  BY <2>1
<1>3. Writes(W, calls, i, 0)
  BY <1>1, <1>2 DEF Writes, Ret
<1>4. 0 \in 0 .. Len(given[p])
  BY <1>2
<1> QED  BY <1>3, <1>4

LEMMA TextBuild ==
    ASSUME JsonInv, TextInv, pc = "build", pc' = pc, UNCHANGED text
    PROVE  TextInv'
<1>1. IsWritten(Written, node, given)
  BY WrittenIs DEF JsonInv
<1>2. text = <<>>
  BY <1>1 DEF TextInv
<1> QED  BY <1>2 DEF TextInv

LEMMA TextPrint ==
    ASSUME pc' = "print", node' = node, given' = given, text' = <<>>,
           \A W : IsWritten(W, node, given) => Writing(W, stack')
    PROVE  TextInv'
<1> SUFFICES ASSUME NEW W, IsWritten(W, node', given')
             PROVE  text' = <<>> /\ Writing(W, stack)'
  BY DEF TextInv
<1>1. Writing(W, stack')
  OBVIOUS
<1>2. Writing(W, stack)'
  BY <1>1 DEF Writing, Writes
<1> QED  BY <1>2

LEMMA TextStart ==
    ASSUME JsonInv, TextInv, jToString
    PROVE  TextInv'
<1> DEFINE call == [node |-> Root, child |-> node[Root].child, ret |-> Opening(Root)]
           calls == <<call>>
<1>1. /\ pc = "build" /\ pc' = "print" /\ stack' = calls /\ text' = text
      /\ node' = node /\ given' = given
  BY DEF jToString, tree, ToStringCall
<1>2. Shape(node, given, memory, loose)
  BY DEF JsonInv
<1>3. Root \in Nodes /\ node[Root].type \in Instances
  BY <1>2, Bounds DEF Shape, Linked
<1>4. /\ Len(calls) = 1 /\ calls[1].node = Root /\ calls[1].child = node[Root].child
      /\ calls[1].ret = Opening(Root)
  <2> DEFINE c == node[Root].child
             o == Opening(Root)
  <2> HIDE DEF c, o
  <2>1. /\ Len(<<[node |-> Root, child |-> c, ret |-> o]>>) = 1
        /\ <<[node |-> Root, child |-> c, ret |-> o]>>[1].node = Root
        /\ <<[node |-> Root, child |-> c, ret |-> o]>>[1].child = c
        /\ <<[node |-> Root, child |-> c, ret |-> o]>>[1].ret = o
    OBVIOUS
  <2> QED  BY <2>1 DEF c, o
<1> HIDE DEF calls, call
<1>5. ASSUME NEW W, IsWritten(W, node, given) PROVE Writing(W, calls) /\ text = <<>>
  <2>1. 1 \in Nat /\ 1 = Len(calls)
    BY <1>4
  <2>2. \E k \in 0 .. Len(given[Root]) : Writes(W, calls, 1, k)
    BY <1>2, <1>3, <1>4, <2>1, WritingStarts
  <2>3. \A i \in 1 .. Len(calls) : i = 1
    BY <1>4
  <2>4. Writing(W, calls)
    BY <1>3, <1>4, <2>2, <2>3 DEF Writing
  <2> QED  BY <1>1, <1>5, <2>4 DEF TextInv
<1>6. text' = <<>>
  BY <1>1, <1>2, <1>5, WrittenIs
<1>7. \A W : IsWritten(W, node, given) => Writing(W, stack')
  BY <1>1, <1>5
<1> QED  BY <1>1, <1>6, <1>7, TextPrint

LEMMA TextNow ==
    ASSUME JsonInv, TextInv, pc = "print"
    PROVE  text = <<>> /\ \A W : IsWritten(W, node, given) => Writing(W, stack)
<1>1. IsWritten(Written, node, given)
  BY WrittenIs DEF JsonInv
<1> QED  BY <1>1 DEF TextInv

LEMMA TextScalar ==
    ASSUME JsonInv, TextInv, ScalarToString
    PROVE  TextInv'
<1> DEFINE call == Last(stack)
           c == call.child
           buffer == IF node[c].type = Json4cNumber THEN numberToString(c) ELSE stringToString(c)
<1>1. /\ pc = "print" /\ pc' = pc /\ text' = text /\ node' = node /\ given' = given
      /\ c # NULL /\ node[c].type \notin Instances
      /\ stack' = Append(Front(stack),
                         [node |-> call.node, child |-> node[c].next,
                          ret |-> kstrncat(kstrncat(call.ret, buffer), <<",">>)])
  BY DEF ScalarToString, tree, Appended
<1>2. Shape(node, given, memory, loose) /\ StackType(stack) /\ stack # <<>>
  BY <1>1, PrintTop
<1>3. ASSUME NEW W, IsWritten(W, node, given) PROVE Writing(W, stack')
  <2> DEFINE r == Added(Last(stack).ret, W[Last(stack).child])
  <2>1. r = Added(Last(stack).ret, W[Last(stack).child])
    OBVIOUS
  <2> HIDE DEF r
  <2>2. Writing(W, stack)
    BY <1>1, <1>3, TextNow
  <2>3. /\ Last(stack).child \in Nodes /\ Last(stack).ret \in Seq(Symbol)
        /\ Writing(W, Append(Front(stack), [node |-> Last(stack).node,
                                            child |-> node[Last(stack).child].next, ret |-> r]))
    BY <1>1, <1>2, <1>3, <2>1, <2>2, WritingMoves
  <2>4. c \in Nodes /\ W[c] \in Seq(Symbol)
    BY <1>2, <1>3, <2>3, WrittenType
  <2>5. buffer = W[c]
    <3>1. node[c].type = Json4cNumber \/ (node[c].type = Json4cString /\ node[c].type # Json4cNumber)
      BY <1>1, <1>2, <2>4, YoungerChildren DEF Json4cNumber, Json4cString
    <3> QED  BY <1>2, <1>3, <2>4, <3>1, ScalarText
  <2> HIDE DEF buffer
  <2>6. kstrncat(kstrncat(call.ret, buffer), <<",">>) = r
    BY <2>1, <2>3, <2>4, <2>5, CommaText
  <2> QED  BY <1>1, <2>3, <2>6
<1>4. text = <<>>
  BY <1>1, TextNow
<1> QED  BY <1>1, <1>3, <1>4, TextPrint

LEMMA TextInstance ==
    ASSUME JsonInv, TextInv, InstanceToString
    PROVE  TextInv'
<1> DEFINE n == Last(stack).child
           m == Len(stack)
           new == stack'
<1>1. /\ pc = "print" /\ pc' = pc /\ text' = text /\ node' = node /\ given' = given
      /\ n # NULL /\ node[n].type \in Instances
      /\ new = Append(stack, [node |-> n, child |-> node[n].child, ret |-> Opening(n)])
  BY DEF InstanceToString, tree, ToStringCall
<1>2. /\ Shape(node, given, memory, loose) /\ StackType(stack) /\ stack # <<>>
      /\ Last(stack) = stack[m] /\ m \in 1 .. m /\ m \in Nat
  BY <1>1, PrintTop
<1>3. n \in Nodes
  BY <1>1, PrintTop DEF Used
<1>4. node[n].child \in Pointers
  BY <1>2, <1>3, Walk
<1>5. /\ Len(new) = m + 1 /\ \A i \in 1 .. m : new[i] = stack[i]
      /\ new[m + 1].node = n /\ new[m + 1].child = node[n].child /\ new[m + 1].ret = Opening(n)
  <2> DEFINE x == n
             c == node[n].child
             r == Opening(n)
             it == [node |-> x, child |-> c, ret |-> r]
  <2>1. x \in Nodes /\ c \in Pointers
    BY <1>3, <1>4
  <2>2. new = Append(stack, it)
    BY <1>1
  <2> HIDE DEF x, c, r, new
  <2>3. /\ Len(Append(stack, it)) = Len(stack) + 1
        /\ \A i \in 1 .. Len(stack) : Append(stack, it)[i] = stack[i]
        /\ Append(stack, it)[Len(stack) + 1] = it
    BY <1>2, <2>1, Pushed
  <2>4. it.node = x /\ it.child = c /\ it.ret = r
    OBVIOUS
  <2> HIDE DEF it
  <2> QED  BY <2>2, <2>3, <2>4 DEF x, c, r
<1> HIDE DEF new, m, n
<1>6. ASSUME NEW W, IsWritten(W, node, given) PROVE Writing(W, new)
  <2>1. Writing(W, stack)
    BY <1>1, <1>6, TextNow
  <2>2. ASSUME NEW i \in 1 .. m
        PROVE  /\ node[new[i].node].type \in Instances
               /\ \E k \in 0 .. Len(given[new[i].node]) : Writes(W, new, i, k)
    <3>1. i \in 1 .. Len(stack) /\ new[i] = stack[i] /\ i < Len(new)
      BY <1>2, <1>5 DEF m
    <3>2. PICK k \in 0 .. Len(given[stack[i].node]) : Writes(W, stack, i, k)
      BY <2>1, <3>1 DEF Writing
    <3>3. new[i + 1].node = stack[i].child
      <4>1. CASE i = m
        BY <1>2, <1>5, <4>1 DEF n
      <4>2. CASE i # m
        <5>1. i < Len(stack) /\ i + 1 \in 1 .. m
          BY <1>2, <4>2 DEF m
        <5> QED  BY <1>5, <3>2, <5>1 DEF Writes
      <4> QED  BY <4>1, <4>2
    <3>4. Writes(W, new, i, k)
      BY <3>1, <3>2, <3>3 DEF Writes
    <3> QED  BY <2>1, <3>1, <3>2, <3>4 DEF Writing
  <2>3. \E k \in 0 .. Len(given[n]) : Writes(W, new, m + 1, k)
    <3>1. m + 1 \in Nat /\ m + 1 = Len(new)
      BY <1>2, <1>5
    <3> QED  BY <1>1, <1>2, <1>3, <1>5, <3>1, WritingStarts
  <2>4. ASSUME NEW i \in 1 .. Len(new)
        PROVE  /\ node[new[i].node].type \in Instances
               /\ \E k \in 0 .. Len(given[new[i].node]) : Writes(W, new, i, k)
    <3>1. i = m + 1 \/ i \in 1 .. m
      BY <1>2, <1>5
    <3> QED  BY <1>1, <1>5, <2>2, <2>3, <3>1
  <2>5. new[1].node = Root
    <3>1. 1 \in 1 .. m
      BY <1>2
    <3> QED  BY <1>2, <1>5, <2>1, <3>1 DEF Writing
  <2> QED  BY <2>4, <2>5 DEF Writing
<1>7. text = <<>>
  BY <1>1, TextNow
<1> QED  BY <1>1, <1>6, <1>7, TextPrint DEF new

\* The text that the call on top returns is its node's.
LEMMA TextOfTop ==
    ASSUME JsonInv, TextInv, pc = "print", Last(stack).child = NULL,
           NEW W, IsWritten(W, node, given)
    PROVE  Closed(Last(stack)) = W[Last(stack).node]
<1> DEFINE m == Len(stack)
           call == Last(stack)
           p == call.node
<1>1. /\ Shape(node, given, memory, loose) /\ StackType(stack) /\ call = stack[m]
      /\ m \in 1 .. m /\ Used(p)
  BY PrintTop
<1>2. p \in Nodes /\ Writing(W, stack)
  BY <1>1, TextNow DEF Used
<1>3. node[p].type \in Instances
  BY <1>1, <1>2 DEF Writing
<1>4. PICK k \in 0 .. Len(given[p]) : Writes(W, stack, m, k)
  BY <1>1, <1>2 DEF Writing
<1>5. Len(given[p]) \in Nat /\ \A i \in 1 .. Len(given[p]) : given[p][i] \in Nodes
  BY <1>1, <1>2, <1>3, YoungerChildren
<1>6. k = Len(given[p])
  <2> SUFFICES ASSUME k # Len(given[p]) PROVE FALSE
    OBVIOUS
  <2>1. k < Len(given[p]) /\ k + 1 \in 1 .. Len(given[p])
    BY <1>4, <1>5
  <2>2. stack[m].child \in Nodes
    BY <1>1, <1>4, <1>5, <2>1 DEF Writes
  <2> QED  BY <1>1, <2>2, Bounds
<1>7. call.ret = Ret(W, node[p], given[p], Len(given[p]))
  BY <1>1, <1>4, <1>6 DEF Writes
<1> HIDE DEF call
<1> QED  BY <1>1, <1>2, <1>3, <1>7, ClosedText DEF call

LEMMA TextReturn ==
    ASSUME JsonInv, TextInv, ReturnString
    PROVE  TextInv'
<1> DEFINE m == Len(stack)
           rest == Front(stack)
           call == Last(rest)
           buffer == Closed(Last(stack))
<1>1. pc = "print" /\ Last(stack).child = NULL /\ node' = node /\ given' = given
  BY DEF ReturnString, tree
<1>2. /\ Shape(node, given, memory, loose) /\ StackType(stack) /\ stack # <<>> /\ PrintInv(stack)
      /\ Last(stack) = stack[m] /\ m \in 1 .. m /\ m \in Nat
  BY <1>1, PrintTop
<1>3. Len(rest) = m - 1 /\ \A i \in 1 .. m - 1 : rest[i] = stack[i]
  BY <1>2, Popped
<1>4. CASE rest = <<>>
  <2>1. text' = buffer /\ pc' = "free"
    BY <1>4 DEF ReturnString
  <2>2. m = 1
    <3> HIDE DEF rest
    <3>1. Len(rest) = 0
      BY <1>4
    <3> QED  BY <1>2, <1>3, <3>1
  <2>3. ASSUME NEW W, IsWritten(W, node, given) PROVE text' = W[Root]
    <3>1. Writing(W, stack)
      BY <1>1, <2>3, TextNow
    <3>2. Last(stack).node = Root
      BY <1>2, <2>2, <3>1 DEF Writing
    <3> QED  BY <1>1, <2>1, <2>3, <3>2, TextOfTop
  <2> QED  BY <1>1, <2>1, <2>3 DEF TextInv
<1>5. CASE rest # <<>>
  <2>1. /\ pc' = pc /\ text' = text
        /\ stack' = Append(Front(rest),
                           [node |-> call.node, child |-> node[call.child].next,
                            ret |-> kstrncat(kstrncat(call.ret, buffer), <<",">>)])
    BY <1>5 DEF ReturnString, Appended
  <2>2. StackType(rest) /\ call.child # NULL
    BY <1>2, <1>5, FrontPrints
  <2>3. Last(rest) = rest[Len(rest)] /\ Len(rest) = m - 1 /\ m - 1 \in 1 .. m - 1 /\ m - 1 < m
    <3> HIDE DEF rest
    <3>1. Last(rest) = rest[Len(rest)] /\ Len(rest) \in 1 .. Len(rest)
      BY <1>5, <2>2, Popped
    <3> QED  BY <1>2, <1>3, <3>1
  <2>4. ASSUME NEW W, IsWritten(W, node, given) PROVE Writing(W, stack')
    <3>1. Writing(W, stack)
      BY <1>1, <2>4, TextNow
    <3>2. /\ Writing(W, rest)
          /\ \A i \in 1 .. m - 1 : stack[i + 1].node = stack[i].child
      <4> HIDE DEF rest
      <4>1. ASSUME NEW i \in 1 .. m - 1
            PROVE  /\ node[rest[i].node].type \in Instances
                   /\ \E k \in 0 .. Len(given[rest[i].node]) : Writes(W, rest, i, k)
                   /\ stack[i + 1].node = stack[i].child
        <5>1. i \in 1 .. Len(stack) /\ i < Len(stack) /\ (i < Len(rest) => i + 1 \in 1 .. m - 1)
          BY <1>2, <1>3
        <5>2. PICK k \in 0 .. Len(given[stack[i].node]) : Writes(W, stack, i, k)
          BY <3>1, <5>1 DEF Writing
        <5>3. Writes(W, rest, i, k)
          BY <1>3, <5>1, <5>2 DEF Writes
        <5> QED  BY <1>3, <3>1, <5>1, <5>2, <5>3 DEF Writing, Writes
      <4>2. rest[1].node = Root
        <5>1. 1 \in 1 .. m - 1
          BY <1>2, <2>3
        <5> QED  BY <1>2, <1>3, <3>1, <5>1 DEF Writing
      <4> QED  BY <1>3, <4>1, <4>2 DEF Writing
    <3>3. Last(stack).node = call.child
      <4>1. m - 1 + 1 = m
        BY <1>2
      <4>2. call.child = stack[m - 1].child
        BY <1>3, <2>3
      <4>3. stack[m - 1 + 1].node = stack[m - 1].child
        BY <2>3, <3>2
      <4> QED  BY <1>2, <4>1, <4>2, <4>3
    <3>4. buffer = W[call.child]
      BY <1>1, <2>4, <3>3, TextOfTop
    <3> DEFINE r == Added(Last(rest).ret, W[Last(rest).child])
    <3>5. r = Added(Last(rest).ret, W[Last(rest).child])
      OBVIOUS
    <3> HIDE DEF r, rest, buffer
    <3>6. /\ Last(rest).child \in Nodes /\ Last(rest).ret \in Seq(Symbol)
          /\ Writing(W, Append(Front(rest), [node |-> Last(rest).node,
                                             child |-> node[Last(rest).child].next, ret |-> r]))
      BY <1>2, <1>5, <2>2, <2>4, <3>2, <3>5, WritingMoves
    <3>7. W[call.child] \in Seq(Symbol)
      BY <1>2, <2>4, <3>6, WrittenType
    <3>8. kstrncat(kstrncat(call.ret, buffer), <<",">>) = r
      BY <3>4, <3>5, <3>6, <3>7, CommaText
    <3> QED  BY <2>1, <3>6, <3>8
  <2>5. text = <<>> /\ pc' = "print"
    BY <1>1, <2>1, TextNow
  <2> QED  BY <1>1, <2>1, <2>4, <2>5, TextPrint
<1> QED  BY <1>4, <1>5

\* Nothing is read from the tree after that.
LEMMA TextFree ==
    ASSUME TextInv, pc = "free", pc' \in {"free", "done"}, node' = node, given' = given, text' = text
    PROVE  TextInv'
<1> SUFFICES ASSUME NEW W, IsWritten(W, node', given') PROVE text' = W[Root]
  BY DEF TextInv
<1> QED  BY DEF TextInv

LEMMA TextKeeps == JsonInv /\ TextInv /\ [Next]_vars => TextInv'
<1> SUFFICES ASSUME JsonInv, TextInv, [Next]_vars PROVE TextInv'
  OBVIOUS
<1>1. CASE AddNumber \/ AddString \/ Create \/ AddInstance
  BY <1>1, TextBuild DEF AddNumber, AddString, Create, AddInstance
<1>2. CASE jToString
  BY <1>2, TextStart
<1>3. CASE ScalarToString
  BY <1>3, TextScalar
<1>4. CASE InstanceToString
  BY <1>4, TextInstance
<1>5. CASE ReturnString
  BY <1>5, TextReturn
<1>6. CASE FreeChild
  BY <1>6, TextFree DEF FreeChild, tree
<1>7. CASE FreeNode
  BY <1>7, TextFree DEF FreeNode
<1>8. CASE UNCHANGED vars
  <2>1. pc' = pc /\ node' = node /\ given' = given /\ text' = text /\ stack' = stack
    BY <1>8 DEF vars, tree
  <2> SUFFICES ASSUME NEW W, IsWritten(W, node', given')
               PROVE  /\ pc' = "build" => text' = <<>>
                      /\ pc' = "print" => text' = <<>> /\ Writing(W, stack)'
                      /\ pc' \in {"free", "done"} => text' = W[Root]
    BY DEF TextInv
  <2>2. /\ pc = "build" => text = <<>>
        /\ pc = "print" => text = <<>> /\ Writing(W, stack)
        /\ pc \in {"free", "done"} => text = W[Root]
    BY <2>1 DEF TextInv
  <2>3. Writing(W, stack) => Writing(W, stack)'
    BY <2>1 DEF Writing, Writes
  <2> QED  BY <2>1, <2>2, <2>3
<1> QED  BY <1>1, <1>2, <1>3, <1>4, <1>5, <1>6, <1>7, <1>8 DEF Next

\* The text of the root is what any reader of the tree would write, its members in the
\* order they were added, with nothing cut off where a buffer was full: for every tree,
\* every string and every size of the buffers.
THEOREM TextIsTheTree == Spec => []TextIsTree
<1>1. Init => TextInv
  BY DEF Init, TextInv
<1>2. JsonInv /\ TextInv /\ [Next]_vars => TextInv'
  BY TextKeeps
<1>3. JsonInv /\ TextInv => TextIsTree
  <2> SUFFICES ASSUME JsonInv, TextInv, text # <<>> PROVE text = Written[Root]
    BY DEF TextIsTree
  <2>1. IsWritten(Written, node, given) /\ pc \in {"build", "print", "free", "done"}
    BY WrittenIs DEF JsonInv
  <2> QED  BY <2>1 DEF TextInv
<1> QED  BY <1>1, <1>2, <1>3, TreeInvariant, PTL DEF Spec

-----------------------------------------------------------------------------
(* What a JSON reader takes for strings, character by character.            *)

After(s, start) ==
    CHOOSE f : f = [k \in 0 .. Len(s) |-> IF k = 0 THEN start ELSE ReadChar(f[k - 1], s[k])]

LEMMA AfterIs ==
    ASSUME NEW s, Len(s) \in Nat, NEW start
    PROVE  /\ After(s, start)[0] = start
           /\ \A k \in 1 .. Len(s) : After(s, start)[k] = ReadChar(After(s, start)[k - 1], s[k])
           /\ Read(s, start) = After(s, start)[Len(s)]
<1> DEFINE n == Len(s)
           Is(g, k) == g[k] = IF k = 0 THEN start ELSE ReadChar(g[k - 1], s[k])
           To(g, m) == g = [k \in 0 .. n |-> g[k]] /\ \A k \in 0 .. m : Is(g, k)
           Bad == {m \in Nat : m <= n /\ ~\E g : To(g, m)}
<1> HIDE DEF n
<1>1. n \in Nat
  BY DEF n
<1>2. Bad = {}
  <2> SUFFICES ASSUME Bad # {} PROVE FALSE
    OBVIOUS
  <2>1. PICK m \in Bad : \A k \in Bad : m <= k
    <3>1. Bad \subseteq Nat
      OBVIOUS
    <3> HIDE DEF Bad
    <3> QED  BY <3>1, LeastNat
  <2>2. m \in Nat /\ m <= n /\ ~\E g : To(g, m)
    OBVIOUS
  <2>3. CASE m = 0
    <3> DEFINE g == [k \in 0 .. n |-> start]
    <3>1. \A k \in 0 .. m : k = 0 /\ 0 \in 0 .. n
      BY <1>1, <2>3
    <3>2. To(g, m)
      BY <3>1
    <3> HIDE DEF To, g
    <3> QED  BY <2>2, <3>2
  <2>4. CASE m # 0
    <3>1. m - 1 \in Nat /\ m - 1 <= n /\ ~(m <= m - 1) /\ m \in 0 .. n
      BY <1>1, <2>2, <2>4
    <3>2. PICK g : To(g, m - 1)
      <4> HIDE DEF To
      <4> QED  BY <2>1, <3>1
    <3> DEFINE new == ReadChar(g[m - 1], s[m])
               h == [k \in 0 .. n |-> IF k = m THEN new ELSE g[k]]
    <3>3. h = [k \in 0 .. n |-> h[k]]
      OBVIOUS
    <3> HIDE DEF new
    <3>4. ASSUME NEW k \in 0 .. m PROVE Is(h, k)
      <4>1. k \in 0 .. n /\ (k # 0 => k - 1 \in 0 .. n /\ k - 1 # m)
        BY <1>1, <2>2
      <4>2. h[k] = (IF k = m THEN new ELSE g[k]) /\ (k # 0 => h[k - 1] = g[k - 1])
        BY <4>1
      <4>3. CASE k = m
        <5> HIDE DEF h
        <5> QED  BY <2>4, <4>2, <4>3 DEF new
      <4>4. CASE k # m
        <5>1. k \in 0 .. m - 1
          BY <2>2, <4>4
        <5>2. Is(g, k)
          BY <3>2, <5>1
        <5> HIDE DEF h
        <5> QED  BY <4>2, <4>4, <5>2
      <4> QED  BY <4>3, <4>4
    <3> HIDE DEF h, Is
    <3>5. To(h, m)
      BY <3>3, <3>4
    <3> HIDE DEF To
    <3> QED  BY <2>2, <3>5
  <2> QED  BY <2>3, <2>4
<1>3. \E g : To(g, n)
  <2>1. n \notin Bad
    BY <1>2
  <2> HIDE DEF To
  <2> QED  BY <1>1, <2>1
<1>4. PICK g : To(g, n)
  BY <1>3
<1>5. g = [k \in 0 .. n |-> IF k = 0 THEN start ELSE ReadChar(g[k - 1], s[k])]
  <2>1. \A k \in 0 .. n : g[k] = IF k = 0 THEN start ELSE ReadChar(g[k - 1], s[k])
    BY <1>4
  <2>2. g = [k \in 0 .. n |-> g[k]]
    BY <1>4
  <2> QED  BY <2>1, <2>2
<1> DEFINE f == After(s, start)
<1>6. f = [k \in 0 .. n |-> IF k = 0 THEN start ELSE ReadChar(f[k - 1], s[k])]
  <2>1. f = CHOOSE x : x = [k \in 0 .. n |-> IF k = 0 THEN start ELSE ReadChar(x[k - 1], s[k])]
    BY DEF After, n
  <2> QED  BY <1>5, <2>1
<1>7. Read(s, start) = f[n]
  BY DEF Read, After, n
<1> HIDE DEF f
<1>8. f[0] = start /\ \A k \in 1 .. n : f[k] = ReadChar(f[k - 1], s[k])
  <2>1. \A k \in 0 .. n : f[k] = IF k = 0 THEN start ELSE ReadChar(f[k - 1], s[k])
    BY <1>6
  <2>2. 0 \in 0 .. n /\ \A k \in 1 .. n : k \in 0 .. n /\ k # 0
    BY <1>1
  <2> QED  BY <2>1, <2>2
<1> QED  BY <1>7, <1>8 DEF f, n

LEMMA ReadNone == \A r : Read(<<>>, r) = r
<1>1. Len(<<>>) = 0
  BY EmptySeq
<1> QED  BY <1>1, AfterIs

LEMMA ReadOne == \A r, c : Read(<<c>>, r) = ReadChar(r, c)
<1> SUFFICES ASSUME NEW r, NEW c PROVE Read(<<c>>, r) = ReadChar(r, c)
  OBVIOUS
<1> DEFINE s == <<c>>
<1>1. Len(s) = 1 /\ s[1] = c /\ Len(s) \in Nat /\ 1 \in 1 .. Len(s)
  OBVIOUS
<1> HIDE DEF s
<1>2. After(s, r)[0] = r /\ After(s, r)[1] = ReadChar(After(s, r)[1 - 1], s[1])
  BY <1>1, AfterIs
<1>3. Read(s, r) = After(s, r)[1]
  BY <1>1, AfterIs
<1>4. 1 - 1 = 0
  OBVIOUS
<1> QED  BY <1>1, <1>2, <1>3, <1>4 DEF s

\* A text is read from where the one before it left the reader.
LEMMA ReadConcat ==
    ASSUME NEW S, NEW s \in Seq(S), NEW t \in Seq(S), NEW r
    PROVE  Read(s \o t, r) = Read(t, Read(s, r))
<1> DEFINE u == s \o t
           a == Len(s)
           b == Len(t)
           A == After(s, r)
           q == A[a]
           B == After(t, q)
           C == After(u, r)
<1>1. /\ a \in Nat /\ b \in Nat /\ Len(u) = a + b /\ Len(u) \in Nat
      /\ \A k \in 1 .. a : u[k] = s[k]
      /\ \A k \in 1 .. b : u[a + k] = t[k]
  BY ConcatProperties, LenProperties
<1> HIDE DEF u, a, b
<1>2. A[0] = r /\ (\A k \in 1 .. a : A[k] = ReadChar(A[k - 1], s[k])) /\ Read(s, r) = A[a]
  BY <1>1, AfterIs DEF a
<1>3. B[0] = q /\ (\A k \in 1 .. b : B[k] = ReadChar(B[k - 1], t[k])) /\ Read(t, q) = B[b]
  BY <1>1, AfterIs DEF b
<1>4. C[0] = r /\ (\A k \in 1 .. a + b : C[k] = ReadChar(C[k - 1], u[k])) /\ Read(u, r) = C[a + b]
  BY <1>1, AfterIs
<1> HIDE DEF A, B, C
<1> DEFINE Bad == {k \in Nat : k <= a /\ C[k] # A[k]}
           Worse == {k \in Nat : k <= b /\ C[a + k] # B[k]}
<1>5. Bad = {}
  <2> SUFFICES ASSUME Bad # {} PROVE FALSE
    OBVIOUS
  <2>1. PICK k \in Bad : \A i \in Bad : k <= i
    <3>1. Bad \subseteq Nat
      OBVIOUS
    <3> HIDE DEF Bad
    <3> QED  BY <3>1, LeastNat
  <2>2. k \in Nat /\ k <= a /\ C[k] # A[k]
    OBVIOUS
  <2>3. k # 0
    BY <1>2, <1>4, <2>2
  <2> DEFINE j == k - 1
  <2>4. j \in Nat /\ j <= a /\ ~(k <= j) /\ k \in 1 .. a /\ k \in 1 .. a + b
    BY <1>1, <2>2, <2>3
  <2>5. C[j] = A[j]
    <3> HIDE DEF j
    <3> QED  BY <2>1, <2>4
  <2> QED  BY <1>1, <1>2, <1>4, <2>2, <2>4, <2>5
<1>6. C[a] = q
  <2>1. a \in Nat /\ a <= a
    BY <1>1
  <2> QED  BY <1>5, <2>1
<1>7. Worse = {}
  <2> SUFFICES ASSUME Worse # {} PROVE FALSE
    OBVIOUS
  <2>1. PICK k \in Worse : \A i \in Worse : k <= i
    <3>1. Worse \subseteq Nat
      OBVIOUS
    <3> HIDE DEF Worse
    <3> QED  BY <3>1, LeastNat
  <2>2. k \in Nat /\ k <= b /\ C[a + k] # B[k]
    OBVIOUS
  <2>3. k # 0
    <3>1. a + 0 = a
      BY <1>1
    <3> QED  BY <1>3, <1>6, <2>2, <3>1
  <2> DEFINE j == k - 1
             m == a + k
  <2>4. /\ j \in Nat /\ j <= b /\ ~(k <= j) /\ k \in 1 .. b
        /\ m \in 1 .. a + b /\ m - 1 = a + j
    BY <1>1, <2>2, <2>3
  <2>5. C[a + j] = B[j]
    <3> HIDE DEF j
    <3> QED  BY <2>1, <2>4
  <2>6. C[m] = ReadChar(C[m - 1], u[m]) /\ u[m] = t[k]
    <3>1. u[m] = t[k]
      BY <1>1, <2>4
    <3> HIDE DEF m
    <3> QED  BY <1>4, <2>4, <3>1
  <2>7. B[k] = ReadChar(B[j], t[k])
    BY <1>3, <2>4
  <2>8. C[m] = B[k]
    <3> HIDE DEF m, j
    <3> QED  BY <2>4, <2>5, <2>6, <2>7
  <2> QED  BY <2>2, <2>8
<1>8. C[a + b] = B[b]
  <2>1. b \in Nat /\ b <= b
    BY <1>1
  <2> QED  BY <1>7, <2>1
<1>9. Read(u, r) = Read(t, q) /\ Read(s, r) = q
  BY <1>2, <1>3, <1>4, <1>8
<1> HIDE DEF q
<1> QED  BY <1>9 DEF u

-----------------------------------------------------------------------------
(* A string between its quotes.                                             *)

In(word, out) == Reader(TRUE, FALSE, word, out)

LEMMA ReaderSteps ==
    /\ \A word, out, c : c # "quote" /\ c # "backslash" =>
           ReadChar(In(word, out), c) = In(Append(word, c), out)
    /\ \A word, out, c : ReadChar(ReadChar(In(word, out), "backslash"), c) = In(Append(word, c), out)
    /\ \A word, out : ReadChar(In(word, out), "quote") = Reader(FALSE, FALSE, word, Append(out, word))
    /\ \A r : ~r.inside => ReadChar(r, "quote") = In(<<>>, r.out)
    /\ \A r, c : ~r.inside /\ c # "quote" => ReadChar(r, c) = r
<1>1. \A word, out, c : c # "quote" /\ c # "backslash" =>
          ReadChar(In(word, out), c) = In(Append(word, c), out)
  BY DEF ReadChar, In, Reader
<1>2. ASSUME NEW word, NEW out, NEW c
      PROVE  ReadChar(ReadChar(In(word, out), "backslash"), c) = In(Append(word, c), out)
  <2>1. ReadChar(In(word, out), "backslash") = Reader(TRUE, TRUE, word, out)
    BY DEF ReadChar, In, Reader
  <2>2. ReadChar(Reader(TRUE, TRUE, word, out), c) = In(Append(word, c), out)
    BY DEF ReadChar, In, Reader
  <2> QED  BY <2>1, <2>2
<1>3. \A word, out : ReadChar(In(word, out), "quote") = Reader(FALSE, FALSE, word, Append(out, word))
  BY DEF ReadChar, In, Reader
<1>4. \A r : ~r.inside => ReadChar(r, "quote") = In(<<>>, r.out)
  BY DEF ReadChar, In
<1>5. \A r, c : ~r.inside /\ c # "quote" => ReadChar(r, c) = r
  BY DEF ReadChar
<1> QED  BY <1>1, <1>2, <1>3, <1>4, <1>5

LEMMA ReadTwo == \A r, c, d : Read(<<c, d>>, r) = ReadChar(ReadChar(r, c), d)
<1> SUFFICES ASSUME NEW r, NEW c, NEW d PROVE Read(<<c, d>>, r) = ReadChar(ReadChar(r, c), d)
  OBVIOUS
<1> DEFINE s == <<c, d>>
<1>1. /\ Len(s) = 2 /\ s[1] = c /\ s[2] = d /\ Len(s) \in Nat
      /\ 1 \in 1 .. Len(s) /\ 2 \in 1 .. Len(s)
  OBVIOUS
<1> HIDE DEF s
<1> DEFINE f == After(s, r)
<1>2. /\ f[0] = r /\ Read(s, r) = f[2]
      /\ \A k \in 1 .. Len(s) : f[k] = ReadChar(f[k - 1], s[k])
  BY <1>1, AfterIs
<1> HIDE DEF f
<1>3. f[1] = ReadChar(f[1 - 1], s[1])
  BY <1>1, <1>2
<1>4. f[2] = ReadChar(f[2 - 1], s[2])
  BY <1>1, <1>2
<1>5. 1 - 1 = 0 /\ 2 - 1 = 1
  OBVIOUS
<1> QED  BY <1>1, <1>2, <1>3, <1>4, <1>5 DEF s

\* The first k characters.
LEMMA FirstChars ==
    ASSUME NEW v \in Seq(Char), NEW k \in 1 .. Len(v)
    PROVE  /\ SubSeq(v, 1, k) = Append(SubSeq(v, 1, k - 1), v[k])
           /\ SubSeq(v, 1, 0) = <<>> /\ SubSeq(v, 1, Len(v)) = v
           /\ SubSeq(v, 1, k - 1) \in Seq(Char) /\ v[k] \in Char
<1>1. Len(v) \in Nat /\ v[k] \in Char /\ \A i \in 1 .. Len(v) : v[i] \in Char
  BY LenProperties, ElementOfSeq
<1>2. 1 \in 1 .. Len(v) /\ k \in 1 .. Len(v) /\ k - 1 \in Int /\ \A i \in 1 .. k - 1 : v[i] \in Char
  BY <1>1
<1> DEFINE s == SubSeq(v, 1, k - 1)
<1>3. s \in Seq(Char)
  BY <1>2, SubSeqProperties
<1>4. SubSeq(v, 1, k) = s \o <<v[k]>>
  BY <1>2, SubSeqRecursiveSecond
<1> HIDE DEF s
<1>5. Append(s, v[k]) = s \o <<v[k]>>
  BY <1>1, <1>3, AppendIsConcat
<1>6. SubSeq(v, 1, 0) = <<>>
  BY SubSeqEmpty
<1> QED  BY <1>1, <1>3, <1>4, <1>5, <1>6, SubSeqFull DEF s

Escaped(v) == [i \in DOMAIN v |-> IF v[i] = "quote" THEN <<"backslash", "quote">> ELSE <<v[i]>>]

LEMMA EscapedIs ==
    ASSUME NEW v \in Seq(Char)
    PROVE  /\ strreplace(v) = FlattenSeq(Escaped(v))
           /\ Len(v) \in Nat /\ Len(Escaped(v)) = Len(v) /\ (Len(v) = 0 => v = <<>>)
           /\ \A i \in 1 .. Len(v) :
                  /\ Escaped(v)[i] \in Seq(Char)
                  /\ Escaped(v)[i] = IF v[i] = "quote" THEN <<"backslash", "quote">> ELSE <<v[i]>>
<1> DEFINE f == Escaped(v)
<1>1. Len(v) \in Nat /\ DOMAIN v = 1 .. Len(v) /\ \A i \in 1 .. Len(v) : v[i] \in Char
  BY LenProperties, ElementOfSeq
<1>2. <<"backslash", "quote">> \in Seq(Char) /\ \A c \in Char : <<c>> \in Seq(Char)
  BY DEF Char
<1>3. f = [i \in 1 .. Len(v) |-> IF v[i] = "quote" THEN <<"backslash", "quote">> ELSE <<v[i]>>]
  BY <1>1 DEF Escaped
<1>4. \A i \in 1 .. Len(v) :
          /\ f[i] = IF v[i] = "quote" THEN <<"backslash", "quote">> ELSE <<v[i]>>
          /\ f[i] \in Seq(Char)
  BY <1>1, <1>2, <1>3
<1>5. f \in [1 .. Len(v) -> Seq(Char)]
  BY <1>3, <1>4
<1>6. strreplace(v) = FlattenSeq(f)
  BY DEF strreplace, Escaped
<1> HIDE DEF f
<1>7. Len(f) = Len(v)
  BY <1>1, <1>5, FunctionSeq
<1> QED  BY <1>1, <1>4, <1>6, <1>7, EmptySeq DEF f

LEMMA NoneEscaped ==
    ASSUME NEW v \in Seq(Char), v = <<>> PROVE strreplace(v) = <<>>
<1> DEFINE f == Escaped(v)
<1>1. DOMAIN v = {} /\ <<>> = [i \in {} |-> i]
  OBVIOUS
<1>2. f = <<>>
  BY <1>1 DEF Escaped
<1>3. strreplace(v) = FlattenSeq(f)
  BY EscapedIs
<1> HIDE DEF f
<1>4. FlattenSeq(f) = f
  BY <1>2, EmptySeq DEF FlattenSeq
<1> QED  BY <1>2, <1>3, <1>4

\* Between quotes, the escaped string is read as the string it was, if it has no backslash.
LEMMA ReadEscaped ==
    ASSUME NEW v \in Seq(Char), \A i \in 1 .. Len(v) : v[i] # "backslash", NEW out
    PROVE  Read(strreplace(v), In(<<>>, out)) = In(v, out)
<1> DEFINE n == Len(v)
           f == Escaped(v)
           Good(k) == /\ Flat(f)[k] \in Seq(Char)
                      /\ Read(Flat(f)[k], In(<<>>, out)) = In(SubSeq(v, 1, k), out)
           Bad == {k \in Nat : k \in 1 .. n /\ ~Good(k)}
<1>1. /\ strreplace(v) = FlattenSeq(f) /\ n \in Nat /\ Len(f) = n /\ (n = 0 => v = <<>>)
      /\ \A i \in 1 .. n : /\ f[i] \in Seq(Char)
                           /\ f[i] = IF v[i] = "quote" THEN <<"backslash", "quote">> ELSE <<v[i]>>
  BY EscapedIs
<1> HIDE DEF f
<1>2. \A i \in 1 .. n : Flat(f)[i] = IF i = 1 THEN f[i] ELSE Flat(f)[i - 1] \o f[i]
  BY <1>1, FlatIs
<1>3. ASSUME NEW i \in 1 .. n, NEW word PROVE Read(f[i], In(word, out)) = In(Append(word, v[i]), out)
  <2>1. v[i] # "backslash"
    OBVIOUS
  <2>2. CASE v[i] = "quote"
    <3>1. f[i] = <<"backslash", "quote">>
      BY <1>1, <2>2
    <3>2. Read(<<"backslash", "quote">>, In(word, out))
              = ReadChar(ReadChar(In(word, out), "backslash"), "quote")
      BY ReadTwo
    <3>3. ReadChar(ReadChar(In(word, out), "backslash"), "quote") = In(Append(word, "quote"), out)
      BY ReaderSteps
    <3> QED  BY <2>2, <3>1, <3>2, <3>3
  <2>3. CASE v[i] # "quote"
    <3>1. f[i] = <<v[i]>>
      BY <1>1, <2>3
    <3>2. Read(<<v[i]>>, In(word, out)) = ReadChar(In(word, out), v[i])
      BY ReadOne
    <3>3. ReadChar(In(word, out), v[i]) = In(Append(word, v[i]), out)
      BY <2>1, <2>3, ReaderSteps
    <3> QED  BY <3>1, <3>2, <3>3
  <2> QED  BY <2>2, <2>3
<1>4. Bad = {}
  <2> SUFFICES ASSUME Bad # {} PROVE FALSE
    OBVIOUS
  <2>1. PICK k \in Bad : \A j \in Bad : k <= j
    <3>1. Bad \subseteq Nat
      OBVIOUS
    <3> HIDE DEF Bad
    <3> QED  BY <3>1, LeastNat
  <2>2. k \in Nat /\ k \in 1 .. n /\ ~Good(k)
    OBVIOUS
  <2>3. SubSeq(v, 1, k) = Append(SubSeq(v, 1, k - 1), v[k]) /\ SubSeq(v, 1, 0) = <<>>
    BY <2>2, FirstChars
  <2>4. CASE k = 1
    <3>1. Flat(f)[k] = f[k] /\ k - 1 = 0
      BY <1>2, <2>2, <2>4
    <3>2. Read(f[k], In(<<>>, out)) = In(Append(<<>>, v[k]), out)
      BY <1>3, <2>2
    <3> QED  BY <1>1, <2>2, <2>3, <3>1, <3>2
  <2>5. CASE k # 1
    <3> DEFINE j == k - 1
               s == Flat(f)[j]
               t == f[k]
    <3>1. j \in Nat /\ j \in 1 .. n /\ ~(k <= j)
      BY <1>1, <2>2, <2>5
    <3>2. Good(j)
      BY <2>1, <3>1
    <3>3. s \in Seq(Char) /\ t \in Seq(Char) /\ Flat(f)[k] = s \o t
      BY <1>1, <1>2, <2>2, <2>5, <3>2
    <3>4. Read(s, In(<<>>, out)) = In(SubSeq(v, 1, j), out)
      BY <3>2
    <3>5. Read(t, In(SubSeq(v, 1, j), out)) = In(SubSeq(v, 1, k), out)
      BY <1>3, <2>2, <2>3
    <3> HIDE DEF s, t
    <3>6. s \o t \in Seq(Char)
      BY <3>3, ConcatProperties
    <3>7. Read(s \o t, In(<<>>, out)) = Read(t, Read(s, In(<<>>, out)))
      BY <3>3, ReadConcat
    <3>8. Read(s \o t, In(<<>>, out)) = In(SubSeq(v, 1, k), out)
      BY <3>4, <3>5, <3>7
    <3> QED  BY <2>2, <3>3, <3>6, <3>8
  <2> QED  BY <2>4, <2>5
<1>5. CASE n = 0
  BY <1>1, <1>5, NoneEscaped, ReadNone
<1>6. CASE n # 0
  <2>1. n \in Nat /\ n \in 1 .. n
    BY <1>1, <1>6
  <2> HIDE DEF n
  <2>2. Good(n)
    BY <1>4, <2>1
  <2>3. FlattenSeq(f) = Flat(f)[n]
    BY <1>1, <1>6, FlattenIs
  <2>4. SubSeq(v, 1, n) = v
    BY SubSeqFull DEF n
  <2> QED  BY <1>1, <2>2, <2>3, <2>4
<1> QED  BY <1>5, <1>6

\* A string without quotes has nothing to escape.
LEMMA NothingEscaped ==
    ASSUME NEW v \in Seq(Char), \A i \in 1 .. Len(v) : v[i] # "quote"
    PROVE  strreplace(v) = v
<1> DEFINE n == Len(v)
           f == Escaped(v)
           Bad == {k \in Nat : k \in 1 .. n /\ Flat(f)[k] # SubSeq(v, 1, k)}
<1>1. /\ strreplace(v) = FlattenSeq(f) /\ n \in Nat /\ Len(f) = n /\ (n = 0 => v = <<>>)
      /\ \A i \in 1 .. n : f[i] = <<v[i]>>
  BY EscapedIs
<1> HIDE DEF f
<1>2. \A i \in 1 .. n : Flat(f)[i] = IF i = 1 THEN f[i] ELSE Flat(f)[i - 1] \o f[i]
  BY <1>1, FlatIs
<1>3. Bad = {}
  <2> SUFFICES ASSUME Bad # {} PROVE FALSE
    OBVIOUS
  <2>1. PICK k \in Bad : \A j \in Bad : k <= j
    <3>1. Bad \subseteq Nat
      OBVIOUS
    <3> HIDE DEF Bad
    <3> QED  BY <3>1, LeastNat
  <2>2. k \in Nat /\ k \in 1 .. n /\ Flat(f)[k] # SubSeq(v, 1, k)
    OBVIOUS
  <2>3. /\ SubSeq(v, 1, k) = Append(SubSeq(v, 1, k - 1), v[k]) /\ SubSeq(v, 1, 0) = <<>>
        /\ SubSeq(v, 1, k - 1) \in Seq(Char) /\ v[k] \in Char
    BY <2>2, FirstChars
  <2>4. Append(SubSeq(v, 1, k - 1), v[k]) = SubSeq(v, 1, k - 1) \o <<v[k]>>
    BY <2>3, AppendIsConcat
  <2>5. CASE k = 1
    <3>1. Flat(f)[k] = <<v[k]>> /\ k - 1 = 0
      BY <1>1, <1>2, <2>2, <2>5
    <3>2. Append(<<>>, v[k]) = <<v[k]>>
      OBVIOUS
    <3> QED  BY <2>2, <2>3, <3>1, <3>2
  <2>6. CASE k # 1
    <3>1. k - 1 \in Nat /\ k - 1 \in 1 .. n /\ ~(k <= k - 1)
      BY <1>1, <2>2, <2>6
    <3>2. Flat(f)[k - 1] = SubSeq(v, 1, k - 1)
      BY <2>1, <3>1
    <3> QED  BY <1>1, <1>2, <2>2, <2>3, <2>4, <2>6, <3>2
  <2> QED  BY <2>5, <2>6
<1>4. CASE n = 0
  BY <1>1, <1>4, NoneEscaped
<1>5. CASE n # 0
  <2>1. n \in Nat /\ n \in 1 .. n
    BY <1>1, <1>5
  <2> HIDE DEF n
  <2>2. Flat(f)[n] = SubSeq(v, 1, n)
    BY <1>3, <2>1
  <2>3. FlattenSeq(f) = Flat(f)[n]
    BY <1>1, <1>5, FlattenIs
  <2>4. SubSeq(v, 1, n) = v
    BY SubSeqFull DEF n
  <2> QED  BY <1>1, <2>2, <2>3, <2>4
<1> QED  BY <1>4, <1>5

Quoted(s) == <<"quote">> \o s \o <<"quote">>

LEMMA ReadQuoted ==
    ASSUME NEW v \in Seq(Char), \A i \in 1 .. Len(v) : v[i] # "backslash", NEW r, ~r.inside
    PROVE  Read(Quoted(strreplace(v)), r) = Reader(FALSE, FALSE, v, Append(r.out, v))
<1> DEFINE q == <<"quote">>
           w == strreplace(v)
           qw == q \o w
<1>1. q \in Seq(Char) /\ w \in Seq(Char)
  BY strreplaceType DEF Char
<1>2. Read(q, r) = In(<<>>, r.out)
  BY ReadOne, ReaderSteps
<1>3. Read(w, In(<<>>, r.out)) = In(v, r.out)
  BY ReadEscaped
<1>4. Read(q, In(v, r.out)) = Reader(FALSE, FALSE, v, Append(r.out, v))
  BY ReadOne, ReaderSteps
<1>5. Quoted(w) = qw \o q
  BY DEF Quoted
<1> HIDE DEF q, w
<1>6. Read(qw, r) = Read(w, Read(q, r)) /\ qw \in Seq(Char)
  BY <1>1, ReadConcat, ConcatProperties
<1> HIDE DEF qw
<1>7. Read(qw \o q, r) = Read(q, Read(qw, r))
  BY <1>1, <1>6, ReadConcat
<1> QED  BY <1>2, <1>3, <1>4, <1>5, <1>6, <1>7 DEF w

-----------------------------------------------------------------------------
(* The string of a node is the one that was added, escaped.                 *)

ValueIn(heap, lists, n) ==
    heap[n].type = Json4cString => lists[n] \in Values /\ heap[n].value = strreplace(lists[n])

ValueInv == \A n \in Nodes : ValueIn(node, given, n)

LEMMA TipSame ==
    ASSUME NEW heap \in [Nodes -> NodeRecord], NEW lists, NEW p \in Nodes, NEW c, NEW n \in Nodes
    PROVE  /\ Tip(heap, lists, p, c)[n].type = heap[n].type
           /\ Tip(heap, lists, p, c)[n].value = heap[n].value
<1> DEFINE last == lists[p][Len(lists[p])]
<1>1. heap[n] \in NodeRecord
  OBVIOUS
<1>2. Tip(heap, lists, p, c) = IF heap[p].child = NULL
                               THEN [heap EXCEPT ![p] = [@ EXCEPT !.child = c]]
                               ELSE [heap EXCEPT ![last] = [@ EXCEPT !.next = c]]
  BY DEF Tip
<1> HIDE DEF last
<1> QED  BY <1>1, <1>2 DEF NodeRecord

LEMMA ValueAdd ==
    ASSUME JsonInv, ValueInv, NEW p \in Nodes, node[p].type \in Instances,
           NEW type \in {Json4cNumber, Json4cString}, NEW value \in Texts, NEW what,
           Add(p, type, value, what),
           type = Json4cString => what \in Values /\ value = strreplace(what)
    PROVE  ValueInv'
<1> DEFINE b == (node[p].type = Json4cObject)
           r == [type |-> type, keyed |-> b, value |-> value, next |-> NULL, child |-> NULL]
           heap == [node EXCEPT ![New] = r]
<1>1. /\ New # NULL /\ node' = addChild(heap, p, New)
      /\ given' = [given EXCEPT ![p] = Append(@, New), ![New] = what]
  BY DEF Add
<1>2. Shape(node, given, memory, loose)
  BY DEF JsonInv
<1>3. New \in Nodes /\ memory[New] = "unused"
  BY <1>1, NewIs
<1>4. node \in [Nodes -> NodeRecord] /\ given = [n \in Nodes |-> given[n]]
  BY <1>2 DEF Shape, ShapeType
<1>5. r \in NodeRecord /\ r.type = type /\ r.value = value
  <2>1. NULL \in Pointers /\ b \in BOOLEAN /\ type \in Types
    BY Bounds DEF Types
  <2> HIDE DEF b
  <2> QED  BY <2>1 DEF NodeRecord
<1> HIDE DEF r, b
<1>6. heap \in [Nodes -> NodeRecord] /\ \A n \in Nodes : heap[n] = IF n = New THEN r ELSE node[n]
  BY <1>3, <1>4, <1>5
<1> HIDE DEF heap
<1>7. node' = Tip(heap, given, p, New)
  BY <1>1, <1>2, AddChildIs
<1>8. ASSUME NEW n \in Nodes PROVE ValueIn(node', given', n)
  <2>1. node'[n].type = heap[n].type /\ node'[n].value = heap[n].value
    BY <1>6, <1>7, TipSame
  <2>2. CASE n = New
    <3>1. given'[n] = what
      BY <1>1, <1>4, <2>2
    <3> QED  BY <1>5, <1>6, <2>1, <2>2, <3>1 DEF ValueIn
  <2>3. CASE n # New /\ n # p
    <3>1. given'[n] = given[n]
      BY <1>1, <1>4, <2>3
    <3>2. ValueIn(node, given, n)
      BY DEF ValueInv
    <3> QED  BY <1>6, <2>1, <2>3, <3>1, <3>2 DEF ValueIn
  <2>4. CASE n # New /\ n = p
    BY <1>6, <2>1, <2>4 DEF ValueIn, Instances, Json4cString, Json4cObject, Json4cArray
  <2> QED  BY <2>2, <2>3, <2>4
<1> QED  BY <1>8 DEF ValueInv, ValueIn

LEMMA ValueCreate ==
    ASSUME JsonInv, ValueInv, Create
    PROVE  ValueInv'
<1>1. PICK type \in Instances :
          node' = [node EXCEPT ![New] =
              [type |-> type, keyed |-> FALSE, value |-> <<>>, next |-> NULL, child |-> NULL]]
  BY DEF Create
<1>2. New # NULL /\ given' = given
  BY DEF Create
<1>3. New \in Nodes /\ node \in [Nodes -> NodeRecord]
  BY <1>2, NewIs DEF JsonInv, Shape, ShapeType
<1>4. ASSUME NEW n \in Nodes PROVE ValueIn(node', given', n)
  <2>1. CASE n = New
    <3>1. node'[n].type = type
      BY <1>1, <1>3, <2>1
    <3> QED  BY <3>1 DEF ValueIn, Instances, Json4cString, Json4cObject, Json4cArray
  <2>2. CASE n # New
    <3>1. node'[n] = node[n]
      BY <1>1, <1>3, <2>2
    <3>2. ValueIn(node, given, n)
      BY DEF ValueInv
    <3> QED  BY <1>2, <3>1, <3>2 DEF ValueIn
  <2> QED  BY <2>1, <2>2
<1> QED  BY <1>4 DEF ValueInv, ValueIn

LEMMA ValueAttach ==
    ASSUME JsonInv, ValueInv, AddInstance
    PROVE  ValueInv'
<1>1. PICK c \in loose, p \in Nodes :
        /\ memory[p] = "live" /\ node[p].type \in Instances
        /\ node' = addChild([node EXCEPT ![c] = [@ EXCEPT !.keyed = node[p].type = Json4cObject]], p, c)
        /\ given' = [given EXCEPT ![p] = Append(@, c)]
  BY DEF AddInstance
<1> DEFINE b == (node[p].type = Json4cObject)
           heap == [node EXCEPT ![c] = [@ EXCEPT !.keyed = b]]
<1>2. /\ Shape(node, given, memory, loose) /\ node \in [Nodes -> NodeRecord] /\ c \in Nodes
      /\ given = [n \in Nodes |-> given[n]] /\ b \in BOOLEAN
  BY DEF JsonInv, Shape, ShapeType
<1>3. node' = addChild(heap, p, c)
  BY <1>1
<1> HIDE DEF b
<1>4. /\ heap \in [Nodes -> NodeRecord]
      /\ \A n \in Nodes : heap[n].type = node[n].type /\ heap[n].value = node[n].value
  BY <1>2 DEF NodeRecord
<1> HIDE DEF heap
<1>5. node' = Tip(heap, given, p, c)
  BY <1>1, <1>2, <1>3, AddChildIs
<1>6. ASSUME NEW n \in Nodes PROVE ValueIn(node', given', n)
  <2>1. node'[n].type = node[n].type /\ node'[n].value = node[n].value
    BY <1>4, <1>5, TipSame
  <2>2. ValueIn(node, given, n)
    BY DEF ValueInv
  <2>3. CASE n = p
    BY <1>1, <2>1, <2>3 DEF ValueIn, Instances, Json4cString, Json4cObject, Json4cArray
  <2>4. CASE n # p
    <3>1. given'[n] = given[n]
      BY <1>1, <1>2, <2>4
    <3> QED  BY <2>1, <2>2, <3>1 DEF ValueIn
  <2> QED  BY <2>3, <2>4
<1> QED  BY <1>6 DEF ValueInv, ValueIn

LEMMA ValueSame ==
    ASSUME ValueInv, node' = node, given' = given
    PROVE  ValueInv'
BY DEF ValueInv, ValueIn

LEMMA ValueKeeps == JsonInv /\ ValueInv /\ [Next]_vars => ValueInv'
<1> SUFFICES ASSUME JsonInv, ValueInv, [Next]_vars PROVE ValueInv'
  OBVIOUS
<1>1. CASE AddNumber
  <2>1. PICK p \in Nodes : node[p].type \in Instances /\ Add(p, Json4cNumber, <<>>, <<>>)
    BY <1>1 DEF AddNumber
  <2>2. <<>> \in Texts /\ Json4cNumber # Json4cString
    BY DEF Texts, Json4cNumber, Json4cString
  <2> QED  BY <2>1, <2>2, ValueAdd
<1>2. CASE AddString
  <2>1. PICK p \in Nodes, value \in Values :
            /\ node[p].type \in Instances
            /\ \/ Add(p, Json4cString, strreplace(value), value)
               \/ Add(p, Json4cString, value, value) /\ "quote" \notin ToSet(value)
    BY <1>2 DEF AddString, Instances
  <2>2. value \in Seq(Char) /\ strreplace(value) \in Texts /\ value \in Texts
    BY JsonAssumption DEF Texts
  <2>3. CASE Add(p, Json4cString, strreplace(value), value)
    BY <2>1, <2>2, <2>3, ValueAdd
  <2>4. CASE Add(p, Json4cString, value, value) /\ "quote" \notin ToSet(value)
    <3>1. \A i \in 1 .. Len(value) : value[i] # "quote"
      BY <2>2, <2>4, LenProperties DEF ToSet
    <3>2. strreplace(value) = value
      BY <2>2, <3>1, NothingEscaped
    <3> QED  BY <2>1, <2>2, <2>4, <3>2, ValueAdd
  <2> QED  BY <2>1, <2>3, <2>4
<1>3. CASE Create
  BY <1>3, ValueCreate
<1>4. CASE AddInstance
  BY <1>4, ValueAttach
<1>5. CASE jToString \/ ScalarToString \/ InstanceToString \/ ReturnString \/ FreeChild
  BY <1>5, ValueSame DEF jToString, ScalarToString, InstanceToString, ReturnString, FreeChild, tree
<1>6. CASE FreeNode
  BY <1>6, ValueSame DEF FreeNode
<1>7. CASE UNCHANGED vars
  BY <1>7, ValueSame DEF vars, tree
<1> QED  BY <1>1, <1>2, <1>3, <1>4, <1>5, <1>6, <1>7 DEF Next

-----------------------------------------------------------------------------
(* The strings below a node, in order.                                      *)

Gathered(G, r, list) ==
    IF r.type = Json4cString THEN <<list>>
    ELSE IF r.type = Json4cNumber THEN <<>>
    ELSE FlattenSeq([i \in DOMAIN list |-> G[list[i]]])

IsGathered(G, heap, lists) == \A n \in Nodes : G[n] = Gathered(G, heap[n], lists[n])

\* Those of the first k children.
All(G, list, k) == FlattenSeq([i \in 1 .. k |-> G[list[i]]])

Strings == Seq(Seq(Char))

LEMMA NoneOrOne == <<>> \in Strings /\ \A v \in Seq(Char) : <<v>> \in Strings
<1> DEFINE S == Seq(Char)
<1> HIDE DEF S
<1>1. <<>> \in Seq(S) /\ \A v \in S : <<v>> \in Seq(S)
  OBVIOUS
<1> QED  BY <1>1 DEF S, Strings

\* The strings below a node depend on those of its children only.
LEMMA GatheredSame ==
    ASSUME Shape(node, given, memory, loose), NEW n \in Nodes, NEW g, NEW h,
           \A c \in Nodes : n < c => g[c] = h[c]
    PROVE  Gathered(g, node[n], given[n]) = Gathered(h, node[n], given[n])
<1>1. CASE node[n].type \in Instances
  <2> DEFINE list == given[n]
  <2>1. \A i \in DOMAIN list : g[list[i]] = h[list[i]]
    BY <1>1, YoungerChildren
  <2> HIDE DEF list
  <2>2. [i \in DOMAIN list |-> g[list[i]]] = [i \in DOMAIN list |-> h[list[i]]]
    BY <2>1
  <2> QED  BY <2>2 DEF Gathered, list
<1>2. CASE node[n].type \notin Instances
  BY <1>2, YoungerChildren DEF Gathered
<1> QED  BY <1>1, <1>2

LEMMA GatheredIs ==
    ASSUME Shape(node, given, memory, loose)
    PROVE  IsGathered(StringsOf, node, given)
<1> DEFINE B(g, n) == Gathered(g, node[n], given[n])
           To(g, m) == /\ g = [n \in Nodes |-> g[n]]
                       /\ \A n \in Nodes : n > MaxNodes - m => g[n] = B(g, n)
           Bad == {m \in Nat : m <= MaxNodes /\ ~\E g : To(g, m)}
<1>1. MaxNodes \in Nat /\ \A n \in Nodes : n \in Nat /\ n >= 1 /\ n <= MaxNodes
  BY JsonAssumption DEF Nodes
<1>2. ASSUME NEW n \in Nodes, NEW g, NEW h, \A c \in Nodes : n < c => g[c] = h[c]
      PROVE  B(g, n) = B(h, n)
  BY <1>2, GatheredSame
<1> HIDE DEF B
<1>3. Bad = {}
  <2> SUFFICES ASSUME Bad # {} PROVE FALSE
    OBVIOUS
  <2>1. PICK m \in Bad : \A k \in Bad : m <= k
    <3>1. Bad \subseteq Nat
      OBVIOUS
    <3> HIDE DEF Bad
    <3> QED  BY <3>1, LeastNat
  <2>2. m \in Nat /\ m <= MaxNodes /\ ~\E g : To(g, m)
    OBVIOUS
  <2>3. CASE m = 0
    <3> DEFINE g == [n \in Nodes |-> n]
    <3>1. To(g, m)
      BY <1>1, <2>3
    <3> HIDE DEF To, g
    <3> QED  BY <2>2, <3>1
  <2>4. CASE m # 0
    <3>1. m - 1 \in Nat /\ m - 1 <= MaxNodes /\ ~(m <= m - 1)
      BY <1>1, <2>2, <2>4
    <3>2. PICK g : To(g, m - 1)
      <4> HIDE DEF To
      <4> QED  BY <2>1, <3>1
    <3> DEFINE last == MaxNodes - m + 1
               new == B(g, last)
               h == [n \in Nodes |-> IF n = last THEN new ELSE g[n]]
    <3>3. last \in Int /\ last = MaxNodes - (m - 1)
      BY <1>1, <2>2
    <3> HIDE DEF new
    <3>4. ASSUME NEW n \in Nodes, n > MaxNodes - m PROVE h[n] = B(h, n)
      <4>1. n = last \/ n > MaxNodes - (m - 1)
        BY <1>1, <2>2, <3>4
      <4>2. \A c \in Nodes : n < c => g[c] = h[c]
        BY <1>1, <2>2, <3>4
      <4> HIDE DEF h, last
      <4>3. B(g, n) = B(h, n)
        BY <1>2, <4>2
      <4>4. CASE n = last
        <5>1. h[n] = new
          BY <4>4 DEF h
        <5> QED  BY <4>3, <4>4, <5>1 DEF new
      <4>5. CASE n # last
        <5>1. h[n] = g[n]
          BY <4>5 DEF h
        <5> QED  BY <3>2, <4>1, <4>3, <4>5, <5>1
      <4> QED  BY <4>4, <4>5
    <3>5. h = [n \in Nodes |-> h[n]]
      OBVIOUS
    <3> HIDE DEF h
    <3>6. To(h, m)
      BY <3>4, <3>5
    <3> HIDE DEF To
    <3> QED  BY <2>2, <3>6
  <2> QED  BY <2>3, <2>4
<1>4. \E g : To(g, MaxNodes)
  <2>1. MaxNodes \notin Bad
    BY <1>3
  <2> HIDE DEF To
  <2> QED  BY <1>1, <2>1
<1>5. PICK g : To(g, MaxNodes)
  BY <1>4
<1>6. g = [n \in Nodes |-> B(g, n)]
  <2>1. \A n \in Nodes : g[n] = B(g, n)
    BY <1>1, <1>5
  <2>2. g = [n \in Nodes |-> g[n]]
    BY <1>5
  <2> QED  BY <2>1, <2>2
<1>7. StringsOf = CHOOSE f : f = [n \in Nodes |-> B(f, n)]
  BY DEF StringsOf, B, Gathered
<1>8. StringsOf = [n \in Nodes |-> B(StringsOf, n)]
  BY <1>6, <1>7
<1>9. \A n \in Nodes : StringsOf[n] = B(StringsOf, n)
  <2> DEFINE w == StringsOf
  <2>1. w = [n \in Nodes |-> B(w, n)]
    BY <1>8
  <2> HIDE DEF w
  <2>2. \A n \in Nodes : w[n] = B(w, n)
    BY <2>1
  <2> QED  BY <2>2 DEF w
<1> QED  BY <1>9 DEF B, IsGathered

LEMMA AllIs ==
    ASSUME NEW G, NEW list, NEW k \in Nat, \A i \in 1 .. k : G[list[i]] \in Strings
    PROVE  /\ k = 0 => All(G, list, k) = <<>>
           /\ k > 0 => All(G, list, k) = All(G, list, k - 1) \o G[list[k]]
           /\ All(G, list, k) \in Strings
<1> DEFINE F(n) == [i \in 1 .. n |-> G[list[i]]]
           T == Seq(Char)
<1> HIDE DEF T
<1>1. ASSUME NEW n \in Nat, n <= k
      PROVE  /\ All(G, list, n) = FlattenSeq(F(n)) /\ Len(F(n)) = n
             /\ \A i \in 1 .. n : F(n)[i] \in Seq(T) /\ F(n)[i] = G[list[i]]
             /\ n = 0 => All(G, list, n) = <<>>
  <2> DEFINE f == F(n)
  <2>1. \A i \in 1 .. n : i \in 1 .. k
    BY <1>1
  <2>2. f \in [1 .. n -> Seq(T)] /\ \A i \in 1 .. n : f[i] \in Seq(T) /\ f[i] = G[list[i]]
    BY <2>1 DEF T, Strings
  <2>3. All(G, list, n) = FlattenSeq(f)
    BY DEF All
  <2> HIDE DEF f
  <2>4. f \in Seq(Seq(T)) /\ Len(f) = n
    BY <2>2, FunctionSeq
  <2>5. n = 0 => FlattenSeq(f) = f /\ f = <<>>
    BY <2>4, EmptySeq DEF FlattenSeq
  <2> QED  BY <2>2, <2>3, <2>4, <2>5 DEF f
<1>2. CASE k = 0
  <2>1. All(G, list, k) = <<>>
    <3> HIDE DEF F
    <3> QED  BY <1>1, <1>2
  <2> QED  BY <1>2, <2>1, NoneOrOne
<1>3. CASE k # 0
  <2> DEFINE f == F(k)
             h == F(k - 1)
  <2>1. /\ All(G, list, k) = FlattenSeq(f) /\ Len(f) = k
        /\ \A i \in 1 .. k : f[i] \in Seq(T) /\ f[i] = G[list[i]]
    <3>1. k <= k
      OBVIOUS
    <3> HIDE DEF F
    <3> QED  BY <1>1, <3>1
  <2>2. /\ All(G, list, k - 1) = FlattenSeq(h) /\ Len(h) = k - 1
        /\ \A i \in 1 .. k - 1 : h[i] = G[list[i]]
        /\ k - 1 = 0 => All(G, list, k - 1) = <<>>
    <3>1. k - 1 \in Nat /\ k - 1 <= k
      BY <1>3
    <3> HIDE DEF F
    <3> QED  BY <1>1, <3>1
  <2> HIDE DEF f, h
  <2>3. FlattenSeq(f) \in Seq(T)
    BY <1>3, <2>1, FlattenType
  <2>4. CASE k = 1
    <3> DEFINE g == G[list[1]]
    <3>1. FlattenSeq(f) = g /\ g \in Seq(T)
      BY <2>1, <2>4, FlattenOne
    <3> HIDE DEF g
    <3>2. <<>> \o g = g
      BY <3>1, ConcatEmptySeq
    <3> QED  BY <2>1, <2>2, <2>3, <2>4, <3>1, <3>2 DEF g, T, Strings
  <2>5. CASE k # 1
    <3>1. k - 1 \in Nat /\ k - 1 # 0 /\ k > 0 /\ k - 1 + 1 = k
      BY <1>3, <2>5
    <3>2. \A i \in 1 .. k - 1 : f[i] = h[i]
      BY <2>1, <2>2
    <3>3. FlattenSeq(f) = FlattenSeq(h) \o f[k]
      BY <2>1, <2>2, <3>1, <3>2, FlattenMore
    <3>4. f[k] = G[list[k]]
      BY <1>3, <2>1
    <3> QED  BY <1>3, <2>1, <2>2, <2>3, <3>3, <3>4 DEF T, Strings
  <2> QED  BY <2>4, <2>5
<1> QED  BY <1>2, <1>3

LEMMA GatheredInstance ==
    ASSUME Shape(node, given, memory, loose), NEW G, IsGathered(G, node, given), NEW n \in Nodes,
           node[n].type \in Instances
    PROVE  G[n] = All(G, given[n], Len(given[n]))
BY YoungerChildren DEF IsGathered, Gathered, All

LEMMA GatheredType ==
    ASSUME Shape(node, given, memory, loose), ValueInv, NEW G, IsGathered(G, node, given)
    PROVE  \A n \in Nodes : G[n] \in Strings
<1> DEFINE Bad == {m \in Nat : MaxNodes - m \in Nodes /\ G[MaxNodes - m] \notin Strings}
<1>1. MaxNodes \in Nat /\ \A n \in Nodes : n \in Nat /\ n >= 1 /\ n <= MaxNodes
  BY JsonAssumption DEF Nodes
<1>2. Bad = {}
  <2> SUFFICES ASSUME Bad # {} PROVE FALSE
    OBVIOUS
  <2>1. PICK m \in Bad : \A k \in Bad : m <= k
    <3>1. Bad \subseteq Nat
      OBVIOUS
    <3> HIDE DEF Bad
    <3> QED  BY <3>1, LeastNat
  <2> DEFINE n == MaxNodes - m
  <2>2. n \in Nodes /\ G[n] \notin Strings /\ m \in Nat
    OBVIOUS
  <2>3. ASSUME NEW c \in Nodes, n < c PROVE G[c] \in Strings
    <3> DEFINE k == MaxNodes - c
    <3>1. k \in Nat /\ ~(m <= k) /\ MaxNodes - k = c
      BY <1>1, <2>3
    <3> HIDE DEF k
    <3> QED  BY <2>1, <3>1
  <2> HIDE DEF n
  <2>4. G[n] = Gathered(G, node[n], given[n])
    BY <2>2 DEF IsGathered
  <2>5. CASE node[n].type = Json4cNumber
    BY <2>2, <2>4, <2>5, NoneOrOne DEF Gathered, Json4cNumber, Json4cString
  <2>6. CASE node[n].type = Json4cString
    <3>1. given[n] \in Seq(Char)
      BY <2>2, <2>6, JsonAssumption DEF ValueInv, ValueIn
    <3> QED  BY <2>2, <2>4, <2>6, <3>1, NoneOrOne DEF Gathered
  <2>7. CASE node[n].type \in Instances
    <3> DEFINE list == given[n]
    <3>1. Len(list) \in Nat /\ \A i \in 1 .. Len(list) : G[list[i]] \in Strings
      BY <2>2, <2>3, <2>7, YoungerChildren
    <3>2. G[n] = All(G, list, Len(list))
      BY <2>2, <2>7, GatheredInstance
    <3> HIDE DEF list
    <3> QED  BY <2>2, <3>1, <3>2, AllIs
  <2> QED  BY <2>2, <2>5, <2>6, <2>7, YoungerChildren
<1> SUFFICES ASSUME NEW n \in Nodes, G[n] \notin Strings PROVE FALSE
  OBVIOUS
<1> DEFINE k == MaxNodes - n
<1>3. k \in Nat /\ MaxNodes - k = n
  BY <1>1
<1> HIDE DEF k
<1> QED  BY <1>2, <1>3

-----------------------------------------------------------------------------
(* What a reader that is between strings takes from a text.                 *)

Clean(strings) == \A i \in 1 .. Len(strings) :
                      \A j \in 1 .. Len(strings[i]) : strings[i][j] # "backslash"

Between(r) == ~r.inside /\ r.out \in Strings

Yields(s, strings) ==
    Clean(strings) => \A r : Between(r) =>
        Between(Read(s, r)) /\ Read(s, r).out = r.out \o strings

LEMMA CleanParts ==
    ASSUME NEW a \in Strings, NEW b \in Strings, Clean(a \o b)
    PROVE  Clean(a) /\ Clean(b)
<1> DEFINE T == Seq(Char)
           c == a \o b
<1> HIDE DEF T
<1>1. a \in Seq(T) /\ b \in Seq(T)
  BY DEF T, Strings
<1>2. /\ Len(a) \in Nat /\ Len(b) \in Nat /\ Len(c) = Len(a) + Len(b)
      /\ \A i \in 1 .. Len(a) + Len(b) : c[i] = IF i <= Len(a) THEN a[i] ELSE b[i - Len(a)]
  BY <1>1, ConcatProperties, LenProperties
<1> HIDE DEF c
<1>3. \A i \in 1 .. Len(c) : \A j \in 1 .. Len(c[i]) : c[i][j] # "backslash"
  BY DEF Clean, c
<1>4. ASSUME NEW i \in 1 .. Len(a) PROVE i \in 1 .. Len(c) /\ c[i] = a[i]
  BY <1>2
<1>5. ASSUME NEW i \in 1 .. Len(b) PROVE \E k \in 1 .. Len(c) : c[k] = b[i]
  <2> DEFINE k == Len(a) + i
  <2>1. k \in 1 .. Len(a) + Len(b) /\ ~(k <= Len(a)) /\ k - Len(a) = i
    BY <1>2
  <2> HIDE DEF k
  <2> QED  BY <1>2, <2>1
<1>6. Clean(a)
  BY <1>3, <1>4 DEF Clean
<1>7. ASSUME NEW i \in 1 .. Len(b), NEW j \in 1 .. Len(b[i]) PROVE b[i][j] # "backslash"
  <2>1. PICK k \in 1 .. Len(c) : c[k] = b[i]
    BY <1>5
  <2> QED  BY <1>3, <2>1
<1> QED  BY <1>6, <1>7 DEF Clean

LEMMA YieldsConcat ==
    ASSUME NEW s \in Seq(Symbol), NEW t \in Seq(Symbol), NEW a \in Strings, NEW b \in Strings,
           Yields(s, a), Yields(t, b)
    PROVE  Yields(s \o t, a \o b) /\ s \o t \in Seq(Symbol) /\ a \o b \in Strings
<1> DEFINE T == Seq(Char)
<1> HIDE DEF T
<1>1. Strings = Seq(T)
  BY DEF T, Strings
<1>2. s \o t \in Seq(Symbol) /\ a \o b \in Strings
  BY <1>1, ConcatProperties
<1>3. ASSUME Clean(a \o b), NEW r, Between(r)
      PROVE  Between(Read(s \o t, r)) /\ Read(s \o t, r).out = r.out \o (a \o b)
  <2> DEFINE q == Read(s, r)
  <2>1. Clean(a) /\ Clean(b)
    BY <1>3, CleanParts
  <2>2. Between(q) /\ q.out = r.out \o a
    BY <1>3, <2>1 DEF Yields
  <2>3. Read(s \o t, r) = Read(t, q)
    BY ReadConcat
  <2> HIDE DEF q
  <2>4. Between(Read(t, q)) /\ Read(t, q).out = q.out \o b
    BY <2>1, <2>2 DEF Yields
  <2> DEFINE o == r.out
  <2>5. o \in Seq(T)
    BY <1>1, <1>3 DEF Between
  <2> HIDE DEF o
  <2>6. (o \o a) \o b = o \o (a \o b)
    BY <1>1, <2>5, ConcatAssociative
  <2> QED  BY <2>2, <2>3, <2>4, <2>6 DEF o
<1> QED  BY <1>2, <1>3 DEF Yields

LEMMA OutKept == \A r : Between(r) => r.out \o <<>> = r.out
<1> SUFFICES ASSUME NEW r, Between(r) PROVE r.out \o <<>> = r.out
  OBVIOUS
<1> DEFINE T == Seq(Char)
           o == r.out
<1>1. o \in Seq(T)
  BY DEF Between, Strings
<1> HIDE DEF T, o
<1>2. o \o <<>> = o
  BY <1>1, ConcatEmptySeq
<1> QED  BY <1>2 DEF o

LEMMA YieldsNothing ==
    /\ Yields(<<>>, <<>>)
    /\ \A c : c # "quote" => Yields(<<c>>, <<>>)
<1>1. Yields(<<>>, <<>>)
  BY ReadNone, OutKept DEF Yields
<1>2. ASSUME NEW c, c # "quote" PROVE Yields(<<c>>, <<>>)
  <2>1. ASSUME NEW r, Between(r) PROVE Read(<<c>>, r) = r
    BY <1>2, <2>1, ReadOne, ReaderSteps DEF Between
  <2> QED  BY <2>1, OutKept DEF Yields
<1> QED  BY <1>1, <1>2

LEMMA YieldsString ==
    ASSUME NEW v \in Seq(Char)
    PROVE  Yields(Quoted(strreplace(v)), <<v>>)
<1> SUFFICES ASSUME Clean(<<v>>), NEW r, Between(r)
             PROVE  /\ Between(Read(Quoted(strreplace(v)), r))
                    /\ Read(Quoted(strreplace(v)), r).out = r.out \o <<v>>
  BY DEF Yields
<1>1. \A j \in 1 .. Len(v) : v[j] # "backslash"
  <2> DEFINE s == <<v>>
  <2>1. Len(s) = 1 /\ s[1] = v
    OBVIOUS
  <2> HIDE DEF s
  <2>2. Clean(s)
    BY DEF s
  <2>3. 1 \in 1 .. Len(s)
    BY <2>1
  <2> QED  BY <2>1, <2>2, <2>3 DEF Clean
<1>2. ~r.inside
  BY DEF Between
<1>3. Read(Quoted(strreplace(v)), r) = Reader(FALSE, FALSE, v, Append(r.out, v))
  BY <1>1, <1>2, ReadQuoted
<1> DEFINE T == Seq(Char)
           o == r.out
<1>4. o \in Seq(T) /\ v \in T
  BY DEF Between, Strings
<1> HIDE DEF T, o
<1>5. Append(o, v) = o \o <<v>> /\ Append(o, v) \in Seq(T)
  BY <1>4, AppendIsConcat, AppendProperties
<1> DEFINE x == Append(o, v)
<1>6. Reader(FALSE, FALSE, v, x).inside = FALSE /\ Reader(FALSE, FALSE, v, x).out = x
  BY DEF Reader
<1>7. Read(Quoted(strreplace(v)), r) = Reader(FALSE, FALSE, v, x)
  BY <1>3 DEF o
<1> HIDE DEF x
<1>8. /\ Between(Reader(FALSE, FALSE, v, x))
      /\ Reader(FALSE, FALSE, v, x).out = o \o <<v>>
  BY <1>5, <1>6 DEF Between, T, Strings, x
<1> QED  BY <1>7, <1>8 DEF o

LEMMA EmptyStrings == /\ <<>> \in Strings
                      /\ \A a \in Strings : <<>> \o a = a /\ a \o <<>> = a
<1> DEFINE T == Seq(Char)
<1> HIDE DEF T
<1>1. <<>> \in Seq(T) /\ \A a \in Seq(T) : <<>> \o a = a /\ a \o <<>> = a
  BY EmptySeq, ConcatEmptySeq
<1> QED  BY <1>1 DEF T, Strings

\* Keys, brackets, numbers and commas have no strings.
LEMMA YieldsMarks ==
    /\ Yields(<<",">>, <<>>) /\ Yields(<<"number">>, <<>>)
    /\ \A r : Yields(Name(r), <<>>) /\ Yields(Begin(r), <<>>) /\ Yields(End(r), <<>>)
<1>1. /\ Yields(<<",">>, <<>>) /\ Yields(<<"number">>, <<>>) /\ Yields(<<"key">>, <<>>)
      /\ Yields(<<"{">>, <<>>) /\ Yields(<<"[">>, <<>>) /\ Yields(<<"}">>, <<>>)
      /\ Yields(<<"]">>, <<>>)
  BY YieldsNothing
<1>2. \A r : Yields(Name(r), <<>>) /\ Yields(End(r), <<>>)
  BY <1>1, YieldsNothing DEF Name, End
<1>3. ASSUME NEW r PROVE Yields(Begin(r), <<>>)
  <2> DEFINE a == Name(r)
             b == <<IF r.type = Json4cObject THEN "{" ELSE "[">>
  <2>1. Yields(a, <<>>) /\ Yields(b, <<>>)
    BY <1>1, <1>2
  <2>2. a \in Seq(Symbol) /\ b \in Seq(Symbol)
    <3>1. <<"{">> \in Seq(Symbol) /\ <<"[">> \in Seq(Symbol)
      BY DEF Symbol
    <3> QED  BY <3>1, Symbols
  <2>3. Begin(r) = a \o b
    BY DEF Begin
  <2> DEFINE none == <<>>
  <2>4. none \in Strings /\ none \o none = none /\ Yields(a, none) /\ Yields(b, none)
    BY <2>1, EmptyStrings
  <2> HIDE DEF a, b, none
  <2>5. Yields(a \o b, none \o none)
    BY <2>2, <2>4, YieldsConcat
  <2> QED  BY <2>3, <2>4, <2>5 DEF none
<1> QED  BY <1>1, <1>2, <1>3

\* The texts of the first k children have the strings below them.
LEMMA YieldsChildren ==
    ASSUME NEW W, NEW G, NEW list, NEW n \in Nat,
           \A i \in 1 .. n : /\ W[list[i]] \in Seq(Symbol) /\ G[list[i]] \in Strings
                             /\ Yields(W[list[i]], G[list[i]])
    PROVE  Yields(Pre(W, list, n), All(G, list, n))
<1> DEFINE Bad == {k \in Nat : k <= n /\ ~Yields(Pre(W, list, k), All(G, list, k))}
<1>1. ASSUME NEW k \in Nat, k <= n
      PROVE  /\ k = 0 => Pre(W, list, k) = <<>> /\ All(G, list, k) = <<>>
             /\ k = 1 => Pre(W, list, k) = W[list[1]]
             /\ k > 1 => Pre(W, list, k) = Pre(W, list, k - 1) \o (<<",">> \o W[list[k]])
             /\ k > 0 => All(G, list, k) = All(G, list, k - 1) \o G[list[k]]
             /\ Pre(W, list, k) \in Seq(Symbol) /\ All(G, list, k) \in Strings
  <2>1. \A i \in 1 .. k : W[list[i]] \in Seq(Symbol) /\ G[list[i]] \in Strings
    BY <1>1
  <2> QED  BY <2>1, PreIs, AllIs
<1>2. Bad = {}
  <2> SUFFICES ASSUME Bad # {} PROVE FALSE
    OBVIOUS
  <2>1. PICK k \in Bad : \A j \in Bad : k <= j
    <3>1. Bad \subseteq Nat
      OBVIOUS
    <3> HIDE DEF Bad
    <3> QED  BY <3>1, LeastNat
  <2>2. k \in Nat /\ k <= n /\ ~Yields(Pre(W, list, k), All(G, list, k))
    OBVIOUS
  <2>3. k # 0
    BY <1>1, <2>2, YieldsNothing
  <2> DEFINE w == W[list[k]]
             g == G[list[k]]
  <2>4. w \in Seq(Symbol) /\ g \in Strings /\ Yields(w, g)
    <3>1. k \in 1 .. n
      BY <2>2, <2>3
    <3> QED  BY <3>1
  <2>5. CASE k = 1
    <3>1. 0 \in Nat /\ 0 <= n /\ k - 1 = 0
      BY <2>2, <2>5
    <3>2. All(G, list, 0) = <<>>
      BY <1>1, <3>1
    <3>3. Pre(W, list, k) = w /\ All(G, list, k) = <<>> \o g
      <4>1. Pre(W, list, k) = w
        BY <1>1, <2>2, <2>5
      <4>2. All(G, list, k) = All(G, list, k - 1) \o g
        <5>1. k > 0
          BY <2>2, <2>5
        <5> QED  BY <1>1, <2>2, <5>1
      <4> HIDE DEF w, g
      <4> QED  BY <3>1, <3>2, <4>1, <4>2
    <3> HIDE DEF w, g
    <3> QED  BY <2>2, <2>4, <3>3, EmptyStrings
  <2>6. CASE k # 1
    <3> DEFINE j == k - 1
               p == Pre(W, list, j)
               a == All(G, list, j)
               comma == <<",">>
               cw == comma \o w
               none == <<>>
    <3>1. j \in Nat /\ j <= n /\ ~(k <= j) /\ k > 1 /\ k > 0
      BY <2>2, <2>3, <2>6
    <3>2. Yields(p, a)
      BY <2>1, <3>1
    <3>3. /\ p \in Seq(Symbol) /\ a \in Strings
          /\ Pre(W, list, k) = p \o cw /\ All(G, list, k) = a \o g
      BY <1>1, <2>2, <3>1
    <3>4. comma \in Seq(Symbol) /\ Yields(comma, none) /\ none \in Strings /\ none \o g = g
      BY <2>4, Symbols, YieldsMarks, EmptyStrings
    <3> HIDE DEF w, g, p, a, comma, none
    <3>5. Yields(cw, g) /\ cw \in Seq(Symbol)
      <4>1. Yields(comma \o w, none \o g) /\ comma \o w \in Seq(Symbol)
        BY <2>4, <3>4, YieldsConcat
      <4> QED  BY <3>4, <4>1
    <3> HIDE DEF cw
    <3>6. Yields(p \o cw, a \o g)
      BY <2>4, <3>2, <3>3, <3>5, YieldsConcat
    <3> QED  BY <2>2, <3>3, <3>6
  <2> QED  BY <2>5, <2>6
<1>3. n \in Nat /\ n <= n
  OBVIOUS
<1> QED  BY <1>2, <1>3

LEMMA YieldsNode ==
    ASSUME Shape(node, given, memory, loose), ValueInv,
           NEW W, IsWritten(W, node, given), NEW G, IsGathered(G, node, given)
    PROVE  \A n \in Nodes : Yields(W[n], G[n])
<1> DEFINE Bad == {m \in Nat : MaxNodes - m \in Nodes /\ ~Yields(W[MaxNodes - m], G[MaxNodes - m])}
           none == <<>>
<1>1. MaxNodes \in Nat /\ \A n \in Nodes : n \in Nat /\ n >= 1 /\ n <= MaxNodes
  BY JsonAssumption DEF Nodes
<1>2. none \in Strings /\ \A a \in Strings : none \o a = a /\ a \o none = a
  BY EmptyStrings
<1>3. \A n \in Nodes : W[n] \in Seq(Symbol) /\ G[n] \in Strings
  BY WrittenType, GatheredType
<1>4. Bad = {}
  <2> SUFFICES ASSUME Bad # {} PROVE FALSE
    OBVIOUS
  <2>1. PICK m \in Bad : \A k \in Bad : m <= k
    <3>1. Bad \subseteq Nat
      OBVIOUS
    <3> HIDE DEF Bad
    <3> QED  BY <3>1, LeastNat
  <2> DEFINE n == MaxNodes - m
             a == Name(node[n])
  <2>2. n \in Nodes /\ ~Yields(W[n], G[n]) /\ m \in Nat
    OBVIOUS
  <2>3. ASSUME NEW c \in Nodes, n < c PROVE Yields(W[c], G[c])
    <3> DEFINE k == MaxNodes - c
    <3>1. k \in Nat /\ ~(m <= k) /\ MaxNodes - k = c
      BY <1>1, <2>3
    <3> HIDE DEF k
    <3> QED  BY <2>1, <3>1
  <2> HIDE DEF n
  <2>4. W[n] = Body(W, node[n], given[n]) /\ G[n] = Gathered(G, node[n], given[n])
    BY <2>2 DEF IsWritten, IsGathered
  <2>5. a \in Seq(Symbol) /\ Yields(a, none)
    BY Symbols, YieldsMarks
  <2>6. CASE node[n].type = Json4cNumber
    <3> DEFINE b == <<"number">>
    <3>1. b \in Seq(Symbol) /\ Yields(b, none)
      BY Symbols, YieldsMarks
    <3>2. W[n] = a \o b /\ G[n] = none
      BY <2>4, <2>6 DEF Body, Gathered, Json4cNumber, Json4cString
    <3> HIDE DEF a, b, none
    <3>3. Yields(a \o b, none \o none)
      BY <1>2, <2>5, <3>1, YieldsConcat
    <3> QED  BY <1>2, <2>2, <3>2, <3>3
  <2>7. CASE node[n].type = Json4cString
    <3> DEFINE v == given[n]
               q == <<"quote">>
               w == strreplace(v)
               u == Quoted(w)
               g == <<v>>
    <3>1. v \in Seq(Char) /\ node[n].value = w
      BY <2>2, <2>7, JsonAssumption DEF ValueInv, ValueIn
    <3>2. w \in Seq(Symbol) /\ q \in Seq(Symbol)
      <4>1. node[n].value \in Seq(Symbol)
        BY <2>2, ValueType
      <4> QED  BY <3>1, <4>1, Symbols
    <3>3. Yields(u, g) /\ g \in Strings
      BY <3>1, YieldsString, NoneOrOne
    <3>4. W[n] = ((a \o q) \o w) \o q /\ G[n] = g
      BY <2>4, <2>7, <3>1 DEF Body, Gathered, Json4cString, Json4cNumber
    <3>5. u = (q \o w) \o q
      BY DEF Quoted
    <3> HIDE DEF a, q, w, u, g, none
    <3>6. ((a \o q) \o w) \o q = a \o u
      <4> DEFINE aq == a \o q
                 wq == w \o q
                 qw == q \o w
      <4>1. aq \in Seq(Symbol) /\ wq \in Seq(Symbol) /\ qw \in Seq(Symbol)
        BY <2>5, <3>2, ConcatProperties
      <4>2. (aq \o w) \o q = aq \o wq
        <5> HIDE DEF aq
        <5> QED  BY <3>2, <4>1, Associative
      <4>3. (a \o q) \o wq = a \o (q \o wq)
        <5> HIDE DEF wq
        <5> QED  BY <2>5, <3>2, <4>1, Associative
      <4>4. (q \o w) \o q = q \o wq
        BY <3>2, Associative
      <4> QED  BY <3>5, <4>2, <4>3, <4>4
    <3>7. u \in Seq(Symbol)
      <4> DEFINE qw == q \o w
      <4>1. qw \in Seq(Symbol)
        BY <3>2, ConcatProperties
      <4> HIDE DEF qw
      <4>2. qw \o q \in Seq(Symbol)
        BY <3>2, <4>1, ConcatProperties
      <4> QED  BY <3>5, <4>2 DEF qw
    <3>8. Yields(a \o u, none \o g)
      BY <1>2, <2>5, <3>3, <3>7, YieldsConcat
    <3> QED  BY <1>2, <2>2, <3>3, <3>4, <3>6, <3>8
  <2>8. CASE node[n].type \in Instances
    <3> DEFINE list == given[n]
               k == Len(list)
               b == Begin(node[n])
               p == Pre(W, list, k)
               e == End(node[n])
               all == All(G, list, k)
               bp == b \o p
    <3>1. k \in Nat /\ \A i \in 1 .. k : /\ W[list[i]] \in Seq(Symbol) /\ G[list[i]] \in Strings
                                         /\ Yields(W[list[i]], G[list[i]])
      BY <1>3, <2>2, <2>3, <2>8, YoungerChildren
    <3>2. Yields(p, all) /\ p \in Seq(Symbol) /\ all \in Strings
      <4> HIDE DEF k, list
      <4> QED  BY <3>1, YieldsChildren, PreIs, AllIs
    <3>3. /\ b \in Seq(Symbol) /\ e \in Seq(Symbol)
          /\ Yields(b, none) /\ Yields(e, none)
      BY Symbols, YieldsMarks
    <3>4. W[n] = bp \o e /\ G[n] = all
      BY <2>2, <2>8, WrittenInstance, GatheredInstance
    <3> HIDE DEF b, p, e, all, none
    <3>5. Yields(bp, all) /\ bp \in Seq(Symbol)
      <4>1. Yields(b \o p, none \o all) /\ b \o p \in Seq(Symbol)
        BY <1>2, <3>2, <3>3, YieldsConcat
      <4> QED  BY <1>2, <3>2, <4>1
    <3> HIDE DEF bp
    <3>6. Yields(bp \o e, all \o none)
      BY <1>2, <3>2, <3>3, <3>5, YieldsConcat
    <3> QED  BY <1>2, <2>2, <3>2, <3>4, <3>6
  <2> QED  BY <2>2, <2>6, <2>7, <2>8, YoungerChildren
<1> SUFFICES ASSUME NEW n \in Nodes, ~Yields(W[n], G[n]) PROVE FALSE
  OBVIOUS
<1> DEFINE k == MaxNodes - n
<1>5. k \in Nat /\ MaxNodes - k = n
  BY <1>1
<1> HIDE DEF k
<1> QED  BY <1>4, <1>5

\* A reader of the root's text takes from it the strings that were added to the tree, in
\* order and with quotes anywhere in them, when none of them has a backslash: for every
\* tree, every set of strings and every size of the buffers.
THEOREM StringsComeBack == Spec => []StringsReadBack
<1>1. Init => ValueInv
  <2>1. Init => \A n \in Nodes : node[n].type # Json4cString
    BY DEF Init, Blank, Json4cObject, Json4cString
  <2> QED  BY <2>1 DEF ValueInv, ValueIn
<1>2. JsonInv /\ ValueInv /\ [Next]_vars => ValueInv'
  BY ValueKeeps
<1>3. JsonInv /\ ValueInv /\ TextIsTree => StringsReadBack
  <2> DEFINE G == StringsOf
             found == G[Root]
             start == Reader(FALSE, FALSE, <<>>, <<>>)
  <2> SUFFICES ASSUME JsonInv, ValueInv, TextIsTree, text # <<>>,
                      \A i \in DOMAIN found : "backslash" \notin ToSet(found[i])
               PROVE  ReadStrings(text) = found
    BY DEF StringsReadBack
  <2>1. Shape(node, given, memory, loose)
    BY DEF JsonInv
  <2>2. IsGathered(G, node, given) /\ Yields(Written[Root], found) /\ found \in Strings
    <3>1. IsGathered(G, node, given) /\ IsWritten(Written, node, given)
      BY <2>1, GatheredIs, WrittenIs
    <3> HIDE DEF G
    <3> QED  BY <2>1, <3>1, Bounds, YieldsNode, GatheredType
  <2> HIDE DEF found
  <2>3. Clean(found)
    <3> DEFINE T == Seq(Char)
    <3>1. found \in Seq(T)
      BY <2>2 DEF Strings
    <3> HIDE DEF T
    <3>2. DOMAIN found = 1 .. Len(found) /\ \A i \in 1 .. Len(found) : found[i] \in T
      BY <3>1, LenProperties, ElementOfSeq
    <3>3. ASSUME NEW i \in 1 .. Len(found), NEW j \in 1 .. Len(found[i])
          PROVE  found[i][j] # "backslash"
      <4> DEFINE v == found[i]
      <4>1. v \in Seq(Char) /\ "backslash" \notin ToSet(v)
        BY <3>2 DEF T
      <4> HIDE DEF v
      <4>2. DOMAIN v = 1 .. Len(v)
        BY <4>1, LenProperties
      <4>3. j \in 1 .. Len(v)
        BY DEF v
      <4>4. v[j] \in ToSet(v)
        BY <4>2, <4>3 DEF ToSet
      <4> QED  BY <4>1, <4>4 DEF v
    <3> QED  BY <3>3 DEF Clean
  <2>4. Between(start) /\ start.out = <<>>
    <3>1. start.inside = FALSE /\ start.out = <<>>
      BY DEF Reader
    <3> HIDE DEF start
    <3> QED  BY <3>1, NoneOrOne DEF Between
  <2>5. ReadStrings(text) = Read(Written[Root], start).out
    BY DEF ReadStrings, TextIsTree
  <2> HIDE DEF start
  <2>6. Read(Written[Root], start).out = <<>> \o found
    BY <2>2, <2>3, <2>4 DEF Yields
  <2> QED  BY <2>2, <2>5, <2>6, EmptyStrings
<1> QED  BY <1>1, <1>2, <1>3, TreeInvariant, TextIsTheTree, PTL DEF Spec
=============================================================================
