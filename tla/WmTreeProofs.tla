---------------------------- MODULE WmTreeProofs ----------------------------
(***************************************************************************)
(* The window tree, for any number of windows and any screen: it stays a   *)
(* tree with one leaf for every window, its nodes and the free stack share *)
(* out the pool, which never runs out, and the windows tile the screen.    *)
(*                                                                         *)
(* The properties speak of what is reached from the root, which is defined *)
(* by recursion over the nodes.  The inductive invariant speaks of all the *)
(* nodes in use instead, and says that they have depths.                   *)
(***************************************************************************)
EXTENDS WmTree, FiniteSetTheorems, SequenceTheorems, WellFoundedInduction, TLAPS

Node == [parent : NodeId \cup {NULL}, left : NodeId \cup {NULL},
         right : NodeId \cup {NULL}, is_leaf : BOOLEAN,
         split_dir : {"SPLIT_H", "SPLIT_V"}, win : Slot \cup {NULL}]

LeafNodes(ns) == {n \in Used(ns) : ns[n].is_leaf}

\* The nodes in use are a binary tree below top: links lead back up, and d, at most
\* M, grows on the way down.
Shape(ns, top, d, M) ==
    /\ ns \in [NodeId -> Node] /\ top \in NodeId \cup {NULL}
    /\ M \in Nat /\ d \in [NodeId -> 0 .. M]
    /\ IF top = NULL THEN Used(ns) = {} ELSE top \in Used(ns) /\ ns[top].parent = NULL
    /\ \A n \in Used(ns) : ~ ns[n].is_leaf =>
          /\ ns[n].left \in Used(ns) /\ ns[n].right \in Used(ns)
          /\ ns[n].left # ns[n].right
          /\ ns[ns[n].left].parent = n /\ ns[ns[n].right].parent = n
    /\ \A n \in Used(ns) \ {top} :
          /\ ns[n].parent \in Used(ns) /\ ~ ns[ns[n].parent].is_leaf
          /\ n \in {ns[ns[n].parent].left, ns[ns[n].parent].right}
          /\ d[ns[n].parent] < d[n]

\* Every living window has one leaf, and every leaf a living window.
Windows(ns, leaves, al) ==
    /\ al \in [Slot -> BOOLEAN]
    /\ \A n \in leaves : ns[n].win \in Slot /\ al[ns[n].win]
    /\ \A m, n \in leaves : ns[m].win = ns[n].win => m = n
    /\ \A s \in Slot : al[s] => \E n \in leaves : ns[n].win = s

\* The nodes below node_pool_idx are in use or, once, on the free stack.
PoolOf(used, pool) ==
    /\ pool = [stack |-> pool.stack, idx |-> pool.idx]
    /\ pool.idx \in 0 .. 2 * MAX_WINDOWS
    /\ pool.stack \in Seq(NodeId) /\ IsInjective(pool.stack)
    /\ used \cap Range(pool.stack) = {}
    /\ used \cup Range(pool.stack) = 0 .. pool.idx - 1

\* A binary tree has one inner node less than leaves.
Counted(used, leaves) == used # {} => Cardinality(used) = 2 * Cardinality(leaves) - 1

Focused == IF root = NULL THEN focused_node = NULL ELSE focused_node \in LeafNodes(nodes)

\* The inductive invariant.
WmInv ==
    /\ \E d, M : Shape(nodes, root, d, M)
    /\ Windows(nodes, LeafNodes(nodes), alive)
    /\ PoolOf(Used(nodes), [stack |-> free_stack, idx |-> node_pool_idx])
    /\ Counted(Used(nodes), LeafNodes(nodes))
    /\ Focused
    /\ next_split_mode \in {"SPLIT_H", "SPLIT_V"}
    /\ rect = Layout(nodes, root)

-----------------------------------------------------------------------------
(***************************************************************************)
(* Recursion over what has a rank.                                         *)
(***************************************************************************)

\* A set of naturals that is not empty has a least element.
LEMMA LeastNat ==
    ASSUME NEW T, T \subseteq Nat, T # {}
    PROVE  \E x \in T : \A y \in T : x <= y
<1>1. PICK x \in T : \A y \in T : ~ (<<y, x>> \in OpToRel(<, Nat))
  BY NatLessThanWellFounded, WFMin
<1>2. \A y \in T : ~ (y < x)
  BY <1>1 DEF OpToRel
<1> QED
  BY <1>2

\* From every element that is not in L two lead on, to elements of lower rank.
Founded(X, L, l, r, h, M) ==
    /\ M \in Nat /\ h \in [X -> 0 .. M]
    /\ \A x \in X \ L : /\ l[x] \in X /\ r[x] \in X
                        /\ h[l[x]] < h[x] /\ h[r[x]] < h[x]

\* A set that has an element whenever it has the two it leads to has all.
Inherits(X, L, l, r, H) ==
    \A x \in X : (x \notin L => l[x] \in H /\ r[x] \in H) => x \in H

LEMMA RankInduction ==
    \A X, L, l, r, h, M, H :
        Founded(X, L, l, r, h, M) /\ Inherits(X, L, l, r, H) => \A x \in X : x \in H
<1> SUFFICES ASSUME NEW X, NEW L, NEW l, NEW r, NEW h, NEW M, NEW H,
                    Founded(X, L, l, r, h, M),
                    \A x \in X : (x \notin L => l[x] \in H /\ r[x] \in H) => x \in H,
                    NEW z \in X, z \notin H
             PROVE  FALSE
  BY DEF Inherits
<1> DEFINE B == {x \in X : x \notin H}
           T == {h[x] : x \in B}
<1>1. \A x \in X : h[x] \in Nat
  BY DEF Founded
<1>2. T \subseteq Nat /\ T # {}
  BY <1>1
<1>3. PICK y \in T : \A t \in T : y <= t
  <2> HIDE DEF T
  <2> QED
    BY <1>2, LeastNat
<1>4. PICK x \in B : h[x] = y
  BY <1>3
<1>5. \A w \in B : h[x] <= h[w]
  BY <1>3, <1>4
<1>6. x \notin L => l[x] \in H /\ r[x] \in H
  <2> SUFFICES ASSUME x \notin L  PROVE l[x] \in H /\ r[x] \in H
    OBVIOUS
  <2>1. l[x] \in X /\ r[x] \in X /\ h[l[x]] < h[x] /\ h[r[x]] < h[x]
    BY <1>4 DEF Founded
  <2>2. ~ (h[x] <= h[l[x]]) /\ ~ (h[x] <= h[r[x]])
    BY <1>1, <1>4, <2>1
  <2> QED
    BY <1>5, <2>1, <2>2
<1> QED
  BY <1>4, <1>6

\* What a at the ends, and G elsewhere, determine.
Rule(X, S, a, G) == a \in [X -> S] /\ G \in [X -> [S \X S -> S]]
Solves(X, L, l, r, S, a, G, f) ==
    /\ f \in [X -> S]
    /\ \A x \in X : f[x] = IF x \in L THEN a[x] ELSE G[x][<<f[l[x]], f[r[x]]>>]

\* A recursive definition along the ranks has a solution.
LEMMA RankRecursion ==
    \A X, L, l, r, h, M, S, a, G :
        Founded(X, L, l, r, h, M) /\ Rule(X, S, a, G)
            => \E f : Solves(X, L, l, r, S, a, G, f)
<1> SUFFICES ASSUME NEW X, NEW L, NEW l, NEW r, NEW h, NEW M, NEW S, NEW a, NEW G,
                    Founded(X, L, l, r, h, M), Rule(X, S, a, G)
             PROVE  \E f : Solves(X, L, l, r, S, a, G, f)
  OBVIOUS
<1> DEFINE Val(f, x) == IF x \in L THEN a[x] ELSE G[x][<<f[l[x]], f[r[x]]>>]
           Good(k, f) == f \in [X -> S] /\ \A x \in X : h[x] < k => f[x] = Val(f, x)
           Bad == {k \in Nat : ~ \E f : Good(k, f)}
<1>1. \A x \in X : h[x] \in Nat /\ h[x] < M + 1
  BY DEF Founded
<1>2. Good(0, a)
  BY <1>1 DEF Rule
<1>3. ASSUME NEW k \in Nat, NEW f, Good(k, f)
      PROVE  \E g : Good(k + 1, g)
  <2> DEFINE g == [x \in X |-> IF h[x] = k THEN Val(f, x) ELSE f[x]]
  <2>1. \A x \in X : Val(f, x) \in S
    <3> SUFFICES ASSUME NEW x \in X  PROVE Val(f, x) \in S
      OBVIOUS
    <3>1. CASE x \in L
      BY <3>1 DEF Rule
    <3>2. CASE x \notin L
      <4>1. f[l[x]] \in S /\ f[r[x]] \in S
        BY <1>3, <3>2 DEF Founded
      <4>2. G[x] \in [S \X S -> S]
        BY DEF Rule
      <4> QED
        BY <3>2, <4>1, <4>2
    <3> QED
      BY <3>1, <3>2
  <2>2. g \in [X -> S]
    BY <1>3, <2>1
  <2>3. ASSUME NEW x \in X, h[x] < k + 1  PROVE g[x] = Val(g, x)
    <3>1. x \notin L => /\ l[x] \in X /\ r[x] \in X /\ h[l[x]] < k /\ h[r[x]] < k
                        /\ h[l[x]] # k /\ h[r[x]] # k
      <4> SUFFICES ASSUME x \notin L
                   PROVE  l[x] \in X /\ r[x] \in X /\ h[l[x]] < k /\ h[r[x]] < k
        BY <1>1
      <4>1. l[x] \in X /\ r[x] \in X /\ h[l[x]] < h[x] /\ h[r[x]] < h[x]
        BY DEF Founded
      <4> QED
        BY <1>1, <2>3, <4>1
    <3>2. Val(g, x) = Val(f, x)
      BY <3>1
    <3>3. h[x] = k \/ h[x] < k
      BY <1>1, <2>3
    <3> QED
      BY <1>3, <3>2, <3>3
  <2> HIDE DEF g
  <2> QED
    BY <2>2, <2>3
<1>4. Bad = {}
  <2> SUFFICES ASSUME Bad # {}  PROVE FALSE
    OBVIOUS
  <2>1. Bad \subseteq Nat
    OBVIOUS
  <2>2. PICK k \in Bad : \A j \in Bad : k <= j
    <3> HIDE DEF Bad
    <3> QED
      BY <2>1, LeastNat
  <2>3. k # 0
    BY <1>2, <2>2
  <2>4. k - 1 \in Nat /\ (k - 1) + 1 = k /\ ~ (k <= k - 1)
    BY <2>2, <2>3
  <2>5. PICK f : Good(k - 1, f)
    BY <2>2, <2>4
  <2> HIDE DEF Good
  <2>6. \E g : Good((k - 1) + 1, g)
    BY <1>3, <2>4, <2>5
  <2> QED
    BY <2>2, <2>4, <2>6
<1>5. PICK f : Good(M + 1, f)
  <2>1. M + 1 \in Nat
    BY DEF Founded
  <2> QED
    BY <1>4, <2>1
<1>6. \A x \in X : f[x] = Val(f, x)
  BY <1>1, <1>5
<1> QED
  BY <1>5, <1>6 DEF Solves

-----------------------------------------------------------------------------
(***************************************************************************)
(* What is reached from the root.                                          *)
(***************************************************************************)

\* The recursions of the model go down to the leaves or up to the root.
LEMMA ShapeFounded ==
    ASSUME NEW ns, NEW top, NEW d, NEW M, Shape(ns, top, d, M)
    PROVE  /\ \E h : Founded(Used(ns), LeafNodes(ns), [n \in Used(ns) |-> ns[n].left],
                             [n \in Used(ns) |-> ns[n].right], h, M)
           /\ \E h : Founded(Used(ns), {top}, [n \in Used(ns) |-> ns[n].parent],
                             [n \in Used(ns) |-> ns[n].parent], h, M)
<1>1. M \in Nat /\ (\A n \in Used(ns) : n \in NodeId /\ d[n] \in 0 .. M)
  BY DEF Shape, Used
<1>2. Founded(Used(ns), {top}, [n \in Used(ns) |-> ns[n].parent],
              [n \in Used(ns) |-> ns[n].parent], [n \in Used(ns) |-> d[n]], M)
  BY <1>1 DEF Shape, Founded
<1>3. ASSUME NEW n \in Used(ns), ~ ns[n].is_leaf, NEW m \in {ns[n].left, ns[n].right}
      PROVE  m \in Used(ns) /\ d[n] < d[m]
  <2>1. m \in Used(ns) /\ ns[m].parent = n
    BY <1>3 DEF Shape
  <2>2. m # top
    <3> SUFFICES ASSUME m = top  PROVE FALSE
      OBVIOUS
    <3>1. n = NULL
      BY <2>1 DEF Shape
    <3> QED
      BY <1>1, <3>1, WmTreeConstants
  <2> QED
    BY <2>1, <2>2 DEF Shape
<1> DEFINE h == [n \in Used(ns) |-> M - d[n]]
<1>4. h \in [Used(ns) -> 0 .. M]
  BY <1>1
<1>5. ASSUME NEW n \in Used(ns) \ LeafNodes(ns), NEW m \in {ns[n].left, ns[n].right}
      PROVE  m \in Used(ns) /\ h[m] < h[n]
  <2>1. m \in Used(ns) /\ d[n] < d[m]
    BY <1>3, <1>5 DEF LeafNodes
  <2> QED
    BY <1>1, <2>1
<1>6. Founded(Used(ns), LeafNodes(ns), [n \in Used(ns) |-> ns[n].left],
              [n \in Used(ns) |-> ns[n].right], h, M)
  <2> HIDE DEF h
  <2> QED
    BY <1>1, <1>4, <1>5 DEF Founded
<1> QED
  BY <1>2, <1>6

\* What a node has whenever its children have it, all nodes have.
DownTo(ns, H) ==
    \A n \in Used(ns) : (~ ns[n].is_leaf => ns[n].left \in H /\ ns[n].right \in H) => n \in H

LEMMA DownInduction ==
    \A ns, top, d, M, H :
        Shape(ns, top, d, M) /\ DownTo(ns, H) => \A n \in Used(ns) : n \in H
<1> SUFFICES ASSUME NEW ns, NEW top, NEW d, NEW M, NEW H, Shape(ns, top, d, M), DownTo(ns, H)
             PROVE  \A n \in Used(ns) : n \in H
  OBVIOUS
<1>1. PICK X, L, l, r : /\ X = Used(ns) /\ L = LeafNodes(ns)
                        /\ l = [n \in Used(ns) |-> ns[n].left]
                        /\ r = [n \in Used(ns) |-> ns[n].right]
  OBVIOUS
<1>2. PICK h : Founded(X, L, l, r, h, M)
  BY <1>1, ShapeFounded, Zenon
<1>3. Inherits(X, L, l, r, H)
  BY <1>1 DEF DownTo, LeafNodes, Inherits
<1>4. \A x \in X : x \in H
  BY <1>2, <1>3, RankInduction, Zenon
<1> QED
  BY <1>1, <1>4

\* What a node has whenever its parent has it, all nodes have.
UpTo(ns, top, H) ==
    \A n \in Used(ns) : (n # top => ns[n].parent \in H) => n \in H

LEMMA UpInduction ==
    \A ns, top, d, M, H :
        Shape(ns, top, d, M) /\ UpTo(ns, top, H) => \A n \in Used(ns) : n \in H
<1> SUFFICES ASSUME NEW ns, NEW top, NEW d, NEW M, NEW H, Shape(ns, top, d, M),
                    UpTo(ns, top, H)
             PROVE  \A n \in Used(ns) : n \in H
  OBVIOUS
<1>1. PICK X, l : X = Used(ns) /\ l = [n \in Used(ns) |-> ns[n].parent]
  OBVIOUS
<1>2. PICK h : Founded(X, {top}, l, l, h, M)
  BY <1>1, ShapeFounded, Zenon
<1>3. Inherits(X, {top}, l, l, H)
  BY <1>1 DEF UpTo, Inherits
<1>4. \A x \in X : x \in H
  BY <1>2, <1>3, RankInduction, Zenon
<1> QED
  BY <1>1, <1>4

LEMMA DownRecursion ==
    \A ns, top, d, M, S, a, G :
        Shape(ns, top, d, M) /\ Rule(Used(ns), S, a, G)
        => \E f \in [Used(ns) -> S] : \A n \in Used(ns) :
              f[n] = IF ns[n].is_leaf THEN a[n] ELSE G[n][<<f[ns[n].left], f[ns[n].right]>>]
<1> SUFFICES ASSUME NEW ns, NEW top, NEW d, NEW M, NEW S, NEW a, NEW G,
                    Shape(ns, top, d, M), Rule(Used(ns), S, a, G)
             PROVE  \E f \in [Used(ns) -> S] : \A n \in Used(ns) :
              f[n] = IF ns[n].is_leaf THEN a[n] ELSE G[n][<<f[ns[n].left], f[ns[n].right]>>]
  OBVIOUS
<1>1. PICK X, L, l, r : /\ X = Used(ns) /\ L = LeafNodes(ns)
                        /\ l = [n \in Used(ns) |-> ns[n].left]
                        /\ r = [n \in Used(ns) |-> ns[n].right]
  OBVIOUS
<1>2. PICK h : Founded(X, L, l, r, h, M)
  BY <1>1, ShapeFounded, Zenon
<1>3. PICK f : Solves(X, L, l, r, S, a, G, f)
  BY <1>1, <1>2, RankRecursion, Zenon
<1> QED
  BY <1>1, <1>3 DEF Solves, LeafNodes

LEMMA UpRecursion ==
    \A ns, top, d, M, S, a, G :
        Shape(ns, top, d, M) /\ Rule(Used(ns), S, a, G)
        => \E f \in [Used(ns) -> S] : \A n \in Used(ns) :
              f[n] = IF n = top THEN a[n] ELSE G[n][<<f[ns[n].parent], f[ns[n].parent]>>]
<1> SUFFICES ASSUME NEW ns, NEW top, NEW d, NEW M, NEW S, NEW a, NEW G,
                    Shape(ns, top, d, M), Rule(Used(ns), S, a, G)
             PROVE  \E f \in [Used(ns) -> S] : \A n \in Used(ns) :
              f[n] = IF n = top THEN a[n] ELSE G[n][<<f[ns[n].parent], f[ns[n].parent]>>]
  OBVIOUS
<1>1. PICK X, l : X = Used(ns) /\ l = [n \in Used(ns) |-> ns[n].parent]
  OBVIOUS
<1>2. PICK h : Founded(X, {top}, l, l, h, M)
  BY <1>1, ShapeFounded, Zenon
<1>3. PICK f : Solves(X, {top}, l, l, S, a, G, f)
  BY <1>1, <1>2, RankRecursion, Zenon
<1> QED
  BY <1>1, <1>3 DEF Solves

\* Where the loop down the left children ends, from each node.
LEMMA LeftmostExists ==
    ASSUME NEW ns, NEW top, NEW d, NEW M, Shape(ns, top, d, M)
    PROVE  \E g : \A m \in Used(ns) : /\ g[m] = IF ns[m].is_leaf THEN m ELSE g[ns[m].left]
                                     /\ LeftmostLeaf(ns, m) = g[m]
<1>1. PICK a : a = [m \in Used(ns) |-> m]
  OBVIOUS
<1>2. PICK G : G = [m \in Used(ns) |-> [q \in Used(ns) \X Used(ns) |-> q[1]]]
  OBVIOUS
<1>3. Rule(Used(ns), Used(ns), a, G)
  BY <1>1, <1>2 DEF Rule
<1>4. PICK f \in [Used(ns) -> Used(ns)] : \A m \in Used(ns) :
         f[m] = IF ns[m].is_leaf THEN a[m] ELSE G[m][<<f[ns[m].left], f[ns[m].right]>>]
  BY <1>3, DownRecursion
<1>5. ASSUME NEW m \in Used(ns)
      PROVE  f[m] = IF ns[m].is_leaf THEN m ELSE f[ns[m].left]
  <2>1. ~ ns[m].is_leaf => ns[m].left \in Used(ns) /\ ns[m].right \in Used(ns)
    BY DEF Shape
  <2> QED
    BY <1>1, <1>2, <1>4, <2>1
<1> DEFINE Leaf(g) == g = [m \in Used(ns) |-> IF ns[m].is_leaf THEN m ELSE g[ns[m].left]]
           g == CHOOSE g : Leaf(g)
<1>6. Leaf(f)
  BY <1>4, <1>5
<1>7. Leaf(g)
  <2> HIDE DEF Leaf
  <2> QED
    BY <1>6
<1>8. \A m \in Used(ns) : LeftmostLeaf(ns, m) = g[m]
  BY DEF LeftmostLeaf
<1> HIDE DEF g
<1> QED
  BY <1>7, <1>8

\* It is a leaf.
LEMMA LeftmostIs ==
    ASSUME NEW ns, NEW top, NEW d, NEW M, Shape(ns, top, d, M), NEW n \in Used(ns)
    PROVE  LeftmostLeaf(ns, n) \in LeafNodes(ns)
<1>1. PICK g : \A m \in Used(ns) : /\ g[m] = IF ns[m].is_leaf THEN m ELSE g[ns[m].left]
                                  /\ LeftmostLeaf(ns, m) = g[m]
  BY LeftmostExists
<1>2. DownTo(ns, {m \in Used(ns) : g[m] \in LeafNodes(ns)})
  BY <1>1 DEF DownTo, LeafNodes
<1>3. n \in {m \in Used(ns) : g[m] \in LeafNodes(ns)}
  BY <1>2, DownInduction
<1> QED
  BY <1>1, <1>3

\* Below the sibling of a leaf it is not that leaf.
LEMMA LeftmostAvoids ==
    ASSUME NEW ns, NEW top, NEW d, NEW M, Shape(ns, top, d, M),
           NEW n \in LeafNodes(ns), NEW s \in Used(ns), n # s,
           ns[s].parent = ns[n].parent, s # top
    PROVE  LeftmostLeaf(ns, s) # n
<1>1. PICK g : \A m \in Used(ns) : /\ g[m] = IF ns[m].is_leaf THEN m ELSE g[ns[m].left]
                                  /\ LeftmostLeaf(ns, m) = g[m]
  BY LeftmostExists
<1>2. PICK c : c = d[ns[n].parent]
  OBVIOUS
<1>3. (\A m \in Used(ns) : d[m] \in Nat) /\ c \in Nat /\ d[s] \in Nat /\ c < d[s]
  <2>1. ns[s].parent \in Used(ns) /\ d[ns[s].parent] < d[s]
    BY DEF Shape
  <2>2. \A m \in Used(ns) : d[m] \in Nat
    BY DEF Shape, Used
  <2> QED
    BY <1>2, <2>1, <2>2
<1> DEFINE H == {m \in Used(ns) : g[m] = n /\ m # n => d[m] <= c}
<1>4. DownTo(ns, H)
  <2> SUFFICES ASSUME NEW m \in Used(ns), ~ ns[m].is_leaf => ns[m].left \in H, g[m] = n, m # n
               PROVE  d[m] <= c
    BY DEF DownTo
  <2>1. ~ ns[m].is_leaf /\ g[ns[m].left] = n
    BY <1>1
  <2>2. PICK l : l = ns[m].left
    OBVIOUS
  <2>3. l \in Used(ns) /\ ns[l].parent = m /\ l # top
    BY <2>1, <2>2, WmTreeConstants DEF Shape, Used
  <2>4. d[m] < d[l]
    BY <2>3 DEF Shape
  <2>5. l = n => d[m] <= c
    BY <1>2, <1>3, <2>3
  <2>6. l # n => d[l] <= c
    BY <2>1, <2>2
  <2> QED
    BY <1>3, <2>3, <2>4, <2>5, <2>6
<1>5. s \in H
  <2> HIDE DEF H
  <2> QED
    BY <1>4, DownInduction
<1> QED
  BY <1>1, <1>3, <1>5

\* V[n] are the leaves below n, from left to right.
LeavesFrom(ns, V) ==
    /\ V \in [Used(ns) -> Seq(NodeId)]
    /\ \A n \in Used(ns) :
          V[n] = IF ns[n].is_leaf THEN <<n>> ELSE V[ns[n].left] \o V[ns[n].right]

LEMMA LeavesExist ==
    ASSUME NEW ns, NEW top, NEW d, NEW M, Shape(ns, top, d, M), top # NULL
    PROVE  \E V : LeavesFrom(ns, V) /\ Leaves(ns, top) = V[top]
<1> DEFINE S == Seq(NodeId)
<1>1. PICK a : a = [m \in Used(ns) |-> <<m>>]
  OBVIOUS
<1>2. PICK G : G = [m \in Used(ns) |-> [q \in S \X S |-> q[1] \o q[2]]]
  OBVIOUS
<1>3. Rule(Used(ns), S, a, G)
  <2>1. \A m \in Used(ns) : <<m>> \in S
    BY DEF Used
  <2>2. \A s, t \in S : s \o t \in S
    OBVIOUS
  <2>3. \A q \in S \X S : q[1] \in S /\ q[2] \in S
    OBVIOUS
  <2> HIDE DEF S
  <2>4. \A q \in S \X S : q[1] \o q[2] \in S
    BY <2>2, <2>3
  <2>5. [q \in S \X S |-> q[1] \o q[2]] \in [S \X S -> S]
    BY <2>4
  <2> QED
    BY <1>1, <1>2, <2>1, <2>5 DEF Rule
<1> HIDE DEF S
<1>4. PICK f \in [Used(ns) -> S] : \A m \in Used(ns) :
         f[m] = IF ns[m].is_leaf THEN a[m] ELSE G[m][<<f[ns[m].left], f[ns[m].right]>>]
  BY <1>3, DownRecursion
<1>5. ASSUME NEW m \in Used(ns)
      PROVE  f[m] = IF ns[m].is_leaf THEN <<m>> ELSE f[ns[m].left] \o f[ns[m].right]
  <2>1. ~ ns[m].is_leaf => ns[m].left \in Used(ns) /\ ns[m].right \in Used(ns)
    BY DEF Shape
  <2>2. CASE ns[m].is_leaf
    BY <1>1, <1>4, <2>2
  <2>3. CASE ~ ns[m].is_leaf
    <3>1. PICK q : q = <<f[ns[m].left], f[ns[m].right]>>
      OBVIOUS
    <3>2. q \in S \X S /\ q[1] = f[ns[m].left] /\ q[2] = f[ns[m].right]
      BY <1>4, <2>1, <2>3, <3>1
    <3>3. G[m][q] = q[1] \o q[2]
      BY <1>2, <3>2
    <3> QED
      BY <1>4, <2>3, <3>1, <3>2, <3>3
  <2> QED
    BY <2>2, <2>3
<1> DEFINE Is(g) == g = [m \in Used(ns) |-> IF ns[m].is_leaf THEN <<m>>
                                            ELSE g[ns[m].left] \o g[ns[m].right]]
           g == CHOOSE g : Is(g)
<1>6. Is(f)
  <2>1. f = [m \in Used(ns) |-> f[m]]
    BY <1>4
  <2> QED
    BY <1>5, <2>1
<1>7. Is(g)
  <2> HIDE DEF Is
  <2> QED
    BY <1>6
<1>8. Leaves(ns, top) = g[top]
  BY DEF Leaves
<1> HIDE DEF g
<1>9. DownTo(ns, {m \in Used(ns) : g[m] \in S})
  <2> SUFFICES ASSUME NEW m \in Used(ns),
                      ~ ns[m].is_leaf => g[ns[m].left] \in S /\ g[ns[m].right] \in S
               PROVE  g[m] \in S
    BY DEF DownTo
  <2>1. CASE ns[m].is_leaf
    <3>1. g[m] = <<m>>
      BY <1>7, <2>1
    <3>2. <<m>> \in Seq(NodeId)
      BY DEF Used
    <3> QED
      BY <3>1, <3>2 DEF S
  <2>2. CASE ~ ns[m].is_leaf
    <3>1. g[m] = g[ns[m].left] \o g[ns[m].right]
      BY <1>7, <2>2
    <3>2. \A s, t \in S : s \o t \in S
      BY DEF S
    <3> QED
      BY <2>2, <3>1, <3>2
  <2> QED
    BY <2>1, <2>2
<1>10. \A n \in Used(ns) : n \in {m \in Used(ns) : g[m] \in S}
  BY <1>9, DownInduction, Zenon
<1>11. LeavesFrom(ns, g)
  <2>1. g \in [Used(ns) -> S]
    <3>1. \A n \in Used(ns) : g[n] \in S
      BY <1>10
    <3>2. g = [n \in Used(ns) |-> g[n]]
      BY <1>7
    <3> QED
      BY <3>1, <3>2
  <2> QED
    BY <1>7, <2>1 DEF LeavesFrom, S
<1> QED
  BY <1>8, <1>11

\* The windows laid out, and walked through by the focus, are those of all the leaves.
LEMMA LeavesAre ==
    ASSUME NEW ns, NEW top, NEW d, NEW M, Shape(ns, top, d, M)
    PROVE  /\ Leaves(ns, top) \in Seq(NodeId)
           /\ Range(Leaves(ns, top)) = LeafNodes(ns)
           /\ top # NULL => Leaves(ns, top) # <<>>
<1>1. CASE top = NULL
  <2>1. Leaves(ns, top) = <<>> /\ LeafNodes(ns) = {}
    BY <1>1 DEF Leaves, LeafNodes, Shape
  <2> QED
    BY <1>1, <2>1 DEF Range
<1>2. CASE top # NULL
  <2>1. PICK V : LeavesFrom(ns, V) /\ Leaves(ns, top) = V[top]
    BY <1>2, LeavesExist
  <2>2. top \in Used(ns)
    BY <1>2 DEF Shape
  <2>3. \A n \in Used(ns) : V[n] \in Seq(NodeId)
    BY <2>1 DEF LeavesFrom
  <2>4. ASSUME NEW n \in Used(ns), ~ ns[n].is_leaf
        PROVE  /\ ns[n].left \in Used(ns) /\ ns[n].right \in Used(ns)
               /\ V[n] = V[ns[n].left] \o V[ns[n].right]
               /\ Range(V[n]) = Range(V[ns[n].left]) \cup Range(V[ns[n].right])
    <3>1. ns[n].left \in Used(ns) /\ ns[n].right \in Used(ns)
      BY <2>4 DEF Shape
    <3>2. V[n] = V[ns[n].left] \o V[ns[n].right]
      BY <2>1, <2>4 DEF LeavesFrom
    <3> QED
      BY <2>3, <3>1, <3>2, RangeConcatenation
  <2>5. ASSUME NEW n \in Used(ns), ns[n].is_leaf
        PROVE  V[n] = <<n>> /\ Range(V[n]) = {n}
    <3>1. V[n] = <<n>>
      BY <2>1, <2>5 DEF LeavesFrom
    <3> QED
      BY <3>1 DEF Range
  <2> DEFINE H == {n \in Used(ns) : V[n] # <<>> /\ Range(V[n]) \subseteq LeafNodes(ns)}
             K == {n \in Used(ns) : Range(V[n]) \subseteq Range(V[top])}
  <2>6. DownTo(ns, H)
    <3> SUFFICES ASSUME NEW n \in Used(ns), ~ ns[n].is_leaf => ns[n].left \in H /\ ns[n].right \in H
                 PROVE  n \in H
      BY DEF DownTo
    <3>1. CASE ns[n].is_leaf
      BY <2>5, <3>1 DEF LeafNodes
    <3>2. CASE ~ ns[n].is_leaf
      <4>1. V[n] # <<>>
        <5>1. \A s, t \in Seq(NodeId) : s # <<>> => s \o t # <<>>
          OBVIOUS
        <5>2. V[ns[n].left] # <<>>
          BY <3>2
        <5>3. V[ns[n].left] \in Seq(NodeId) /\ V[ns[n].right] \in Seq(NodeId)
          BY <2>3, <2>4, <3>2
        <5>4. V[n] = V[ns[n].left] \o V[ns[n].right]
          BY <2>4, <3>2
        <5> HIDE DEF H
        <5> QED
          BY <5>1, <5>2, <5>3, <5>4
      <4> QED
        BY <2>4, <3>2, <4>1
    <3> QED
      BY <3>1, <3>2
  <2>7. UpTo(ns, top, K)
    <3> SUFFICES ASSUME NEW n \in Used(ns), n # top => ns[n].parent \in K
                 PROVE  n \in K
      BY DEF UpTo
    <3>1. CASE n = top
      BY <3>1
    <3>2. CASE n # top
      <4>1. /\ ns[n].parent \in Used(ns) /\ ~ ns[ns[n].parent].is_leaf
            /\ n \in {ns[ns[n].parent].left, ns[ns[n].parent].right}
        BY <3>2 DEF Shape
      <4>2. Range(V[n]) \subseteq Range(V[ns[n].parent])
        BY <2>4, <4>1
      <4> QED
        BY <3>2, <4>2
    <3> QED
      BY <3>1, <3>2
  <2> HIDE DEF H, K
  <2>8. \A n \in Used(ns) : n \in H /\ n \in K
    BY <2>6, <2>7, DownInduction, UpInduction, Zenon
  <2>9. Range(V[top]) \subseteq LeafNodes(ns) /\ V[top] # <<>>
    BY <2>2, <2>8 DEF H
  <2>10. ASSUME NEW n \in LeafNodes(ns)  PROVE n \in Range(V[top])
    BY <2>5, <2>8 DEF K, LeafNodes
  <2> QED
    BY <2>1, <2>2, <2>3, <2>9, <2>10
<1> QED
  BY <1>1, <1>2

\* The nodes of the tree are the nodes in use.
LEMMA NodesAre ==
    ASSUME NEW d, NEW M, Shape(nodes, root, d, M)
    PROVE  TreeNodes = Used(nodes)
<1>1. CASE root = NULL
  BY <1>1 DEF TreeNodes, Shape
<1>2. CASE root # NULL
  <2>1. PICK a : a = [m \in Used(nodes) |-> {m}]
    OBVIOUS
  <2>2. PICK G : G = [m \in Used(nodes) |->
                        [q \in (SUBSET NodeId) \X (SUBSET NodeId) |-> {m} \cup q[1] \cup q[2]]]
    OBVIOUS
  <2>3. Rule(Used(nodes), SUBSET NodeId, a, G)
    BY <2>1, <2>2 DEF Rule, Used
  <2>4. PICK f \in [Used(nodes) -> SUBSET NodeId] : \A m \in Used(nodes) :
           f[m] = IF nodes[m].is_leaf THEN a[m]
                  ELSE G[m][<<f[nodes[m].left], f[nodes[m].right]>>]
    BY <2>3, DownRecursion
  <2>5. ASSUME NEW m \in Used(nodes)
        PROVE  f[m] = IF nodes[m].is_leaf THEN {m}
                      ELSE {m} \cup f[nodes[m].left] \cup f[nodes[m].right]
    <3>1. ~ nodes[m].is_leaf => nodes[m].left \in Used(nodes) /\ nodes[m].right \in Used(nodes)
      BY DEF Shape
    <3>2. CASE nodes[m].is_leaf
      BY <2>1, <2>4, <3>2
    <3>3. CASE ~ nodes[m].is_leaf
      <4>1. PICK q : q = <<f[nodes[m].left], f[nodes[m].right]>>
        OBVIOUS
      <4>2. /\ q \in (SUBSET NodeId) \X (SUBSET NodeId)
            /\ q[1] = f[nodes[m].left] /\ q[2] = f[nodes[m].right]
        BY <2>4, <3>1, <3>3, <4>1
      <4>3. G[m][q] = {m} \cup q[1] \cup q[2]
        BY <2>2, <4>2
      <4> QED
        BY <2>4, <3>3, <4>1, <4>2, <4>3
    <3> QED
      BY <3>2, <3>3
  <2> DEFINE Is(g) == g = [m \in Used(nodes) |->
                IF nodes[m].is_leaf THEN {m}
                ELSE {m} \cup g[nodes[m].left] \cup g[nodes[m].right]]
             g == CHOOSE g : Is(g)
  <2>6. Is(f)
    <3>1. f = [m \in Used(nodes) |-> f[m]]
      BY <2>4
    <3> QED
      BY <2>5, <3>1
  <2>7. Is(g)
    <3> HIDE DEF Is
    <3> QED
      BY <2>6
  <2>8. TreeNodes = g[root]
    BY <1>2 DEF TreeNodes
  <2> HIDE DEF g
  <2> DEFINE H == {n \in Used(nodes) : g[n] \subseteq Used(nodes) /\ n \in g[n]}
             K == {n \in Used(nodes) : g[n] \subseteq g[root]}
  <2>9. DownTo(nodes, H)
    <3> SUFFICES ASSUME NEW n \in Used(nodes),
                        ~ nodes[n].is_leaf => nodes[n].left \in H /\ nodes[n].right \in H
                 PROVE  n \in H
      BY DEF DownTo
    <3>1. g[n] = IF nodes[n].is_leaf THEN {n}
                 ELSE {n} \cup g[nodes[n].left] \cup g[nodes[n].right]
      BY <2>7
    <3> QED
      BY <3>1
  <2>10. UpTo(nodes, root, K)
    <3> SUFFICES ASSUME NEW n \in Used(nodes), n # root => nodes[n].parent \in K
                 PROVE  n \in K
      BY DEF UpTo
    <3>1. CASE n # root
      <4>1. /\ nodes[n].parent \in Used(nodes) /\ ~ nodes[nodes[n].parent].is_leaf
            /\ n \in {nodes[nodes[n].parent].left, nodes[nodes[n].parent].right}
        BY <3>1 DEF Shape
      <4>2. g[n] \subseteq g[nodes[n].parent]
        BY <2>7, <4>1
      <4> QED
        BY <3>1, <4>2
    <3> QED
      BY <3>1
  <2> HIDE DEF H, K
  <2>11. \A n \in Used(nodes) : n \in H /\ n \in K
    BY <2>9, <2>10, DownInduction, UpInduction, Zenon
  <2>12. root \in Used(nodes)
    BY <1>2 DEF Shape
  <2> QED
    BY <2>8, <2>11, <2>12 DEF H, K
<1> QED
  BY <1>1, <1>2

-----------------------------------------------------------------------------
(***************************************************************************)
(* The layout.                                                             *)
(***************************************************************************)

Rects == [x : Nat, y : Nat, w : Nat, h : Nat]

\* The two halves of an interval of n numbers, cut after k.
LEMMA IntervalSplits ==
    \A u, n, k \in Nat : k <= n =>
        /\ \A i \in u .. u + n - 1 : i \in u .. u + k - 1 \/ i \in u + k .. u + k + (n - k) - 1
        /\ u .. u + k - 1 \subseteq u .. u + n - 1
        /\ u + k .. u + k + (n - k) - 1 \subseteq u .. u + n - 1
        /\ \A i \in u .. u + k - 1 : ~ (i \in u + k .. u + k + (n - k) - 1)
  OBVIOUS

\* The two parts of a split area do not overlap and leave nothing out.
LEMMA PartSplits ==
    ASSUME NEW a \in Rects, NEW dir
    PROVE  /\ Part(a, dir, TRUE) \in Rects /\ Part(a, dir, FALSE) \in Rects
           /\ Points(Part(a, dir, TRUE)) \cup Points(Part(a, dir, FALSE)) = Points(a)
           /\ Points(Part(a, dir, TRUE)) \cap Points(Part(a, dir, FALSE)) = {}
<1> DEFINE l == Part(a, dir, TRUE)
           r == Part(a, dir, FALSE)
<1> PICK c : c = IF dir = "SPLIT_V" THEN a.w \div 2 ELSE a.w
  OBVIOUS
<1> PICK e : e = IF dir = "SPLIT_H" THEN a.h \div 2 ELSE a.h
  OBVIOUS
<1>1. a.x \in Nat /\ a.y \in Nat /\ a.w \in Nat /\ a.h \in Nat
  BY DEF Rects
<1>2. c \in Nat /\ e \in Nat /\ c <= a.w /\ e <= a.h
  <2>1. \A n \in Nat : n \div 2 \in Nat /\ n \div 2 <= n
    OBVIOUS
  <2> QED
    BY <1>1, <2>1
<1>3. l = [a EXCEPT !.w = c, !.h = e]
  BY DEF Part
<1>4. l.x = a.x /\ l.y = a.y /\ l.w = c /\ l.h = e /\ l \in Rects
  <2> HIDE DEF l
  <2> QED
    BY <1>2, <1>3 DEF Rects
<1>5. CASE dir = "SPLIT_V"
  <2>1. r = [a EXCEPT !.x = @ + c, !.w = @ - c] /\ e = a.h
    BY <1>5 DEF Part
  <2>2. a.x + c \in Nat /\ a.w - c \in Nat
    BY <1>1, <1>2
  <2>3. r.x = a.x + c /\ r.y = a.y /\ r.w = a.w - c /\ r.h = a.h /\ r \in Rects
    <3> HIDE DEF r
    <3> QED
      BY <2>1, <2>2 DEF Rects
  <2>4. /\ \A i \in a.x .. a.x + a.w - 1 :
              i \in a.x .. a.x + c - 1 \/ i \in a.x + c .. a.x + c + (a.w - c) - 1
        /\ a.x .. a.x + c - 1 \subseteq a.x .. a.x + a.w - 1
        /\ a.x + c .. a.x + c + (a.w - c) - 1 \subseteq a.x .. a.x + a.w - 1
        /\ \A i \in a.x .. a.x + c - 1 : ~ (i \in a.x + c .. a.x + c + (a.w - c) - 1)
    BY <1>1, <1>2, IntervalSplits
  <2> HIDE DEF l, r
  <2>5. /\ Points(l) \cup Points(r) \subseteq Points(a)
        /\ Points(a) \subseteq Points(l) \cup Points(r)
        /\ Points(l) \cap Points(r) = {}
    BY <1>4, <2>1, <2>3, <2>4 DEF Points
  <2> QED
    BY <1>4, <2>3, <2>5 DEF l, r
<1>6. CASE dir # "SPLIT_V"
  <2>1. r = [a EXCEPT !.y = @ + e, !.h = @ - e] /\ c = a.w
    BY <1>6 DEF Part
  <2>2. a.y + e \in Nat /\ a.h - e \in Nat
    BY <1>1, <1>2
  <2>3. r.x = a.x /\ r.y = a.y + e /\ r.w = a.w /\ r.h = a.h - e /\ r \in Rects
    <3> HIDE DEF r
    <3> QED
      BY <2>1, <2>2 DEF Rects
  <2>4. /\ \A i \in a.y .. a.y + a.h - 1 :
              i \in a.y .. a.y + e - 1 \/ i \in a.y + e .. a.y + e + (a.h - e) - 1
        /\ a.y .. a.y + e - 1 \subseteq a.y .. a.y + a.h - 1
        /\ a.y + e .. a.y + e + (a.h - e) - 1 \subseteq a.y .. a.y + a.h - 1
        /\ \A i \in a.y .. a.y + e - 1 : ~ (i \in a.y + e .. a.y + e + (a.h - e) - 1)
    BY <1>1, <1>2, IntervalSplits
  <2> HIDE DEF l, r
  <2>5. /\ Points(l) \cup Points(r) \subseteq Points(a)
        /\ Points(a) \subseteq Points(l) \cup Points(r)
        /\ Points(l) \cap Points(r) = {}
    BY <1>4, <2>1, <2>3, <2>4 DEF Points
  <2> QED
    BY <1>4, <2>3, <2>5 DEF l, r
<1> QED
  BY <1>5, <1>6

\* A[n] is the part of the screen that the nodes on the way down to n leave to n.
AreasFrom(ns, top, A) ==
    /\ A \in [Used(ns) -> Rects]
    /\ \A n \in Used(ns) :
          A[n] = IF n = top THEN Screen
                 ELSE Part(A[ns[n].parent], ns[ns[n].parent].split_dir,
                           ns[ns[n].parent].left = n)

LEMMA AreasExist ==
    ASSUME NEW ns, NEW top, NEW d, NEW M, Shape(ns, top, d, M)
    PROVE  \E A : AreasFrom(ns, top, A) /\ \A n \in Used(ns) : Area(ns, top, n) = A[n]
<1>1. PICK a : a = [m \in Used(ns) |-> Screen]
  OBVIOUS
<1>2. PICK G : G = [m \in Used(ns) |-> [q \in Rects \X Rects |->
                       Part(q[1], ns[ns[m].parent].split_dir, ns[ns[m].parent].left = m)]]
  OBVIOUS
<1>3. Rule(Used(ns), Rects, a, G)
  <2>1. Screen \in Rects
    BY WmTreeConstants DEF Screen, Rects
  <2>2. ASSUME NEW m, NEW q \in Rects \X Rects
        PROVE  Part(q[1], ns[ns[m].parent].split_dir, ns[ns[m].parent].left = m) \in Rects
    <3>1. PICK dir, b : dir = ns[ns[m].parent].split_dir /\ b = q[1] /\ b \in Rects
      OBVIOUS
    <3>2. Part(b, dir, TRUE) \in Rects /\ Part(b, dir, FALSE) \in Rects
      BY <3>1, PartSplits
    <3>3. CASE ns[ns[m].parent].left = m
      <4>1. (ns[ns[m].parent].left = m) = TRUE
        BY <3>3
      <4> QED
        BY <3>1, <3>2, <4>1
    <3>4. CASE ns[ns[m].parent].left # m
      <4>1. (ns[ns[m].parent].left = m) = FALSE
        BY <3>4
      <4> QED
        BY <3>1, <3>2, <4>1
    <3> QED
      BY <3>3, <3>4
  <2> QED
    BY <1>1, <1>2, <2>1, <2>2 DEF Rule
<1>4. PICK f \in [Used(ns) -> Rects] : \A m \in Used(ns) :
         f[m] = IF m = top THEN a[m] ELSE G[m][<<f[ns[m].parent], f[ns[m].parent]>>]
  BY <1>3, UpRecursion
<1>5. ASSUME NEW m \in Used(ns)
      PROVE  f[m] = IF m = top THEN Screen
                    ELSE Part(f[ns[m].parent], ns[ns[m].parent].split_dir,
                              ns[ns[m].parent].left = m)
  <2>1. CASE m = top
    BY <1>1, <1>4, <2>1
  <2>2. CASE m # top
    <3>1. f[ns[m].parent] \in Rects
      BY <1>4, <2>2 DEF Shape
    <3>2. PICK q : q = <<f[ns[m].parent], f[ns[m].parent]>>
      OBVIOUS
    <3>3. q \in Rects \X Rects /\ q[1] = f[ns[m].parent]
      BY <3>1, <3>2
    <3>4. G[m][q] = Part(q[1], ns[ns[m].parent].split_dir, ns[ns[m].parent].left = m)
      BY <1>2, <3>3
    <3> QED
      BY <1>4, <2>2, <3>2, <3>3, <3>4
  <2> QED
    BY <2>1, <2>2
<1> DEFINE Is(g) == g = [m \in Used(ns) |->
                IF m = top THEN Screen
                ELSE LET p == ns[m].parent
                     IN  Part(g[p], ns[p].split_dir, ns[p].left = m)]
           g == CHOOSE g : Is(g)
<1>6. Is(f)
  <2>1. f = [m \in Used(ns) |-> f[m]]
    BY <1>4
  <2> QED
    BY <1>5, <2>1
<1>7. Is(g)
  <2> HIDE DEF Is
  <2> QED
    BY <1>6
<1>8. \A n \in Used(ns) : Area(ns, top, n) = g[n]
  BY DEF Area
<1> HIDE DEF g
<1>9. \A m \in Used(ns) : g[m] = IF m = top THEN Screen
                    ELSE Part(g[ns[m].parent], ns[ns[m].parent].split_dir,
                              ns[ns[m].parent].left = m)
  BY <1>7
<1>10. UpTo(ns, top, {m \in Used(ns) : g[m] = f[m]})
  <2> SUFFICES ASSUME NEW m \in Used(ns), m # top => g[ns[m].parent] = f[ns[m].parent]
               PROVE  g[m] = f[m]
    BY DEF UpTo
  <2>1. CASE m = top
    BY <1>5, <1>9, <2>1
  <2>2. CASE m # top
    BY <1>5, <1>9, <2>2
  <2> QED
    BY <2>1, <2>2
<1>11. \A n \in Used(ns) : n \in {m \in Used(ns) : g[m] = f[m]}
  BY <1>10, UpInduction, Zenon
<1>12. AreasFrom(ns, top, f)
  BY <1>5 DEF AreasFrom
<1> QED
  BY <1>8, <1>11, <1>12

\* The areas of the leaves.
LEMMA AreasTile ==
    ASSUME NEW ns, NEW top, NEW d, NEW M, Shape(ns, top, d, M), top # NULL,
           NEW A, AreasFrom(ns, top, A)
    PROVE  /\ \A m, n \in LeafNodes(ns) : m # n => Points(A[m]) \cap Points(A[n]) = {}
           /\ UNION {Points(A[n]) : n \in LeafNodes(ns)} = Points(Screen)
<1>1. PICK V : LeavesFrom(ns, V) /\ Leaves(ns, top) = V[top]
  BY LeavesExist
<1>2. Range(V[top]) = LeafNodes(ns)
  BY <1>1, LeavesAre
<1>3. PICK B : B = [n \in Used(ns) |-> Range(V[n])]
  OBVIOUS
<1> DEFINE Tiled(n) ==
       /\ \A m, k \in B[n] : m # k => Points(A[m]) \cap Points(A[k]) = {}
       /\ UNION {Points(A[m]) : m \in B[n]} = Points(A[n])
<1>4. DownTo(ns, {n \in Used(ns) : Tiled(n)})
  <2> SUFFICES ASSUME NEW n \in Used(ns),
                      ~ ns[n].is_leaf => Tiled(ns[n].left) /\ Tiled(ns[n].right)
               PROVE  Tiled(n)
    <3>1. \A n \in Used(ns) : ~ ns[n].is_leaf => ns[n].left \in Used(ns) /\ ns[n].right \in Used(ns)
      BY DEF Shape
    <3> HIDE DEF Tiled
    <3> QED
      BY <3>1 DEF DownTo
  <2>1. CASE ns[n].is_leaf
    <3>1. V[n] = <<n>>
      BY <1>1, <2>1 DEF LeavesFrom
    <3>2. B[n] = {n}
      BY <1>3, <3>1 DEF Range
    <3> QED
      BY <3>2
  <2>2. CASE ~ ns[n].is_leaf
    <3>1. PICK l, r : l = ns[n].left /\ r = ns[n].right
      OBVIOUS
    <3>2. l \in Used(ns) /\ r \in Used(ns) /\ l # r /\ ns[l].parent = n /\ ns[r].parent = n
      BY <2>2, <3>1 DEF Shape
    <3>3. B[n] = B[l] \cup B[r]
      <4>1. V[n] = V[l] \o V[r] /\ V[l] \in Seq(NodeId) /\ V[r] \in Seq(NodeId)
        BY <1>1, <2>2, <3>1, <3>2 DEF LeavesFrom
      <4>2. Range(V[n]) = Range(V[l]) \cup Range(V[r])
        BY <4>1, RangeConcatenation
      <4> QED
        BY <1>3, <3>2, <4>2
    <3>4. l # top /\ r # top
      BY <3>2, WmTreeConstants DEF Shape, Used
    <3>5. PICK dir, a : dir = ns[n].split_dir /\ a = A[n] /\ a \in Rects
      BY DEF AreasFrom
    <3>6. A[l] = Part(a, dir, TRUE) /\ A[r] = Part(a, dir, FALSE)
      <4>1. A[l] = Part(a, dir, ns[n].left = l) /\ A[r] = Part(a, dir, ns[n].left = r)
        BY <3>2, <3>4, <3>5 DEF AreasFrom
      <4>2. (ns[n].left = l) = TRUE /\ (ns[n].left = r) = FALSE
        BY <3>1, <3>2
      <4> QED
        BY <4>1, <4>2
    <3>7. /\ Points(A[l]) \cup Points(A[r]) = Points(A[n])
          /\ Points(A[l]) \cap Points(A[r]) = {}
      <4>1. /\ Points(Part(a, dir, TRUE)) \cup Points(Part(a, dir, FALSE)) = Points(a)
            /\ Points(Part(a, dir, TRUE)) \cap Points(Part(a, dir, FALSE)) = {}
        BY <3>5, PartSplits, Zenon
      <4> QED
        BY <3>5, <3>6, <4>1
    <3>8. Tiled(l) /\ Tiled(r)
      BY <2>2, <3>1
    <3>9. \A m \in B[l] : Points(A[m]) \subseteq Points(A[l])
      BY <3>8
    <3>10. \A m \in B[r] : Points(A[m]) \subseteq Points(A[r])
      BY <3>8
    <3>11. ASSUME NEW m \in B[n], NEW k \in B[n], m # k
           PROVE  Points(A[m]) \cap Points(A[k]) = {}
      BY <3>3, <3>7, <3>8, <3>9, <3>10, <3>11
    <3>12. UNION {Points(A[m]) : m \in B[n]}
              = (UNION {Points(A[m]) : m \in B[l]}) \cup (UNION {Points(A[m]) : m \in B[r]})
      BY <3>3
    <3> QED
      BY <3>7, <3>8, <3>11, <3>12
  <2> QED
    BY <2>1, <2>2
<1> HIDE DEF Tiled
<1>5. \A n \in Used(ns) : n \in {m \in Used(ns) : Tiled(m)}
  BY <1>4, DownInduction, Zenon
<1>6. Tiled(top) /\ B[top] = LeafNodes(ns) /\ A[top] = Screen
  BY <1>2, <1>3, <1>5 DEF Shape, AreasFrom
<1> QED
  BY <1>6 DEF Tiled

-----------------------------------------------------------------------------
(***************************************************************************)
(* A window is inserted.                                                   *)
(***************************************************************************)

\* Field by field: in ms a container with a new leaf takes the target's place in ns.
Grafted(ns, ms, target, new, container, win) ==
    /\ ms \in [NodeId -> Node]
    /\ ms[new].is_leaf /\ ms[new].win = win /\ ms[new].parent = container
    /\ ~ ms[container].is_leaf /\ ms[container].parent = ns[target].parent
    /\ ms[container].left = target /\ ms[container].right = new
    /\ ms[target].parent = container
    /\ \A n \in NodeId \ {new, container} :
          /\ ms[n].is_leaf = ns[n].is_leaf /\ ms[n].win = ns[n].win
          /\ n # target => ms[n].parent = ns[n].parent
          /\ n # ns[target].parent => ms[n].left = ns[n].left /\ ms[n].right = ns[n].right
          /\ n = ns[target].parent =>
                IF ns[n].left = target THEN ms[n].left = container /\ ms[n].right = ns[n].right
                ELSE ms[n].left = ns[n].left /\ ms[n].right = container

\* What wm_insert_window_into_tree makes of a tree that is not empty.
Inserted(ns, target, new, container, win, dir) ==
    [Replaced([ns EXCEPT ![new] = [NoNode EXCEPT !.is_leaf = TRUE, !.win = win],
                         ![container] = [NoNode EXCEPT !.split_dir = dir]],
              target, container)
     EXCEPT ![container].left = target, ![container].right = new,
            ![target].parent = container, ![new].parent = container]

LEMMA GraftedIs ==
    ASSUME NEW ns \in [NodeId -> Node], NEW target \in NodeId, NEW new \in NodeId,
           NEW container \in NodeId, NEW win \in Slot, NEW dir \in {"SPLIT_H", "SPLIT_V"},
           target # new, target # container, new # container,
           ns[target].parent \notin {target, new, container},
           NEW ms, ms = Inserted(ns, target, new, container, win, dir)
    PROVE  Grafted(ns, ms, target, new, container, win)
<1>1. PICK leaf : leaf = [NoNode EXCEPT !.is_leaf = TRUE, !.win = win]
  OBVIOUS
<1>2. PICK split : split = [NoNode EXCEPT !.split_dir = dir]
  OBVIOUS
<1>3. /\ leaf \in Node /\ leaf.is_leaf = TRUE /\ leaf.win = win
      /\ split \in Node /\ split.is_leaf = FALSE
  BY <1>1, <1>2 DEF NoNode, Node
<1>4. PICK n0 : n0 = [ns EXCEPT ![new] = leaf, ![container] = split]
  OBVIOUS
<1>5. /\ n0 \in [NodeId -> Node] /\ n0[new] = leaf /\ n0[container] = split
      /\ \A n \in NodeId \ {new, container} : n0[n] = ns[n]
  BY <1>3, <1>4
<1>6. PICK p : p = ns[target].parent
  OBVIOUS
<1>7. PICK n1 : n1 = Replaced(n0, target, container)
  OBVIOUS
<1>8. p \in NodeId \cup {NULL} /\ NULL \notin NodeId
  BY <1>6, WmTreeConstants DEF Node
<1>9. PICK n2 : n2 = [n0 EXCEPT ![container].parent = p]
  OBVIOUS
<1>10. /\ n2 \in [NodeId -> Node] /\ n2[container] = [split EXCEPT !.parent = p]
       /\ n2[container] \in Node
       /\ \A n \in NodeId \ {container} : n2[n] = n0[n]
  <2>1. [split EXCEPT !.parent = p] \in Node
    BY <1>3, <1>8 DEF Node
  <2> QED
    BY <1>5, <1>9, <2>1
<1>11. n1 = IF p = NULL THEN n2
            ELSE [n2 EXCEPT ![p] = IF @.left = target THEN [@ EXCEPT !.left = container]
                                   ELSE [@ EXCEPT !.right = container]]
  BY <1>5, <1>6, <1>7, <1>9 DEF Replaced
<1>12. /\ n1 \in [NodeId -> Node]
       /\ \A n \in NodeId \ {p} : n1[n] = n2[n]
       /\ p # NULL => n1[p] = IF ns[p].left = target THEN [ns[p] EXCEPT !.left = container]
                              ELSE [ns[p] EXCEPT !.right = container]
  <2>1. CASE p = NULL
    BY <1>8, <1>10, <1>11, <2>1
  <2>2. CASE p # NULL
    <3>1. p \in NodeId /\ n2[p] = ns[p]
      BY <1>5, <1>6, <1>8, <1>10, <2>2
    <3>2. PICK q : q = IF ns[p].left = target THEN [ns[p] EXCEPT !.left = container]
                       ELSE [ns[p] EXCEPT !.right = container]
      OBVIOUS
    <3>3. q \in Node
      BY <3>1, <3>2 DEF Node
    <3>4. n1 = [n2 EXCEPT ![p] = q]
      BY <1>11, <2>2, <3>1, <3>2
    <3> QED
      BY <1>10, <2>2, <3>1, <3>2, <3>3, <3>4
  <2> QED
    BY <2>1, <2>2
<1>13. ms = [n1 EXCEPT ![container].left = target, ![container].right = new,
                       ![target].parent = container, ![new].parent = container]
  BY <1>1, <1>2, <1>4, <1>7 DEF Inserted
<1>14. PICK c, t, l : /\ c = [split EXCEPT !.parent = p, !.left = target, !.right = new]
                      /\ t = [ns[target] EXCEPT !.parent = container]
                      /\ l = [leaf EXCEPT !.parent = container]
  OBVIOUS
<1>15. c \in Node /\ t \in Node /\ l \in Node
  BY <1>3, <1>8, <1>14 DEF Node
<1>16. n1[target] = ns[target] /\ n1[new] = leaf /\ n1[container] = [split EXCEPT !.parent = p]
  BY <1>5, <1>6, <1>10, <1>12
<1>17. ms = [n1 EXCEPT ![container] = c, ![target] = t, ![new] = l]
  <2>1. [n1[container] EXCEPT !.left = target] = [split EXCEPT !.parent = p, !.left = target]
    BY <1>16
  <2>2. [[n1[container] EXCEPT !.left = target] EXCEPT !.right = new] = c
    BY <1>14, <1>16
  <2> QED
    BY <1>12, <1>13, <1>14, <1>16, <2>2
<1>18. /\ ms \in [NodeId -> Node] /\ ms[container] = c /\ ms[target] = t /\ ms[new] = l
       /\ \A n \in NodeId \ {container, target, new} : ms[n] = n1[n]
  <2>1. PICK m1 : m1 = [n1 EXCEPT ![container] = c]
    OBVIOUS
  <2>2. PICK m2 : m2 = [m1 EXCEPT ![target] = t]
    OBVIOUS
  <2>3. ms = [m2 EXCEPT ![new] = l]
    BY <1>17, <2>1, <2>2
  <2>4. m1 \in [NodeId -> Node] /\ m1[container] = c /\ \A n \in NodeId \ {container} : m1[n] = n1[n]
    BY <1>12, <1>15, <2>1
  <2>5. m2 \in [NodeId -> Node] /\ m2[target] = t /\ \A n \in NodeId \ {target} : m2[n] = m1[n]
    BY <1>15, <2>2, <2>4
  <2>6. ms \in [NodeId -> Node] /\ ms[new] = l /\ \A n \in NodeId \ {new} : ms[n] = m2[n]
    BY <1>15, <2>3, <2>5
  <2> QED
    BY <2>4, <2>5, <2>6
<1>19. /\ c.parent = p /\ c.left = target /\ c.right = new /\ c.is_leaf = FALSE
       /\ t.parent = container /\ t.left = ns[target].left /\ t.right = ns[target].right
       /\ t.is_leaf = ns[target].is_leaf /\ t.win = ns[target].win
       /\ l.parent = container /\ l.is_leaf = TRUE /\ l.win = win
  BY <1>3, <1>8, <1>14 DEF Node
<1>20. ASSUME NEW n \in NodeId \ {new, container}
       PROVE  /\ ms[n].is_leaf = ns[n].is_leaf /\ ms[n].win = ns[n].win
              /\ n # target => ms[n].parent = ns[n].parent
              /\ n # p => ms[n].left = ns[n].left /\ ms[n].right = ns[n].right
              /\ n = p =>
                  IF ns[n].left = target THEN ms[n].left = container /\ ms[n].right = ns[n].right
                  ELSE ms[n].left = ns[n].left /\ ms[n].right = container
  <2>1. CASE n = target
    BY <1>6, <1>18, <1>19, <2>1
  <2>2. CASE n = p
    <3>1. ms[n] = n1[n] /\ n # target /\ p # NULL
      BY <1>6, <1>8, <1>18, <2>2
    <3>2. ms[n] = IF ns[n].left = target THEN [ns[n] EXCEPT !.left = container]
                  ELSE [ns[n] EXCEPT !.right = container]
      BY <1>12, <2>2, <3>1
    <3>3. ns[n] \in Node
      OBVIOUS
    <3>4. CASE ns[p].left = target
      <4>1. ms[n] = [ns[n] EXCEPT !.left = container]
        BY <2>2, <3>2, <3>4
      <4>2. /\ ms[n].is_leaf = ns[n].is_leaf /\ ms[n].win = ns[n].win
            /\ ms[n].parent = ns[n].parent /\ ms[n].right = ns[n].right
            /\ ms[n].left = container
        BY <3>3, <4>1 DEF Node
      <4> QED
        BY <2>2, <3>4, <4>2
    <3>5. CASE ns[p].left # target
      <4>1. ms[n] = [ns[n] EXCEPT !.right = container]
        BY <2>2, <3>2, <3>5
      <4>2. /\ ms[n].is_leaf = ns[n].is_leaf /\ ms[n].win = ns[n].win
            /\ ms[n].parent = ns[n].parent /\ ms[n].left = ns[n].left
            /\ ms[n].right = container
        BY <3>3, <4>1 DEF Node
      <4> QED
        BY <2>2, <3>5, <4>2
    <3> QED
      BY <3>4, <3>5
  <2>3. CASE n # target /\ n # p
    <3>1. ms[n] = n1[n] /\ n1[n] = n2[n] /\ n2[n] = n0[n] /\ n0[n] = ns[n]
      BY <1>5, <1>10, <1>12, <1>18, <2>3
    <3> QED
      BY <2>3, <3>1
  <2> QED
    BY <2>1, <2>2, <2>3
<1>21. /\ ms[new].is_leaf /\ ms[new].win = win /\ ms[new].parent = container
       /\ ~ ms[container].is_leaf /\ ms[container].parent = ns[target].parent
       /\ ms[container].left = target /\ ms[container].right = new
       /\ ms[target].parent = container
  BY <1>6, <1>18, <1>19
<1> QED
  BY <1>6, <1>18, <1>20, <1>21 DEF Grafted

\* The place of a node: at the top, or one of the two children of an inner node p.
Placed(ns, top, d, n, p) ==
    /\ n \in NodeId /\ p # n /\ (p = NULL <=> n = top)
    /\ p # NULL => /\ p \in Used(ns) /\ ~ ns[p].is_leaf /\ d[p] < d[n]
                   /\ n \in {ns[p].left, ns[p].right} /\ ns[p].left # ns[p].right
                   /\ ns[p].left \in Used(ns) /\ ns[p].right \in Used(ns)
                   /\ ns[ns[p].left].parent = p /\ ns[ns[p].right].parent = p

LEMMA PlaceOf ==
    ASSUME NEW ns, NEW top, NEW d, NEW M, Shape(ns, top, d, M), NEW n \in Used(ns),
           NEW p, p = ns[n].parent
    PROVE  Placed(ns, top, d, n, p)
<1>1. n \in NodeId /\ d[n] \in Nat
  BY DEF Used, Shape
<1>2. n = top => p = NULL
  BY DEF Shape
<1>3. n # top => p \in Used(ns) /\ p # NULL /\ p # n
  <2> SUFFICES ASSUME n # top  PROVE p \in Used(ns) /\ p # NULL /\ p # n
    OBVIOUS
  <2>1. p \in Used(ns) /\ d[p] < d[n]
    BY DEF Shape
  <2> QED
    BY <1>1, <2>1, WmTreeConstants DEF Used
<1>4. n # top => /\ ~ ns[p].is_leaf /\ d[p] < d[n] /\ n \in {ns[p].left, ns[p].right}
  BY DEF Shape
<1>5. n # top => /\ ns[p].left # ns[p].right
                 /\ ns[p].left \in Used(ns) /\ ns[p].right \in Used(ns)
                 /\ ns[ns[p].left].parent = p /\ ns[ns[p].right].parent = p
  BY <1>3, <1>4 DEF Shape
<1> QED
  BY <1>1, <1>2, <1>3, <1>4, <1>5, WmTreeConstants DEF Placed

\* It is a tree again.
LEMMA GraftedShape ==
    ASSUME NEW ns, NEW top, NEW d, NEW M, Shape(ns, top, d, M),
           NEW target \in LeafNodes(ns), NEW new \in NodeId, NEW container \in NodeId,
           new \notin Used(ns), container \notin Used(ns), new # container,
           NEW ms, NEW win, Grafted(ns, ms, target, new, container, win), NEW top2,
           top2 = IF ns[target].parent = NULL THEN container ELSE top
    PROVE  /\ \E d2, M2 : Shape(ms, top2, d2, M2)
           /\ Used(ms) = Used(ns) \cup {new, container}
           /\ LeafNodes(ms) = LeafNodes(ns) \cup {new}
           /\ \A n \in LeafNodes(ns) : ms[n].win = ns[n].win
<1>1. PICK p : p = ns[target].parent
  OBVIOUS
<1>2. target \in Used(ns) /\ ns[target].is_leaf
  BY DEF LeafNodes
<1>3. /\ target \in NodeId /\ p # target /\ (p = NULL <=> target = top)
      /\ p # NULL => /\ p \in Used(ns) /\ ~ ns[p].is_leaf /\ d[p] < d[target]
                     /\ target \in {ns[p].left, ns[p].right} /\ ns[p].left # ns[p].right
                     /\ ns[p].left \in Used(ns) /\ ns[p].right \in Used(ns)
                     /\ ns[ns[p].left].parent = p /\ ns[ns[p].right].parent = p
  BY <1>1, <1>2, PlaceOf DEF Placed
<1>4. /\ ms \in [NodeId -> Node] /\ Used(ns) \subseteq NodeId /\ NULL \notin NodeId
      /\ ms[new].is_leaf /\ ms[new].parent = container
      /\ ~ ms[container].is_leaf /\ ms[container].parent = p
      /\ ms[container].left = target /\ ms[container].right = new
      /\ ms[target].parent = container
  BY <1>1, WmTreeConstants DEF Grafted, Used
<1>5. ASSUME NEW n \in NodeId \ {new, container}
      PROVE  /\ ms[n].is_leaf = ns[n].is_leaf /\ ms[n].win = ns[n].win
             /\ n # target => ms[n].parent = ns[n].parent
             /\ n # p => ms[n].left = ns[n].left /\ ms[n].right = ns[n].right
  BY <1>1 DEF Grafted
<1>6. p # NULL => IF ns[p].left = target THEN ms[p].left = container /\ ms[p].right = ns[p].right
                  ELSE ms[p].left = ns[p].left /\ ms[p].right = container
  BY <1>1, <1>3, <1>4 DEF Grafted
<1>7. Used(ns) \subseteq NodeId \ {new, container}
  BY <1>4
<1>8. Used(ms) = Used(ns) \cup {new, container}
  <2>1. new \in Used(ms) /\ container \in Used(ms)
    BY <1>3, <1>4 DEF Used
  <2>2. ASSUME NEW n \in NodeId \ {new, container}  PROVE n \in Used(ms) <=> n \in Used(ns)
    <3>1. CASE n # p
      BY <1>5, <3>1 DEF Used
    <3>2. CASE n = p
      <4>1. n \in Used(ns)
        BY <1>3, <1>4, <3>2
      <4>2. ms[p].left # NULL
        BY <1>3, <1>4, <1>6, <3>2
      <4> QED
        BY <3>2, <4>1, <4>2 DEF Used
    <3> QED
      BY <3>1, <3>2
  <2> QED
    BY <1>7, <2>1, <2>2 DEF Used
<1>9. LeafNodes(ms) = LeafNodes(ns) \cup {new}
  BY <1>4, <1>5, <1>7, <1>8 DEF LeafNodes
<1>10. \A n \in LeafNodes(ns) : ms[n].win = ns[n].win
  BY <1>5, <1>7 DEF LeafNodes
<1>11. top \in Used(ns)
  BY <1>2 DEF Shape
<1>12. PICK d2 : d2 = [n \in NodeId |-> IF n \in Used(ns) THEN 2 * d[n] + 1
                                       ELSE IF n = container THEN 2 * d[target]
                                       ELSE 2 * d[target] + 1]
  OBVIOUS
<1>13. M \in Nat /\ \A n \in NodeId : d[n] \in 0 .. M
  BY DEF Shape
<1>14. d2 \in [NodeId -> 0 .. 2 * M + 1] /\ 2 * M + 1 \in Nat
  <2>1. \A n \in NodeId : 2 * d[n] + 1 \in 0 .. 2 * M + 1 /\ 2 * d[n] \in 0 .. 2 * M + 1
    BY <1>13
  <2> QED
    BY <1>3, <1>12, <1>13, <2>1
<1>15. top2 \in Used(ms) /\ ms[top2].parent = NULL
  <2>1. CASE p = NULL
    BY <1>1, <1>4, <1>8, <2>1
  <2>2. CASE p # NULL
    BY <1>1, <1>3, <1>5, <1>7, <1>8, <1>11, <2>2 DEF Shape
  <2> QED
    BY <2>1, <2>2
<1>16. ASSUME NEW n \in Used(ms), ~ ms[n].is_leaf
       PROVE  /\ ms[n].left \in Used(ms) /\ ms[n].right \in Used(ms)
              /\ ms[n].left # ms[n].right
              /\ ms[ms[n].left].parent = n /\ ms[ms[n].right].parent = n
  <2>1. CASE n = container
    BY <1>2, <1>4, <1>8, <2>1
  <2>2. CASE n = p
    BY <1>3, <1>4, <1>5, <1>6, <1>7, <1>8, <2>2
  <2>3. CASE n \notin {container, p}
    <3>1. n \in Used(ns) /\ ~ ns[n].is_leaf
      BY <1>4, <1>5, <1>7, <1>8, <1>16, <2>3
    <3>2. PICK l, r : l = ns[n].left /\ r = ns[n].right
      OBVIOUS
    <3>3. l \in Used(ns) /\ r \in Used(ns) /\ l # r /\ ns[l].parent = n /\ ns[r].parent = n
      BY <3>1, <3>2 DEF Shape
    <3>4. l # target /\ r # target
      BY <1>1, <2>3, <3>3
    <3>5. ms[n].left = l /\ ms[n].right = r
      BY <1>5, <1>7, <2>3, <3>1, <3>2
    <3>6. ms[l].parent = n /\ ms[r].parent = n
      BY <1>5, <1>7, <3>3, <3>4
    <3> QED
      BY <1>8, <3>3, <3>5, <3>6
  <2> QED
    BY <2>1, <2>2, <2>3
<1>17. ASSUME NEW n \in Used(ms) \ {top2}
       PROVE  /\ ms[n].parent \in Used(ms) /\ ~ ms[ms[n].parent].is_leaf
              /\ n \in {ms[ms[n].parent].left, ms[ms[n].parent].right}
              /\ d2[ms[n].parent] < d2[n]
  <2>1. \A m \in NodeId : d[m] \in Nat
    BY <1>13
  <2>2. d2[container] = 2 * d[target] /\ d2[new] = 2 * d[target] + 1
    BY <1>12
  <2>3. \A m \in Used(ns) : d2[m] = 2 * d[m] + 1
    BY <1>7, <1>12
  <2>4. CASE n = new
    BY <1>3, <1>4, <1>8, <2>1, <2>2, <2>4
  <2>5. CASE n = container
    <3>1. p # NULL
      BY <1>1, <2>5
    <3>2. n \in {ms[p].left, ms[p].right} /\ ~ ms[p].is_leaf
      BY <1>3, <1>5, <1>6, <1>7, <2>5, <3>1
    <3>3. d2[p] < d2[container]
      BY <1>3, <1>7, <2>1, <2>2, <2>3, <3>1
    <3> QED
      BY <1>3, <1>4, <1>8, <2>5, <3>1, <3>2, <3>3
  <2>6. CASE n = target
    <3>1. d2[container] < d2[target]
      BY <1>2, <1>3, <2>1, <2>2, <2>3
    <3> QED
      BY <1>4, <1>8, <2>6, <3>1
  <2>7. CASE n \notin {new, container, target}
    <3>1. n \in Used(ns) /\ n # top
      BY <1>1, <1>3, <1>8, <2>7
    <3>2. PICK q : q = ns[n].parent
      OBVIOUS
    <3>3. q \in Used(ns) /\ ~ ns[q].is_leaf /\ n \in {ns[q].left, ns[q].right} /\ d[q] < d[n]
      BY <3>1, <3>2 DEF Shape
    <3>4. ms[n].parent = q /\ ~ ms[q].is_leaf
      BY <1>5, <1>7, <2>7, <3>1, <3>2, <3>3
    <3>5. n \in {ms[q].left, ms[q].right}
      <4>1. CASE q # p
        BY <1>5, <1>7, <3>3, <4>1
      <4>2. CASE q = p
        BY <1>3, <1>4, <1>6, <2>7, <3>3, <4>2
      <4> QED
        BY <4>1, <4>2
    <3>6. d2[q] < d2[n]
      <4>1. d2[q] = 2 * d[q] + 1 /\ d2[n] = 2 * d[n] + 1 /\ d[q] \in Nat /\ d[n] \in Nat
        BY <1>4, <2>1, <2>3, <3>1, <3>3
      <4> QED
        BY <3>3, <4>1
    <3> QED
      BY <1>8, <3>3, <3>4, <3>5, <3>6
  <2> QED
    BY <2>4, <2>5, <2>6, <2>7
<1>18. Shape(ms, top2, d2, 2 * M + 1)
  <2>1. top2 # NULL /\ top2 \in NodeId
    BY <1>4, <1>15 DEF Used
  <2> QED
    BY <1>4, <1>14, <1>15, <1>16, <1>17, <2>1 DEF Shape
<1> QED
  BY <1>8, <1>9, <1>10, <1>18

-----------------------------------------------------------------------------
(***************************************************************************)
(* A window is deleted.                                                    *)
(***************************************************************************)

\* What wm_delete_node makes of a tree of more than one leaf.
Deleted(ns, n, container, sibling) ==
    [Replaced(ns, container, sibling) EXCEPT ![n] = NoNode, ![container] = NoNode]

\* Field by field: in ms the sibling has the place that the container of n has in ns.
Pruned(ns, ms, n, container, sibling) ==
    /\ ms \in [NodeId -> Node]
    /\ ms[n] = NoNode /\ ms[container] = NoNode
    /\ ms[sibling].parent = ns[container].parent
    /\ \A m \in NodeId \ {n, container} :
          /\ ms[m].is_leaf = ns[m].is_leaf /\ ms[m].win = ns[m].win
          /\ m # sibling => ms[m].parent = ns[m].parent
          /\ m # ns[container].parent => ms[m].left = ns[m].left /\ ms[m].right = ns[m].right
          /\ m = ns[container].parent =>
                IF ns[m].left = container THEN ms[m].left = sibling /\ ms[m].right = ns[m].right
                ELSE ms[m].left = ns[m].left /\ ms[m].right = sibling

LEMMA PrunedIs ==
    ASSUME NEW ns \in [NodeId -> Node], NEW n \in NodeId, NEW container \in NodeId,
           NEW sibling \in NodeId, n # container, n # sibling, sibling # container,
           ns[container].parent \notin {n, container, sibling},
           NEW ms, ms = Deleted(ns, n, container, sibling)
    PROVE  Pruned(ns, ms, n, container, sibling)
<1>1. PICK p : p = ns[container].parent
  OBVIOUS
<1>2. p \in NodeId \cup {NULL} /\ NULL \notin NodeId /\ NoNode \in Node
  BY <1>1, WmTreeConstants DEF Node, NoNode
<1>3. PICK n1 : n1 = [ns EXCEPT ![sibling].parent = p]
  OBVIOUS
<1>4. /\ n1 \in [NodeId -> Node] /\ n1[sibling] = [ns[sibling] EXCEPT !.parent = p]
      /\ \A m \in NodeId \ {sibling} : n1[m] = ns[m]
  <2>1. [ns[sibling] EXCEPT !.parent = p] \in Node
    BY <1>2 DEF Node
  <2> QED
    BY <1>3, <2>1
<1>5. PICK n2 : n2 = Replaced(ns, container, sibling)
  OBVIOUS
<1>6. n2 = IF p = NULL THEN n1
           ELSE [n1 EXCEPT ![p] = IF @.left = container THEN [@ EXCEPT !.left = sibling]
                                  ELSE [@ EXCEPT !.right = sibling]]
  BY <1>1, <1>3, <1>5 DEF Replaced
<1>7. /\ n2 \in [NodeId -> Node]
      /\ \A m \in NodeId \ {p} : n2[m] = n1[m]
      /\ p # NULL => n2[p] = IF ns[p].left = container THEN [ns[p] EXCEPT !.left = sibling]
                             ELSE [ns[p] EXCEPT !.right = sibling]
  <2>1. CASE p = NULL
    BY <1>2, <1>4, <1>6, <2>1
  <2>2. CASE p # NULL
    <3>1. p \in NodeId /\ n1[p] = ns[p]
      BY <1>1, <1>2, <1>4, <2>2
    <3>2. PICK q : q = IF ns[p].left = container THEN [ns[p] EXCEPT !.left = sibling]
                       ELSE [ns[p] EXCEPT !.right = sibling]
      OBVIOUS
    <3>3. q \in Node
      BY <3>1, <3>2 DEF Node
    <3>4. n2 = [n1 EXCEPT ![p] = q]
      BY <1>6, <2>2, <3>1, <3>2
    <3> QED
      BY <1>4, <2>2, <3>1, <3>2, <3>3, <3>4
  <2> QED
    BY <2>1, <2>2
<1>8. /\ ms \in [NodeId -> Node] /\ ms[n] = NoNode /\ ms[container] = NoNode
      /\ \A m \in NodeId \ {n, container} : ms[m] = n2[m]
  <2>1. ms = [n2 EXCEPT ![n] = NoNode, ![container] = NoNode]
    BY <1>5 DEF Deleted
  <2>2. PICK m1 : m1 = [n2 EXCEPT ![n] = NoNode]
    OBVIOUS
  <2>3. ms = [m1 EXCEPT ![container] = NoNode]
    BY <2>1, <2>2
  <2>4. m1 \in [NodeId -> Node] /\ m1[n] = NoNode /\ \A m \in NodeId \ {n} : m1[m] = n2[m]
    BY <1>2, <1>7, <2>2
  <2> QED
    BY <1>2, <2>3, <2>4
<1>9. ms[sibling].parent = p
  <2>1. ms[sibling] = [ns[sibling] EXCEPT !.parent = p]
    BY <1>1, <1>4, <1>7, <1>8
  <2> QED
    BY <2>1 DEF Node
<1>10. ASSUME NEW m \in NodeId \ {n, container}
       PROVE  /\ ms[m].is_leaf = ns[m].is_leaf /\ ms[m].win = ns[m].win
              /\ m # sibling => ms[m].parent = ns[m].parent
              /\ m # p => ms[m].left = ns[m].left /\ ms[m].right = ns[m].right
              /\ m = p =>
                  IF ns[m].left = container THEN ms[m].left = sibling /\ ms[m].right = ns[m].right
                  ELSE ms[m].left = ns[m].left /\ ms[m].right = sibling
  <2>1. ns[m] \in Node
    OBVIOUS
  <2>2. CASE m = sibling
    <3>1. ms[m] = [ns[m] EXCEPT !.parent = p] /\ m # p
      BY <1>1, <1>4, <1>7, <1>8, <2>2
    <3> QED
      BY <2>1, <2>2, <3>1 DEF Node
  <2>3. CASE m = p
    <3>1. ms[m] = n2[m] /\ m # sibling /\ p # NULL
      BY <1>1, <1>2, <1>8, <2>3
    <3>2. CASE ns[p].left = container
      <4>1. ms[m] = [ns[m] EXCEPT !.left = sibling]
        BY <1>7, <2>3, <3>1, <3>2
      <4>2. /\ ms[m].is_leaf = ns[m].is_leaf /\ ms[m].win = ns[m].win
            /\ ms[m].parent = ns[m].parent /\ ms[m].right = ns[m].right
            /\ ms[m].left = sibling
        BY <2>1, <4>1 DEF Node
      <4> QED
        BY <2>3, <3>2, <4>2
    <3>3. CASE ns[p].left # container
      <4>1. ms[m] = [ns[m] EXCEPT !.right = sibling]
        BY <1>7, <2>3, <3>1, <3>3
      <4>2. /\ ms[m].is_leaf = ns[m].is_leaf /\ ms[m].win = ns[m].win
            /\ ms[m].parent = ns[m].parent /\ ms[m].left = ns[m].left
            /\ ms[m].right = sibling
        BY <2>1, <4>1 DEF Node
      <4> QED
        BY <2>3, <3>3, <4>2
    <3> QED
      BY <3>2, <3>3
  <2>4. CASE m # sibling /\ m # p
    <3>1. ms[m] = n2[m] /\ n2[m] = n1[m] /\ n1[m] = ns[m]
      BY <1>4, <1>7, <1>8, <2>4
    <3> QED
      BY <2>4, <3>1
  <2> QED
    BY <2>2, <2>3, <2>4
<1> QED
  BY <1>1, <1>8, <1>9, <1>10 DEF Pruned

\* It is a tree again.
LEMMA PrunedShape ==
    ASSUME NEW ns, NEW top, NEW d, NEW M, Shape(ns, top, d, M),
           NEW n \in LeafNodes(ns), NEW container, container = ns[n].parent, container # NULL,
           NEW sibling,
           sibling = IF ns[container].left = n THEN ns[container].right ELSE ns[container].left,
           NEW ms, Pruned(ns, ms, n, container, sibling),
           NEW top2, top2 = IF ns[container].parent = NULL THEN sibling ELSE top
    PROVE  /\ Shape(ms, top2, d, M) /\ top2 # NULL
           /\ Used(ms) = Used(ns) \ {n, container}
           /\ LeafNodes(ms) = LeafNodes(ns) \ {n}
           /\ \A m \in LeafNodes(ms) : ms[m].win = ns[m].win
<1>1. PICK p : p = ns[container].parent
  OBVIOUS
<1>2. n \in Used(ns) /\ ns[n].is_leaf
  BY DEF LeafNodes
<1>3. /\ n \in NodeId /\ container # n /\ n # top
      /\ container \in Used(ns) /\ ~ ns[container].is_leaf /\ d[container] < d[n]
      /\ n \in {ns[container].left, ns[container].right} /\ ns[container].left # ns[container].right
      /\ ns[container].left \in Used(ns) /\ ns[container].right \in Used(ns)
      /\ ns[ns[container].left].parent = container /\ ns[ns[container].right].parent = container
  <2>1. Placed(ns, top, d, n, container)
    BY <1>2, PlaceOf, Zenon
  <2> QED
    BY <2>1, Zenon DEF Placed
<1>4. sibling \in Used(ns) /\ sibling # n /\ ns[sibling].parent = container
  BY <1>3
<1>5. sibling \in NodeId /\ container # sibling /\ sibling # top /\ d[container] < d[sibling]
  <2>1. Placed(ns, top, d, sibling, container)
    BY <1>4, PlaceOf, Zenon
  <2> QED
    BY <2>1, Zenon DEF Placed
<1>6. /\ container \in NodeId /\ p # container /\ (p = NULL <=> container = top)
      /\ p # NULL => /\ p \in Used(ns) /\ ~ ns[p].is_leaf /\ d[p] < d[container]
                     /\ container \in {ns[p].left, ns[p].right} /\ ns[p].left # ns[p].right
                     /\ ns[p].left \in Used(ns) /\ ns[p].right \in Used(ns)
                     /\ ns[ns[p].left].parent = p /\ ns[ns[p].right].parent = p
  <2>1. container \in Used(ns)
    BY <1>3
  <2> QED
    <3>1. Placed(ns, top, d, container, p)
      BY <1>1, <2>1, PlaceOf, Zenon
    <3> QED
      BY <3>1 DEF Placed
<1>7. M \in Nat /\ Used(ns) \subseteq NodeId /\ NULL \notin NodeId
      /\ \A m \in NodeId : d[m] \in 0 .. M /\ d[m] \in Nat
  BY WmTreeConstants DEF Shape, Used
<1>8. p # n /\ p # sibling
  <2>1. p = NULL => p # n /\ p # sibling
    BY <1>3, <1>5, <1>7, Zenon
  <2>2. p # NULL => d[p] < d[n] /\ d[p] < d[sibling] /\ d[p] \in Nat
    <3>1. /\ p # NULL => d[p] < d[container] /\ d[p] \in Nat
          /\ d[container] < d[n] /\ d[container] < d[sibling]
          /\ d[container] \in Nat /\ d[n] \in Nat /\ d[sibling] \in Nat
      BY <1>3, <1>5, <1>6, <1>7, Zenon
    <3>2. \A i, j, k \in Nat : i < j /\ j < k => i < k
      OBVIOUS
    <3> QED
      BY <3>1, <3>2, Zenon
  <2>3. \A i \in Nat : ~ (i < i)
    OBVIOUS
  <2> QED
    BY <2>1, <2>2, <2>3, Zenon
<1>9. /\ ms \in [NodeId -> Node] /\ ms[n] = NoNode /\ ms[container] = NoNode
      /\ ms[sibling].parent = p
  BY <1>1 DEF Pruned
<1>10. ASSUME NEW m \in NodeId \ {n, container}
       PROVE  /\ ms[m].is_leaf = ns[m].is_leaf /\ ms[m].win = ns[m].win
              /\ m # sibling => ms[m].parent = ns[m].parent
              /\ m # p => ms[m].left = ns[m].left /\ ms[m].right = ns[m].right
  BY <1>1 DEF Pruned
<1>11. p # NULL => IF ns[p].left = container THEN ms[p].left = sibling /\ ms[p].right = ns[p].right
                   ELSE ms[p].left = ns[p].left /\ ms[p].right = sibling
  <2>1. p # NULL => p \in NodeId \ {n, container}
    BY <1>6, <1>7, <1>8
  <2> QED
    BY <1>1, <2>1 DEF Pruned
<1>12. Used(ms) = Used(ns) \ {n, container}
  <2>1. n \notin Used(ms) /\ container \notin Used(ms)
    <3>1. NoNode.is_leaf = FALSE /\ NoNode.left = NULL
      BY DEF NoNode
    <3> QED
      BY <1>9, <3>1, Zenon DEF Used
  <2>2. ASSUME NEW m \in NodeId \ {n, container}  PROVE m \in Used(ms) <=> m \in Used(ns)
    <3>1. CASE m # p
      BY <1>10, <3>1 DEF Used
    <3>2. CASE m = p
      <4>1. p # NULL /\ m \in Used(ns)
        BY <1>6, <1>7, <3>2
      <4>2. ms[p].left # NULL
        BY <1>5, <1>6, <1>7, <1>11, <4>1
      <4> QED
        BY <3>2, <4>1, <4>2 DEF Used
    <3> QED
      BY <3>1, <3>2
  <2> QED
    BY <1>7, <2>1, <2>2 DEF Used
<1>13. LeafNodes(ms) = LeafNodes(ns) \ {n}
  BY <1>3, <1>7, <1>10, <1>12 DEF LeafNodes
<1>14. \A m \in LeafNodes(ms) : ms[m].win = ns[m].win
  BY <1>7, <1>10, <1>12 DEF LeafNodes
<1>15. top \in Used(ns) /\ ns[top].parent = NULL
  BY <1>2 DEF Shape
<1>16. top2 \in Used(ms) /\ ms[top2].parent = NULL
  <2>1. CASE p = NULL
    BY <1>1, <1>4, <1>5, <1>9, <1>12, <2>1
  <2>2. CASE p # NULL
    BY <1>1, <1>3, <1>5, <1>6, <1>7, <1>10, <1>12, <1>15, <2>2
  <2> QED
    BY <2>1, <2>2
<1>17. ASSUME NEW m \in Used(ms), ~ ms[m].is_leaf
       PROVE  /\ ms[m].left \in Used(ms) /\ ms[m].right \in Used(ms)
              /\ ms[m].left # ms[m].right
              /\ ms[ms[m].left].parent = m /\ ms[ms[m].right].parent = m
  <2>1. m \in Used(ns) /\ m \in NodeId \ {n, container} /\ ~ ns[m].is_leaf
    BY <1>7, <1>10, <1>12, <1>17
  <2>2. PICK l, r : l = ns[m].left /\ r = ns[m].right
    OBVIOUS
  <2>3. l \in Used(ns) /\ r \in Used(ns) /\ l # r /\ ns[l].parent = m /\ ns[r].parent = m
    BY <2>1, <2>2 DEF Shape
  <2>4. l # n /\ r # n /\ l # sibling /\ r # sibling
    BY <1>4, <2>1, <2>3
  <2>5. CASE m = p
    <3>1. p # NULL
      BY <1>7, <2>1, <2>5
    <3>2. CASE l = container
      <4>1. ms[m].left = sibling /\ ms[m].right = r
        BY <1>11, <2>2, <2>5, <3>1, <3>2
      <4>2. r \in Used(ms) /\ sibling \in Used(ms) /\ ms[r].parent = m
        BY <1>4, <1>5, <1>7, <1>10, <1>12, <2>3, <2>4, <3>2
      <4> QED
        BY <1>9, <2>4, <2>5, <4>1, <4>2
    <3>3. CASE l # container
      <4>1. ms[m].left = l /\ ms[m].right = sibling /\ r = container
        BY <1>6, <1>11, <2>2, <2>5, <3>1, <3>3
      <4>2. l \in Used(ms) /\ sibling \in Used(ms) /\ ms[l].parent = m
        BY <1>4, <1>5, <1>7, <1>10, <1>12, <2>3, <2>4, <3>3
      <4> QED
        BY <1>9, <2>4, <2>5, <4>1, <4>2
    <3> QED
      BY <3>2, <3>3
  <2>6. CASE m # p
    <3>1. l # container /\ r # container
      BY <1>1, <2>3, <2>6
    <3>2. ms[m].left = l /\ ms[m].right = r
      BY <1>10, <2>1, <2>2, <2>6
    <3>3. ms[l].parent = m /\ ms[r].parent = m
      BY <1>7, <1>10, <2>3, <2>4, <3>1
    <3> QED
      BY <1>12, <2>3, <2>4, <3>1, <3>2, <3>3
  <2> QED
    BY <2>5, <2>6
<1>18. ASSUME NEW m \in Used(ms) \ {top2}
       PROVE  /\ ms[m].parent \in Used(ms) /\ ~ ms[ms[m].parent].is_leaf
              /\ m \in {ms[ms[m].parent].left, ms[ms[m].parent].right}
              /\ d[ms[m].parent] < d[m]
  <2>1. m \in Used(ns) /\ m \in NodeId \ {n, container}
    BY <1>7, <1>12
  <2>2. CASE m = sibling
    <3>1. p # NULL /\ p \in Used(ms) /\ p \in NodeId \ {n, container}
      BY <1>1, <1>6, <1>7, <1>8, <1>12, <2>2
    <3>2. sibling \in {ms[p].left, ms[p].right} /\ ~ ms[p].is_leaf
      BY <1>6, <1>10, <1>11, <3>1
    <3>3. d[p] < d[sibling]
      <4>1. d[p] < d[container] /\ d[p] \in Nat /\ d[container] \in Nat /\ d[sibling] \in Nat
        BY <1>5, <1>6, <1>7, <3>1
      <4> QED
        BY <1>5, <4>1
    <3> QED
      BY <1>9, <2>2, <3>1, <3>2, <3>3
  <2>3. CASE m # sibling
    <3>1. m # top
      BY <1>1, <1>6, <2>1
    <3>2. PICK q : q = ns[m].parent
      OBVIOUS
    <3>3. q \in Used(ns) /\ ~ ns[q].is_leaf /\ m \in {ns[q].left, ns[q].right} /\ d[q] < d[m]
      BY <2>1, <3>1, <3>2 DEF Shape
    <3>4. q # n /\ q # container
      BY <1>2, <1>3, <2>1, <2>3, <3>3
    <3>5. ms[m].parent = q /\ q \in Used(ms) /\ ~ ms[q].is_leaf
      BY <1>7, <1>10, <1>12, <2>1, <2>3, <3>2, <3>3, <3>4
    <3>6. m \in {ms[q].left, ms[q].right}
      <4>1. CASE q # p
        BY <1>7, <1>10, <3>3, <3>4, <4>1
      <4>2. CASE q = p
        BY <1>6, <1>7, <1>11, <2>1, <3>3, <4>2
      <4> QED
        BY <4>1, <4>2
    <3> QED
      BY <3>3, <3>5, <3>6
  <2> QED
    BY <2>2, <2>3
<1>19. Shape(ms, top2, d, M) /\ top2 # NULL
  <2>1. top2 # NULL /\ top2 \in NodeId
    BY <1>7, <1>16 DEF Used
  <2>2. d \in [NodeId -> 0 .. M]
    BY DEF Shape
  <2> QED
    BY <1>7, <1>9, <1>16, <1>17, <1>18, <2>1, <2>2 DEF Shape
<1> QED
  BY <1>12, <1>13, <1>14, <1>19

-----------------------------------------------------------------------------
(***************************************************************************)
(* The pool and the count.                                                 *)
(***************************************************************************)

\* tree_alloc gives out a node that is not in use.
LEMMA AllocKeeps ==
    ASSUME NEW used, NEW pool, PoolOf(used, pool), Allocated(pool) # NULL
    PROVE  /\ Allocated(pool) \in NodeId \ used
           /\ PoolOf(used \cup {Allocated(pool)}, PoolAfter(pool))
<1> PICK stack, idx : stack = pool.stack /\ idx = pool.idx /\ pool = [stack |-> stack, idx |-> idx]
  BY DEF PoolOf
<1> PICK n, after : n = Allocated(pool) /\ after = PoolAfter(pool)
  OBVIOUS
<1>1. /\ stack \in Seq(NodeId) /\ idx \in 0 .. 2 * MAX_WINDOWS /\ IsInjective(stack)
      /\ used \cap Range(stack) = {} /\ used \cup Range(stack) = 0 .. idx - 1
  BY DEF PoolOf
<1>2. Range(stack) = {stack[i] : i \in 1 .. Len(stack)}
  BY <1>1, RangeEquality
<1>3. CASE stack # <<>>
  <2>1. n = stack[Len(stack)] /\ after = [stack |-> Front(stack), idx |-> idx]
    BY <1>3 DEF Allocated, PoolAfter, Last
  <2>2. PICK m : m = Len(stack) - 1
    OBVIOUS
  <2>3. m \in Nat /\ m + 1 = Len(stack)
    BY <1>1, <1>3, <2>2
  <2>4. PICK rest : rest = Front(stack)
    OBVIOUS
  <2>5. rest \in Seq(NodeId) /\ Len(rest) = m /\ \A i \in 1 .. m : rest[i] = stack[i]
    BY <1>1, <2>2, <2>3, <2>4 DEF Front
  <2>6. Range(rest) = {rest[i] : i \in 1 .. m}
    BY <2>5, RangeEquality
  <2>7. DOMAIN stack = 1 .. m + 1 /\ DOMAIN rest = 1 .. m
    BY <1>1, <2>3, <2>5
  <2>8. IsInjective(rest)
    <3> SUFFICES ASSUME NEW i \in 1 .. m, NEW j \in 1 .. m, rest[i] = rest[j]  PROVE i = j
      BY <2>7 DEF IsInjective
    <3>1. i \in DOMAIN stack /\ j \in DOMAIN stack /\ stack[i] = stack[j]
      BY <2>3, <2>5, <2>7
    <3> QED
      BY <1>1, <3>1 DEF IsInjective
  <2>9. n \notin Range(rest)
    <3> SUFFICES ASSUME NEW i \in 1 .. m, rest[i] = n  PROVE FALSE
      BY <2>6
    <3>1. i \in DOMAIN stack /\ m + 1 \in DOMAIN stack /\ stack[i] = stack[m + 1] /\ i # m + 1
      BY <2>1, <2>3, <2>5, <2>7
    <3> QED
      BY <1>1, <3>1 DEF IsInjective
  <2>10. Range(stack) = Range(rest) \cup {n}
    <3>1. \A i \in 1 .. Len(stack) : i \in 1 .. m \/ i = m + 1
      BY <2>3
    <3>2. Range(rest) \subseteq Range(stack)
      BY <1>2, <2>3, <2>5, <2>6
    <3>3. n \in Range(stack)
      BY <1>2, <2>1, <2>3
    <3>4. Range(stack) \subseteq Range(rest) \cup {n}
      BY <1>2, <2>1, <2>3, <2>5, <2>6, <3>1
    <3> QED
      BY <3>2, <3>3, <3>4
  <2>11. n \in NodeId
    BY <1>1, <2>1, <2>3
  <2>12. n \notin used /\ (used \cup {n}) \cap Range(rest) = {}
         /\ (used \cup {n}) \cup Range(rest) = 0 .. idx - 1
    BY <1>1, <2>9, <2>10
  <2> QED
    BY <1>1, <2>1, <2>4, <2>5, <2>8, <2>11, <2>12 DEF PoolOf
<1>4. CASE stack = <<>>
  <2>1. n = idx /\ idx < 2 * MAX_WINDOWS /\ after = [stack |-> stack, idx |-> idx + 1]
    BY <1>4 DEF Allocated, PoolAfter
  <2>2. Range(stack) = {}
    BY <1>4, <1>2
  <2>3. n \in NodeId /\ n \notin 0 .. idx - 1 /\ idx + 1 \in 0 .. 2 * MAX_WINDOWS
        /\ (0 .. idx - 1) \cup {n} = 0 .. (idx + 1) - 1
    <3>1. PICK k : k = 2 * MAX_WINDOWS /\ k \in Nat
      BY WmTreeConstants
    <3>2. idx \in Nat /\ idx < k
      BY <1>1, <2>1, <3>1
    <3>3. idx \in 0 .. k - 1 /\ idx \notin 0 .. idx - 1 /\ idx + 1 \in 0 .. k
      BY <3>1, <3>2
    <3>4. (0 .. idx - 1) \cup {idx} = 0 .. (idx + 1) - 1
      BY <3>2
    <3> QED
      BY <2>1, <3>1, <3>3, <3>4 DEF NodeId
  <2> QED
    BY <1>1, <2>1, <2>2, <2>3 DEF PoolOf
<1> QED
  BY <1>3, <1>4

\* tree_free puts back a node in use.
LEMMA FreeKeeps ==
    ASSUME NEW used, NEW stack, NEW idx, PoolOf(used, [stack |-> stack, idx |-> idx]),
           NEW n \in used
    PROVE  PoolOf(used \ {n}, [stack |-> Append(stack, n), idx |-> idx])
<1>1. /\ stack \in Seq(NodeId) /\ idx \in 0 .. 2 * MAX_WINDOWS /\ IsInjective(stack)
      /\ used \cap Range(stack) = {} /\ used \cup Range(stack) = 0 .. idx - 1
  BY DEF PoolOf
<1>2. n \in NodeId
  BY <1>1, WmTreeConstants DEF NodeId
<1>3. PICK m, more : m = Len(stack) /\ more = Append(stack, n)
  OBVIOUS
<1>4. /\ m \in Nat /\ more \in Seq(NodeId) /\ Len(more) = m + 1 /\ more[m + 1] = n
      /\ \A i \in 1 .. m : more[i] = stack[i]
  BY <1>1, <1>2, <1>3
<1>5. Range(stack) = {stack[i] : i \in 1 .. m} /\ Range(more) = {more[i] : i \in 1 .. m + 1}
  BY <1>1, <1>3, <1>4, RangeEquality
<1>6. \A i \in 1 .. m + 1 : i \in 1 .. m \/ i = m + 1
  BY <1>4
<1>7. 1 .. m \subseteq 1 .. m + 1 /\ m + 1 \in 1 .. m + 1
  BY <1>4
<1>8. Range(more) = Range(stack) \cup {n}
  BY <1>4, <1>5, <1>6, <1>7
<1>9. IsInjective(more)
  <2>1. DOMAIN more = 1 .. m + 1 /\ DOMAIN stack = 1 .. m
    BY <1>1, <1>3, <1>4
  <2> SUFFICES ASSUME NEW i \in 1 .. m + 1, NEW j \in 1 .. m + 1, more[i] = more[j]
               PROVE  i = j
    BY <2>1 DEF IsInjective
  <2>2. \A k \in 1 .. m : stack[k] # n
    BY <1>1, <1>5
  <2> QED
    BY <1>1, <1>4, <1>6, <2>1, <2>2 DEF IsInjective
<1> QED
  BY <1>1, <1>3, <1>4, <1>8, <1>9 DEF PoolOf

\* A container and a leaf more, and a container and a leaf less.
LEMMA CountedMore ==
    ASSUME NEW used, NEW leaves, Counted(used, leaves), IsFiniteSet(used), used # {},
           leaves \subseteq used, NEW new, NEW container,
           new \notin used, container \notin used, new # container
    PROVE  Counted(used \cup {new, container}, leaves \cup {new})
<1>1. IsFiniteSet(leaves)
  BY FS_Subset
<1>2. PICK more : more = used \cup {new}
  OBVIOUS
<1>3. IsFiniteSet(more) /\ Cardinality(more) = Cardinality(used) + 1
  BY <1>2, FS_AddElement
<1>4. Cardinality(more \cup {container}) = Cardinality(more) + 1
  BY <1>2, <1>3, FS_AddElement
<1>5. more \cup {container} = used \cup {new, container}
  BY <1>2
<1>6. Cardinality(leaves \cup {new}) = Cardinality(leaves) + 1
  BY <1>1, FS_AddElement
<1>7. Cardinality(used) \in Nat /\ Cardinality(leaves) \in Nat
  BY <1>1, FS_CardinalityType
<1> QED
  <2>1. PICK a, b : a = Cardinality(used) /\ b = Cardinality(leaves) /\ a \in Nat /\ b \in Nat
    BY <1>7
  <2>2. a = 2 * b - 1
    BY <2>1 DEF Counted
  <2>3. (a + 1) + 1 = 2 * (b + 1) - 1
    BY <2>1, <2>2
  <2> QED
    BY <1>3, <1>4, <1>5, <1>6, <2>1, <2>3 DEF Counted

LEMMA CountedLess ==
    ASSUME NEW used, NEW leaves, Counted(used, leaves), IsFiniteSet(used),
           leaves \subseteq used, NEW n \in leaves, NEW container \in used,
           container \notin leaves
    PROVE  Counted(used \ {n, container}, leaves \ {n})
<1>1. IsFiniteSet(leaves)
  BY FS_Subset
<1>2. PICK less : less = used \ {n}
  OBVIOUS
<1>3. IsFiniteSet(less) /\ Cardinality(less) = Cardinality(used) - 1
  BY <1>2, FS_RemoveElement
<1>4. Cardinality(less \ {container}) = Cardinality(less) - 1
  BY <1>2, <1>3, FS_RemoveElement
<1>5. less \ {container} = used \ {n, container}
  BY <1>2
<1>6. Cardinality(leaves \ {n}) = Cardinality(leaves) - 1
  BY <1>1, FS_RemoveElement
<1>7. Cardinality(used) \in Nat /\ Cardinality(leaves) \in Nat
  BY <1>1, FS_CardinalityType
<1> QED
  <2>1. PICK a, b : a = Cardinality(used) /\ b = Cardinality(leaves) /\ a \in Nat /\ b \in Nat
    BY <1>7
  <2>2. a = 2 * b - 1
    BY <2>1 DEF Counted
  <2>3. (a - 1) - 1 = 2 * (b - 1) - 1
    BY <2>1, <2>2
  <2> QED
    BY <1>3, <1>4, <1>5, <1>6, <2>1, <2>3 DEF Counted

\* A window more, and a window less.
LEMMA WindowsMore ==
    ASSUME NEW ns, NEW leaves, NEW al, Windows(ns, leaves, al), NEW slot \in Slot, ~ al[slot],
           NEW ms, NEW new, new \notin leaves, ms[new].win = slot,
           \A n \in leaves : ms[n].win = ns[n].win
    PROVE  Windows(ms, leaves \cup {new}, [al EXCEPT ![slot] = TRUE])
<1>1. PICK al2 : al2 = [al EXCEPT ![slot] = TRUE]
  OBVIOUS
<1>2. al2 \in [Slot -> BOOLEAN] /\ al2[slot] /\ \A s \in Slot \ {slot} : al2[s] = al[s]
  BY <1>1 DEF Windows
<1>3. \A n \in leaves : ms[n].win \in Slot /\ ms[n].win # slot /\ al2[ms[n].win]
  BY <1>2 DEF Windows
<1>4. \A m, n \in leaves \cup {new} : ms[m].win = ms[n].win => m = n
  BY <1>3 DEF Windows
<1>5. ASSUME NEW s \in Slot, al2[s]  PROVE \E n \in leaves \cup {new} : ms[n].win = s
  BY <1>2, <1>5 DEF Windows
<1> QED
  BY <1>1, <1>2, <1>3, <1>4, <1>5 DEF Windows

LEMMA WindowsLess ==
    ASSUME NEW ns, NEW leaves, NEW al, Windows(ns, leaves, al), NEW n \in leaves,
           NEW ms, \A m \in leaves \ {n} : ms[m].win = ns[m].win
    PROVE  Windows(ms, leaves \ {n}, [al EXCEPT ![ns[n].win] = FALSE])
<1>1. PICK w : w = ns[n].win
  OBVIOUS
<1>2. w \in Slot
  BY <1>1 DEF Windows
<1>3. PICK al2 : al2 = [al EXCEPT ![w] = FALSE]
  OBVIOUS
<1>4. al2 \in [Slot -> BOOLEAN] /\ ~ al2[w] /\ \A s \in Slot \ {w} : al2[s] = al[s]
  BY <1>2, <1>3 DEF Windows
<1>5. \A m \in leaves \ {n} : ms[m].win \in Slot /\ al2[ms[m].win]
  BY <1>1, <1>4 DEF Windows
<1>6. \A k, m \in leaves \ {n} : ms[k].win = ms[m].win => k = m
  BY DEF Windows
<1>7. ASSUME NEW s \in Slot, al2[s]  PROVE \E m \in leaves \ {n} : ms[m].win = s
  BY <1>1, <1>4, <1>7 DEF Windows
<1> QED
  BY <1>1, <1>3, <1>4, <1>5, <1>6, <1>7 DEF Windows

\* The first window, and the last.
Planted(ns, new, win) == [ns EXCEPT ![new] = [NoNode EXCEPT !.is_leaf = TRUE, !.win = win]]

LEMMA FirstShape ==
    ASSUME NEW ns, NEW d, NEW M, Shape(ns, NULL, d, M), NEW new \in NodeId, NEW win \in Slot,
           NEW ms, ms = Planted(ns, new, win)
    PROVE  /\ \E d2, M2 : Shape(ms, new, d2, M2)
           /\ Used(ms) = {new} /\ LeafNodes(ms) = {new} /\ ms[new].win = win
<1>1. PICK leaf : leaf = [NoNode EXCEPT !.is_leaf = TRUE, !.win = win]
  OBVIOUS
<1>2. /\ leaf \in Node /\ leaf.is_leaf = TRUE /\ leaf.parent = NULL /\ leaf.win = win
  BY <1>1 DEF NoNode, Node
<1>3. ns \in [NodeId -> Node] /\ Used(ns) = {}
  BY DEF Shape
<1>4. ms \in [NodeId -> Node] /\ ms[new] = leaf /\ \A n \in NodeId \ {new} : ms[n] = ns[n]
  BY <1>1, <1>2, <1>3 DEF Planted
<1>5. Used(ms) = {new}
  BY <1>2, <1>3, <1>4 DEF Used
<1>6. LeafNodes(ms) = {new}
  BY <1>2, <1>4, <1>5 DEF LeafNodes
<1>7. PICK d2 : d2 = [n \in NodeId |-> 0]
  OBVIOUS
<1>8. Shape(ms, new, d2, 0)
  <2>1. d2 \in [NodeId -> 0 .. 0] /\ 0 \in Nat
    BY <1>7
  <2>2. new # NULL
    BY WmTreeConstants
  <2>3. \A n \in Used(ms) : ms[n].is_leaf
    BY <1>2, <1>4, <1>5
  <2>4. Used(ms) \ {new} = {} /\ new \in Used(ms) /\ ms[new].parent = NULL
    BY <1>2, <1>4, <1>5
  <2> QED
    BY <1>4, <2>1, <2>2, <2>3, <2>4 DEF Shape
<1> QED
  BY <1>2, <1>4, <1>5, <1>6, <1>8

LEMMA LastShape ==
    ASSUME NEW ns, NEW top, NEW d, NEW M, Shape(ns, top, d, M), NEW n \in LeafNodes(ns),
           ns[n].parent = NULL, NEW ms, ms = [ns EXCEPT ![n] = NoNode]
    PROVE  /\ Shape(ms, NULL, d, M)
           /\ Used(ns) = {n} /\ LeafNodes(ns) = {n} /\ Used(ms) = {} /\ LeafNodes(ms) = {}
<1>1. n \in Used(ns) /\ ns[n].is_leaf
  BY DEF LeafNodes
<1>2. n = top /\ n \in NodeId
  BY <1>1, PlaceOf DEF Placed
<1>3. UpTo(ns, top, {top})
  BY <1>1, <1>2 DEF UpTo, Shape
<1>4. \A m \in Used(ns) : m \in {top}
  BY <1>3, UpInduction, Zenon
<1>5. Used(ns) = {n} /\ LeafNodes(ns) = {n}
  BY <1>1, <1>2, <1>4 DEF LeafNodes
<1>6. ns \in [NodeId -> Node] /\ NoNode \in Node
  BY DEF Shape, NoNode, Node
<1>7. ms \in [NodeId -> Node] /\ ms[n] = NoNode /\ \A m \in NodeId \ {n} : ms[m] = ns[m]
  BY <1>2, <1>6
<1>8. Used(ms) = {}
  BY <1>5, <1>7 DEF Used, NoNode
<1>9. LeafNodes(ms) = {}
  BY <1>8 DEF LeafNodes
<1>10. M \in Nat /\ d \in [NodeId -> 0 .. M]
  BY DEF Shape
<1>11. Shape(ms, NULL, d, M)
  BY <1>7, <1>8, <1>10 DEF Shape
<1> QED
  BY <1>5, <1>8, <1>9, <1>11

-----------------------------------------------------------------------------
(***************************************************************************)
(* The invariant.                                                          *)
(***************************************************************************)

LEMMA InitWm == Init => WmInv
<1> SUFFICES ASSUME Init  PROVE WmInv
  OBVIOUS
<1>1. NoNode \in Node
  BY DEF NoNode, Node
<1>2. nodes \in [NodeId -> Node] /\ (\A n \in NodeId : nodes[n] = NoNode) /\ root = NULL
  BY <1>1 DEF Init
<1>3. Used(nodes) = {}
  BY <1>2 DEF Used, NoNode
<1>4. LeafNodes(nodes) = {}
  BY <1>3 DEF LeafNodes
<1>5. PICK d : d = [n \in NodeId |-> 0]
  OBVIOUS
<1>6. Shape(nodes, root, d, 0)
  <2>1. d \in [NodeId -> 0 .. 0] /\ 0 \in Nat
    BY <1>5
  <2> QED
    BY <1>2, <1>3, <2>1 DEF Shape
<1>7. Windows(nodes, LeafNodes(nodes), alive)
  BY <1>4 DEF Windows, Init
<1>8. PoolOf(Used(nodes), [stack |-> free_stack, idx |-> node_pool_idx])
  <2>1. free_stack \in Seq(NodeId) /\ IsInjective(free_stack) /\ Range(free_stack) = {}
    BY DEF Init, IsInjective, Range
  <2>2. 0 .. 0 - 1 = {} /\ 0 \in 0 .. 2 * MAX_WINDOWS
    BY WmTreeConstants
  <2> QED
    BY <1>3, <2>1, <2>2 DEF PoolOf, Init
<1>9. Counted(Used(nodes), LeafNodes(nodes)) /\ Focused
  BY <1>3 DEF Counted, Focused, Init
<1>10. rect = Layout(nodes, root)
  <2>1. Range(Leaves(nodes, root)) = {}
    BY <1>4, <1>6, LeavesAre
  <2> QED
    BY <2>1 DEF Layout, Init
<1> QED
  BY <1>6, <1>7, <1>8, <1>9, <1>10 DEF WmInv, Init

\* What is in use is finite and comes from the pool.
LEMMA UsedFinite ==
    ASSUME NEW ns
    PROVE  /\ Used(ns) \subseteq NodeId /\ IsFiniteSet(Used(ns)) /\ NULL \notin Used(ns)
           /\ LeafNodes(ns) \subseteq Used(ns)
<1>1. IsFiniteSet(NodeId)
  <2>1. 0 \in Int /\ 2 * MAX_WINDOWS - 1 \in Int
    BY WmTreeConstants
  <2> QED
    BY <2>1, FS_Interval DEF NodeId
<1>2. Used(ns) \subseteq NodeId /\ LeafNodes(ns) \subseteq Used(ns)
  BY DEF Used, LeafNodes
<1> QED
  BY <1>1, <1>2, FS_Subset, WmTreeConstants

\* wm_handle_new_client
LEMMA InsertKeeps ==
    ASSUME WmInv, NEW slot \in Slot, ~ alive[slot], alive' = [alive EXCEPT ![slot] = TRUE],
           Insert(slot), UpdateLayout, UNCHANGED next_split_mode
    PROVE  WmInv'
<1>1. PICK d, M : Shape(nodes, root, d, M)
  BY DEF WmInv
<1>2. PICK ns, top : ns = nodes /\ top = root
  OBVIOUS
<1>3. PICK pool : pool = [stack |-> free_stack, idx |-> node_pool_idx]
  OBVIOUS
<1>4. PICK new, pool1 : new = Allocated(pool) /\ pool1 = PoolAfter(pool)
  OBVIOUS
<1>5. PICK container, pool2 : container = Allocated(pool1) /\ pool2 = PoolAfter(pool1)
  OBVIOUS
<1>6. new # NULL /\ focused_node' = new
  BY <1>3, <1>4 DEF Insert
<1>7. PoolOf(Used(ns), pool)
  BY <1>2, <1>3 DEF WmInv
<1>8. new \in NodeId \ Used(ns)
  BY <1>4, <1>6, <1>7, AllocKeeps
<1>9. PoolOf(Used(ns) \cup {new}, pool1)
  BY <1>4, <1>6, <1>7, AllocKeeps
<1>10. next_split_mode' \in {"SPLIT_H", "SPLIT_V"} /\ rect' = Layout(nodes', root')
  BY DEF WmInv, UpdateLayout
<1>11. CASE root = NULL
  <2>1. /\ nodes' = [ns EXCEPT ![new] = [NoNode EXCEPT !.is_leaf = TRUE, !.win = slot]]
        /\ root' = new /\ free_stack' = pool1.stack /\ node_pool_idx' = pool1.idx
    BY <1>2, <1>3, <1>4, <1>11 DEF Insert
  <2>2. PICK ms : ms = nodes'
    OBVIOUS
  <2>3. Shape(ns, NULL, d, M) /\ Used(ns) = {} /\ LeafNodes(ns) = {}
    BY <1>1, <1>2, <1>11 DEF Shape, LeafNodes
  <2>4. /\ \E d2, M2 : Shape(ms, new, d2, M2)
        /\ Used(ms) = {new} /\ LeafNodes(ms) = {new} /\ ms[new].win = slot
    <3>1. new \in NodeId /\ Shape(ns, NULL, d, M)
      BY <1>8, <2>3
    <3>2. ms = Planted(ns, new, slot)
      BY <2>1, <2>2 DEF Planted
    <3> QED
      BY <3>1, <3>2, FirstShape
  <2>5. Windows(ns, LeafNodes(ns), alive)
    BY <1>2 DEF WmInv
  <2>6. Windows(ms, {} \cup {new}, [alive EXCEPT ![slot] = TRUE])
    BY <2>3, <2>4, <2>5, WindowsMore
  <2>7. Windows(ms, {new}, alive')
    BY <2>6
  <2>8. PoolOf({new}, [stack |-> free_stack', idx |-> node_pool_idx'])
    <3>1. pool1 = [stack |-> free_stack', idx |-> node_pool_idx']
      BY <1>9, <2>1 DEF PoolOf
    <3> QED
      BY <1>9, <2>3, <3>1
  <2>9. Counted({new}, {new})
    BY FS_Singleton DEF Counted
  <2>10. Focused'
    BY <1>6, <2>1, <2>2, <2>4 DEF Focused
  <2> QED
    BY <1>10, <2>1, <2>2, <2>4, <2>7, <2>8, <2>9, <2>10 DEF WmInv
<1>12. CASE root # NULL
  <2>1. PICK target : target = LeftmostLeaf(nodes, IF focused_node # NULL THEN focused_node
                                                   ELSE root)
    OBVIOUS
  <2>2. /\ container # NULL
        /\ nodes' = Inserted(ns, target, new, container, slot, next_split_mode)
        /\ root' = IF ns[target].parent = NULL THEN container ELSE top
        /\ free_stack' = pool2.stack /\ node_pool_idx' = pool2.idx
    BY <1>2, <1>3, <1>4, <1>5, <1>12, <2>1 DEF Insert, Inserted
  <2>3. container \in NodeId \ (Used(ns) \cup {new})
    BY <1>5, <1>9, <2>2, AllocKeeps
  <2>4. PoolOf((Used(ns) \cup {new}) \cup {container}, pool2)
    BY <1>5, <1>9, <2>2, AllocKeeps
  <2>5. target \in LeafNodes(ns)
    <3>1. PICK n : n = IF focused_node # NULL THEN focused_node ELSE root
      OBVIOUS
    <3>2. n \in Used(ns)
      BY <1>1, <1>2, <1>12, <3>1, UsedFinite DEF WmInv, Focused, Shape
    <3> QED
      BY <1>1, <1>2, <2>1, <3>1, <3>2, LeftmostIs
  <2>6. PICK ms : ms = nodes'
    OBVIOUS
  <2>7. PICK top2 : top2 = root'
    OBVIOUS
  <2>8. target \in Used(ns) /\ Used(ns) \subseteq NodeId
    BY <2>5, UsedFinite
  <2>9. ns \in [NodeId -> Node] /\ next_split_mode \in {"SPLIT_H", "SPLIT_V"}
    BY <1>1, <1>2 DEF Shape, WmInv
  <2>10. ns[target].parent \notin {target, new, container}
    <3>1. PICK p : p = ns[target].parent
      OBVIOUS
    <3>2. Placed(ns, top, d, target, p)
      BY <1>1, <1>2, <2>8, <3>1, PlaceOf, Zenon
    <3>3. p # target /\ (p = NULL \/ p \in Used(ns))
      BY <3>2 DEF Placed
    <3> QED
      BY <1>6, <1>8, <2>2, <2>3, <3>1, <3>3
  <2>11. Grafted(ns, ms, target, new, container, slot)
    <3>1. target # new /\ target # container /\ new # container /\ target \in NodeId
          /\ container \in NodeId /\ new \in NodeId
      BY <1>8, <2>3, <2>8
    <3>2. PICK dir : dir = next_split_mode
      OBVIOUS
    <3>3. ms = Inserted(ns, target, new, container, slot, dir) /\ dir \in {"SPLIT_H", "SPLIT_V"}
      BY <2>2, <2>6, <2>9, <3>2
    <3> QED
      BY <2>9, <2>10, <3>1, <3>3, GraftedIs
  <2>12. /\ \E d2, M2 : Shape(ms, top2, d2, M2)
         /\ Used(ms) = Used(ns) \cup {new, container}
         /\ LeafNodes(ms) = LeafNodes(ns) \cup {new}
         /\ \A n \in LeafNodes(ns) : ms[n].win = ns[n].win
    BY <1>1, <1>2, <1>8, <2>2, <2>3, <2>5, <2>7, <2>11, GraftedShape
  <2>13. new \notin LeafNodes(ns) /\ ms[new].win = slot
    BY <1>8, <2>11, UsedFinite DEF Grafted
  <2>14. Windows(ns, LeafNodes(ns), alive)
    BY <1>2 DEF WmInv
  <2>15. Windows(ms, LeafNodes(ms), alive')
    <3>1. Windows(ms, LeafNodes(ns) \cup {new}, [alive EXCEPT ![slot] = TRUE])
      BY <2>12, <2>13, <2>14, WindowsMore
    <3> QED
      BY <2>12, <3>1
  <2>16. PoolOf(Used(ms), [stack |-> free_stack', idx |-> node_pool_idx'])
    <3>1. Used(ms) = (Used(ns) \cup {new}) \cup {container}
      BY <2>12
    <3>2. pool2 = [stack |-> free_stack', idx |-> node_pool_idx']
      BY <2>2, <2>4 DEF PoolOf
    <3> QED
      BY <2>4, <3>1, <3>2
  <2>17. Counted(Used(ms), LeafNodes(ms))
    <3>1. Counted(Used(ns), LeafNodes(ns))
      BY <1>2 DEF WmInv
    <3>2. new \notin Used(ns) /\ container \notin Used(ns) /\ new # container /\ Used(ns) # {}
      BY <1>8, <2>3, <2>8
    <3>3. Counted(Used(ns) \cup {new, container}, LeafNodes(ns) \cup {new})
      BY <3>1, <3>2, UsedFinite, CountedMore
    <3> QED
      BY <2>12, <3>3
  <2>18. Focused'
    <3>1. top2 # NULL
      BY <1>2, <1>12, <2>2, <2>7
    <3> QED
      BY <1>6, <2>6, <2>7, <2>12, <3>1 DEF Focused
  <2> QED
    BY <1>10, <2>6, <2>7, <2>12, <2>15, <2>16, <2>17, <2>18 DEF WmInv
<1> QED
  BY <1>11, <1>12

\* wm_kill_focused
LEMMA DeleteKeeps ==
    ASSUME WmInv, KillFocused
    PROVE  WmInv'
<1>1. PICK d, M : Shape(nodes, root, d, M)
  BY DEF WmInv
<1>2. PICK ns, top, n : ns = nodes /\ top = root /\ n = focused_node
  OBVIOUS
<1>3. PICK w : w = ns[n].win
  OBVIOUS
<1>4. n # NULL /\ alive' = [alive EXCEPT ![w] = FALSE]
  BY <1>2, <1>3 DEF KillFocused
<1>5. n \in LeafNodes(ns) /\ n \in Used(ns) /\ n \in NodeId /\ ns[n].is_leaf
  BY <1>2, <1>4 DEF WmInv, Focused, LeafNodes, Used
<1>6. PoolOf(Used(ns), [stack |-> free_stack, idx |-> node_pool_idx])
      /\ Windows(ns, LeafNodes(ns), alive) /\ Counted(Used(ns), LeafNodes(ns))
  BY <1>2 DEF WmInv
<1>7. next_split_mode' \in {"SPLIT_H", "SPLIT_V"} /\ rect' = Layout(nodes', root')
      /\ node_pool_idx' = node_pool_idx
  BY DEF WmInv, KillFocused, UpdateLayout
<1>8. PICK ms : ms = nodes'
  OBVIOUS
<1>9. PICK container : container = ns[n].parent
  OBVIOUS
<1>10. CASE container = NULL
  <2>1. /\ root' = NULL /\ focused_node' = NULL /\ free_stack' = Append(free_stack, n)
        /\ ms = [ns EXCEPT ![n] = NoNode]
    BY <1>2, <1>8, <1>9, <1>10 DEF KillFocused, Delete
  <2>2. /\ Shape(ms, NULL, d, M)
        /\ Used(ns) = {n} /\ LeafNodes(ns) = {n} /\ Used(ms) = {} /\ LeafNodes(ms) = {}
    BY <1>1, <1>2, <1>5, <1>9, <1>10, <2>1, LastShape
  <2>3. Windows(ms, LeafNodes(ns) \ {n}, [alive EXCEPT ![w] = FALSE])
    <3>1. \A m \in LeafNodes(ns) \ {n} : ms[m].win = ns[m].win
      BY <2>2
    <3> QED
      BY <1>3, <1>5, <1>6, <3>1, WindowsLess
  <2>4. LeafNodes(ns) \ {n} = LeafNodes(ms)
    BY <2>2
  <2>5. Windows(ms, LeafNodes(ms), alive')
    BY <1>4, <2>3, <2>4
  <2>6. PoolOf(Used(ms), [stack |-> free_stack', idx |-> node_pool_idx'])
    <3>1. PoolOf(Used(ns) \ {n}, [stack |-> Append(free_stack, n), idx |-> node_pool_idx])
      BY <1>5, <1>6, FreeKeeps
    <3>2. Used(ns) \ {n} = Used(ms)
      BY <2>2
    <3> QED
      BY <1>7, <2>1, <3>1, <3>2
  <2>7. Counted(Used(ms), LeafNodes(ms))
    BY <2>2 DEF Counted
  <2>8. Focused'
    BY <2>1 DEF Focused
  <2> QED
    BY <1>7, <1>8, <2>1, <2>2, <2>5, <2>6, <2>7, <2>8 DEF WmInv
<1>11. CASE container # NULL
  <2>1. PICK sibling : sibling = IF ns[container].left = n THEN ns[container].right
                                 ELSE ns[container].left
    OBVIOUS
  <2>2. /\ ms = Deleted(ns, n, container, sibling)
        /\ root' = IF ns[container].parent = NULL THEN sibling ELSE top
        /\ focused_node' = LeftmostLeaf(ns, sibling)
        /\ free_stack' = free_stack \o <<n, container>>
    BY <1>2, <1>8, <1>9, <1>11, <2>1
       DEF KillFocused, Delete, Deleted, Refocused, Recycled
  <2>3. PICK top2 : top2 = root'
    OBVIOUS
  <2>4. PICK p : p = ns[container].parent
    OBVIOUS
  <2>5. Placed(ns, top, d, n, container)
    BY <1>1, <1>2, <1>5, <1>9, PlaceOf, Zenon
  <2>6. /\ container # n /\ n # top /\ container \in Used(ns) /\ ~ ns[container].is_leaf
        /\ sibling \in Used(ns) /\ sibling # n /\ ns[sibling].parent = container
    BY <1>11, <2>1, <2>5 DEF Placed
  <2>7. Placed(ns, top, d, container, p) /\ Placed(ns, top, d, sibling, container)
    BY <1>1, <1>2, <2>4, <2>6, PlaceOf, Zenon
  <2>8. sibling # top /\ sibling # container
    BY <1>11, <2>7 DEF Placed
  <2>9. ns \in [NodeId -> Node] /\ Used(ns) \subseteq NodeId /\ \A m \in NodeId : d[m] \in Nat
    BY <1>1, <1>2, UsedFinite DEF Shape
  <2>10. p \notin {n, container, sibling}
    <3>1. CASE p = NULL
      BY <2>6, <2>9, <1>5, <3>1, WmTreeConstants
    <3>2. CASE p # NULL
      <4>1. d[p] < d[container] /\ p \in Used(ns) /\ d[container] < d[n]
            /\ d[container] < d[sibling]
        BY <1>11, <2>5, <2>7, <3>2 DEF Placed
      <4>2. d[p] \in Nat /\ d[container] \in Nat /\ d[n] \in Nat /\ d[sibling] \in Nat
        BY <1>5, <2>6, <2>9, <4>1
      <4>3. ~ (d[p] = d[n]) /\ ~ (d[p] = d[container]) /\ ~ (d[p] = d[sibling])
        BY <4>1, <4>2
      <4> QED
        BY <4>3
    <3> QED
      BY <3>1, <3>2
  <2>11. Pruned(ns, ms, n, container, sibling)
    <3>1. container \in NodeId /\ sibling \in NodeId /\ ns[container].parent \notin {n, container, sibling}
      BY <2>4, <2>6, <2>9, <2>10
    <3> QED
      BY <1>5, <2>2, <2>6, <2>8, <2>9, <3>1, PrunedIs
  <2>12. /\ Shape(ms, top2, d, M) /\ top2 # NULL
         /\ Used(ms) = Used(ns) \ {n, container}
         /\ LeafNodes(ms) = LeafNodes(ns) \ {n}
         /\ \A m \in LeafNodes(ms) : ms[m].win = ns[m].win
    <3>1. Shape(ns, top, d, M) /\ n \in LeafNodes(ns)
      BY <1>1, <1>2, <1>5
    <3>2. top2 = IF ns[container].parent = NULL THEN sibling ELSE top
      BY <2>2, <2>3
    <3> QED
      BY <1>9, <1>11, <2>1, <2>11, <3>1, <3>2, PrunedShape
  <2>13. Windows(ms, LeafNodes(ms), alive')
    <3>1. \A m \in LeafNodes(ns) \ {n} : ms[m].win = ns[m].win
      BY <2>12
    <3>2. Windows(ms, LeafNodes(ns) \ {n}, [alive EXCEPT ![w] = FALSE])
      BY <1>3, <1>5, <1>6, <3>1, WindowsLess
    <3> QED
      BY <1>4, <2>12, <3>2
  <2>14. PoolOf(Used(ms), [stack |-> free_stack', idx |-> node_pool_idx'])
    <3>1. PICK used, stack : used = Used(ns) \ {n} /\ stack = Append(free_stack, n)
      OBVIOUS
    <3>2. PoolOf(used, [stack |-> stack, idx |-> node_pool_idx])
      BY <1>5, <1>6, <3>1, FreeKeeps
    <3>3. container \in used
      BY <2>6, <3>1
    <3>4. PoolOf(used \ {container}, [stack |-> Append(stack, container), idx |-> node_pool_idx])
      BY <3>2, <3>3, FreeKeeps
    <3>5. used \ {container} = Used(ms)
      BY <2>12, <3>1
    <3>6. Append(stack, container) = free_stack \o <<n, container>>
      <4>1. free_stack \in Seq(NodeId) /\ container \in NodeId
        BY <1>6, <2>6, <2>9 DEF PoolOf
      <4> QED
        BY <1>5, <3>1, <4>1
    <3> QED
      BY <1>7, <2>2, <3>4, <3>5, <3>6
  <2>15. Counted(Used(ms), LeafNodes(ms))
    <3>1. container \notin LeafNodes(ns)
      BY <2>6 DEF LeafNodes
    <3>2. Counted(Used(ns) \ {n, container}, LeafNodes(ns) \ {n})
      BY <1>5, <1>6, <2>6, <3>1, UsedFinite, CountedLess
    <3> QED
      BY <2>12, <3>2
  <2>16. Focused'
    <3>1. LeftmostLeaf(ns, sibling) \in LeafNodes(ns)
      BY <1>1, <1>2, <2>6, LeftmostIs
    <3>2. LeftmostLeaf(ns, sibling) # n
      BY <1>1, <1>2, <1>5, <1>9, <2>6, <2>8, LeftmostAvoids
    <3> QED
      BY <1>8, <2>2, <2>3, <2>12, <3>1, <3>2 DEF Focused
  <2> QED
    BY <1>7, <1>8, <2>3, <2>12, <2>13, <2>14, <2>15, <2>16 DEF WmInv
<1> QED
  BY <1>10, <1>11

\* wm_focus_next
LEMMA FocusKeeps ==
    ASSUME WmInv, FocusNext
    PROVE  WmInv'
<1>1. PICK d, M : Shape(nodes, root, d, M)
  BY DEF WmInv
<1>2. PICK leaves, current :
         /\ leaves = Leaves(nodes, root)
         /\ current = CHOOSE i \in 1 .. Len(leaves) : leaves[i] = focused_node
  OBVIOUS
<1>3. root # NULL /\ focused_node' = leaves[(current % Len(leaves)) + 1]
  BY <1>2 DEF FocusNext
<1>4. leaves \in Seq(NodeId) /\ Range(leaves) = LeafNodes(nodes) /\ leaves # <<>>
  BY <1>1, <1>2, <1>3, LeavesAre
<1>5. Range(leaves) = {leaves[i] : i \in 1 .. Len(leaves)}
  BY <1>4, RangeEquality
<1>6. focused_node \in LeafNodes(nodes)
  BY <1>3 DEF WmInv, Focused
<1>7. current \in 1 .. Len(leaves)
  <2>1. \E i \in 1 .. Len(leaves) : leaves[i] = focused_node
    BY <1>4, <1>5, <1>6
  <2> QED
    BY <1>2, <2>1
<1>8. (current % Len(leaves)) + 1 \in 1 .. Len(leaves)
  <2>1. PICK k : k = Len(leaves) /\ k \in Nat /\ k > 0
    BY <1>4
  <2>2. current \in Nat
    BY <1>7, <2>1
  <2>3. \A i \in Nat : i % k \in 0 .. k - 1
    BY <2>1
  <2>4. \A j \in 0 .. k - 1 : j + 1 \in 1 .. k
    BY <2>1
  <2> QED
    BY <2>1, <2>2, <2>3, <2>4
<1>9. focused_node' \in LeafNodes(nodes)
  BY <1>3, <1>4, <1>5, <1>8
<1> QED
  BY <1>9 DEF WmInv, FocusNext, Focused

LEMMA NextWm == WmInv /\ [Next]_vars => WmInv'
<1> SUFFICES ASSUME WmInv, [Next]_vars  PROVE WmInv'
  OBVIOUS
<1>1. CASE HandleNewClient
  <2>1. PICK free : free = {s \in Slot : ~ alive[s]}
    OBVIOUS
  <2>2. PICK slot : slot = LowestSlot(free)
    OBVIOUS
  <2>3. /\ free # {} /\ alive' = [alive EXCEPT ![slot] = TRUE]
        /\ Insert(slot) /\ UpdateLayout /\ UNCHANGED next_split_mode
    BY <1>1, <2>1, <2>2 DEF HandleNewClient
  <2>4. slot \in free
    <3>1. free \subseteq Nat
      BY <2>1, WmTreeConstants DEF Slot
    <3>2. \E x \in free : \A y \in free : x <= y
      BY <2>3, <3>1, LeastNat
    <3> QED
      BY <2>2, <3>2 DEF LowestSlot, Min
  <2> QED
    BY <2>1, <2>3, <2>4, InsertKeeps
<1>2. CASE FocusNext
  BY <1>2, FocusKeeps
<1>3. CASE KillFocused
  BY <1>3, DeleteKeeps
<1>4. ASSUME NEW dir \in {"SPLIT_H", "SPLIT_V"}, SetSplit(dir)
      PROVE  WmInv'
  BY <1>4 DEF SetSplit, WmInv, tree, Focused
<1>5. CASE UNCHANGED vars
  BY <1>5 DEF vars, WmInv, tree, Focused
<1> QED
  BY <1>1, <1>2, <1>3, <1>4, <1>5 DEF Next

\* The invariant, of which the properties are consequences.
THEOREM WmInvariant == Spec => []WmInv
<1> QED
  BY InitWm, NextWm, PTL DEF Spec

-----------------------------------------------------------------------------
(***************************************************************************)
(* What the invariant implies.                                             *)
(***************************************************************************)

\* The pool is finite, and the stack holds as many nodes as it has entries.
LEMMA StackCounts ==
    ASSUME NEW used, NEW stack, NEW idx, PoolOf(used, [stack |-> stack, idx |-> idx])
    PROVE  /\ Len(stack) = Cardinality(Range(stack)) /\ IsFiniteSet(Range(stack))
           /\ Len(stack) \in Nat /\ Len(stack) <= 2 * MAX_WINDOWS
<1>1. stack \in Seq(NodeId) /\ IsInjective(stack)
  BY DEF PoolOf
<1>2. PICK k : k = Len(stack) /\ k \in Nat /\ DOMAIN stack = 1 .. k
  BY <1>1
<1>3. Range(stack) = {stack[i] : i \in 1 .. k}
  BY <1>1, <1>2, RangeEquality
<1>4. stack \in [1 .. k -> NodeId] /\ stack \in [1 .. k -> Range(stack)]
  BY <1>1, <1>2, <1>3
<1>5. IsFiniteSet(1 .. k) /\ Cardinality(1 .. k) = k
  <2>1. 1 \in Int /\ k \in Int
    BY <1>2
  <2>2. IsFiniteSet(1 .. k) /\ Cardinality(1 .. k) = IF 1 > k THEN 0 ELSE k - 1 + 1
    BY <2>1, FS_Interval, Zenon
  <2> QED
    BY <1>2, <2>2
<1>6. stack \in Surjection(1 .. k, Range(stack)) /\ stack \in Injection(1 .. k, Range(stack))
  BY <1>1, <1>3, <1>4 DEF Surjection, Injection
<1>7. Cardinality(Range(stack)) = k /\ IsFiniteSet(Range(stack))
  BY <1>5, <1>6, FS_Surjection
<1>8. IsFiniteSet(NodeId) /\ Cardinality(NodeId) = 2 * MAX_WINDOWS
  <2>1. PICK m : m = 2 * MAX_WINDOWS - 1 /\ m \in Nat /\ m + 1 = 2 * MAX_WINDOWS
    BY WmTreeConstants
  <2>2. IsFiniteSet(0 .. m) /\ Cardinality(0 .. m) = m - 0 + 1
    BY <2>1, FS_Interval
  <2> QED
    BY <2>1, <2>2 DEF NodeId
<1>9. stack \in Injection(1 .. k, NodeId)
  BY <1>1, <1>4 DEF Injection
<1>10. k <= 2 * MAX_WINDOWS
  BY <1>5, <1>8, <1>9, FS_Injection
<1> QED
  BY <1>2, <1>7, <1>10

\* For any number of windows, after any sequence of insertions, kills and focus changes
\* the links of the nodes form a tree with one leaf for every living window, the free
\* stack fits its array, and the focus is on a leaf of the tree.
THEOREM WellFormedTheorem == Spec => []TreeWellFormed
<1>1. ASSUME WmInv  PROVE TreeWellFormed
  <2>1. PICK d, M : Shape(nodes, root, d, M)
    BY <1>1 DEF WmInv
  <2>2. TreeNodes = Used(nodes)
    BY <2>1, NodesAre
  <2>3. TypeOK
    <3>1. nodes \in [NodeId -> Node] /\ root \in NodeId \cup {NULL}
      BY <2>1 DEF Shape
    <3>2. PoolOf(Used(nodes), [stack |-> free_stack, idx |-> node_pool_idx])
      BY <1>1 DEF WmInv
    <3>3. node_pool_idx \in 0 .. 2 * MAX_WINDOWS /\ free_stack \in Seq(NodeId)
      BY <3>2 DEF PoolOf
    <3>4. Len(free_stack) <= 2 * MAX_WINDOWS
      BY <3>2, StackCounts
    <3>5. focused_node \in NodeId \cup {NULL}
      BY <1>1 DEF WmInv, Focused, LeafNodes, Used
    <3>6. alive \in [Slot -> BOOLEAN]
      BY <1>1 DEF WmInv, Windows
    <3> QED
      BY <3>1, <3>3, <3>4, <3>5, <3>6 DEF TypeOK, Node
  <2>4. LinksMatch
    <3>1. root # NULL => nodes[root].parent = NULL
      BY <2>1 DEF Shape
    <3>2. \A n \in TreeNodes : ~ nodes[n].is_leaf =>
             /\ nodes[n].left # nodes[n].right
             /\ nodes[nodes[n].left].parent = n
             /\ nodes[nodes[n].right].parent = n
      BY <2>1, <2>2 DEF Shape
    <3>3. ASSUME NEW s \in Slot
          PROVE  Cardinality({n \in TreeNodes : nodes[n].is_leaf /\ nodes[n].win = s})
                    = IF alive[s] THEN 1 ELSE 0
      <4>1. PICK T : T = {n \in TreeNodes : nodes[n].is_leaf /\ nodes[n].win = s}
        OBVIOUS
      <4>2. T = {n \in LeafNodes(nodes) : nodes[n].win = s}
        BY <2>2, <4>1 DEF LeafNodes
      <4>3. Windows(nodes, LeafNodes(nodes), alive)
        BY <1>1 DEF WmInv
      <4>4. CASE alive[s]
        <5>1. PICK n \in LeafNodes(nodes) : nodes[n].win = s
          BY <4>3, <4>4 DEF Windows
        <5>2. T = {n}
          BY <4>2, <4>3, <5>1 DEF Windows
        <5> QED
          BY <4>1, <4>4, <5>2, FS_Singleton
      <4>5. CASE ~ alive[s]
        <5>1. T = {}
          BY <4>2, <4>3, <4>5 DEF Windows
        <5> QED
          BY <4>1, <4>5, <5>1, FS_EmptySet
      <4> QED
        BY <4>4, <4>5
    <3> QED
      BY <3>1, <3>2, <3>3 DEF LinksMatch
  <2>5. FocusOnLeaf
    BY <1>1, <2>2 DEF WmInv, Focused, FocusOnLeaf, LeafNodes
  <2> QED
    BY <2>3, <2>4, <2>5 DEF TreeWellFormed
<1> QED
  BY <1>1, WmInvariant, PTL

\* For any number of windows every node of the pool is in the tree, on the free stack
\* once, or unused: tree_free never frees a node twice or one that is still linked, and
\* no node is lost.
THEOREM PoolTheorem == Spec => []PoolPartition
<1>1. ASSUME WmInv  PROVE PoolPartition
  <2>1. PICK d, M : Shape(nodes, root, d, M)
    BY <1>1 DEF WmInv
  <2>2. TreeNodes = Used(nodes)
    BY <2>1, NodesAre
  <2>3. PoolOf(Used(nodes), [stack |-> free_stack, idx |-> node_pool_idx])
    BY <1>1 DEF WmInv
  <2>4. Len(free_stack) = Cardinality(Range(free_stack))
    BY <2>3, StackCounts
  <2>5. /\ node_pool_idx \in 0 .. 2 * MAX_WINDOWS
        /\ Used(nodes) \cap Range(free_stack) = {}
        /\ Used(nodes) \cup Range(free_stack) = 0 .. node_pool_idx - 1
    BY <2>3 DEF PoolOf
  <2>6. PICK k : k = 2 * MAX_WINDOWS /\ k \in Nat
    BY WmTreeConstants
  <2>7. /\ (0 .. node_pool_idx - 1) \cap (node_pool_idx .. k - 1) = {}
        /\ (0 .. node_pool_idx - 1) \cup (node_pool_idx .. k - 1) = 0 .. k - 1
    BY <2>5, <2>6
  <2> QED
    BY <2>2, <2>4, <2>5, <2>6, <2>7 DEF PoolPartition, NodeId
<1> QED
  BY <1>1, WmInvariant, PTL

\* While a window slot is free tree_alloc has the nodes that a new window needs: one for
\* its leaf and, if there is a tree, one for the split.
AllocSucceeds ==
    LET pool == [stack |-> free_stack, idx |-> node_pool_idx]
    IN  (\E s \in Slot : ~ alive[s]) =>
           /\ Allocated(pool) # NULL
           /\ root # NULL => Allocated(PoolAfter(pool)) # NULL

\* tree_alloc succeeds while not all nodes are in use.
LEMMA AllocHas ==
    ASSUME NEW used, NEW pool, PoolOf(used, pool), Cardinality(used) < 2 * MAX_WINDOWS
    PROVE  Allocated(pool) # NULL
<1>1. PICK stack, idx : stack = pool.stack /\ idx = pool.idx
  OBVIOUS
<1>2. /\ stack \in Seq(NodeId) /\ idx \in 0 .. 2 * MAX_WINDOWS
      /\ used \cup Range(stack) = 0 .. idx - 1
  BY <1>1 DEF PoolOf
<1>3. NULL \notin NodeId
  BY WmTreeConstants
<1>4. CASE stack # <<>>
  <2>1. stack[Len(stack)] \in NodeId
    BY <1>2, <1>4
  <2> QED
    BY <1>1, <1>3, <1>4, <2>1 DEF Allocated, Last
<1>5. CASE stack = <<>>
  <2>1. Range(stack) = {}
    BY <1>5 DEF Range
  <2>2. PICK k : k = 2 * MAX_WINDOWS /\ k \in Nat
    BY WmTreeConstants
  <2>3. used = 0 .. idx - 1 /\ idx \in Nat
    BY <1>2, <2>1, <2>2
  <2>4. Cardinality(0 .. idx - 1) = IF 0 > idx - 1 THEN 0 ELSE (idx - 1) - 0 + 1
    BY <2>3, FS_Interval
  <2>5. idx = Cardinality(used)
    BY <2>3, <2>4
  <2>6. idx < 2 * MAX_WINDOWS /\ idx \in 0 .. k - 1
    BY <2>2, <2>3, <2>5
  <2> QED
    BY <1>1, <1>3, <1>5, <2>2, <2>6 DEF Allocated, NodeId
<1> QED
  BY <1>4, <1>5

\* For any number of windows 2 * MAX_WINDOWS nodes are enough: with a slot free, the tree
\* has at most MAX_WINDOWS - 1 leaves, so 2 * MAX_WINDOWS - 3 nodes, and the branches of
\* wm_insert_window_into_tree for a pool that is used up are never taken.
THEOREM AllocTheorem == Spec => []AllocSucceeds
<1>1. ASSUME WmInv, NEW s \in Slot, ~ alive[s], NEW pool,
             pool = [stack |-> free_stack, idx |-> node_pool_idx]
      PROVE  Allocated(pool) # NULL /\ (root # NULL => Allocated(PoolAfter(pool)) # NULL)
  <2>1. PICK d, M : Shape(nodes, root, d, M)
    BY <1>1 DEF WmInv
  <2>2. PICK used, leaves : used = Used(nodes) /\ leaves = LeafNodes(nodes)
    OBVIOUS
  <2>3. /\ PoolOf(used, pool) /\ Counted(used, leaves) /\ IsFiniteSet(used)
        /\ leaves \subseteq used /\ Windows(nodes, leaves, alive)
    BY <1>1, <2>2, UsedFinite DEF WmInv
  <2>4. PICK f : f = [n \in leaves |-> nodes[n].win]
    OBVIOUS
  <2>5. f \in Injection(leaves, Slot \ {s})
    BY <1>1, <2>3, <2>4 DEF Windows, Injection, IsInjective
  <2>6. IsFiniteSet(Slot \ {s}) /\ Cardinality(Slot \ {s}) = MAX_WINDOWS - 1
    <3>1. PICK m : m = MAX_WINDOWS - 1 /\ m \in Nat /\ m + 1 = MAX_WINDOWS
      BY WmTreeConstants
    <3>2. IsFiniteSet(0 .. m) /\ Cardinality(0 .. m) = m - 0 + 1
      BY <3>1, FS_Interval
    <3>3. IsFiniteSet(Slot) /\ Cardinality(Slot) = m + 1
      BY <3>1, <3>2 DEF Slot
    <3>4. IsFiniteSet(Slot \ {s}) /\ Cardinality(Slot \ {s}) = (m + 1) - 1
      BY <3>3, FS_RemoveElement
    <3> QED
      BY <3>1, <3>4
  <2>7. Cardinality(leaves) <= MAX_WINDOWS - 1
    BY <2>5, <2>6, FS_Injection
  <2>8. PICK a, b : a = Cardinality(used) /\ b = Cardinality(leaves) /\ a \in Nat /\ b \in Nat
    BY <2>3, FS_CardinalityType, FS_Subset
  <2>9. MAX_WINDOWS \in Nat /\ MAX_WINDOWS > 0
    BY WmTreeConstants
  <2>10. used # {} => a + 1 < 2 * MAX_WINDOWS
    <3> SUFFICES ASSUME used # {}  PROVE a + 1 < 2 * MAX_WINDOWS
      OBVIOUS
    <3>1. a = 2 * b - 1 /\ b <= MAX_WINDOWS - 1
      BY <2>3, <2>7, <2>8 DEF Counted
    <3> QED
      BY <2>8, <2>9, <3>1
  <2>11. used = {} => a = 0
    BY <2>8, FS_EmptySet
  <2>12. Cardinality(used) < 2 * MAX_WINDOWS
    BY <2>8, <2>9, <2>10, <2>11
  <2>13. Allocated(pool) # NULL
    BY <2>3, <2>12, AllocHas
  <2>14. ASSUME root # NULL  PROVE Allocated(PoolAfter(pool)) # NULL
    <3>1. used # {}
      BY <2>1, <2>2, <2>14 DEF Shape
    <3>2. PICK n, after : n = Allocated(pool) /\ after = PoolAfter(pool)
      OBVIOUS
    <3>3. n \notin used /\ PoolOf(used \cup {n}, after)
      BY <2>3, <2>13, <3>2, AllocKeeps
    <3>4. Cardinality(used \cup {n}) = a + 1
      BY <2>3, <2>8, <3>3, FS_AddElement
    <3>5. Cardinality(used \cup {n}) < 2 * MAX_WINDOWS
      BY <2>10, <3>1, <3>4
    <3>6. Allocated(after) # NULL
      BY <3>3, <3>5, AllocHas
    <3> QED
      BY <3>2, <3>6
  <2> QED
    BY <2>13, <2>14
<1>2. WmInv => AllocSucceeds
  BY <1>1 DEF AllocSucceeds
<1> QED
  BY <1>2, WmInvariant, PTL

\* For any number of windows and any screen the living windows tile the screen: layout
\* gives every point to one of them and none to two, odd widths and heights included.
THEOREM TileTheorem == Spec => []WindowsTile
<1>1. ASSUME WmInv  PROVE WindowsTile
  <2>1. PICK d, M : Shape(nodes, root, d, M)
    BY <1>1 DEF WmInv
  <2>2. PICK ns, top : ns = nodes /\ top = root
    OBVIOUS
  <2>3. Windows(ns, LeafNodes(ns), alive) /\ rect = Layout(ns, top) /\ Shape(ns, top, d, M)
    BY <1>1, <2>1, <2>2 DEF WmInv
  <2>4. PICK A : AreasFrom(ns, top, A) /\ \A n \in Used(ns) : Area(ns, top, n) = A[n]
    BY <2>3, AreasExist
  <2>5. Range(Leaves(ns, top)) = LeafNodes(ns)
    BY <2>3, LeavesAre
  <2>6. rect = [s \in {ns[n].win : n \in LeafNodes(ns)} |->
                   Area(ns, top, CHOOSE n \in LeafNodes(ns) : ns[n].win = s)]
    BY <2>3, <2>5 DEF Layout
  <2>7. ASSUME NEW n \in LeafNodes(ns)  PROVE rect[ns[n].win] = A[n]
    <3>1. PICK c : c = CHOOSE m \in LeafNodes(ns) : ns[m].win = ns[n].win
      OBVIOUS
    <3>2. c \in LeafNodes(ns) /\ ns[c].win = ns[n].win
      BY <3>1
    <3>3. c = n
      BY <2>3, <3>2 DEF Windows
    <3>4. rect[ns[n].win] = Area(ns, top, c)
      BY <2>6, <3>1
    <3> QED
      BY <2>4, <3>3, <3>4 DEF LeafNodes
  <2>8. PICK living : living = {s \in Slot : alive[s]}
    OBVIOUS
  <2>9. living = {ns[n].win : n \in LeafNodes(ns)}
    BY <2>3, <2>8 DEF Windows
  <2>10. CASE top = NULL
    <3>1. LeafNodes(ns) = {}
      BY <2>3, <2>10 DEF Shape, LeafNodes
    <3>2. living = {}
      BY <2>9, <3>1
    <3> QED
      BY <2>8, <3>2 DEF WindowsTile
  <2>11. CASE top # NULL
    <3>1. /\ \A m, n \in LeafNodes(ns) : m # n => Points(A[m]) \cap Points(A[n]) = {}
          /\ UNION {Points(A[n]) : n \in LeafNodes(ns)} = Points(Screen)
      BY <2>3, <2>4, <2>11, AreasTile
    <3>2. ASSUME NEW s \in living, NEW t \in living, s # t
          PROVE  Points(rect[s]) \cap Points(rect[t]) = {}
      <4>1. PICK m, n \in LeafNodes(ns) : s = ns[m].win /\ t = ns[n].win
        BY <2>9
      <4>2. m # n /\ rect[s] = A[m] /\ rect[t] = A[n]
        BY <2>7, <3>2, <4>1
      <4> QED
        BY <3>1, <4>2
    <3>3. UNION {Points(rect[s]) : s \in living} = UNION {Points(A[n]) : n \in LeafNodes(ns)}
      <4>1. {Points(rect[s]) : s \in living} = {Points(A[n]) : n \in LeafNodes(ns)}
        BY <2>7, <2>9
      <4> QED
        BY <4>1
    <3> QED
      BY <2>8, <3>1, <3>2, <3>3 DEF WindowsTile
  <2> QED
    BY <2>10, <2>11
<1> QED
  BY <1>1, WmInvariant, PTL
=============================================================================
