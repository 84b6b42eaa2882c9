-------------------------- MODULE PageTablesProofs --------------------------
(***************************************************************************)
(* Proofs about the page tables, for any number of levels, entries, frames *)
(* and processes: the trees are disjoint but for shared pages, and they    *)
(* implement the maps of AddrMaps.                                         *)
(*                                                                         *)
(* What a tree reaches is defined by recursion over the levels, which does *)
(* not lend itself to an invariant.  The inductive invariant says instead  *)
(* that every frame can be given an owner and a depth such that each entry *)
(* leads from a frame to one of the same owner, one level deeper, which no *)
(* other entry leads to.  The entries through which the window manager     *)
(* shares a page are left out: they may lead to a frame that is anybody's  *)
(* by now.  Inductions over the levels are by the least level at which the *)
(* claim fails.                                                            *)
(***************************************************************************)
EXTENDS PageTables, FiniteSetTheorems, WellFoundedInduction, TLAPS

Table == [Index -> Frames \cup {None}]
Spaces == roots \cup {kernel_pml4}

PTypeOK ==
    /\ entry \in [Frames -> Table]
    /\ roots \subseteq Frames \ {kernel_pml4} /\ wm \in roots
    /\ free \subseteq Frames

\* Entry i of frame g belongs to the tree of g's owner: g is a table, and not one
\* of a process whose entry i was copied from the kernel's, and the entry is not
\* one for a shared page.
Edge(own, dep, g, i) ==
    /\ own[g] # None /\ dep[g] < Levels
    /\ g \in roots => i \in UserIndex
    /\ <<g, i>> \notin lent

\* The roots own themselves, and free frames have no owner.
Owners(own, dep) ==
    /\ own \in [Frames -> Spaces \cup {None}]
    /\ dep \in [Frames -> 0 .. Levels]
    /\ \A s \in Spaces : own[s] = s /\ dep[s] = 0
    /\ \A g \in Frames : own[g] # None /\ dep[g] = 0 => g \in Spaces
    /\ \A g \in free : own[g] = None

\* An entry of a table leads one level down, within what its owner has.
Down(own, dep) ==
    \A g \in Frames, i \in Index :
        Edge(own, dep, g, i) /\ entry[g][i] # None =>
            own[entry[g][i]] = own[g] /\ dep[entry[g][i]] = dep[g] + 1

\* No two entries lead to the same frame.
Once(own, dep) ==
    \A g, h \in Frames, i, j \in Index :
        /\ Edge(own, dep, g, i) /\ Edge(own, dep, h, j)
        /\ entry[g][i] # None /\ entry[g][i] = entry[h][j]
        => g = h /\ i = j

\* Every frame that has an owner and is no root is reached.
Reached(own, dep) ==
    \A x \in Frames :
        own[x] # None /\ x \notin Spaces =>
            \E g \in Frames, i \in Index : Edge(own, dep, g, i) /\ entry[g][i] = x

\* What a page or a frame without an owner holds, were it read as a table: a root
\* that was freed keeps the kernel's entries.
Stale(own, dep) ==
    \A g \in Frames, i \in Index :
        (own[g] = None \/ dep[g] = Levels) /\ entry[g][i] # None =>
            own[entry[g][i]] = kernel_pml4

\* Pages are shared through entries of the window manager's last tables.
Marks(own, dep) ==
    \A m \in lent : \E g \in Frames, i \in Index :
        m = <<g, i>> /\ own[g] = wm /\ dep[g] = Levels - 1 /\ entry[g][i] # None

\* The frame that sys_share_mem has yet to map in the client is nobody's so far.
Shares(own) ==
    \A x \in share : /\ x.client \in roots \ {wm}
                     /\ x.frame \in Frames \ free /\ own[x.frame] = None

\* The kernel's root has the entry of the heap from the start, and the roots of the
\* processes have what it has in their upper half.
KernelHalf ==
    /\ \A i \in Index : entry[kernel_pml4][i] # None <=> i = HeapIndex
    /\ \A r \in roots, i \in Index \ UserIndex : entry[r][i] = entry[kernel_pml4][i]

Forest(own, dep) ==
    /\ Owners(own, dep) /\ Down(own, dep) /\ Once(own, dep)
    /\ Reached(own, dep) /\ Stale(own, dep) /\ Marks(own, dep) /\ Shares(own)

\* The inductive invariant.
TreeInv == PTypeOK /\ KernelHalf /\ \E own, dep : Forest(own, dep)

-----------------------------------------------------------------------------
(***************************************************************************)
(* Recursion over the levels.                                              *)
(***************************************************************************)

\* A set of naturals that is not empty has a least element.
LEMMA LeastNat ==
    ASSUME NEW T, T \subseteq Nat, T # {}
    PROVE  \E x \in T : \A y \in T : x <= y
<1>1. PICK x \in T : \A y \in T : ~ (<<y, x>> \in OpToRel(<, Nat))
  BY NatLessThanWellFounded, WFMin
<1>2. \A y \in T : ~ (y < x)
  BY <1>1 DEF OpToRel
<1> QED
  BY <1>2

\* Induction over 1 .. n, for a set of the numbers at which a claim holds.
LEMMA UpTo ==
    ASSUME NEW n \in Nat, NEW H, 1 \in H,
           \A k \in 1 .. n - 1 : k \in H => k + 1 \in H
    PROVE  \A k \in 1 .. n : k \in H
<1> SUFFICES ASSUME NEW k \in 1 .. n, k \notin H
             PROVE  FALSE
  OBVIOUS
<1> DEFINE T == {m \in 1 .. n : m \notin H}
<1>1. T \subseteq Nat /\ T # {}
  OBVIOUS
<1>2. PICK x \in T : \A y \in T : x <= y
  BY <1>1, LeastNat, Zenon
<1>3. x \in 1 .. n /\ x \notin H /\ x # 1
  BY <1>2
<1>4. x - 1 \in 1 .. n - 1 /\ (x - 1) + 1 = x /\ x - 1 \in 1 .. n /\ ~ (x <= x - 1)
  BY <1>3
<1>5. x - 1 \in H
  BY <1>2, <1>4
<1> QED
  BY <1>3, <1>4, <1>5

\* G[k] says what follows an element of S at place k, and w is such a sequence.
Steps(S, n, G) == G \in [1 .. n -> [S -> S]]
Follows(S, a, n, G, w) ==
    /\ w \in [1 .. n + 1 -> S]
    /\ w[1] = a
    /\ \A k \in 1 .. n : w[k + 1] = G[k][w[k]]

\* A sequence exists for every first element and every rule for what follows.
LEMMA Recursion ==
    \A S : \A a \in S, n \in Nat : \A G :
        Steps(S, n, G) => \E w : Follows(S, a, n, G, w)
<1> SUFFICES ASSUME NEW S, NEW a \in S, NEW n \in Nat, NEW G \in [1 .. n -> [S -> S]]
             PROVE  \E w : Follows(S, a, n, G, w)
  BY DEF Steps
<1> DEFINE Good(m, w) == w[1] = a /\ \A k \in 1 .. m - 1 : w[k + 1] = G[k][w[k]]
           H == {m \in 1 .. n + 1 : \E w \in [1 .. m -> S] : Good(m, w)}
<1>1. 1 \in H
  <2> DEFINE w == [k \in 1 .. 1 |-> a]
  <2>1. w \in [1 .. 1 -> S] /\ w[1] = a /\ 1 .. 1 - 1 = {} /\ 1 \in 1 .. n + 1
    OBVIOUS
  <2> HIDE DEF w
  <2> QED
    BY <2>1
<1>2. ASSUME NEW m \in 1 .. n, m \in H  PROVE m + 1 \in H
  <2>1. PICK w \in [1 .. m -> S] : Good(m, w)
    BY <1>2
  <2> DEFINE u == [k \in 1 .. m + 1 |-> IF k = m + 1 THEN G[m][w[m]] ELSE w[k]]
  <2>2. m \in 1 .. m /\ w[m] \in S /\ G[m] \in [S -> S]
    OBVIOUS
  <2>3. u \in [1 .. m + 1 -> S]
    BY <2>2
  <2>4. \A k \in 1 .. m : u[k] = w[k]
    OBVIOUS
  <2>5. u[m + 1] = G[m][w[m]]
    OBVIOUS
  <2>6. u[1] = a
    BY <2>1, <2>4
  <2> HIDE DEF u
  <2>7. ASSUME NEW k \in 1 .. m  PROVE u[k + 1] = G[k][u[k]]
    <3>1. CASE k = m
      BY <2>2, <2>4, <2>5, <3>1
    <3>2. CASE k # m
      <4>1. k \in 1 .. m - 1 /\ k + 1 \in 1 .. m
        BY <3>2
      <4> QED
        BY <2>1, <2>4, <4>1
    <3> QED
      BY <3>1, <3>2
  <2>8. (m + 1) - 1 = m
    OBVIOUS
  <2>9. Good(m + 1, u)
    BY <2>6, <2>7, <2>8
  <2> QED
    BY <2>3, <2>9
<1> HIDE DEF H
<1>3. \A m \in 1 .. (n + 1) - 1 : m \in H => m + 1 \in H
  BY <1>2
<1>4. n + 1 \in Nat /\ n + 1 \in 1 .. n + 1
  OBVIOUS
<1>5. n + 1 \in H
  BY <1>1, <1>3, <1>4, UpTo
<1>6. (n + 1) - 1 = n
  OBVIOUS
<1> QED
  BY <1>5, <1>6 DEF H, Follows

-----------------------------------------------------------------------------
(***************************************************************************)
(* The walk to a page and the layers of a tree.                            *)
(***************************************************************************)

\* w is the way to page v in the tables e: the root, the tables, the frame.
Walk(e, r, v, w) ==
    /\ w \in [1 .. Levels + 1 -> Frames \cup {None}]
    /\ w[1] = r
    /\ \A k \in 1 .. Levels : w[k + 1] = IF w[k] = None THEN None ELSE e[w[k]][v[k]]

\* The tables without the entries for pages that are only shared.
held == [g \in Frames |-> [i \in Index |-> Held(g, i)]]

\* D[k] are the frames k levels below the entries is of root r, in the tables e.
Layers(e, r, is, D) ==
    /\ D \in [1 .. Levels -> SUBSET Frames]
    /\ D[1] = {e[r][i] : i \in is} \ {None}
    /\ \A k \in 1 .. Levels - 1 : D[k + 1] = {e[g][i] : g \in D[k], i \in Index} \ {None}

\* The recursive definition of the layers.
LayersEq(e, r, is, d) ==
    d = [k \in 1 .. Levels |-> IF k = 1 THEN {e[r][i] : i \in is} \ {None}
                               ELSE {e[g][i] : g \in d[k - 1], i \in Index} \ {None}]

\* get_table_noalloc and vmm_get_mapping follow the walk.
WalksAre ==
    \A r \in Frames, v \in VPages : \E w :
        /\ Walk(entry, r, v, w)
        /\ \A k \in 1 .. Levels : Tables(r, v)[k] = w[k]
        /\ Mapping(r, v) = w[Levels + 1]

\* destroy_user_memory visits the layers.
LayersAre ==
    \A r \in Frames : /\ Layers(entry, r, UserIndex, Visited(r))
                      /\ \A is \in SUBSET Index : \E D :
                            /\ Layers(held, r, is, D)
                            /\ Below(r, is) = UNION {D[k] : k \in 1 .. Levels}

\* What the definitions of frames and levels come to.
LEMMA Numbers ==
    /\ None \notin Frames /\ kernel_pml4 \in Frames /\ kernel_pml4 # None
    /\ wm \in Frames /\ wm # None /\ wm # kernel_pml4
    /\ Frames \subseteq Nat /\ IsFiniteSet(Frames)
    /\ Levels \in Nat /\ Levels > 1 /\ Levels \in 1 .. Levels /\ 1 \in 1 .. Levels
    /\ Index \subseteq Nat /\ UserIndex \subseteq Index /\ HeapIndex \in Index \ UserIndex
<1>1. /\ NumFrames \in Nat /\ Levels \in Nat /\ 2 <= Levels /\ Levels + 2 <= NumFrames
      /\ Index \subseteq Nat /\ UserIndex \subseteq Index /\ HeapIndex \in Index \ UserIndex
  BY PageTablesConstants
<1>2. None \notin Frames /\ kernel_pml4 \in Frames /\ kernel_pml4 # None
  BY <1>1 DEF None, Frames, kernel_pml4
<1>5. wm \in Frames /\ wm # None /\ wm # kernel_pml4
  BY <1>1 DEF None, Frames, kernel_pml4, wm
<1>3. Frames \subseteq Nat /\ IsFiniteSet(Frames)
  BY <1>1, FS_Interval DEF Frames
<1>4. Levels > 1 /\ Levels \in 1 .. Levels /\ 1 \in 1 .. Levels
  BY <1>1
<1> QED
  BY <1>1, <1>2, <1>3, <1>4, <1>5

\* The recursive definition of the tables on the way has its solution.
LEMMA WalksExist == PTypeOK => WalksAre
<1> SUFFICES ASSUME PTypeOK, NEW r \in Frames, NEW v \in VPages
             PROVE  \E w : /\ Walk(entry, r, v, w)
                           /\ \A k \in 1 .. Levels : Tables(r, v)[k] = w[k]
                           /\ Mapping(r, v) = w[Levels + 1]
  BY DEF WalksAre
<1> DEFINE S == Frames \cup {None}
           G == [k \in 1 .. Levels |-> [x \in S |-> IF x = None THEN None ELSE entry[x][v[k]]]]
<1>n. Levels \in Nat /\ Levels \in 1 .. Levels /\ 1 \in 1 .. Levels
  BY Numbers
<1>e. \A x \in Frames, i \in Index : entry[x][i] \in S
  BY DEF PTypeOK, Table
<1>v. \A k \in 1 .. Levels : v[k] \in Index
  BY DEF VPages
<1>1. Steps(S, Levels, G)
  <2>1. ASSUME NEW k \in 1 .. Levels, NEW x \in S
        PROVE  (IF x = None THEN None ELSE entry[x][v[k]]) \in S
    BY <1>e, <1>v
  <2> QED
    BY <2>1 DEF Steps
<1>2. PICK w : Follows(S, r, Levels, G, w)
  <2>1. r \in S
    OBVIOUS
  <2> HIDE DEF S, G
  <2> QED
    BY <1>n, <1>1, <2>1, Recursion, Zenon
<1>3. \A k \in 1 .. Levels : k \in 1 .. Levels + 1 /\ w[k] \in S
  BY <1>n, <1>2 DEF Follows
<1>4. \A k \in 1 .. Levels : w[k + 1] = IF w[k] = None THEN None ELSE entry[w[k]][v[k]]
  BY <1>2, <1>3 DEF Follows
<1>5. Walk(entry, r, v, w) /\ w[1] = r
  BY <1>2, <1>4 DEF Walk, Follows
<1> HIDE DEF S, G
<1> DEFINE f == [k \in 1 .. Levels |-> w[k]]
           t == Tables(r, v)
<1>6. f = [k \in 1 .. Levels |-> IF k = 1 THEN r
            ELSE IF f[k - 1] = None THEN None ELSE entry[f[k - 1]][v[k - 1]]]
  <2>1. ASSUME NEW k \in 1 .. Levels
        PROVE  w[k] = IF k = 1 THEN r
                      ELSE IF f[k - 1] = None THEN None ELSE entry[f[k - 1]][v[k - 1]]
    <3>1. CASE k = 1
      BY <1>5, <3>1
    <3>2. CASE k # 1
      <4>1. k - 1 \in 1 .. Levels /\ (k - 1) + 1 = k
        BY <1>n, <3>2
      <4>2. f[k - 1] = w[k - 1]
        BY <4>1
      <4>3. w[(k - 1) + 1] = IF w[k - 1] = None THEN None ELSE entry[w[k - 1]][v[k - 1]]
        BY <1>4, <4>1, SMTT(30)
      <4> QED
        BY <3>2, <4>1, <4>2, <4>3, Zenon
    <3> QED
      BY <3>1, <3>2
  <2> QED
    BY <2>1
<1> HIDE DEF f
<1>7. t = [k \in 1 .. Levels |-> IF k = 1 THEN r
            ELSE IF t[k - 1] = None THEN None ELSE entry[t[k - 1]][v[k - 1]]]
  BY <1>6 DEF Tables
<1> HIDE DEF t
<1>8. \A k \in 1 .. Levels : t[k] = w[k]
  <2> DEFINE H == {k \in 1 .. Levels : t[k] = w[k]}
  <2>1. 1 \in H
    BY <1>5, <1>7, <1>n
  <2>2. ASSUME NEW k \in 1 .. Levels - 1, k \in H  PROVE k + 1 \in H
    <3>1. k \in 1 .. Levels /\ k + 1 \in 1 .. Levels /\ k + 1 # 1 /\ (k + 1) - 1 = k
      BY <1>n
    <3>2. t[k + 1] = IF t[k] = None THEN None ELSE entry[t[k]][v[k]]
      BY <1>7, <3>1
    <3>3. t[k] = w[k]
      BY <2>2
    <3> QED
      BY <1>4, <3>1, <3>2, <3>3
  <2> HIDE DEF H
  <2>3. \A k \in 1 .. Levels : k \in H
    BY <1>n, <2>1, <2>2, UpTo
  <2> QED
    BY <2>3 DEF H
<1>9. Mapping(r, v) = w[Levels + 1]
  <2>1. Mapping(r, v) = IF t[Levels] = None THEN None ELSE entry[t[Levels]][v[Levels]]
    BY DEF Mapping, t
  <2> QED
    BY <1>4, <1>8, <1>n, <2>1
<1> QED
  BY <1>5, <1>8, <1>9 DEF t

\* The recursive definition of the layers has a solution, which are the layers.
LEMMA LayersOf ==
    ASSUME NEW e \in [Frames -> Table], NEW r \in Frames, NEW is \in SUBSET Index
    PROVE  /\ \E d : LayersEq(e, r, is, d)
           /\ \A d : LayersEq(e, r, is, d) => Layers(e, r, is, d)
<1> DEFINE S == SUBSET Frames
           Top == {e[r][i] : i \in is} \ {None}
           Under(X) == {e[g][i] : g \in X, i \in Index} \ {None}
           Eq(d) == d = [k \in 1 .. Levels |-> IF k = 1 THEN Top ELSE Under(d[k - 1])]
           m == Levels - 1
           G == [k \in 1 .. m |-> [X \in S |-> Under(X)]]
<1>n. Levels \in Nat /\ m \in Nat /\ m + 1 = Levels /\ 1 \in 1 .. Levels
  BY Numbers
<1>e. \A x \in Frames, i \in Index : e[x][i] \in Frames \cup {None}
  BY DEF Table
<1>1. Top \in S
  BY <1>e
<1>2. ASSUME NEW X \in S  PROVE Under(X) \in S
  BY <1>e
<1>q. \A d : LayersEq(e, r, is, d) <=> Eq(d)
  BY DEF LayersEq
<1>l. ASSUME NEW d, d \in [1 .. Levels -> S], d[1] = Top,
             \A k \in 1 .. Levels - 1 : d[k + 1] = Under(d[k])
      PROVE  Layers(e, r, is, d)
  BY <1>l DEF Layers
<1> HIDE DEF Top, Under, m
<1>3. Steps(S, m, G)
  BY <1>2 DEF Steps
<1>4. \E d : Eq(d)
  <2>1. PICK w : Follows(S, Top, m, G, w)
    <3> HIDE DEF S, G
    <3> QED
      BY <1>1, <1>n, <1>3, Recursion, Zenon
  <2>2. w \in [1 .. Levels -> S] /\ w[1] = Top
    BY <1>n, <2>1, Zenon DEF Follows
  <2>3. ASSUME NEW k \in 1 .. Levels
        PROVE  w[k] = IF k = 1 THEN Top ELSE Under(w[k - 1])
    <3>1. CASE k = 1
      BY <2>2, <3>1
    <3>2. CASE k # 1
      <4>1. k - 1 \in 1 .. m /\ k - 1 \in 1 .. Levels /\ (k - 1) + 1 = k
        BY <1>n, <3>2
      <4>2. w[k - 1] \in S
        BY <2>2, <4>1
      <4>3. w[(k - 1) + 1] = G[k - 1][w[k - 1]]
        BY <2>1, <4>1 DEF Follows
      <4>4. G[k - 1][w[k - 1]] = Under(w[k - 1])
        BY <4>1, <4>2
      <4> QED
        BY <3>2, <4>1, <4>3, <4>4, Zenon
    <3> QED
      BY <3>1, <3>2
  <2>4. w = [k \in 1 .. Levels |-> w[k]]
    BY <2>2
  <2>5. Eq(w)
    BY <2>3, <2>4
  <2> QED
    BY <2>5
<1>5. ASSUME NEW d, Eq(d)  PROVE Layers(e, r, is, d)
  <2>1. d[1] = Top
    BY <1>n, <1>5
  <2>2. ASSUME NEW k \in 1 .. Levels - 1  PROVE d[k + 1] = Under(d[k])
    <3>1. k + 1 \in 1 .. Levels /\ k + 1 # 1 /\ (k + 1) - 1 = k
      BY <1>n
    <3> QED
      BY <1>5, <3>1
  <2>3. \A k \in 1 .. Levels : d[k] \in S
    <3> DEFINE H == {k \in 1 .. Levels : d[k] \in S}
    <3>1. 1 \in H
      BY <1>1, <1>n, <2>1
    <3>2. ASSUME NEW k \in 1 .. Levels - 1, k \in H  PROVE k + 1 \in H
      <4>1. k + 1 \in 1 .. Levels /\ d[k] \in S
        BY <1>n, <3>2
      <4> QED
        BY <1>2, <2>2, <4>1
    <3> HIDE DEF H
    <3>3. \A k \in 1 .. Levels : k \in H
      BY <1>n, <3>1, <3>2, UpTo
    <3> QED
      BY <3>3 DEF H
  <2>4. d \in [1 .. Levels -> S]
    <3>1. d = [k \in 1 .. Levels |-> d[k]]
      BY <1>5
    <3> QED
      BY <2>3, <3>1
  <2> QED
    BY <1>l, <2>1, <2>2, <2>4
<1> HIDE DEF Eq
<1> QED
  BY <1>4, <1>5, <1>q

\* destroy_user_memory visits the layers, and the frames below a root are the layers
\* without the pages that are only shared.
LEMMA LayersExist == PTypeOK => LayersAre
<1> SUFFICES ASSUME PTypeOK, NEW r \in Frames
             PROVE  /\ Layers(entry, r, UserIndex, Visited(r))
                    /\ \A is \in SUBSET Index : \E D :
                            /\ Layers(held, r, is, D)
                            /\ Below(r, is) = UNION {D[k] : k \in 1 .. Levels}
  BY DEF LayersAre
<1>t. entry \in [Frames -> Table]
  BY DEF PTypeOK
<1>h. held \in [Frames -> Table] /\ \A g \in Frames, i \in Index : held[g][i] = Held(g, i)
  <2>1. \A g \in Frames, i \in Index : Held(g, i) \in Frames \cup {None}
    BY <1>t DEF Held, Table
  <2> QED
    BY <2>1 DEF held, Table
<1>1. Layers(entry, r, UserIndex, Visited(r))
  <2>1. UserIndex \in SUBSET Index
    BY Numbers
  <2>2. Visited(r) = CHOOSE d : LayersEq(entry, r, UserIndex, d)
    BY DEF Visited, LayersEq
  <2>3. PICK e : e = entry
    OBVIOUS
  <2>4. /\ \E d : LayersEq(e, r, UserIndex, d)
        /\ \A d : LayersEq(e, r, UserIndex, d) => Layers(e, r, UserIndex, d)
    BY <1>t, <2>1, <2>3, LayersOf
  <2> QED
    BY <2>2, <2>3, <2>4
<1>2. ASSUME NEW is \in SUBSET Index
      PROVE  \E D : Layers(held, r, is, D) /\ Below(r, is) = UNION {D[k] : k \in 1 .. Levels}
  <2>1. PICK h \in [Frames -> Table] : h = held
    BY <1>h
  <2>2. PICK D : D = CHOOSE d : LayersEq(h, r, is, d)
    OBVIOUS
  <2>3. LayersEq(h, r, is, D) /\ Layers(h, r, is, D)
    BY <2>2, LayersOf
  <2>d. /\ \A k \in 1 .. Levels : D[k] \subseteq Frames
        /\ D[1] = {h[r][i] : i \in is} \ {None}
        /\ \A k \in 1 .. Levels - 1 : D[k + 1] = {h[g][i] : g \in D[k], i \in Index} \ {None}
    BY <2>3 DEF Layers
  <2>e. D = [k \in 1 .. Levels |-> D[k]]
    BY <2>3 DEF Layers
  <2> DEFINE Top == {Held(r, i) : i \in is} \ {None}
             Under(X) == {Held(g, i) : g \in X, i \in Index} \ {None}
             Eq(d) == d = [k \in 1 .. Levels |-> IF k = 1 THEN Top ELSE Under(d[k - 1])]
             B == CHOOSE d : Eq(d)
  <2>n. Levels \in Nat /\ 1 \in 1 .. Levels
    BY Numbers
  <2>t. Top = D[1]
    BY <1>h, <2>1, <2>d
  <2>u. ASSUME NEW k \in 1 .. Levels - 1  PROVE D[k + 1] = Under(D[k])
    <3>1. D[k] \subseteq Frames /\ D[k + 1] = {h[g][i] : g \in D[k], i \in Index} \ {None}
      BY <2>d, <2>n
    <3> QED
      BY <1>h, <2>1, <3>1
  <2>b. Below(r, is) = UNION {B[k] : k \in 1 .. Levels}
    BY DEF Below
  <2> HIDE DEF Top, Under
  <2>5. ASSUME NEW k \in 1 .. Levels
        PROVE  D[k] = IF k = 1 THEN Top ELSE Under(D[k - 1])
    <3>1. CASE k = 1
      BY <2>t, <3>1
    <3>2. CASE k # 1
      <4>1. k - 1 \in 1 .. Levels - 1 /\ (k - 1) + 1 = k
        BY <2>n, <3>2
      <4> QED
        BY <2>u, <3>2, <4>1
    <3> QED
      BY <3>1, <3>2
  <2>6. Eq(D)
    BY <2>5, <2>e
  <2>7. Eq(B)
    <3> HIDE DEF Eq
    <3> QED
      BY <2>6
  <2> HIDE DEF B
  <2>8. \A k \in 1 .. Levels : B[k] = D[k]
    <3> DEFINE H == {k \in 1 .. Levels : B[k] = D[k]}
    <3>1. 1 \in H
      BY <2>5, <2>7, <2>n
    <3>2. ASSUME NEW k \in 1 .. Levels - 1, k \in H  PROVE k + 1 \in H
      <4>1. k + 1 \in 1 .. Levels /\ k + 1 # 1 /\ (k + 1) - 1 = k /\ B[k] = D[k]
        BY <2>n, <3>2
      <4>2. B[k + 1] = Under(B[k])
        BY <2>7, <4>1
      <4> QED
        BY <2>u, <4>1, <4>2
    <3> HIDE DEF H
    <3>3. \A k \in 1 .. Levels : k \in H
      BY <2>n, <3>1, <3>2, UpTo
    <3> QED
      BY <3>3 DEF H
  <2>4. Below(r, is) = UNION {D[k] : k \in 1 .. Levels}
    BY <2>8, <2>b
  <2> QED
    BY <2>1, <2>3, <2>4
<1> QED
  BY <1>1, <1>2

-----------------------------------------------------------------------------
(***************************************************************************)
(* What the owners and depths of a forest say of walks and layers.         *)
(***************************************************************************)

\* Page v lies in the part of the tree of s that is its own.
Own(s, v) == v \in VPages /\ (s \in roots => v[1] \in UserIndex)

\* What the invariant says of the roots and of the range of owners and depths.
LEMMA SpacesOwn ==
    ASSUME PTypeOK, NEW own, NEW dep, Forest(own, dep)
    PROVE  /\ \A s \in Spaces : s \in Frames /\ s # None /\ own[s] = s /\ dep[s] = 0
           /\ \A g \in Frames : /\ own[g] \in Spaces \cup {None}
                                /\ dep[g] \in Nat /\ dep[g] <= Levels
           /\ kernel_pml4 \in Spaces /\ kernel_pml4 \notin roots
           /\ wm \in roots /\ wm \in Spaces /\ wm # kernel_pml4
<1>1. \A s \in Spaces : s \in Frames
  BY Numbers DEF PTypeOK, Spaces
<1>2. \A s \in Spaces : own[s] = s /\ dep[s] = 0
  BY DEF Forest, Owners
<1>3. \A g \in Frames : dep[g] \in 0 .. Levels /\ own[g] \in Spaces \cup {None}
  BY DEF Forest, Owners
<1> QED
  BY <1>1, <1>2, <1>3, Numbers DEF Spaces, PTypeOK

\* An entry of a frame is a frame or None.
LEMMA EntryIs ==
    ASSUME PTypeOK, NEW g \in Frames, NEW i \in Index
    PROVE  entry[g][i] \in Frames \cup {None}
  BY DEF PTypeOK, Table

\* What sys_share_mem has written are entries of the window manager's last tables.
LEMMA LentIs ==
    ASSUME NEW own, NEW dep, Forest(own, dep), NEW g, NEW i, <<g, i>> \in lent
    PROVE  /\ g \in Frames /\ i \in Index /\ own[g] = wm /\ dep[g] = Levels - 1
           /\ entry[g][i] # None
<1>1. PICK h \in Frames, j \in Index : /\ <<g, i>> = <<h, j>> /\ own[h] = wm
                                       /\ dep[h] = Levels - 1 /\ entry[h][j] # None
  BY DEF Forest, Marks
<1> QED
  BY <1>1

\* A walk goes down the tree of its root, one level at a time, unless its end is a
\* page that the window manager shares.
GoesDown(own, dep, s, v, w) ==
    /\ \A k \in 1 .. Levels + 1 :
          w[k] # None /\ (k = Levels + 1 => <<w[Levels], v[Levels]>> \notin lent)
          => w[k] \in Frames /\ own[w[k]] = s /\ dep[w[k]] = k - 1
    /\ \A k \in 1 .. Levels : v[k] \in Index
    /\ \A k \in 1 .. Levels :
          w[k + 1] # None =>
             /\ w[k] # None /\ w[k + 1] = entry[w[k]][v[k]]
             /\ <<w[k], v[k]>> \notin lent => Edge(own, dep, w[k], v[k])
    /\ \A k \in 1 .. Levels :
          w[k] # None /\ <<w[k], v[k]>> \in lent => k = Levels /\ s = wm

\* Every walk does.
LEMMA WalkDown ==
    ASSUME PTypeOK, NEW own, NEW dep, Forest(own, dep),
           NEW s \in Spaces, NEW v, Own(s, v), NEW w, Walk(entry, s, v, w)
    PROVE  GoesDown(own, dep, s, v, w)
<1>n. Levels \in Nat /\ Levels > 1
  BY Numbers
<1>s. s \in Frames /\ s # None /\ own[s] = s /\ dep[s] = 0
  BY SpacesOwn
<1>v. \A k \in 1 .. Levels : v[k] \in Index
  BY DEF Own, VPages
<1>w. /\ w[1] = s /\ \A k \in 1 .. Levels + 1 : w[k] \in Frames \cup {None}
      /\ \A k \in 1 .. Levels : w[k + 1] = IF w[k] = None THEN None ELSE entry[w[k]][v[k]]
  BY DEF Walk
<1> DEFINE Clear == <<w[Levels], v[Levels]>> \notin lent
           In(k) == w[k] # None /\ (k = Levels + 1 => Clear)
                      => w[k] \in Frames /\ own[w[k]] = s /\ dep[w[k]] = k - 1
           H == {k \in 1 .. Levels + 1 : In(k)}
<1>0. ASSUME NEW k \in 1 .. Levels, In(k), w[k] # None, <<w[k], v[k]>> \in lent
      PROVE  k = Levels /\ s = wm
  <2>1. own[w[k]] = s /\ dep[w[k]] = k - 1
    BY <1>0, <1>n
  <2>2. own[w[k]] = wm /\ dep[w[k]] = Levels - 1
    BY <1>0, LentIs
  <2> QED
    BY <1>n, <2>1, <2>2
<1>1. ASSUME NEW k \in 1 .. Levels, In(k), w[k] # None, <<w[k], v[k]>> \notin lent
      PROVE  Edge(own, dep, w[k], v[k])
  <2>1. w[k] \in Frames /\ own[w[k]] = s /\ dep[w[k]] = k - 1
    BY <1>1, <1>n
  <2>2. dep[w[k]] < Levels
    BY <1>n, <2>1
  <2>3. ASSUME w[k] \in roots  PROVE v[k] \in UserIndex
    <3>1. w[k] \in Spaces
      BY <2>3 DEF Spaces
    <3>2. dep[w[k]] = 0 /\ own[w[k]] = w[k]
      BY <3>1, SpacesOwn
    <3>3. k = 1
      BY <2>1, <3>2
    <3> QED
      BY <1>w, <2>3, <3>3 DEF Own
  <2> QED
    BY <1>1, <1>s, <2>1, <2>2, <2>3 DEF Edge
<1>2. 1 \in H
  BY <1>n, <1>s, <1>w
<1>3. ASSUME NEW k \in 1 .. Levels, k \in H  PROVE k + 1 \in H
  <2>1. In(k) /\ k + 1 \in 1 .. Levels + 1 /\ k \in 1 .. Levels + 1
    BY <1>n, <1>3
  <2>2. SUFFICES ASSUME w[k + 1] # None, k + 1 = Levels + 1 => Clear
                 PROVE  w[k + 1] \in Frames /\ own[w[k + 1]] = s /\ dep[w[k + 1]] = (k + 1) - 1
    BY <2>1
  <2>3. w[k] # None /\ w[k + 1] = entry[w[k]][v[k]]
    BY <1>w, <2>2
  <2>c. <<w[k], v[k]>> \notin lent
    <3>1. CASE k = Levels
      BY <2>2, <3>1
    <3>2. CASE k # Levels
      BY <1>0, <2>1, <2>3, <3>2
    <3> QED
      BY <3>1, <3>2
  <2>4. Edge(own, dep, w[k], v[k]) /\ w[k] \in Frames /\ own[w[k]] = s /\ dep[w[k]] = k - 1
    BY <1>1, <1>n, <2>1, <2>3, <2>c
  <2>5. own[w[k + 1]] = own[w[k]] /\ dep[w[k + 1]] = dep[w[k]] + 1
    BY <1>v, <2>2, <2>3, <2>4 DEF Forest, Down
  <2>6. w[k + 1] \in Frames
    BY <1>w, <2>1, <2>2
  <2> QED
    BY <2>4, <2>5, <2>6
<1>4. \A k \in 1 .. Levels + 1 : k \in H
  <2> HIDE DEF H
  <2>1. Levels + 1 \in Nat /\ (Levels + 1) - 1 = Levels
    BY <1>n
  <2> QED
    BY <1>2, <1>3, <2>1, UpTo
<1>5. \A k \in 1 .. Levels + 1 : In(k)
  BY <1>4
<1>i. \A k \in 1 .. Levels : In(k)
  BY <1>5, <1>n
<1> HIDE DEF In
<1>6. ASSUME NEW k \in 1 .. Levels, w[k + 1] # None
      PROVE  /\ w[k] # None /\ w[k + 1] = entry[w[k]][v[k]]
             /\ <<w[k], v[k]>> \notin lent => Edge(own, dep, w[k], v[k])
  <2>1. w[k] # None /\ w[k + 1] = entry[w[k]][v[k]]
    BY <1>w, <1>6
  <2> QED
    BY <1>1, <1>i, <2>1
<1>7. \A k \in 1 .. Levels :
         w[k] # None /\ <<w[k], v[k]>> \in lent => k = Levels /\ s = wm
  BY <1>0, <1>i
<1>8. \A k \in 1 .. Levels + 1 :
         w[k] # None /\ (k = Levels + 1 => <<w[Levels], v[Levels]>> \notin lent)
         => w[k] \in Frames /\ own[w[k]] = s /\ dep[w[k]] = k - 1
  BY <1>5 DEF In
<1> QED
  BY <1>6, <1>7, <1>8, <1>v DEF GoesDown

\* Two pages of a space whose walks meet at a table have gone the same way.
LEMMA WalksPart ==
    ASSUME PTypeOK, NEW own, NEW dep, Forest(own, dep), NEW s \in Spaces,
           NEW v, Own(s, v), NEW w, Walk(entry, s, v, w),
           NEW y, Own(s, y), NEW u, Walk(entry, s, y, u)
    PROVE  \A k \in 1 .. Levels :
              w[k] # None /\ w[k] = u[k] => \A j \in 1 .. k - 1 : v[j] = y[j]
<1>n. Levels \in Nat /\ Levels > 1
  BY Numbers
<1>d. GoesDown(own, dep, s, v, w) /\ GoesDown(own, dep, s, y, u)
  BY WalkDown
<1> DEFINE H == {k \in 1 .. Levels :
                    w[k] # None /\ w[k] = u[k] => \A j \in 1 .. k - 1 : v[j] = y[j]}
<1>1. 1 \in H
  BY <1>n
<1>2. ASSUME NEW k \in 1 .. Levels - 1, k \in H  PROVE k + 1 \in H
  <2>1. /\ k + 1 \in 1 .. Levels /\ k \in 1 .. Levels /\ (k + 1) - 1 = k /\ k # Levels
        /\ k \in 1 .. Levels + 1 /\ k # Levels + 1
    BY <1>n
  <2>2. SUFFICES ASSUME w[k + 1] # None, w[k + 1] = u[k + 1], NEW j \in 1 .. k
                 PROVE  v[j] = y[j]
    BY <2>1
  <2>3. /\ w[k] # None /\ w[k + 1] = entry[w[k]][v[k]] /\ Edge(own, dep, w[k], v[k])
        /\ w[k] \in Frames /\ v[k] \in Index
    BY <1>d, <2>1, <2>2 DEF GoesDown
  <2>4. /\ u[k] # None /\ u[k + 1] = entry[u[k]][y[k]] /\ Edge(own, dep, u[k], y[k])
        /\ u[k] \in Frames /\ y[k] \in Index
    BY <1>d, <2>1, <2>2 DEF GoesDown
  <2>5. w[k] = u[k] /\ v[k] = y[k]
    BY <2>2, <2>3, <2>4 DEF Forest, Once
  <2>6. \A i \in 1 .. k - 1 : v[i] = y[i]
    BY <1>2, <2>3, <2>5
  <2> QED
    BY <2>5, <2>6
<1>3. \A k \in 1 .. Levels : k \in H
  <2> HIDE DEF H
  <2> QED
    BY <1>1, <1>2, <1>n, UpTo
<1> QED
  BY <1>3

\* D are the layers below s in tables e that have, of what s owns, all entries but
\* those for pages that are only shared.
LayersFor(own, s, is, D) == \E e :
    /\ \A g \in Frames, i \in Index : own[g] = s => e[g][i] = Held(g, i)
    /\ Layers(e, s, is, D)

\* The layers below a root are the frames it owns, by depth.
LEMMA LayersOwn ==
    ASSUME PTypeOK, NEW own, NEW dep, Forest(own, dep), NEW s \in Spaces,
           NEW is \in SUBSET Index, s \in roots => is = UserIndex,
           s = kernel_pml4 => is = Index, NEW D, LayersFor(own, s, is, D)
    PROVE  \A k \in 1 .. Levels : D[k] = {g \in Frames : own[g] = s /\ dep[g] = k}
<1>n. Levels \in Nat /\ Levels > 1
  BY Numbers
<1>s. s \in Frames /\ s # None /\ own[s] = s /\ dep[s] = 0
  BY SpacesOwn
<1>0. PICK e : /\ \A g \in Frames, i \in Index : own[g] = s => e[g][i] = Held(g, i)
               /\ Layers(e, s, is, D)
  BY DEF LayersFor
<1>d. /\ \A k \in 1 .. Levels : D[k] \in SUBSET Frames
      /\ D[1] = {e[s][i] : i \in is} \ {None}
      /\ \A k \in 1 .. Levels - 1 : D[k + 1] = {e[g][i] : g \in D[k], i \in Index} \ {None}
  BY <1>0 DEF Layers
<1>h. ASSUME NEW g \in Frames, NEW i \in Index, own[g] = s
      PROVE  e[g][i] = IF <<g, i>> \in lent THEN None ELSE entry[g][i]
  BY <1>0, <1>h DEF Held
<1>e. \A i \in Index : Edge(own, dep, s, i) <=> i \in is
  <2>1. s \in roots \/ s = kernel_pml4
    BY DEF Spaces
  <2>2. kernel_pml4 \notin roots
    BY SpacesOwn
  <2> QED
    <3>1. ASSUME NEW i \in Index, <<s, i>> \in lent  PROVE FALSE
      <4>1. dep[s] = Levels - 1
        BY <3>1, LentIs
      <4> QED
        BY <1>n, <1>s, <4>1
    <3> QED
      BY <1>n, <1>s, <2>1, <2>2, <3>1 DEF Edge
\* A frame with an owner, k + 1 levels down, hangs on one k levels down.
<1>u. ASSUME NEW k \in 0 .. Levels - 1, NEW x \in Frames, own[x] = s, dep[x] = k + 1
      PROVE  \E g \in Frames, i \in Index :
                Edge(own, dep, g, i) /\ entry[g][i] = x /\ own[g] = s /\ dep[g] = k
  <2>1. own[x] # None /\ x \notin Spaces
    <3>1. x \in Spaces => dep[x] = 0
      BY SpacesOwn
    <3> QED
      BY <1>s, <1>u, <3>1
  <2>2. PICK g \in Frames, i \in Index : Edge(own, dep, g, i) /\ entry[g][i] = x
    BY <2>1 DEF Forest, Reached
  <2>3. x # None
    BY Numbers
  <2>4. own[x] = own[g] /\ dep[x] = dep[g] + 1
    BY <2>2, <2>3 DEF Forest, Down
  <2>5. dep[g] \in Nat
    BY SpacesOwn
  <2>6. own[g] = s /\ dep[g] = k
    BY <1>u, <2>4, <2>5
  <2> QED
    BY <2>2, <2>6
<1> DEFINE Is(k) == D[k] = {g \in Frames : own[g] = s /\ dep[g] = k}
           H == {k \in 1 .. Levels : Is(k)}
<1>1. 1 \in H
  <2>1. ASSUME NEW x \in D[1]  PROVE x \in Frames /\ own[x] = s /\ dep[x] = 1
    <3>1. PICK i \in is : x = entry[s][i] /\ x # None
      <4>1. PICK i \in is : x = e[s][i] /\ x # None
        BY <1>d, <2>1
      <4>2. x = entry[s][i]
        BY <1>h, <1>s, <4>1
      <4> QED
        BY <4>1, <4>2
    <3>2. Edge(own, dep, s, i) /\ i \in Index
      BY <1>e, <3>1
    <3>3. own[x] = own[s] /\ dep[x] = dep[s] + 1
      BY <1>s, <3>1, <3>2 DEF Forest, Down
    <3>4. x \in Frames
      BY <1>s, <3>1, <3>2, EntryIs
    <3> QED
      BY <1>s, <3>3, <3>4
  <2>2. ASSUME NEW x \in Frames, own[x] = s, dep[x] = 1  PROVE x \in D[1]
    <3>1. 0 \in 0 .. Levels - 1 /\ dep[x] = 0 + 1
      BY <1>n, <2>2
    <3>2. PICK g \in Frames, i \in Index :
                Edge(own, dep, g, i) /\ entry[g][i] = x /\ own[g] = s /\ dep[g] = 0
      BY <1>u, <2>2, <3>1
    <3>3. g \in Spaces
      BY <1>s, <3>2 DEF Forest, Owners
    <3>4. g = s
      BY <3>2, <3>3, SpacesOwn
    <3>5. i \in is /\ x # None
      BY <1>e, <3>2, <3>4, Numbers
    <3>6. e[s][i] = x
      BY <1>h, <1>s, <3>2, <3>4 DEF Edge
    <3> QED
      BY <1>d, <3>5, <3>6
  <2> QED
    BY <1>n, <2>1, <2>2
<1>2. ASSUME NEW k \in 1 .. Levels - 1, k \in H  PROVE k + 1 \in H
  <2>1. Is(k) /\ k \in 1 .. Levels /\ k + 1 \in 1 .. Levels
    BY <1>n, <1>2
  <2>2. D[k + 1] = {e[g][i] : g \in D[k], i \in Index} \ {None}
    BY <1>d
  <2>3. ASSUME NEW g \in D[k], NEW i \in Index, <<g, i>> \notin lent
        PROVE  Edge(own, dep, g, i)
    <3>1. g \in Frames /\ own[g] = s /\ dep[g] = k
      BY <2>1
    <3>2. g \notin roots
      <4>1. g \in roots => dep[g] = 0
        BY SpacesOwn DEF Spaces
      <4> QED
        BY <1>n, <3>1, <4>1
    <3>3. k < Levels
      BY <1>n
    <3> QED
      BY <1>s, <2>3, <3>1, <3>2, <3>3 DEF Edge
  <2>4. ASSUME NEW x \in D[k + 1]  PROVE x \in Frames /\ own[x] = s /\ dep[x] = k + 1
    <3>0. PICK g \in D[k], i \in Index : x = e[g][i] /\ x # None
      BY <2>2
    <3>2. g \in Frames /\ own[g] = s /\ dep[g] = k
      BY <2>1
    <3>1. x = entry[g][i] /\ x # None /\ <<g, i>> \notin lent
      BY <1>h, <3>0, <3>2
    <3>3. own[x] = own[g] /\ dep[x] = dep[g] + 1
      BY <2>3, <3>1, <3>2 DEF Forest, Down
    <3>4. x \in Frames
      BY <3>1, <3>2, EntryIs
    <3> QED
      BY <3>2, <3>3, <3>4
  <2>5. ASSUME NEW x \in Frames, own[x] = s, dep[x] = k + 1  PROVE x \in D[k + 1]
    <3>1. k \in 0 .. Levels - 1
      BY <1>n
    <3>2. PICK g \in Frames, i \in Index :
                Edge(own, dep, g, i) /\ entry[g][i] = x /\ own[g] = s /\ dep[g] = k
      BY <1>u, <2>5, <3>1
    <3>3. g \in D[k] /\ x # None
      BY <2>1, <3>2, Numbers
    <3>4. e[g][i] = x
      BY <1>h, <3>2 DEF Edge
    <3> QED
      BY <2>2, <3>2, <3>3, <3>4
  <2>6. D[k + 1] = {g \in Frames : own[g] = s /\ dep[g] = k + 1}
    BY <2>4, <2>5
  <2> QED
    BY <2>1, <2>6
<1>3. \A k \in 1 .. Levels : k \in H
  <2> HIDE DEF H
  <2> QED
    BY <1>n, <1>1, <1>2, UpTo
<1> QED
  BY <1>3

\* The frames of a process and of the kernel are those they own.
LEMMA FramesOwn ==
    ASSUME PTypeOK, NEW own, NEW dep, Forest(own, dep)
    PROVE  /\ \A r \in roots : UserFrames(r) = {g \in Frames : own[g] = r}
           /\ KernelFrames = {g \in Frames : own[g] = kernel_pml4}
<1>1. ASSUME NEW s \in Spaces, NEW is \in SUBSET Index, s \in roots => is = UserIndex,
             s = kernel_pml4 => is = Index
      PROVE  {s} \cup Below(s, is) = {g \in Frames : own[g] = s}
  <2>1. s \in Frames /\ s # None /\ own[s] = s /\ dep[s] = 0
    BY SpacesOwn
  <2>2. PICK D : Layers(held, s, is, D) /\ Below(s, is) = UNION {D[k] : k \in 1 .. Levels}
    BY <2>1, LayersExist DEF LayersAre
  <2>3. \A k \in 1 .. Levels : D[k] = {g \in Frames : own[g] = s /\ dep[g] = k}
    <3>1. \A g \in Frames, i \in Index : own[g] = s => held[g][i] = Held(g, i)
      BY DEF held
    <3>2. LayersFor(own, s, is, D)
      BY <2>2, <3>1 DEF LayersFor
    <3> QED
      BY <1>1, <3>2, LayersOwn
  <2>4. ASSUME NEW g \in Frames, own[g] = s, g # s  PROVE g \in Below(s, is)
    <3>1. dep[g] \in Nat /\ dep[g] <= Levels
      BY SpacesOwn
    <3>2. dep[g] # 0
      <4>1. ASSUME dep[g] = 0  PROVE FALSE
        <5>1. g \in Spaces
          BY <2>1, <2>4, <4>1 DEF Forest, Owners
        <5> QED
          BY <2>4, <5>1, SpacesOwn
      <4> QED
        BY <4>1
    <3>3. dep[g] \in 1 .. Levels
      BY <3>1, <3>2, Numbers
    <3>4. g \in D[dep[g]]
      BY <2>3, <2>4, <3>3
    <3> QED
      BY <2>2, <3>3, <3>4
  <2>5. ASSUME NEW g \in Below(s, is)  PROVE g \in Frames /\ own[g] = s
    <3>1. PICK k \in 1 .. Levels : g \in D[k]
      BY <2>2
    <3> QED
      BY <2>3, <3>1
  <2> QED
    BY <2>1, <2>4, <2>5
<1>2. UserIndex \in SUBSET Index /\ kernel_pml4 \in Spaces /\ kernel_pml4 \notin roots
  BY Numbers, SpacesOwn
<1>3. ASSUME NEW r \in roots  PROVE UserFrames(r) = {g \in Frames : own[g] = r}
  <2>1. r \in Spaces /\ r # kernel_pml4
    BY <1>2 DEF Spaces
  <2> QED
    BY <1>1, <1>2, <2>1 DEF UserFrames
<1>4. KernelFrames = {g \in Frames : own[g] = kernel_pml4}
  BY <1>1, <1>2 DEF KernelFrames
<1> QED
  BY <1>3, <1>4

\* The inductive invariant implies that the trees are disjoint.
LEMMA ForestDisjoint == TreeInv => TreesDisjoint
<1> SUFFICES ASSUME TreeInv  PROVE TreesDisjoint
  OBVIOUS
<1>1. PTypeOK /\ KernelHalf
  BY DEF TreeInv
<1>2. PICK own, dep : Forest(own, dep)
  BY DEF TreeInv
<1>3. /\ \A r \in roots : UserFrames(r) = {g \in Frames : own[g] = r}
      /\ KernelFrames = {g \in Frames : own[g] = kernel_pml4}
  BY <1>1, <1>2, FramesOwn
<1>4. \A g \in free : own[g] = None
  BY <1>2 DEF Forest, Owners
<1>5. \A s \in Spaces : s \in Frames /\ s # None /\ own[s] = s /\ dep[s] = 0
  BY <1>1, <1>2, SpacesOwn
<1>6. kernel_pml4 \in Spaces /\ kernel_pml4 \notin roots /\ roots \subseteq Spaces
  BY <1>1, <1>2, SpacesOwn DEF Spaces
<1>7. OwnersDisjoint
  BY <1>3, <1>4, <1>5, <1>6 DEF OwnersDisjoint
<1>8. ASSUME NEW r \in roots, NEW g \in Frames, NEW i \in Index, own[g] = r,
             Held(g, i) # None, own[Held(g, i)] = r
      PROVE  Edge(own, dep, g, i) /\ Held(g, i) = entry[g][i]
  <2>0. Held(g, i) = entry[g][i] /\ <<g, i>> \notin lent
    BY <1>8 DEF Held
  <2>1. r # kernel_pml4 /\ r # None
    BY <1>5, <1>6
  <2>2. dep[g] # Levels
    BY <1>2, <1>8, <2>0, <2>1 DEF Forest, Stale
  <2>3. dep[g] \in Nat /\ dep[g] <= Levels
    BY <1>1, <1>2, SpacesOwn
  <2>4. dep[g] < Levels
    BY <2>2, <2>3, Numbers
  <2>5. ASSUME g \in roots, i \notin UserIndex  PROVE FALSE
    <3>1. entry[g][i] = entry[kernel_pml4][i]
      BY <1>1, <2>5 DEF KernelHalf
    <3>2. Edge(own, dep, kernel_pml4, i)
      <4>1. <<kernel_pml4, i>> \notin lent
        <5>1. <<kernel_pml4, i>> \in lent => own[kernel_pml4] = wm
          BY <1>2, LentIs
        <5> QED
          BY <1>5, <1>6, <5>1, Numbers
      <4> QED
        BY <1>5, <1>6, <4>1, Numbers DEF Edge
    <3>3. own[entry[kernel_pml4][i]] = kernel_pml4
      BY <1>2, <1>5, <1>6, <1>8, <2>0, <3>1, <3>2 DEF Forest, Down
    <3> QED
      BY <1>8, <2>0, <2>1, <3>1, <3>3
  <2> QED
    BY <1>8, <2>0, <2>1, <2>4, <2>5 DEF Edge
<1>9. ReachedOnce
  <2> SUFFICES ASSUME NEW r \in roots, NEW g \in UserFrames(r), NEW h \in UserFrames(r),
                      NEW i \in Index, NEW j \in Index,
                      Held(g, i) # None, Held(g, i) = Held(h, j),
                      Held(g, i) \in UserFrames(r)
               PROVE  g = h /\ i = j
    BY DEF ReachedOnce
  <2>1. /\ g \in Frames /\ own[g] = r /\ h \in Frames /\ own[h] = r
        /\ own[Held(g, i)] = r
    BY <1>3
  <2>2. /\ Edge(own, dep, g, i) /\ Held(g, i) = entry[g][i]
        /\ Edge(own, dep, h, j) /\ Held(h, j) = entry[h][j]
    BY <1>8, <2>1
  <2> QED
    BY <1>2, <2>1, <2>2 DEF Forest, Once
<1> QED
  BY <1>7, <1>9 DEF TreesDisjoint

-----------------------------------------------------------------------------
(***************************************************************************)
(* Each step keeps the forest.                                             *)
(***************************************************************************)

\* The least of some frames or indices is one of them.
LEMMA MinIs ==
    ASSUME NEW T, T \subseteq Nat, T # {}
    PROVE  Min(T) \in T
<1>1. PICK x \in T : \A y \in T : x <= y
  BY LeastNat
<1> QED
  BY <1>1 DEF Min

\* The chain of tables that heap_init leaves is a tree of the kernel, and the window
\* manager starts with a root and nothing below it.
LEMMA InitTree == Init => TreeInv
<1> SUFFICES ASSUME Init  PROVE TreeInv
  OBVIOUS
<1> DEFINE own == [g \in Frames |-> IF g <= Levels + 1 THEN kernel_pml4
                                    ELSE IF g = wm THEN wm ELSE None]
           dep == [g \in Frames |-> IF g <= Levels + 1 THEN g - 1 ELSE 0]
           a == Min(Index)
<1>c. /\ NumFrames \in Nat /\ Levels \in Nat /\ 2 <= Levels /\ Levels + 2 <= NumFrames
      /\ Index \subseteq Nat /\ UserIndex \subseteq Index /\ HeapIndex \in Index \ UserIndex
  BY PageTablesConstants
<1>a. a \in Index
  BY <1>c, MinIs
<1> HIDE DEF a
<1>0. /\ entry = [g \in Frames |-> [i \in Index |->
                     IF g \in {kernel_pml4, wm} /\ i = HeapIndex THEN 2
                     ELSE IF g \in 2 .. Levels /\ i = a THEN g + 1
                     ELSE None]]
      /\ roots = {wm} /\ free = Levels + 3 .. NumFrames /\ share = {} /\ lent = {}
  BY DEF Init, a
<1>1. \A g \in Frames, i \in Index :
         entry[g][i] = IF (g = 1 \/ g = Levels + 2) /\ i = HeapIndex THEN 2
                       ELSE IF g \in 2 .. Levels /\ i = a THEN g + 1 ELSE 0
  BY <1>0 DEF kernel_pml4, wm, None
<1>2. PTypeOK
  <2>1. ASSUME NEW g \in Frames, NEW i \in Index
        PROVE  (IF g \in {kernel_pml4, wm} /\ i = HeapIndex THEN 2
                ELSE IF g \in 2 .. Levels /\ i = a THEN g + 1
                ELSE None) \in Frames \cup {None}
    BY <1>c DEF Frames, kernel_pml4
  <2>2. entry \in [Frames -> Table]
    BY <1>0, <2>1 DEF Table
  <2>3. free \subseteq Frames /\ wm \in Frames /\ wm # kernel_pml4
    BY <1>0, <1>c, Numbers DEF Frames
  <2> QED
    BY <1>0, <2>2, <2>3 DEF PTypeOK
<1>6. Spaces = {1, Levels + 2} /\ None = 0 /\ kernel_pml4 = 1 /\ wm = Levels + 2
  BY <1>0 DEF Spaces, kernel_pml4, None, wm
<1>f. \A g : g \in Frames <=> g \in Nat /\ 1 <= g /\ g <= NumFrames
  BY <1>c DEF Frames
<1>3. KernelHalf
  BY <1>0, <1>1, <1>6, <1>c, <1>f DEF KernelHalf
<1>4. \A g \in Frames : /\ own[g] = IF g <= Levels + 1 THEN 1
                                    ELSE IF g = Levels + 2 THEN Levels + 2 ELSE 0
                        /\ dep[g] = IF g <= Levels + 1 THEN g - 1 ELSE 0
  BY DEF kernel_pml4, None, wm
<1>5. own \in [Frames -> Spaces \cup {None}] /\ dep \in [Frames -> 0 .. Levels]
  <2>1. \A g \in Frames : (IF g <= Levels + 1 THEN g - 1 ELSE 0) \in 0 .. Levels
    BY <1>c DEF Frames
  <2>2. kernel_pml4 \in Spaces /\ wm \in Spaces
    BY <1>0 DEF Spaces
  <2> QED
    BY <2>1, <2>2
<1> HIDE DEF own, dep
<1>7. \A g \in Frames, i \in Index :
         Edge(own, dep, g, i) <=> g <= Levels \/ (g = Levels + 2 /\ i \in UserIndex)
  BY <1>0, <1>4, <1>6, <1>c, <1>f DEF Edge
<1>8. \A g \in Frames, i \in Index :
          entry[g][i] # None =>
              \/ g <= Levels /\ entry[g][i] = g + 1 /\ i = IF g = 1 THEN HeapIndex ELSE a
              \/ g = Levels + 2 /\ i = HeapIndex /\ entry[g][i] = 2
  <2> SUFFICES ASSUME NEW g \in Frames, NEW i \in Index, entry[g][i] # None
               PROVE  \/ /\ g <= Levels /\ entry[g][i] = g + 1
                         /\ i = IF g = 1 THEN HeapIndex ELSE a
                      \/ g = Levels + 2 /\ i = HeapIndex /\ entry[g][i] = 2
    OBVIOUS
  <2>1. entry[g][i] # 0 /\ g \in Nat /\ 1 <= g
    BY <1>6, <1>f
  <2>2. entry[g][i] = IF (g = 1 \/ g = Levels + 2) /\ i = HeapIndex THEN 2
                      ELSE IF g \in 2 .. Levels /\ i = a THEN g + 1 ELSE 0
    BY <1>1
  <2>3. CASE (g = 1 \/ g = Levels + 2) /\ i = HeapIndex
    BY <1>c, <2>2, <2>3
  <2>4. CASE g \in 2 .. Levels /\ i = a /\ ~ ((g = 1 \/ g = Levels + 2) /\ i = HeapIndex)
    BY <1>c, <2>2, <2>4
  <2> QED
    BY <2>1, <2>2, <2>3, <2>4
<1>e. \A g \in Frames, i \in Index :
          Edge(own, dep, g, i) /\ entry[g][i] # None =>
              g <= Levels /\ entry[g][i] = g + 1 /\ i = IF g = 1 THEN HeapIndex ELSE a
  BY <1>7, <1>8, <1>c, <1>f
<1>9. Owners(own, dep)
  <2>1. /\ 1 \in Frames /\ own[1] = 1 /\ dep[1] = 0
        /\ Levels + 2 \in Frames /\ own[Levels + 2] = Levels + 2 /\ dep[Levels + 2] = 0
    BY <1>4, <1>c, <1>f
  <2>2. \A s \in Spaces : own[s] = s /\ dep[s] = 0
    BY <1>6, <2>1
  <2>3. ASSUME NEW g \in Frames, own[g] # None, dep[g] = 0  PROVE g \in Spaces
    BY <1>4, <1>6, <1>c, <1>f, <2>3
  <2>4. ASSUME NEW g \in free  PROVE own[g] = None
    <3>1. g \in Frames /\ ~ (g <= Levels + 1) /\ g # Levels + 2
      BY <1>0, <1>c, <1>f, <2>4
    <3> QED
      BY <1>4, <1>6, <3>1
  <2> QED
    BY <1>5, <2>2, <2>3, <2>4 DEF Owners
<1>10. Down(own, dep)
  <2> SUFFICES ASSUME NEW g \in Frames, NEW i \in Index, Edge(own, dep, g, i),
                      entry[g][i] # None
               PROVE  own[entry[g][i]] = own[g] /\ dep[entry[g][i]] = dep[g] + 1
    BY DEF Down
  <2>1. g <= Levels /\ entry[g][i] = g + 1
    BY <1>e
  <2>2. g + 1 \in Frames /\ g + 1 <= Levels + 1 /\ g <= Levels + 1
    BY <1>c, <1>f, <2>1
  <2>3. own[g + 1] = 1 /\ own[g] = 1 /\ dep[g + 1] = (g + 1) - 1 /\ dep[g] = g - 1
    BY <1>4, <2>2
  <2> QED
    BY <1>f, <2>1, <2>3
<1>11. Once(own, dep)
  BY <1>e, <1>f DEF Once
<1>12. Reached(own, dep)
  <2> SUFFICES ASSUME NEW x \in Frames, own[x] # None, x \notin Spaces
               PROVE  \E g \in Frames, i \in Index :
                         Edge(own, dep, g, i) /\ entry[g][i] = x
    BY DEF Reached
  <2> DEFINE g == x - 1
             i == IF g = 1 THEN HeapIndex ELSE a
  <2>1. x <= Levels + 1 /\ x # 1
    BY <1>4, <1>6
  <2>2. g \in Frames /\ g <= Levels /\ (g = 1 \/ g \in 2 .. Levels) /\ g + 1 = x
    BY <1>c, <1>f, <2>1
  <2>3. i \in Index
    BY <1>a, <1>c
  <2>4. entry[g][i] = x
    <3>1. entry[g][i] = IF (g = 1 \/ g = Levels + 2) /\ i = HeapIndex THEN 2
                        ELSE IF g \in 2 .. Levels /\ i = a THEN g + 1 ELSE 0
      BY <1>1, <2>2, <2>3
    <3>2. CASE g = 1
      BY <2>2, <3>1, <3>2
    <3>3. CASE g # 1
      BY <1>c, <2>2, <3>1, <3>3
    <3> QED
      BY <3>2, <3>3
  <2> HIDE DEF g, i
  <2>5. Edge(own, dep, g, i)
    BY <1>7, <2>2, <2>3
  <2> QED
    BY <2>2, <2>3, <2>4, <2>5
<1>13. Stale(own, dep)
  <2> SUFFICES ASSUME NEW g \in Frames, NEW i \in Index, own[g] = None \/ dep[g] = Levels,
                      entry[g][i] # None
               PROVE  FALSE
    BY DEF Stale
  <2>1. g <= Levels \/ g = Levels + 2
    BY <1>8
  <2> QED
    BY <1>4, <1>6, <1>c, <1>f, <2>1
<1>15. Marks(own, dep) /\ Shares(own)
  BY <1>0 DEF Marks, Shares
<1>14. Forest(own, dep)
  BY <1>9, <1>10, <1>11, <1>12, <1>13, <1>15 DEF Forest
<1> QED
  BY <1>2, <1>3, <1>14 DEF TreeInv

\* No entry of a root is for a shared page.
LEMMA RootsClear ==
    ASSUME PTypeOK, NEW own, NEW dep, Forest(own, dep), NEW s \in Spaces, NEW i
    PROVE  <<s, i>> \notin lent
<1>1. dep[s] = 0 /\ Levels - 1 # 0
  BY SpacesOwn, Numbers
<1>2. <<s, i>> \in lent => dep[s] = Levels - 1
  BY LentIs
<1> QED
  BY <1>1, <1>2

\* Whatever a frame holds, read as a table, leads to a frame that has an owner, unless
\* it is for a shared page.
LEMMA Targets ==
    ASSUME PTypeOK, KernelHalf, NEW own, NEW dep, Forest(own, dep),
           NEW g \in Frames, NEW i \in Index, entry[g][i] # None,
           <<g, i>> \notin lent
    PROVE  /\ entry[g][i] \in Frames
           /\ own[entry[g][i]] # None
           /\ ~ Edge(own, dep, g, i) => own[entry[g][i]] = kernel_pml4
           /\ Edge(own, dep, g, i) => own[entry[g][i]] = own[g] /\ own[g] # None
<1>1. entry[g][i] \in Frames
  BY EntryIs
<1>s. /\ \A s \in Spaces : s \in Frames /\ s # None /\ own[s] = s /\ dep[s] = 0
      /\ kernel_pml4 \in Spaces /\ kernel_pml4 \notin roots
      /\ dep[g] \in Nat /\ dep[g] <= Levels
  BY SpacesOwn
<1>2. CASE Edge(own, dep, g, i)
  BY <1>1, <1>2 DEF Forest, Down, Edge
<1>3. CASE own[g] = None \/ dep[g] = Levels
  <2>1. own[entry[g][i]] = kernel_pml4
    BY <1>3 DEF Forest, Stale
  <2>2. ~ Edge(own, dep, g, i)
    BY <1>3, Numbers DEF Edge
  <2> QED
    BY <1>1, <2>1, <2>2, Numbers
<1>4. CASE g \in roots /\ i \notin UserIndex
  <2>1. entry[g][i] = entry[kernel_pml4][i]
    BY <1>4 DEF KernelHalf
  <2>2. Edge(own, dep, kernel_pml4, i)
    BY <1>s, RootsClear, Numbers DEF Edge
  <2>3. own[entry[kernel_pml4][i]] = own[kernel_pml4]
    BY <1>s, <2>1, <2>2 DEF Forest, Down
  <2>4. ~ Edge(own, dep, g, i)
    BY <1>4 DEF Edge
  <2> QED
    BY <1>1, <1>s, <2>1, <2>3, <2>4
<1>5. own[g] # None /\ dep[g] # Levels /\ ~ (g \in roots /\ i \notin UserIndex)
        => Edge(own, dep, g, i)
  <2>1. dep[g] # Levels => dep[g] < Levels
    BY <1>s, Numbers
  <2> QED
    BY <2>1 DEF Edge
<1> QED
  BY <1>2, <1>3, <1>4, <1>5

\* A new root takes a free frame, and with it the kernel's entries.
LEMMA CreateForest ==
    ASSUME PTypeOK, KernelHalf, NEW own, NEW dep, Forest(own, dep), NEW r \in free,
           entry' = [entry EXCEPT ![r] = CopiedRoot(r)],
           roots' = roots \cup {r}, free' = free \ {r}, lent' = lent, share' = {}
    PROVE  TreeInv'
<1> PICK o : o = [g \in Frames |-> IF g = r THEN r ELSE own[g]]
  OBVIOUS
<1> PICK d : d = [g \in Frames |-> IF g = r THEN 0 ELSE dep[g]]
  OBVIOUS
<1>s. /\ \A s \in Spaces : s \in Frames /\ s # None /\ own[s] = s /\ dep[s] = 0
      /\ kernel_pml4 \in Spaces /\ kernel_pml4 \notin roots /\ kernel_pml4 \in Frames
      /\ wm \in Spaces
      /\ \A g \in Frames : own[g] \in Spaces \cup {None} /\ dep[g] \in 0 .. Levels
  <2>1. \A g \in Frames : own[g] \in Spaces \cup {None} /\ dep[g] \in 0 .. Levels
    BY DEF Forest, Owners
  <2> QED
    BY <2>1, SpacesOwn
<1>r. r \in Frames /\ own[r] = None /\ r \notin Spaces /\ r # kernel_pml4 /\ r # None
  <2>1. r \in Frames /\ own[r] = None
    BY DEF PTypeOK, Forest, Owners
  <2> QED
    BY <1>s, <2>1, Numbers
<1>t. /\ entry \in [Frames -> Table] /\ UserIndex \subseteq Index /\ HeapIndex \in Index \ UserIndex
      /\ \A g \in Frames, i \in Index : entry[g][i] \in Frames \cup {None}
  BY Numbers DEF PTypeOK, Table
<1>1. /\ \A g \in Frames \ {r} : entry'[g] = entry[g]
      /\ \A i \in Index : entry'[r][i] = IF i \in UserIndex THEN None ELSE entry[kernel_pml4][i]
      /\ entry' \in [Frames -> Table]
  <2>1. CopiedRoot(r) \in Table
    BY <1>s, <1>t DEF CopiedRoot, Table
  <2> QED
    BY <1>r, <1>t, <2>1 DEF CopiedRoot
<1>n. Levels \in Nat /\ Levels - 1 # Levels
  BY Numbers
<1>2. PTypeOK'
  BY <1>1, <1>r DEF PTypeOK
<1>3. Spaces' = Spaces \cup {r}
  BY DEF Spaces
<1>4. KernelHalf'
  <2>1. entry'[kernel_pml4] = entry[kernel_pml4]
    BY <1>1, <1>r, <1>s
  <2>2. ASSUME NEW q \in roots', NEW i \in Index \ UserIndex
        PROVE  entry'[q][i] = entry'[kernel_pml4][i]
    <3>1. CASE q = r
      BY <1>1, <2>1, <3>1
    <3>2. CASE q # r
      <4>1. q \in roots /\ q \in Frames
        BY <1>s, <3>2 DEF Spaces
      <4> QED
        BY <1>1, <2>1, <3>2, <4>1 DEF KernelHalf
    <3> QED
      BY <3>1, <3>2
  <2> QED
    BY <2>1, <2>2 DEF KernelHalf
<1>o. \A g \in Frames : /\ o[g] = IF g = r THEN r ELSE own[g]
                        /\ d[g] = IF g = r THEN 0 ELSE dep[g]
  OBVIOUS
<1>5. Owners(o, d)'
  <2>1. o \in [Frames -> Spaces' \cup {None}] /\ d \in [Frames -> 0 .. Levels]
    BY <1>3, <1>s, Numbers
  <2>2. \A s \in Spaces' : o[s] = s /\ d[s] = 0
    BY <1>3, <1>o, <1>r, <1>s
  <2>3. \A g \in Frames : o[g] # None /\ d[g] = 0 => g \in Spaces'
    BY <1>3, <1>o DEF Forest, Owners
  <2>4. \A g \in free' : o[g] = None
    BY <1>o DEF Forest, Owners, PTypeOK
  <2> QED
    BY <2>1, <2>2, <2>3, <2>4 DEF Owners
<1>l. ASSUME NEW i  PROVE <<r, i>> \notin lent
  <2>1. <<r, i>> \in lent => own[r] = wm
    BY LentIs
  <2> QED
    BY <1>r, <1>s, <2>1
\* The entries of the trees are those there were.
<1>6. ASSUME NEW g \in Frames, NEW i \in Index, entry'[g][i] # None, <<g, i>> \notin lent
      PROVE  /\ g # r => entry'[g][i] = entry[g][i]
             /\ g # r => (Edge(o, d, g, i)' <=> Edge(own, dep, g, i))
             /\ g = r => ~ Edge(o, d, g, i)' /\ own[entry'[g][i]] = kernel_pml4
             /\ entry'[g][i] \in Frames /\ entry'[g][i] # r
  <2>1. CASE g # r
    <3>1. entry'[g][i] = entry[g][i]
      BY <1>1, <2>1
    <3>2. Edge(o, d, g, i)' <=> Edge(own, dep, g, i)
      BY <1>o, <2>1 DEF Edge
    <3>3. entry[g][i] \in Frames /\ own[entry[g][i]] # None
      BY <1>6, <3>1, Targets
    <3> QED
      BY <1>r, <2>1, <3>1, <3>2, <3>3
  <2>2. CASE g = r
    <3>1. i \notin UserIndex /\ entry'[g][i] = entry[kernel_pml4][i]
      BY <1>1, <1>6, <2>2
    <3>2. Edge(own, dep, kernel_pml4, i)
      BY <1>s, RootsClear, Numbers DEF Edge
    <3>3. /\ entry[kernel_pml4][i] \in Frames
          /\ own[entry[kernel_pml4][i]] = own[kernel_pml4]
      <4>1. <<kernel_pml4, i>> \notin lent
        BY <3>2 DEF Edge
      <4>2. kernel_pml4 \in Frames /\ entry[kernel_pml4][i] # None
        BY <1>6, <1>s, <3>1
      <4> QED
        BY <3>2, <4>1, <4>2, Targets
    <3>4. ~ Edge(o, d, g, i)'
      BY <2>2, <3>1 DEF Edge
    <3> QED
      BY <1>r, <1>s, <2>2, <3>1, <3>3, <3>4
  <2> QED
    BY <2>1, <2>2
<1>7. Down(o, d)'
  <2> SUFFICES ASSUME NEW g \in Frames, NEW i \in Index, Edge(o, d, g, i)', entry'[g][i] # None
               PROVE  o[entry'[g][i]] = o[g] /\ d[entry'[g][i]] = d[g] + 1
    BY DEF Down
  <2>1. /\ g # r /\ entry'[g][i] = entry[g][i] /\ Edge(own, dep, g, i)
        /\ entry[g][i] \in Frames /\ entry[g][i] # r
    BY <1>6 DEF Edge
  <2>2. own[entry[g][i]] = own[g] /\ dep[entry[g][i]] = dep[g] + 1
    BY <2>1 DEF Forest, Down
  <2> QED
    BY <1>o, <2>1, <2>2
<1>8. Once(o, d)'
  <2> SUFFICES ASSUME NEW g \in Frames, NEW h \in Frames, NEW i \in Index, NEW j \in Index,
                      Edge(o, d, g, i)', Edge(o, d, h, j)', entry'[g][i] # None,
                      entry'[g][i] = entry'[h][j]
               PROVE  g = h /\ i = j
    BY DEF Once
  <2>1. g # r /\ entry'[g][i] = entry[g][i] /\ Edge(own, dep, g, i)
    BY <1>6 DEF Edge
  <2>2. h # r /\ entry'[h][j] = entry[h][j] /\ Edge(own, dep, h, j)
    BY <1>6 DEF Edge
  <2> QED
    BY <2>1, <2>2 DEF Forest, Once
<1>9. Reached(o, d)'
  <2> SUFFICES ASSUME NEW x \in Frames, o[x] # None, x \notin Spaces'
               PROVE  \E g \in Frames, i \in Index : Edge(o, d, g, i)' /\ entry'[g][i] = x
    BY DEF Reached
  <2>1. x # r /\ own[x] # None /\ x \notin Spaces /\ x # None
    BY <1>3, <1>o, Numbers
  <2>2. PICK g \in Frames, i \in Index : Edge(own, dep, g, i) /\ entry[g][i] = x
    BY <2>1 DEF Forest, Reached
  <2>3. g # r
    BY <1>r, <2>2 DEF Edge
  <2>4. entry'[g][i] = x
    BY <1>1, <2>2, <2>3
  <2>5. Edge(o, d, g, i)'
    BY <1>6, <2>1, <2>2, <2>3, <2>4 DEF Edge
  <2> QED
    BY <2>4, <2>5
<1>10. Stale(o, d)'
  <2> SUFFICES ASSUME NEW g \in Frames, NEW i \in Index, o[g] = None \/ d[g] = Levels,
                      entry'[g][i] # None
               PROVE  o[entry'[g][i]] = kernel_pml4
    BY DEF Stale
  <2>1. g # r
    BY <1>o, <1>r, Numbers
  <2>2. entry'[g][i] = entry[g][i] /\ entry[g][i] \in Frames /\ entry[g][i] # r
    <3>1. <<g, i>> \notin lent
      BY <1>o, <1>n, <1>s, <2>1, LentIs
    <3> QED
      BY <1>6, <2>1, <3>1
  <2>3. own[entry[g][i]] = kernel_pml4
    BY <1>o, <2>1, <2>2 DEF Forest, Stale
  <2> QED
    BY <1>o, <2>2, <2>3
<1>11. Marks(o, d)' /\ Shares(o)'
  <2>1. ASSUME NEW m \in lent
        PROVE  \E g \in Frames, i \in Index :
                  m = <<g, i>> /\ o[g] = wm /\ d[g] = Levels - 1 /\ entry'[g][i] # None
    <3>1. PICK g \in Frames, i \in Index :
              m = <<g, i>> /\ own[g] = wm /\ dep[g] = Levels - 1 /\ entry[g][i] # None
      BY <2>1 DEF Forest, Marks
    <3>2. g # r
      BY <1>r, <1>s, <3>1
    <3> QED
      BY <1>1, <1>o, <3>1, <3>2
  <2> QED
    BY <2>1 DEF Marks, Shares
<1>z. PTypeOK' /\ KernelHalf' /\ Forest(o, d)'
  BY <1>2, <1>4, <1>5, <1>7, <1>8, <1>9, <1>10, <1>11 DEF Forest
<1> QED
  BY <1>z DEF TreeInv

\* sys_unmap clears an entry for a shared page, which was not part of the tree.
LEMMA UnmapForest ==
    ASSUME PTypeOK, KernelHalf, NEW own, NEW dep, Forest(own, dep),
           NEW t, NEW a, <<t, a>> \in lent,
           entry' = [entry EXCEPT ![t] = [@ EXCEPT ![a] = None]],
           roots' = roots, free' = free, lent' = lent \ {<<t, a>>}, share' = share
    PROVE  TreeInv'
<1>n. Levels \in Nat /\ Levels > 1 /\ None \notin Frames
  BY Numbers
<1>s. /\ \A s \in Spaces : s \in Frames /\ s # None /\ own[s] = s /\ dep[s] = 0
      /\ kernel_pml4 \in Spaces /\ wm \in Spaces
  BY SpacesOwn
<1>x. t \in Frames /\ a \in Index /\ own[t] = wm /\ dep[t] = Levels - 1 /\ t \notin Spaces
  <2>1. t \in Frames /\ a \in Index /\ own[t] = wm /\ dep[t] = Levels - 1
    BY LentIs
  <2> QED
    BY <1>n, <1>s, <2>1
<1>t. entry \in [Frames -> Table]
  BY DEF PTypeOK
<1>1. /\ \A g \in Frames, i \in Index :
            entry'[g][i] = IF g = t /\ i = a THEN None ELSE entry[g][i]
      /\ \A g \in Frames \ {t} : entry'[g] = entry[g]
      /\ entry' \in [Frames -> Table]
  <2>1. entry[t] \in [Index -> Frames \cup {None}]
    BY <1>t, <1>x DEF Table
  <2> DEFINE e == [entry[t] EXCEPT ![a] = None]
  <2>2. e \in Table /\ \A i \in Index : e[i] = IF i = a THEN None ELSE entry[t][i]
    BY <1>x, <2>1 DEF Table
  <2>3. entry' = [entry EXCEPT ![t] = e]
    OBVIOUS
  <2> HIDE DEF e
  <2> QED
    BY <1>t, <1>x, <2>2, <2>3
<1>2. PTypeOK' /\ Spaces' = Spaces
  BY <1>1 DEF PTypeOK, Spaces
<1>3. KernelHalf'
  <2>1. \A s \in Spaces : entry'[s] = entry[s]
    BY <1>1, <1>s, <1>x
  <2>2. kernel_pml4 \in Spaces /\ roots \subseteq Spaces
    BY DEF Spaces
  <2> QED
    BY <2>1, <2>2 DEF KernelHalf
<1>4. Owners(own, dep)'
  BY <1>2 DEF Owners, Forest
\* The entries of the trees are those there were.
<1>5. ASSUME NEW g \in Frames, NEW i \in Index, entry'[g][i] # None
      PROVE  /\ Edge(own, dep, g, i)' <=> Edge(own, dep, g, i)
             /\ entry'[g][i] = entry[g][i]
  <2>1. ~ (g = t /\ i = a) /\ entry'[g][i] = entry[g][i]
    BY <1>1, <1>5
  <2>2. <<g, i>> # <<t, a>>
    BY <2>1
  <2> QED
    BY <2>1, <2>2 DEF Edge
<1>7. Down(own, dep)'
  <2> SUFFICES ASSUME NEW g \in Frames, NEW i \in Index, Edge(own, dep, g, i)',
                      entry'[g][i] # None
               PROVE  own[entry'[g][i]] = own[g] /\ dep[entry'[g][i]] = dep[g] + 1
    BY DEF Down
  <2>1. Edge(own, dep, g, i) /\ entry'[g][i] = entry[g][i]
    BY <1>5
  <2> QED
    BY <2>1 DEF Forest, Down
<1>8. Once(own, dep)'
  <2> SUFFICES ASSUME NEW g \in Frames, NEW h \in Frames, NEW i \in Index, NEW j \in Index,
                      Edge(own, dep, g, i)', Edge(own, dep, h, j)', entry'[g][i] # None,
                      entry'[g][i] = entry'[h][j]
               PROVE  g = h /\ i = j
    BY DEF Once
  <2>1. entry'[g][i] = entry[g][i] /\ Edge(own, dep, g, i)
    BY <1>5
  <2>2. entry'[h][j] = entry[h][j] /\ Edge(own, dep, h, j)
    BY <1>5
  <2> QED
    BY <2>1, <2>2 DEF Forest, Once
<1>9. Reached(own, dep)'
  <2> SUFFICES ASSUME NEW y \in Frames, own[y] # None, y \notin Spaces
               PROVE  \E g \in Frames, i \in Index : Edge(own, dep, g, i)' /\ entry'[g][i] = y
    BY <1>2 DEF Reached
  <2>1. PICK g \in Frames, i \in Index : Edge(own, dep, g, i) /\ entry[g][i] = y
    BY DEF Forest, Reached
  <2>2. entry'[g][i] = y
    BY <1>1, <2>1 DEF Edge
  <2>3. entry'[g][i] # None
    BY <1>n, <2>2
  <2> QED
    BY <1>5, <2>1, <2>2, <2>3
<1>10. Stale(own, dep)'
  <2> SUFFICES ASSUME NEW g \in Frames, NEW i \in Index, own[g] = None \/ dep[g] = Levels,
                      entry'[g][i] # None
               PROVE  own[entry'[g][i]] = kernel_pml4
    BY DEF Stale
  <2>1. entry'[g][i] = entry[g][i]
    BY <1>5
  <2> QED
    BY <2>1 DEF Forest, Stale
<1>11. Marks(own, dep)' /\ Shares(own)'
  <2>1. ASSUME NEW m \in lent \ {<<t, a>>}
        PROVE  \E g \in Frames, i \in Index :
                  m = <<g, i>> /\ own[g] = wm /\ dep[g] = Levels - 1 /\ entry'[g][i] # None
    <3>1. PICK g \in Frames, i \in Index :
              m = <<g, i>> /\ own[g] = wm /\ dep[g] = Levels - 1 /\ entry[g][i] # None
      BY <2>1 DEF Forest, Marks
    <3>2. ~ (g = t /\ i = a)
      BY <2>1, <3>1
    <3> QED
      BY <1>1, <3>1, <3>2
  <2>2. Shares(own)'
    BY DEF Forest, Shares
  <2> QED
    BY <2>1, <2>2 DEF Marks
<1>z. PTypeOK' /\ KernelHalf' /\ Forest(own, dep)'
  BY <1>2, <1>3, <1>4, <1>7, <1>8, <1>9, <1>10, <1>11 DEF Forest
<1> QED
  BY <1>z DEF TreeInv

\* destroy_user_memory visits the frames that the process owns, each at its depth.
LEMMA VisitedOwn ==
    ASSUME PTypeOK, NEW own, NEW dep, Forest(own, dep), NEW r \in roots, r # wm
    PROVE  /\ UNION {Visited(r)[k] : k \in 1 .. Levels - 1}
                = {g \in Frames : own[g] = r /\ dep[g] \in 1 .. Levels - 1}
           /\ Visited(r)[Levels] = {g \in Frames : own[g] = r /\ dep[g] = Levels}
<1>1. PICK D : D = Visited(r)
  OBVIOUS
<1>2. r \in Spaces /\ r \in Frames /\ r # kernel_pml4
  BY SpacesOwn DEF Spaces
<1>3. LayersFor(own, r, UserIndex, D)
  <2>1. Layers(entry, r, UserIndex, D)
    BY <1>1, <1>2, LayersExist DEF LayersAre
  <2>2. ASSUME NEW g \in Frames, NEW i \in Index, own[g] = r
        PROVE  entry[g][i] = Held(g, i)
    <3>1. <<g, i>> \in lent => own[g] = wm
      BY LentIs
    <3> QED
      BY <2>2, <3>1 DEF Held
  <2> QED
    BY <2>1, <2>2 DEF LayersFor
<1>4. \A k \in 1 .. Levels : D[k] = {g \in Frames : own[g] = r /\ dep[g] = k}
  <2>1. UserIndex \in SUBSET Index
    BY Numbers
  <2> QED
    BY <1>2, <1>3, <2>1, LayersOwn
<1>5. Levels \in 1 .. Levels /\ \A k \in 1 .. Levels - 1 : k \in 1 .. Levels
  BY Numbers
<1>6. UNION {D[k] : k \in 1 .. Levels - 1}
        = {g \in Frames : own[g] = r /\ dep[g] \in 1 .. Levels - 1}
  <2>1. ASSUME NEW k \in 1 .. Levels - 1, NEW g \in D[k]
        PROVE  g \in Frames /\ own[g] = r /\ dep[g] \in 1 .. Levels - 1
    BY <1>4, <1>5, <2>1
  <2>2. ASSUME NEW g \in Frames, own[g] = r, dep[g] \in 1 .. Levels - 1
        PROVE  \E k \in 1 .. Levels - 1 : g \in D[k]
    BY <1>4, <1>5, <2>2
  <2> QED
    BY <2>1, <2>2
<1> QED
  BY <1>1, <1>4, <1>5, <1>6

\* destroy_user_memory clears every table of r below its root and frees all that r
\* owns; pages that were unmapped have no owner any more and stay allocated.
LEMMA DestroyTree ==
    ASSUME TreeInv, NEW r \in roots, r # wm, share = {}, Destroy(r)
    PROVE  TreeInv'
<1> PTypeOK /\ KernelHalf
  BY DEF TreeInv
<1> PICK own, dep : Forest(own, dep)
  BY DEF TreeInv
<1> PICK o : o = [g \in Frames |-> IF own[g] = r THEN None ELSE own[g]]
  OBVIOUS
<1>a. PICK T : T = UNION {Visited(r)[k] : k \in 1 .. Levels - 1}
  OBVIOUS
<1>b. PICK P : P = Visited(r)[Levels]
  OBVIOUS
<1> /\ T = {g \in Frames : own[g] = r /\ dep[g] \in 1 .. Levels - 1}
    /\ P = {g \in Frames : own[g] = r /\ dep[g] = Levels}
  BY <1>a, <1>b, VisitedOwn
<1> /\ entry' = [g \in Frames |->
                    IF g \in T THEN [i \in Index |-> None]
                    ELSE IF g = r
                    THEN [i \in Index |-> IF i \in UserIndex THEN None ELSE entry[r][i]]
                    ELSE entry[g]]
    /\ roots' = roots \ {r} /\ free' = free \cup T \cup P \cup {r}
    /\ share' = {} /\ lent' = lent
  BY <1>a, <1>b, Zenon DEF Destroy
<1>n. Levels \in Nat /\ Levels > 1 /\ None \notin Frames
  BY Numbers
<1>s. /\ \A s \in Spaces : s \in Frames /\ s # None /\ own[s] = s /\ dep[s] = 0
      /\ kernel_pml4 \in Spaces /\ kernel_pml4 \notin roots /\ wm \in roots
      /\ \A g \in Frames : own[g] \in Spaces \cup {None} /\ dep[g] \in 0 .. Levels
  <2>1. \A g \in Frames : own[g] \in Spaces \cup {None} /\ dep[g] \in 0 .. Levels
    BY DEF Forest, Owners
  <2> QED
    BY <2>1, SpacesOwn
<1>r. r \in Spaces /\ r \in Frames /\ own[r] = r /\ r # kernel_pml4 /\ r # None
  <2>1. r \in Spaces
    BY DEF Spaces
  <2> QED
    BY <1>s, <2>1
<1>t. /\ entry \in [Frames -> Table]
      /\ \A g \in Frames, i \in Index : entry[g][i] \in Frames \cup {None}
  BY DEF PTypeOK, Table
<1>1. /\ \A g \in Frames : own[g] # r => entry'[g] = entry[g]
      /\ \A g \in T, i \in Index : entry'[g][i] = None
      /\ \A i \in Index : entry'[r][i] \in {None, entry[r][i]}
      /\ \A i \in UserIndex : entry'[r][i] = None
      /\ \A g \in P \ {r} : entry'[g] = entry[g]
      /\ entry' \in [Frames -> Table]
  <2>0. r \notin T /\ UserIndex \subseteq Index
    <3>1. dep[r] = 0
      BY <1>r, <1>s
    <3> QED
      BY <1>n, <3>1, Numbers
  <2>1. [i \in Index |-> None] \in Table
    BY DEF Table
  <2>2. [i \in Index |-> IF i \in UserIndex THEN None ELSE entry[r][i]] \in Table
    BY <1>r, <1>t DEF Table
  <2>3. entry' \in [Frames -> Table]
    BY <1>t, <2>1, <2>2
  <2>4. \A g \in Frames : own[g] # r => entry'[g] = entry[g]
    BY <1>r
  <2>5. \A g \in P \ {r} : entry'[g] = entry[g]
    <3>1. \A g \in P : g \notin T /\ g \in Frames
      BY <1>n
    <3> QED
      BY <3>1
  <2>6. /\ \A g \in T, i \in Index : entry'[g][i] = None
        /\ \A i \in Index : entry'[r][i] \in {None, entry[r][i]}
        /\ \A i \in UserIndex : entry'[r][i] = None
    BY <1>r, <2>0
  <2> QED
    BY <2>3, <2>4, <2>5, <2>6
<1>2. PTypeOK'
  <2>1. free' \subseteq Frames
    BY <1>r DEF PTypeOK
  <2> QED
    BY <1>1, <1>s, <2>1 DEF PTypeOK
<1>3. Spaces' = Spaces \ {r}
  BY <1>r DEF Spaces
<1>4. KernelHalf'
  <2>1. \A s \in Spaces \ {r} : entry'[s] = entry[s]
    BY <1>1, <1>s
  <2>2. kernel_pml4 \in Spaces \ {r} /\ roots \ {r} \subseteq Spaces \ {r}
    BY <1>r DEF Spaces
  <2>3. entry'[kernel_pml4] = entry[kernel_pml4]
    BY ONLY <2>1, <2>2
  <2>4. roots' = roots \ {r} /\ \A s \in roots \ {r} : s \in roots /\ entry'[s] = entry[s]
    BY <2>1, <2>2, Zenon
  <2>5. KernelHalf
    OBVIOUS
  <2> QED
    BY ONLY <2>3, <2>4, <2>5 DEF KernelHalf
<1>o. \A g \in Frames : o[g] = IF own[g] = r THEN None ELSE own[g]
  OBVIOUS
\* What r owns is its root, a table or a page.
<1>p. ASSUME NEW g \in Frames, own[g] = r  PROVE g = r \/ g \in T \/ g \in P
  <2>1. CASE dep[g] = 0
    <3>1. g \in Spaces
      BY <1>p, <1>r, <2>1 DEF Forest, Owners
    <3> QED
      BY <1>p, <1>s, <3>1
  <2>2. CASE dep[g] # 0
    <3>1. dep[g] \in 1 .. Levels - 1 \/ dep[g] = Levels
      BY <1>n, <1>s, <2>2
    <3> QED
      BY <1>p, <3>1
  <2> QED
    BY <2>1, <2>2
<1>5. Owners(o, dep)'
  <2>1. o \in [Frames -> Spaces' \cup {None}]
    BY <1>3, <1>s
  <2>2. \A s \in Spaces' : o[s] = s /\ dep[s] = 0
    BY <1>3, <1>o, <1>s
  <2>3. \A g \in Frames : o[g] # None /\ dep[g] = 0 => g \in Spaces'
    BY <1>3, <1>o, <1>r DEF Forest, Owners
  <2>4. \A g \in free' : o[g] = None
    <3>1. \A g \in free : own[g] = None /\ g \in Frames
      BY DEF Forest, Owners, PTypeOK
    <3> QED
      BY <1>o, <1>r, <3>1
  <2>5. dep \in [Frames -> 0 .. Levels]
    BY DEF Forest, Owners
  <2> QED
    BY <2>1, <2>2, <2>3, <2>4, <2>5 DEF Owners
<1>6. ASSUME NEW g \in Frames, NEW i \in Index
      PROVE  /\ Edge(o, dep, g, i)' <=> Edge(own, dep, g, i) /\ own[g] # r
             /\ Edge(o, dep, g, i)' => entry'[g][i] = entry[g][i]
  <2>1. CASE own[g] = r
    BY <1>o, <2>1 DEF Edge
  <2>2. CASE own[g] # r
    <3>1. g # r
      BY <1>r, <2>2
    <3> QED
      BY <1>1, <1>o, <2>2, <3>1 DEF Edge
  <2> QED
    BY <2>1, <2>2
<1>7. Down(o, dep)'
  <2> SUFFICES ASSUME NEW g \in Frames, NEW i \in Index, Edge(o, dep, g, i)',
                      entry'[g][i] # None
               PROVE  o[entry'[g][i]] = o[g] /\ dep[entry'[g][i]] = dep[g] + 1
    BY DEF Down
  <2>1. entry'[g][i] = entry[g][i] /\ Edge(own, dep, g, i) /\ own[g] # r
    BY <1>6
  <2>2. own[entry[g][i]] = own[g] /\ dep[entry[g][i]] = dep[g] + 1
    BY <2>1 DEF Forest, Down
  <2>3. entry[g][i] \in Frames
    BY <1>t, <2>1
  <2> QED
    BY <1>o, <2>1, <2>2, <2>3
<1>8. Once(o, dep)'
  <2> SUFFICES ASSUME NEW g \in Frames, NEW h \in Frames, NEW i \in Index, NEW j \in Index,
                      Edge(o, dep, g, i)', Edge(o, dep, h, j)', entry'[g][i] # None,
                      entry'[g][i] = entry'[h][j]
               PROVE  g = h /\ i = j
    BY DEF Once
  <2>1. entry'[g][i] = entry[g][i] /\ Edge(own, dep, g, i)
    BY <1>6
  <2>2. entry'[h][j] = entry[h][j] /\ Edge(own, dep, h, j)
    BY <1>6
  <2> QED
    BY <2>1, <2>2 DEF Forest, Once
<1>9. Reached(o, dep)'
  <2> SUFFICES ASSUME NEW y \in Frames, o[y] # None, y \notin Spaces'
               PROVE  \E g \in Frames, i \in Index : Edge(o, dep, g, i)' /\ entry'[g][i] = y
    BY DEF Reached
  <2>1. own[y] # r /\ own[y] # None /\ y \notin Spaces /\ y # None
    BY <1>3, <1>n, <1>o, <1>r
  <2>2. PICK g \in Frames, i \in Index : Edge(own, dep, g, i) /\ entry[g][i] = y
    BY <2>1 DEF Forest, Reached
  <2>3. own[g] = own[y]
    BY <2>1, <2>2 DEF Forest, Down
  <2>4. Edge(o, dep, g, i)'
    BY <1>6, <2>1, <2>2, <2>3
  <2> QED
    BY <1>6, <2>2, <2>4
<1>10. Stale(o, dep)'
  <2> SUFFICES ASSUME NEW g \in Frames, NEW i \in Index, o[g] = None \/ dep[g] = Levels,
                      entry'[g][i] # None
               PROVE  o[entry'[g][i]] = kernel_pml4
    BY DEF Stale
  <2>1. SUFFICES entry'[g][i] = entry[g][i] /\ own[entry[g][i]] = kernel_pml4
    <3>1. entry[g][i] \in Frames \cup {None}
      BY <1>t
    <3> QED
      BY <1>o, <1>r, <2>1, <3>1
  <2>2. CASE own[g] # r
    <3>1. own[g] = None \/ dep[g] = Levels
      BY <1>o, <2>2
    <3>2. entry'[g][i] = entry[g][i]
      BY <1>1, <2>2
    <3> QED
      BY <3>1, <3>2 DEF Forest, Stale
  <2>3. CASE g = r
    <3>1. i \notin UserIndex /\ entry'[g][i] = entry[g][i]
      BY <1>1, <2>3
    <3>2. ~ Edge(own, dep, g, i)
      BY <2>3, <3>1 DEF Edge
    <3> QED
      <4>1. <<g, i>> \notin lent
        BY <1>r, <2>3, RootsClear
      <4>2. entry[g][i] # None
        BY <3>1
      <4> QED
        BY <3>1, <3>2, <4>1, <4>2, Targets
  <2>4. CASE g \in T
    BY <1>1, <2>4
  <2>5. CASE g \in P /\ g # r
    <3>1. entry'[g][i] = entry[g][i] /\ dep[g] = Levels
      BY <1>1, <2>5
    <3> QED
      BY <3>1 DEF Forest, Stale
  <2> QED
    BY <1>p, <2>2, <2>3, <2>4, <2>5
<1>11. Marks(o, dep)' /\ Shares(o)'
  <2>1. ASSUME NEW m \in lent
        PROVE  \E g \in Frames, i \in Index :
                  m = <<g, i>> /\ o[g] = wm /\ dep[g] = Levels - 1 /\ entry'[g][i] # None
    <3>1. PICK g \in Frames, i \in Index :
              m = <<g, i>> /\ own[g] = wm /\ dep[g] = Levels - 1 /\ entry[g][i] # None
      BY <2>1 DEF Forest, Marks
    <3> QED
      BY <1>1, <1>o, <3>1, SMTT(30)
  <2> QED
    BY <2>1 DEF Marks, Shares
<1>z. PTypeOK' /\ KernelHalf' /\ Forest(o, dep)'
  BY <1>2, <1>4, <1>5, <1>7, <1>8, <1>9, <1>10, <1>11 DEF Forest
<1> QED
  BY <1>z DEF TreeInv

\* p is the walk w with the tables that were missing, A, and the page f put in.
Extends(p, A, w, f) ==
    /\ p \in [1 .. Levels + 1 -> Frames]
    /\ p[Levels + 1] = f
    /\ \A k \in 1 .. Levels : IF w[k] = None THEN p[k] \in A ELSE p[k] = w[k]
    /\ \A g \in A : \E k \in 1 .. Levels : w[k] = None /\ p[k] = g
    /\ \A j, k \in 1 .. Levels + 1 : p[j] = p[k] => j = k

\* The step that writes the way p to page v.
Written(p, w, v) ==
    /\ entry' \in [Frames -> Table]
    /\ \A k \in 1 .. Levels, i \in Index :
          entry'[p[k]][i] = IF i = v[k] THEN p[k + 1]
                            ELSE IF w[k] = None THEN None ELSE entry[p[k]][i]
    /\ \A g \in Frames : (\A k \in 1 .. Levels : p[k] # g) => entry'[g] = entry[g]

\* What a step that maps f at page v of s does to the marks: nothing, when the page is
\* the process's own; else s is the window manager, the page is marked, and the frame
\* is to be mapped in a client.
Marked(own_page, s, p, v, f) ==
    \/ own_page /\ lent' = lent /\ share' = {}
    \/ /\ ~ own_page /\ s = wm /\ lent' = lent \cup {<<p[Levels], v[Levels]>>}
       /\ \E q \in roots \ {wm} : share' = {[client |-> q, frame |-> f]}

\* The step in terms of the walk w to page v of s: p is the way it writes, with the new
\* tables A and the frame f.
MapStep(s, v, w, f, A, p, c) ==
    /\ Walk(entry, s, v, w) /\ w[Levels + 1] = None
    /\ A \subseteq free \ {f} /\ Extends(p, A, w, f) /\ Marked(c, s, p, v, f)
    /\ Written(p, w, v) /\ roots' = roots /\ free' = free \ (A \cup {f})

\* vmm_map_page hangs a chain of new tables, with the page at its end, on the tree
\* of s.
LEMMA MapForest ==
    ASSUME PTypeOK, KernelHalf, NEW own, NEW dep, Forest(own, dep),
           NEW s \in Spaces, NEW v, Own(s, v), s = kernel_pml4 => v[1] = HeapIndex,
           NEW w, NEW f \in Frames, own[f] = None, NEW A, NEW p, NEW c \in BOOLEAN,
           MapStep(s, v, w, f, A, p, c)
    PROVE  TreeInv'
<1> /\ Walk(entry, s, v, w) /\ w[Levels + 1] = None
    /\ A \subseteq free \ {f} /\ Extends(p, A, w, f) /\ Marked(c, s, p, v, f)
    /\ Written(p, w, v) /\ roots' = roots /\ free' = free \ (A \cup {f})
  BY DEF MapStep
<1> PICK B : B = IF c THEN A \cup {f} ELSE A
  OBVIOUS
<1> PICK o : o = [g \in Frames |-> IF g \in B THEN s ELSE own[g]]
  OBVIOUS
<1> PICK d : d = [g \in Frames |->
                     IF \E k \in 1 .. Levels + 1 : p[k] = g
                     THEN (CHOOSE k \in 1 .. Levels + 1 : p[k] = g) - 1 ELSE dep[g]]
  OBVIOUS
<1>n. /\ Levels \in Nat /\ Levels > 1 /\ None \notin Frames
      /\ \A k \in 1 .. Levels : k \in 1 .. Levels + 1 /\ k + 1 \in 1 .. Levels + 1 /\ k \in Nat
      /\ Levels + 1 \in 1 .. Levels + 1 /\ 1 \in 1 .. Levels /\ 2 \in 1 .. Levels
      /\ \A k \in 1 .. Levels + 1 : k = Levels + 1 \/ k \in 1 .. Levels
  <2>1. Levels \in Nat /\ Levels > 1 /\ None \notin Frames
    BY Numbers
  <2> QED
    BY <2>1
<1>s. /\ \A q \in Spaces : q \in Frames /\ q # None /\ own[q] = q /\ dep[q] = 0
      /\ kernel_pml4 \in Spaces /\ kernel_pml4 \notin roots /\ wm \in Spaces /\ wm # None
      /\ \A g \in Frames : own[g] \in Spaces \cup {None} /\ dep[g] \in 0 .. Levels
  <2>1. \A g \in Frames : own[g] \in Spaces \cup {None} /\ dep[g] \in 0 .. Levels
    BY DEF Forest, Owners
  <2> QED
    BY <2>1, SpacesOwn
<1>f. /\ \A g \in A \cup {f} : g \in Frames /\ own[g] = None
      /\ f \notin A /\ s # None /\ A \subseteq B /\ B \subseteq A \cup {f}
  <2>1. \A g \in free : g \in Frames /\ own[g] = None
    BY DEF PTypeOK, Forest, Owners
  <2> QED
    BY <1>s, <2>1
<1>g. GoesDown(own, dep, s, v, w)
  BY WalkDown
<1>w. /\ \A k \in 1 .. Levels + 1 : w[k] # None => own[w[k]] = s /\ dep[w[k]] = k - 1
      /\ \A k \in 1 .. Levels : v[k] \in Index
      /\ \A k \in 1 .. Levels :
            w[k + 1] # None => w[k] # None /\ Edge(own, dep, w[k], v[k])
      /\ \A k \in 1 .. Levels : w[k] # None => w[k + 1] = entry[w[k]][v[k]]
      /\ w[1] = s
  <2>1. /\ \A k \in 1 .. Levels : w[k + 1] = IF w[k] = None THEN None ELSE entry[w[k]][v[k]]
        /\ w[1] = s
    BY DEF Walk
  <2> QED
    <3>1. \A k \in 1 .. Levels + 1 :
             w[k] # None => k # Levels + 1 /\ own[w[k]] = s /\ dep[w[k]] = k - 1
      BY <1>g DEF GoesDown
    <3>2. \A k \in 1 .. Levels : w[k + 1] # None => k # Levels
      OBVIOUS
    <3>3. \A k \in 1 .. Levels :
             w[k + 1] # None => w[k] # None /\ Edge(own, dep, w[k], v[k])
      BY <1>g, <3>2 DEF GoesDown
    <3>4. \A k \in 1 .. Levels : v[k] \in Index
      BY <1>g DEF GoesDown
    <3> QED
      BY <2>1, <3>1, <3>3, <3>4
<1>p. /\ \A k \in 1 .. Levels + 1 : p[k] \in Frames
      /\ p[Levels + 1] = f
      /\ \A k \in 1 .. Levels : IF w[k] = None THEN p[k] \in A ELSE p[k] = w[k]
      /\ \A g \in A : \E k \in 1 .. Levels : w[k] = None /\ p[k] = g
      /\ \A j, k \in 1 .. Levels + 1 : p[j] = p[k] => j = k
  BY DEF Extends
<1>e. /\ \A k \in 1 .. Levels, i \in Index :
            entry'[p[k]][i] = IF i = v[k] THEN p[k + 1]
                              ELSE IF w[k] = None THEN None ELSE entry[p[k]][i]
      /\ \A g \in Frames : (\A k \in 1 .. Levels : p[k] # g) => entry'[g] = entry[g]
      /\ entry' \in [Frames -> Table]
  BY DEF Written
\* A frame of the walk that had an owner was on it.
<1>1. ASSUME NEW k \in 1 .. Levels + 1
      PROVE  IF p[k] \in A \cup {f} THEN w[k] = None
             ELSE k \in 1 .. Levels /\ w[k] # None /\ p[k] = w[k]
  <2>1. CASE k = Levels + 1
    BY <1>p, <2>1
  <2>2. CASE k \in 1 .. Levels
    <3>1. CASE w[k] = None
      BY <1>p, <2>2, <3>1
    <3>2. CASE w[k] # None
      <4>1. p[k] = w[k] /\ own[w[k]] = s
        BY <1>p, <1>w, <1>n, <2>2, <3>2
      <4> QED
        BY <1>f, <2>2, <3>2, <4>1
    <3> QED
      BY <3>1, <3>2
  <2> QED
    BY <1>n, <2>1, <2>2
<1>o. \A g \in Frames : o[g] = IF g \in B THEN s ELSE own[g]
  OBVIOUS
<1>d. /\ \A k \in 1 .. Levels + 1 : d[p[k]] = k - 1
      /\ \A g \in Frames : (\A k \in 1 .. Levels + 1 : p[k] # g) => d[g] = dep[g]
      /\ d \in [Frames -> 0 .. Levels]
  <2>1. ASSUME NEW k \in 1 .. Levels + 1
        PROVE  (CHOOSE j \in 1 .. Levels + 1 : p[j] = p[k]) = k
    BY <1>p
  <2>2. \A k \in 1 .. Levels + 1 : d[p[k]] = k - 1
    BY <1>p, <2>1
  <2>3. \A g \in Frames : (\A k \in 1 .. Levels + 1 : p[k] # g) => d[g] = dep[g]
    OBVIOUS
  <2>4. \A k \in 1 .. Levels + 1 : k - 1 \in 0 .. Levels
    BY <1>n
  <2>5. \A g \in Frames : d[g] \in 0 .. Levels
    BY <1>s, <2>2, <2>3, <2>4
  <2>6. d = [g \in Frames |-> d[g]]
    OBVIOUS
  <2> HIDE DEF Spaces
  <2> QED
    BY <2>2, <2>3, <2>5, <2>6
\* The frames on the way belong to s, and the others are as they were.
<1>2. ASSUME NEW k \in 1 .. Levels + 1, k = Levels + 1 => c  PROVE o[p[k]] = s
  <2>1. CASE p[k] \in A \cup {f}
    <3>1. p[k] \in B
      <4>1. CASE k = Levels + 1
        BY <1>2, <2>1, <4>1
      <4>2. CASE k # Levels + 1
        <5>1. p[k] # f
          BY <1>n, <1>p, <4>2
        <5> QED
          BY <2>1, <5>1, <1>f
      <4> QED
        BY <4>1, <4>2
    <3> QED
      BY <1>o, <1>p, <3>1
  <2>2. CASE p[k] \notin A \cup {f}
    <3>1. own[p[k]] = s
      BY <1>1, <1>w, <2>2
    <3> QED
      BY <1>f, <1>o, <1>p, <2>2, <3>1
  <2> QED
    BY <2>1, <2>2
<1>3. ASSUME NEW g \in Frames, own[g] # None
      PROVE  o[g] = own[g] /\ d[g] = dep[g] /\ g \notin A \cup {f}
  <2>1. g \notin A \cup {f}
    BY <1>3, <1>f
  <2>2. o[g] = own[g]
    BY <1>f, <1>o, <2>1
  <2>3. CASE \E k \in 1 .. Levels + 1 : p[k] = g
    <3>1. PICK k \in 1 .. Levels + 1 : p[k] = g
      BY <2>3
    <3>2. w[k] # None /\ g = w[k]
      BY <1>1, <2>1, <3>1
    <3>3. dep[g] = k - 1 /\ d[g] = k - 1
      BY <1>d, <1>w, <3>1, <3>2
    <3> QED
      BY <2>1, <2>2, <3>3
  <2>4. CASE ~ \E k \in 1 .. Levels + 1 : p[k] = g
    BY <1>d, <2>1, <2>2, <2>4
  <2> QED
    BY <2>3, <2>4
<1>4. ASSUME NEW g \in Frames, \A k \in 1 .. Levels + 1 : p[k] # g
      PROVE  o[g] = own[g] /\ d[g] = dep[g] /\ entry'[g] = entry[g]
  <2>1. g \notin A \cup {f}
    BY <1>4, <1>n, <1>p
  <2>2. \A k \in 1 .. Levels : p[k] # g
    BY <1>4, <1>n
  <2> QED
    BY <1>4, <1>d, <1>e, <1>f, <1>o, <2>1, <2>2
\* An entry that is not None leads along the way or is an old one.
<1>5. ASSUME NEW g \in Frames, NEW i \in Index, entry'[g][i] # None
      PROVE  \/ \E k \in 1 .. Levels : g = p[k] /\ i = v[k] /\ entry'[g][i] = p[k + 1]
             \/ g \notin A /\ entry'[g][i] = entry[g][i]
  <2>1. CASE \E k \in 1 .. Levels : p[k] = g
    <3>1. PICK k \in 1 .. Levels : p[k] = g
      BY <2>1
    <3>2. entry'[g][i] = IF i = v[k] THEN p[k + 1]
                         ELSE IF w[k] = None THEN None ELSE entry[g][i]
      BY <1>e, <3>1
    <3>3. CASE i = v[k]
      BY <3>1, <3>2, <3>3
    <3>4. CASE i # v[k]
      <4>1. w[k] # None /\ entry'[g][i] = entry[g][i]
        BY <1>5, <3>2, <3>4
      <4>2. g \notin A
        BY <1>1, <1>n, <3>1, <4>1
      <4> QED
        BY <4>1, <4>2
    <3> QED
      BY <3>3, <3>4
  <2>2. CASE ~ \E k \in 1 .. Levels : p[k] = g
    <3>1. entry'[g] = entry[g]
      BY <1>e, <2>2
    <3>2. g \notin A
      BY <1>p, <2>2
    <3> QED
      BY <3>1, <3>2
  <2> QED
    BY <2>1, <2>2
\* An old entry that is not None stays what it is.
<1>6. ASSUME NEW g \in Frames, NEW i \in Index, own[g] # None, entry[g][i] # None
      PROVE  entry'[g][i] = entry[g][i]
  <2>1. g \notin A \cup {f}
    BY <1>3, <1>6
  <2>2. CASE \E k \in 1 .. Levels : p[k] = g
    <3>1. PICK k \in 1 .. Levels : p[k] = g
      BY <2>2
    <3>2. w[k] # None /\ g = w[k]
      BY <1>1, <1>n, <2>1, <3>1
    <3>3. CASE i # v[k]
      BY <1>e, <3>1, <3>2, <3>3
    <3>4. CASE i = v[k]
      <4>1. w[k + 1] = entry[g][i] /\ w[k + 1] # None
        BY <1>6, <1>w, <3>2, <3>4
      <4>2. k + 1 \in 1 .. Levels
        <5>1. k + 1 # Levels + 1
          BY <4>1
        <5> QED
          BY <1>n, <5>1
      <4>3. p[k + 1] = w[k + 1]
        BY <1>p, <4>1, <4>2
      <4> QED
        BY <1>e, <3>1, <3>4, <4>1, <4>3
    <3> QED
      BY <3>3, <3>4
  <2>3. CASE ~ \E k \in 1 .. Levels : p[k] = g
    BY <1>e, <2>3
  <2> QED
    BY <2>2, <2>3
\* The edges: those of the way, and the old ones.
<1>l. ASSUME NEW k \in 1 .. Levels  PROVE <<p[k], v[k]>> \notin lent
  <2> SUFFICES ASSUME <<p[k], v[k]>> \in lent  PROVE FALSE
    OBVIOUS
  <2>1. own[p[k]] = wm /\ dep[p[k]] = Levels - 1 /\ entry[p[k]][v[k]] # None
    BY LentIs
  <2>2. w[k] # None /\ p[k] = w[k]
    BY <1>1, <1>f, <1>n, <1>s, <2>1
  <2>3. dep[p[k]] = k - 1
    BY <1>n, <1>w, <2>2
  <2>4. k = Levels
    BY <1>n, <2>1, <2>3
  <2>5. w[k + 1] = entry[p[k]][v[k]]
    BY <1>w, <2>2
  <2> QED
    BY <2>1, <2>4, <2>5
<1>m. ASSUME NEW k \in 1 .. Levels, k = Levels => c  PROVE <<p[k], v[k]>> \notin lent'
  <2>1. CASE lent' = lent
    BY <1>l, <2>1
  <2>2. CASE ~ c /\ lent' = lent \cup {<<p[Levels], v[Levels]>>}
    <3>1. Levels \in 1 .. Levels /\ k # Levels
      BY <1>m, <1>n, <2>2
    <3>2. p[k] # p[Levels]
      BY <1>n, <1>p, <3>1
    <3>3. <<p[k], v[k]>> # <<p[Levels], v[Levels]>>
      BY <3>2
    <3> QED
      BY <1>l, <2>2, <3>3
  <2> QED
    BY <2>1, <2>2 DEF Marked
<1>t. /\ lent \subseteq lent' /\ \A x \in lent' \ lent : x = <<p[Levels], v[Levels]>> /\ ~ c /\ s = wm
      /\ ~ c => lent' = lent \cup {<<p[Levels], v[Levels]>>}
  BY DEF Marked
<1>7. ASSUME NEW k \in 1 .. Levels, k = Levels => c  PROVE Edge(o, d, p[k], v[k])'
  <2>1. o[p[k]] = s /\ d[p[k]] = k - 1
    <3>1. k \in 1 .. Levels + 1 /\ k # Levels + 1
      BY <1>n
    <3> QED
      BY <1>2, <1>d, <3>1
  <2>2. k - 1 < Levels
    BY <1>n
  <2>3. ASSUME p[k] \in roots  PROVE v[k] \in UserIndex
    <3>1. p[k] \in Spaces
      BY <2>3 DEF Spaces
    <3>2. own[p[k]] = p[k] /\ dep[p[k]] = 0 /\ own[p[k]] # None /\ p[k] \in Frames
      BY <1>s, <3>1
    <3>3. o[p[k]] = p[k] /\ d[p[k]] = 0
      BY <1>3, <3>2
    <3>4. k - 1 = 0 /\ p[k] = s
      BY <2>1, <3>3, Zenon
    <3>5. k = 1
      BY <3>4
    <3> QED
      BY <2>3, <3>4, <3>5 DEF Own
  <2> QED
    BY <1>7, <1>f, <1>m, <2>1, <2>2, <2>3 DEF Edge
<1>8. ASSUME NEW g \in Frames, NEW i \in Index
      PROVE  /\ Edge(own, dep, g, i) /\ entry[g][i] # None
                    => Edge(o, d, g, i)' /\ own[g] # None
             /\ Edge(o, d, g, i)' /\ g \notin A => Edge(own, dep, g, i)
  <2>1. ASSUME Edge(own, dep, g, i), entry[g][i] # None
        PROVE  Edge(o, d, g, i)' /\ own[g] # None
    <3>1. own[g] # None /\ dep[g] < Levels /\ <<g, i>> \notin lent
      BY <2>1 DEF Edge
    <3>2. <<g, i>> \notin lent'
      <4> SUFFICES ASSUME <<g, i>> \in lent'  PROVE FALSE
        OBVIOUS
      <4>1. g = p[Levels] /\ i = v[Levels] /\ Levels \in 1 .. Levels
        BY <1>n, <1>t, <3>1
      <4>2. w[Levels] # None /\ p[Levels] = w[Levels]
        BY <1>1, <1>f, <1>n, <3>1, <4>1
      <4>3. w[Levels + 1] = entry[g][i]
        BY <1>w, <4>1, <4>2
      <4> QED
        BY <2>1, <4>3
    <3> QED
      BY <1>3, <2>1, <3>1, <3>2 DEF Edge
  <2>2. ASSUME Edge(o, d, g, i)', g \notin A  PROVE Edge(own, dep, g, i)
    <3>1. g # f
      <4>1. d[f] = Levels
        BY <1>d, <1>n, <1>p
      <4> QED
        BY <1>n, <2>2, <4>1 DEF Edge
    <3>2. own[g] # None
      BY <1>f, <1>o, <2>2, <3>1 DEF Edge
    <3> QED
      BY <1>3, <1>t, <2>2, <3>2 DEF Edge
  <2> QED
    BY <2>1, <2>2
<1>9. PTypeOK' /\ Spaces' = Spaces
  <2>1. free' \subseteq Frames
    BY DEF PTypeOK
  <2> QED
    BY <1>e, <2>1 DEF PTypeOK, Spaces
<1>10. KernelHalf'
  <2>1. ASSUME NEW q \in Spaces, NEW i \in Index, q \in roots => i \notin UserIndex
        PROVE  entry'[q][i] = entry[q][i]
    <3>1. q \in Frames /\ own[q] = q /\ q # None
      BY <1>s
    <3>2. CASE q # s
      <4>1. \A k \in 1 .. Levels : p[k] # q
        <5>1. o[q] = q
          BY <1>3, <3>1
        <5>2. \A k \in 1 .. Levels : k \in 1 .. Levels + 1 /\ k # Levels + 1
          BY <1>n
        <5> QED
          BY <1>2, <3>2, <5>1, <5>2
      <4> QED
        BY <1>e, <3>1, <4>1
    <3>3. CASE q = s
      <4>1. p[1] = s /\ w[1] = s /\ w[1] # None
        BY <1>f, <1>n, <1>p, <1>w
      <4>2. entry'[q][i] = IF i = v[1] THEN p[1 + 1] ELSE entry[q][i]
        BY <1>e, <1>n, <3>3, <4>1
      <4>3. CASE i # v[1]
        BY <4>2, <4>3
      <4>4. CASE i = v[1]
        <5>1. s = kernel_pml4 /\ i = HeapIndex
          BY <2>1, <3>3, <4>4 DEF Spaces, Own
        <5>2. entry[s][i] # None
          BY <2>1, <5>1 DEF KernelHalf
        <5> QED
          BY <1>6, <1>s, <3>1, <3>3, <5>2
      <4> QED
        BY <4>3, <4>4
    <3> QED
      BY <3>2, <3>3
  <2>2. kernel_pml4 \in Spaces /\ kernel_pml4 \notin roots /\ roots \subseteq Spaces
    BY <1>s DEF Spaces
  <2>3. \A i \in Index : entry'[kernel_pml4][i] = entry[kernel_pml4][i]
    BY <2>1, <2>2
  <2>4. \A q \in roots, i \in Index \ UserIndex : entry'[q][i] = entry[q][i]
    BY <2>1, <2>2
  <2> QED
    BY <2>3, <2>4 DEF KernelHalf
<1>11. Owners(o, d)'
  <2>1. o \in [Frames -> Spaces \cup {None}]
    BY <1>f, <1>s
  <2>2. \A q \in Spaces : o[q] = q /\ d[q] = 0
    BY <1>3, <1>s
  <2>3. ASSUME NEW g \in Frames, o[g] # None, d[g] = 0  PROVE g \in Spaces
    <3>1. CASE own[g] # None
      BY <1>3, <2>3, <3>1 DEF Forest, Owners
    <3>2. CASE own[g] = None
      <4>1. g \in A \cup {f}
        BY <1>f, <1>o, <2>3, <3>2
      <4>2. PICK k \in 1 .. Levels + 1 : p[k] = g
        BY <1>n, <1>p, <4>1
      <4>3. w[k] = None /\ d[g] = k - 1
        BY <1>1, <1>d, <4>1, <4>2
      <4>4. k = 1
        <5>1. k - 1 = 0
          BY <2>3, <4>3
        <5>2. k \in Nat
          BY <1>n, <4>2
        <5> QED
          BY <5>1, <5>2
      <4> QED
        BY <1>f, <1>w, <4>3, <4>4
    <3> QED
      BY <3>1, <3>2
  <2>4. \A g \in free' : o[g] = None
    BY <1>f, <1>o DEF Forest, Owners, PTypeOK
  <2> QED
    BY <1>9, <1>d, <2>1, <2>2, <2>3, <2>4 DEF Owners
<1>12. Down(o, d)'
  <2> SUFFICES ASSUME NEW g \in Frames, NEW i \in Index, Edge(o, d, g, i)', entry'[g][i] # None
               PROVE  o[entry'[g][i]] = o[g] /\ d[entry'[g][i]] = d[g] + 1
    BY DEF Down
  <2>1. ASSUME NEW k \in 1 .. Levels, g = p[k], i = v[k], entry'[g][i] = p[k + 1]
        PROVE  o[entry'[g][i]] = o[g] /\ d[entry'[g][i]] = d[g] + 1
    <3>0. k = Levels => c
      <4> SUFFICES ASSUME k = Levels, ~ c  PROVE FALSE
        OBVIOUS
      <4>1. <<g, i>> \in lent'
        BY <1>t, <2>1
      <4> QED
        BY <4>1 DEF Edge
    <3>1. o[p[k + 1]] = s /\ o[p[k]] = s /\ d[p[k + 1]] = (k + 1) - 1 /\ d[p[k]] = k - 1
      <4>1. k + 1 \in 1 .. Levels + 1 /\ k \in 1 .. Levels + 1 /\ k # Levels + 1
        BY <1>n
      <4>2. k + 1 = Levels + 1 => c
        BY <1>n, <3>0
      <4> QED
        BY <1>2, <1>d, <4>1, <4>2
    <3> QED
      BY <1>n, <2>1, <3>1
  <2>2. ASSUME g \notin A, entry'[g][i] = entry[g][i]
        PROVE  o[entry'[g][i]] = o[g] /\ d[entry'[g][i]] = d[g] + 1
    <3>1. Edge(own, dep, g, i) /\ own[g] # None
      BY <1>8, <2>2
    <3>2. own[entry[g][i]] = own[g] /\ dep[entry[g][i]] = dep[g] + 1 /\ entry[g][i] \in Frames
      BY <2>2, <3>1, EntryIs DEF Forest, Down
    <3> QED
      BY <1>3, <2>2, <3>1, <3>2
  <2> QED
    BY <1>5, <2>1, <2>2
\* An entry of the way and an old one with the same target are the same.
<1>13. ASSUME NEW k \in 1 .. Levels, NEW h \in Frames, NEW j \in Index, h \notin A,
              Edge(o, d, h, j)', entry[h][j] # None, entry[h][j] = p[k + 1]
       PROVE  h = p[k] /\ j = v[k]
  <2>1. Edge(own, dep, h, j)
    BY <1>13, <1>8
  <2>2. own[p[k + 1]] # None
    <3>1. <<h, j>> \notin lent
      BY <2>1 DEF Edge
    <3> QED
      BY <1>13, <3>1, Targets
  <2>3. p[k + 1] \notin A \cup {f}
    BY <1>f, <2>2
  <2>4. w[k + 1] # None /\ p[k + 1] = w[k + 1]
    BY <1>1, <1>n, <2>3
  <2>5. w[k] # None /\ Edge(own, dep, w[k], v[k])
    BY <1>w, <2>4
  <2>6. w[k + 1] = entry[w[k]][v[k]] /\ p[k] = w[k] /\ p[k] \in Frames /\ v[k] \in Index
    BY <1>n, <1>p, <1>w, <2>5
  <2> QED
    BY <1>13, <2>1, <2>4, <2>5, <2>6 DEF Forest, Once
<1>14. Once(o, d)'
  <2> SUFFICES ASSUME NEW g \in Frames, NEW h \in Frames, NEW i \in Index, NEW j \in Index,
                      Edge(o, d, g, i)', Edge(o, d, h, j)', entry'[g][i] # None,
                      entry'[g][i] = entry'[h][j]
               PROVE  g = h /\ i = j
    BY DEF Once
  <2>1. ASSUME NEW k \in 1 .. Levels, g = p[k], i = v[k], entry'[g][i] = p[k + 1]
        PROVE  g = h /\ i = j
    <3>1. ASSUME NEW l \in 1 .. Levels, h = p[l], j = v[l], entry'[h][j] = p[l + 1]
          PROVE  g = h /\ i = j
      <4>1. k + 1 = l + 1
        BY <1>n, <1>p, <2>1, <3>1
      <4>2. k = l
        BY <1>n, <4>1
      <4> QED
        BY <2>1, <3>1, <4>2
    <3>2. ASSUME h \notin A, entry'[h][j] = entry[h][j]  PROVE g = h /\ i = j
      <4>1. entry[h][j] = p[k + 1] /\ entry[h][j] # None
        BY <2>1, <3>2
      <4> QED
        BY <1>13, <2>1, <3>2, <4>1
    <3> QED
      BY <1>5, <3>1, <3>2
  <2>2. ASSUME g \notin A, entry'[g][i] = entry[g][i]  PROVE g = h /\ i = j
    <3>1. ASSUME NEW l \in 1 .. Levels, h = p[l], j = v[l], entry'[h][j] = p[l + 1]
          PROVE  g = h /\ i = j
      <4>1. entry[g][i] = p[l + 1] /\ entry[g][i] # None
        BY <2>2, <3>1
      <4>2. g = p[l] /\ i = v[l]
        BY <1>13, <2>2, <4>1
      <4> QED
        BY <3>1, <4>2
    <3>2. ASSUME h \notin A, entry'[h][j] = entry[h][j]  PROVE g = h /\ i = j
      <4>1. Edge(own, dep, g, i) /\ Edge(own, dep, h, j)
        BY <1>8, <2>2, <3>2
      <4> QED
        BY <2>2, <3>2, <4>1 DEF Forest, Once
    <3> QED
      BY <1>5, <3>1, <3>2
  <2> QED
    BY <1>5, <2>1, <2>2
<1>15. Reached(o, d)'
  <2> SUFFICES ASSUME NEW x \in Frames, o[x] # None, x \notin Spaces
               PROVE  \E g \in Frames, i \in Index : Edge(o, d, g, i)' /\ entry'[g][i] = x
    BY <1>9 DEF Reached
  <2>1. CASE own[x] = None
    <3>1. x \in A \cup {f} /\ x \in B
      BY <1>f, <1>o, <2>1
    <3>2. PICK k \in 1 .. Levels + 1 : p[k] = x
      BY <1>n, <1>p, <3>1
    <3>c. k = Levels + 1 => c
      BY <1>f, <1>p, <3>1, <3>2
    <3>3. k # 1
      BY <1>1, <1>f, <1>w, <3>1, <3>2
    <3>4. k - 1 \in 1 .. Levels /\ (k - 1) + 1 = k
      BY <1>n, <3>3
    <3>5. entry'[p[k - 1]][v[k - 1]] = p[(k - 1) + 1]
      BY <1>e, <1>w, <3>4
    <3>6. Edge(o, d, p[k - 1], v[k - 1])' /\ p[k - 1] \in Frames /\ v[k - 1] \in Index
      <4>1. k - 1 = Levels => c
        BY <1>n, <3>c
      <4> QED
        BY <1>7, <1>n, <1>p, <1>w, <3>4, <4>1
    <3> QED
      BY <3>2, <3>4, <3>5, <3>6
  <2>2. CASE own[x] # None
    <3>1. PICK g \in Frames, i \in Index : Edge(own, dep, g, i) /\ entry[g][i] = x
      BY <2>2 DEF Forest, Reached
    <3>2. Edge(o, d, g, i)' /\ own[g] # None
      BY <1>8, <1>n, <3>1
    <3>3. entry'[g][i] = x
      BY <1>6, <1>n, <3>1, <3>2
    <3> QED
      BY <3>2, <3>3
  <2> QED
    BY <2>1, <2>2
<1>16. Stale(o, d)'
  <2> SUFFICES ASSUME NEW g \in Frames, NEW i \in Index, o[g] = None \/ d[g] = Levels,
                      entry'[g][i] # None
               PROVE  o[entry'[g][i]] = kernel_pml4
    BY DEF Stale
  <2>1. \A k \in 1 .. Levels : p[k] # g
    <3>1. \A k \in 1 .. Levels : o[p[k]] = s /\ d[p[k]] = k - 1 /\ k - 1 # Levels
      <4>1. \A k \in 1 .. Levels : k \in 1 .. Levels + 1 /\ k # Levels + 1 /\ k - 1 # Levels
        BY <1>n
      <4> QED
        BY <1>2, <1>d, <4>1
    <3> QED
      BY <1>f, <3>1
  <2>2. entry'[g][i] = entry[g][i]
    BY <1>e, <2>1
  <2>3. own[g] = None \/ dep[g] = Levels
    <3>1. CASE own[g] # None
      BY <1>3, <3>1
    <3> QED
      BY <3>1
  <2>4. own[entry[g][i]] = kernel_pml4 /\ entry[g][i] \in Frames
    BY <2>2, <2>3, EntryIs DEF Forest, Stale
  <2> QED
    BY <1>3, <1>s, <2>2, <2>4
<1>17. Marks(o, d)'
  <2>1. ASSUME NEW m \in lent'
        PROVE  \E g \in Frames, i \in Index :
                  m = <<g, i>> /\ o[g] = wm /\ d[g] = Levels - 1 /\ entry'[g][i] # None
    <3>1. CASE m \in lent
      <4>1. PICK g \in Frames, i \in Index :
                m = <<g, i>> /\ own[g] = wm /\ dep[g] = Levels - 1 /\ entry[g][i] # None
        BY <3>1 DEF Forest, Marks
      <4>2. own[g] # None
        BY <1>s, <4>1
      <4>3. o[g] = own[g] /\ d[g] = dep[g] /\ entry'[g][i] = entry[g][i]
        BY <1>3, <1>6, <4>1, <4>2
      <4> QED
        BY <4>1, <4>3
    <3>2. CASE m \notin lent
      <4>1. m = <<p[Levels], v[Levels]>> /\ s = wm
        BY <1>t, <2>1, <3>2
      <4>2. /\ Levels \in 1 .. Levels /\ Levels \in 1 .. Levels + 1 /\ Levels # Levels + 1
            /\ p[Levels] \in Frames /\ v[Levels] \in Index
        BY <1>n, <1>p, <1>w
      <4>3. o[p[Levels]] = wm /\ d[p[Levels]] = Levels - 1
        BY <1>2, <1>d, <4>1, <4>2
      <4>4. entry'[p[Levels]][v[Levels]] # None
        BY <1>e, <1>n, <1>p, <4>2
      <4> QED
        BY <4>1, <4>2, <4>3, <4>4
    <3> QED
      BY <3>1, <3>2
  <2> QED
    BY <2>1 DEF Marks
<1>18. Shares(o)'
  <2> SUFFICES ASSUME NEW x \in share'
               PROVE  /\ x.client \in roots \ {wm}
                      /\ x.frame \in Frames \ free' /\ o[x.frame] = None
    BY DEF Shares
  <2>1. PICK q \in roots \ {wm} : x = [client |-> q, frame |-> f] /\ ~ c
    BY DEF Marked
  <2>2. f \notin B /\ f \notin free'
    BY <1>f, <2>1
  <2> QED
    BY <1>o, <2>1, <2>2
<1>z. PTypeOK' /\ KernelHalf' /\ Forest(o, d)'
  BY <1>9, <1>10, <1>11, <1>12, <1>14, <1>15, <1>16, <1>17,
     <1>18 DEF Forest
<1> QED
  BY <1>z DEF TreeInv

\* N gives each missing place of t the least frame of Q that is not yet in use.
Filled(N, n, t, Q) ==
    N = [k \in 1 .. n |-> IF t[k] # None THEN t[k] ELSE Least(Q \ {N[j] : j \in 1 .. k - 1})]

\* The tables that get_or_alloc_table adds one after the other exist.
LEMMA FilledExists ==
    ASSUME NEW n \in Nat \ {0}, NEW t, NEW Q
    PROVE  \E N : Filled(N, n, t, Q)
<1> DEFINE Val(k, X) == IF t[k] # None THEN t[k] ELSE Least(Q \ X)
           H == {m \in 1 .. n : \E N : Filled(N, m, t, Q)}
<1>0. ASSUME NEW N, NEW m \in Nat
      PROVE  Filled(N, m, t, Q) <=> N = [k \in 1 .. m |-> Val(k, {N[j] : j \in 1 .. k - 1})]
  BY DEF Filled
<1> HIDE DEF Val
<1>1. 1 \in H
  <2> DEFINE N == [k \in 1 .. 1 |-> Val(1, {})]
  <2>1. ASSUME NEW k \in 1 .. 1  PROVE {N[j] : j \in 1 .. k - 1} = {} /\ k = 1
    OBVIOUS
  <2>2. N = [k \in 1 .. 1 |-> Val(k, {N[j] : j \in 1 .. k - 1})]
    BY <2>1
  <2> HIDE DEF N
  <2>3. 1 \in 1 .. n /\ 1 \in Nat
    OBVIOUS
  <2>4. Filled(N, 1, t, Q)
    BY <1>0, <2>2, <2>3
  <2> QED
    BY <2>3, <2>4
<1>2. ASSUME NEW m \in 1 .. n - 1, m \in H  PROVE m + 1 \in H
  <2>m. m \in Nat /\ m + 1 \in Nat /\ m + 1 \in 1 .. n /\ (m + 1) - 1 = m
    OBVIOUS
  <2>1. PICK N : Filled(N, m, t, Q)
    BY <1>2
  <2>2. N = [k \in 1 .. m |-> Val(k, {N[j] : j \in 1 .. k - 1})]
    BY <1>0, <2>1, <2>m
  <2> DEFINE u == [k \in 1 .. m + 1 |-> IF k = m + 1 THEN Val(k, {N[j] : j \in 1 .. m}) ELSE N[k]]
  <2>3. \A k \in 1 .. m : k \in 1 .. m + 1 /\ u[k] = N[k]
    BY <2>m
  <2>4. ASSUME NEW k \in 1 .. m + 1
        PROVE  u[k] = Val(k, {u[j] : j \in 1 .. k - 1})
    <3>1. \A j \in 1 .. k - 1 : u[j] = N[j]
      BY <2>3
    <3>2. {u[j] : j \in 1 .. k - 1} = {N[j] : j \in 1 .. k - 1}
      BY <3>1
    <3>3. CASE k = m + 1
      <4>1. u[k] = Val(k, {N[j] : j \in 1 .. m}) /\ k - 1 = m
        BY <2>m, <3>3
      <4> QED
        BY <3>2, <4>1
    <3>4. CASE k # m + 1
      <4>1. k \in 1 .. m
        BY <3>4
      <4>2. u[k] = N[k] /\ N[k] = Val(k, {N[j] : j \in 1 .. k - 1})
        BY <2>2, <2>3, <4>1
      <4> QED
        BY <3>2, <4>2
    <3> QED
      BY <3>3, <3>4
  <2>5. u = [k \in 1 .. m + 1 |-> u[k]]
    OBVIOUS
  <2> HIDE DEF u
  <2>6. u = [k \in 1 .. m + 1 |-> Val(k, {u[j] : j \in 1 .. k - 1})]
    BY <2>4, <2>5
  <2> QED
    BY <1>0, <2>6, <2>m
<1>3. n \in H
  <2> HIDE DEF H
  <2> QED
    BY <1>1, <1>2, UpTo
<1> QED
  BY <1>3

\* They are different free frames when there are enough.
LEMMA FilledIs ==
    ASSUME NEW n \in Nat \ {0}, NEW t, NEW Q, Q \subseteq Frames,
           NEW M, M = {k \in 1 .. n : t[k] = None},
           \A k \in 1 .. n : t[k] \notin Q,
           Cardinality(Q) >= Cardinality(M), NEW N, Filled(N, n, t, Q)
    PROVE  /\ DOMAIN N = 1 .. n
           /\ \A k \in 1 .. n : t[k] # None => N[k] = t[k]
           /\ \A k \in M : N[k] \in Q /\ \A j \in 1 .. k - 1 : N[k] # N[j]
<1>1. /\ DOMAIN N = 1 .. n
      /\ \A k \in 1 .. n : t[k] # None => N[k] = t[k]
      /\ \A k \in M : N[k] = Least(Q \ {N[j] : j \in 1 .. k - 1})
  BY DEF Filled
<1>2. ASSUME NEW k \in M
      PROVE  N[k] \in Q \ {N[j] : j \in 1 .. k - 1}
  <2> DEFINE B == {N[j] : j \in 1 .. k - 1}
             Mk == M \ k .. n
  <2>1. k \in 1 .. n /\ k \in k .. n /\ Mk \subseteq M /\ k \notin Mk
    OBVIOUS
  <2>2. IsFiniteSet(M)
    <3>1. IsFiniteSet(1 .. n)
      BY FS_Interval
    <3> QED
      BY <3>1, FS_Subset
  <2>3. /\ IsFiniteSet(Mk) /\ Cardinality(Mk) <= Cardinality(M)
        /\ Cardinality(Mk) # Cardinality(M)
    BY <2>1, <2>2, FS_Subset
  <2>4. Cardinality(Mk) \in Nat /\ Cardinality(M) \in Nat
    BY <2>2, <2>3, FS_CardinalityType
  <2>5. Q \ B # {}
    <3> SUFFICES ASSUME Q \subseteq B  PROVE FALSE
      BY Zenon
    <3> DEFINE C == {N[j] : j \in Mk}
               h == [j \in Mk |-> N[j]]
    <3>1. Q \subseteq C
      <4> SUFFICES ASSUME NEW q \in Q  PROVE q \in C
        BY Zenon
      <4>1. PICK j \in 1 .. k - 1 : q = N[j]
        OBVIOUS
      <4>2. j \in 1 .. n /\ j \notin k .. n
        BY <2>1
      <4>3. t[j] = None
        BY <1>1, <4>1, <4>2
      <4> QED
        BY <4>1, <4>2, <4>3
    <3>2. h \in Surjection(Mk, C)
      BY DEF Surjection
    <3>3. IsFiniteSet(C) /\ Cardinality(C) <= Cardinality(Mk)
      <4> HIDE DEF C, Mk, h
      <4> QED
        BY <2>3, <3>2, FS_Surjection
    <3>4. Cardinality(Q) <= Cardinality(C) /\ IsFiniteSet(Q)
      BY <3>1, <3>3, FS_Subset
    <3>5. Cardinality(Q) \in Nat /\ Cardinality(C) \in Nat
      BY <3>3, <3>4, FS_CardinalityType
    <3> HIDE DEF C, Mk
    <3> QED
      BY <2>3, <2>4, <3>3, <3>4, <3>5
  <2>6. Min(Q \ B) \in Q \ B
    <3>1. Q \ B \subseteq Nat
      BY Numbers
    <3> QED
      BY <2>5, <3>1, MinIs
  <2> QED
    BY <1>1, <2>6 DEF Least
<1> QED
  BY <1>1, <1>2

\* vmm_map_page writes the walk with the missing tables put in.
LEMMA MapPageIs ==
    ASSUME PTypeOK, KernelHalf, NEW own, NEW dep, Forest(own, dep),
           NEW s \in Spaces, NEW v, Own(s, v), NEW w, Walk(entry, s, v, w),
           \A k \in 1 .. Levels : Tables(s, v)[k] = w[k],
           NEW f \in Frames, own[f] = None, MapPage(s, v, f)
    PROVE  \E p, A : /\ A \subseteq free \ {f} /\ Extends(p, A, w, f) /\ Written(p, w, v)
                     /\ free' = free \ (A \cup {f})
<1> DEFINE t == Tables(s, v)
           M == {k \in 1 .. Levels : t[k] = None}
           Q == Pool(f)
           N == CHOOSE m : Filled(m, Levels, t, Q)
           A == {N[k] : k \in M}
           old == Cleared(A)
           p == [k \in 1 .. Levels + 1 |-> IF k = Levels + 1 THEN f ELSE N[k]]
<1>n. /\ Levels \in Nat \ {0} /\ Levels > 1 /\ None \notin Frames
      /\ \A k \in 1 .. Levels : k \in 1 .. Levels + 1 /\ k + 1 \in 1 .. Levels + 1 /\ k \in Nat
                                /\ k # Levels + 1
      /\ Levels + 1 \in 1 .. Levels + 1 /\ Levels \in 1 .. Levels
      /\ \A k \in 1 .. Levels + 1 : k = Levels + 1 \/ k \in 1 .. Levels
  <2>1. Levels \in Nat /\ Levels > 1 /\ None \notin Frames
    BY Numbers
  <2> QED
    BY <2>1
<1>0. /\ Cardinality(Q) >= Cardinality(M)
      /\ entry' = [g \in Frames |->
                      IF g \notin Range(N) THEN old[g]
                      ELSE LET k == CHOOSE k \in 1 .. Levels : N[k] = g
                           IN  [old[g] EXCEPT ![v[k]] = IF k = Levels THEN f ELSE N[k + 1]]]
      /\ free' = Q \ A
  BY DEF MapPage, Filled
<1>1. Filled(N, Levels, t, Q)
  <2>1. \E m : Filled(m, Levels, t, Q)
    BY <1>n, FilledExists
  <2> HIDE DEF t, Q
  <2> QED
    BY <2>1
<1> HIDE DEF N, Q
<1>w. /\ \A k \in 1 .. Levels : /\ w[k] # None => w[k] \in Frames /\ own[w[k]] = s
                                                  /\ dep[w[k]] = k - 1
                                /\ v[k] \in Index /\ t[k] = w[k]
      /\ s # None
  <2>1. GoesDown(own, dep, s, v, w)
    BY WalkDown
  <2>2. \A k \in 1 .. Levels : /\ w[k] # None => w[k] \in Frames /\ own[w[k]] = s
                                                 /\ dep[w[k]] = k - 1
                               /\ v[k] \in Index
    BY <1>n, <2>1 DEF GoesDown
  <2> QED
    BY <2>2, SpacesOwn
<1>q. Q \subseteq Frames /\ (\A g \in Q : own[g] = None) /\ Q = free \ {f} /\ f \in Frames
  <2>1. \A g \in free : g \in Frames /\ own[g] = None
    BY DEF PTypeOK, Forest, Owners
  <2> QED
    BY <2>1 DEF Q, Pool
<1> HIDE DEF t
<1>2. /\ DOMAIN N = 1 .. Levels
      /\ \A k \in 1 .. Levels : t[k] # None => N[k] = t[k]
      /\ \A k \in M : N[k] \in Q /\ \A j \in 1 .. k - 1 : N[k] # N[j]
  <2>1. \A k \in 1 .. Levels : t[k] \notin Q
    BY <1>n, <1>q, <1>w
  <2> HIDE DEF M
  <2>2. M = {k \in 1 .. Levels : t[k] = None}
    BY DEF M
  <2>3. Levels \in Nat \ {0} /\ Q \subseteq Frames /\ Cardinality(Q) >= Cardinality(M)
    BY <1>0, <1>n, <1>q
  <2> QED
    BY <1>1, <2>1, <2>2, <2>3, FilledIs
<1>3. ASSUME NEW k \in 1 .. Levels
      PROVE  /\ N[k] \in Frames
             /\ IF w[k] = None THEN k \in M /\ N[k] \in Q ELSE k \notin M /\ N[k] = w[k]
  BY <1>2, <1>q, <1>w
<1>4. ASSUME NEW j \in 1 .. Levels, NEW k \in 1 .. Levels, j < k
      PROVE  N[j] # N[k]
  <2>1. CASE w[k] = None
    <3>1. k \in M /\ j \in 1 .. k - 1
      BY <1>3, <1>4, <2>1
    <3> QED
      BY <1>2, <3>1
  <2>2. CASE w[k] # None
    <3>1. N[k] = w[k] /\ own[w[k]] = s /\ dep[w[k]] = k - 1
      BY <1>3, <1>w, <2>2
    <3>2. CASE w[j] = None
      BY <1>3, <1>q, <1>w, <3>1, <3>2
    <3>3. CASE w[j] # None
      <4>1. N[j] = w[j] /\ dep[w[j]] = j - 1
        BY <1>3, <1>w, <3>3
      <4>2. j - 1 # k - 1
        BY <1>4
      <4> QED
        BY <3>1, <4>1, <4>2
    <3> QED
      BY <3>2, <3>3
  <2> QED
    BY <2>1, <2>2
<1>5. ASSUME NEW j \in 1 .. Levels, NEW k \in 1 .. Levels, N[j] = N[k]
      PROVE  j = k
  <2>1. j < k \/ k < j \/ j = k
    BY <1>n
  <2> QED
    BY <1>4, <1>5, <2>1
<1>6. ASSUME NEW k \in 1 .. Levels  PROVE N[k] \in A <=> w[k] = None
  <2>1. ASSUME N[k] \in A  PROVE w[k] = None
    <3>1. PICK j \in M : N[k] = N[j]
      BY <2>1
    <3>2. j \in 1 .. Levels
      OBVIOUS
    <3>3. j = k
      BY <1>5, <3>1, <3>2
    <3> QED
      BY <1>3, <3>1, <3>3
  <2>2. ASSUME w[k] = None  PROVE N[k] \in A
    BY <1>3, <2>2
  <2> QED
    BY <2>1, <2>2
<1>7. A \subseteq free \ {f}
  BY <1>2, <1>q
<1>8. \A k \in 1 .. Levels : p[k] = N[k]
  BY <1>n
<1>9. p[Levels + 1] = f
  BY <1>n
<1>10. Extends(p, A, w, f)
  <2>1. p \in [1 .. Levels + 1 -> Frames]
    BY <1>3, <1>n, <1>q
  <2>2. \A k \in 1 .. Levels : IF w[k] = None THEN p[k] \in A ELSE p[k] = w[k]
    BY <1>3, <1>6, <1>8
  <2>3. ASSUME NEW g \in A  PROVE \E k \in 1 .. Levels : w[k] = None /\ p[k] = g
    <3>1. PICK k \in M : g = N[k]
      OBVIOUS
    <3> QED
      BY <1>3, <1>8, <3>1
  <2>4. ASSUME NEW j \in 1 .. Levels + 1, NEW k \in 1 .. Levels + 1, p[j] = p[k]
        PROVE  j = k
    <3>1. ASSUME NEW i \in 1 .. Levels  PROVE N[i] # f
      <4>1. own[f] = None /\ f \notin Q
        BY <1>q
      <4> QED
        BY <1>3, <1>w, <4>1
    <3>2. CASE j \in 1 .. Levels /\ k \in 1 .. Levels
      BY <1>5, <1>8, <2>4, <3>2
    <3>3. CASE j = Levels + 1 /\ k \in 1 .. Levels
      BY <1>8, <1>9, <2>4, <3>1, <3>3
    <3>4. CASE k = Levels + 1 /\ j \in 1 .. Levels
      BY <1>8, <1>9, <2>4, <3>1, <3>4
    <3> QED
      BY <1>n, <3>2, <3>3, <3>4
  <2> HIDE DEF p, A
  <2> QED
    BY <1>9, <2>1, <2>2, <2>3, <2>4 DEF Extends
<1>11. Range(N) = {N[k] : k \in 1 .. Levels}
  BY <1>2 DEF Range
<1>12. \A g \in Frames : old[g] = IF g \in A THEN [i \in Index |-> None] ELSE entry[g]
  BY DEF Cleared
<1>13. \A g \in Frames : old[g] \in Table
  <2>1. [i \in Index |-> None] \in Table
    BY DEF Table
  <2> QED
    BY <1>12, <2>1 DEF PTypeOK
<1> DEFINE Target(k) == IF k = Levels THEN f ELSE N[k + 1]
<1>14. ASSUME NEW k \in 1 .. Levels  PROVE Target(k) = p[k + 1] /\ Target(k) \in Frames
  <2>1. CASE k = Levels
    BY <1>9, <1>q, <2>1
  <2>2. CASE k # Levels
    <3>1. k + 1 \in 1 .. Levels
      BY <1>n, <2>2
    <3> QED
      BY <1>3, <1>8, <2>2, <3>1
  <2> QED
    BY <2>1, <2>2
<1> HIDE DEF old, A, p, Target
<1>15. ASSUME NEW g \in Frames, \A k \in 1 .. Levels : N[k] # g
       PROVE  entry'[g] = entry[g]
  <2>1. g \notin Range(N) /\ g \notin A
    BY <1>11, <1>15 DEF A
  <2>2. entry'[g] = old[g]
    BY <1>0, <2>1
  <2> QED
    BY <1>12, <2>1, <2>2
<1>16. ASSUME NEW k \in 1 .. Levels
       PROVE  entry'[N[k]] = [old[N[k]] EXCEPT ![v[k]] = Target(k)]
  <2>1. N[k] \in Range(N) /\ N[k] \in Frames
    BY <1>11, <1>3
  <2>2. (CHOOSE j \in 1 .. Levels : N[j] = N[k]) = k
    BY <1>5
  <2> DEFINE New(g, m) == [old[g] EXCEPT ![v[m]] = IF m = Levels THEN f ELSE N[m + 1]]
             At(g) == CHOOSE j \in 1 .. Levels : N[j] = g
  <2>3. entry' = [g \in Frames |-> IF g \notin Range(N) THEN old[g] ELSE New(g, At(g))]
    BY <1>0, Zenon
  <2>4. At(N[k]) = k
    BY <2>2, Zenon
  <2>5. New(N[k], k) = [old[N[k]] EXCEPT ![v[k]] = Target(k)]
    BY DEF Target
  <2> HIDE DEF New, At
  <2>6. entry'[N[k]] = New(N[k], At(N[k]))
    BY <2>1, <2>3
  <2> QED
    BY <2>4, <2>5, <2>6, Zenon
<1>17. ASSUME NEW k \in 1 .. Levels
       PROVE  /\ entry'[N[k]] \in Table
              /\ \A i \in Index : entry'[N[k]][i] = IF i = v[k] THEN p[k + 1]
                                    ELSE IF w[k] = None THEN None ELSE entry[N[k]][i]
  <2>1. old[N[k]] \in [Index -> Frames \cup {None}] /\ v[k] \in Index
    BY <1>13, <1>3, <1>w DEF Table
  <2>2. Target(k) = p[k + 1] /\ Target(k) \in Frames
    BY <1>14
  <2>3. entry'[N[k]] \in Table
    BY <1>16, <2>1, <2>2 DEF Table
  <2>4. ASSUME NEW i \in Index
        PROVE  entry'[N[k]][i] = IF i = v[k] THEN p[k + 1] ELSE old[N[k]][i]
    BY <1>16, <2>1, <2>2
  <2>5. ASSUME NEW i \in Index
        PROVE  old[N[k]][i] = IF w[k] = None THEN None ELSE entry[N[k]][i]
    BY <1>12, <1>3, <1>6
  <2> QED
    BY <2>3, <2>4, <2>5
<1>18. entry' \in [Frames -> Table]
  <2>1. ASSUME NEW g \in Frames  PROVE entry'[g] \in Table
    <3>1. CASE \E k \in 1 .. Levels : N[k] = g
      BY <1>17, <3>1
    <3>2. CASE ~ \E k \in 1 .. Levels : N[k] = g
      BY <1>15, <3>2 DEF PTypeOK
    <3> QED
      BY <3>1, <3>2
  <2>2. entry' = [g \in Frames |-> entry'[g]]
    BY <1>0
  <2> QED
    BY <2>1, <2>2
<1>19. Written(p, w, v)
  <2>1. ASSUME NEW g \in Frames, \A k \in 1 .. Levels : p[k] # g  PROVE entry'[g] = entry[g]
    BY <1>15, <1>8, <2>1
  <2>2. ASSUME NEW k \in 1 .. Levels, NEW i \in Index
        PROVE  entry'[p[k]][i] = IF i = v[k] THEN p[k + 1]
                                 ELSE IF w[k] = None THEN None ELSE entry[p[k]][i]
    BY <1>17, <1>8
  <2> QED
    BY <1>18, <2>1, <2>2 DEF Written
<1>20. free' = free \ (A \cup {f})
  BY <1>0, <1>q
<1> QED
  BY <1>7, <1>10, <1>19, <1>20

-----------------------------------------------------------------------------
(***************************************************************************)
(* Every step keeps the invariant.                                         *)
(***************************************************************************)

\* The frame that pmm_alloc_page returns is a free one.
LEMMA LeastFree == ASSUME PTypeOK, free # {}  PROVE Least(free) \in free
<1>1. free \subseteq Nat
  BY Numbers DEF PTypeOK
<1> QED
  BY <1>1, MinIs DEF Least

\* create_user_process_from_file: the new root owns itself.
LEMMA CreateTree == ASSUME TreeInv, share = {}, CreateSpace  PROVE TreeInv'
<1>0. PTypeOK /\ KernelHalf
  BY DEF TreeInv
<1>1. PICK own, dep : Forest(own, dep)
  BY DEF TreeInv
<1> DEFINE r == Least(free)
<1>2. /\ entry' = [entry EXCEPT ![r] = CopiedRoot(r)]
      /\ roots' = roots \cup {r} /\ free' = free \ {r} /\ free # {}
      /\ lent' = lent /\ share' = {}
  BY DEF CreateSpace
<1>3. r \in free
  BY <1>0, <1>2, LeastFree
<1> HIDE DEF r
<1> QED
  BY <1>0, <1>1, <1>2, <1>3, CreateForest

\* After the step the walk to the page is the way that was written.
LEMMA WrittenWalk ==
    ASSUME NEW s \in Frames, NEW v \in VPages, NEW w, Walk(entry, s, v, w),
           NEW A, NEW f, NEW p, Extends(p, A, w, f), Written(p, w, v),
           NEW u, Walk(entry', s, v, u)
    PROVE  \A k \in 1 .. Levels + 1 : u[k] = p[k]
<1>n. /\ Levels \in Nat /\ None \notin Frames /\ 1 \in 1 .. Levels
      /\ \A k \in 1 .. Levels : k \in 1 .. Levels + 1
  <2>1. Levels \in Nat /\ Levels > 1 /\ None \notin Frames
    BY Numbers
  <2> QED
    BY <2>1
<1>u. /\ u[1] = s /\ w[1] = s
      /\ \A k \in 1 .. Levels : u[k + 1] = IF u[k] = None THEN None ELSE entry'[u[k]][v[k]]
  BY DEF Walk
<1>p. /\ \A k \in 1 .. Levels + 1 : p[k] \in Frames /\ p[k] # None
      /\ p[1] = s
  BY <1>n, <1>u DEF Extends
<1>e. \A k \in 1 .. Levels : entry'[p[k]][v[k]] = p[k + 1]
  BY DEF Written, VPages
<1> DEFINE n == Levels + 1
           H == {k \in 1 .. n : u[k] = p[k]}
<1>1. 1 \in H
  BY <1>n, <1>p, <1>u
<1>2. ASSUME NEW k \in 1 .. n - 1, k \in H  PROVE k + 1 \in H
  <2>1. k \in 1 .. Levels /\ k + 1 \in 1 .. n /\ u[k] = p[k] /\ k \in 1 .. Levels + 1
    BY <1>2, <1>n
  <2>2. u[k + 1] = entry'[p[k]][v[k]]
    BY <1>p, <1>u, <2>1
  <2> QED
    BY <1>e, <2>1, <2>2
<1> HIDE DEF H
<1>3. \A k \in 1 .. n : k \in H
  <2>1. n \in Nat
    BY <1>n
  <2> HIDE DEF n
  <2> QED
    BY <1>1, <1>2, <2>1, UpTo
<1> QED
  BY <1>3 DEF H

\* Nobody has the frame.
Nobodys(f) == \A own, dep : Forest(own, dep) => own[f] = None

\* vmm_map_page, as the processes, the heap and sys_share_mem call it, keeps the
\* invariant.
LEMMA MapTree ==
    ASSUME TreeInv, NEW s \in Spaces, NEW v, Own(s, v), s = kernel_pml4 => v[1] = HeapIndex,
           NEW f \in Frames, Nobodys(f), Mapping(s, v) = None, MapPage(s, v, f),
           roots' = roots,
           \/ lent' = lent /\ share' = {}
           \/ /\ s = wm /\ lent' = lent \cup {LeafEntry(s, v)'}
              /\ \E q \in roots \ {wm} : share' = {[client |-> q, frame |-> f]}
    PROVE  TreeInv'
<1>0. PTypeOK /\ KernelHalf
  BY DEF TreeInv
<1>1. PICK own, dep : Forest(own, dep)
  BY DEF TreeInv
<1>2. PICK w : /\ Walk(entry, s, v, w) /\ Mapping(s, v) = w[Levels + 1]
               /\ \A k \in 1 .. Levels : Tables(s, v)[k] = w[k]
  <2>1. s \in Frames /\ v \in VPages
    BY <1>0, <1>1, SpacesOwn DEF Own
  <2> QED
    BY <1>0, <2>1, WalksExist DEF WalksAre
<1>3. w[Levels + 1] = None /\ own[f] = None
  BY <1>1, <1>2 DEF Nobodys
<1>6. PICK p, A : /\ A \subseteq free \ {f} /\ Extends(p, A, w, f) /\ Written(p, w, v)
                  /\ free' = free \ (A \cup {f})
  BY <1>0, <1>1, <1>2, <1>3, MapPageIs
<1>7. PICK c \in BOOLEAN : Marked(c, s, p, v, f)
  <2>1. CASE lent' = lent /\ share' = {}
    BY <2>1 DEF Marked
  <2>2. CASE /\ s = wm /\ lent' = lent \cup {LeafEntry(s, v)'}
             /\ \E q \in roots \ {wm} : share' = {[client |-> q, frame |-> f]}
    <3>1. LeafEntry(s, v)' = <<p[Levels], v[Levels]>>
      <4>1. PTypeOK'
        BY <1>0, <1>6 DEF PTypeOK, Written
      <4>2. WalksAre'
        BY <4>1, WalksExist, PTL
      <4>3. s \in Frames /\ v \in VPages
        BY <1>0, <1>1, SpacesOwn DEF Own
      <4>4. PICK u : /\ Walk(entry', s, v, u)
                     /\ \A k \in 1 .. Levels : Tables(s, v)'[k] = u[k]
        BY <4>2, <4>3 DEF WalksAre, Walk
      <4>5. \A k \in 1 .. Levels + 1 : u[k] = p[k]
        BY <1>2, <1>6, <4>3, <4>4, WrittenWalk
      <4>6. Levels \in 1 .. Levels /\ Levels \in 1 .. Levels + 1
        BY Numbers
      <4> QED
        BY <4>4, <4>5, <4>6 DEF LeafEntry
    <3> QED
      BY <2>2, <3>1 DEF Marked
  <2> QED
    BY <2>1, <2>2
<1>8. MapStep(s, v, w, f, A, p, c)
  BY <1>2, <1>3, <1>6, <1>7 DEF MapStep
<1> QED
  BY <1>0, <1>1, <1>3, <1>8, MapForest

\* sys_unmap clears an entry that sys_share_mem wrote.
LEMMA UnmapTree == ASSUME TreeInv, NEW v, UnmapPage(v)
                   PROVE  TreeInv'
<1>0. PTypeOK /\ KernelHalf
  BY DEF TreeInv
<1>1. PICK own, dep : Forest(own, dep)
  BY DEF TreeInv
<1>2. PICK t, a : t = Tables(wm, v)[Levels] /\ a = v[Levels]
  OBVIOUS
<1>3. LeafEntry(wm, v) = <<t, a>>
  BY <1>2 DEF LeafEntry
<1>4. /\ <<t, a>> \in lent /\ lent' = lent \ {<<t, a>>}
      /\ entry' = [entry EXCEPT ![t] = [@ EXCEPT ![a] = None]]
      /\ roots' = roots /\ free' = free /\ share' = share
  BY <1>3 DEF UnmapPage
<1> QED
  BY <1>0, <1>1, <1>4, UnmapForest

\* A page of a process lies in its lower half, and one of the heap below the
\* kernel's entry for it.
LEMMA PagesOwn ==
    ASSUME PTypeOK
    PROVE  /\ \A r \in roots, v \in UserVPages :
                 r \in Spaces /\ r # kernel_pml4 /\ Own(r, v) /\ v \in VPages
           /\ \A v \in HeapVPages : /\ kernel_pml4 \in Spaces /\ Own(kernel_pml4, v)
                                    /\ v[1] = HeapIndex /\ v \in VPages
  BY DEF PTypeOK, Own, UserVPages, HeapVPages, Spaces

\* A free frame is nobody's.
LEMMA FreeNobodys ==
    ASSUME PTypeOK, free # {}
    PROVE  \E f \in Frames : f = Least(free) /\ Nobodys(f)
<1>1. Least(free) \in free
  BY LeastFree
<1> QED
  BY <1>1 DEF PTypeOK, Nobodys, Forest, Owners

\* The invariant is inductive.
LEMMA NextTree == TreeInv /\ [Next]_vars => TreeInv'
<1> SUFFICES ASSUME TreeInv, [Next]_vars
             PROVE  TreeInv'
  OBVIOUS
<1>0. PTypeOK
  BY DEF TreeInv
<1>1. ASSUME share = {}, CreateSpace  PROVE TreeInv'
  BY <1>1, CreateTree
<1>2. ASSUME share = {}, NEW r \in roots, NEW v \in UserVPages, MapUser(r, v)
      PROVE  TreeInv'
  <2>1. r \in Spaces /\ Own(r, v) /\ r # kernel_pml4
    BY <1>0, PagesOwn
  <2>2. /\ free # {} /\ Mapping(r, v) = None /\ MapPage(r, v, Least(free))
        /\ roots' = roots /\ lent' = lent /\ share' = {}
    BY <1>2 DEF MapUser
  <2>3. PICK f \in Frames : f = Least(free) /\ Nobodys(f)
    BY <1>0, <2>2, FreeNobodys
  <2>4. MapPage(r, v, f)
    BY <2>2, <2>3
  <2> QED
    BY <2>1, <2>2, <2>3, <2>4, MapTree
<1>3. ASSUME share = {}, NEW v \in HeapVPages, MapKernel(v)
      PROVE  TreeInv'
  <2>1. kernel_pml4 \in Spaces /\ Own(kernel_pml4, v) /\ v[1] = HeapIndex
    BY <1>0, PagesOwn
  <2>2. /\ free # {} /\ Mapping(kernel_pml4, v) = None
        /\ MapPage(kernel_pml4, v, Least(free)) /\ roots' = roots
        /\ lent' = lent /\ share' = {}
    BY <1>3 DEF MapKernel
  <2>3. PICK f \in Frames : f = Least(free) /\ Nobodys(f)
    BY <1>0, <2>2, FreeNobodys
  <2>4. MapPage(kernel_pml4, v, f)
    BY <2>2, <2>3
  <2> QED
    BY <2>1, <2>2, <2>3, <2>4, MapTree
<1>4. ASSUME NEW v \in UserVPages, NEW q \in roots \ {wm}, ShareMine(v, q)
      PROVE  TreeInv'
  <2>1. wm \in Spaces /\ Own(wm, v) /\ wm # kernel_pml4
    BY <1>0, PagesOwn DEF PTypeOK
  <2>2. /\ free # {} /\ Mapping(wm, v) = None /\ MapPage(wm, v, Least(free))
        /\ roots' = roots /\ lent' = lent \cup {LeafEntry(wm, v)'}
        /\ share' = {[client |-> q, frame |-> Least(free)]}
    BY <1>4 DEF ShareMine
  <2>3. PICK f \in Frames : f = Least(free) /\ Nobodys(f)
    BY <1>0, <2>2, FreeNobodys
  <2>4. MapPage(wm, v, f) /\ \E x \in roots \ {wm} : share' = {[client |-> x, frame |-> f]}
    BY <2>2, <2>3
  <2> QED
    BY <2>1, <2>2, <2>3, <2>4, MapTree
<1>5. ASSUME NEW v \in UserVPages, ShareTheirs(v)
      PROVE  TreeInv'
  <2>1. PICK x \in share : Mapping(x.client, v) = None /\ MapPage(x.client, v, x.frame)
    BY <1>5 DEF ShareTheirs
  <2>2. PICK r, f : r = x.client /\ f = x.frame
    OBVIOUS
  <2>3. r \in roots /\ f \in Frames /\ Nobodys(f)
    <3>1. PICK own, dep : Forest(own, dep)
      BY DEF TreeInv
    <3> QED
      BY <2>1, <2>2, <3>1 DEF Forest, Shares, Nobodys
  <2>4. r \in Spaces /\ Own(r, v) /\ r # kernel_pml4
    BY <1>0, <2>3, PagesOwn
  <2>5. Mapping(r, v) = None /\ MapPage(r, v, f)
    BY <2>1, <2>2
  <2>6. roots' = roots /\ lent' = lent /\ share' = {}
    BY <1>5 DEF ShareTheirs
  <2> QED
    BY <2>3, <2>4, <2>5, <2>6, MapTree
<1>6. ASSUME NEW v \in UserVPages, UnmapPage(v)
      PROVE  TreeInv'
  BY <1>6, UnmapTree
<1>7. ASSUME share = {}, NEW r \in roots \ {wm}, Destroy(r)
      PROVE  TreeInv'
  BY <1>7, DestroyTree
<1>8. CASE UNCHANGED vars
  <2>1. /\ entry' = entry /\ roots' = roots /\ free' = free /\ share' = share
        /\ lent' = lent /\ Spaces' = Spaces
    BY <1>8 DEF vars, Spaces
  <2>2. PICK own, dep : Forest(own, dep)
    BY DEF TreeInv
  <2>3. PTypeOK' /\ KernelHalf'
    BY <2>1 DEF TreeInv, PTypeOK, KernelHalf
  <2>4. \A g, i : Edge(own, dep, g, i)' <=> Edge(own, dep, g, i)
    BY <2>1 DEF Edge
  <2>5. (Owners(own, dep) /\ Stale(own, dep) /\ Marks(own, dep) /\ Shares(own))'
    BY <2>1, <2>2 DEF Forest, Owners, Stale, Marks, Shares
  <2>6. (Down(own, dep) /\ Once(own, dep) /\ Reached(own, dep))'
    BY <2>1, <2>2, <2>4 DEF Forest, Down, Once, Reached
  <2>7. Forest(own, dep)'
    BY <2>5, <2>6 DEF Forest
  <2> QED
    BY <2>3, <2>7 DEF TreeInv
<1>9. CASE Next
  <2>1. CASE share = {} /\ CreateSpace
    BY <1>1, <2>1
  <2>2. CASE share = {} /\ \E r \in roots, v \in UserVPages : MapUser(r, v)
    BY <1>2, <2>2
  <2>3. CASE share = {} /\ \E v \in HeapVPages : MapKernel(v)
    BY <1>3, <2>3
  <2>4. CASE \E v \in UserVPages, q \in roots \ {wm} : ShareMine(v, q)
    BY <1>4, <2>4
  <2>5. CASE \E v \in UserVPages : ShareTheirs(v)
    BY <1>5, <2>5
  <2>6. CASE \E v \in UserVPages : UnmapPage(v)
    BY <1>6, <2>6
  <2>7. CASE share = {} /\ \E r \in roots \ {wm} : Destroy(r)
    BY <1>7, <2>7
  <2> QED
    BY <1>9, <2>1, <2>2, <2>3, <2>4, <2>5, <2>6, <2>7, Zenon DEF Next
<1> QED
  BY <1>8, <1>9

\* Every frame has at most one owner and one place in its tree, in every reachable
\* state of the page tables, whatever pages sys_share_mem has mapped twice and
\* whichever of them the teardown of a client has freed since.
THEOREM TreeInvariant == Spec => []TreeInv
  BY InitTree, NextTree, PTL DEF Spec

\* The trees stay apart although sys_share_mem maps a frame in two of them and frames
\* are freed while the window manager still maps them: apart from the pages that it
\* shares, no table or page of a process is also another's, the kernel's or free, and
\* none is reached twice, so destroy_user_memory frees each frame once and nothing of
\* anybody else's but a shared page.
THEOREM DisjointTheorem == Spec => []TreesDisjoint
<1>1. TreeInv => TreesDisjoint
  BY ForestDisjoint
<1> QED
  BY <1>1, TreeInvariant, PTL

-----------------------------------------------------------------------------
(***************************************************************************)
(* The trees implement the maps.                                           *)
(***************************************************************************)

\* Two walks that have met go on together while the tables they pass agree.
LEMMA WalksSame ==
    ASSUME NEW v, NEW e, NEW r, NEW w, Walk(e, r, v, w),
           NEW b, NEW q, NEW u, Walk(b, q, v, u),
           NEW m \in 1 .. Levels + 1, NEW n \in m .. Levels + 1, w[m] = u[m],
           \A k \in m .. n - 1 : w[k] # None => e[w[k]][v[k]] = b[w[k]][v[k]]
    PROVE  w[n] = u[n]
<1>n. Levels \in Nat
  BY Numbers
<1>w. /\ \A k \in 1 .. Levels : w[k + 1] = IF w[k] = None THEN None ELSE e[w[k]][v[k]]
      /\ \A k \in 1 .. Levels : u[k + 1] = IF u[k] = None THEN None ELSE b[u[k]][v[k]]
  BY DEF Walk
<1> DEFINE H == {k \in 1 .. n : m <= k => w[k] = u[k]}
<1>1. 1 \in H
  BY <1>n
<1>2. ASSUME NEW k \in 1 .. n - 1, k \in H  PROVE k + 1 \in H
  <2>1. k \in 1 .. Levels /\ k + 1 \in 1 .. n
    BY <1>n
  <2>2. CASE k + 1 = m
    BY <2>1, <2>2
  <2>3. CASE k + 1 < m
    BY <2>1, <2>3
  <2>4. CASE m < k + 1
    <3>1. k \in m .. n - 1 /\ w[k] = u[k]
      BY <1>n, <1>2, <2>1, <2>4
    <3>2. w[k + 1] = u[k + 1]
      BY <1>w, <2>1, <3>1
    <3> QED
      BY <2>1, <3>2
  <2> QED
    BY <1>n, <2>1, <2>2, <2>3, <2>4
<1> HIDE DEF H
<1>3. \A k \in 1 .. n : k \in H
  <2>1. n \in Nat
    BY <1>n
  <2> QED
    BY <1>1, <1>2, <2>1, UpTo
<1> QED
  BY <1>3, <1>n DEF H

\* A walk that has come to an empty entry maps nothing.
LEMMA WalkEnds ==
    ASSUME NEW v, NEW e, NEW r, NEW w, Walk(e, r, v, w),
           NEW m \in 1 .. Levels + 1, w[m] = None
    PROVE  w[Levels + 1] = None
<1>n. Levels \in Nat
  BY Numbers
<1>w. \A k \in 1 .. Levels : w[k + 1] = IF w[k] = None THEN None ELSE e[w[k]][v[k]]
  BY DEF Walk
<1> DEFINE n == Levels + 1
           H == {k \in 1 .. n : m <= k => w[k] = None}
<1>1. 1 \in H
  BY <1>n
<1>2. ASSUME NEW k \in 1 .. n - 1, k \in H  PROVE k + 1 \in H
  <2>1. k \in 1 .. Levels /\ k + 1 \in 1 .. n
    BY <1>n
  <2>2. CASE k + 1 = m
    BY <2>1, <2>2
  <2>3. CASE k + 1 < m
    BY <2>1, <2>3
  <2>4. CASE m < k + 1
    BY <1>2, <1>n, <1>w, <2>1, <2>4
  <2> QED
    BY <1>n, <2>1, <2>2, <2>3, <2>4
<1> HIDE DEF H
<1>3. \A k \in 1 .. n : k \in H
  <2>1. n \in Nat
    BY <1>n
  <2> HIDE DEF n
  <2> QED
    BY <1>1, <1>2, <2>1, UpTo
<1>4. n \in 1 .. n /\ m <= n
  BY <1>n
<1> QED
  BY <1>3, <1>4 DEF H

\* A page has its walk before a step and after it.
LEMMA WalkNow ==
    ASSUME PTypeOK, NEW r \in Frames, NEW v \in VPages
    PROVE  \E w : /\ Walk(entry, r, v, w) /\ Mapping(r, v) = w[Levels + 1]
                  /\ \A k \in 1 .. Levels : Tables(r, v)[k] = w[k]
  BY WalksExist DEF WalksAre

\* The same for the state after the step.
LEMMA WalkNext ==
    ASSUME PTypeOK', NEW r \in Frames, NEW v \in VPages
    PROVE  \E w : Walk(entry', r, v, w) /\ Mapping(r, v)' = w[Levels + 1]
<1>1. WalksAre'
  BY WalksExist, PTL
<1> QED
  BY <1>1 DEF WalksAre, Walk

\* A step that leaves the tables on the way to a page alone leaves the page alone.
LEMMA WalkKept ==
    ASSUME PTypeOK, PTypeOK', NEW s \in Frames, NEW v \in VPages,
           NEW w, Walk(entry, s, v, w), Mapping(s, v) = w[Levels + 1],
           \A k \in 1 .. Levels : w[k] # None => entry'[w[k]][v[k]] = entry[w[k]][v[k]]
    PROVE  Mapping(s, v)' = Mapping(s, v)
<1>1. PICK u : Walk(entry', s, v, u) /\ Mapping(s, v)' = u[Levels + 1]
  BY WalkNext
<1>2. w[1] = s /\ u[1] = s
  BY <1>1 DEF Walk
<1>3. /\ 1 \in 1 .. Levels + 1 /\ Levels + 1 \in 1 .. Levels + 1
      /\ 1 .. (Levels + 1) - 1 = 1 .. Levels
  BY Numbers
<1>4. PICK b : b = entry'
  OBVIOUS
<1>5. \A k \in 1 .. (Levels + 1) - 1 : w[k] # None => entry[w[k]][v[k]] = b[w[k]][v[k]]
  BY <1>3, <1>4
<1>6. Walk(b, s, v, u)
  BY <1>1, <1>4
<1>7. w[Levels + 1] = u[Levels + 1]
  BY <1>2, <1>3, <1>5, <1>6, WalksSame
<1> QED
  BY <1>1, <1>7

\* The pages of a process in its lower half, and those of the heap in the kernel's.
Home(s, v) == \/ s \in roots /\ v \in UserVPages
              \/ s = kernel_pml4 /\ v \in HeapVPages

\* Such a page is one whose walk stays in the tree of its space.
LEMMA HomeOwn ==
    ASSUME PTypeOK, NEW s, NEW v, Home(s, v)
    PROVE  s \in Spaces /\ s \in Frames /\ Own(s, v) /\ v \in VPages
  BY Numbers DEF PTypeOK, Own, UserVPages, HeapVPages, Spaces, Home

\* The kernel maps nothing in the lower half, and every process has the kernel's heap.
HalvesAgree ==
    /\ \A v \in UserVPages : Mapping(kernel_pml4, v) = None
    /\ \A r \in roots, v \in HeapVPages : Mapping(r, v) = Mapping(kernel_pml4, v)

\* The invariant implies it: the walks meet below the copied entry.
LEMMA Halves == TreeInv => HalvesAgree
<1> SUFFICES ASSUME TreeInv  PROVE HalvesAgree
  OBVIOUS
<1>0. PTypeOK /\ KernelHalf
  BY DEF TreeInv
<1>n. /\ kernel_pml4 \in Frames /\ kernel_pml4 # None /\ HeapIndex \in Index \ UserIndex
      /\ 1 \in 1 .. Levels /\ 2 \in 1 .. Levels + 1 /\ Levels + 1 \in 2 .. Levels + 1
      /\ 1 + 1 = 2 /\ None \notin Frames
  BY Numbers
<1>1. ASSUME NEW v \in UserVPages  PROVE Mapping(kernel_pml4, v) = None
  <2>1. v \in VPages /\ v[1] \in Index /\ v[1] # HeapIndex
    BY <1>n DEF UserVPages, VPages
  <2>2. PICK w : Walk(entry, kernel_pml4, v, w) /\ Mapping(kernel_pml4, v) = w[Levels + 1]
    BY <1>0, <1>n, <2>1, WalkNow
  <2>3. w[2] = entry[kernel_pml4][v[1]]
    BY <1>n, <2>2 DEF Walk
  <2>4. w[2] = None
    BY <1>0, <2>1, <2>3 DEF KernelHalf
  <2> QED
    BY <1>n, <2>2, <2>4, WalkEnds
<1>2. ASSUME NEW r \in roots, NEW v \in HeapVPages
      PROVE  Mapping(r, v) = Mapping(kernel_pml4, v)
  <2>1. v \in VPages /\ v[1] = HeapIndex /\ r \in Frames /\ r # None
    BY <1>0, <1>n DEF HeapVPages, PTypeOK
  <2>2. PICK w : Walk(entry, kernel_pml4, v, w) /\ Mapping(kernel_pml4, v) = w[Levels + 1]
    BY <1>0, <1>n, <2>1, WalkNow
  <2>3. PICK u : Walk(entry, r, v, u) /\ Mapping(r, v) = u[Levels + 1]
    BY <1>0, <2>1, WalkNow
  <2>4. w[2] = entry[kernel_pml4][HeapIndex] /\ u[2] = entry[r][HeapIndex]
    BY <1>n, <2>1, <2>2, <2>3 DEF Walk
  <2>5. w[2] = u[2]
    BY <1>0, <1>n, <2>4 DEF KernelHalf
  <2>6. w[Levels + 1] = u[Levels + 1]
    BY <1>n, <2>2, <2>3, <2>5, WalksSame
  <2> QED
    BY <2>2, <2>3, <2>6
<1> QED
  BY <1>1, <1>2 DEF HalvesAgree

\* What is mapped is a frame, and one that the page allocator does not have, unless it
\* is a page that the window manager shares.
MappedApart ==
    \A s \in Spaces, v \in UserVPages \cup HeapVPages :
        /\ Mapping(s, v) \in Frames \cup {None}
        /\ s # wm => Mapping(s, v) \notin free

\* The invariant implies it: what is mapped has an owner.
LEMMA MappedOwn == TreeInv => MappedApart
<1> SUFFICES ASSUME TreeInv  PROVE MappedApart
  OBVIOUS
<1>0. PTypeOK /\ HalvesAgree
  BY Halves DEF TreeInv
<1>1. PICK own, dep : Forest(own, dep)
  BY DEF TreeInv
<1>n. /\ None \notin Frames /\ Levels + 1 \in 1 .. Levels + 1 /\ Levels \in 1 .. Levels
      /\ kernel_pml4 # wm
  BY Numbers
<1>2. ASSUME NEW s, NEW v, Home(s, v)
      PROVE  /\ Mapping(s, v) \in Frames \cup {None}
             /\ s # wm => Mapping(s, v) \notin free
  <2>1. s \in Spaces /\ s \in Frames /\ Own(s, v) /\ v \in VPages /\ s # None
    BY <1>0, <1>2, <1>n, HomeOwn
  <2>2. PICK w : Walk(entry, s, v, w) /\ Mapping(s, v) = w[Levels + 1]
    BY <1>0, <2>1, WalkNow
  <2>d. GoesDown(own, dep, s, v, w)
    BY <1>0, <1>1, <2>1, <2>2, WalkDown
  <2>w. w[Levels + 1] \in Frames \cup {None} /\ (w[Levels + 1] # None => w[Levels] # None)
    BY <1>n, <2>2, <2>d DEF Walk, GoesDown
  <2>3. s # wm /\ w[Levels + 1] # None => own[w[Levels + 1]] = s
    <3>1. s # wm /\ w[Levels] # None => <<w[Levels], v[Levels]>> \notin lent
      BY <1>n, <2>d DEF GoesDown
    <3> QED
      BY <1>n, <2>d, <2>w, <3>1 DEF GoesDown
  <2>4. \A g \in free : g \in Frames /\ own[g] = None
    BY <1>0, <1>1 DEF PTypeOK, Forest, Owners
  <2> QED
    BY <1>n, <2>1, <2>2, <2>3, <2>4, <2>w
<1>3. None \notin free
  BY <1>0, <1>n DEF PTypeOK
<1>4. ASSUME NEW s \in Spaces, NEW v \in UserVPages \cup HeapVPages
      PROVE  /\ Mapping(s, v) \in Frames \cup {None}
             /\ s # wm => Mapping(s, v) \notin free
  <2>1. CASE Home(s, v)
    BY <1>2, <2>1
  <2>2. CASE s = kernel_pml4 /\ v \in UserVPages
    BY <1>0, <1>3, <2>2 DEF HalvesAgree
  <2>3. CASE s \in roots /\ v \in HeapVPages
    <3>1. Home(kernel_pml4, v)
      BY <2>3 DEF Home
    <3>2. /\ Mapping(kernel_pml4, v) \in Frames \cup {None}
          /\ Mapping(kernel_pml4, v) \notin free
      BY <1>2, <1>n, <3>1
    <3> QED
      BY <1>0, <2>3, <3>2 DEF HalvesAgree
  <2> QED
    BY <2>1, <2>2, <2>3 DEF Home, Spaces
<1> QED
  BY <1>4 DEF MappedApart

\* The entries that no owner's walk passes: a step that writes only tables which a
\* space does not own leaves the pages of the space alone.
LEMMA OthersKept ==
    ASSUME PTypeOK, PTypeOK', NEW own, NEW dep, Forest(own, dep), NEW s, NEW v, Home(s, v),
           \A g \in Frames : own[g] = s => entry'[g] = entry[g]
    PROVE  Mapping(s, v)' = Mapping(s, v)
<1>1. s \in Spaces /\ s \in Frames /\ Own(s, v) /\ v \in VPages
  BY HomeOwn
<1>2. PICK w : Walk(entry, s, v, w) /\ Mapping(s, v) = w[Levels + 1]
  BY <1>1, WalkNow
<1>3. \A k \in 1 .. Levels : w[k] # None => w[k] \in Frames /\ own[w[k]] = s
  <2>1. \A k \in 1 .. Levels : k \in 1 .. Levels + 1 /\ k # Levels + 1
    BY Numbers
  <2>2. GoesDown(own, dep, s, v, w)
    BY <1>1, <1>2, WalkDown
  <2> QED
    BY <2>1, <2>2 DEF GoesDown
<1>4. \A k \in 1 .. Levels : w[k] # None => entry'[w[k]] = entry[w[k]]
  BY <1>3
<1> QED
  BY <1>1, <1>2, <1>4, WalkKept

\* A new space maps nothing in its lower half; the others keep their pages.
LEMMA CreateMaps ==
    ASSUME TreeInv, TreeInv', CreateSpace, NEW r, r = Least(free)
    PROVE  /\ \A s, v : Home(s, v) => Mapping(s, v)' = Mapping(s, v)
           /\ \A v \in UserVPages : Mapping(r, v)' = None
           /\ r \in free \ Spaces
<1>0. PTypeOK /\ PTypeOK'
  BY DEF TreeInv
<1>1. PICK own, dep : Forest(own, dep)
  BY DEF TreeInv
<1>2. entry' = [entry EXCEPT ![r] = CopiedRoot(r)] /\ free # {}
  BY DEF CreateSpace
<1>3. r \in free
  BY <1>0, <1>2, LeastFree
<1>4. own[r] = None /\ r \in Frames
  BY <1>0, <1>1, <1>3 DEF PTypeOK, Forest, Owners
<1>5. \A s \in Spaces : s # None /\ own[s] = s
  BY <1>0, <1>1, SpacesOwn
<1>6. \A g \in Frames \ {r} : entry'[g] = entry[g]
  BY <1>0, <1>2 DEF PTypeOK
<1>7. ASSUME NEW s, NEW v, Home(s, v)  PROVE Mapping(s, v)' = Mapping(s, v)
  <2>1. s \in Spaces
    BY <1>0, <1>7, HomeOwn
  <2>2. \A g \in Frames : own[g] = s => entry'[g] = entry[g]
    BY <1>4, <1>5, <1>6, <2>1
  <2> QED
    BY <1>0, <1>1, <1>7, <2>2, OthersKept
<1>8. ASSUME NEW v \in UserVPages  PROVE Mapping(r, v)' = None
  <2>1. v \in VPages /\ v[1] \in UserIndex /\ v[1] \in Index
    BY Numbers DEF UserVPages
  <2>2. PICK w : Walk(entry', r, v, w) /\ Mapping(r, v)' = w[Levels + 1]
    BY <1>0, <1>4, <2>1, WalkNext
  <2>n. 1 \in 1 .. Levels /\ 1 + 1 = 2 /\ 2 \in 1 .. Levels + 1 /\ None \notin Frames
    BY Numbers
  <2>3. w[2] = entry'[r][v[1]]
    BY <1>4, <2>2, <2>n DEF Walk
  <2>4. entry'[r] = CopiedRoot(r)
    BY <1>0, <1>2, <1>4 DEF PTypeOK
  <2>5. w[2] = None
    BY <2>1, <2>3, <2>4 DEF CopiedRoot
  <2>6. PICK b : b = entry'
    OBVIOUS
  <2>7. Walk(b, r, v, w)
    BY <2>2, <2>6
  <2> QED
    BY <2>2, <2>5, <2>7, <2>n, WalkEnds
<1> QED
  BY <1>3, <1>4, <1>5, <1>7, <1>8

\* vmm_map_page maps the page it is given, and changes no other.
LEMMA MapMaps ==
    ASSUME TreeInv, TreeInv', NEW s, NEW v, Home(s, v),
           NEW f \in Frames, Nobodys(f), MapPage(s, v, f), roots' = roots
    PROVE  /\ free' \subseteq free \ {f}
           /\ Mapping(s, v)' = f
           /\ \A q, y : Home(q, y) /\ ~ (q = s /\ y = v) => Mapping(q, y)' = Mapping(q, y)
<1>0. PTypeOK /\ PTypeOK' /\ KernelHalf
  BY DEF TreeInv
<1>1. PICK own, dep : Forest(own, dep)
  BY DEF TreeInv
<1>n. /\ Levels \in Nat /\ None \notin Frames /\ 1 \in 1 .. Levels
      /\ \A k \in 1 .. Levels : /\ k \in 1 .. Levels + 1 /\ k + 1 \in 1 .. Levels + 1
                                /\ k \in Nat /\ k # Levels + 1
      /\ Levels + 1 \in 1 .. Levels + 1
  <2>1. Levels \in Nat /\ Levels > 1 /\ None \notin Frames
    BY Numbers
  <2> QED
    BY <2>1
<1>2. s \in Spaces /\ s \in Frames /\ Own(s, v) /\ v \in VPages /\ s # None
  BY <1>0, <1>n, HomeOwn
<1>3. PICK w : /\ Walk(entry, s, v, w) /\ Mapping(s, v) = w[Levels + 1]
               /\ \A k \in 1 .. Levels : Tables(s, v)[k] = w[k]
  BY <1>0, <1>2, WalkNow
<1>4. own[f] = None
  BY <1>1 DEF Nobodys
<1>6. PICK p, A : /\ A \subseteq free \ {f} /\ Extends(p, A, w, f) /\ Written(p, w, v)
                  /\ free' = free \ (A \cup {f})
  BY <1>0, <1>1, <1>2, <1>3, <1>4, MapPageIs
<1>a. \A g \in A : own[g] = None
  BY <1>1, <1>6 DEF Forest, Owners
<1>w. /\ \A k \in 1 .. Levels : /\ w[k] # None => own[w[k]] = s /\ dep[w[k]] = k - 1
                                /\ v[k] \in Index
                                /\ w[k + 1] = IF w[k] = None THEN None ELSE entry[w[k]][v[k]]
      /\ w[1] = s
  <2>0. GoesDown(own, dep, s, v, w)
    BY <1>0, <1>1, <1>2, <1>3, WalkDown
  <2>1. \A k \in 1 .. Levels : w[k] # None => own[w[k]] = s /\ dep[w[k]] = k - 1
    BY <1>n, <2>0 DEF GoesDown
  <2>2. \A k \in 1 .. Levels : v[k] \in Index
    BY <2>0 DEF GoesDown
  <2> QED
    BY <1>3, <1>n, <2>1, <2>2 DEF Walk
<1>p. /\ \A k \in 1 .. Levels : /\ p[k] \in Frames /\ p[k] # None
                                /\ w[k] = None => p[k] \in A
                                /\ w[k] # None => p[k] = w[k]
      /\ p[Levels + 1] = f /\ p[1] = s
  BY <1>2, <1>6, <1>n, <1>w DEF Extends
<1>e. /\ \A k \in 1 .. Levels, i \in Index :
            entry'[p[k]][i] = IF i = v[k] THEN p[k + 1]
                              ELSE IF w[k] = None THEN None ELSE entry[p[k]][i]
      /\ \A g \in Frames : (\A k \in 1 .. Levels : p[k] # g) => entry'[g] = entry[g]
  BY <1>6 DEF Written
<1>7. ASSUME NEW q, NEW y, Home(q, y), q # s  PROVE Mapping(q, y)' = Mapping(q, y)
  <2>1. q \in Spaces /\ q # None
    BY <1>0, <1>7, <1>n, HomeOwn
  <2>2. ASSUME NEW g \in Frames, own[g] = q  PROVE entry'[g] = entry[g]
    <3>1. ASSUME NEW k \in 1 .. Levels, p[k] = g  PROVE FALSE
      <4>1. CASE w[k] = None
        BY <1>a, <1>p, <2>1, <2>2, <3>1, <4>1
      <4>2. CASE w[k] # None
        BY <1>7, <1>p, <1>w, <2>2, <3>1, <4>2
      <4> QED
        BY <4>1, <4>2
    <3> QED
      BY <1>e, <3>1
  <2> QED
    BY <1>0, <1>1, <1>7, <2>2, OthersKept
<1>8. ASSUME NEW y, Home(s, y)
      PROVE  /\ y = v => Mapping(s, y)' = f
             /\ y # v => Mapping(s, y)' = Mapping(s, y)
  <2>1. Own(s, y) /\ y \in VPages
    BY <1>0, <1>8, HomeOwn
  <2>2. PICK u : Walk(entry, s, y, u) /\ Mapping(s, y) = u[Levels + 1]
    BY <1>0, <1>2, <2>1, WalkNow
  <2>3. PICK z : Walk(entry', s, y, z) /\ Mapping(s, y)' = z[Levels + 1]
    BY <1>0, <1>2, <2>1, WalkNext
  <2>u. /\ \A k \in 1 .. Levels :
              /\ u[k] # None => u[k] \in Frames /\ own[u[k]] = s /\ dep[u[k]] = k - 1
              /\ y[k] \in Index
              /\ u[k + 1] = IF u[k] = None THEN None ELSE entry[u[k]][y[k]]
        /\ u[1] = s
    <3>0. GoesDown(own, dep, s, y, u)
      BY <1>0, <1>1, <1>2, <2>1, <2>2, WalkDown
    <3>1. \A k \in 1 .. Levels :
             u[k] # None => u[k] \in Frames /\ own[u[k]] = s /\ dep[u[k]] = k - 1
      BY <1>n, <3>0 DEF GoesDown
    <3>2. \A k \in 1 .. Levels : y[k] \in Index
      BY <3>0 DEF GoesDown
    <3> QED
      BY <1>n, <2>2, <3>1, <3>2 DEF Walk
  <2>z. /\ \A k \in 1 .. Levels : z[k + 1] = IF z[k] = None THEN None ELSE entry'[z[k]][y[k]]
        /\ z[1] = s
    BY <2>3 DEF Walk
  <2> DEFINE Same(k) == \A j \in 1 .. k - 1 : y[j] = v[j]
             Ok(k) == IF Same(k) THEN z[k] = p[k] /\ u[k] = w[k] ELSE z[k] = u[k]
             n == Levels + 1
             H == {k \in 1 .. n : Ok(k)}
  <2>4. 1 \in H
    <3>1. 1 \in 1 .. n /\ Same(1)
      BY <1>n
    <3>2. z[1] = p[1] /\ u[1] = w[1]
      BY <1>p, <1>w, <2>u, <2>z
    <3> QED
      BY <3>1, <3>2
  <2>5. ASSUME NEW k \in 1 .. n - 1, k \in H  PROVE k + 1 \in H
    <3>1. k \in 1 .. Levels /\ k + 1 \in 1 .. n /\ Ok(k)
      BY <1>n, <2>5
    <3>2. Same(k + 1) <=> Same(k) /\ y[k] = v[k]
      <4>1. 1 .. (k + 1) - 1 = (1 .. k - 1) \cup {k}
        BY <1>n, <3>1
      <4> QED
        BY <4>1
    <3> HIDE DEF Same
    <3>3. CASE Same(k) /\ y[k] = v[k]
      <4>1. z[k] = p[k] /\ u[k] = w[k]
        BY <3>1, <3>3
      <4>2. z[k + 1] = p[k + 1]
        BY <1>e, <1>p, <2>u, <2>z, <3>1, <3>3, <4>1
      <4>3. u[k + 1] = w[k + 1]
        BY <1>w, <2>u, <3>1, <3>3, <4>1
      <4> QED
        BY <3>1, <3>2, <3>3, <4>2, <4>3
    <3>4. CASE Same(k) /\ y[k] # v[k]
      <4>1. z[k] = p[k] /\ u[k] = w[k]
        BY <3>1, <3>4
      <4>2. z[k + 1] = IF w[k] = None THEN None ELSE entry[p[k]][y[k]]
        BY <1>e, <1>p, <2>u, <2>z, <3>1, <3>4, <4>1
      <4>3. z[k + 1] = u[k + 1]
        BY <1>p, <2>u, <3>1, <4>1, <4>2
      <4> QED
        BY <3>1, <3>2, <3>4, <4>3
    <3>5. CASE ~ Same(k)
      <4>1. z[k] = u[k]
        BY <3>1, <3>5
      <4>2. CASE u[k] = None
        BY <2>u, <2>z, <3>1, <3>2, <3>5, <4>1, <4>2
      <4>3. CASE u[k] # None
        <5>1. ASSUME NEW j \in 1 .. Levels, p[j] = u[k]  PROVE FALSE
          <6>1. own[u[k]] = s /\ dep[u[k]] = k - 1
            BY <2>u, <3>1, <4>3
          <6>2. w[j] # None
            BY <1>2, <1>a, <1>p, <5>1, <6>1
          <6>3. p[j] = w[j] /\ dep[w[j]] = j - 1
            BY <1>p, <1>w, <6>2
          <6>4. j = k
            BY <3>1, <5>1, <6>1, <6>3
          <6>5. w[k] = u[k] /\ w[k] # None /\ k \in 1 .. Levels
            BY <3>1, <5>1, <6>2, <6>3, <6>4
          <6>6. \A i \in 1 .. k - 1 : v[i] = y[i]
            BY <1>0, <1>1, <1>2, <1>3, <2>1, <2>2, <6>5, WalksPart
          <6> QED
            BY <3>5, <6>6 DEF Same
        <5>2. entry'[u[k]] = entry[u[k]]
          BY <1>e, <2>u, <3>1, <4>3, <5>1
        <5>3. z[k + 1] = u[k + 1]
          BY <2>u, <2>z, <3>1, <4>1, <4>3, <5>2
        <5> QED
          BY <3>1, <3>2, <3>5, <5>3
      <4> QED
        BY <4>2, <4>3
    <3> QED
      BY <3>3, <3>4, <3>5
  <2> HIDE DEF H
  <2>6. \A k \in 1 .. n : k \in H
    <3>1. n \in Nat
      BY <1>n
    <3> HIDE DEF n
    <3> QED
      BY <2>4, <2>5, <3>1, UpTo
  <2>7. Ok(n)
    BY <1>n, <2>6 DEF H
  <2>8. Same(n) <=> y = v
    <3>1. 1 .. n - 1 = 1 .. Levels
      BY <1>n
    <3>2. v = [k \in 1 .. Levels |-> v[k]] /\ y = [k \in 1 .. Levels |-> y[k]]
      BY <1>2, <2>1 DEF VPages
    <3> QED
      BY <3>1, <3>2
  <2> HIDE DEF Same
  <2> QED
    BY <1>p, <2>2, <2>3, <2>7, <2>8
<1>9. Mapping(s, v)' = f
  BY <1>8
<1> QED
  BY <1>6, <1>7, <1>8, <1>9

\* sys_unmap clears the page it is given, and changes no other.
LEMMA UnmapMaps ==
    ASSUME TreeInv, TreeInv', NEW r, r = wm, NEW v \in UserVPages, UnmapPage(v)
    PROVE  /\ Mapping(r, v)' = None
           /\ \A q, y : Home(q, y) /\ ~ (q = r /\ y = v) => Mapping(q, y)' = Mapping(q, y)
<1>0. PTypeOK /\ PTypeOK'
  BY DEF TreeInv
<1>1. PICK own, dep : Forest(own, dep)
  BY DEF TreeInv
<1>n. /\ Levels \in Nat /\ Levels > 1 /\ Levels \in 1 .. Levels /\ None \notin Frames
      /\ Levels \in 1 .. Levels + 1 /\ Levels + 1 \in 1 .. Levels + 1
      /\ 1 \in 1 .. Levels + 1
      /\ \A k \in 1 .. Levels : k \in 1 .. Levels + 1 /\ k \in Nat /\ k # Levels + 1
  <2>1. Levels \in Nat /\ Levels > 1 /\ None \notin Frames
    BY Numbers
  <2> QED
    BY <2>1
<1>h. Home(r, v)
  BY <1>0 DEF Home, PTypeOK
<1>2. r \in Spaces /\ r \in Frames /\ Own(r, v) /\ v \in VPages
  BY <1>0, <1>h, HomeOwn
<1>3. PICK w : /\ Walk(entry, r, v, w) /\ Mapping(r, v) = w[Levels + 1]
               /\ \A k \in 1 .. Levels : Tables(r, v)[k] = w[k]
  BY <1>0, <1>2, WalkNow
<1>w. /\ \A k \in 1 .. Levels :
            w[k] # None => w[k] \in Frames /\ own[w[k]] = r /\ dep[w[k]] = k - 1
      /\ \A k \in 1 .. Levels : v[k] \in Index
  <2>1. GoesDown(own, dep, r, v, w)
    BY <1>0, <1>1, <1>2, <1>3, WalkDown
  <2> QED
    BY <1>n, <2>1 DEF GoesDown
<1>4. PICK t, a : t = w[Levels] /\ a = v[Levels]
  OBVIOUS
<1>l. LeafEntry(wm, v) = <<t, a>>
  BY <1>3, <1>4, <1>n DEF LeafEntry
<1>6. entry' = [entry EXCEPT ![t] = [@ EXCEPT ![a] = None]] /\ <<t, a>> \in lent
  BY <1>l DEF UnmapPage
<1>5. t # None /\ t \in Frames /\ own[t] = r /\ dep[t] = Levels - 1 /\ a \in Index
  <2>1. t \in Frames /\ a \in Index /\ own[t] = wm /\ dep[t] = Levels - 1
    BY <1>1, <1>6, LentIs
  <2> QED
    BY <1>n, <2>1
<1>7. /\ \A g \in Frames : g # t => entry'[g] = entry[g]
      /\ \A i \in Index : i # a => entry'[t][i] = entry[t][i]
      /\ entry'[t][a] = None
  BY <1>0, <1>5, <1>6 DEF PTypeOK, Table
<1>8. Mapping(r, v)' = None
  <2>1. PICK u : Walk(entry', r, v, u) /\ Mapping(r, v)' = u[Levels + 1]
    BY <1>0, <1>2, WalkNext
  <2>2. PICK b : b = entry'
    OBVIOUS
  <2>3. Walk(b, r, v, u) /\ w[1] = u[1]
    BY <1>3, <2>1, <2>2 DEF Walk
  <2>4. \A k \in 1 .. Levels - 1 : w[k] # None => entry[w[k]][v[k]] = b[w[k]][v[k]]
    <3> SUFFICES ASSUME NEW k \in 1 .. Levels - 1, w[k] # None
                 PROVE  entry[w[k]][v[k]] = b[w[k]][v[k]]
      OBVIOUS
    <3>1. k \in 1 .. Levels /\ k - 1 # Levels - 1
      BY <1>n
    <3>2. w[k] \in Frames /\ w[k] # t
      BY <1>5, <1>w, <3>1
    <3> QED
      BY <1>7, <2>2, <3>2
  <2>5. w[Levels] = u[Levels]
    BY <1>3, <1>n, <2>3, <2>4, WalksSame
  <2>6. u[Levels + 1] = IF u[Levels] = None THEN None ELSE b[u[Levels]][v[Levels]]
    BY <1>n, <2>3 DEF Walk
  <2> QED
    BY <1>4, <1>5, <1>7, <2>1, <2>2, <2>5, <2>6
<1>9. ASSUME NEW q, NEW y, Home(q, y), q # r  PROVE Mapping(q, y)' = Mapping(q, y)
  <2>1. \A g \in Frames : own[g] = q => entry'[g] = entry[g]
    BY <1>5, <1>7, <1>9
  <2> QED
    BY <1>0, <1>1, <1>9, <2>1, OthersKept
<1>10. ASSUME NEW y, Home(r, y), y # v  PROVE Mapping(r, y)' = Mapping(r, y)
  <2>1. Own(r, y) /\ y \in VPages
    BY <1>0, <1>10, HomeOwn
  <2>2. PICK u : Walk(entry, r, y, u) /\ Mapping(r, y) = u[Levels + 1]
    BY <1>0, <1>2, <2>1, WalkNow
  <2>u. /\ \A k \in 1 .. Levels :
              u[k] # None => u[k] \in Frames /\ own[u[k]] = r /\ dep[u[k]] = k - 1
        /\ \A k \in 1 .. Levels : y[k] \in Index
    <3>1. GoesDown(own, dep, r, y, u)
      BY <1>0, <1>1, <1>2, <2>1, <2>2, WalkDown
    <3> QED
      BY <1>n, <3>1 DEF GoesDown
  <2>3. ASSUME NEW k \in 1 .. Levels, u[k] # None
        PROVE  entry'[u[k]][y[k]] = entry[u[k]][y[k]]
    <3>1. CASE u[k] # t
      BY <1>7, <1>n, <2>3, <2>u, <3>1
    <3>2. CASE u[k] = t
      <4>1. k - 1 = Levels - 1
        BY <1>5, <1>n, <2>3, <2>u, <3>2
      <4>2. k = Levels
        BY <1>n, <4>1
      <4>3. w[Levels] # None /\ w[Levels] = u[Levels]
        BY <1>4, <1>5, <3>2, <4>2
      <4>4. \A j \in 1 .. Levels - 1 : v[j] = y[j]
        BY <1>0, <1>1, <1>2, <1>3, <1>n, <2>1, <2>2, <4>3, WalksPart
      <4>5. v = [j \in 1 .. Levels |-> v[j]] /\ y = [j \in 1 .. Levels |-> y[j]]
        BY <1>2, <2>1 DEF VPages
      <4>6. \E j \in 1 .. Levels : v[j] # y[j]
        BY <1>10, <4>5
      <4>7. 1 .. Levels = (1 .. Levels - 1) \cup {Levels}
        BY <1>n
      <4>8. y[Levels] # a
        BY <1>4, <4>4, <4>6, <4>7
      <4> QED
        BY <1>7, <2>u, <3>2, <4>2, <4>8
    <3> QED
      BY <3>1, <3>2
  <2> QED
    BY <1>0, <1>2, <2>1, <2>2, <2>3, WalkKept
<1> QED
  BY <1>8, <1>9, <1>10

\* The teardown of a process frees what it had mapped, and leaves the others alone.
LEMMA DestroyMaps ==
    ASSUME TreeInv, TreeInv', NEW r \in roots, r # wm, Destroy(r)
    PROVE  /\ \A q, y : Home(q, y) /\ q # r => Mapping(q, y)' = Mapping(q, y)
           /\ free \cup {r} \cup ({Mapping(r, v) : v \in UserVPages} \ {None}) \subseteq free'
<1>0. PTypeOK /\ PTypeOK'
  BY DEF TreeInv
<1>1. PICK own, dep : Forest(own, dep)
  BY DEF TreeInv
<1>n. Levels \in Nat /\ Levels > 1 /\ Levels + 1 \in 1 .. Levels + 1 /\ (Levels + 1) - 1 = Levels
  BY Numbers
<1>2. PICK T : T = UNION {Visited(r)[k] : k \in 1 .. Levels - 1}
  OBVIOUS
<1>3. PICK P : P = Visited(r)[Levels]
  OBVIOUS
<1>4. /\ T = {g \in Frames : own[g] = r /\ dep[g] \in 1 .. Levels - 1}
      /\ P = {g \in Frames : own[g] = r /\ dep[g] = Levels}
  BY <1>0, <1>1, <1>2, <1>3, VisitedOwn
<1>5. /\ entry' = [g \in Frames |->
                      IF g \in T THEN [i \in Index |-> None]
                      ELSE IF g = r
                      THEN [i \in Index |-> IF i \in UserIndex THEN None ELSE entry[r][i]]
                      ELSE entry[g]]
      /\ free' = free \cup T \cup P \cup {r}
  BY <1>2, <1>3, Zenon DEF Destroy
<1>6. r \in Spaces /\ r \in Frames /\ own[r] = r
  BY <1>0, <1>1, SpacesOwn DEF Spaces
<1>7. ASSUME NEW q, NEW y, Home(q, y), q # r  PROVE Mapping(q, y)' = Mapping(q, y)
  <2>1. \A g \in Frames : own[g] = q => g \notin T /\ g # r
    BY <1>4, <1>6, <1>7
  <2>2. \A g \in Frames : own[g] = q => entry'[g] = entry[g]
    BY <1>5, <2>1
  <2> QED
    BY <1>0, <1>1, <1>7, <2>2, OthersKept
<1>8. ASSUME NEW v \in UserVPages, Mapping(r, v) # None  PROVE Mapping(r, v) \in P
  <2>1. Own(r, v) /\ v \in VPages
    BY <1>0, HomeOwn DEF Home
  <2>2. PICK w : Walk(entry, r, v, w) /\ Mapping(r, v) = w[Levels + 1]
    BY <1>0, <1>6, <2>1, WalkNow
  <2>d. GoesDown(own, dep, r, v, w)
    BY <1>0, <1>1, <1>6, <2>1, <2>2, WalkDown
  <2>w. w[Levels + 1] # None /\ w[Levels] # None /\ Levels \in 1 .. Levels
    BY <1>8, <1>n, <2>2, <2>d DEF GoesDown
  <2>3. w[Levels + 1] \in Frames /\ own[w[Levels + 1]] = r /\ dep[w[Levels + 1]] = Levels
    <3>1. <<w[Levels], v[Levels]>> \notin lent
      BY <2>d, <2>w DEF GoesDown
    <3> QED
      BY <1>n, <2>d, <2>w, <3>1 DEF GoesDown
  <2> QED
    BY <1>4, <2>2, <2>3
<1> QED
  BY <1>5, <1>7, <1>8

\* The maps that the trees stand for.
PagesOf == UserVPages \cup HeapVPages
Maps == [r \in roots \cup {kernel_pml4} |->
            [v \in UserVPages \cup HeapVPages |-> Mapping(r, v)]]

\* The maps are functions on the spaces and their pages.
LEMMA MapsAre ==
    /\ DOMAIN Maps = Spaces /\ Maps = [s \in Spaces |-> [v \in PagesOf |-> Mapping(s, v)]]
    /\ UserVPages \cap HeapVPages = {}
<1>1. UserVPages \cap HeapVPages = {}
  BY Numbers DEF UserVPages, HeapVPages
<1> QED
  BY <1>1 DEF Maps, Spaces, PagesOf

\* What the definitions of AddrMaps come to under the mapping.
LEMMA AbstractIs ==
    /\ Abstract!Spaces = Spaces /\ Abstract!Pages = PagesOf
    /\ Abstract!Mapped = {Maps[s][v] : s \in Spaces \ {wm}, v \in PagesOf} \ {None}
<1>1. Abstract!Spaces = Spaces /\ Abstract!Pages = PagesOf
  BY MapsAre DEF Maps, PagesOf, Abstract!Spaces, Abstract!Pages
<1>2. Abstract!Mapped
        = {Maps[s][v] : s \in Abstract!Spaces \ {wm}, v \in Abstract!Pages} \ {None}
  BY DEF Maps, Abstract!Mapped
<1> QED
  BY <1>1, <1>2

\* The first page of the heap is mapped, by the kernel, to a frame that is not free.
LEMMA AbstractInit == Init => Abstract!Init
<1> SUFFICES ASSUME Init  PROVE Abstract!Init
  OBVIOUS
<1>1. TreeInv
  BY InitTree
<1>2. MappedApart /\ free \subseteq Frames
  BY <1>1, MappedOwn DEF TreeInv, PTypeOK
<1>3. Spaces = {kernel_pml4, wm} /\ kernel_pml4 \in Frames \ {wm}
  BY Numbers DEF Spaces, Init
<1>4. \A s \in Spaces : Maps[s] \in [PagesOf -> Frames \cup {None}]
  BY <1>2, MapsAre DEF MappedApart, PagesOf
<1>5. ({Maps[s][v] : s \in Spaces \ {wm}, v \in PagesOf} \ {None}) \cap free = {}
  <2>1. \A s \in Spaces \ {wm}, v \in PagesOf : Maps[s][v] \notin free
    BY <1>2, MapsAre DEF MappedApart, PagesOf
  <2> QED
    BY <2>1
<1>6. /\ Abstract!Spaces = Spaces /\ Abstract!Pages = PagesOf
      /\ Abstract!Mapped = {Maps[s][v] : s \in Spaces \ {wm}, v \in PagesOf} \ {None}
  BY AbstractIs
<1>8. \E kernel \in Frames \ {wm} : Abstract!Spaces = {kernel, wm}
  BY <1>3, <1>6
<1>9. \A s \in Abstract!Spaces : Maps[s] \in [Abstract!Pages -> Frames \cup {None}]
  BY <1>4, <1>6
<1>10. Abstract!Mapped \cap free = {}
  BY <1>5, <1>6
<1> QED
  BY <1>2, <1>8, <1>9, <1>10, Zenon DEF Abstract!Init, Maps

\* The maps after a step, and what they hold of the pages that are not at home.
LEMMA MapsNext ==
    ASSUME TreeInv, TreeInv'
    PROVE  /\ HalvesAgree /\ HalvesAgree' /\ MappedApart'
           /\ Maps = [s \in Spaces |-> [v \in PagesOf |-> Mapping(s, v)]]
           /\ Maps' = [s \in Spaces' |-> [v \in PagesOf |-> Mapping(s, v)']]
           /\ UserVPages \cap HeapVPages = {} /\ DOMAIN Maps = Spaces
<1>1. HalvesAgree' /\ MappedApart'
  BY Halves, MappedOwn, PTL
<1>2. Maps' = [s \in Spaces' |-> [v \in PagesOf |-> Mapping(s, v)']]
  BY DEF Maps, Spaces, PagesOf, UserVPages, HeapVPages, VPages
<1> QED
  BY <1>1, <1>2, Halves, MapsAre

\* A step that changes one page of one process does so in the maps.
LEMMA OnePage ==
    ASSUME TreeInv, TreeInv', roots' = roots, NEW r \in roots, NEW v \in UserVPages,
           NEW f, Mapping(r, v)' = f,
           \A q, y : Home(q, y) /\ ~ (q = r /\ y = v) => Mapping(q, y)' = Mapping(q, y)
    PROVE  Maps' = [Maps EXCEPT ![r] = [@ EXCEPT ![v] = f]]
<1>m. /\ HalvesAgree /\ HalvesAgree'
      /\ Maps = [s \in Spaces |-> [y \in PagesOf |-> Mapping(s, y)]]
      /\ Maps' = [s \in Spaces' |-> [y \in PagesOf |-> Mapping(s, y)']]
  BY MapsNext
<1>k. kernel_pml4 \notin roots /\ Spaces' = Spaces
  BY Numbers DEF Spaces, TreeInv, PTypeOK
<1>1. ASSUME NEW s \in Spaces, NEW y \in PagesOf, ~ (s = r /\ y = v)
      PROVE  Mapping(s, y)' = Mapping(s, y)
  <2>1. CASE Home(s, y)
    BY <1>1, <2>1
  <2>2. CASE s = kernel_pml4 /\ y \in UserVPages
    BY <1>m, <2>2 DEF HalvesAgree
  <2>3. CASE s \in roots /\ y \in HeapVPages
    <3>1. Home(kernel_pml4, y) /\ kernel_pml4 # r
      BY <1>k, <2>3 DEF Home
    <3>2. Mapping(kernel_pml4, y)' = Mapping(kernel_pml4, y)
      BY <3>1
    <3> QED
      BY <1>m, <2>3, <3>2 DEF HalvesAgree
  <2> QED
    BY <2>1, <2>2, <2>3 DEF Home, Spaces, PagesOf
<1> QED
  BY <1>1, <1>k, <1>m

\* sys_share_mem takes the frame of the client's page from the window manager's map.
Lends == \A x \in share : \E u \in UserVPages : Mapping(wm, u) = x.frame

\* What the first half of a turn of sys_share_mem does to the maps.
LEMMA ShareMaps ==
    ASSUME TreeInv, TreeInv', NEW v \in UserVPages, NEW q, ShareMine(v, q)
    PROVE  \E f \in free : /\ free' \subseteq free \ {f} /\ Mapping(wm, v)' = f
                           /\ Maps' = [Maps EXCEPT ![wm] = [@ EXCEPT ![v] = f]]
                           /\ share' = {[client |-> q, frame |-> f]}
<1>0. PTypeOK /\ wm \in roots /\ Home(wm, v)
  BY DEF TreeInv, PTypeOK, Home
<1>1. /\ free # {} /\ MapPage(wm, v, Least(free)) /\ roots' = roots
      /\ share' = {[client |-> q, frame |-> Least(free)]}
  BY DEF ShareMine
<1>2. PICK f \in Frames : f = Least(free) /\ Nobodys(f)
  BY <1>0, <1>1, FreeNobodys
<1>3. MapPage(wm, v, f) /\ f \in free
  BY <1>0, <1>1, <1>2, LeastFree
<1>4. PICK r : r = wm
  OBVIOUS
<1>5. r \in roots /\ Home(r, v) /\ MapPage(r, v, f)
  BY <1>0, <1>3, <1>4
<1>6. /\ free' \subseteq free \ {f} /\ Mapping(r, v)' = f
      /\ \A p, y : Home(p, y) /\ ~ (p = r /\ y = v) => Mapping(p, y)' = Mapping(p, y)
  BY <1>1, <1>2, <1>5, MapMaps
<1>7. Maps' = [Maps EXCEPT ![r] = [@ EXCEPT ![v] = f]]
  BY <1>1, <1>5, <1>6, OnePage
<1> QED
  BY <1>1, <1>2, <1>3, <1>4, <1>6, <1>7

\* No step comes between the two halves.
LEMMA NextLends == ASSUME TreeInv, TreeInv', Lends, [Next]_vars  PROVE Lends'
<1>1. CASE share' = {}
  BY <1>1 DEF Lends
<1>2. ASSUME NEW v \in UserVPages, NEW q, ShareMine(v, q)  PROVE Lends'
  <2>1. PICK f \in free : Mapping(wm, v)' = f /\ share' = {[client |-> q, frame |-> f]}
    BY <1>2, ShareMaps
  <2>2. v \in UserVPages'
    BY SMTT(30) DEF UserVPages, VPages
  <2> QED
    BY <2>1, <2>2 DEF Lends
<1>3. CASE UNCHANGED vars
  BY <1>3 DEF vars, Lends, Mapping, Tables, UserVPages, VPages
<1>4. CASE Next
  <2>1. CASE \E v \in UserVPages, q \in roots \ {wm} : ShareMine(v, q)
    BY <1>2, <2>1
  <2>2. CASE ~ \E v \in UserVPages, q \in roots \ {wm} : ShareMine(v, q)
    <3>1. share' = {}
      BY <1>4, <2>2
         DEF Next, CreateSpace, MapUser, UnmapPage, MapKernel, Destroy, ShareTheirs
    <3> QED
      BY <1>1, <3>1
  <2> QED
    BY <2>1, <2>2
<1> QED
  BY <1>3, <1>4

\* Every operation on the trees is one on the maps.
LEMMA AbstractStep ==
    ASSUME TreeInv, TreeInv', Lends, [Next]_vars
    PROVE  [Abstract!Next]_<<Maps, free>>
<1>0. PTypeOK /\ PTypeOK'
  BY DEF TreeInv
<1>h. HalvesAgree /\ HalvesAgree' /\ MappedApart'
  BY MapsNext
<1>m. /\ Maps = [s \in Spaces |-> [v \in PagesOf |-> Mapping(s, v)]]
      /\ Maps' = [s \in Spaces' |-> [v \in PagesOf |-> Mapping(s, v)']]
      /\ UserVPages \cap HeapVPages = {} /\ DOMAIN Maps = Spaces
  BY MapsNext
<1>a. Abstract!Spaces = Spaces /\ Abstract!Pages = PagesOf
  BY AbstractIs
<1>k. kernel_pml4 \in Spaces /\ kernel_pml4 \notin roots /\ (\A s \in Spaces : s \in Frames)
  BY <1>0, Numbers DEF Spaces, PTypeOK
<1>1. ASSUME CreateSpace  PROVE Abstract!Next
  <2>1. PICK r : r = Least(free)
    OBVIOUS
  <2>2. /\ \A s, v : Home(s, v) => Mapping(s, v)' = Mapping(s, v)
        /\ \A v \in UserVPages : Mapping(r, v)' = None
        /\ r \in free \ Spaces
    BY <1>1, <2>1, CreateMaps
  <2>3. roots' = roots \cup {r} /\ free' = free \ {r} /\ Spaces' = Spaces \cup {r}
    BY <1>1, <2>1 DEF CreateSpace, Spaces
  <2>4. ASSUME NEW s \in Spaces, NEW v \in PagesOf  PROVE Mapping(s, v)' = Mapping(s, v)
    BY <1>h, <2>2, <2>3 DEF HalvesAgree, Home, Spaces, PagesOf
  <2>5. ASSUME NEW v \in PagesOf
        PROVE  Mapping(r, v)' = IF v \in HeapVPages THEN Mapping(kernel_pml4, v) ELSE None
    <3>1. CASE v \in HeapVPages
      BY <1>h, <1>k, <2>3, <2>4, <3>1 DEF HalvesAgree
    <3>2. CASE v \notin HeapVPages
      BY <2>2, <3>2 DEF PagesOf
    <3> QED
      BY <3>1, <3>2
  <2>6. Maps' = [t \in Spaces \cup {r} |->
                    IF t # r THEN Maps[t]
                    ELSE [v \in PagesOf |-> IF v \in HeapVPages THEN Maps[kernel_pml4][v]
                                            ELSE None]]
    <3>1. Maps' = [t \in Spaces \cup {r} |-> [v \in PagesOf |-> Mapping(t, v)']]
      BY <1>m, <2>3
    <3>2. ASSUME NEW t \in Spaces, t # r  PROVE [v \in PagesOf |-> Mapping(t, v)'] = Maps[t]
      BY <1>m, <2>4
    <3>3. [v \in PagesOf |-> Mapping(r, v)']
            = [v \in PagesOf |-> IF v \in HeapVPages THEN Maps[kernel_pml4][v] ELSE None]
      BY <1>k, <1>m, <2>5
    <3> QED
      BY <2>2, <3>1, <3>2, <3>3
  <2>7. Abstract!Create(r)
    <3>1. r \in free \ Abstract!Spaces /\ kernel_pml4 \in Abstract!Spaces
      BY <1>a, <1>k, <2>2
    <3>2. Maps' = [t \in Abstract!Spaces \cup {r} |->
                      IF t # r THEN Maps[t]
                      ELSE [v \in Abstract!Pages |->
                               IF v \in HeapVPages THEN Maps[kernel_pml4][v] ELSE None]]
      BY <1>a, <2>6, Zenon
    <3> QED
      BY <2>3, <3>1, <3>2, Zenon DEF Abstract!Create, Maps
  <2>8. r \in Frames
    BY <1>0, <2>2 DEF PTypeOK
  <2> QED
    BY <2>7, <2>8 DEF Abstract!Next
<1>2. ASSUME NEW r \in roots, NEW v \in UserVPages, MapUser(r, v)  PROVE Abstract!Next
  <2>1. /\ Home(r, v) /\ free # {} /\ MapPage(r, v, Least(free)) /\ roots' = roots
    BY <1>2 DEF Home, MapUser
  <2>2. PICK f \in Frames : f = Least(free) /\ Nobodys(f)
    BY <1>0, <2>1, FreeNobodys
  <2>3. MapPage(r, v, f) /\ f \in free
    BY <1>0, <2>1, <2>2, LeastFree
  <2>4. /\ free' \subseteq free \ {f} /\ Mapping(r, v)' = f
        /\ \A q, y : Home(q, y) /\ ~ (q = r /\ y = v) => Mapping(q, y)' = Mapping(q, y)
    BY <2>1, <2>2, <2>3, MapMaps
  <2>5. Maps' = [Maps EXCEPT ![r] = [@ EXCEPT ![v] = f]]
    BY <2>1, <2>4, OnePage
  <2>6. Abstract!MapUser(r, v, f)
    BY <2>3, <2>4, <2>5, Zenon DEF Abstract!MapUser, Maps
  <2>7. r \in Abstract!Spaces
    BY <1>a DEF Spaces
  <2> QED
    BY <2>6, <2>7 DEF Abstract!Next
<1>3. ASSUME NEW v \in HeapVPages, MapKernel(v)  PROVE Abstract!Next
  <2>0. /\ Home(kernel_pml4, v) /\ free # {} /\ MapPage(kernel_pml4, v, Least(free))
        /\ roots' = roots /\ Spaces' = Spaces
    BY <1>3 DEF Home, MapKernel, Spaces
  <2>1. PICK f \in Frames : f = Least(free) /\ Nobodys(f)
    BY <1>0, <2>0, FreeNobodys
  <2>2. /\ Home(kernel_pml4, v) /\ MapPage(kernel_pml4, v, f) /\ f \in free
        /\ roots' = roots /\ Spaces' = Spaces
    BY <1>0, <2>0, <2>1, LeastFree
  <2>r. PICK k : k = kernel_pml4
    OBVIOUS
  <2>3. /\ f \in free /\ free' \subseteq free \ {f} /\ Mapping(kernel_pml4, v)' = f
        /\ \A q, y : Home(q, y) /\ ~ (q = kernel_pml4 /\ y = v)
                        => Mapping(q, y)' = Mapping(q, y)
    <3>1. Home(k, v) /\ MapPage(k, v, f)
      BY <2>2, <2>r
    <3>2. /\ free' \subseteq free \ {f} /\ Mapping(k, v)' = f
          /\ \A q, y : Home(q, y) /\ ~ (q = k /\ y = v) => Mapping(q, y)' = Mapping(q, y)
      BY <2>1, <2>2, <3>1, MapMaps
    <3> QED
      BY <2>2, <2>r, <3>2
  <2>4. ASSUME NEW s \in Spaces, NEW y \in PagesOf
        PROVE  Mapping(s, y)' = IF y = v THEN f ELSE Mapping(s, y)
    <3>1. CASE s = kernel_pml4 /\ y \in UserVPages
      BY <1>h, <1>m, <3>1 DEF HalvesAgree
    <3>2. CASE s \in roots /\ y \in UserVPages
      BY <1>k, <1>m, <2>3, <3>2 DEF Home
    <3>3. CASE y \in HeapVPages
      <4>1. Mapping(kernel_pml4, y)' = IF y = v THEN f ELSE Mapping(kernel_pml4, y)
        BY <2>3, <3>3 DEF Home
      <4>2. Mapping(s, y)' = Mapping(kernel_pml4, y)'
        BY <1>h, <2>2, <3>3 DEF HalvesAgree, Spaces
      <4>3. Mapping(s, y) = Mapping(kernel_pml4, y)
        BY <1>h, <3>3 DEF HalvesAgree, Spaces
      <4> QED
        BY <4>1, <4>2, <4>3
    <3> QED
      BY <3>1, <3>2, <3>3 DEF Spaces, PagesOf
  <2>5. Maps' = [s \in Spaces |-> [Maps[s] EXCEPT ![v] = f]]
    BY <1>m, <2>2, <2>4
  <2>6. Abstract!MapKernel(v, f)
    BY <1>a, <2>3, <2>5, Zenon DEF Abstract!MapKernel, Maps
  <2>7. f \in Frames
    BY <1>0, <2>3 DEF PTypeOK
  <2> QED
    BY <2>6, <2>7 DEF Abstract!Next
<1>4. ASSUME NEW v \in UserVPages, UnmapPage(v)  PROVE Abstract!Next
  <2>0. PICK r : r = wm
    OBVIOUS
  <2>1. /\ Mapping(r, v)' = None
        /\ \A q, y : Home(q, y) /\ ~ (q = r /\ y = v) => Mapping(q, y)' = Mapping(q, y)
    BY <1>4, <2>0, UnmapMaps
  <2>2. roots' = roots /\ free' = free /\ r \in roots
    BY <1>0, <1>4, <2>0 DEF UnmapPage, PTypeOK
  <2>3. Maps' = [Maps EXCEPT ![r] = [@ EXCEPT ![v] = None]]
    BY <2>1, <2>2, OnePage
  <2>4. Abstract!Unmap(r, v)
    BY <2>2, <2>3, Zenon DEF Abstract!Unmap, Maps
  <2>5. r \in Abstract!Spaces
    BY <1>a, <2>2 DEF Spaces
  <2> QED
    BY <2>4, <2>5 DEF Abstract!Next
<1>7. ASSUME NEW v \in UserVPages, NEW q, ShareMine(v, q)  PROVE Abstract!Next
  <2>1. PICK f \in free : /\ free' \subseteq free \ {f}
                         /\ Maps' = [Maps EXCEPT ![wm] = [@ EXCEPT ![v] = f]]
    BY <1>7, ShareMaps
  <2>2. Abstract!MapUser(wm, v, f)
    BY <2>1, Zenon DEF Abstract!MapUser, Maps
  <2>3. wm \in Abstract!Spaces /\ f \in Frames
    BY <1>0, <1>a, <2>1 DEF PTypeOK, Spaces
  <2> QED
    BY <2>2, <2>3 DEF Abstract!Next
<1>8. ASSUME NEW v \in UserVPages, ShareTheirs(v)  PROVE Abstract!Next
  <2>1. PICK x \in share : MapPage(x.client, v, x.frame)
    BY <1>8 DEF ShareTheirs
  <2>2. PICK r, f : r = x.client /\ f = x.frame
    OBVIOUS
  <2>3. r \in roots \ {wm} /\ f \in Frames \ free /\ Nobodys(f)
    <3>1. PICK own, dep : Forest(own, dep)
      BY DEF TreeInv
    <3> QED
      BY <2>1, <2>2, <3>1 DEF Forest, Shares, Nobodys
  <2>4. MapPage(r, v, f) /\ Home(r, v) /\ roots' = roots
    BY <1>8, <2>1, <2>2, <2>3 DEF Home, ShareTheirs
  <2>5. /\ free' \subseteq free \ {f} /\ Mapping(r, v)' = f
        /\ \A q, y : Home(q, y) /\ ~ (q = r /\ y = v) => Mapping(q, y)' = Mapping(q, y)
    BY <2>3, <2>4, MapMaps
  <2>6. Maps' = [Maps EXCEPT ![r] = [@ EXCEPT ![v] = f]]
    BY <2>3, <2>4, <2>5, OnePage
  <2>7. f \in {Maps[wm][u] : u \in UserVPages} \ {None}
    <3>1. PICK u \in UserVPages : Mapping(wm, u) = f
      BY <2>1, <2>2 DEF Lends
    <3>2. wm \in Spaces /\ u \in PagesOf /\ f # None
      BY <1>0, <2>3, Numbers DEF PTypeOK, Spaces, PagesOf
    <3>3. Maps[wm][u] = f
      BY <1>m, <3>1, <3>2
    <3> QED
      BY <3>2, <3>3
  <2>8. free' \subseteq free /\ r # wm /\ f \notin free
    BY <2>3, <2>5
  <2>9. Abstract!MapShared(r, v, f)
    BY <2>6, <2>7, <2>8, Zenon DEF Abstract!MapShared, Maps
  <2>10. r \in Abstract!Spaces
    BY <1>a, <2>3 DEF Spaces
  <2> QED
    BY <2>3, <2>9, <2>10 DEF Abstract!Next
<1>5. ASSUME NEW r \in roots \ {wm}, Destroy(r)  PROVE Abstract!Next
  <2>1. /\ \A q, y : Home(q, y) /\ q # r => Mapping(q, y)' = Mapping(q, y)
        /\ free \cup {r} \cup ({Mapping(r, v) : v \in UserVPages} \ {None}) \subseteq free'
    BY <1>5, DestroyMaps
  <2>2. roots' = roots \ {r} /\ Spaces' = Spaces \ {r}
    BY <1>5, <1>k DEF Destroy, Spaces
  <2>3. ASSUME NEW s \in Spaces \ {r}, NEW y \in PagesOf
        PROVE  Mapping(s, y)' = Mapping(s, y)
    <3>1. CASE Home(s, y)
      BY <2>1, <3>1
    <3>2. CASE s = kernel_pml4 /\ y \in UserVPages
      BY <1>h, <3>2 DEF HalvesAgree
    <3>3. CASE s \in roots /\ y \in HeapVPages
      <4>1. Home(kernel_pml4, y) /\ kernel_pml4 # r /\ s \in roots'
        BY <1>k, <2>2, <3>3 DEF Home
      <4>2. Mapping(kernel_pml4, y)' = Mapping(kernel_pml4, y)
        BY <2>1, <4>1
      <4> QED
        BY <1>h, <3>3, <4>1, <4>2 DEF HalvesAgree
    <3> QED
      BY <3>1, <3>2, <3>3 DEF Home, Spaces, PagesOf
  <2>4. Maps' = [t \in Spaces \ {r} |-> Maps[t]]
    <3>1. \A t \in Spaces \ {r} : [v \in PagesOf |-> Mapping(t, v)'] = Maps[t]
      BY <1>m, <2>3
    <3> QED
      BY <1>m, <2>2, <3>1
  <2>5. /\ free \cup {r} \subseteq free' /\ r # wm
        /\ {Maps[r][v] : v \in UserVPages} \ {None} \subseteq free'
    <3>1. r \in Spaces /\ \A v \in UserVPages : Maps[r][v] = Mapping(r, v)
      BY <1>m DEF Spaces, PagesOf
    <3> QED
      BY <2>1, <3>1
  <2>6. Abstract!Mapped' \cap free' = {}
    <3>1. Abstract!Mapped' = {Maps'[s][v] : s \in Spaces' \ {wm}, v \in PagesOf} \ {None}
      <4>1. (Abstract!Mapped = {Maps[s][v] : s \in Spaces \ {wm}, v \in PagesOf} \ {None})'
        BY AbstractIs, PTL
      <4> QED
        BY <4>1 DEF PagesOf, UserVPages, HeapVPages, VPages, wm
    <3>2. \A s \in Spaces' \ {wm}, v \in PagesOf : Maps'[s][v] \notin free'
      BY <1>h, <1>m DEF MappedApart, PagesOf
    <3> QED
      BY <3>1, <3>2
  <2>7. Abstract!Destroy(r)
    BY <1>a, <2>4, <2>5, <2>6, Zenon DEF Abstract!Destroy, Maps
  <2>8. r \in Abstract!Spaces
    BY <1>a DEF Spaces
  <2> QED
    BY <2>7, <2>8 DEF Abstract!Next
<1>6. ASSUME UNCHANGED vars  PROVE UNCHANGED <<Maps, free>>
  BY <1>6 DEF vars, Maps, Mapping, Tables
<1>9. CASE Next
  <2>1. CASE CreateSpace
    BY <1>1, <2>1
  <2>2. CASE \E r \in roots, v \in UserVPages : MapUser(r, v)
    BY <1>2, <2>2
  <2>3. CASE \E v \in HeapVPages : MapKernel(v)
    BY <1>3, <2>3
  <2>4. CASE \E v \in UserVPages, q \in roots \ {wm} : ShareMine(v, q)
    BY <1>7, <2>4
  <2>5. CASE \E v \in UserVPages : ShareTheirs(v)
    BY <1>8, <2>5
  <2>6. CASE \E v \in UserVPages : UnmapPage(v)
    BY <1>4, <2>6
  <2>7. CASE \E r \in roots \ {wm} : Destroy(r)
    BY <1>5, <2>7
  <2> QED
    BY <1>9, <2>1, <2>2, <2>3, <2>4, <2>5, <2>6, <2>7, Zenon DEF Next
<1> QED
  BY <1>6, <1>9

\* The page tables implement address spaces that are maps: a page that a process maps
\* or unmaps changes in no other, a heap page appears in all of them although only the
\* kernel's tree is written, sys_share_mem makes a page appear in two, and the teardown
\* of a process frees what it had mapped and nothing that is still mapped elsewhere,
\* unless the window manager shares it.
THEOREM MapsTheorem == Spec => ImplementsMaps
<1>1. Init => Abstract!Init
  BY AbstractInit
<1>2. TreeInv /\ TreeInv' /\ Lends /\ [Next]_vars => [Abstract!Next]_<<Maps, free>>
  BY AbstractStep
<1>3. Init => Lends
  BY DEF Init, Lends
<1>4. TreeInv /\ TreeInv' /\ Lends /\ [Next]_vars => Lends'
  BY NextLends
<1>5. Spec => Abstract!Init /\ [][Abstract!Next]_<<Maps, free>>
  BY <1>1, <1>2, <1>3, <1>4, TreeInvariant, PTL DEF Spec
<1> QED
  BY <1>5, PTL DEF ImplementsMaps, Abstract!Spec, Maps
=============================================================================
