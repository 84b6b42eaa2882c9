---------------------------- MODULE KHeapProofs ----------------------------
(***************************************************************************)
(* Proofs about the kernel heap for every block size, page size, alignment *)
(* and request: the blocks tile the heap, no two neighbours are free, and  *)
(* every caller keeps the room it asked for.  The three are proved from    *)
(* one inductive invariant.  split_block, coalesce and heap_expand work on *)
(* lists that are not yet the heap's own (krealloc frees in the list that  *)
(* its kmalloc leaves), so the invariant is stated of a list h that ends   *)
(* at e, and one lemma says what each list operation does to it.           *)
(***************************************************************************)
EXTENDS KHeap, TLAPS

\* The record of a header, with its links among the addresses D.
Header(D) == [size : Nat, free : BOOLEAN, next : D \cup {NULL}, prev : D \cup {NULL}]

\* The list h tiles the memory from KHEAP_START to e.  Beyond Tiled it says
\* that back links are matched by forward links and that a last block exists,
\* which hold of a list of any length and cannot be computed from Tiled
\* without an induction along the list.
Chain(h, e) ==
    /\ e \in Nat
    /\ KHEAP_START \in DOMAIN h
    /\ \A b \in DOMAIN h :
          /\ b \in Nat /\ b < e
          /\ h[b] \in Header(DOMAIN h)
          /\ h[b].next = IF End(h, b) = e THEN NULL ELSE End(h, b)
          /\ h[b].next # NULL => h[h[b].next].prev = b
          /\ h[b].prev # NULL => h[h[b].prev].next = b
          /\ h[b].prev = NULL <=> b = KHEAP_START
          /\ \A c \in DOMAIN h : b < c => End(h, b) <= c
    /\ \E b \in DOMAIN h : h[b].next = NULL

\* No two neighbours of h are free.
Coalesced(h) ==
    \A b \in DOMAIN h : h[b].free /\ h[b].next # NULL => ~ h[h[b].next].free

\* The blocks in use.
Used(h) == {b \in DOMAIN h : ~ h[b].free}

\* The inductive invariant.
HeapInv ==
    /\ Chain(block, heap_end)
    /\ Coalesced(block)
    /\ DOMAIN live = Used(block)
    /\ \A b \in DOMAIN live : live[b] \in Nat /\ live[b] <= block[b].size

-----------------------------------------------------------------------------
(***************************************************************************)
(* The list operations.                                                    *)
(***************************************************************************)

\* Rounding up neither loses a byte of the request nor leaves Nat.
LEMMA AlignUpCovers ==
    ASSUME NEW x \in Nat, NEW a \in Nat \ {0}
    PROVE  AlignUp(x, a) \in Nat /\ x <= AlignUp(x, a)
<1> DEFINE q == (x + a - 1) \div a
           r == (x + a - 1) % a
<1>1. q \in Nat /\ r \in 0 .. a - 1 /\ x + a - 1 = a * q + r
  OBVIOUS
<1>2. a * q = q * a /\ a * q \in Nat
  BY <1>1
<1>3. AlignUp(x, a) = q * a
  BY DEF AlignUp
<1> HIDE DEF q, r
<1> QED
  BY <1>1, <1>2, <1>3

\* What Chain says of one block, with the facts that follow from it at once.
LEMMA ChainFacts ==
    ASSUME NEW h, NEW e, Chain(h, e), NEW b \in DOMAIN h
    PROVE  /\ e \in Nat /\ b \in Nat /\ b < e
           /\ h[b].size \in Nat /\ h[b].free \in BOOLEAN
           /\ End(h, b) \in Nat /\ b < End(h, b) /\ End(h, b) <= e
           /\ End(h, b) = b + HeaderSize + h[b].size
           /\ \/ h[b].next = NULL /\ End(h, b) = e
              \/ /\ h[b].next = End(h, b) /\ End(h, b) < e /\ h[b].next # NULL
                 /\ h[b].next \in DOMAIN h
                 /\ h[h[b].next].prev = b
           /\ \/ h[b].prev = NULL /\ b = KHEAP_START
              \/ /\ h[b].prev \in DOMAIN h /\ b # KHEAP_START /\ h[b].prev # NULL
                 /\ h[h[b].prev].next = b
           /\ \A c \in DOMAIN h : c \in Nat /\ (b < c => End(h, b) <= c)
<1>1. /\ b \in Nat /\ b < e
      /\ h[b].size \in Nat /\ h[b].free \in BOOLEAN
      /\ h[b].next \in DOMAIN h \cup {NULL} /\ h[b].prev \in DOMAIN h \cup {NULL}
  BY DEF Chain, Header
<1>2. NULL \notin Nat /\ HeaderSize \in Nat \ {0}
  BY KHeapConstants
<1>3. End(h, b) = b + HeaderSize + h[b].size /\ End(h, b) \in Nat /\ b < End(h, b)
  BY <1>1, <1>2 DEF End
<1>4. /\ h[b].next = IF End(h, b) = e THEN NULL ELSE End(h, b)
      /\ h[b].next # NULL => h[h[b].next].prev = b
      /\ h[b].prev # NULL => h[h[b].prev].next = b
      /\ h[b].prev = NULL <=> b = KHEAP_START
      /\ e \in Nat
  BY DEF Chain
<1>5. \A c \in DOMAIN h : c \in Nat /\ c < e /\ (b < c => End(h, b) <= c)
  BY DEF Chain
<1>6. End(h, b) # e => End(h, b) \in DOMAIN h /\ End(h, b) < e
  BY <1>1, <1>2, <1>3, <1>4, <1>5
<1> HIDE DEF Chain
<1> QED
  BY <1>1, <1>2, <1>3, <1>4, <1>5, <1>6

\* g is the list h after b has swallowed its free successor n: n's bytes and
\* its header have joined b, n's own successor is linked back to b, every other
\* block is as it was.
Merged(h, b, n, g) ==
    /\ DOMAIN g = DOMAIN h \ {n}
    /\ \A c \in DOMAIN g :
          /\ g[c] \in Header(DOMAIN h)
          /\ g[c].free = h[c].free
          /\ g[c].size = IF c = b THEN h[b].size + HeaderSize + h[n].size
                                  ELSE h[c].size
          /\ g[c].next = IF c = b THEN h[n].next ELSE h[c].next
          /\ g[c].prev = IF c = h[n].next THEN b ELSE h[c].prev

\* What the merge of coalesce does to the headers.
LEMMA MergeFields ==
    ASSUME NEW h, NEW e, Chain(h, e), NEW b \in DOMAIN h,
           h[b].next # NULL, h[h[b].next].free
    PROVE  Merged(h, b, h[b].next, MergeNext(h, b))
<1> DEFINE n == h[b].next
           g == MergeNext(h, b)
<1>1. /\ n \in DOMAIN h /\ b # n /\ h[n].next # b /\ n # h[n].next
      /\ HeaderSize \in Nat
  BY ChainFacts, KHeapConstants
<1>2. g = [c \in DOMAIN h \ {n} |->
             IF c = b
             THEN [h[b] EXCEPT !.size = @ + HeaderSize + h[n].size,
                               !.next = h[n].next]
             ELSE IF c = h[n].next THEN [h[c] EXCEPT !.prev = b] ELSE h[c]]
  BY DEF MergeNext
<1>3. \A c \in DOMAIN h :
         h[c] \in Header(DOMAIN h)
  BY DEF Chain
<1> HIDE DEF g, n
<1>4. DOMAIN g = DOMAIN h \ {n}
  BY <1>2
<1>5. ASSUME NEW c \in DOMAIN g
      PROVE  /\ g[c] \in Header(DOMAIN h)
             /\ g[c].free = h[c].free
             /\ g[c].size = IF c = b THEN h[b].size + HeaderSize + h[n].size
                                     ELSE h[c].size
             /\ g[c].next = IF c = b THEN h[n].next ELSE h[c].next
             /\ g[c].prev = IF c = h[n].next THEN b ELSE h[c].prev
  <2>1. CASE c = b
    <3>1. g[c] = [h[b] EXCEPT !.size = @ + HeaderSize + h[n].size,
                              !.next = h[n].next]
      BY <1>2, <1>4, <2>1
    <3>2. /\ h[b] \in Header(DOMAIN h) /\ h[n].size \in Nat
          /\ h[n].next \in DOMAIN h \cup {NULL}
      BY <1>1, <1>3 DEF Header
    <3>3. /\ h[b].size \in Nat /\ h[b].free \in BOOLEAN
          /\ h[b].prev \in DOMAIN h \cup {NULL}
      BY <3>2 DEF Header
    <3>4. g[c] = [size |-> h[b].size + HeaderSize + h[n].size, free |-> h[b].free,
                  next |-> h[n].next, prev |-> h[b].prev]
      BY <3>1, <3>2 DEF Header
    <3>5. h[b].size + HeaderSize + h[n].size \in Nat
      BY <1>1, <3>2, <3>3
    <3> QED
      BY <1>1, <2>1, <3>2, <3>3, <3>4, <3>5 DEF Header
  <2>2. CASE c # b /\ c = h[n].next
    <3>1. g[c] = [h[c] EXCEPT !.prev = b]
      BY <1>2, <1>4, <2>2
    <3>2. c \in DOMAIN h /\ h[c] \in Header(DOMAIN h)
      BY <1>3, <1>4
    <3> QED
      BY <2>2, <3>1, <3>2 DEF Header
  <2>3. CASE c # b /\ c # h[n].next
    BY <1>1, <1>2, <1>3, <1>4, <2>3
  <2> QED
    BY <2>1, <2>2, <2>3
<1> QED
  BY <1>4, <1>5 DEF g, n, Merged

\* The merge keeps the list a tiling of the same memory.
LEMMA MergeChain ==
    ASSUME NEW h, NEW e, Chain(h, e), NEW b \in DOMAIN h,
           h[b].next # NULL, h[h[b].next].free
    PROVE  Chain(MergeNext(h, b), e)
<1> DEFINE n == h[b].next
           g == MergeNext(h, b)
<1>1. Merged(h, b, n, g)
  BY MergeFields
<1> USE <1>1 DEF Merged
<1> HIDE DEF g
<1>2. /\ n \in DOMAIN h /\ n = End(h, b) /\ b < n /\ h[n].prev = b
      /\ \A c \in DOMAIN h : b < c => n <= c
  BY ChainFacts
<1>3. NULL \notin Nat /\ HeaderSize \in Nat \ {0} /\ KHEAP_START \in Nat
  BY KHeapConstants DEF KHEAP_START
<1>4. \A c \in DOMAIN g : End(g, c) = IF c = b THEN End(h, n) ELSE End(h, c)
  <2> TAKE c \in DOMAIN g
  <2>1. /\ End(h, b) = b + HeaderSize + h[b].size /\ h[b].size \in Nat
        /\ End(h, n) = n + HeaderSize + h[n].size /\ h[n].size \in Nat
        /\ b \in Nat /\ n \in Nat
    BY <1>2, ChainFacts
  <2> QED
    BY <1>1, <1>2, <1>3, <2>1 DEF End
<1>5. e \in Nat /\ KHEAP_START \in DOMAIN g
  <2>1. e \in Nat /\ KHEAP_START \in DOMAIN h
    BY DEF Chain
  <2>2. b \in Nat /\ n # KHEAP_START
    BY <1>2, ChainFacts DEF KHEAP_START
  <2> QED
    BY <1>1, <2>1, <2>2
<1>6. \E c \in DOMAIN g : g[c].next = NULL
  <2>1. PICK c \in DOMAIN h : h[c].next = NULL
    BY DEF Chain
  <2>2. CASE c = n
    BY <1>1, <2>1, <2>2
  <2>3. CASE c # n
    BY <1>1, <2>1, <2>3
  <2> QED
    BY <2>2, <2>3
<1>7. ASSUME NEW c \in DOMAIN g
      PROVE  /\ c \in Nat /\ c < e
             /\ g[c] \in Header(DOMAIN g)
             /\ g[c].next = IF End(g, c) = e THEN NULL ELSE End(g, c)
             /\ g[c].next # NULL => g[g[c].next].prev = c
             /\ g[c].prev # NULL => g[g[c].prev].next = c
             /\ g[c].prev = NULL <=> c = KHEAP_START
             /\ \A d \in DOMAIN g : c < d => End(g, c) <= d
  <2>1. c \in DOMAIN h /\ c # n /\ c \in Nat /\ c < e
    BY <1>1, ChainFacts
  <2>2. g[c].next # n /\ g[c].prev # n
    <3>1. h[c].next = n => c = b
      BY <1>2, <2>1, ChainFacts
    <3>2. h[n].next # n
      BY <1>2, ChainFacts
    <3>3. h[c].prev = n => c = h[n].next
      BY <1>2, <2>1, ChainFacts
    <3> QED
      BY <1>1, <1>2, <3>1, <3>2, <3>3
  <2>3. g[c] \in Header(DOMAIN g)
    BY <1>1, <2>2 DEF Header
  <2>4. g[c].next = IF End(g, c) = e THEN NULL ELSE End(g, c)
    BY <1>1, <1>2, <1>4, <2>1 DEF Chain
  <2>5. g[c].next # NULL => g[g[c].next].prev = c
    <3> SUFFICES ASSUME g[c].next # NULL
                 PROVE  g[g[c].next].prev = c
      OBVIOUS
    <3>1. g[c].next \in DOMAIN g
      BY <2>3 DEF Header
    <3>2. CASE c = b
      BY <1>1, <3>1, <3>2
    <3>3. CASE c # b
      <4>1. h[c].next \in DOMAIN h /\ h[h[c].next].prev = c /\ g[c].next = h[c].next
        BY <1>1, <2>1, <3>3, ChainFacts
      <4>2. h[c].next # h[n].next
        BY <1>2, <2>1, <4>1, ChainFacts
      <4> QED
        BY <1>1, <3>1, <4>1, <4>2
    <3> QED
      BY <3>2, <3>3
  <2>6. g[c].prev # NULL => g[g[c].prev].next = c
    <3> SUFFICES ASSUME g[c].prev # NULL
                 PROVE  g[g[c].prev].next = c
      OBVIOUS
    <3>1. g[c].prev \in DOMAIN g
      BY <2>3 DEF Header
    <3>2. CASE c = h[n].next
      BY <1>1, <3>1, <3>2
    <3>3. CASE c # h[n].next
      <4>1. h[c].prev \in DOMAIN h /\ h[h[c].prev].next = c /\ g[c].prev = h[c].prev
        BY <1>1, <2>1, <3>3, ChainFacts
      <4>2. h[c].prev # b
        BY <2>1, <4>1
      <4> QED
        BY <1>1, <3>1, <4>1, <4>2
    <3> QED
      BY <3>2, <3>3
  <2>7. g[c].prev = NULL <=> c = KHEAP_START
    <3>1. h[c].prev = NULL <=> c = KHEAP_START
      BY <2>1 DEF Chain
    <3>2. c = h[n].next => c # KHEAP_START /\ b # NULL
      BY <1>2, <1>3, ChainFacts DEF KHEAP_START
    <3> QED
      BY <1>1, <3>1, <3>2
  <2>8. ASSUME NEW d \in DOMAIN g, c < d
        PROVE  End(g, c) <= d
    <3>1. d \in DOMAIN h /\ d # n /\ d \in Nat
      BY <1>1, ChainFacts
    <3>2. CASE c = b
      <4>1. n < d
        <5>1. n <= d /\ n \in Nat
          BY <1>2, <2>8, <3>1, <3>2, ChainFacts
        <5> QED
          BY <3>1, <5>1
      <4> QED
        BY <1>2, <1>4, <3>1, <3>2, <4>1, ChainFacts
    <3>3. CASE c # b
      BY <1>4, <2>1, <2>8, <3>1, <3>3, ChainFacts
    <3> QED
      BY <3>2, <3>3
  <2> QED
    BY <2>1, <2>3, <2>4, <2>5, <2>6, <2>7, <2>8
<1>8. Chain(g, e)
  BY <1>5, <1>6, <1>7 DEF Chain
<1> QED
  BY <1>8 DEF g

\* A list with the sizes and links of a tiling is one, whatever is free in it.
LEMMA SameLinks ==
    ASSUME NEW h, NEW e, Chain(h, e), NEW g, DOMAIN g = DOMAIN h,
           \A c \in DOMAIN h :
              /\ g[c] \in Header(DOMAIN h)
              /\ g[c].size = h[c].size /\ g[c].next = h[c].next /\ g[c].prev = h[c].prev
    PROVE  Chain(g, e)
<1>1. \A c \in DOMAIN h : End(g, c) = End(h, c)
  BY DEF End
<1>2. e \in Nat /\ KHEAP_START \in DOMAIN g /\ \E c \in DOMAIN g : g[c].next = NULL
  BY DEF Chain
<1>3. ASSUME NEW c \in DOMAIN g
      PROVE  /\ c \in Nat /\ c < e
             /\ g[c] \in Header(DOMAIN g)
             /\ g[c].next = IF End(g, c) = e THEN NULL ELSE End(g, c)
             /\ g[c].next # NULL => g[g[c].next].prev = c
             /\ g[c].prev # NULL => g[g[c].prev].next = c
             /\ g[c].prev = NULL <=> c = KHEAP_START
             /\ \A d \in DOMAIN g : c < d => End(g, c) <= d
  <2>1. /\ h[c].next \in DOMAIN h \cup {NULL} /\ h[c].prev \in DOMAIN h \cup {NULL}
    BY DEF Header
  <2> QED
    BY <1>1, <2>1 DEF Chain
<1> QED
  BY <1>2, <1>3 DEF Chain

\* g is the list h after split_block has cut b behind its first n bytes: the
\* rest, less a header, is the free block at address new.
Cut(h, b, n, new, g) ==
    /\ DOMAIN g = DOMAIN h \cup {new}
    /\ \A c \in DOMAIN g :
          /\ g[c] \in Header(DOMAIN g)
          /\ g[c].free = IF c = new THEN TRUE ELSE h[c].free
          /\ g[c].size = IF c = b THEN n
                         ELSE IF c = new THEN h[b].size - n - HeaderSize ELSE h[c].size
          /\ g[c].next = IF c = b THEN new ELSE IF c = new THEN h[b].next ELSE h[c].next
          /\ g[c].prev = IF c = new THEN b ELSE IF c = h[b].next THEN new ELSE h[c].prev

\* Where a block is large enough to be split, the new header lies inside it.
LEMMA CutInside ==
    ASSUME NEW h, NEW e, Chain(h, e), NEW b \in DOMAIN h, NEW n \in Nat,
           ~ (h[b].size < n + HeaderSize + MIN_SPLIT)
    PROVE  LET new == b + HeaderSize + n
           IN  /\ new \in Nat /\ b < new /\ new < End(h, b) /\ new \notin DOMAIN h
               /\ new + HeaderSize + (h[b].size - n - HeaderSize) = End(h, b)
               /\ h[b].size - n - HeaderSize \in Nat
               /\ h[b].next # b /\ h[b].next # new
<1> DEFINE new == b + HeaderSize + n
<1>1. /\ HeaderSize \in Nat \ {0} /\ MIN_SPLIT \in Nat /\ NULL \notin Nat
  BY KHeapConstants
<1>2. /\ b \in Nat /\ h[b].size \in Nat /\ End(h, b) = b + HeaderSize + h[b].size
      /\ \A c \in DOMAIN h : c \in Nat /\ (b < c => End(h, b) <= c)
      /\ h[b].next = NULL \/ h[b].next = End(h, b)
  BY ChainFacts
<1>3. /\ new \in Nat /\ b < new /\ new < End(h, b)
      /\ new + HeaderSize + (h[b].size - n - HeaderSize) = End(h, b)
      /\ h[b].size - n - HeaderSize \in Nat
  BY <1>1, <1>2
<1>4. new \notin DOMAIN h /\ h[b].next # b /\ h[b].next # new
  BY <1>1, <1>2, <1>3
<1> QED
  BY <1>3, <1>4

\* What split_block does to the headers.
LEMMA SplitFields ==
    ASSUME NEW h, NEW e, Chain(h, e), NEW b \in DOMAIN h, NEW n \in Nat,
           ~ (h[b].size < n + HeaderSize + MIN_SPLIT)
    PROVE  Cut(h, b, n, b + HeaderSize + n, Split(h, b, n))
<1> DEFINE new == b + HeaderSize + n
           g == Split(h, b, n)
           rest == h[b].size - n - HeaderSize
<1>1. g = [c \in DOMAIN h \cup {new} |->
              IF c = b THEN [h[b] EXCEPT !.size = n, !.next = new]
              ELSE IF c = new
              THEN [size |-> rest, free |-> TRUE, next |-> h[b].next, prev |-> b]
              ELSE IF c = h[b].next THEN [h[c] EXCEPT !.prev = new] ELSE h[c]]
  BY DEF Split
<1>2. b # new /\ new \notin DOMAIN h /\ rest \in Nat /\ h[b].next # b /\ h[b].next # new
  <2>1. b \in Nat
    BY ChainFacts
  <2> QED
    BY <2>1, CutInside
<1>3. \A c \in DOMAIN h : h[c] \in Header(DOMAIN h)
  BY DEF Chain
<1> HIDE DEF g, new, rest
<1>4. DOMAIN g = DOMAIN h \cup {new}
  BY <1>1
<1>5. ASSUME NEW c \in DOMAIN g
      PROVE  /\ g[c] \in Header(DOMAIN g)
             /\ g[c].free = IF c = new THEN TRUE ELSE h[c].free
             /\ g[c].size = IF c = b THEN n ELSE IF c = new THEN rest ELSE h[c].size
             /\ g[c].next = IF c = b THEN new
                            ELSE IF c = new THEN h[b].next ELSE h[c].next
             /\ g[c].prev = IF c = new THEN b
                            ELSE IF c = h[b].next THEN new ELSE h[c].prev
  <2>1. h[b] \in Header(DOMAIN h) /\ h[b].next \in DOMAIN h \cup {NULL}
    BY <1>3 DEF Header
  <2>2. CASE c = b
    <3>1. g[c] = [h[b] EXCEPT !.size = n, !.next = new]
      BY <1>1, <2>2
    <3> QED
      BY <1>2, <1>4, <2>1, <2>2, <3>1 DEF Header
  <2>3. CASE c = new
    <3>1. g[c] = [size |-> rest, free |-> TRUE, next |-> h[b].next, prev |-> b]
      BY <1>1, <1>2, <2>3
    <3> QED
      BY <1>2, <1>4, <2>1, <2>3, <3>1 DEF Header
  <2>4. CASE c # b /\ c # new /\ c = h[b].next
    <3>1. g[c] = [h[c] EXCEPT !.prev = new] /\ h[c] \in Header(DOMAIN h)
      BY <1>1, <1>3, <1>4, <2>4
    <3> QED
      BY <1>4, <2>4, <3>1 DEF Header
  <2>5. CASE c # b /\ c # new /\ c # h[b].next
    <3>1. g[c] = h[c] /\ h[c] \in Header(DOMAIN h)
      BY <1>1, <1>3, <1>4, <2>5
    <3> QED
      BY <1>4, <2>5, <3>1 DEF Header
  <2> QED
    BY <2>2, <2>3, <2>4, <2>5
<1> QED
  BY <1>4, <1>5 DEF Cut, g, new, rest

\* split_block keeps the list a tiling of the same memory.
LEMMA SplitChain ==
    ASSUME NEW h, NEW e, Chain(h, e), NEW b \in DOMAIN h, NEW n \in Nat,
           ~ (h[b].size < n + HeaderSize + MIN_SPLIT)
    PROVE  Chain(Split(h, b, n), e)
<1> DEFINE new == b + HeaderSize + n
           g == Split(h, b, n)
<1>1. Cut(h, b, n, new, g)
  BY SplitFields
<1>2. /\ new \in Nat /\ b < new /\ new < End(h, b) /\ new \notin DOMAIN h
      /\ new + HeaderSize + (h[b].size - n - HeaderSize) = End(h, b)
      /\ h[b].next # b /\ h[b].next # new
  BY CutInside
<1>3. NULL \notin Nat /\ HeaderSize \in Nat \ {0} /\ KHEAP_START \in Nat
  BY KHeapConstants DEF KHEAP_START
<1>4. /\ b \in Nat /\ b < e /\ e \in Nat /\ End(h, b) <= e /\ End(h, b) \in Nat
      /\ \A c \in DOMAIN h : c \in Nat /\ (b < c => End(h, b) <= c)
  BY ChainFacts
<1>5. b + HeaderSize + n = new
  OBVIOUS
<1> HIDE DEF g, new
<1>6. /\ DOMAIN g = DOMAIN h \cup {new}
      /\ g[new].next = h[b].next /\ g[new].prev = b
      /\ g[b].next = new /\ g[b].prev = h[b].prev
      /\ \A c \in DOMAIN h \ {b} : g[c].next = h[c].next
      /\ \A c \in DOMAIN h : c # h[b].next => g[c].prev = h[c].prev
      /\ h[b].next \in DOMAIN h => g[h[b].next].prev = new
      /\ \A c \in DOMAIN g : g[c] \in Header(DOMAIN g)
  BY <1>1, <1>2 DEF Cut
<1>7. \A c \in DOMAIN g : End(g, c) = IF c = b THEN new
                                      ELSE IF c = new THEN End(h, b) ELSE End(h, c)
  BY <1>1, <1>2, <1>5 DEF Cut, End
<1>8. KHEAP_START \in DOMAIN g /\ \E c \in DOMAIN g : g[c].next = NULL
  <2>1. KHEAP_START \in DOMAIN h
    BY DEF Chain
  <2>2. PICK c \in DOMAIN h : h[c].next = NULL
    BY DEF Chain
  <2>3. c # new
    BY <1>2
  <2>4. CASE c = b
    BY <1>6, <2>1, <2>2, <2>4
  <2>5. CASE c # b
    BY <1>6, <2>1, <2>2, <2>3, <2>5
  <2> QED
    BY <1>6, <2>1, <2>4, <2>5
<1>9. ASSUME NEW c \in DOMAIN g
      PROVE  /\ c \in Nat /\ c < e
             /\ g[c] \in Header(DOMAIN g)
             /\ g[c].next = IF End(g, c) = e THEN NULL ELSE End(g, c)
             /\ g[c].next # NULL => g[g[c].next].prev = c
             /\ g[c].prev # NULL => g[g[c].prev].next = c
             /\ g[c].prev = NULL <=> c = KHEAP_START
             /\ \A d \in DOMAIN g : c < d => End(g, c) <= d
  <2>1. c \in Nat /\ c < e
    BY <1>2, <1>4, <1>6, ChainFacts
  <2>2. g[c] \in Header(DOMAIN g)
    BY <1>6
  <2>3. g[c].next = IF End(g, c) = e THEN NULL ELSE End(g, c)
    <3>1. \A d \in DOMAIN h : h[d].next = IF End(h, d) = e THEN NULL ELSE End(h, d)
      BY DEF Chain
    <3> QED
      BY <1>2, <1>4, <1>7, <1>6, <3>1
  <2>4. g[c].next # NULL => g[g[c].next].prev = c
    <3> SUFFICES ASSUME g[c].next # NULL
                 PROVE  g[g[c].next].prev = c
      OBVIOUS
    <3>1. g[c].next \in DOMAIN g
      BY <2>2 DEF Header
    <3>2. CASE c = b
      BY <1>6, <3>2
    <3>3. CASE c = new
      BY <1>2, <1>4, <1>6, <3>1, <3>3
    <3>4. CASE c # b /\ c # new
      <4>1. h[c].next \in DOMAIN h /\ h[h[c].next].prev = c /\ g[c].next = h[c].next
        BY <1>6, <3>4, ChainFacts
      <4>2. h[c].next # new /\ h[c].next # h[b].next
        BY <1>2, <3>4, <4>1, ChainFacts
      <4> QED
        BY <1>6, <4>1, <4>2
    <3> QED
      BY <3>2, <3>3, <3>4
  <2>5. g[c].prev # NULL => g[g[c].prev].next = c
    <3> SUFFICES ASSUME g[c].prev # NULL
                 PROVE  g[g[c].prev].next = c
      OBVIOUS
    <3>1. g[c].prev \in DOMAIN g
      BY <2>2 DEF Header
    <3>2. CASE c = new
      BY <1>2, <1>4, <1>6, <3>1, <3>2
    <3>3. CASE c # new /\ c = h[b].next
      BY <1>2, <1>4, <1>6, <3>1, <3>3
    <3>4. CASE c # new /\ c # h[b].next
      <4>1. h[c].prev \in DOMAIN h /\ h[h[c].prev].next = c /\ g[c].prev = h[c].prev
        BY <1>6, <3>4, ChainFacts
      <4>2. h[c].prev # new /\ h[c].prev # b
        BY <1>2, <3>4, <4>1
      <4> QED
        BY <1>6, <4>1, <4>2
    <3> QED
      BY <3>2, <3>3, <3>4
  <2>6. g[c].prev = NULL <=> c = KHEAP_START
    <3>1. c \in DOMAIN h => (h[c].prev = NULL <=> c = KHEAP_START)
      BY DEF Chain
    <3>2. new # KHEAP_START /\ h[b].next # KHEAP_START /\ b # NULL /\ new # NULL
      BY <1>2, <1>3, <1>4, ChainFacts DEF KHEAP_START
    <3> QED
      BY <1>6, <3>1, <3>2
  <2>7. ASSUME NEW d \in DOMAIN g, c < d
        PROVE  End(g, c) <= d
    <3>1. d \in Nat
      BY <1>2, <1>4, <1>6
    <3>2. CASE c \in DOMAIN h /\ d \in DOMAIN h
      <4>1. End(h, c) <= d /\ End(h, c) \in Nat
        BY <2>7, <3>2, ChainFacts
      <4> QED
        BY <1>2, <1>4, <1>7, <1>6, <3>1, <3>2, <4>1
    <3>3. CASE c = new
      BY <1>2, <1>4, <1>7, <1>6, <2>7, <3>1, <3>3
    <3>4. CASE c \in DOMAIN h /\ d = new
      <4>1. CASE c = b
        BY <1>2, <1>7, <1>6, <3>4, <4>1
      <4>2. CASE c # b
        <5>1. c < b
          BY <1>2, <1>4, <2>1, <2>7, <3>4, <4>2
        <5>2. End(h, c) <= b /\ End(h, c) \in Nat
          BY <3>4, <5>1, ChainFacts
        <5> QED
          BY <1>2, <1>4, <1>7, <1>6, <3>4, <4>2, <5>2
      <4> QED
        BY <4>1, <4>2
    <3> QED
      BY <1>6, <3>2, <3>3, <3>4
  <2> QED
    BY <2>1, <2>2, <2>3, <2>4, <2>5, <2>6, <2>7
<1>10. Chain(g, e)
  BY <1>4, <1>8, <1>9 DEF Chain
<1> QED
  BY <1>10 DEF g

\* get_last_block finds the one block that ends at the end of the heap.
LEMMA LastBlockEnds ==
    ASSUME NEW h, NEW e, Chain(h, e)
    PROVE  /\ LastBlock(h) \in DOMAIN h
           /\ h[LastBlock(h)].next = NULL /\ End(h, LastBlock(h)) = e
           /\ \A c \in DOMAIN h : h[c].next = NULL => c = LastBlock(h)
<1>1. \E b \in DOMAIN h : h[b].next = NULL
  BY DEF Chain
<1>2. LastBlock(h) \in DOMAIN h /\ h[LastBlock(h)].next = NULL
  BY <1>1 DEF LastBlock
<1> DEFINE l == LastBlock(h)
<1> HIDE DEF l
<1>3. End(h, l) = e /\ l \in Nat /\ e \in Nat /\ l < e
  BY <1>2, ChainFacts DEF l
<1>4. ASSUME NEW c \in DOMAIN h, h[c].next = NULL
      PROVE  c = l
  <2>1. c \in Nat /\ End(h, c) = e /\ c < e
    BY <1>4, ChainFacts
  <2>2. (c < l => End(h, c) <= l) /\ (l < c => End(h, l) <= c)
    BY <1>2, ChainFacts DEF l
  <2> QED
    BY <1>3, <2>1, <2>2
<1> QED
  BY <1>2, <1>3, <1>4 DEF l

\* heap_expand appends a block of s bytes, header included, behind the last one.
LEMMA ExpandChain ==
    ASSUME NEW n \in Nat, HeaderSize <= n, Chain(block, heap_end)
    PROVE  LET g == Expand(block, n)
               s == AlignUp(n, PAGE_SIZE)
           IN  /\ Chain(g, heap_end + s)
               /\ DOMAIN g = DOMAIN block \cup {heap_end}
               /\ heap_end \notin DOMAIN block
               /\ g[heap_end].size = s - HeaderSize /\ n <= s /\ s \in Nat
               /\ g[heap_end].next = NULL
               /\ \A c \in DOMAIN block :
                     /\ g[c].free = block[c].free /\ g[c].size = block[c].size
                     /\ g[c].next = IF c = LastBlock(block) THEN heap_end
                                    ELSE block[c].next
<1> DEFINE g == Expand(block, n)
           s == AlignUp(n, PAGE_SIZE)
           l == LastBlock(block)
           h == block
           e == heap_end
<1>1. s \in Nat /\ n <= s
  BY AlignUpCovers, KHeapConstants
<1>2. /\ NULL \notin Nat /\ HeaderSize \in Nat \ {0} /\ KHEAP_START \in Nat
  BY KHeapConstants DEF KHEAP_START
<1>3. s - HeaderSize \in Nat /\ e \in Nat /\ e + s \in Nat /\ e < e + s
  BY <1>1, <1>2 DEF Chain
<1>4. g = [c \in DOMAIN h \cup {e} |->
             IF c = e
             THEN [size |-> s - HeaderSize, free |-> TRUE, next |-> NULL, prev |-> l]
             ELSE IF c = l THEN [h[c] EXCEPT !.next = e] ELSE h[c]]
  BY DEF Expand
<1>5. /\ l \in DOMAIN h /\ h[l].next = NULL /\ End(h, l) = e
      /\ \A c \in DOMAIN h : h[c].next = NULL => c = l
  BY LastBlockEnds
<1>6. /\ \A c \in DOMAIN h : c \in Nat /\ c < e /\ h[c] \in Header(DOMAIN h)
      /\ e \notin DOMAIN h
  BY <1>3 DEF Chain
<1> HIDE DEF g, s, l
<1>7. /\ DOMAIN g = DOMAIN h \cup {e}
      /\ g[e] = [size |-> s - HeaderSize, free |-> TRUE, next |-> NULL, prev |-> l]
      /\ \A c \in DOMAIN h :
            g[c] = IF c = l THEN [h[c] EXCEPT !.next = e] ELSE h[c]
  BY <1>4, <1>6
<1>8. /\ g[e] \in Header(DOMAIN g)
      /\ g[e].size = s - HeaderSize /\ g[e].next = NULL /\ g[e].prev = l
  BY <1>3, <1>5, <1>7 DEF Header
<1>9. ASSUME NEW c \in DOMAIN h
      PROVE  /\ g[c] \in Header(DOMAIN g)
             /\ g[c].free = h[c].free /\ g[c].size = h[c].size
             /\ g[c].next = IF c = l THEN e ELSE h[c].next
             /\ g[c].prev = h[c].prev
  <2>1. h[c] \in Header(DOMAIN h)
    BY <1>6
  <2>2. CASE c = l
    <3>1. g[c] = [h[c] EXCEPT !.next = e]
      BY <1>7, <2>2
    <3> QED
      BY <1>7, <2>1, <2>2, <3>1 DEF Header
  <2>3. CASE c # l
    <3>1. g[c] = h[c]
      BY <1>7, <2>3
    <3> QED
      BY <1>7, <2>1, <2>3, <3>1 DEF Header
  <2> QED
    BY <2>2, <2>3
<1>10. End(g, e) = e + s /\ \A c \in DOMAIN h : End(g, c) = End(h, c)
  BY <1>1, <1>2, <1>3, <1>8, <1>9 DEF End
<1>11. KHEAP_START \in DOMAIN h
  BY DEF Chain
<1>12. ASSUME NEW c \in DOMAIN g
       PROVE  /\ c \in Nat /\ c < e + s
              /\ g[c] \in Header(DOMAIN g)
              /\ g[c].next = IF End(g, c) = e + s THEN NULL ELSE End(g, c)
              /\ g[c].next # NULL => g[g[c].next].prev = c
              /\ g[c].prev # NULL => g[g[c].prev].next = c
              /\ g[c].prev = NULL <=> c = KHEAP_START
              /\ \A d \in DOMAIN g : c < d => End(g, c) <= d
  <2>1. CASE c = e
    <3>1. g[l].next = e /\ l # NULL /\ e # KHEAP_START
      BY <1>2, <1>5, <1>6, <1>9, <1>11
    <3>2. \A d \in DOMAIN g : ~ (c < d)
      BY <1>3, <1>6, <1>7, <2>1
    <3> QED
      BY <1>3, <1>8, <1>10, <2>1, <3>1, <3>2
  <2>2. CASE c \in DOMAIN h
    <3>1. /\ c \in Nat /\ c < e /\ End(h, c) \in Nat /\ End(h, c) <= e
          /\ \/ h[c].next = NULL /\ End(h, c) = e
             \/ /\ h[c].next = End(h, c) /\ End(h, c) < e /\ h[c].next # NULL
                /\ h[c].next \in DOMAIN h
                /\ h[h[c].next].prev = c
          /\ \/ h[c].prev = NULL /\ c = KHEAP_START
             \/ /\ h[c].prev \in DOMAIN h /\ c # KHEAP_START /\ h[c].prev # NULL
                /\ h[h[c].prev].next = c
          /\ \A d \in DOMAIN h : c < d => End(h, c) <= d
      BY <2>2, ChainFacts
    <3>2. c \in Nat /\ c < e + s /\ g[c] \in Header(DOMAIN g)
      BY <1>3, <1>9, <2>2, <3>1
    <3>3. g[c].next = IF End(g, c) = e + s THEN NULL ELSE End(g, c)
      <4>1. CASE c = l
        BY <1>2, <1>3, <1>5, <1>9, <1>10, <2>2, <4>1
      <4>2. CASE c # l
        BY <1>3, <1>5, <1>9, <1>10, <2>2, <3>1, <4>2
      <4> QED
        BY <4>1, <4>2
    <3>4. g[c].next # NULL => g[g[c].next].prev = c
      <4>1. CASE c = l
        BY <1>8, <1>9, <2>2, <4>1
      <4>2. CASE c # l
        BY <1>5, <1>9, <2>2, <3>1, <4>2
      <4> QED
        BY <4>1, <4>2
    <3>5. g[c].prev # NULL => g[g[c].prev].next = c
      <4> SUFFICES ASSUME g[c].prev # NULL
                   PROVE  g[g[c].prev].next = c
        OBVIOUS
      <4>1. g[c].prev = h[c].prev /\ h[c].prev \in DOMAIN h /\ h[h[c].prev].next = c
        BY <1>9, <2>2, <3>1
      <4>2. h[c].prev # l
        BY <1>2, <1>5, <3>1, <4>1
      <4> QED
        BY <1>9, <4>1, <4>2
    <3>6. g[c].prev = NULL <=> c = KHEAP_START
      BY <1>9, <2>2, <3>1
    <3>7. \A d \in DOMAIN g : c < d => End(g, c) <= d
      BY <1>7, <1>10, <2>2, <3>1
    <3> QED
      BY <3>2, <3>3, <3>4, <3>5, <3>6, <3>7
  <2> QED
    BY <1>7, <2>1, <2>2
<1>13. \E c \in DOMAIN g : g[c].next = NULL
  BY <1>7, <1>8
<1>14. Chain(g, e + s)
  BY <1>3, <1>7, <1>11, <1>12, <1>13 DEF Chain
<1> QED
  BY <1>1, <1>6, <1>7, <1>8, <1>9, <1>14 DEF g, s, l

\* kfree: the block leaves the blocks in use, alone; whichever neighbours it is
\* merged with, the list is again a tiling without free neighbours.
LEMMA FreeWorks ==
    ASSUME NEW h, NEW e, Chain(h, e), Coalesced(h), NEW b \in Used(h)
    PROVE  LET g == Free(h, b)
           IN  /\ Chain(g, e) /\ Coalesced(g)
               /\ Used(g) = Used(h) \ {b}
               /\ \A c \in Used(g) : g[c].size = h[c].size
<1> DEFINE f == [h EXCEPT ![b].free = TRUE]
           m == MergeNext(f, b)
           p == m[b].prev
           g == Free(h, b)
<1>1. b \in DOMAIN h /\ ~ h[b].free
  BY DEF Used
<1>2. /\ Chain(f, e) /\ DOMAIN f = DOMAIN h
      /\ \A c \in DOMAIN h :
            /\ f[c].size = h[c].size /\ f[c].next = h[c].next /\ f[c].prev = h[c].prev
            /\ f[c].free = IF c = b THEN TRUE ELSE h[c].free
  <2>1. \A c \in DOMAIN h : h[c] \in Header(DOMAIN h)
    BY DEF Chain
  <2>2. DOMAIN f = DOMAIN h
    OBVIOUS
  <2>3. \A c \in DOMAIN h :
           /\ f[c] \in Header(DOMAIN h)
           /\ f[c].size = h[c].size /\ f[c].next = h[c].next /\ f[c].prev = h[c].prev
           /\ f[c].free = IF c = b THEN TRUE ELSE h[c].free
    BY <1>1, <2>1 DEF Header
  <2> HIDE DEF f
  <2> QED
    BY <2>2, <2>3, SameLinks
<1>3. g = IF p # NULL /\ m[p].free THEN MergeNext(m, p) ELSE m
  BY DEF Free, Coalesce
<1> HIDE DEF f, m, p, g
\* After the first merge b is free, and only its predecessor can be a free
\* neighbour of it.
<1>4. /\ Chain(m, e) /\ b \in DOMAIN m /\ m[b].free /\ m[b].prev = h[b].prev
      /\ m[b].next # NULL => m[b].next \in DOMAIN m /\ ~ m[m[b].next].free
      /\ \A c \in DOMAIN m \ {b} :
            /\ c \in DOMAIN h /\ m[c].size = h[c].size /\ m[c].free = h[c].free
            /\ m[c].next = h[c].next
      /\ Used(m) = Used(h) \ {b}
  <2>1. CASE f[b].next = NULL \/ ~ f[f[b].next].free
    <3>1. m = f
      BY <2>1 DEF m, MergeNext
    <3>2. m[b].next # NULL => m[b].next \in DOMAIN m
      BY <1>1, <1>2, <3>1, ChainFacts
    <3> QED
      BY <1>1, <1>2, <2>1, <3>1, <3>2 DEF Used
  <2>2. CASE f[b].next # NULL /\ f[f[b].next].free
    <3> DEFINE n == f[b].next
    <3>1. Merged(f, b, n, m) /\ Chain(m, e)
      BY <1>1, <1>2, <2>2, MergeFields, MergeChain DEF m
    <3>2. /\ n \in DOMAIN h /\ n # b /\ h[n].free /\ n = h[b].next /\ f[n].next # b
      <4>1. b \in Nat /\ n \in DOMAIN f /\ n \in Nat /\ b < n
        BY <1>1, <1>2, <2>2, ChainFacts
      <4>2. f[n].next = NULL \/ (f[n].next = End(f, n) /\ n < End(f, n) /\ End(f, n) \in Nat)
        BY <1>2, <4>1, ChainFacts
      <4>3. f[n].next # b
        BY <4>1, <4>2, KHeapConstants
      <4> QED
        BY <1>1, <1>2, <2>2, <4>1, <4>3
    <3>3. f[n].next # NULL => /\ f[n].next \in DOMAIN f /\ f[n].next # n
                              /\ f[n].next # b /\ ~ f[f[n].next].free
      <4>1. f[n].next # NULL => f[n].next \in DOMAIN f /\ f[n].next # n
        BY <1>2, <3>2, ChainFacts
      <4>2. h[n].next # NULL => ~ h[h[n].next].free
        BY <3>2 DEF Coalesced
      <4> QED
        BY <1>2, <3>2, <4>1, <4>2
    <3> HIDE DEF n
    <3>4. /\ DOMAIN m = DOMAIN h \ {n} /\ b \in DOMAIN m /\ m[b].free
          /\ m[b].prev = h[b].prev /\ m[b].next = f[n].next
      BY <1>1, <1>2, <3>1, <3>2 DEF Merged
    <3>5. \A c \in DOMAIN m \ {b} :
             /\ c \in DOMAIN h /\ m[c].size = h[c].size /\ m[c].free = h[c].free
             /\ m[c].next = h[c].next
      <4> TAKE c \in DOMAIN m \ {b}
      <4>1. c \in DOMAIN h
        BY <3>4
      <4>2. m[c].size = f[c].size /\ m[c].free = f[c].free /\ m[c].next = f[c].next
        BY <3>1 DEF Merged
      <4> QED
        BY <1>2, <4>1, <4>2
    <3>6. m[b].next # NULL => m[b].next \in DOMAIN m /\ ~ m[m[b].next].free
      BY <1>2, <3>3, <3>4, <3>5
    <3> QED
      BY <1>1, <3>1, <3>2, <3>4, <3>5, <3>6 DEF Used
  <2> QED
    BY <2>1, <2>2
<1>5. CASE p = NULL \/ ~ m[p].free
  <2>1. g = m
    BY <1>3, <1>5
  <2>2. ASSUME NEW c \in DOMAIN m, m[c].free, m[c].next # NULL
        PROVE  ~ m[m[c].next].free
    <3>1. CASE c = b
      BY <1>4, <2>2, <3>1
    <3>2. CASE c # b /\ m[c].next = b
      <4>1. p = c
        BY <1>4, <2>2, <3>2, ChainFacts DEF p
      <4>2. c # NULL
        BY <1>4, ChainFacts, KHeapConstants
      <4> QED
        BY <1>5, <2>2, <4>1, <4>2
    <3>3. CASE c # b /\ m[c].next # b
      <4>1. m[c].next \in DOMAIN m \ {b}
        BY <1>4, <2>2, <3>3, ChainFacts
      <4>2. m[c].next = h[c].next /\ h[c].free /\ c \in DOMAIN h
        BY <1>4, <2>2, <3>3
      <4>3. ~ h[h[c].next].free
        BY <2>2, <4>2 DEF Coalesced
      <4> QED
        BY <1>4, <4>1, <4>2, <4>3
    <3> QED
      BY <3>1, <3>2, <3>3
  <2>3. \A c \in Used(m) : m[c].size = h[c].size
    BY <1>4 DEF Used
  <2> QED
    BY <1>4, <2>1, <2>2, <2>3 DEF Coalesced, g
<1>6. CASE p # NULL /\ m[p].free
  <2>1. p \in DOMAIN m /\ m[p].next = b /\ p # b /\ b # NULL
    BY <1>4, <1>6, ChainFacts, KHeapConstants DEF p
  <2>2. g = MergeNext(m, p)
    BY <1>3, <1>6
  <2>3. Merged(m, p, b, g) /\ Chain(g, e)
    BY <1>4, <2>1, <2>2, MergeFields, MergeChain
  <2>4. /\ DOMAIN g = DOMAIN m \ {b}
        /\ \A c \in DOMAIN g : g[c].free = m[c].free
        /\ g[p].next = m[b].next
        /\ \A c \in DOMAIN g \ {p} : g[c].size = m[c].size /\ g[c].next = m[c].next
    BY <2>1, <2>3 DEF Merged
  <2>5. ASSUME NEW c \in DOMAIN g, g[c].free, g[c].next # NULL
        PROVE  ~ g[g[c].next].free
    <3>0. g[c].next \in DOMAIN g
      BY <2>3, <2>5, ChainFacts
    <3>1. CASE c = p
      BY <1>4, <2>4, <2>5, <3>0, <3>1
    <3>2. CASE c # p
      <4>1. m[c].next = h[c].next /\ h[c].free /\ c \in DOMAIN h /\ g[c].next = h[c].next
        BY <1>4, <2>4, <2>5, <3>2
      <4>2. ~ h[h[c].next].free
        BY <2>5, <4>1 DEF Coalesced
      <4> QED
        BY <1>4, <2>4, <3>0, <4>1, <4>2
    <3> QED
      BY <3>1, <3>2
  <2>6. Used(g) = Used(m)
    BY <1>4, <2>4 DEF Used
  <2>7. \A c \in Used(g) : g[c].size = h[c].size
    BY <1>4, <1>6, <2>1, <2>4 DEF Used
  <2> QED
    BY <1>4, <2>3, <2>5, <2>6, <2>7 DEF Coalesced, g
<1> QED
  BY <1>5, <1>6

\* Taking block b of a tiling g into use, where b is the only block of g that
\* may have a free neighbour.
LEMMA TakeWorks ==
    ASSUME NEW g, NEW e, Chain(g, e), NEW b \in DOMAIN g,
           \A c \in DOMAIN g : c # b /\ g[c].free /\ g[c].next # NULL /\ g[c].next # b
                                  => ~ g[g[c].next].free
    PROVE  LET t == [g EXCEPT ![b].free = FALSE]
           IN  /\ Chain(t, e) /\ Coalesced(t)
               /\ Used(t) = Used(g) \cup {b}
               /\ \A c \in DOMAIN g : t[c].size = g[c].size
<1> DEFINE t == [g EXCEPT ![b].free = FALSE]
<1>1. \A c \in DOMAIN g : g[c] \in Header(DOMAIN g)
  BY DEF Chain
<1>2. DOMAIN t = DOMAIN g
  OBVIOUS
<1>3. \A c \in DOMAIN g :
         /\ t[c] \in Header(DOMAIN g)
         /\ t[c].size = g[c].size /\ t[c].next = g[c].next /\ t[c].prev = g[c].prev
         /\ t[c].free = IF c = b THEN FALSE ELSE g[c].free
  BY <1>1 DEF Header
<1> HIDE DEF t
<1>4. Chain(t, e)
  BY <1>2, <1>3, SameLinks
<1>5. ASSUME NEW c \in DOMAIN t, t[c].free, t[c].next # NULL
      PROVE  ~ t[t[c].next].free
  <2>1. c \in DOMAIN g /\ c # b /\ g[c].free /\ g[c].next # NULL
    BY <1>2, <1>3, <1>5
  <2>2. g[c].next \in DOMAIN g /\ t[c].next = g[c].next
    BY <1>3, <2>1, ChainFacts
  <2> QED
    BY <1>3, <2>1, <2>2
<1>6. Used(t) = Used(g) \cup {b}
  BY <1>2, <1>3 DEF Used
<1> QED
  BY <1>3, <1>4, <1>5, <1>6 DEF Coalesced, t

\* kmalloc: one block more is in use, with room for the request, and it is a
\* block no caller held; the others keep their size.
LEMMA MallocWorks ==
    ASSUME NEW size \in Sizes, Chain(block, heap_end), Coalesced(block)
    PROVE  LET r == Malloc(size)
           IN  /\ Chain(r.list, r.end) /\ Coalesced(r.list)
               /\ r.ptr \notin Used(block)
               /\ Used(r.list) = Used(block) \cup {r.ptr}
               /\ \A c \in Used(block) : r.list[c].size = block[c].size
               /\ size <= r.list[r.ptr].size
<1> DEFINE n   == AlignUp(size, ALIGNMENT)
           fit == FirstFit(block, n)
           s   == AlignUp(n + HeaderSize, PAGE_SIZE)
           r   == Malloc(size)
<1>1. /\ size \in Nat /\ n \in Nat /\ size <= n /\ HeaderSize \in Nat \ {0}
      /\ MIN_SPLIT \in Nat /\ NULL \notin Nat
  BY AlignUpCovers, KHeapConstants
<1> HIDE DEF n
<1>2. CASE fit = {}
  <2> DEFINE g == Expand(block, n + HeaderSize)
             t == [g EXCEPT ![heap_end].free = FALSE]
  <2>1. r.list = t /\ r.end = heap_end + s /\ r.ptr = heap_end
    BY <1>2 DEF Malloc, n
  <2>2. n + HeaderSize \in Nat /\ HeaderSize <= n + HeaderSize
    BY <1>1
  <2>3. /\ Chain(g, heap_end + s)
        /\ DOMAIN g = DOMAIN block \cup {heap_end}
        /\ heap_end \notin DOMAIN block
        /\ g[heap_end].size = s - HeaderSize /\ n + HeaderSize <= s /\ s \in Nat
        /\ g[heap_end].next = NULL
        /\ \A c \in DOMAIN block :
              /\ g[c].free = block[c].free /\ g[c].size = block[c].size
              /\ g[c].next = IF c = LastBlock(block) THEN heap_end
                             ELSE block[c].next
    BY <2>2, ExpandChain
  <2> HIDE DEF g, s
  <2>4. ASSUME NEW c \in DOMAIN g, c # heap_end, g[c].free, g[c].next # NULL,
               g[c].next # heap_end
        PROVE  ~ g[g[c].next].free
    <3>1. c \in DOMAIN block /\ block[c].free /\ block[c].next = g[c].next
      BY <2>3, <2>4
    <3>2. g[c].next \in DOMAIN block /\ ~ block[g[c].next].free
      BY <2>4, <3>1, ChainFacts DEF Coalesced
    <3> QED
      BY <2>3, <3>2
  <2>5. heap_end \in DOMAIN g
    BY <2>3
  <2>6. /\ Chain(t, heap_end + s) /\ Coalesced(t)
        /\ Used(t) = Used(g) \cup {heap_end}
        /\ \A c \in DOMAIN g : t[c].size = g[c].size
    BY <2>3, <2>4, <2>5, TakeWorks
  <2> HIDE DEF t
  <2>7. heap_end \notin Used(block) /\ Used(t) = Used(block) \cup {heap_end}
    BY <2>3, <2>6 DEF Used
  <2>8. \A c \in Used(block) : t[c].size = block[c].size
    BY <2>3, <2>6 DEF Used
  <2>9. size <= t[heap_end].size
    <3>1. t[heap_end].size = s - HeaderSize
      BY <2>3, <2>6
    <3> QED
      BY <1>1, <2>3, <3>1
  <2> HIDE DEF r
  <2> QED
    BY <2>1, <2>6, <2>7, <2>8, <2>9 DEF r
<1>3. CASE fit # {}
  <2> DEFINE b == CHOOSE c \in fit : TRUE
             g == Split(block, b, n)
             t == [g EXCEPT ![b].free = FALSE]
  <2>1. r.list = t /\ r.end = heap_end /\ r.ptr = b
    BY <1>3 DEF Malloc, n
  <2>2. b \in DOMAIN block /\ block[b].free /\ block[b].size >= n
    <3>1. b \in fit
      BY <1>3
    <3> QED
      BY <3>1 DEF FirstFit
  <2> HIDE DEF b, fit
  <2>3. block[b].next # NULL => /\ block[b].next \in DOMAIN block
                                /\ ~ block[block[b].next].free
    BY <2>2, ChainFacts DEF Coalesced
  <2>4. \A c \in DOMAIN block : block[c].free /\ block[c].next # NULL
                                   => ~ block[block[c].next].free
    BY DEF Coalesced
  <2>5. /\ Chain(g, heap_end) /\ b \in DOMAIN g /\ g[b].size >= n
        /\ Used(g) = Used(block)
        /\ \A c \in Used(block) : g[c].size = block[c].size
        /\ \A c \in DOMAIN g : c # b /\ g[c].free /\ g[c].next # NULL /\ g[c].next # b
                                  => ~ g[g[c].next].free
    <3>1. CASE block[b].size < n + HeaderSize + MIN_SPLIT
      <4>1. g = block
        BY <3>1 DEF Split
      <4> QED
        BY <2>2, <2>4, <4>1
    <3>2. CASE ~ (block[b].size < n + HeaderSize + MIN_SPLIT)
      <4> DEFINE new == b + HeaderSize + n
      <4>1. Cut(block, b, n, new, g) /\ Chain(g, heap_end)
        BY <1>1, <2>2, <3>2, SplitFields, SplitChain
      <4>2. new \notin DOMAIN block /\ block[b].next # new
        BY <1>1, <2>2, <3>2, CutInside
      <4> HIDE DEF g, new
      <4>3. /\ DOMAIN g = DOMAIN block \cup {new} /\ b # new
            /\ g[new].free /\ g[new].next = block[b].next /\ g[b].size = n
            /\ \A c \in DOMAIN block : g[c].free = block[c].free
            /\ \A c \in DOMAIN block \ {b} : /\ g[c].size = block[c].size
                                             /\ g[c].next = block[c].next
        BY <2>2, <4>1, <4>2 DEF Cut
      <4>4. Used(g) = Used(block) /\ \A c \in Used(block) : g[c].size = block[c].size
        BY <2>2, <4>2, <4>3 DEF Used
      <4>5. ASSUME NEW c \in DOMAIN g, c # b, g[c].free, g[c].next # NULL, g[c].next # b
            PROVE  ~ g[g[c].next].free
        <5>1. CASE c = new
          BY <2>3, <4>3, <4>5, <5>1
        <5>2. CASE c # new
          <6>1. c \in DOMAIN block /\ g[c].next = block[c].next /\ block[c].free
            BY <4>3, <4>5, <5>2
          <6>2. block[c].next \in DOMAIN block
            BY <4>5, <6>1, ChainFacts
          <6> QED
            BY <2>4, <4>3, <4>5, <6>1, <6>2
        <5> QED
          BY <5>1, <5>2
      <4> QED
        BY <1>1, <2>2, <4>1, <4>3, <4>4, <4>5
    <3> QED
      BY <3>1, <3>2
  <2> HIDE DEF g
  <2>6. /\ Chain(t, heap_end) /\ Coalesced(t) /\ Used(t) = Used(g) \cup {b}
        /\ \A c \in DOMAIN g : t[c].size = g[c].size
    BY <2>5, TakeWorks
  <2> HIDE DEF t
  <2>7. \A c \in Used(block) : t[c].size = block[c].size
    BY <2>5, <2>6 DEF Used
  <2>8. b \notin Used(block)
    BY <2>2 DEF Used
  <2>9. size <= t[b].size
    <3>1. t[b].size = g[b].size /\ g[b].size \in Nat
      BY <2>5, <2>6, ChainFacts
    <3> QED
      BY <1>1, <2>5, <3>1
  <2> HIDE DEF r
  <2> QED
    BY <2>1, <2>5, <2>6, <2>7, <2>8, <2>9 DEF r
<1> QED
  BY <1>2, <1>3

-----------------------------------------------------------------------------
(***************************************************************************)
(* The heap.                                                               *)
(***************************************************************************)

\* kheap_init leaves one free block that fills the heap.
LEMMA InitHeapInv == Init => HeapInv
<1> SUFFICES ASSUME Init
             PROVE  HeapInv
  OBVIOUS
<1> DEFINE s == 4 * PAGE_SIZE - HeaderSize
<1>1. /\ HeaderSize \in Nat \ {0} /\ PAGE_SIZE \in Nat \ {0} /\ HeaderSize < PAGE_SIZE
      /\ NULL \notin Nat
  BY KHeapConstants
<1>2. s \in Nat /\ heap_end \in Nat /\ 0 < heap_end /\ 0 + HeaderSize + s = heap_end
  BY <1>1 DEF Init, InitialSize, KHEAP_START
<1> HIDE DEF s
<1>3. /\ DOMAIN block = {0}
      /\ block[0] = [size |-> s, free |-> TRUE, next |-> NULL, prev |-> NULL]
  BY DEF Init, InitialSize, KHEAP_START, s
<1>4. /\ block[0].size = s /\ block[0].free /\ block[0].next = NULL
      /\ block[0].prev = NULL /\ block[0] \in Header({0})
  BY <1>2, <1>3 DEF Header
<1>5. Chain(block, heap_end)
  <2>1. ASSUME NEW b \in DOMAIN block
        PROVE  /\ b \in Nat /\ b < heap_end
               /\ block[b] \in Header(DOMAIN block)
               /\ block[b].next = IF End(block, b) = heap_end THEN NULL ELSE End(block, b)
               /\ block[b].next = NULL /\ block[b].prev = NULL /\ b = KHEAP_START
               /\ \A c \in DOMAIN block : ~ (b < c)
    <3>1. b = 0 /\ \A c \in DOMAIN block : c = 0
      BY <1>3
    <3>2. End(block, b) = heap_end
      BY <1>2, <1>4, <3>1 DEF End
    <3>3. block[b] \in Header(DOMAIN block) /\ block[b].next = NULL /\ block[b].prev = NULL
      BY <1>3, <1>4, <3>1
    <3>4. b \in Nat /\ b < heap_end /\ b = KHEAP_START /\ \A c \in DOMAIN block : ~ (b < c)
      BY <1>2, <3>1 DEF KHEAP_START
    <3> QED
      BY <3>2, <3>3, <3>4
  <2>2. KHEAP_START \in DOMAIN block
    BY <1>3 DEF KHEAP_START
  <2> QED
    BY <1>2, <2>1, <2>2 DEF Chain
<1>6. Coalesced(block) /\ Used(block) = {}
  BY <1>3, <1>4 DEF Coalesced, Used
<1>7. DOMAIN live = {}
  BY DEF Init
<1> QED
  BY <1>5, <1>6, <1>7 DEF HeapInv

\* kmalloc, kfree and krealloc keep the invariant.
LEMMA NextHeapInv == HeapInv /\ [Next]_vars => HeapInv'
<1> SUFFICES ASSUME HeapInv, [Next]_vars
             PROVE  HeapInv'
  OBVIOUS
<1>0. /\ Chain(block, heap_end) /\ Coalesced(block) /\ DOMAIN live = Used(block)
      /\ \A c \in DOMAIN live : live[c] \in Nat /\ live[c] <= block[c].size
  BY DEF HeapInv
<1>1. ASSUME NEW size \in Sizes, Kmalloc(size)
      PROVE  HeapInv'
  <2> DEFINE r == Malloc(size)
  <2>1. block' = r.list /\ heap_end' = r.end /\ live' = With(live, r.ptr, size)
    BY <1>1 DEF Kmalloc
  <2>2. /\ Chain(r.list, r.end) /\ Coalesced(r.list)
        /\ Used(r.list) = Used(block) \cup {r.ptr}
        /\ \A c \in Used(block) : r.list[c].size = block[c].size
        /\ size <= r.list[r.ptr].size
    BY <1>0, MallocWorks
  <2>3. size \in Nat
    BY KHeapConstants
  <2> HIDE DEF r
  <2>4. DOMAIN live' = Used(block')
    BY <1>0, <2>1, <2>2 DEF With
  <2>5. \A c \in DOMAIN live' : live'[c] \in Nat /\ live'[c] <= block'[c].size
    BY <1>0, <2>1, <2>2, <2>3 DEF With
  <2> QED
    BY <2>1, <2>2, <2>4, <2>5 DEF HeapInv
<1>2. ASSUME NEW b \in DOMAIN live, Kfree(b)
      PROVE  HeapInv'
  <2>1. block' = Free(block, b) /\ heap_end' = heap_end /\ live' = Without(live, b)
    BY <1>2 DEF Kfree
  <2>2. /\ Chain(block', heap_end') /\ Coalesced(block')
        /\ Used(block') = Used(block) \ {b}
        /\ \A c \in Used(block') : block'[c].size = block[c].size
    BY <1>0, <2>1, FreeWorks
  <2>3. /\ DOMAIN live' = Used(block')
        /\ \A c \in DOMAIN live' : live'[c] \in Nat /\ live'[c] <= block'[c].size
    BY <1>0, <2>1, <2>2 DEF Without
  <2> QED
    BY <2>2, <2>3 DEF HeapInv
<1>3. ASSUME NEW b \in DOMAIN live, NEW size \in Sizes, KreallocInPlace(b, size)
      PROVE  HeapInv'
  <2>1. /\ block' = block /\ heap_end' = heap_end /\ live' = With(live, b, size)
        /\ block[b].size >= size
    BY <1>3 DEF KreallocInPlace
  <2>2. size \in Nat /\ block[b].size \in Nat
    BY <1>0, ChainFacts, KHeapConstants DEF Used
  <2>3. /\ DOMAIN live' = Used(block')
        /\ \A c \in DOMAIN live' : live'[c] \in Nat /\ live'[c] <= block'[c].size
    BY <1>0, <2>1, <2>2 DEF With
  <2> QED
    BY <1>0, <2>1, <2>3 DEF HeapInv
<1>4. ASSUME NEW b \in DOMAIN live, NEW size \in Sizes, KreallocMove(b, size)
      PROVE  HeapInv'
  <2> DEFINE r == Malloc(size)
  <2>1. /\ block' = Free(r.list, b) /\ heap_end' = r.end
        /\ live' = With(Without(live, b), r.ptr, size)
    BY <1>4 DEF KreallocMove
  <2>2. /\ Chain(r.list, r.end) /\ Coalesced(r.list)
        /\ r.ptr \notin Used(block)
        /\ Used(r.list) = Used(block) \cup {r.ptr}
        /\ \A c \in Used(block) : r.list[c].size = block[c].size
        /\ size <= r.list[r.ptr].size
    BY <1>0, MallocWorks
  <2>3. size \in Nat
    BY KHeapConstants
  <2> HIDE DEF r
  <2>4. /\ Chain(block', heap_end') /\ Coalesced(block')
        /\ Used(block') = Used(r.list) \ {b}
        /\ \A c \in Used(block') : block'[c].size = r.list[c].size
    BY <1>0, <2>1, <2>2, FreeWorks
  <2>5. b # r.ptr
    BY <1>0, <2>2
  <2>6. /\ DOMAIN live' = (DOMAIN live \ {b}) \cup {r.ptr}
        /\ live'[r.ptr] = size
        /\ \A c \in DOMAIN live \ {b} : c # r.ptr => live'[c] = live[c]
    BY <2>1 DEF With, Without
  <2>7. DOMAIN live' = Used(block')
    BY <1>0, <2>2, <2>4, <2>5, <2>6
  <2>8. \A c \in DOMAIN live' : live'[c] \in Nat /\ live'[c] <= block'[c].size
    BY <1>0, <2>2, <2>3, <2>4, <2>5, <2>6, <2>7
  <2> QED
    BY <2>4, <2>7, <2>8 DEF HeapInv
<1>5. CASE UNCHANGED vars
  BY <1>0, <1>5 DEF vars, HeapInv
<1> QED
  BY <1>1, <1>2, <1>3, <1>4, <1>5 DEF Next

\* Every reachable state of the kernel heap satisfies the inductive invariant.
THEOREM HeapInvariant == Spec => []HeapInv
  BY InitHeapInv, NextHeapInv, PTL DEF Spec

\* The blocks tile the heap and the links of split_block, coalesce and
\* heap_expand lead from each block to its neighbours and back.
THEOREM TiledTheorem == Spec => []Tiled
<1>1. HeapInv => Tiled
  <2> SUFFICES ASSUME HeapInv
               PROVE  Tiled
    OBVIOUS
  <2>1. Chain(block, heap_end) /\ DOMAIN live = Used(block)
    BY DEF HeapInv
  <2>2. \A b \in DOMAIN live : live[b] \in Nat
    BY DEF HeapInv
  <2>3. TypeOK
    <3>1. \A b \in DOMAIN block : b \in 0 .. heap_end - 1
      BY <2>1, ChainFacts
    <3> QED
      BY <2>1, <2>2, <3>1 DEF TypeOK, Chain, Header, Used, KHEAP_START
  <2> QED
    BY <2>1, <2>3 DEF Tiled, Chain
<1> QED
  BY <1>1, HeapInvariant, PTL

\* Two neighbouring blocks are never both free, although coalesce looks one
\* block ahead and one back only.
THEOREM NoTwoFreeTheorem == Spec => []NoTwoFree
<1>1. HeapInv => NoTwoFree
  BY DEF HeapInv, Coalesced, NoTwoFree
<1> QED
  BY <1>1, HeapInvariant, PTL

\* The blocks in use are exactly those that callers hold, each with the room
\* its caller asked for, through kmalloc, kfree and both paths of krealloc.
THEOREM LiveTheorem == Spec => []LiveHasRoom
<1>1. HeapInv => LiveHasRoom
  <2> SUFFICES ASSUME HeapInv
               PROVE  LiveHasRoom
    OBVIOUS
  <2>1. /\ DOMAIN live = Used(block) /\ Chain(block, heap_end)
        /\ \A b \in DOMAIN live : live[b] \in Nat /\ live[b] <= block[b].size
    BY DEF HeapInv
  <2>2. \A b \in DOMAIN live : block[b].size \in Nat
    BY <2>1, ChainFacts DEF Used
  <2> QED
    BY <2>1, <2>2 DEF LiveHasRoom, Used
<1> QED
  BY <1>1, HeapInvariant, PTL
=============================================================================
