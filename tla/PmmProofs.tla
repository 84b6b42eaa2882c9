----------------------------- MODULE PmmProofs -----------------------------
(***************************************************************************)
(* Proofs about the page allocator for every memory map: no reserved or    *)
(* held page is handed out, none leaks, and the count of used pages stays  *)
(* the initial count plus the number of held pages, so it cannot wrap, and *)
(* is wrong by what pmm_init miscounted and no more.                       *)
(***************************************************************************)
EXTENDS Pmm, FiniteSetTheorems, WellFoundedInduction, TLAPS

\* Rounding the number of bytes up covers every page that is counted.
LEMMA RoundUp ==
    ASSUME NEW a \in Nat, NEW b \in Nat \ {0}
    PROVE  /\ CeilDiv(a, b) \in Nat
           /\ a <= CeilDiv(a, b) * b
<1> DEFINE n == a + b - 1
           q == n \div b
           r == n % b
<1>1. n \in Nat
  BY DEF n
<1>2. q \in Nat /\ r \in 0 .. b - 1 /\ n = b * q + r
  BY <1>1
<1>3. CeilDiv(a, b) = q
  BY DEF CeilDiv, n, q
<1>4. b * q = q * b
  BY <1>2
<1> HIDE DEF q, r
<1>5. a <= q * b
  BY <1>2, <1>4 DEF n
<1> QED
  BY <1>2, <1>3, <1>5

\* The bits pmm_alloc_page tests are among those memset sets.
LEMMA SearchedInBitmap ==
    Searched \subseteq BitmapBits /\ bitmap_size_bytes \in Nat
<1>1. total_pages \in Nat /\ BITS_PER_BYTE \in Nat \ {0}
  BY PmmConstants
<1>2. bitmap_size_bytes \in Nat /\ total_pages <= bitmap_size_bytes * BITS_PER_BYTE
  BY <1>1, RoundUp DEF bitmap_size_bytes
<1>3. bitmap_size_bytes * BITS_PER_BYTE \in Nat
  BY <1>1, <1>2
<1> QED
  BY <1>1, <1>2, <1>3 DEF Searched, BitmapBits

\* Usable pages are page numbers.
LEMMA UsableIsNat == Usable \subseteq Nat
  BY PmmConstants DEF Usable, PagesOf

\* So are the indices of the bitmap's bits.
LEMMA BitsAreNat == BitmapBits \subseteq Nat
  BY SearchedInBitmap, PmmConstants DEF BitmapBits

\* The search visits finitely many pages.
LEMMA SearchedIsFinite == Searched \subseteq Nat /\ IsFiniteSet(Searched)
<1>1. total_pages \in Nat
  BY PmmConstants
<1>2. IsFiniteSet(0 .. total_pages - 1)
  BY <1>1, FS_Interval
<1> QED
  BY <1>1, <1>2 DEF Searched

\* The count pmm_init leaves is the number of set bits or more, never less
\* than zero: only usable pages are uncounted.
LEMMA InitUsedIsNat == InitUsed \in Nat
<1> DEFINE U == AfterMemset \cap Usable
           K == (KernelPages \cup BitmapPages) \ AfterFree
<1>1. IsFiniteSet(Usable) /\ IsFiniteSet(KernelPages) /\ BitmapPages \subseteq Usable
  BY PmmConstants
<1>2. U \in SUBSET Usable
  OBVIOUS
<1>3. IsFiniteSet(U) /\ Cardinality(U) <= Cardinality(Usable)
  BY <1>1, <1>2, FS_Subset
<1>4. IsFiniteSet(BitmapPages)
  BY <1>1, FS_Subset
<1>5. IsFiniteSet(KernelPages \cup BitmapPages)
  BY <1>1, <1>4, FS_Union
<1>6. IsFiniteSet(K)
  BY <1>5, FS_Difference
<1>7. Cardinality(U) \in Nat /\ Cardinality(K) \in Nat /\ Cardinality(Usable) \in Nat
  BY <1>1, <1>3, <1>6, FS_CardinalityType
<1>8. InitUsed = Cardinality(Usable) - Cardinality(U) + Cardinality(K)
  BY DEF InitUsed, total_pages
<1> HIDE DEF U, K
<1> QED
  BY <1>3, <1>7, <1>8

\* The inductive invariant: the bits of searched pages are exactly those of
\* reserved and held pages, and the count follows the held pages.
CountsOwned == used_pages = InitUsed + Cardinality(owned)

IndInv ==
    /\ bitmap \subseteq Nat
    /\ last_search_pos \in Searched
    /\ owned \subseteq Searched
    /\ Exclusive
    /\ NoLeak
    /\ CountsOwned

\* The invariant holds after pmm_init, on any memory map.
LEMMA InitIndInv == Init => IndInv
<1> SUFFICES ASSUME Init PROVE IndInv
  OBVIOUS
<1>1. bitmap = InitBitmap /\ owned = {} /\ used_pages = InitUsed /\ last_search_pos = 0
  BY DEF Init
<1>2. bitmap \subseteq Nat
  BY <1>1, UsableIsNat, BitsAreNat, PmmConstants
     DEF InitBitmap, AfterFree, AfterMemset
<1>3. last_search_pos \in Searched
  BY <1>1, PmmConstants DEF Searched
<1>4. Searched \cap bitmap = Searched \cap Reserved
  BY <1>1, SearchedInBitmap DEF InitBitmap, AfterFree, AfterMemset, Reserved
<1>5. Exclusive /\ NoLeak
  BY <1>1, <1>4 DEF Exclusive, NoLeak
<1>6. CountsOwned
  BY <1>1, FS_EmptySet, InitUsedIsNat DEF CountsOwned
<1> QED
  BY <1>1, <1>2, <1>3, <1>5, <1>6 DEF IndInv

\* Callers hold finitely many pages.
LEMMA OwnedIsFinite ==
    IndInv => IsFiniteSet(owned) /\ Cardinality(owned) \in Nat
  BY SearchedIsFinite, FS_Subset, FS_CardinalityType DEF IndInv

\* pmm_alloc_page keeps the invariant.
LEMMA AllocPageInd == IndInv /\ AllocPage => IndInv'
<1> SUFFICES ASSUME IndInv, AllocPage PROVE IndInv'
  OBVIOUS
<1>1. PICK p \in FirstFree : /\ bitmap' = bitmap \cup {p}
                             /\ last_search_pos' = p
                             /\ owned' = owned \cup {p}
  BY DEF AllocPage
<1>2. p \in Searched /\ p \notin bitmap
  BY <1>1 DEF FirstFree
<1>3. p \notin owned /\ p \notin Reserved
  BY <1>2 DEF IndInv, Exclusive
<1>4. Cardinality(owned \cup {p}) = Cardinality(owned) + 1
  BY <1>3, OwnedIsFinite, FS_AddElement
<1>5. CountsOwned'
  BY <1>1, <1>4, OwnedIsFinite, InitUsedIsNat DEF AllocPage, IndInv, CountsOwned
<1>6. Exclusive' /\ NoLeak'
  BY <1>1, <1>2, <1>3 DEF IndInv, Exclusive, NoLeak
<1> QED
  BY <1>1, <1>2, <1>5, <1>6, SearchedIsFinite DEF IndInv

\* pmm_alloc_pages keeps the invariant.
LEMMA AllocPagesInd ==
    ASSUME NEW n \in 1 .. total_pages
    PROVE  IndInv /\ AllocPages(n) => IndInv'
<1> SUFFICES ASSUME IndInv, AllocPages(n) PROVE IndInv'
  OBVIOUS
<1> total_pages \in Nat /\ n \in Nat
  BY PmmConstants
<1>1. PICK s \in FirstRun(n) : /\ bitmap' = bitmap \cup s .. s + n - 1
                               /\ owned' = owned \cup s .. s + n - 1
  BY DEF AllocPages
<1> DEFINE R == s .. s + n - 1
<1>2. s \in Searched /\ s + n - 1 \in Searched /\ R \cap bitmap = {}
  BY <1>1 DEF FirstRun
<1>3. s \in Nat /\ R \subseteq Searched
  BY <1>2 DEF Searched
<1>4. R \cap owned = {} /\ R \cap Reserved = {}
  BY <1>2, <1>3 DEF IndInv, Exclusive
<1>5. IsFiniteSet(R) /\ Cardinality(R) = n
  <2>1. s + n - 1 \in Int /\ ~(s > s + n - 1) /\ (s + n - 1) - s + 1 = n
    BY <1>3
  <2> QED
    BY <1>3, <2>1, FS_Interval
<1> HIDE DEF R
<1>6. bitmap' = bitmap \cup R /\ owned' = owned \cup R
  BY <1>1 DEF R
<1>7. Cardinality(owned \cup R) = Cardinality(owned) + n
  <2>1. Cardinality(owned \cap R) = 0
    BY <1>4, FS_EmptySet
  <2>2. Cardinality(owned \cup R) = Cardinality(owned) + Cardinality(R) - Cardinality(owned \cap R)
    BY <1>5, OwnedIsFinite, FS_Union
  <2> QED
    BY <1>5, <2>1, <2>2, OwnedIsFinite
<1>8. CountsOwned'
  BY <1>6, <1>7, OwnedIsFinite, InitUsedIsNat DEF AllocPages, IndInv, CountsOwned
<1>9. Exclusive' /\ NoLeak'
  BY <1>3, <1>4, <1>6 DEF IndInv, Exclusive, NoLeak
<1>10. bitmap' \subseteq Nat /\ owned' \subseteq Searched
  BY <1>3, <1>6, SearchedIsFinite DEF IndInv
<1> QED
  BY <1>8, <1>9, <1>10 DEF IndInv, AllocPages

\* A second free of a page is harmless: only bits that are set are uncounted,
\* and those of the range are the held ones.
LEMMA FreePagesInd ==
    ASSUME NEW s \in Searched, NEW n \in 1 .. total_pages
    PROVE  IndInv /\ FreePages(s, n) => IndInv'
<1> SUFFICES ASSUME IndInv, FreePages(s, n) PROVE IndInv'
  OBVIOUS
<1> DEFINE R == s .. s + n - 1
<1> HIDE DEF R
<1>1. /\ R \subseteq (Searched \ bitmap) \cup owned
      /\ bitmap' = bitmap \ R
      /\ used_pages' = used_pages - Cardinality(R \cap bitmap)
      /\ owned' = owned \ R
      /\ last_search_pos' = last_search_pos
  BY DEF FreePages, FreedBits, R
<1>2. owned \subseteq bitmap /\ owned \cap Reserved = {}
  BY DEF IndInv, Exclusive
<1>3. R \cap bitmap = owned \cap R
  BY <1>1, <1>2
<1>4. /\ Cardinality(owned \ R) = Cardinality(owned) - Cardinality(owned \cap R)
      /\ Cardinality(owned \cap R) \in Nat
  BY OwnedIsFinite, FS_Difference, FS_Intersection, FS_CardinalityType
<1>5. CountsOwned'
  BY <1>1, <1>3, <1>4, OwnedIsFinite, InitUsedIsNat DEF IndInv, CountsOwned
<1>6. R \cap Reserved = {}
  BY <1>1, <1>2 DEF IndInv, Exclusive
<1>7. Exclusive' /\ NoLeak'
  BY <1>1, <1>2, <1>6 DEF IndInv, Exclusive, NoLeak
<1> QED
  BY <1>1, <1>5, <1>7 DEF IndInv

\* Every call keeps the invariant.
LEMMA NextIndInv == IndInv /\ [Next]_vars => IndInv'
<1> SUFFICES ASSUME IndInv, [Next]_vars PROVE IndInv'
  OBVIOUS
<1>1. CASE AllocPage
  BY <1>1, AllocPageInd
<1>2. CASE \E n \in 1 .. total_pages : AllocPages(n)
  BY <1>2, AllocPagesInd
<1>3. CASE \E s \in Searched, n \in 1 .. total_pages : FreePages(s, n)
  BY <1>3, FreePagesInd
<1>4. CASE UNCHANGED vars
  BY <1>4 DEF vars, IndInv, Exclusive, NoLeak, CountsOwned
<1> QED
  BY <1>1, <1>2, <1>3, <1>4 DEF Next

\* Every reachable state of the page allocator satisfies the inductive invariant:
\* bitmap, owners and used_pages agree.
THEOREM InductiveInvariant == Spec => []IndInv
  BY InitIndInv, NextIndInv, PTL DEF Spec

\* For every memory map, also one with holes: pages are never reserved or
\* handed out twice.
THEOREM ExclusiveTheorem == Spec => []Exclusive
<1>1. IndInv => Exclusive
  BY DEF IndInv
<1> QED
  BY InductiveInvariant, <1>1, PTL

\* For every memory map, a page that is freed can be allocated again.
THEOREM NoLeakTheorem == Spec => []NoLeak
<1>1. IndInv => NoLeak
  BY DEF IndInv
<1> QED
  BY InductiveInvariant, <1>1, PTL

\* The types; used_pages never wraps below zero, whatever is freed twice.
THEOREM TypeCorrect == Spec => []TypeOK
<1>1. IndInv => TypeOK
  BY OwnedIsFinite, InitUsedIsNat DEF IndInv, TypeOK, CountsOwned
<1> QED
  BY InductiveInvariant, <1>1, PTL

-----------------------------------------------------------------------------
(***************************************************************************)
(* The counters against what the search can find, for any memory map.      *)
(***************************************************************************)

\* Reserved pages that the search reaches: holes, which the kernel's pages are among,
\* and those of the bitmap.
LEMMA ReservedSearched ==
    /\ Searched \cap Reserved = (Searched \ Usable) \cup (BitmapPages \cap Searched)
    /\ (Searched \ Usable) \cap (BitmapPages \cap Searched) = {}
  BY PmmConstants DEF Reserved

\* The sizes of two parts of a finite set.
LEMMA Parts ==
    ASSUME NEW S, IsFiniteSet(S), NEW T
    PROVE  /\ Cardinality(S) \in Nat /\ IsFiniteSet(S \cap T) /\ IsFiniteSet(S \ T)
           /\ Cardinality(S \cap T) \in Nat /\ Cardinality(S \ T) \in Nat
           /\ Cardinality(S) = Cardinality(S \cap T) + Cardinality(S \ T)
<1>1. /\ IsFiniteSet(S \cap T) /\ IsFiniteSet(S \ T)
      /\ Cardinality(S \ T) = Cardinality(S) - Cardinality(S \cap T)
  BY FS_Difference, FS_Intersection
<1>2. Cardinality(S) \in Nat /\ Cardinality(S \cap T) \in Nat /\ Cardinality(S \ T) \in Nat
  BY <1>1, FS_CardinalityType
<1> QED
  BY <1>1, <1>2

\* What pmm_init leaves in used_pages: usable pages whose bit was clear before it
\* could be cleared, the bitmap's, and kernel pages whose bit it had to set.
LEMMA InitUsedIs ==
    /\ InitUsed = Cardinality(Usable \ AfterMemset) + Cardinality(BitmapPages)
                    + Cardinality(KernelPages \ AfterMemset)
    /\ IsFiniteSet(Usable) /\ IsFiniteSet(BitmapPages) /\ IsFiniteSet(KernelPages)
<1>1. IsFiniteSet(Usable) /\ IsFiniteSet(KernelPages) /\ BitmapPages \subseteq Usable
  BY PmmConstants
<1>2. IsFiniteSet(BitmapPages)
  BY <1>1, FS_Subset
<1>3. (KernelPages \cup BitmapPages) \ AfterFree = BitmapPages \cup (KernelPages \ AfterMemset)
  BY PmmConstants DEF AfterFree
<1>4. BitmapPages \cap (KernelPages \ AfterMemset) = {}
  BY PmmConstants
<1> DEFINE K == KernelPages \ AfterMemset
<1>5. IsFiniteSet(K) /\ Cardinality(K) \in Nat /\ Cardinality(BitmapPages) \in Nat
  BY <1>1, <1>2, FS_Difference, FS_CardinalityType
<1>6. Cardinality(BitmapPages \cup K)
        = Cardinality(BitmapPages) + Cardinality(K) - Cardinality(BitmapPages \cap K)
  BY <1>2, <1>5, FS_Union
<1>7. Cardinality(BitmapPages \cap K) = 0
  BY <1>4, FS_EmptySet
<1>8. /\ Cardinality(Usable) = Cardinality(Usable \cap AfterMemset)
                                + Cardinality(Usable \ AfterMemset)
      /\ Cardinality(Usable \cap AfterMemset) \in Nat
      /\ Cardinality(Usable \ AfterMemset) \in Nat
  BY <1>1, Parts
<1>9. Usable \cap AfterMemset = AfterMemset \cap Usable
  OBVIOUS
<1>10. InitUsed = Cardinality(Usable) - Cardinality(Usable \cap AfterMemset)
                    + Cardinality(BitmapPages \cup K)
  BY <1>3, <1>9 DEF InitUsed, total_pages
<1> HIDE DEF K
<1>11. InitUsed = Cardinality(Usable \ AfterMemset) + Cardinality(BitmapPages) + Cardinality(K)
  BY <1>5, <1>6, <1>7, <1>8, <1>10
<1> QED
  BY <1>1, <1>2, <1>11 DEF K

\* The free pages that the search can find.
LEMMA FreeIs ==
    ASSUME IndInv
    PROVE  Cardinality(Searched \ bitmap)
             = Cardinality(Searched \cap Usable) - Cardinality(BitmapPages \cap Searched)
                 - Cardinality(owned)
<1>1. IsFiniteSet(Searched) /\ IsFiniteSet(BitmapPages)
  BY SearchedIsFinite, InitUsedIs
<1> DEFINE F == Searched \cap Usable
           B == BitmapPages \cap Searched
           T == F \ B
<1>2. /\ IsFiniteSet(F) /\ IsFiniteSet(T) /\ Cardinality(F) = Cardinality(F \cap B) + Cardinality(T)
      /\ Cardinality(F \cap B) \in Nat /\ Cardinality(T) \in Nat
  BY <1>1, Parts
<1>3. F \cap B = B
  BY PmmConstants
<1>4. owned \subseteq T /\ Searched \ bitmap = T \ owned
  <2>1. owned \cap Reserved = {} /\ Searched \ bitmap = Searched \ (owned \cup Reserved)
        /\ owned \subseteq Searched
    BY DEF IndInv, Exclusive, NoLeak
  <2>2. Searched \ Reserved = T
    BY ReservedSearched
  <2> QED
    BY <2>1, <2>2
<1>5. /\ Cardinality(T) = Cardinality(T \cap owned) + Cardinality(T \ owned)
      /\ Cardinality(T \cap owned) \in Nat /\ Cardinality(T \ owned) \in Nat
  BY <1>2, Parts
<1>6. T \cap owned = owned
  BY <1>4
<1>7. Cardinality(F) = Cardinality(B) + Cardinality(owned) + Cardinality(Searched \ bitmap)
      /\ Cardinality(B) \in Nat /\ Cardinality(owned) \in Nat
      /\ Cardinality(Searched \ bitmap) \in Nat
  <2>1. Cardinality(F \cap B) = Cardinality(B)
    BY <1>3
  <2>2. Cardinality(T \cap owned) = Cardinality(owned)
    BY <1>6
  <2>3. Cardinality(T \ owned) = Cardinality(Searched \ bitmap)
    BY <1>4
  <2> HIDE DEF F, B, T
  <2> QED
    BY <1>2, <1>5, <2>1, <2>2, <2>3
<1> HIDE DEF F, B, T
<1>8. Cardinality(Searched \ bitmap) = Cardinality(F) - Cardinality(B) - Cardinality(owned)
  BY <1>7
<1> QED
  BY <1>8 DEF F, B

\* The invariant implies it: there are as many usable pages as pages to search.
LEMMA DriftIs == IndInv => CountDrift /\ Drift \in Int
<1> SUFFICES ASSUME IndInv  PROVE CountDrift /\ Drift \in Int
  OBVIOUS
<1>f. IsFiniteSet(Usable) /\ IsFiniteSet(BitmapPages) /\ IsFiniteSet(KernelPages)
  BY InitUsedIs
<1> DEFINE free  == Cardinality(Searched \ bitmap)
           us    == Cardinality(Usable \cap Searched)
           above == Cardinality(Usable \ Searched)
           seen  == Cardinality((Usable \cap AfterMemset) \ Searched)
           clear == Cardinality(Usable \ AfterMemset)
           bs    == Cardinality(BitmapPages \cap Searched)
           bx    == Cardinality(BitmapPages \ Searched)
           kx    == Cardinality(KernelPages \ AfterMemset)
           o     == Cardinality(owned)
<1>1. total_pages = us + above /\ us \in Nat /\ above \in Nat
  BY <1>f, Parts DEF total_pages
<1>2. above = seen + clear /\ seen \in Nat /\ clear \in Nat
  <2> DEFINE V == Usable \ Searched
  <2>1. /\ V \cap AfterMemset = (Usable \cap AfterMemset) \ Searched
        /\ V \ AfterMemset = Usable \ AfterMemset
    BY SearchedInBitmap DEF AfterMemset
  <2>2. IsFiniteSet(V)
    BY <1>f, Parts
  <2> HIDE DEF V
  <2>3. /\ Cardinality(V) = Cardinality(V \cap AfterMemset) + Cardinality(V \ AfterMemset)
        /\ Cardinality(V \cap AfterMemset) \in Nat /\ Cardinality(V \ AfterMemset) \in Nat
    BY <2>2, Parts
  <2> QED
    BY <2>1, <2>3 DEF V
<1>3. Cardinality(BitmapPages) = bs + bx /\ bs \in Nat /\ bx \in Nat
  BY <1>f, Parts
<1>4. kx \in Nat
  BY <1>f, Parts
<1>5. o \in Nat /\ used_pages = InitUsed + o
  BY OwnedIsFinite DEF IndInv, CountsOwned
<1>6. InitUsed = clear + Cardinality(BitmapPages) + kx
  BY InitUsedIs
<1>7. free = us - bs - o
  <2>1. Searched \cap Usable = Usable \cap Searched
    OBVIOUS
  <2> QED
    BY <2>1, FreeIs
<1>8. Drift = seen - bx - kx
  BY DEF Drift
<1> HIDE DEF free, us, above, seen, clear, bs, bx, kx, o
<1>9. total_pages - used_pages = free + Drift /\ Drift \in Int
  BY <1>1, <1>2, <1>3, <1>4, <1>5, <1>6, <1>7, <1>8
<1> QED
  BY <1>9 DEF CountDrift, free

\* For every memory map, with holes, with the kernel or the bitmap anywhere and
\* whatever lies behind the bitmap: total_pages - used_pages is the number of pages
\* that the search of pmm_alloc_page can find, off by what pmm_init miscounted, after
\* any sequence of allocations, frees and double frees.
THEOREM DriftTheorem == Spec => []CountDrift
<1>1. IndInv => CountDrift
  BY DriftIs
<1> QED
  BY InductiveInvariant, <1>1, PTL

\* A set of naturals that is not empty has a least element.
LEMMA LeastNat ==
    ASSUME NEW T, T \subseteq Nat, T # {}
    PROVE  \E x \in T : \A y \in T : x <= y
<1>1. PICK x \in T : \A y \in T : ~ (<<y, x>> \in OpToRel(<, Nat))
  BY NatLessThanWellFounded, WFMin
<1>2. \A y \in T : ~ (y < x)
  BY <1>1 DEF OpToRel
<1> QED
  BY <1>2

\* The search of pmm_alloc_page finds a page if one is free.
LEMMA SearchFinds ==
    IndInv /\ Searched \ bitmap # {} => FirstFree # {}
<1> SUFFICES ASSUME IndInv, Searched \ bitmap # {} PROVE FirstFree # {}
  OBVIOUS
<1> DEFINE T == {Distance(p) : p \in Searched \ bitmap}
<1>1. \A p \in Searched : Distance(p) \in Nat
  <2>1. total_pages \in Nat \ {0} /\ last_search_pos \in Nat
    BY PmmConstants, SearchedIsFinite DEF IndInv
  <2> QED
    BY <2>1, SearchedIsFinite DEF Distance
<1>2. T \subseteq Nat /\ T # {}
  BY <1>1
<1>3. PICK d \in T : \A e \in T : d <= e
  BY <1>2, LeastNat
<1>4. PICK p \in Searched \ bitmap : d = Distance(p)
  BY <1>3
<1>5. p \in FirstFree
  BY <1>3, <1>4 DEF FirstFree
<1> QED
  BY <1>5

\* If pmm_init counts no page as taken that is not, pmm_alloc_page gives up only when
\* every page is taken: neither the check at its head nor a search that starts at the
\* cursor and wraps around misses a free page.  Holes in the memory map do no harm; a
\* kernel image behind the bitmap may.
THEOREM RefusalTheorem ==
    ASSUME Drift >= 0
    PROVE  Spec => []NoFalseOom
<1>1. IndInv => NoFalseOom
  <2> SUFFICES ASSUME IndInv, used_pages \notin 0 .. total_pages - 1 \/ FirstFree = {}
               PROVE  Searched \subseteq bitmap
    BY DEF NoFalseOom
  <2>0. used_pages \in Nat /\ total_pages \in Nat
    BY OwnedIsFinite, InitUsedIsNat, PmmConstants DEF IndInv, CountsOwned
  <2>1. CASE FirstFree = {}
    BY <2>1, SearchFinds
  <2>2. CASE used_pages >= total_pages
    <3>1. /\ IsFiniteSet(Searched \ bitmap) /\ Cardinality(Searched \ bitmap) \in Nat
          /\ total_pages - used_pages = Cardinality(Searched \ bitmap) + Drift
          /\ Drift \in Int
      BY SearchedIsFinite, Parts, DriftIs DEF CountDrift
    <3>2. Cardinality(Searched \ bitmap) = 0
      BY <2>0, <2>2, <3>1
    <3>3. Searched \ bitmap = {}
      BY <3>1, <3>2, FS_EmptySet
    <3> QED
      BY <3>3
  <2> QED
    BY <2>0, <2>1, <2>2
<1> QED
  BY InductiveInvariant, <1>1, PTL

\* If pmm_init counts no page as free that the search does not reach, a page is found
\* whenever the check at the head of pmm_alloc_page passes.  Usable pages behind the
\* bitmap break it where memset or chance has set their bits.
THEOREM CheckTheorem ==
    ASSUME Drift <= 0
    PROVE  Spec => []CheckExact
<1>1. IndInv => CheckExact
  <2> SUFFICES ASSUME IndInv, used_pages < total_pages PROVE Searched \ bitmap # {}
    BY SearchFinds DEF CheckExact
  <2>0. used_pages \in Nat /\ total_pages \in Nat
    BY OwnedIsFinite, InitUsedIsNat, PmmConstants DEF IndInv, CountsOwned
  <2>1. total_pages - used_pages = Cardinality(Searched \ bitmap) + Drift /\ Drift \in Int
    BY DriftIs DEF CountDrift
  <2>2. Cardinality(Searched \ bitmap) \in Nat
    BY SearchedIsFinite, Parts
  <2>3. Cardinality(Searched \ bitmap) # 0
    BY <2>0, <2>1, <2>2
  <2> QED
    BY <2>3, FS_EmptySet
<1> QED
  BY InductiveInvariant, <1>1, PTL
=============================================================================
