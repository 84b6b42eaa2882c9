-------------------------------- MODULE Pmm --------------------------------
(***************************************************************************)
(* The physical page allocator, src/src/memory/pmm.c: a bitmap with one    *)
(* bit per page, a count of used pages and the position at which the next  *)
(* search starts.  Pages are numbered by physical address / PAGE_SIZE.     *)
(*                                                                         *)
(* pmm_init sizes the bitmap by the NUMBER of usable pages but indexes it  *)
(* by page NUMBER.  When the memory map has holes, the bits of the highest *)
(* pages lie behind the bitmap, in memory that nobody initialised.         *)
(***************************************************************************)
EXTENDS Integers, FiniteSets

CONSTANTS
    Entries,       \* the usable entries of the memory map: [base, end] in pages
    KernelPages,   \* the pages of the kernel image; no usable entry holds them
    BehindBitmap,  \* the bits behind the bitmap that happen to be set
    BITS_PER_BYTE,
    PAGE_SIZE      \* bytes in a page, for the size of the bitmap itself

VARIABLES
    bitmap,          \* the page numbers whose bit is set
    used_pages,
    last_search_pos,
    owned            \* the pages callers hold

vars == <<bitmap, used_pages, last_search_pos, owned>>

-----------------------------------------------------------------------------
(***************************************************************************)
(* pmm_init.                                                               *)
(***************************************************************************)

PagesOf(e) == e.base .. e.end - 1

Usable == UNION {PagesOf(e) : e \in Entries}

\* count_total_pages; the entries of a Limine memory map do not overlap.
total_pages == Cardinality(Usable)

CeilDiv(a, b) == (a + b - 1) \div b

bitmap_size_bytes == CeilDiv(total_pages, BITS_PER_BYTE)
bitmap_size_pages == CeilDiv(bitmap_size_bytes, PAGE_SIZE)

\* The bits that memset sets.
BitmapBits == 0 .. bitmap_size_bytes * BITS_PER_BYTE - 1

\* place_bitmap: the start of the lowest usable entry with room for the bitmap
\* (the entries are sorted by address).
BitmapBase ==
    LET fits == {e \in Entries : e.end - e.base >= bitmap_size_pages}
    IN  (CHOOSE e \in fits : \A f \in fits : e.base <= f.base).base

BitmapPages == BitmapBase .. BitmapBase + bitmap_size_pages - 1

\* The pages pmm_alloc_page and pmm_alloc_pages search.
Searched == 0 .. total_pages - 1

\* The pages nobody may be given.
Reserved == (Searched \ Usable) \cup KernelPages \cup BitmapPages

\* Slips in pmm_init that the properties must notice.
AfterFree_LastPageKept ==
    (BitmapBits \cup BehindBitmap) \ UNION {e.base .. e.end - 2 : e \in Entries}
InitUsed_FreeNotCounted == total_pages
InitBitmap_BitmapNotLocked ==
    ((BitmapBits \cup BehindBitmap) \ Usable) \cup KernelPages

\* memset(pmm_bitmap, 0xFF, ...) next to whatever lies behind the bitmap,
\* free_usable_pages, lock_kernel_pages and lock_bitmap_pages.
AfterMemset == BitmapBits \cup BehindBitmap
AfterFree   == AfterMemset \ Usable
InitBitmap  == AfterFree \cup KernelPages \cup BitmapPages

\* Each clearing of a set bit decrements used_pages, each setting of a clear
\* bit increments it.
InitUsed ==
    total_pages - Cardinality(AfterMemset \cap Usable)
                + Cardinality((KernelPages \cup BitmapPages) \ AfterFree)

ASSUME PmmConstants ==
    /\ \A e \in Entries : e.base \in Nat /\ e.end \in Nat /\ e.base < e.end
    /\ IsFiniteSet(Usable) /\ total_pages \in Nat \ {0}
    /\ KernelPages \subseteq Nat /\ IsFiniteSet(KernelPages)
    /\ KernelPages \cap Usable = {}
    /\ BehindBitmap \subseteq Nat \ BitmapBits /\ IsFiniteSet(BehindBitmap)
    /\ BITS_PER_BYTE \in Nat \ {0} /\ PAGE_SIZE \in Nat \ {0}
    /\ BitmapPages \subseteq Usable

-----------------------------------------------------------------------------
(***************************************************************************)
(* Slips that the properties must notice.                                  *)
(***************************************************************************)
FreedBits_NotTested(pages) == pages
-----------------------------------------------------------------------------

Init ==
    /\ bitmap = InitBitmap
    /\ used_pages = InitUsed
    /\ last_search_pos = 0
    /\ owned = {}

\* How many steps the search makes from last_search_pos to p.
Distance(p) == (p - last_search_pos) % total_pages

\* The page the next-fit search of pmm_alloc_page stops at, if any.
FirstFree ==
    {p \in Searched \ bitmap :
        \A q \in Searched \ bitmap : Distance(p) <= Distance(q)}

\* pmm_alloc_page with a page left.
AllocPage ==
    /\ used_pages < total_pages
    /\ \E p \in FirstFree :
          /\ bitmap' = bitmap \cup {p}
          /\ last_search_pos' = p
          /\ owned' = owned \cup {p}
    /\ used_pages' = used_pages + 1

\* The start of the first run of n free pages.
FirstRun(n) ==
    LET runs == {s \in Searched : /\ s + n - 1 \in Searched
                                  /\ (s .. s + n - 1) \cap bitmap = {}}
    IN  {s \in runs : \A r \in runs : s <= r}

\* pmm_alloc_pages
AllocPages(n) ==
    /\ n > 0 /\ used_pages + n <= total_pages
    /\ \E s \in FirstRun(n) :
          /\ bitmap' = bitmap \cup s .. s + n - 1
          /\ owned' = owned \cup s .. s + n - 1
    /\ used_pages' = used_pages + n
    /\ UNCHANGED last_search_pos

\* The bits that pmm_free_page and pmm_free_pages clear: a page that is already
\* free is reported and skipped.
FreedBits(pages) == pages \cap bitmap

\* pmm_free_page and pmm_free_pages of a range that its caller was given, any
\* part of which may have been freed before.
FreePages(s, n) ==
    /\ n > 0
    /\ s .. s + n - 1 \subseteq (Searched \ bitmap) \cup owned
    /\ bitmap' = bitmap \ (s .. s + n - 1)
    /\ used_pages' = used_pages - Cardinality(FreedBits(s .. s + n - 1))
    /\ owned' = owned \ (s .. s + n - 1)
    /\ UNCHANGED last_search_pos

Next ==
    \/ AllocPage
    \/ \E n \in 1 .. total_pages : AllocPages(n)
    \/ \E s \in Searched, n \in 1 .. total_pages : FreePages(s, n)

Spec == Init /\ [][Next]_vars

-----------------------------------------------------------------------------

\* Every variable has its type; used_pages does not wrap below 0.
TypeOK ==
    /\ bitmap \subseteq Nat
    /\ used_pages \in Nat
    /\ last_search_pos \in Searched
    /\ owned \subseteq Searched

\* For every memory map, with holes or without: no page that is reserved (the
\* kernel image, the bitmap itself, a hole in the memory map) or held by another
\* caller is ever handed out again, because its bit stays set.
Exclusive ==
    /\ owned \cap Reserved = {}
    /\ owned \cup (Reserved \cap Searched) \subseteq bitmap

\* No page leaks: one that is neither reserved nor held is free.
NoLeak == Searched \ bitmap = Searched \ (owned \cup Reserved)

\* By how much pmm_init miscounts.  Usable pages whose bit was cleared are counted
\* as free although the search does not reach them; pages of the bitmap that it
\* does not reach, and kernel pages whose bits behind the bitmap were clear, are
\* counted as taken although they never were among the free ones.
Drift ==
    Cardinality((Usable \cap AfterMemset) \ Searched)
        - Cardinality(BitmapPages \ Searched)
        - Cardinality(KernelPages \ AfterMemset)

\* The free pages that the counters promise differ from those the search can find
\* by what pmm_init miscounted, and by nothing that comes later: no sequence of
\* allocations, frees and double frees, single or in runs, makes it worse.
CountDrift == total_pages - used_pages = Cardinality(Searched \ bitmap) + Drift

\* The check at the head of pmm_alloc_page does not promise too much: a free page
\* is found whenever it passes, and the warning "No free pages found despite
\* availability check" is never printed.
CheckExact == used_pages < total_pages => FirstFree # {}

\* pmm_alloc_page gives up only when every page is taken, whether the check at its
\* head fails (used_pages is unsigned: below zero it would be a large number) or the
\* search comes back to where it started.
NoFalseOom ==
    used_pages \notin 0 .. total_pages - 1 \/ FirstFree = {} => Searched \subseteq bitmap
=============================================================================
