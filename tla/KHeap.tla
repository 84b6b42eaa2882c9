------------------------------- MODULE KHeap -------------------------------
(***************************************************************************)
(* The kernel heap, src/src/memory/kheap.c: a doubly linked list of blocks *)
(* that fills the memory from KHEAP_START to heap_end.  A block is named   *)
(* by the address of its header.  Every caller runs with interrupts off or *)
(* before a second task exists, so a call is one step.                     *)
(*                                                                         *)
(* heap_expand does not test the result of pmm_alloc_page; the model stays *)
(* where physical memory lasts (HeapLimit).                                *)
(***************************************************************************)
EXTENDS Integers

CONSTANTS
    HeaderSize,   \* sizeof(heap_block_t)
    ALIGNMENT,
    MIN_SPLIT,
    PAGE_SIZE,
    Sizes,        \* the sizes callers ask for
    HeapLimit,    \* bound: no expansion leaves heap_end above it
    NULL

KHEAP_START == 0
InitialSize == 4 * PAGE_SIZE

ASSUME KHeapConstants ==
    /\ HeaderSize \in Nat \ {0} /\ ALIGNMENT \in Nat \ {0}
    /\ MIN_SPLIT \in Nat /\ PAGE_SIZE \in Nat \ {0}
    /\ HeaderSize < PAGE_SIZE
    /\ Sizes \subseteq Nat \ {0}
    /\ HeapLimit \in Nat
    /\ NULL \notin Nat

VARIABLES
    block,     \* the headers: address |-> [size, free, next, prev]
    heap_end,
    live       \* the blocks callers hold: address |-> the size asked for

vars == <<block, heap_end, live>>

AlignUp(x, a) == ((x + a - 1) \div a) * a

\* The address behind block b of the list h.
End(h, b) == b + HeaderSize + h[b].size

-----------------------------------------------------------------------------
(***************************************************************************)
(* Slips that the properties must notice.                                  *)
(***************************************************************************)
Split_BackLinkForgotten(h, b, n) ==
    IF h[b].size < n + HeaderSize + MIN_SPLIT THEN h
    ELSE LET new == b + HeaderSize + n
         IN  [c \in DOMAIN h \cup {new} |->
                 IF c = b THEN [h[b] EXCEPT !.size = n, !.next = new]
                 ELSE IF c = new
                 THEN [size |-> h[b].size - n - HeaderSize, free |-> TRUE,
                       next |-> h[b].next, prev |-> b]
                 ELSE h[c]]
FirstFit_TooSmall(h, n) ==
    LET fits == {b \in DOMAIN h : h[b].free /\ h[b].size + ALIGNMENT >= n}
    IN  {b \in fits : \A c \in fits : b <= c}
Coalesce_OnlyForward(h, b) ==
    LET n == h[b].next
    IN  IF n = NULL \/ ~ h[n].free THEN h
        ELSE [c \in DOMAIN h \ {n} |->
                 IF c = b
                 THEN [h[b] EXCEPT !.size = @ + HeaderSize + h[n].size,
                                   !.next = h[n].next]
                 ELSE IF c = h[n].next THEN [h[c] EXCEPT !.prev = b] ELSE h[c]]
-----------------------------------------------------------------------------

\* split_block: keep n bytes of b and turn the rest into a free block.
Split(h, b, n) ==
    IF h[b].size < n + HeaderSize + MIN_SPLIT THEN h
    ELSE LET new == b + HeaderSize + n
         IN  [c \in DOMAIN h \cup {new} |->
                 IF c = b THEN [h[b] EXCEPT !.size = n, !.next = new]
                 ELSE IF c = new
                 THEN [size |-> h[b].size - n - HeaderSize, free |-> TRUE,
                       next |-> h[b].next, prev |-> b]
                 ELSE IF c = h[b].next THEN [h[c] EXCEPT !.prev = new] ELSE h[c]]

\* The first half of coalesce: b swallows its successor if that is free.
MergeNext(h, b) ==
    LET n == h[b].next
    IN  IF n = NULL \/ ~ h[n].free THEN h
        ELSE [c \in DOMAIN h \ {n} |->
                 IF c = b
                 THEN [h[b] EXCEPT !.size = @ + HeaderSize + h[n].size,
                                   !.next = h[n].next]
                 ELSE IF c = h[n].next THEN [h[c] EXCEPT !.prev = b] ELSE h[c]]

\* coalesce.  The recursion into a free predecessor ends there: the
\* predecessor of a free block is in use (NoTwoFree).
Coalesce(h, b) ==
    LET g == MergeNext(h, b)
        p == g[b].prev
    IN  IF p # NULL /\ g[p].free THEN MergeNext(g, p) ELSE g

\* get_last_block
LastBlock(h) == CHOOSE b \in DOMAIN h : h[b].next = NULL

\* heap_expand: a free block of whole pages at heap_end.
Expand(h, n) ==
    [c \in DOMAIN h \cup {heap_end} |->
        IF c = heap_end
        THEN [size |-> AlignUp(n, PAGE_SIZE) - HeaderSize, free |-> TRUE,
              next |-> NULL, prev |-> LastBlock(h)]
        ELSE IF c = LastBlock(h) THEN [h[c] EXCEPT !.next = heap_end] ELSE h[c]]

\* The first block of the list with room for n; the list is in address order
\* (Tiled).
FirstFit(h, n) ==
    LET fits == {b \in DOMAIN h : h[b].free /\ h[b].size >= n}
    IN  {b \in fits : \A c \in fits : b <= c}

\* kmalloc(size): the list and heap_end it leaves, and the block it returns.
Malloc(size) ==
    LET n   == AlignUp(size, ALIGNMENT)
        fit == FirstFit(block, n)
        b   == IF fit = {} THEN heap_end ELSE CHOOSE c \in fit : TRUE
        h   == IF fit = {} THEN Expand(block, n + HeaderSize) ELSE Split(block, b, n)
    IN  [list |-> [h EXCEPT ![b].free = FALSE],
         end  |-> IF fit = {} THEN heap_end + AlignUp(n + HeaderSize, PAGE_SIZE)
                  ELSE heap_end,
         ptr  |-> b]

\* kfree of a block of the list h.
Free(h, b) == Coalesce([h EXCEPT ![b].free = TRUE], b)

\* heap_init
Init ==
    /\ block = [b \in {KHEAP_START} |->
                   [size |-> InitialSize - HeaderSize, free |-> TRUE,
                    next |-> NULL, prev |-> NULL]]
    /\ heap_end = KHEAP_START + InitialSize
    /\ live = [b \in {} |-> 0]

With(f, b, n) == [c \in DOMAIN f \cup {b} |-> IF c = b THEN n ELSE f[c]]
Without(f, b) == [c \in DOMAIN f \ {b} |-> f[c]]

Kmalloc(size) ==
    LET r == Malloc(size)
    IN  /\ r.end <= HeapLimit
        /\ block' = r.list
        /\ heap_end' = r.end
        /\ live' = With(live, r.ptr, size)

Kfree(b) ==
    /\ block' = Free(block, b)
    /\ live' = Without(live, b)
    /\ UNCHANGED heap_end

\* krealloc when the block is large enough.
KreallocInPlace(b, size) ==
    /\ block[b].size >= size
    /\ live' = With(live, b, size)
    /\ UNCHANGED <<block, heap_end>>

\* krealloc when it is not: kmalloc, copy, kfree.
KreallocMove(b, size) ==
    LET r == Malloc(size)
    IN  /\ block[b].size < size
        /\ r.end <= HeapLimit
        /\ block' = Free(r.list, b)
        /\ heap_end' = r.end
        /\ live' = With(Without(live, b), r.ptr, size)

Next ==
    \/ \E size \in Sizes : Kmalloc(size)
    \/ \E b \in DOMAIN live : Kfree(b)
    \/ \E b \in DOMAIN live, size \in Sizes :
          KreallocInPlace(b, size) \/ KreallocMove(b, size)

Spec == Init /\ [][Next]_vars

-----------------------------------------------------------------------------

\* Every variable has its type; no size is negative.
TypeOK ==
    /\ heap_end \in Nat
    /\ DOMAIN block \subseteq KHEAP_START .. heap_end - 1
    /\ \A b \in DOMAIN block :
          block[b] \in [size : Nat, free : BOOLEAN, next : DOMAIN block \cup {NULL},
                       prev : DOMAIN block \cup {NULL}]
    /\ DOMAIN live \subseteq DOMAIN block
    /\ \A b \in DOMAIN live : live[b] \in Nat

\* The blocks tile the heap in list order: each one ends where the next one
\* begins and the last one at heap_end, and the links of split_block, coalesce
\* and heap_expand lead there and back.  So no two blocks overlap and no byte of
\* the heap is lost between them.
Tiled ==
    /\ TypeOK
    /\ KHEAP_START \in DOMAIN block
    /\ \A b \in DOMAIN block :
          /\ block[b].next = IF End(block, b) = heap_end THEN NULL ELSE End(block, b)
          /\ block[b].next # NULL => block[block[b].next].prev = b
          /\ block[b].prev = NULL <=> b = KHEAP_START
          /\ \A c \in DOMAIN block : b < c => End(block, b) <= c

\* Two neighbours are never both free: coalesce leaves nothing to merge although
\* it looks only one block ahead, and the block that heap_expand appends behind
\* a free one is taken at once.
NoTwoFree ==
    \A b \in DOMAIN block :
        block[b].free /\ block[b].next # NULL => ~ block[block[b].next].free

\* The blocks in use are those callers hold, and each has the room its caller
\* asked for.
LiveHasRoom ==
    /\ \A b \in DOMAIN block : ~ block[b].free <=> b \in DOMAIN live
    /\ \A b \in DOMAIN live : block[b].size >= live[b]
=============================================================================
