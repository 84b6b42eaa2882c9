------------------------------ MODULE UserHeap ------------------------------
(***************************************************************************)
(* malloc and free of src/userspace/libc/heap.c in one client, on the      *)
(* memory that UserMemory gives it: the heap grows with sbrk, while        *)
(* share_mem of the window manager moves the same break and puts a buffer  *)
(* between two blocks of the heap.  The other processes, and all where     *)
(* nobody's heap is followed, call sbrk directly.                          *)
(*                                                                         *)
(* A header has its magic number where block is defined; what else lies at *)
(* an address never equals it.                                             *)
(***************************************************************************)
EXTENDS UserMemory, SequencesExt

CONSTANTS
    HeaderSize,     \* sizeof(heap_block_t)
    MIN_SPLIT,
    ALIGNMENT,      \* 16
    Requests,       \* the arguments of malloc
    NULL

ASSUME UserHeapConstants ==
    /\ {HeaderSize, MIN_SPLIT, ALIGNMENT} \subseteq Nat \ {0}
    /\ Requests \subseteq Nat \ {0}
    /\ NULL \notin Nat

VARIABLES
    user,           \* the client whose heap is followed, or None
    heap_head,
    block,          \* the headers: [size, free, next, prev] by address
    live,           \* what the client asked for, by the address of the block's header
    buffers,        \* history: the pages where share_mem put a buffer
    careless        \* history: the block below a buffer was free at some time

heapVars == <<user, heap_head, block, live>>
heap_history == <<buffers, careless>>

-----------------------------------------------------------------------------
(***************************************************************************)
(* Slips that the properties must notice.                                  *)
(***************************************************************************)
Rest_HeaderForgotten(h, b, n) == h[b].size - n
-----------------------------------------------------------------------------

Align(n) == ((n + ALIGNMENT - 1) \div ALIGNMENT) * ALIGNMENT

\* The list from heap_head on, as far as the magic numbers go.
List ==
    LET from[b \in DOMAIN block] ==
            <<b>> \o (IF block[b].next \in DOMAIN block THEN from[block[b].next] ELSE <<>>)
    IN  IF heap_head \in DOMAIN block THEN from[heap_head] ELSE <<>>

\* The size of what split_block cuts off behind the first n bytes.
Rest(h, b, n) == h[b].size - n - HeaderSize

split_block(h, b, n) ==
    LET new == b + HeaderSize + n
    IN  IF h[b].size < n + HeaderSize + MIN_SPLIT THEN h
        ELSE [c \in DOMAIN h \cup {new} |->
                CASE c = b -> [h[b] EXCEPT !.size = n, !.next = new]
                  [] c = new -> [size |-> Rest(h, b, n), free |-> TRUE,
                                 next |-> h[b].next, prev |-> b]
                  [] c = h[b].next -> [h[c] EXCEPT !.prev = new]
                  [] OTHER -> h[c]]

\* The next block, if it is free, becomes part of b: whether it lies behind it in
\* memory is not looked at.
MergeNext(h, b) ==
    LET n == h[b].next
    IN  IF n = NULL THEN h
        ELSE IF ~h[n].free THEN h
        ELSE [c \in DOMAIN h \ {n} |->
                CASE c = b -> [h[b] EXCEPT !.size = @ + HeaderSize + h[n].size,
                                           !.next = h[n].next]
                  [] c = h[n].next -> [h[c] EXCEPT !.prev = b]
                  [] OTHER -> h[c]]

\* coalesce calls itself for the block before b while that one is free.
coalesce(h, b) ==
    LET back[c \in DOMAIN h] ==
            IF h[c].prev = NULL THEN <<c>>
            ELSE IF ~h[h[c].prev].free THEN <<c>> ELSE <<c>> \o back[h[c].prev]
    IN  FoldLeft(MergeNext, h, back[b])

\* The first block of the list that malloc can use.
Fits(n) == {b \in Range(List) : block[b].free /\ block[b].size >= n}
FirstFit(n) == SelectInSeq(List, LAMBDA b : b \in Fits(n))

\* The last block that begins below a buffer is free.
FreeBelow ==
    \E p \in buffers : LET below == {b \in DOMAIN block : b < p * PAGE_SIZE}
                       IN  below # {} /\ block[Max(below)].free

Noted == careless' = (careless \/ FreeBelow')

\* malloc(n) out of the list.
MallocFit(n) ==
    LET b == List[FirstFit(Align(n))]
    IN  /\ user \in Alive
        /\ Fits(Align(n)) # {}
        /\ block' = [split_block(block, b, Align(n)) EXCEPT ![b].free = FALSE]
        /\ live' = [c \in DOMAIN live \cup {b} |-> IF c = b THEN n ELSE live[c]]
        /\ UNCHANGED <<vars, user, heap_head, buffers>>
        /\ Noted

\* malloc(n) with a new block at the break.
MallocGrow(n) ==
    LET b == program_break[user]
        last == IF List = <<>> THEN NULL ELSE Last(List)
        new == [size |-> Align(n), free |-> FALSE, next |-> NULL, prev |-> last]
    IN  /\ user \in Alive /\ Fits(Align(n)) = {}
        /\ Sbrk(user, Align(n) + HeaderSize)
        /\ block' = [c \in DOMAIN block \cup {b} |->
                        CASE c = b -> new
                          [] c = last -> [block[c] EXCEPT !.next = b]
                          [] OTHER -> block[c]]
        /\ heap_head' = IF last = NULL THEN b ELSE heap_head
        /\ live' = [c \in DOMAIN live \cup {b} |-> IF c = b THEN n ELSE live[c]]
        /\ UNCHANGED <<user, buffers>>
        /\ Noted

\* malloc(n) returns NULL: sbrk ran out of memory.  The first call leaves
\* heap_head at the break.
MallocFails(n) ==
    /\ user \in Alive /\ Fits(Align(n)) = {}
    /\ SbrkFails(user, Align(n) + HeaderSize)
    /\ heap_head' = IF heap_head = NULL THEN program_break[user] ELSE heap_head
    /\ UNCHANGED <<user, block, live, buffers>>
    /\ Noted

\* free
Free(b) ==
    /\ user \in Alive
    /\ b \in DOMAIN live
    /\ block' = coalesce([block EXCEPT ![b].free = TRUE], b)
    /\ live' = [c \in DOMAIN live \ {b} |-> live[c]]
    /\ UNCHANGED <<vars, user, heap_head, buffers>>
    /\ Noted

-----------------------------------------------------------------------------

\* What UserMemory does without the client's heap.
Kernel ==
    /\ \/ \E p \in Proc : Create(p) \/ Exit(p)
       \/ \E p \in Proc \ {user}, inc \in Increments : Sbrk(p, inc) \/ SbrkFails(p, inc)
       \/ \E q \in Proc \ {user} : ShareMem(q)
       \/ \E l \in windows, n \in 1 .. SharedPages : Unmap(l, n)
       \/ Reap
    /\ UNCHANGED <<heapVars, buffers, careless>>

\* The window manager makes a window for the client.
ShareWithUser ==
    /\ user \in Alive
    /\ ShareMem(user)
    /\ buffers' = buffers \cup {PageTop(program_break[user])}
    /\ UNCHANGED heapVars
    /\ Noted

HeapInit ==
    /\ \E m \in Machines : Init(m) /\ user = m.user
    /\ heap_head = NULL
    /\ block = [b \in {} |-> NULL]
    /\ live = [b \in {} |-> NULL]
    /\ buffers = {}
    /\ careless = FALSE

HeapNext ==
    \/ Kernel
    \/ ShareWithUser
    \/ \E n \in Requests : MallocFit(n) \/ MallocGrow(n) \/ MallocFails(n)
    \/ \E b \in DOMAIN live : Free(b)

HeapSpec == HeapInit /\ [][HeapNext]_<<vars, heapVars, heap_history>>

-----------------------------------------------------------------------------

\* The bytes of block b.
Extent(b) == b + HeaderSize .. b + HeaderSize + block[b].size - 1

\* A client that keeps the block it got last before its window, as the terminal
\* keeps its font, has no use for a test for adjacency in coalesce: every block it
\* holds is as large as it asked for, in memory that is mapped, apart from
\* every other block with its header and apart from the window's buffer, wherever
\* the break went between two calls.
HeapApart ==
    ~careless /\ user \in Alive => \A b \in DOMAIN live :
        /\ block[b].size >= live[b]
        /\ \A i \in Extent(b) :
              /\ i < program_break[user] /\ map[user][i \div PAGE_SIZE] # None
              /\ \A p \in buffers : i \div PAGE_SIZE \notin p .. p + SharedPages - 1
        /\ \A c \in DOMAIN block \ {b} :
              Extent(b) \cap (c .. c + HeaderSize + block[c].size - 1) = {}
=============================================================================
