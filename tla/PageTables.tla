----------------------------- MODULE PageTables -----------------------------
(***************************************************************************)
(* The page tables of src/src/memory/vmm.c, with what task.c and           *)
(* sys_memory.c do to them: trees of frames, four levels deep in the code, *)
(* whose last level points at the mapped frames.  The upper half of every  *)
(* root is copied from the kernel's, so kernel tables are shared by all    *)
(* trees; destroy_user_memory takes the lower half apart again.            *)
(*                                                                         *)
(* The window manager is the first process.  It alone calls sys_share_mem, *)
(* which maps one frame in its own tree and in that of a client, and it    *)
(* never exits.  The teardown of the client frees the frame, which the     *)
(* window manager then still maps: a frame can be in use, as a page or a   *)
(* table, and in the window manager's tree as well.                        *)
(*                                                                         *)
(* The operations run with interrupts off.  Running out of frames for a    *)
(* table stops the machine (get_or_alloc_table spins), so it is no step.   *)
(***************************************************************************)
EXTENDS Integers, FiniteSetsExt, Functions

CONSTANTS
    NumFrames,   \* physical frames are 1 .. NumFrames
    Levels,      \* 4 in the code
    Index,       \* the entries of a table
    UserIndex,   \* the entries of a root that make up the lower half
    HeapIndex,   \* the root entry below which the kernel heap lies
    Used,        \* bound: the virtual pages that are mapped at all
    MaxCreated   \* bound: processes that are started

None == 0
Frames == 1 .. NumFrames

ASSUME PageTablesConstants ==
    /\ NumFrames \in Nat /\ Levels \in Nat /\ 2 <= Levels /\ Levels + 2 <= NumFrames
    /\ Index \subseteq Nat /\ UserIndex \subseteq Index
    /\ HeapIndex \in Index \ UserIndex
    /\ MaxCreated \in Nat

VARIABLES
    entry,   \* the contents of the frames, as tables
    roots,   \* the PML4 frames of the processes
    free,    \* the frames the page allocator has
    created, \* how many processes the window manager and its clients have started
    share,   \* the page sys_share_mem has yet to map in the client: [client, frame]
    lent     \* history: the entries <<table, index>> of the window manager's tables
             \* that sys_share_mem wrote

vars == <<entry, roots, free, created, share, lent>>

kernel_pml4 == 1
wm == Levels + 2   \* the root of the window manager

\* A virtual page is its index at every level.
VPages == Used \cap [1 .. Levels -> Index]
UserVPages == {v \in VPages : v[1] \in UserIndex}
HeapVPages == {v \in VPages : v[1] = HeapIndex}

-----------------------------------------------------------------------------
(***************************************************************************)
(* Slips that the properties must notice.                                  *)
(***************************************************************************)
CopiedRoot_Empty(r) == [i \in Index |-> None]
Visited_KernelHalfToo(r) ==
    LET d[k \in 1 .. Levels] ==
            IF k = 1 THEN {entry[r][i] : i \in Index} \ {None}
            ELSE {entry[g][i] : g \in d[k - 1], i \in Index} \ {None}
    IN  d
-----------------------------------------------------------------------------

\* get_table_noalloc at every level: the tables on the way to page v.
Tables(r, v) ==
    LET t[k \in 1 .. Levels] ==
            IF k = 1 THEN r
            ELSE IF t[k - 1] = None THEN None ELSE entry[t[k - 1]][v[k - 1]]
    IN  t

\* vmm_get_mapping
Mapping(r, v) ==
    LET pt == Tables(r, v)[Levels]
    IN  IF pt = None THEN None ELSE entry[pt][v[Levels]]

\* The entry of the last table that maps page v.
LeafEntry(r, v) == <<Tables(r, v)[Levels], v[Levels]>>

\* memset(new_table, 0, PAGE_SIZE) for each new table.
Cleared(new) ==
    [g \in Frames |-> IF g \in new THEN [i \in Index |-> None] ELSE entry[g]]

\* The free frame pmm_alloc_page returns.  Which one is immaterial: every
\* caller clears it, so the least one stands for any.
Least(S) == Min(S)

\* The frames left for tables once frame f was taken for a page.
Pool(f) == free \ {f}

\* vmm_map_page: get_or_alloc_table adds the tables that are missing.
MapPage(r, v, f) ==
    LET t == Tables(r, v)
        missing == {k \in 1 .. Levels : t[k] = None}
        new[k \in 1 .. Levels] ==
            IF t[k] # None THEN t[k] ELSE Least(Pool(f) \ {new[j] : j \in 1 .. k - 1})
        added == {new[k] : k \in missing}
        old == Cleared(added)
    IN  /\ Cardinality(Pool(f)) >= Cardinality(missing)
        /\ entry' = [g \in Frames |->
                        IF g \notin Range(new) THEN old[g]
                        ELSE LET k == CHOOSE k \in 1 .. Levels : new[k] = g
                             IN  [old[g] EXCEPT ![v[k]] =
                                     IF k = Levels THEN f ELSE new[k + 1]]]
        /\ free' = Pool(f) \ added

\* The lower half is cleared, the upper half copied from the kernel's root.
CopiedRoot(r) ==
    [i \in Index |-> IF i \in UserIndex THEN None ELSE entry[kernel_pml4][i]]

\* heap_init has mapped the first page of the heap: a chain of one table for
\* each level below the root, and the frame behind them.  Then the kernel starts
\* the window manager.
Init ==
    /\ entry = [g \in Frames |-> [i \in Index |->
                   IF g \in {kernel_pml4, wm} /\ i = HeapIndex THEN 2
                   ELSE IF g \in 2 .. Levels /\ i = Min(Index) THEN g + 1
                   ELSE None]]
    /\ roots = {wm}
    /\ free = Levels + 3 .. NumFrames
    /\ created = 0
    /\ share = {}
    /\ lent = {}

\* create_user_process_from_file
CreateSpace ==
    /\ free # {} /\ created < MaxCreated
    /\ created' = created + 1
    /\ LET r == Least(free)
       IN  /\ entry' = [entry EXCEPT ![r] = CopiedRoot(r)]
           /\ roots' = roots \cup {r}
           /\ free' = free \ {r}
    /\ UNCHANGED <<share, lent>>

\* A fresh page for a process: segments, stack, sbrk.
MapUser(r, v) ==
    /\ free # {}
    /\ Mapping(r, v) = None
    /\ MapPage(r, v, Least(free))
    /\ UNCHANGED <<roots, created, share, lent>>

\* heap_expand
MapKernel(v) ==
    /\ free # {}
    /\ Mapping(kernel_pml4, v) = None
    /\ MapPage(kernel_pml4, v, Least(free))
    /\ UNCHANGED <<roots, created, share, lent>>

\* One turn of the loop of sys_share_mem with the client q: the frame is mapped at
\* page v of the window manager first.
ShareMine(v, q) ==
    /\ free # {}
    /\ Mapping(wm, v) = None
    /\ MapPage(wm, v, Least(free))
    /\ share' = {[client |-> q, frame |-> Least(free)]}
    /\ lent' = lent \cup {LeafEntry(wm, v)'}
    /\ UNCHANGED <<roots, created>>

\* The same turn goes on: the frame is mapped at page v of the client.
ShareTheirs(v) ==
    /\ \E s \in share : /\ Mapping(s.client, v) = None
                       /\ MapPage(s.client, v, s.frame)
    /\ share' = {}
    /\ UNCHANGED <<roots, created, lent>>

\* The loop of sys_unmap, which the window manager calls for the buffers it shares:
\* the entry is cleared, the frame and the tables stay allocated.
UnmapPage(v) ==
    LET leaf == LeafEntry(wm, v)
    IN  /\ leaf \in lent
        /\ entry' = [entry EXCEPT ![leaf[1]] = [@ EXCEPT ![leaf[2]] = None]]
        /\ lent' = lent \ {leaf}
        /\ UNCHANGED <<roots, free, created, share>>

\* The frames destroy_user_memory visits, by depth: tables first, then (at depth
\* Levels) the mapped frames.
Visited(r) ==
    LET d[k \in 1 .. Levels] ==
            IF k = 1 THEN {entry[r][i] : i \in UserIndex} \ {None}
            ELSE {entry[g][i] : g \in d[k - 1], i \in Index} \ {None}
    IN  d

\* destroy_user_memory and the release of the root in scheduler_schedule.
Destroy(r) ==
    LET d == Visited(r)
        tables == UNION {d[k] : k \in 1 .. Levels - 1}
    IN  /\ entry' = [g \in Frames |->
                        IF g \in tables THEN [i \in Index |-> None]
                        ELSE IF g = r
                        THEN [i \in Index |-> IF i \in UserIndex THEN None ELSE entry[r][i]]
                        ELSE entry[g]]
        /\ roots' = roots \ {r}
        /\ free' = free \cup tables \cup d[Levels] \cup {r}
        /\ UNCHANGED <<created, share, lent>>

\* Nothing comes between the two halves of a turn of sys_share_mem.
Next ==
    \/ /\ share = {}
       /\ \/ CreateSpace
          \/ \E r \in roots, v \in UserVPages : MapUser(r, v)
          \/ \E v \in UserVPages : UnmapPage(v)
          \/ \E v \in HeapVPages : MapKernel(v)
          \/ \E v \in UserVPages, q \in roots \ {wm} : ShareMine(v, q)
          \/ \E r \in roots \ {wm} : Destroy(r)
    \/ \E v \in UserVPages : ShareTheirs(v)

Spec == Init /\ [][Next]_vars

-----------------------------------------------------------------------------

\* Entry i of table g, unless it is for a page that is only shared.
Held(g, i) == IF <<g, i>> \in lent THEN None ELSE entry[g][i]

\* All frames below the given entries of a root, but for those the window manager
\* only shares.
Below(r, is) ==
    LET d[k \in 1 .. Levels] ==
            IF k = 1 THEN {Held(r, i) : i \in is} \ {None}
            ELSE {Held(g, i) : g \in d[k - 1], i \in Index} \ {None}
    IN  UNION {d[k] : k \in 1 .. Levels}

UserFrames(r) == {r} \cup Below(r, UserIndex)
KernelFrames == {kernel_pml4} \cup Below(kernel_pml4, Index)

\* No frame belongs to two processes, or to a process and the kernel, or to any of
\* them and to the page allocator.
OwnersDisjoint ==
    LET of == [r \in roots |-> UserFrames(r)]
        kernel == KernelFrames
    IN  /\ \A r \in roots :
              /\ of[r] \cap (kernel \cup free) = {}
              /\ \A q \in roots \ {r} : of[r] \cap of[q] = {}
        /\ kernel \cap free = {}

\* Inside a process no frame is reached twice.
ReachedOnce ==
    \A r \in roots : LET own == UserFrames(r) IN
        \A g, h \in own, i, j \in Index :
            /\ Held(g, i) # None /\ Held(g, i) = Held(h, j) /\ Held(g, i) \in own
            => g = h /\ i = j

\* The trees do not grow into each other or into themselves, although frames are
\* shared and reused while the window manager still maps them: a shared page
\* counts as the client's, so the recursive teardown of a client frees each of its
\* frames once, no table or page of another client or of the kernel, and nothing
\* of the window manager's but the pages it shares.
TreesDisjoint == OwnersDisjoint /\ ReachedOnce

Abstract == INSTANCE AddrMaps WITH
    UserPages <- UserVPages,
    KernelPages <- HeapVPages,
    Lender <- wm,
    mapping <- [r \in roots \cup {kernel_pml4} |->
                   [v \in UserVPages \cup HeapVPages |-> Mapping(r, v)]]

\* The trees implement maps: mapping a page changes that page of that process
\* and nothing else, a heap page appears in every process at once although only
\* the kernel's tree is written, a shared page appears in two, and the teardown of
\* a process leaves every other map as it was and frees nothing that is mapped in
\* one, save the window manager's.
ImplementsMaps == Abstract!Spec
=============================================================================
