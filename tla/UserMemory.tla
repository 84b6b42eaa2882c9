----------------------------- MODULE UserMemory -----------------------------
(***************************************************************************)
(* The memory of user processes: sys_sbrk, sys_share_mem and sys_unmap of  *)
(* src/src/syscall/sys_memory.c, the first pages from                      *)
(* create_user_process_from_file, and their release by the scheduler after *)
(* task_exit.  An address space is a map from virtual pages to frames,     *)
(* which is what PageTables implements.                                    *)
(*                                                                         *)
(* The window manager shares a buffer with every client and never exits; a *)
(* shared frame is mapped in two address spaces and counted in none, so    *)
(* the teardown of the client frees it.  UserHeap has the next-state       *)
(* relation, with the calls that malloc makes.                             *)
(*                                                                         *)
(* sys_sbrk takes a signed increment.  A negative one, which no program    *)
(* passes, is left out: it would lower the break and unmap nothing, and    *)
(* the pages above it would be mapped over when the break rises again.     *)
(***************************************************************************)
EXTENDS Integers, FiniteSetsExt, Functions

CONSTANTS
    Proc,
    WM,             \* the window manager: the only caller of share_mem and unmap
    Frames,
    None,
    PAGE_SIZE,
    InitialBreak,   \* elf.program_break: the end of the last segment, rounded to a page
    Increments,     \* the arguments of sbrk: positive, as all that malloc passes are
    SharedPages,    \* pages of a shared window buffer
    Machines,       \* the systems to start in: [frames, procs, user]
    MaxPage         \* bound: no break moves past this page

ASSUME UserMemoryConstants ==
    /\ PAGE_SIZE \in Nat \ {0} /\ InitialBreak = PAGE_SIZE
    /\ Increments \subseteq Nat \ {0}
    /\ SharedPages \in Nat \ {0} /\ MaxPage \in Nat \ {0}
    /\ IsFiniteSet(Frames) /\ None \notin Frames \cup Proc /\ WM \in Proc
    /\ \A m \in Machines : /\ m.frames <= Cardinality(Frames)
                           /\ m.procs \subseteq Proc /\ m.user \in (m.procs \ {WM}) \cup {None}

VPage == 0 .. MaxPage - 1

VARIABLES
    state,          \* "unborn", "alive", "exited" or "reaped"
    zombie_task,    \* the process the next tick tears down, or None
    map,            \* the present entries of the lower half
    program_break,
    free,           \* the frames of the page allocator
    windows,        \* the buffers the window manager has: [client, page]
    loans,          \* history: all it ever had; no page is used for two of them
    failed,         \* history: the processes an sbrk of which ran out of memory
    unmapped        \* history: the pages of the window manager given to sys_unmap

vars == <<state, zombie_task, map, program_break, free, windows, loans, failed,
          unmapped>>
history == <<windows, loans, failed, unmapped>>

Alive == {p \in Proc : state[p] = "alive"}

-----------------------------------------------------------------------------
(***************************************************************************)
(* Slips that the properties must notice.                                  *)
(***************************************************************************)
BreakAfterFailure_Moved(p, inc) == program_break[p] + inc
FreeAfterFailure_PagesReturned == free
SharedBreak_NotMoved(p) == program_break[p]
-----------------------------------------------------------------------------

\* The first page at or above a break.
PageTop(b) == (b + PAGE_SIZE - 1) \div PAGE_SIZE

\* Break b rounded up to a page boundary.
Aligned(b) == PageTop(b) * PAGE_SIZE

\* Space m with the frames fs, in order, from page v on.
Mapped(m, v, n, fs) ==
    [w \in VPage |-> IF w \in v .. v + n - 1 THEN fs[w - v] ELSE m[w]]

\* The frames n calls of pmm_alloc_page may return.
Allocations(n) == {fs \in [0 .. n - 1 -> free] : IsInjective(fs)}

\* A process that machine m does not run has come and gone.
Init(m) ==
    /\ state = [p \in Proc |-> IF p \in m.procs THEN "unborn" ELSE "reaped"]
    /\ free \in kSubset(m.frames, Frames)
    /\ zombie_task = None
    /\ map = [p \in Proc |-> [v \in VPage |-> None]]
    /\ program_break = [p \in Proc |-> 0]
    /\ windows = {}
    /\ loans = {}
    /\ failed = {}
    /\ unmapped = {}

\* create_user_process_from_file; page 0 stands for segments and stack.
Create(p) ==
    /\ state[p] = "unborn"
    /\ \E f \in free :
          /\ map' = [map EXCEPT ![p] = [@ EXCEPT ![0] = f]]
          /\ free' = free \ {f}
    /\ state' = [state EXCEPT ![p] = "alive"]
    /\ program_break' = [program_break EXCEPT ![p] = InitialBreak]
    /\ UNCHANGED <<zombie_task, history>>

\* How many pages sbrk has to map.
NewPages(p, inc) == PageTop(program_break[p] + inc) - PageTop(program_break[p])

\* sys_sbrk
Sbrk(p, inc) ==
    LET n == NewPages(p, inc)
    IN  /\ p \in Alive
        /\ PageTop(program_break[p] + inc) <= MaxPage
        /\ \E fs \in Allocations(n) :
              /\ map' = [map EXCEPT ![p] = Mapped(@, PageTop(program_break[p]), n, fs)]
              /\ free' = free \ Range(fs)
        /\ program_break' = [program_break EXCEPT ![p] = @ + inc]
        /\ UNCHANGED <<state, zombie_task, history>>

\* The break and the free frames after an sbrk that failed.
BreakAfterFailure(p, inc) == program_break[p]
FreeAfterFailure == {}

\* sys_sbrk when memory runs out on the way: the pages mapped so far stay, above
\* a break that does not move.
SbrkFails(p, inc) ==
    /\ p \in Alive
    /\ PageTop(program_break[p] + inc) <= MaxPage
    /\ Cardinality(free) < NewPages(p, inc)
    /\ \E fs \in Allocations(Cardinality(free)) :
          map' = [map EXCEPT ![p] =
                     Mapped(@, PageTop(program_break[p]), Cardinality(free), fs)]
    /\ free' = FreeAfterFailure
    /\ program_break' = [program_break EXCEPT ![p] = BreakAfterFailure(p, inc)]
    /\ failed' = failed \cup {p}
    /\ UNCHANGED <<state, zombie_task, windows, loans, unmapped>>

\* The break of each of the two processes after sys_share_mem.
SharedBreak(p) == Aligned(program_break[p]) + SharedPages * PAGE_SIZE

\* sys_share_mem of the window manager with q.  Without enough memory the kernel
\* halts there.
ShareMem(q) ==
    /\ {WM, q} \subseteq Alive /\ q # WM
    /\ \A r \in {WM, q} : PageTop(program_break[r]) + SharedPages <= MaxPage
    /\ \E fs \in Allocations(SharedPages) :
          /\ map' = [r \in Proc |->
                        IF r \in {WM, q}
                        THEN Mapped(map[r], PageTop(program_break[r]), SharedPages, fs)
                        ELSE map[r]]
          /\ free' = free \ Range(fs)
    /\ LET loan == [client |-> q, page |-> PageTop(program_break[WM])]
       IN  windows' = windows \cup {loan} /\ loans' = loans \cup {loan}
    /\ program_break' = [program_break EXCEPT ![WM] = SharedBreak(WM), ![q] = SharedBreak(q)]
    /\ UNCHANGED <<state, zombie_task, failed, unmapped>>

\* sys_unmap of the first n pages of a window's buffer, which the window manager
\* forgets; the frames are not freed.
Unmap(l, n) ==
    LET gone == l.page .. l.page + n - 1
    IN  /\ map' = [map EXCEPT ![WM] = [w \in VPage |-> IF w \in gone THEN None ELSE @[w]]]
        /\ windows' = windows \ {l}
        /\ unmapped' = unmapped \cup gone
        /\ UNCHANGED <<state, zombie_task, program_break, free, loans, failed>>

\* task_exit; a process already waiting in zombie_task is forgotten.
Exit(p) ==
    /\ p \in Alive \ {WM}
    /\ state' = [state EXCEPT ![p] = "exited"]
    /\ zombie_task' = p
    /\ UNCHANGED <<map, program_break, free, history>>

\* The frames the entries of p point at.
Occupied(p) == Range(map[p]) \ {None}

\* The head of scheduler_schedule: destroy_user_memory frees every frame that is
\* mapped, whoever else maps it; one that is free already is only reported.
Reap ==
    /\ zombie_task # None
    /\ free' = free \cup Occupied(zombie_task)
    /\ map' = [map EXCEPT ![zombie_task] = [v \in VPage |-> None]]
    /\ state' = [state EXCEPT ![zombie_task] = "reaped"]
    /\ zombie_task' = None
    /\ UNCHANGED <<program_break, history>>

-----------------------------------------------------------------------------

\* Every variable has its type.
TypeOK ==
    /\ state \in [Proc -> {"unborn", "alive", "exited", "reaped"}]
    /\ zombie_task \in Proc \cup {None}
    /\ map \in [Proc -> [VPage -> Frames \cup {None}]]
    /\ program_break \in [Proc -> 0 .. MaxPage * PAGE_SIZE]
    /\ free \subseteq Frames

\* The pages where the window manager still maps the buffer of a client that
\* was torn down.
StalePages ==
    UNION {l.page .. l.page + SharedPages - 1 :
              l \in {k \in loans : state[k.client] = "reaped"}}

FramesOf(p) == {map[p][v] : v \in VPage} \ {None}

\* Whatever is created, shared, unmapped and torn down in between: a client maps
\* only frames that are taken, and no other client maps them.  The window
\* manager maps no frame that is free or another's except the buffers it shares
\* and, the one flaw, those of clients that are gone.
ClientsIsolated ==
    /\ \A p \in Alive \ {WM} : FramesOf(p) \cap free = {}
    /\ \A p, q \in Alive \ {WM} : p # q => FramesOf(p) \cap FramesOf(q) = {}
    /\ \A v \in VPage \ StalePages : WM \in Alive => map[WM][v] \notin free

\* Every page below the break of a process is there, whoever moved the break,
\* unless the process itself gave it away.
BreakBacked ==
    /\ TypeOK
    /\ \A p \in Alive : \A v \in 0 .. PageTop(program_break[p]) - 1 :
          map[p][v] # None \/ (p = WM /\ v \in unmapped)

\* No page is mapped over another one, which would lose the frame: sbrk and
\* share_mem of two processes never claim the same page.  Only the retry of an
\* sbrk that failed half-way does.
NoOverwrite ==
    [][\A p \in Proc, v \in VPage :
          map[p][v] # None =>
              map'[p][v] \in {map[p][v], None} \/ p \in failed]_vars
=============================================================================
