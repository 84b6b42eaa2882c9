# A TLA+ model of OpenIDP-OS

OpenIDP-OS is a small 64-bit operating system: a kernel in C (`src/src/`,
`src/include/`) with a round-robin scheduler, page allocator, kernel heap, page
tables, message passing and a FAT file system (FatFs), and user programs
(`src/userspace/`): a tiling window manager, a terminal emulator, a shell and a few
commands. This directory
holds TLA+ modules that model its own logic, TLC configurations that check them
on small instances, and TLAPS proofs of the most important properties for every
value of the constants. Paths below are relative to the repository, `src/`.

1. [Inventory](#1-inventory)
2. [Modules and the code they model](#2-modules-and-the-code-they-model)
3. [Runs](#3-runs)
4. [Fairness](#4-fairness)
5. [Findings](#5-findings)
6. [Proofs](#6-proofs)
7. [What is not modelled](#7-what-is-not-modelled)
8. [Plan](#8-plan)

## 1. Inventory

There is one CPU. A system call is entered through an *interrupt* gate, so it
runs with interrupts disabled and no other task or interrupt can be seen in the
middle of it. What interleaves is therefore: user programs between their system
calls, the timer tick, and the two places where the kernel itself runs with
interrupts on (`kmain`, and `sys_read_key` after its `sti`). Between programs
the shared state is one message queue per process and the pixel buffer of a
window.

| component | state | operations | talks to | hard | correct when |
|---|---|---|---|---|---|
| scheduler and processes (`src/process/task.c`, `switch.asm`, `idt.asm`) | circular list of `task_t`, `current_task`, one `zombie_task`, saved stack frames, CR3, TSS.RSP0 | `scheduler_schedule`, `create_user_process_from_file`, `task_exit`, `get_task_by_pid` | every system call; page allocator, page tables, heap | a tick inside `kmain` or `sys_read_key`; an exit frees the task on the *next* tick; CR3 kept across switches to the root task | the list is one ring, only owned frames are resumed, nothing in use is freed, nobody starves |
| message queues (`src/syscall/sys_process.c`) | ring of `MSG_QUEUE_SIZE` messages in each `task_t` | `sys_ipc_send`, `sys_ipc_recv` | all programs | wrap-around, full queue, receiver that has exited | bounded FIFO queue; return codes tell the truth |
| physical memory (`src/memory/pmm.c`) | bitmap, `used_pages`, `last_search_pos` | `pmm_init`, alloc and free of one or several pages | everyone | memory map with holes, double free, wrap of the next-fit search | no page has two owners, none leaks, refusals are true |
| kernel heap (`src/memory/kheap.c`) | doubly linked list of block headers | `kmalloc`, `kfree`, `krealloc`, `heap_expand` | page allocator, page tables | split against rounding, merging in both directions, growth at a used or free last block | blocks tile the heap; callers keep their room |
| page tables (`src/memory/vmm.c`, `destroy_user_memory`) | trees of frames | map, unmap, create and destroy an address space | page allocator | kernel half is shared by copying root entries | trees are disjoint, one map per process |
| user memory calls (`src/syscall/sys_memory.c`) | `program_break` and mappings of each process | `sys_sbrk`, `sys_share_mem`, `sys_unmap` | window manager and clients | `share_mem` moves the break of *another* process; memory runs out half-way; frames shared with a process that is torn down | isolation; break backed by memory |
| window manager (`userspace/idpwm.c`) | window slots, node pool and tree, focus, dirty rectangles | new client, focus, kill, split, layout, draw, refresh | all clients, keyboard, frame buffer | delete with promotion of the sibling, recycling, odd sizes; messages of several clients and the phases of the main loop | tree well formed, tiles the screen; the screen comes to show the buffers |
| terminal: protocol (`userspace/terminal/main.c`) | window, shell pid | window messages, keys, output, quit | window manager, shell, commands | resize before creation, updates lost when a queue is full | draws with the size the window has |
| terminal: grid (`userspace/terminal/term.c`, `userspace/libgfx/gfx.c`) | text grid, cursor, colours, parser state, `last_update`, frame buffer | `term_write`, `term_resize`, `term_clear`, pictures | window manager (the reported rectangle) | two cells are drawn per character; codes are cut by message ends; the window shrinks under the cursor | the window shows the grid, every changed pixel is reported |
| standard I/O (`userspace/libc/stdio.c`) | `out_buf`, terminal pid | handshake, `putchar`, flush with retry, `getchar` | terminal | two writers, full queue, dead reader | output intact and in order; nobody waits for ever |
| shell and commands (`userspace/shell/`, `userspace/coreutils/`) | line buffer, working directory | prompt, editing, built-ins, exec + handshake | terminal, kernel | command and shell print at the same time | comes back to the prompt |
| user heap (`userspace/libc/heap.c`) | header list above the break | `malloc`, `free` | `sbrk`; `share_mem` moves its break | neighbours of the list that are not adjacent | blocks apart from one another and from the window's buffer |
| keyboard (`src/drivers/keyboard.c`, `src/syscall/sys_io.c`) | ring, prefix, modifiers | interrupt handler, `sys_read_key` | window manager, message queues | state between interrupts, full ring, messages go first | keys in order with the modifiers held |
| file system (`src/drivers/fatfs/ff.c`, `src/syscall/sys_file.c`) | volume window, tables, free count and hint, open files with a sector buffer each | mount; open, read, write, seek, truncate, sync, close; unlink, mkdir, rename, stat, readdir, getfree; the three system calls | disk; loader and programs | data in two caches and on the disk, full volume, what is written when | chains, tree, contents and answers are those of the calls made; synced data is on the disk |
| ELF loader (`src/elf/kelf.c`), devices, kernel graphics, strings | see [section 7](#7-what-is-not-modelled) | | | | |

The hazards of this code, each at its line, and the properties that look for
them are listed in `PROJECT.json`.

## 2. Modules and the code they model

`PROJECT.json` maps every definition to the lines it stands for. Definitions
named `X_Something` at the head of a module are plausible slips of the
definition `X`; putting one in the place of `X` makes TLC report a violated
property, which shows that the property sees that kind of error. The `MC`
modules only name constants that a `.cfg` cannot express.

**Sched** (with **RoundRobin**, **SchedRefinement**, **SchedProofs**).
`next`, `pid`, `rsp`, `task_head`, `current_task`, `zombie_task`, `next_pid` are
the fields and globals of `task.c`; `frames`, `ctx`, `sp`, `rsp0` and `cr3` are
the kernel stacks and the CPU. A task stands for its `task_t`, its kernel stack
and its PML4 page, which are allocated and freed together. One action per entry
into the kernel: `Tick` is `irq_stub` → `pit_handler` → `scheduler_schedule` →
return, reaping included; `TaskExit` is `sys_exit`, unlinking and
`switch_to_task`; `Exec` is `sys_exec`. `kmain` runs with interrupts on, so the
two stores that link the first process are two actions (`BootAllocate`,
`BootLink`) with ticks in between; `ReadKeyEnter`/`ReadKeyReturn` are the `sti`
window of `sys_read_key`. The never-initialised `cr3` field of the root task is
the constant `RootCr3`. `RoundRobin` is the queue of pids the scheduler
promises, and `SchedRefinement` maps the pointer list to it.

**MsgQueues**, **Ipc** (with **QueueProofs**). `Ipc` is the ring with head, tail and
count and the slots it leaves behind; `MsgQueues` the bounded FIFO queue of each
living process, with the results of the two calls.

**Pmm** (with **PmmProofs**). The bitmap as the set of page numbers whose bit is
set, with `pmm_init` evaluated on any memory map: sizes in *numbers of usable
pages*, indices in *page numbers*, as in the code. Bits behind the bitmap are
whatever memory held (`BehindBitmap`). `FreePages` also frees again what is
already free. `Drift` is by how much `pmm_init` miscounts on a given map.

**KHeap** (with **KHeapProofs**). Addresses, sizes, alignment and the split threshold are numbers, so
the arithmetic of `split_block`, merging and `heap_expand` is the code's.

**AddrMaps**, **PageTables** (with **PageTablesProofs**). `PageTables` keeps the contents of every frame as a
table, with trees of any depth and kernel entries copied at creation;
`AddrMaps` is one function from pages to frames per process with a common kernel
half. The first process is the window manager, which `kmain` starts and which never
exits; `idpwm.c` holds the only calls of `sys_share_mem` (line 397) and `sys_unmap` (line
223). A turn of the loop in `sys_share_mem` maps one frame in two trees (`ShareMine`,
then `ShareTheirs`, with nothing in between); `lent` remembers the entries of the window
manager's tables that were written so, and `UnmapPage` is `sys_unmap` on them. The
teardown of the client frees the frame although the window manager still maps it, and
it is then given out again. `vmm_unmap_page` has no caller.

**UserMemory** (with **UserMemoryProofs**). `sbrk`, `share_mem`, `unmap`, exit and reaping of a window
manager and its clients over one pool of frames. The address space is the map
that `PageTables` is shown to implement.

**UserHeap** extends `UserMemory` by `malloc` and `free` of one client: the list with its
links, `split_block`, `coalesce` and the growth by `sbrk`. `Machines` says which
processes run, with how many frames, and whose heap is followed; other processes
call `sbrk` directly.

**Keyboard** (with **QueueProofs** too) extends `Ipc`: `kb` is the driver's ring, modifiers and prefix, `wire` the
scan codes in the controller, each with what the stroke it ends should give. The
physical keyboard (press, repeat, release) is external. `ReadKey` needs an empty
message queue, as `sys_read_key` does.

**FatVolume**, **FatFs**, **FileSystem**. `FatVolume` is the lower half of `ff.c`: the disk
as a function from sectors to contents, the one-sector window with its dirty flag,
both tables, allocation and release of chains, directory entries, 8.3 names,
paths, partition table and mount, for FAT16 and FAT32. `FatFs` is the upper half:
file objects with position, cluster and sector buffer, and the calls on them.
`FileSystem` makes each call one action (a system call runs with interrupts off),
adds `sys_file.c`, and keeps beside the disk the contents and the tree that the calls
made so far should have given. A sector holds two units of data, two table
entries or two directory entries, so that every structure spans sectors.

**Term** (with **DisplayProofs**). The grid, cursor, parser and drawing of the terminal emulator with a frame
buffer of single pixels, and the rectangle reported to the window manager; `Display`
has the messages around it. `Write` is one round of `term_write`'s loop, `Report` the end
of a message. A pixel of a glyph is the glyph, the place in it and its colours, so
whatever fonts look like, wrong pixels show. An access outside an array sets
`broken`.

**WmTree** (with **WmTreeProofs**). Node pool, free stack, tree, focus and layout of the
window manager; one action per message or key that changes them. The early returns of
`wm_insert_window_into_tree` for a pool that is used up are left out: `AllocTheorem`
proves that they are never taken.

**Display** (with **DisplayProofs**). The three phases of the window manager's loop and the terminal's
loop, an action being what a process does up to its next system call. Every message is
sent by a call of its own: what the window manager has decided to send waits in `todo`
and `WmSend` sends the first of it, so the terminal and the shell may run between the
`RESIZE` and the `CREATED` of a new window, and the terminal then drops the `RESIZE`. A window
is a row of cells, a rectangle an interval; `fresh` records the cells on the
screen that equal the buffer. The size of the window is also the stride of its
buffer, so a copy with a size that the terminal does not draw with is garbage.

**Stdio**. Terminal, shell and a command with `out_buf` between them. Printed
characters are numbered, so that loss, duplication and reordering show.

How they fit: `Display` and `Stdio` are built on the queue that `Ipc` is proved to
implement; their fairness is `EveryTaskRuns` of `Sched`; `Keyboard` is composed
with `Ipc` and `UserHeap` with `UserMemory`; `UserMemory` uses the maps of `PageTables`;
frames come from the allocator of `Pmm`; `Term` draws what `Display` announces.

## 3. Runs

All instances are finite because of named bounds; each is chosen so that the
case a property is about really occurs.

| run | checks | instance and why it is enough |
|---|---|---|
| `sched` | `ListIsRing`, `StacksOwned`, `ZombieDetached`, `Cr3Safe`, `EveryTaskRuns`, `ImplementsRoundRobin` | root and three process slots, pids up to 4: a slot is freed and used again, rings of one to four tasks occur, and a task can exit first, last and in the middle. Kernel stacks hold three frames, one more than ever needed |
| `sched_reap` | `TickReapsExited`, violated | two processes that exit within one tick |
| `ipc_queues` | `KeysRight`, `ImplementsQueues` | two cases. Messages only: two processes, each also sending to itself, queues of two slots: full, empty and wrapped, messages to the dead, without a bound. Keys: four strokes and three calls, a ring of three slots, so that it fills and wraps; keys with and without prefix, two shift keys, a key the driver ignores |
| `pmm` | `Exclusive`, `NoLeak`, `NoFalseOom`, `CountDrift` | a map with holes, so that the highest usable pages are not searched and some of them, and a page of the kernel image, have their bits behind the bitmap, one of these bits set; every order of single and contiguous allocations, frees and double frees |
| `kheap` | `Tiled`, `NoTwoFree`, `LiveHasRoom` | three request sizes (below, at and above what a page holds), header, alignment and page scaled down, so that a remainder too small to split occurs; the heap grows from its first page to its limit |
| `page_tables` | `TreesDisjoint`, `ImplementsMaps` | three levels of two entries, the window manager and two clients, fifteen frames: both clients have pages at once, inner tables are shared between pages, pages are shared between trees, and frames run out or are used again, as pages and as tables, while the window manager still maps them |
| `user_memory` | `ClientsIsolated`, `BreakBacked`, `HeapApart`, `NoOverwrite` | two machines. A window manager and two clients, five frames: memory runs out in the middle of an `sbrk`; breaks that are not page-aligned; buffers of two pages of which a part may be unmapped. A window manager and one client with a heap, six frames, pages of four units: two requests that split, merge and grow, before and after a window. Frames are interchangeable (symmetry) |
| `fat` | `FatSound`, `DataIntact`, `PositionsRight`, `Answers`, `TreeExact`, `WindowCoherent`, `SyncedAtRest` | three disks, each with the calls that matter on it (`Cases`). Two file objects on a fragmented FAT32 volume that fills up, six calls; directories on a FAT32 volume whose FSInfo knows no free count, five calls; a FAT16 volume behind a partition table with a fixed root of which one entry is left, five calls. File objects are interchangeable (symmetry) |
| `term` | `GridSafe`, `ScreenExact`, `DirtyCovers`, `ColorsRight` | glyphs of two pixels by one; windows with two columns and a margin, with one column, and narrower than a glyph. Either four characters, two resizes or clears and one short code or picture, or one character and two codes of up to five characters with room for two parameters: lists that are too long, and parameters left from the code before. Messages end anywhere |
| `wm_tree` | `TreeWellFormed`, `PoolPartition`, `WindowsTile` | three windows, a screen of 5 × 3: siblings that are leaves and inner nodes, on both sides; odd sizes at both levels; the free stack in every order |
| `display` | `SizeAgreed`, `NoStaleCell`, `DisplaySettles` | queues of two messages, so that they fill; three cells, so that a bounding box covers a cell nobody drew; two user actions and two messages of other programs: a resize races an update and a kill, the terminal runs between `RESIZE` and `CREATED`, and the shell prints between two messages of the window manager |
| `stdio` | `StreamsIntact`, `ProgramsProgress` | queues of two, batches of two, three keys of each kind, a command of one line: flush by size, by newline and by `getchar`, shell and command compete for the last slot |

Deadlock is checked except where stopping is what the system does: all processes
of `ipc_queues` and `user_memory` may have exited, the heap reaches its limit,
frames run out (where the kernel halts), `fat` and `term` end with their budget of
calls and characters, and polling loops that find nothing are stuttering steps in
`stdio`. Where a module has a type invariant that is not proved, it is a conjunct of
its first property.

What the properties say, beyond types:

* `ListIsRing`: the live tasks are one cycle of `next`, also while `kmain` links the
  first process under a running timer, so the panic in `task_exit` is dead code
  (`ExitTheorem`), a pid names one task (`PidTheorem`) and `get_task_by_pid` ends.
* `StacksOwned`: each saved `rsp` designates a frame on the task's own stack that
  continues it, although stacks are reused and a task can be preempted inside
  `sys_read_key`. That `task_exit` computes RSP0 one page higher than the tick does
  (`task.c:292`) is not judged: the model has no addresses inside a stack.
* `ZombieDetached`, `Cr3Safe`: what a tick frees is neither on the list nor on
  the CPU; a process never runs on other page tables than its own. The root
  task, with a `cr3` field of 0, keeps the tables loaded last; they can be freed
  under it only when no other task exists that could allocate the page. With
  another value in that uninitialised field `Cr3Safe` promises nothing.
* `EveryTaskRuns`, `ImplementsRoundRobin`: no starvation; insertion, removal and
  rotation are those of one abstract queue.
* `ImplementsQueues`: the ring is a FIFO queue; `RingTheorem` adds that only slots that
  were written are received.
* `KeysRight`: the keys waiting are the strokes made, in order, each with the
  modifiers held when it was made. Excepted (`twin`): with both shift keys down the
  release of one ends the shift.
* `Exclusive`, `NoLeak`, `CountDrift`: also for maps with holes, no reserved or held
  page is handed out, none is lost, and the free pages the counters promise differ from
  those the search finds by the constant `Drift`, which `pmm_init` fixes: no later
  call adds to the error, a double free neither.
* `NoFalseOom`: a refusal, by the counter or by the search, means that no page is
  left. It is true on the map of the run and on every map with `Drift >= 0`; a kernel
  image whose bits lie behind the bitmap and were clear can make `Drift` negative,
  and then the last pages are refused although they are free. The converse
  (`CheckExact`) needs `Drift <= 0`.
* `Tiled`, `NoTwoFree`, `LiveHasRoom`: blocks cover the heap without gap or
  overlap with exact back links, no two free blocks touch, each caller has the
  room asked for.
* `TreesDisjoint`, `ImplementsMaps`: tearing a client down frees
  each of its frames once, nothing of the kernel or of another client, and nothing
  of the window manager but the pages that it shares; a shared page counts as the
  client's (`Held`). A heap page mapped in the kernel's
  tree appears in every process. That the window manager can reach frames that were
  freed and reused is no error of these properties but a fact of the code: it is in
  the model, and the properties say that nobody else's tree suffers from it.
* `ClientsIsolated`, `BreakBacked`, `NoOverwrite`: no client sees a free frame or
  one of another client. Two exceptions are explicit in the formulas: the window
  manager keeps its mapping of the buffer of a client that was torn down
  (`StalePages`), and a second `sbrk` after one that failed half-way maps over the
  pages the first one left.
* `HeapApart`: `coalesce` merges neighbours of the list without looking at their
  addresses, and `share_mem` puts a window between two of them. The heap is safe as
  long as the block below the window is kept, as the terminal keeps its font up to its exit; a
  client that frees it (`careless`) gets a block that spans its window.
* `FatSound`, `DataIntact`, `TreeExact`: chains are disjoint and end, belong to one entry
  each, both tables and the free count agree with them; every file has the
  contents that were written to it, wherever they are cached; the directories are
  the tree the calls made, `.` and `..` included. Excepted: `f_rename` does not test
  whether a directory is moved below itself (`lost`), and an `f_mkdir` that finds no
  room for its entry leaves its table changes unsynced (`torn`).
* `PositionsRight`, `Answers`: position and cluster of an open file
  agree after any mix of seeks, writes and truncations on a full volume; each call
  returns what it should for the tree and the contents, read through any cache.
  `f_open`, `f_mkdir` and `f_rename` are refused exactly when the parent's table has no
  entry to use and cannot grow, or clusters are lacking (`Made`), and `FR_INT_ERR` is
  never returned.
* `WindowCoherent`, `SyncedAtRest`: no sector but the one in the window is newer than the
  disk; when nothing waits to be synced, the disk alone has the files and FSInfo.
* `GridSafe`, `ScreenExact`: cursor and drawing stay inside the arrays and the window
  shows the grid, although a character draws two cells. Excepted (`narrow`): a window
  that was once smaller than a glyph leaves the cursor at -1.
* `DirtyCovers`, `ColorsRight`: changed pixels that were not reported lie in the
  rectangle; codes cut anywhere set the colours they ask for. Excepted: a code with more
  parameters than `ansi_params` has room for, which does set wrong colours
  ([finding 4](#5-findings)).
* `TreeWellFormed`, `PoolPartition`, `WindowsTile`: links match, the focus is on a leaf,
  every node is either in the tree or available, and the windows partition the screen exactly.
* `SizeAgreed`, `NoStaleCell`, `DisplaySettles`: unless a full queue refused a
  message, the terminal ends with the size its window has, also when it dropped a
  `RESIZE` before its `CREATED`, no cell that differs
  from the screen is forgotten and the screen comes to show the buffer. Neither
  program repeats a refused `RESIZE`, `UPDATE` or `QUIT`; the variable `lost` makes
  that exception explicit. `MSG_STDOUT_CLEAR` is drawn but announced only with the
  next text (`unseen`).
* `StreamsIntact`, `ProgramsProgress`: while the terminal lives, printed text is
  neither lost nor doubled nor reordered, and shell and command go on.

## 4. Fairness

`Sched` assumes weak fairness of `Tick` alone: the PIT is programmed once, never
stopped, and interrupts are enabled in every context in which the model lets the
timer fire. `Display` and `Stdio` assume weak fairness of each *program* as a whole
(never of a particular branch in it): a program with a step to take takes one,
which is what `EveryTaskRuns` shows for the scheduler. Users, other clients and
failures are not fair. In `Display` the number of messages other clients send is
bounded; without a bound they could keep the window manager in its message loop
for ever, because `sys_read_key` prefers messages to keys.

## 5. Findings

1. `sched_reap`: `task_exit` overwrites `zombie_task` (`src/process/task.c:287`). When
   a second process exits before the next tick, the stack, page tables and task
   of the first one are never reclaimed. The comment at line 44 says that the tick
   cleans up "any zombies left by previous exit calls".

Met while modelling, without a run of their own:

2. `pmm_init` counts usable pages but indexes by page number. With holes in the
   memory map `used_pages` is lowered for pages the search never visits, so the
   branch at `src/memory/pmm.c:81` ("No free pages found despite availability
   check") is taken. `DriftTheorem` says by how much the counters are wrong, and
   `CheckTheorem` that the branch is dead where they do not promise too much.
3. `main.c:74` of the terminal says it forwards the kill signal to the shell, but a
   shell with text in `out_buf` repeats its send to the terminal, which has exited,
   for ever (`userspace/libc/stdio.c:48`). `ProgramsProgress` is therefore stated for
   the life of the terminal.
4. The exceptions named above: the block below a window (`userspace/libc/heap.c:37`),
   windows smaller than a glyph (`userspace/terminal/term.c:189`), two keys of one
   modifier (`src/drivers/keyboard.c:71`), the buffer of a client that is gone, which
   its teardown frees while the window manager still maps it (`src/process/task.c:49`), the
   `sbrk` that failed half-way (`src/syscall/sys_memory.c:50`), and in FatFs a directory
   moved below itself and an
   `f_mkdir` that fails at its last step. And in escape codes: past the fourth
   parameter `;` is ignored (`userspace/terminal/term.c:382`), so the digits behind it are
   appended to the last parameter kept, and the colour of that one is wrong.

## 6. Proofs

`tlapm` checks every proof; none takes a fact on trust except the named
assumptions on constants.

**SchedProofs** (assumption `SchedConstants`: `Root` is a task, `Nil`, `KernelPml4`
and `Junk` are no tasks, `RootCr3` is 0 or junk, a stack holds at least two
frames). For any set of tasks and any bound on pids: `TypeCorrect`, `RingTheorem`,
`StacksTheorem`, `Cr3Theorem`, `ExitTheorem`, `PidTheorem` and `ZombieTheorem`, each
`Spec => []P`. None of them is inductive alone. The
inductive invariant `IndInv` is the conjunction of the type invariant, the ring,
the stacks and the page-table property with four strengthenings: the head of the
list is always the root task (so a victim has a predecessor other than itself,
and insertion "after the head" does not depend on who runs); the boot
context has at most one task that is allocated and not linked, whose `next` is
already right (`BootAlone`, `NewTaskReady`); the zombie is an exited task
(`ZombieExited`), which keeps the tick from freeing a live one; and the pids of
live tasks are distinct and below `next_pid` (`PidsFresh`). The ring is stated by
closed sets (no proper part of the live tasks is closed under `next`), so that
insertion and removal need no induction along the list.
`RoundRobinTheorem` is the refinement of `RoundRobin` but for its fairness: `RR!Init`,
and each step rotates the queue, is a `Leave` or a `Join`, or leaves it alone.
Its invariant `QueueInv` says that some sequence lists every live task once, from
the running one on and along `next` (`InTurn`), and is as long as there are live tasks. The
sequence is existentially quantified, so each action only has to say what becomes of it
(`RotateIs`, `LeaveIs`, `JoinIs`); that the recursive function which reads
the queue off the list gives this sequence follows from the least place at which it would not
(`FollowIs`).

**QueueProofs**, about `Ipc` (assumption `IpcConstants`: the queue has at least one slot, some payload
exists, and an empty slot is told apart from a message).
`TypeCorrect`, `RingTheorem`, and `QueueTheorem`, which is the refinement: initial
states map to initial states and each step of the ring to a step of `MsgQueues` or a
stutter, for every queue size. The invariant is `TypeOK /\ RingConsistent`; the
lemmas are about indices modulo the size.

**PmmProofs** (assumption `PmmConstants`: entries are intervals of page numbers, the
kernel image lies in no usable entry, the bitmap fits in one, as `place_bitmap`
ensures or halts). `ExclusiveTheorem`, `NoLeakTheorem`, `TypeCorrect` (`used_pages`
never wraps below zero) and `DriftTheorem` (`CountDrift`) for every memory map, with
holes, a kernel image and a bitmap anywhere. Two more need the sign of `Drift`, and no
other assumption on the map: `RefusalTheorem`, `NoFalseOom` where it is not negative, and
`CheckTheorem`, that the availability check is enough where it is not positive. Both
signs occur: usable pages behind the search raise it, pages of the kernel
image behind the bitmap lower it. The strengthening is
`CountsOwned`: `used_pages` is its initial value plus the number of held pages,
which makes a free of held pages safe and relates the counter to the bitmap.

**KHeapProofs** (assumption `KHeapConstants`: sizes are positive numbers, a header is
smaller than a page; no assumption on the alignment, the split threshold or how the
sizes divide each other). `TiledTheorem`, `NoTwoFreeTheorem` and `LiveTheorem` follow from
the inductive invariant `HeapInv`. `Tiled` alone is not inductive: that a back link is matched
by a forward link and that a last block exists hold along the whole list and would need
an induction, so `Chain` states both. `Chain` is a predicate of a list and its end rather
than of the state, because `krealloc` frees in the list its own `kmalloc` leaves: one
lemma for each of `split_block`, `coalesce` and `heap_expand` says what it does to a chain, and
the three calls are compositions of them.

**UserMemoryProofs** (assumption `UserMemoryConstants`: positive sizes, finitely many
frames, some page, and a `None` that is neither frame nor process). About `HeapSpec`, so for
the calls of `malloc` too: `IsolationTheorem`, `BreakTheorem` and the action
property `OverwriteTheorem`, for any number of processes, frames and pages. `MemInv` adds to them
that nothing is mapped above the break except by an `sbrk` that failed
(`NothingAbove`), without which a later `sbrk` could map over a page; that clients stay
apart after they exited too, since a forgotten zombie keeps its pages (`Apart`); and that
the window manager maps a client's frame only in a buffer it shares with it
(`Lent`), so that a teardown frees no frame it uses elsewhere.

`HeapTheorem` is about the list that `malloc` and `free` keep in the client's memory (assumption
`UserHeapConstants`). `HeapApart` compares any two blocks, the calls look at
neighbours; the invariant `HeapInv` says that the links are in the order of the addresses and
leave no block out (`Linked`), that a block ends where the next one begins or there is a buffer
in the gap (`Spaced`), that no two neighbours are free (`Coalesced`), and that what was asked for
lies in blocks in use (`Held`). A merge adds the sizes of two neighbours whatever lies between them; it
is right because a block with a gap behind it is the last one below a buffer, and that one is
in use unless the client was `careless`. `Coalesced` makes the loop of `coalesce`
stop after one step back, so that its fold is one merge or two (`FoldOne`, `FoldTwo`). That the list
read from the head holds all blocks, and the way back of `coalesce`, are recursive functions: they have
their values because the addresses grow along the links (`ListFacts`, `CoalesceForm`).

**DisplayProofs** (assumption `DisplayConstants`: queues of at least two slots, some
cell, some size, and "none" is no size). About `Spec`, which the fair specification
implies: `SizeTheorem` and `StaleTheorem`, for any queue length, number of cells and set of
sizes, without a bound on what user and clients do other than `MaxInput` and `MaxOutput`.
`SizeAgreed` alone does not survive a step: a terminal drops a resize that comes before its window was
created, so one must know that the answer to its request is still ahead of it, that
the request is sent once (`Asked`), that no size is sent before there is a window
and the answer is sent once (`Answered`), that the last size ahead is the window's (`SizeInv`), and
that the window manager decides on nothing new while it has something to send (`Quiet`).
What is ahead of the terminal (`Ahead`) is the message it handles, its queue, and what the window
manager has decided to send and has not sent. A message of the shell gets in before the
latter; `Inserted` is a sequence with one message more at some place, and one that
carries no size changes nothing that the invariant says of sizes (`Same`, `InsertedOther`).
`NoStaleCell` needs these too: the repaint that a new size makes due is
remembered only by the message that carries it.

**DisplayProofs**, about `Term` (assumption `TermConstants`: glyphs of at least one pixel,
room for at least one parameter, and a buffer that holds every window). For any
size of glyph, window and picture and any characters, colours and codes: `GridTheorem`,
`ScreenTheorem` and `DirtyTheorem`. The invariant `TermInv` is their conjunction with the
types and with `Fits`: the window fits into the buffer, the grid into the window, the grid has
a cell for each row and column, and the parser has room for one more parameter, without
which a code at the limit would write past `ansi_params`. Like the properties it says nothing of
a window that was once narrower than a glyph. That drawing keeps `Exact` rests on a pixel lying
in one cell only (`OnePlace`, `Between`): a character changes the look of two cells, the one
that the cursor leaves and the one it enters, and draws both (`OtherCell`, `SameShown`). A
redraw skips cells that look like the cleared window; after `n` rounds of its loop
the first `n` cells are shown (`RoundFacts`) and after all of them the grid is (`AllShown`).
That loop and the one over the parameters are recursive functions, which have
their values by the least round that would fail (`LoopRuns`). `Tells` says of every
operation that the rectangle keeps what it had and takes in what it changed.

**QueueProofs**, about `Keyboard` (assumptions `IpcConstants`, `KeyboardConstants`, and `KeyboardKeys`: the
modifiers have the codes of scan code set 1, no key has the code of the prefix, every
other key without a prefix has a character). `KeysTheorem`: `KeysRight` for a ring
of any size, any number of strokes waiting in the controller and any keyboard, composed
with the message queues. `KeysRight` speaks of the keys in the ring alone and says nothing of what the
driver will make of the codes still to come; the invariant `WireInv` says that there is a
path of driver modes along the codes on the wire, from the mode the driver is in to the one the keys
that are down call for, on which each code gives what its stroke meant. The path is an
existentially quantified sequence, so that pressing extends it at one end, an
interrupt shortens it at the other and no recursion is needed. `RingInv` says that the
keys kept are the slots between tail and head.

**WmTreeProofs** (assumption `WmTreeConstants`: at least one window slot, a screen of any
size, and a `NULL` that is neither node nor slot). `WellFormedTheorem`, `PoolTheorem`,
`TileTheorem`, and `AllocTheorem`: while a slot is free `tree_alloc` has the nodes an insertion needs,
so a pool of `2 * MAX_WINDOWS` never runs out. The properties speak of what
is reached from the root, by recursions that no step preserves visibly. The
invariant `WmInv` speaks of all nodes in use instead: they can be given depths that grow
from parent to child, every one except the root is a child of its parent, and so on
(`Shape`); their leaves are the living windows (`Windows`); what is in use and what is
on the free stack are together the nodes below `node_pool_idx` (`PoolOf`); and there is one
inner node less than leaves (`Counted`), from which `AllocTheorem` follows. The depths are
existentially quantified: an insertion doubles them to make room for the container
between the target and its parent, a deletion leaves them as they are. That the recursive functions
of the model have their values, and what holds up or down the tree, is proved by the
node of least rank at which it would fail (`RankRecursion`, `RankInduction`). From these
follow that the nodes in use are those reached from the root (`NodesAre`), that
`collect_leaves` finds all leaves (`LeavesAre`), that the leaf which gets the focus after a kill is not the
one that goes (`LeftmostAvoids`) and that the areas of the leaves below a node tile its area
(`AreasTile`).

**PageTablesProofs** (assumption `PageTablesConstants`: at least two levels, more frames
than levels, and the heap's root entry in the upper half). For any number of levels, entries,
frames and processes: `DisjointTheorem`, and `MapsTheorem`, the refinement of `AddrMaps`, in which each
step of the trees is one step of the maps. `TreesDisjoint` speaks of what a root
reaches, a recursion over the levels that no step preserves visibly; the invariant `TreeInv`
says instead that every frame can be given an owner and a depth so that an entry of a table leads to a
frame of the same owner one level down (`Down`), which no other entry leads to
(`Once`), that nothing else has an owner (`Reached`), and that what pages and freed roots
hold leads at most into the kernel's tree (`Stale`), since a frame becomes a table
again when it is reused. The entries in `lent` are excepted from these: they are entries of last
tables of the window manager (`Marks`) and may lead anywhere, so a walk down from a root goes
through frames of its owner up to the last step (`GoesDown`), which is all that mapping,
unmapping and the teardown of a client need. `Shares` says that the page half-way through `sys_share_mem`
belongs to nobody yet, and `Lends` that the window manager maps it. `KernelHalf` says that the
kernel's root has the heap's entry from the start; without it a table that `heap_expand` adds to the
kernel's root would be missing in the processes that exist. `LayersOwn` then shows
that a root reaches at depth `k` exactly the frames it owns there. The walk to a page,
the layers of a tree and the tables that `get_or_alloc_table` adds are recursive
functions; that they have their values (`Recursion`) and what holds along them is proved by
the least level at which it would fail, which needs no induction theorem with an operator
parameter.

Only model-checked, and why:

* liveness (`EveryTaskRuns`, `DisplaySettles`, `ProgramsProgress`, and the fairness in
  `ImplementsRoundRobin`, whose steps `RoundRobinTheorem` proves): the prover does not
  handle fairness;
* the file system, whose operators are recursive; `ColorsRight`, which compares the
  parser with a fold over the whole code; `StreamsIntact`, which recurses over the
  printed text.

## 7. What is not modelled

* ELF loading, program arguments and the failure paths of
  `create_user_process_from_file` (a failed creation is "no process"). The loader is
  one pass without state of its own; it expects segments that begin on a page.
* Tokenising and `resolve_path` in the shell: loops over strings.
* In FatFs: what `ffconf.h` leaves out (long names, exFAT, locks, LBA64); FAT12, whose
  entries straddle sectors; `f_mkfs`, labels, attributes, times and the string
  functions, which nothing calls; disk errors, since `diskio.c` reports none; files
  that reach 4 GiB, and with them the clip of a write whose end would pass 2^32
  (`ff.c:4050`). Two objects of one file must not be open at once when one of
  them writes: without `FF_FS_LOCK` that is the caller's duty, and the instance keeps
  to it. A path whose last part is "." would make an entry with a blank name, and
  renaming the first entry of the root to "/" is accepted; neither is in the
  instance. A remount is taken when nothing waits to be synced. The kernel itself
  only reads.
* Negative increments of `sys_sbrk`. The call takes a signed number, `malloc` passes none
  below zero and nothing else calls it. The code would lower the break and unmap nothing;
  a later rise would map fresh frames over the pages left there, whose frames would be
  lost, as after an `sbrk` that failed half-way.
* In the terminal: `term_set_cursor_visible`, which nothing calls; `term_destroy`, which frees
  the text buffer before `sys_exit` (`terminal/main.c:185`), after the last message was handled; a
  `malloc` that fails in `term_resize`, which is not tested for; parameters that
  overflow an `int`; transparent pixels of pictures. The scan codes of a keyboard that
  wraps extended keys in shift codes are not sent by the model's keyboard.
* ATA transfers; serial port; GDT, IDT, PIC, PIT and fault handlers, which write
  tables once or print and halt; pixel loops of the kernel and of the window
  manager; string functions. No control state of their own.
* Exhaustion of memory where the kernel does not test for it (`heap_expand`, the
  loader) or halts (`get_or_alloc_table`, `sys_share_mem`): the models stay where memory
  lasts.
* Pixel positions, clipping and window borders of the window manager: cells in
  `Display`.

## 8. Plan

Done, in this order, the most important behaviour first: scheduler, queues, page
allocator; kernel heap, page tables, user memory; window tree, window protocol,
standard I/O; file system, terminal grid, user heap, keyboard; then the proofs of
section 6.
Next:

1. Proofs: `ColorsRight`, with the code read so far as a history of the parser.
2. Creation of a process with its partial failures, as an action of `UserMemory` that
   takes its frames one by one.
3. Tokenising and path resolution as operators checked against a reference
   definition.
