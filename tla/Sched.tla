------------------------------- MODULE Sched -------------------------------
(***************************************************************************)
(* The round-robin scheduler of src/src/process/task.c: the circular task  *)
(* list, the timer tick, process creation, task_exit and the single-slot   *)
(* zombie that the next tick reclaims, together with the CPU state that    *)
(* a context switch moves: CR3, TSS.RSP0, the stack the CPU runs on and    *)
(* the interrupt frames saved on each kernel stack.                        *)
(*                                                                         *)
(* The 0x80 gate is an interrupt gate, so a system call runs with IF = 0   *)
(* and is one atomic action.  The exceptions are sys_read_key, which       *)
(* executes sti before it returns (context "readkey"), and kmain, which    *)
(* starts the first process with interrupts enabled (contexts "boot",      *)
(* "link" and "idle").  The timer may fire in each of these contexts.      *)
(*                                                                         *)
(* A task stands for its task_t, the kernel stack and the PML4 page that   *)
(* create_user_process_from_file allocates with it and that                *)
(* scheduler_schedule frees with it.                                       *)
(***************************************************************************)
EXTENDS Naturals, FiniteSets

CONSTANTS
    Task,       \* every task_t the kernel heap has room for
    Root,       \* the task_t of scheduler_init, which kmain becomes
    Nil,        \* NULL
    KernelPml4, \* the page tables kmain runs on
    Junk,       \* an uninitialised cr3 field that is not zero
    RootCr3,    \* what the root task's cr3 field, never written, holds
    StackFrames, \* interrupt frames a kernel stack has room for
    MaxPid      \* bound: no process is created once next_pid exceeds it

ASSUME SchedConstants ==
    /\ Root \in Task
    /\ Nil \notin Task
    /\ KernelPml4 \notin Task \cup {Nil, Junk}
    /\ Junk \notin Task \cup {Nil}
    /\ RootCr3 \in {Nil, Junk}
    /\ StackFrames \in Nat /\ StackFrames >= 2
    /\ MaxPid \in Nat

VARIABLES
    mem,          \* is the task free, allocated but not linked, live, exited?
    next,         \* task_t.next
    pid,          \* task_t.pid
    rsp,          \* task_t.rsp: <<owner of the stack, frames below it>>
    task_head,
    current_task,
    zombie_task,
    next_pid,
    frames,       \* the memory of each kernel stack: the contexts saved on it
    ctx,          \* the context the CPU executes now
    sp,           \* the CPU's kernel stack: <<owner, frames in use>>
    rsp0,         \* TSS.RSP0: <<owner of the stack, pages above its base>>
    cr3           \* the owner of the PML4 page loaded in CR3

listVars == <<mem, next, pid, task_head, next_pid, zombie_task>>
cpuVars  == <<ctx, sp, rsp0, cr3>>
vars == <<mem, next, pid, rsp, task_head, current_task, zombie_task,
          next_pid, frames, ctx, sp, rsp0, cr3>>

MemState == {"free", "new", "live", "exited"}

Context == {"user", "readkey", "boot", "link", "idle"}

\* The contents of a kernel stack, by depth; "none" was never written.
Stack == [1 .. StackFrames -> Context \cup {"none"}]

-----------------------------------------------------------------------------
(***************************************************************************)
(* Slips that the properties must notice; each stands in for the           *)
(* definition below whose name it begins with.                             *)
(***************************************************************************)

InsertedAfterHead_DropsRest(t) == [next EXCEPT ![t] = task_head, ![task_head] = t]
InsertedAfterHead_AfterCurrent(t) ==
    [next EXCEPT ![t] = next[current_task], ![current_task] = t]
Unlinked_Forgotten(prev, victim) == next
Picked_FromHead == next[task_head]
ExitRsp0_NotSet(t) == rsp0
LoadCr3_Never(t) == cr3

-----------------------------------------------------------------------------
(***************************************************************************)
(* The task list.                                                          *)
(***************************************************************************)

\* S holds, with every task, the one its next field leads to.
Closed(S) == \A t \in S : next[t] \in S \cup {Nil}

\* The tasks a walk along next from t meets: the least closed set with t.
Walk(t) == {u \in Task : \A S \in SUBSET Task : t \in S /\ Closed(S) => u \in S}

\* get_task_by_pid: a walk from task_head to the first task with that pid.
TasksWithPid(p) == {t \in Walk(task_head) : pid[t] = p}

\* The predecessors task_exit's search loop can stop at.
PrevOf(victim) == {p \in Walk(task_head) : next[p] = victim}

\* The list after new_task->next = task_head->next; task_head->next = new_task.
InsertedAfterHead(t) ==
    [next EXCEPT ![t] = next[task_head], ![task_head] = t]

\* The list after prev->next = victim->next.
Unlinked(prev, victim) == [next EXCEPT ![prev] = next[victim]]

\* next_pid++
PidAfter == next_pid + 1

\* The task scheduler_schedule picks.
Picked == next[current_task]

\* The cr3 field of a task; Nil stands for 0.  The root task_t comes from
\* kmalloc and its cr3 field is never written.  A machine that loads Junk
\* triple-faults; the model lets it go on, which only adds behaviours.
Cr3Of(t) == IF t = Root THEN RootCr3 ELSE t

\* What the two switches put in TSS.RSP0: kernel_stack lies one page above the
\* base of its allocation, task_exit adds another page.
TickRsp0(t) == <<t, 1>>
ExitRsp0(t) == <<t, 2>>

\* Both switches reload CR3 only for a task whose cr3 field is not 0 and
\* differs from what is loaded.
LoadCr3(t) == IF Cr3Of(t) # Nil /\ Cr3Of(t) # cr3 THEN Cr3Of(t) ELSE cr3

-----------------------------------------------------------------------------
(***************************************************************************)
(* Interrupt entry and return (idt.asm, switch.asm).                       *)
(***************************************************************************)

\* Entering ring 0 from user mode the CPU takes the stack TSS.RSP0 names; in
\* ring 0 it stays on the stack it is on.
EntryStack == IF ctx = "user" THEN <<rsp0[1], 0>> ELSE sp

\* The stack pointer and the saved frames after the entry stub pushed the
\* interrupted context.
PushedSp     == <<EntryStack[1], EntryStack[2] + 1>>
PushedFrames == [frames EXCEPT ![EntryStack[1]] =
                     [@ EXCEPT ![PushedSp[2]] = ctx]]

\* The exit path of both stubs: pop the frame that r points to, with the stacks
\* fs, and iretq into the context it holds.
Resume(fs, r) ==
    /\ ctx' = fs[r[1]][r[2]]
    /\ sp' = <<r[1], r[2] - 1>>
    /\ frames' = fs

-----------------------------------------------------------------------------

\* scheduler_init, at the point where the root task is the only one.
Init ==
    /\ mem = [t \in Task |-> IF t = Root THEN "live" ELSE "free"]
    /\ next = [t \in Task |-> IF t = Root THEN Root ELSE Nil]
    /\ pid = [t \in Task |-> 0]
    /\ rsp = [t \in Task |-> <<t, 0>>]
    /\ task_head = Root
    /\ current_task = Root
    /\ zombie_task = Nil
    /\ next_pid = 1
    /\ frames = [t \in Task |-> [i \in 1 .. StackFrames |-> "none"]]
    /\ ctx = "boot"
    /\ sp = <<Root, 0>>
    /\ rsp0 = <<Root, 0>>
    /\ cr3 = KernelPml4

\* create_user_process_from_file up to the task list: a zeroed task_t with the
\* next pid, and an interrupt frame on its kernel stack that enters user mode.
Allocate(t) ==
    /\ next_pid <= MaxPid
    /\ mem[t] = "free"
    /\ pid' = [pid EXCEPT ![t] = next_pid]
    /\ next_pid' = PidAfter
    /\ rsp' = [rsp EXCEPT ![t] = <<t, 1>>]
    /\ frames' = [frames EXCEPT ![t] = [@ EXCEPT ![1] = "user"]]

\* kmain starts the window manager with interrupts enabled: the two stores
\* that link the task are separate steps, and so is the halt loop after them.
BootAllocate(t) ==
    /\ ctx = "boot"
    /\ Allocate(t)
    /\ mem' = [mem EXCEPT ![t] = "new"]
    /\ next' = [next EXCEPT ![t] = next[task_head]]
    /\ ctx' = "link"
    /\ UNCHANGED <<task_head, current_task, zombie_task, sp, rsp0, cr3>>

\* task_head->next = new_task
BootLink(t) ==
    /\ ctx = "link"
    /\ mem[t] = "new"
    /\ mem' = [mem EXCEPT ![t] = "live"]
    /\ next' = [next EXCEPT ![task_head] = t]
    /\ ctx' = "idle"
    /\ UNCHANGED <<pid, rsp, task_head, current_task, zombie_task,
                   next_pid, frames, sp, rsp0, cr3>>

\* create_user_process_from_file fails in kmain: nothing is linked and kmain
\* halts.
BootFail ==
    /\ ctx = "boot"
    /\ ctx' = "idle"
    /\ UNCHANGED <<listVars, rsp, current_task, frames, sp, rsp0, cr3>>

\* sys_exec: the whole creation is one system call.
Exec(t) ==
    /\ ctx = "user"
    /\ Allocate(t)
    /\ mem' = [mem EXCEPT ![t] = "live"]
    /\ next' = InsertedAfterHead(t)
    /\ UNCHANGED <<task_head, current_task, zombie_task, cpuVars>>

\* sys_read_key with an empty message queue: after its sti the caller is in
\* ring 0 with interrupts enabled, its user frame on its kernel stack.
ReadKeyEnter ==
    /\ ctx = "user"
    /\ ctx' = "readkey"
    /\ sp' = PushedSp
    /\ frames' = PushedFrames
    /\ UNCHANGED <<listVars, rsp, current_task, rsp0, cr3>>

\* syscall_stub restores the frame and returns to user mode.
ReadKeyReturn ==
    /\ ctx = "readkey"
    /\ Resume(frames, sp)
    /\ UNCHANGED <<listVars, rsp, current_task, rsp0, cr3>>

\* The state after scheduler_schedule's cleanup: the zombie's kernel stack,
\* page tables and task_t are freed.
Reaped(f, freed) ==
    IF zombie_task = Nil THEN f ELSE [f EXCEPT ![zombie_task] = freed]

\* IRQ 0: irq_stub, irq_handler, pit_handler and scheduler_schedule.
Tick ==
    LET succ == Picked
        rs   == Reaped([rsp EXCEPT ![current_task] = PushedSp], <<zombie_task, 0>>)
    IN  /\ mem' = Reaped(mem, "free")
        /\ next' = Reaped(next, Nil)
        /\ pid' = Reaped(pid, 0)
        /\ zombie_task' = Nil
        /\ rsp' = rs
        /\ current_task' = succ
        /\ rsp0' = TickRsp0(succ)
        /\ cr3' = LoadCr3(succ)
        /\ Resume(PushedFrames, rs[succ])
        /\ UNCHANGED <<task_head, next_pid>>

\* sys_exit and task_exit: unlink the caller, leave it in zombie_task and jump
\* into the next task.  Only a process calls it; the root task never does.
TaskExit ==
    LET victim == current_task
        succ   == next[victim]
    IN  /\ ctx = "user"
        /\ \E prev \in PrevOf(victim) : next' = Unlinked(prev, victim)
        /\ task_head' = IF victim = task_head THEN succ ELSE task_head
        /\ mem' = [mem EXCEPT ![victim] = "exited"]
        /\ zombie_task' = victim
        /\ current_task' = succ
        /\ rsp0' = ExitRsp0(succ)
        /\ cr3' = LoadCr3(succ)
        /\ Resume(PushedFrames, rsp[succ])
        /\ UNCHANGED <<pid, rsp, next_pid>>

Next ==
    \/ \E t \in Task : BootAllocate(t) \/ BootLink(t) \/ Exec(t)
    \/ BootFail
    \/ ReadKeyEnter
    \/ ReadKeyReturn
    \/ Tick
    \/ TaskExit

Spec == Init /\ [][Next]_vars

\* The PIT never stops and every context has interrupts enabled.
FairSpec == Spec /\ WF_vars(Tick)

-----------------------------------------------------------------------------
(***************************************************************************)
(* Properties.                                                             *)
(***************************************************************************)

Live == {t \in Task : mem[t] = "live"}

\* Every variable has its type.
TypeOK ==
    /\ mem \in [Task -> MemState]
    /\ next \in [Task -> Task \cup {Nil}]
    /\ pid \in [Task -> Nat]
    /\ rsp \in [Task -> Task \X Nat]
    /\ task_head \in Task
    /\ current_task \in Task
    /\ zombie_task \in Task \cup {Nil}
    /\ next_pid \in Nat
    /\ frames \in [Task -> Stack]
    /\ ctx \in Context
    /\ sp \in Task \X Nat
    /\ rsp0 \in Task \X Nat
    /\ cr3 \in Task \cup {KernelPml4, Junk}

\* The live tasks form exactly one cycle of next pointers, with task_head and
\* current_task on it: no proper part of them is closed under next, and no two
\* of them share a successor.  So scheduler_schedule reaches every task, the
\* search loops of task_exit and get_task_by_pid end, and neither a free nor an
\* exited task is ever scheduled.
ListIsRing ==
    /\ {task_head, current_task} \subseteq Live
    /\ \A t \in Live : next[t] \in Live
    /\ \A t, u \in Live : next[t] = next[u] => t = u
    /\ \A S \in SUBSET Live : S # {} /\ Closed(S) => S = Live

\* Every time a process calls task_exit its search loop finds a predecessor:
\* "Panic: Corrupt task list" is unreachable.
ExitFindsPrev == ctx = "user" => \E p \in PrevOf(current_task) : p # current_task

\* get_task_by_pid finds every live task by its pid, and no other task.
PidNamesTask == \A t \in Live : TasksWithPid(pid[t]) = {t}

\* The top frame of t's own kernel stack, with d frames in use, continues t: a
\* process is in user mode or, on top of its user frame, in the sys_read_key
\* window; the root task halts.
Resumable(t, d) ==
    IF t = Root
    THEN d = 1 /\ frames[t][1] = "idle"
    ELSE \/ d = 1 /\ frames[t][1] = "user"
         \/ d = 2 /\ frames[t][1] = "user" /\ frames[t][2] = "readkey"

\* Every suspended task's saved stack pointer designates a frame on its own
\* kernel stack that continues it, under it at most a user frame; the running
\* task enters ring 0 on its own stack and owns the stack it is on.  So no
\* switch resumes a stale or foreign frame, and frames never pile up.
StacksOwned ==
    /\ rsp0[1] = current_task
    /\ sp[1] = current_task
    /\ \A t \in Live \ {current_task} : rsp[t][1] = t /\ Resumable(t, rsp[t][2])
    /\ IF current_task = Root
       THEN ctx \in {"boot", "link", "idle"} /\ sp[2] = 0
       ELSE \/ ctx = "user"
            \/ ctx = "readkey" /\ sp[2] = 1 /\ frames[current_task][1] = "user"

\* What scheduler_schedule is about to free is in nobody's hands: the zombie is
\* an exited process that is not on the list, not on the CPU and not named by
\* the TSS, so the tick that frees its kernel stack does not run on it.
ZombieDetached ==
    zombie_task # Nil =>
        /\ mem[zombie_task] = "exited"
        /\ zombie_task \notin Walk(task_head) \cup {current_task, rsp0[1], sp[1]}

\* A process always runs on its own page tables.  The root task keeps whatever
\* was loaded, and those page tables may be freed under it only when it is the
\* last task, so nothing can allocate the page again.  Needs a root task whose
\* uninitialised cr3 field happens to be 0.
Cr3Safe ==
    RootCr3 = Nil =>
        /\ cr3 # Junk
        /\ current_task # Root => cr3 = current_task
        /\ (cr3 \in Task /\ mem[cr3] = "free") => Live = {Root}

\* A tick cleans up every zombie left by previous exit calls.
TickReapsExited == [][Tick => \A t \in Task : mem'[t] # "exited"]_vars

\* No task starves: a live task is scheduled again and again until it exits.
EveryTaskRuns ==
    \A t \in Task : mem[t] = "live" ~> (current_task = t \/ mem[t] # "live")
=============================================================================
