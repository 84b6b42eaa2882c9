---------------------------- MODULE SchedProofs ----------------------------
(***************************************************************************)
(* The safety invariants of Sched, for any number of tasks.                *)
(*                                                                         *)
(* ListIsRing and StacksOwned are almost inductive together.  What they    *)
(* lack is the half-linked task of the interruptible boot, the fact that   *)
(* the root task stays at the head of the list, and that a zombie is an    *)
(* exited task.                                                            *)
(*                                                                         *)
(* And the refinement of RoundRobin: the list of pointers, read from the   *)
(* running task on, is the queue.                                          *)
(***************************************************************************)
EXTENDS SchedRefinement, WellFoundedInduction, FiniteSetTheorems, SequenceTheorems, TLAPS

\* While kmain builds the first process the root task is alone.
BootAlone ==
    ctx \in {"boot", "link"} =>
        /\ Live = {Root}
        /\ zombie_task = Nil
        /\ cr3 \notin Task

\* The process kmain has built but not linked: there is at most one, and it is
\* ready to become a member of the ring.
NewTaskReady ==
    /\ \A t \in Task : mem[t] = "new" =>
          /\ ctx = "link"
          /\ next[t] = Root
          /\ rsp[t] = <<t, 1>>
          /\ frames[t][1] = "user"
    /\ \A t, u \in Task : mem[t] = "new" /\ mem[u] = "new" => t = u

ZombieExited == zombie_task # Nil => mem[zombie_task] = "exited"

\* pids are handed out in increasing order.
PidsFresh ==
    /\ \A t \in Task : mem[t] # "free" => pid[t] < next_pid
    /\ \A t, u \in Task : mem[t] # "free" /\ mem[u] # "free" /\ pid[t] = pid[u] => t = u

IndInv ==
    /\ TypeOK
    /\ task_head = Root
    /\ ListIsRing
    /\ StacksOwned
    /\ BootAlone
    /\ NewTaskReady
    /\ ZombieExited
    /\ PidsFresh
    /\ Cr3Safe

-----------------------------------------------------------------------------
(***************************************************************************)
(* Lemmas about the list.                                                  *)
(***************************************************************************)

\* On a ring, a walk from any member meets exactly the live tasks.
LEMMA WalkIsLive ==
    ASSUME TypeOK, ListIsRing, NEW t \in Live
    PROVE  Walk(t) = Live
<1>1. Live \subseteq Task /\ Nil \notin Live
  BY SchedConstants DEF Live
<1>2. Closed(Live)
  BY DEF ListIsRing, Closed
<1>3. ASSUME NEW u \in Walk(t)
      PROVE  u \in Live
  BY <1>1, <1>2, <1>3 DEF Walk
<1>4. ASSUME NEW u \in Live, NEW S \in SUBSET Task, t \in S, Closed(S)
      PROVE  u \in S
  <2>1. S \cap Live # {} /\ S \cap Live \in SUBSET Live
    BY <1>4
  <2>2. Closed(S \cap Live)
    BY <1>1, <1>4 DEF Closed, ListIsRing
  <2>3. S \cap Live = Live
    BY <2>1, <2>2 DEF ListIsRing
  <2>. QED
    BY <2>3
<1>5. ASSUME NEW u \in Live
      PROVE  u \in Walk(t)
  BY <1>1, <1>4 DEF Walk
<1>. QED
  BY <1>3, <1>5

\* Every member of a ring has a predecessor on it.
LEMMA HasPrev ==
    ASSUME TypeOK, ListIsRing, NEW t \in Live
    PROVE  \E p \in Live : next[p] = t
<1>. DEFINE I == {next[p] : p \in Live}
<1>1. I \subseteq Live
  BY DEF ListIsRing
<1>2. I # {}
  OBVIOUS
<1>3. Closed(I)
  BY <1>1 DEF Closed
<1>4. I = Live
  <2>. HIDE DEF I
  <2>. QED
    BY <1>1, <1>2, <1>3 DEF ListIsRing
<1>. QED
  BY <1>4

\* A task that is its own successor is alone.
LEMMA SelfNext ==
    ASSUME TypeOK, ListIsRing, NEW t \in Live, next[t] = t
    PROVE  Live = {t}
<1>1. {t} \in SUBSET Live /\ {t} # {}
  OBVIOUS
<1>2. Closed({t})
  BY DEF Closed
<1>. QED
  BY <1>1, <1>2 DEF ListIsRing

\* The ring after a task that was not on it is linked behind the head.
LEMMA InsertKeepsRing ==
    ASSUME TypeOK, ListIsRing,
           NEW t \in Task, mem[t] # "live", task_head' = task_head,
           current_task' = current_task,
           mem' = [mem EXCEPT ![t] = "live"],
           next'[t] = next[task_head], next'[task_head] = t,
           \A u \in Live \ {task_head} : next'[u] = next[u]
    PROVE  ListIsRing'
<1>1. /\ Live \subseteq Task
      /\ Nil \notin Task
      /\ Live' = Live \cup {t}
      /\ t \notin Live
      /\ task_head \in Live
      /\ current_task \in Live
  <2>1. Live' = Live \cup {t}
    BY DEF Live, TypeOK
  <2>2. Live \subseteq Task /\ t \notin Live
    BY DEF Live
  <2>. QED
    BY <2>1, <2>2, SchedConstants DEF ListIsRing
<1>2. /\ next'[t] = next[task_head]
      /\ next'[task_head] = t
      /\ \A u \in Live \ {task_head} : next'[u] = next[u]
  OBVIOUS
<1>3. \A u \in Live : next[u] \in Live /\ next[u] # t
  BY <1>1 DEF ListIsRing
<1>4. ASSUME NEW u \in Live'
      PROVE  next'[u] \in Live'
  <2>1. CASE u = t
    BY <2>1, <1>1, <1>2, <1>3
  <2>2. CASE u = task_head
    BY <2>2, <1>1, <1>2
  <2>3. CASE u \in Live \ {task_head}
    BY <2>3, <1>1, <1>2, <1>3
  <2>. QED
    BY <2>1, <2>2, <2>3, <1>1
<1>5. \A u, v \in Live : next[u] = next[v] => u = v
  BY DEF ListIsRing
<1>6. ASSUME NEW u \in Live', NEW v \in Live', next'[u] = next'[v]
      PROVE  u = v
  BY <1>1, <1>2, <1>3, <1>5, <1>6
<1>7. ASSUME NEW S \in SUBSET Live', S # {}, Closed(S)'
      PROVE  S = Live'
  <2>. DEFINE R == S \ {t}
  <2>1. \A u \in S : next'[u] \in S
    BY <1>1, <1>4, <1>7 DEF Closed
  <2>2. R \in SUBSET Live
    BY <1>1, <1>7
  <2>3. R # {}
    <3>1. CASE t \in S
      BY <3>1, <2>1, <1>1, <1>2, <1>3
    <3>2. CASE t \notin S
      BY <3>2, <1>7
    <3>. QED
      BY <3>1, <3>2
  <2>4. \A u \in R : next[u] \in R
    <3>. SUFFICES ASSUME NEW u \in R
                  PROVE  next[u] \in R
      OBVIOUS
    <3>0. u \in Live /\ u \in S /\ next[u] # t
      BY <2>2, <1>3
    <3>1. CASE u = task_head
      <4>1. t \in S
        BY <3>0, <3>1, <2>1, <1>2
      <4>2. next[task_head] \in S
        BY <4>1, <2>1, <1>2
      <4>. QED
        BY <4>2, <3>0, <3>1
    <3>2. CASE u # task_head
      BY <3>0, <3>2, <2>1, <1>2
    <3>. QED
      BY <3>1, <3>2
  <2>5. R = Live
    <3>1. Closed(R)
      BY <2>4 DEF Closed
    <3>. HIDE DEF R
    <3>. QED
      BY <2>2, <2>3, <3>1 DEF ListIsRing
  <2>6. t \in S
    BY <2>5, <2>1, <1>1, <1>2
  <2>. QED
    BY <2>5, <2>6, <1>1, <1>7
<1>8. {task_head, current_task}' \subseteq Live'
  BY <1>1
<1>. QED
  BY <1>4, <1>6, <1>7, <1>8 DEF ListIsRing

\* The ring after its member v is unlinked from its predecessor.
LEMMA UnlinkKeepsRing ==
    ASSUME TypeOK, ListIsRing,
           NEW v \in Live, NEW p \in Live, next[p] = v, v # task_head,
           task_head' = task_head, current_task' = next[v],
           mem' = [mem EXCEPT ![v] = "exited"],
           next' = [next EXCEPT ![p] = next[v]]
    PROVE  ListIsRing' /\ p # v /\ next[v] # v
<1>1. /\ Live \subseteq Task
      /\ Nil \notin Task
      /\ Live' = Live \ {v}
      /\ task_head \in Live
  BY SchedConstants DEF Live, TypeOK, ListIsRing
<1>2. next[v] # v
  BY SelfNext, <1>1
<1>3. p # v
  BY <1>2
<1>4. /\ next'[p] = next[v]
      /\ \A u \in Live \ {p} : next'[u] = next[u]
  BY <1>1 DEF TypeOK
<1>5. \A u, w \in Live : next[u] = next[w] => u = w
  BY DEF ListIsRing
<1>6. \A u \in Live : next[u] \in Live
  BY DEF ListIsRing
<1>7. \A u \in Live' : next'[u] \in Live'
  BY <1>1, <1>2, <1>4, <1>5, <1>6
<1>8. ASSUME NEW u \in Live', NEW w \in Live', next'[u] = next'[w]
      PROVE  u = w
  BY <1>1, <1>4, <1>5, <1>8
<1>9. ASSUME NEW S \in SUBSET Live', S # {}, Closed(S)'
      PROVE  S = Live'
  <2>1. \A u \in S : next'[u] \in S
    BY <1>1, <1>7, <1>9 DEF Closed
  <2>2. p \in S
    <3>. SUFFICES ASSUME p \notin S
                  PROVE  FALSE
      OBVIOUS
    <3>1. \A u \in S : next[u] \in S
      BY <2>1, <1>4, <1>1, <1>9
    <3>2. S = Live
      BY <3>1, <1>1, <1>9 DEF Closed, ListIsRing
    <3>. QED
      BY <3>2
  <2>. DEFINE R == S \cup {v}
  <2>3. R \in SUBSET Live /\ R # {}
    BY <1>1, <1>9
  <2>4. \A u \in R : next[u] \in R
    BY <2>1, <2>2, <1>1, <1>4, <1>9
  <2>5. R = Live
    <3>1. Closed(R)
      BY <2>4 DEF Closed
    <3>. HIDE DEF R
    <3>. QED
      BY <2>3, <3>1 DEF ListIsRing
  <2>. QED
    BY <2>5, <1>1, <1>9
<1>10. {task_head, current_task}' \subseteq Live'
  BY <1>1, <1>2, <1>6
<1>. QED
  BY <1>2, <1>3, <1>7, <1>8, <1>9, <1>10 DEF ListIsRing


-----------------------------------------------------------------------------
(***************************************************************************)
(* Lemmas about kernel stacks.                                             *)
(***************************************************************************)

\* An interrupt saves the running task on its own kernel stack, where the
\* saved frame continues it.
LEMMA PushOnOwnStack ==
    ASSUME TypeOK, StacksOwned
    PROVE  \E d \in {1, 2} :
             /\ PushedSp = <<current_task, d>>
             /\ PushedFrames \in [Task -> Stack]
             /\ \A t \in Task \ {current_task} : PushedFrames[t] = frames[t]
             /\ PushedFrames[current_task][d] = ctx
             /\ current_task = Root => d = 1
             /\ current_task # Root => /\ PushedFrames[current_task][1] = "user"
                                       /\ d = 2 => ctx = "readkey"
<1>1. current_task \in Task /\ ctx \in Context /\ frames \in [Task -> Stack]
  BY DEF TypeOK
<1>2. EntryStack[1] = current_task
  BY DEF EntryStack, StacksOwned
<1>3. CASE ctx = "readkey"
  <2>1. EntryStack[2] = 1 /\ current_task # Root /\ frames[current_task][1] = "user"
    BY <1>3 DEF EntryStack, StacksOwned
  <2>2. PushedSp = <<current_task, 2>>
    BY <2>1, <1>2 DEF PushedSp
  <2>3. PushedFrames = [frames EXCEPT ![current_task] = [@ EXCEPT ![2] = ctx]]
    BY <2>2, <1>2 DEF PushedFrames
  <2>4. 1 \in 1 .. StackFrames /\ 2 \in 1 .. StackFrames
    BY SchedConstants
  <2>5. PushedFrames \in [Task -> Stack]
    BY <2>3, <2>4, <1>1 DEF Stack
  <2>6. /\ PushedFrames[current_task][2] = ctx
        /\ PushedFrames[current_task][1] = "user"
        /\ \A t \in Task \ {current_task} : PushedFrames[t] = frames[t]
    <3>1. frames[current_task] \in Stack
      BY <1>1
    <3>2. PushedFrames[current_task] = [frames[current_task] EXCEPT ![2] = ctx]
      BY <2>3, <1>1
    <3>3. \A t \in Task \ {current_task} : PushedFrames[t] = frames[t]
      BY <2>3, <1>1
    <3>4. PushedFrames[current_task][2] = ctx
      BY <3>1, <3>2, <2>4 DEF Stack
    <3>5. PushedFrames[current_task][1] = frames[current_task][1]
      BY <3>1, <3>2, <2>4 DEF Stack
    <3>. QED
      BY <3>3, <3>4, <3>5, <2>1
  <2>. QED
    BY <1>3, <2>1, <2>2, <2>5, <2>6
<1>4. CASE ctx # "readkey"
  <2>1. EntryStack[2] = 0 /\ (current_task = Root \/ ctx = "user")
    BY <1>4 DEF EntryStack, StacksOwned
  <2>2. PushedSp = <<current_task, 1>>
    BY <2>1, <1>2 DEF PushedSp
  <2>3. PushedFrames = [frames EXCEPT ![current_task] = [@ EXCEPT ![1] = ctx]]
    BY <2>2, <1>2 DEF PushedFrames
  <2>4. 1 \in 1 .. StackFrames
    BY SchedConstants
  <2>5. PushedFrames \in [Task -> Stack]
    BY <2>3, <2>4, <1>1 DEF Stack
  <2>6. /\ PushedFrames[current_task][1] = ctx
        /\ \A t \in Task \ {current_task} : PushedFrames[t] = frames[t]
    BY <2>3, <2>4, <1>1 DEF Stack
  <2>. QED
    BY <2>1, <2>2, <2>5, <2>6
<1>. QED
  BY <1>3, <1>4

-----------------------------------------------------------------------------
(***************************************************************************)
(* The inductive invariant.                                                *)
(***************************************************************************)

\* The invariant holds when kmain starts the scheduler.
LEMMA InitInv == Init => IndInv
<1>. SUFFICES ASSUME Init
              PROVE  IndInv
  OBVIOUS
<1>1. Live = {Root}
  BY SchedConstants DEF Init, Live
<1>2. TypeOK
  <2>1. frames \in [Task -> Stack]
    BY DEF Init, Stack
  <2>. QED
    BY <2>1, SchedConstants DEF Init, TypeOK, MemState, Context
<1>3. ListIsRing
  BY <1>1, SchedConstants DEF Init, ListIsRing, Closed
<1>4. StacksOwned
  BY <1>1 DEF Init, StacksOwned
<1>5. BootAlone /\ NewTaskReady /\ ZombieExited /\ Cr3Safe
  BY <1>1, SchedConstants DEF Init, BootAlone, NewTaskReady, ZombieExited, Cr3Safe
<1>6. PidsFresh
  BY SchedConstants DEF Init, PidsFresh
<1>. QED
  BY <1>2, <1>3, <1>4, <1>5, <1>6 DEF IndInv, Init

\* The first process is allocated by kmain, not linked yet.
LEMMA BootAllocateInv ==
    ASSUME IndInv, NEW t \in Task, BootAllocate(t)
    PROVE  IndInv'
<1>1. t \notin Live /\ t # Root /\ current_task = Root /\ Live = {Root}
  BY DEF IndInv, BootAllocate, Allocate, Live, ListIsRing, BootAlone, StacksOwned
<1>2. Live' = Live
  BY <1>1 DEF IndInv, TypeOK, BootAllocate, Allocate, Live
<1>3. TypeOK'
  <2>1. frames' \in [Task -> Stack]
    BY SchedConstants DEF IndInv, TypeOK, BootAllocate, Allocate, Stack, Context
  <2>. QED
    BY <2>1, SchedConstants
       DEF IndInv, TypeOK, BootAllocate, Allocate, PidAfter, MemState, Context
<1>4. next[Root] = Root /\ next'[Root] = Root
  BY <1>1 DEF IndInv, TypeOK, BootAllocate, ListIsRing
<1>5. ListIsRing'
  BY <1>1, <1>2, <1>4, SchedConstants DEF IndInv, ListIsRing, BootAllocate, Closed
<1>6. StacksOwned'
  BY <1>1, <1>2 DEF IndInv, StacksOwned, BootAllocate, Allocate
<1>7. BootAlone'
  BY <1>2, <1>1 DEF IndInv, BootAlone, BootAllocate
<1>8. NewTaskReady'
  <2>1. frames'[t][1] = "user"
    BY SchedConstants DEF IndInv, TypeOK, BootAllocate, Allocate, Stack
  <2>2. \A u \in Task : mem[u] # "new"
    BY DEF IndInv, NewTaskReady, BootAllocate
  <2>. QED
    BY <2>1, <2>2, <1>4 DEF IndInv, TypeOK, NewTaskReady, BootAllocate, Allocate
<1>9. ZombieExited'
  BY SchedConstants DEF IndInv, ZombieExited, BootAllocate, BootAlone
<1>10. PidsFresh'
  BY DEF IndInv, TypeOK, PidsFresh, BootAllocate, Allocate, PidAfter
<1>11. Cr3Safe'
  BY <1>1, <1>2 DEF IndInv, Cr3Safe, BootAllocate
<1>. QED
  BY <1>3, <1>5, <1>6, <1>7, <1>8, <1>9, <1>10, <1>11 DEF IndInv, BootAllocate

\* The second store of kmain links it into the ring.
LEMMA BootLinkInv ==
    ASSUME IndInv, NEW t \in Task, BootLink(t)
    PROVE  IndInv'
<1>1. /\ Live = {Root} /\ current_task = Root /\ t # Root /\ task_head = Root
      /\ mem[t] = "new" /\ next[t] = Root
  BY DEF IndInv, BootLink, Live, ListIsRing, BootAlone, NewTaskReady
<1>2. Live' = {Root, t}
  BY <1>1, SchedConstants DEF IndInv, TypeOK, BootLink, Live
<1>3. TypeOK'
  BY DEF IndInv, TypeOK, BootLink, MemState, Context
<1>4. next[Root] = Root
  BY <1>1 DEF IndInv, ListIsRing
<1>5. ListIsRing'
  <2>1. next'[t] = next[task_head] /\ next'[task_head] = t
    BY <1>1, <1>4, SchedConstants DEF IndInv, TypeOK, BootLink
  <2>2. \A u \in Live \ {task_head} : next'[u] = next[u]
    BY <1>1
  <2>3. task_head' = task_head /\ current_task' = current_task
        /\ mem' = [mem EXCEPT ![t] = "live"] /\ mem[t] # "live"
    BY <1>1 DEF BootLink
  <2>. QED
    BY <2>1, <2>2, <2>3, InsertKeepsRing DEF IndInv
<1>6. StacksOwned'
  <2>1. rsp[t][1] = t /\ rsp[t][2] = 1 /\ frames[t][1] = "user"
    BY <1>1 DEF IndInv, NewTaskReady
  <2>. QED
    BY <2>1, <1>1, <1>2 DEF IndInv, StacksOwned, BootLink, Resumable
<1>7. BootAlone' /\ ZombieExited'
  BY SchedConstants DEF IndInv, BootAlone, ZombieExited, BootLink
<1>8. NewTaskReady'
  BY <1>1 DEF IndInv, TypeOK, NewTaskReady, BootLink
<1>9. PidsFresh'
  BY <1>1 DEF IndInv, TypeOK, PidsFresh, BootLink
<1>10. Cr3Safe'
  BY <1>1 DEF IndInv, Cr3Safe, BootLink, BootAlone
<1>. QED
  BY <1>3, <1>5, <1>6, <1>7, <1>8, <1>9, <1>10 DEF IndInv, BootLink

\* BootFail, ReadKeyEnter and ReadKeyReturn leave the list alone.
LEMMA ListUnchanged ==
    ASSUME IndInv, UNCHANGED <<listVars, current_task, cr3>>
    PROVE  ListIsRing' /\ Live' = Live /\ ZombieExited' /\ PidsFresh' /\ Cr3Safe'
<1>1. Live' = Live
  BY DEF listVars, Live
<1>. QED
  BY <1>1 DEF IndInv, listVars, ListIsRing, Closed, ZombieExited, PidsFresh, Cr3Safe

\* kmain goes on without a first process.
LEMMA BootFailInv ==
    ASSUME IndInv, BootFail
    PROVE  IndInv'
<1>1. ListIsRing' /\ Live' = Live /\ ZombieExited' /\ PidsFresh' /\ Cr3Safe'
  BY ListUnchanged DEF BootFail
<1>2. current_task = Root /\ Live = {Root}
  BY DEF IndInv, BootFail, BootAlone, ListIsRing
<1>3. TypeOK'
  BY DEF IndInv, TypeOK, BootFail, listVars, Context
<1>4. StacksOwned'
  BY <1>1, <1>2 DEF IndInv, StacksOwned, BootFail
<1>5. BootAlone' /\ NewTaskReady'
  BY DEF IndInv, BootAlone, NewTaskReady, BootFail, listVars
<1>. QED
  BY <1>1, <1>3, <1>4, <1>5 DEF IndInv, BootFail, listVars

\* sys_read_key enables interrupts.
LEMMA ReadKeyEnterInv ==
    ASSUME IndInv, ReadKeyEnter
    PROVE  IndInv'
<1>1. ListIsRing' /\ Live' = Live /\ ZombieExited' /\ PidsFresh' /\ Cr3Safe'
  BY ListUnchanged DEF ReadKeyEnter
<1>2. PICK d \in {1, 2} :
        /\ PushedSp = <<current_task, d>>
        /\ PushedFrames \in [Task -> Stack]
        /\ \A t \in Task \ {current_task} : PushedFrames[t] = frames[t]
        /\ PushedFrames[current_task][d] = ctx
        /\ current_task = Root => d = 1
        /\ current_task # Root => /\ PushedFrames[current_task][1] = "user"
                                  /\ d = 2 => ctx = "readkey"
  BY PushOnOwnStack DEF IndInv
<1>3. ctx = "user" /\ current_task # Root /\ d = 1
  BY <1>2 DEF IndInv, ReadKeyEnter, StacksOwned
<1>4. TypeOK'
  BY <1>2, <1>3 DEF IndInv, TypeOK, ReadKeyEnter, listVars, Context
<1>5. StacksOwned'
  BY <1>1, <1>2, <1>3 DEF IndInv, TypeOK, Live, StacksOwned, Resumable, ReadKeyEnter
<1>6. BootAlone' /\ NewTaskReady'
  BY <1>3 DEF IndInv, BootAlone, NewTaskReady, ReadKeyEnter, listVars
<1>. QED
  BY <1>1, <1>4, <1>5, <1>6 DEF IndInv, ReadKeyEnter, listVars

\* sys_read_key disables them again and returns.
LEMMA ReadKeyReturnInv ==
    ASSUME IndInv, ReadKeyReturn
    PROVE  IndInv'
<1>1. ListIsRing' /\ Live' = Live /\ ZombieExited' /\ PidsFresh' /\ Cr3Safe'
  BY ListUnchanged DEF ReadKeyReturn
<1>2. /\ current_task # Root /\ ctx = "readkey"
      /\ sp[1] = current_task /\ sp[2] = 1 /\ frames[current_task][1] = "user"
  BY DEF IndInv, ReadKeyReturn, StacksOwned
<1>3. ctx' = "user" /\ sp' = <<current_task, 0>> /\ frames' = frames
  BY <1>2 DEF ReadKeyReturn, Resume
<1>4. TypeOK'
  BY <1>3 DEF IndInv, TypeOK, ReadKeyReturn, listVars, Context
<1>5. StacksOwned'
  BY <1>1, <1>2, <1>3 DEF IndInv, StacksOwned, Resumable, ReadKeyReturn
<1>6. BootAlone' /\ NewTaskReady'
  BY <1>2, <1>3 DEF IndInv, BootAlone, NewTaskReady, ReadKeyReturn, listVars
<1>. QED
  BY <1>1, <1>4, <1>5, <1>6 DEF IndInv, ReadKeyReturn, listVars

\* sys_exec inserts a process behind the head.
LEMMA ExecInv ==
    ASSUME IndInv, NEW t \in Task, Exec(t)
    PROVE  IndInv'
<1>1. /\ mem[t] = "free" /\ t \notin Live /\ Root \in Live /\ task_head = Root
      /\ current_task # Root /\ ctx = "user" /\ current_task \in Live
      /\ \A u \in Task : mem[u] # "new"
  BY DEF IndInv, Exec, Allocate, Live, ListIsRing, StacksOwned, NewTaskReady
<1>2. Live' = Live \cup {t}
  BY DEF IndInv, TypeOK, Exec, Live
<1>3. TypeOK'
  <2>1. frames' \in [Task -> Stack]
    BY SchedConstants DEF IndInv, TypeOK, Exec, Allocate, Stack, Context
  <2>2. next' \in [Task -> Task \cup {Nil}]
    BY DEF IndInv, TypeOK, Exec, InsertedAfterHead
  <2>3. mem' \in [Task -> MemState]
    BY DEF IndInv, TypeOK, Exec, MemState
  <2>. QED
    BY <2>1, <2>2, <2>3
       DEF IndInv, TypeOK, Exec, Allocate, PidAfter, cpuVars
<1>4. ListIsRing'
  <2>1. next'[t] = next[task_head] /\ next'[task_head] = t
    BY <1>1 DEF IndInv, TypeOK, Exec, InsertedAfterHead
  <2>2. \A u \in Live \ {task_head} : next'[u] = next[u]
    BY <1>1 DEF IndInv, TypeOK, Exec, InsertedAfterHead, Live
  <2>3. task_head' = task_head /\ current_task' = current_task
        /\ mem' = [mem EXCEPT ![t] = "live"] /\ mem[t] # "live"
    BY <1>1 DEF Exec
  <2>. QED
    BY <2>1, <2>2, <2>3, InsertKeepsRing DEF IndInv
<1>5. StacksOwned'
  <2>1. rsp'[t] = <<t, 1>> /\ frames'[t][1] = "user"
    BY SchedConstants DEF IndInv, TypeOK, Exec, Allocate, Stack
  <2>2. \A u \in Task \ {t} : rsp'[u] = rsp[u] /\ frames'[u] = frames[u]
    BY DEF IndInv, TypeOK, Exec, Allocate
  <2>3. ASSUME NEW u \in Live \ {current_task}
        PROVE  (rsp[u][1] = u /\ Resumable(u, rsp[u][2]))'
    BY <2>2, <1>1 DEF IndInv, StacksOwned, Resumable, Live
  <2>4. (rsp[t][1] = t /\ Resumable(t, rsp[t][2]))'
    BY <2>1, <1>1 DEF Resumable
  <2>. QED
    BY <2>3, <2>4, <1>1, <1>2 DEF IndInv, StacksOwned, Exec, cpuVars
<1>6. BootAlone'
  BY <1>1 DEF BootAlone, Exec, cpuVars
<1>7. NewTaskReady'
  BY <1>1 DEF IndInv, TypeOK, NewTaskReady, Exec
<1>8. ZombieExited'
  BY <1>1 DEF IndInv, TypeOK, ZombieExited, Exec
<1>9. PidsFresh'
  BY <1>1 DEF IndInv, TypeOK, PidsFresh, Exec, Allocate, PidAfter
<1>10. Cr3Safe'
  BY <1>1 DEF IndInv, TypeOK, Cr3Safe, Exec, cpuVars, Live
<1>. QED
  BY <1>3, <1>4, <1>5, <1>6, <1>7, <1>8, <1>9, <1>10 DEF IndInv, Exec

\* The tick frees the zombie and switches to the next task.
LEMMA TickInv ==
    ASSUME IndInv, Tick
    PROVE  IndInv'
<1>. DEFINE c == current_task
            s == next[current_task]
            z == zombie_task
<1>1. /\ c \in Live /\ s \in Live /\ Live \subseteq Task /\ task_head = Root
      /\ Nil \notin Task /\ Root \in Live
  BY SchedConstants DEF IndInv, ListIsRing, Live
<1>2. z # Nil => z \in Task /\ mem[z] = "exited" /\ z \notin Live
  BY DEF IndInv, TypeOK, ZombieExited, Live
<1>3. /\ mem' \in [Task -> MemState]
      /\ \A t \in Task : t # z => mem'[t] = mem[t]
      /\ z # Nil => mem'[z] = "free"
  BY <1>2 DEF IndInv, TypeOK, Tick, Reaped, MemState
<1>4. Live' = Live
  BY <1>1, <1>2, <1>3 DEF Live
<1>5. PICK d \in {1, 2} :
        /\ PushedSp = <<current_task, d>>
        /\ PushedFrames \in [Task -> Stack]
        /\ \A t \in Task \ {current_task} : PushedFrames[t] = frames[t]
        /\ PushedFrames[current_task][d] = ctx
        /\ current_task = Root => d = 1
        /\ current_task # Root => /\ PushedFrames[current_task][1] = "user"
                                  /\ d = 2 => ctx = "readkey"
  BY PushOnOwnStack DEF IndInv
<1>6. frames' = PushedFrames
  BY DEF Tick, Resume
<1>7. /\ rsp' \in [Task -> Task \X Nat]
      /\ rsp'[c] = <<c, d>>
      /\ \A t \in Live \ {c} : rsp'[t] = rsp[t]
  <2>1. rsp' = Reaped([rsp EXCEPT ![c] = <<c, d>>], <<z, 0>>)
    BY <1>5 DEF Tick
  <2>2. c \in Task /\ rsp \in [Task -> Task \X Nat] /\ <<c, d>> \in Task \X Nat
    BY <1>1 DEF IndInv, TypeOK
  <2>3. CASE z = Nil
    BY <2>1, <2>2, <2>3, <1>1 DEF Reaped
  <2>4. CASE z # Nil
    BY <2>1, <2>2, <2>4, <1>1, <1>2 DEF Reaped
  <2>. QED
    BY <2>3, <2>4
<1>8. ctx' = frames'[rsp'[s][1]][rsp'[s][2]] /\ sp' = <<rsp'[s][1], rsp'[s][2] - 1>>
  BY <1>6 DEF Tick, Resume, Picked
<1>9. current_task' = s /\ rsp0' = <<s, 1>> /\ cr3' = LoadCr3(s)
  BY DEF Tick, Picked, TickRsp0
<1>10. next' \in [Task -> Task \cup {Nil}] /\ \A t \in Live : next'[t] = next[t]
  BY <1>1, <1>2 DEF IndInv, TypeOK, Tick, Reaped
<1>11. pid' \in [Task -> Nat] /\ \A t \in Task : t # z => pid'[t] = pid[t]
  BY <1>2 DEF IndInv, TypeOK, Tick, Reaped
<1>12. c \in Task /\ s \in Task
  BY <1>1
<1>13. ASSUME s = c
       PROVE  /\ StacksOwned' /\ BootAlone' /\ NewTaskReady' /\ Cr3Safe'
              /\ ctx' \in Context /\ sp' \in Task \X Nat
  <2>1. Live = {Root} /\ c = Root
    BY <1>13, <1>1, SelfNext DEF IndInv
  <2>2. ctx' = ctx /\ sp' = <<Root, 0>> /\ d = 1
    BY <2>1, <1>5, <1>6, <1>7, <1>8, <1>13
  <2>3. ctx \in {"boot", "link", "idle"}
    BY <2>1 DEF IndInv, StacksOwned
  <2>4. StacksOwned'
    BY <2>1, <2>2, <2>3, <1>4, <1>9, <1>13 DEF StacksOwned
  <2>5. cr3' \in Task => cr3' = cr3
    BY <2>1, <1>9, <1>13, SchedConstants DEF LoadCr3, Cr3Of
  <2>6. BootAlone'
    BY <2>1, <2>2, <2>5, <1>4 DEF IndInv, BootAlone, Tick
  <2>7. NewTaskReady'
    <3>1. ASSUME NEW t \in Task, mem'[t] = "new"
          PROVE  mem[t] = "new" /\ ctx = "link" /\ z = Nil /\ t # c
      BY <3>1, <2>1, <1>1, <1>3 DEF IndInv, NewTaskReady, BootAlone, Live, ListIsRing
    <3>2. ASSUME NEW t \in Task, mem'[t] = "new"
          PROVE  next'[t] = next[t] /\ rsp'[t] = rsp[t] /\ frames'[t] = frames[t]
      BY <3>1, <3>2, <1>5, <1>6, <1>12 DEF IndInv, TypeOK, Tick, Reaped
    <3>. QED
      BY <3>1, <3>2, <2>2 DEF IndInv, NewTaskReady
  <2>8. Cr3Safe'
    BY <2>1, <2>5, <1>4, <1>9, <1>13, SchedConstants
       DEF IndInv, Cr3Safe, LoadCr3, Cr3Of
  <2>9. ctx' \in Context /\ sp' \in Task \X Nat
    BY <2>1, <2>2, <1>1 DEF IndInv, TypeOK
  <2>. QED
    BY <2>4, <2>6, <2>7, <2>8, <2>9
<1>14. ASSUME s # c
       PROVE  /\ StacksOwned' /\ BootAlone' /\ NewTaskReady' /\ Cr3Safe'
              /\ ctx' \in Context /\ sp' \in Task \X Nat
  <2>1. ctx \notin {"boot", "link"}
    BY <1>1, <1>14 DEF IndInv, BootAlone
  <2>2. rsp'[s] = rsp[s] /\ rsp[s][1] = s /\ Resumable(s, rsp[s][2]) /\ frames'[s] = frames[s]
    BY <1>1, <1>5, <1>6, <1>7, <1>12, <1>14 DEF IndInv, StacksOwned
  <2>3. /\ s = Root => ctx' = "idle" /\ sp' = <<s, 0>>
        /\ s # Root => \/ ctx' = "user" /\ sp' = <<s, 0>>
                       \/ ctx' = "readkey" /\ sp' = <<s, 1>> /\ frames'[s][1] = "user"
    BY <2>2, <1>8 DEF Resumable
  <2>4. StacksOwned'
    <3>1. ASSUME NEW t \in Live \ {s}
          PROVE  (rsp[t][1] = t /\ Resumable(t, rsp[t][2]))'
      <4>1. CASE t = c
        <5>1. c = Root => ctx = "idle"
          BY <2>1 DEF IndInv, StacksOwned
        <5>. QED
          BY <4>1, <5>1, <1>5, <1>6, <1>7 DEF Resumable
      <4>2. CASE t # c
        <5>1. rsp'[t] = rsp[t] /\ frames'[t] = frames[t]
          BY <4>2, <1>1, <1>5, <1>6, <1>7
        <5>. QED
          BY <4>2, <5>1, <1>1 DEF IndInv, StacksOwned, Resumable
      <4>. QED
        BY <4>1, <4>2
    <3>2. rsp0'[1] = current_task' /\ sp'[1] = current_task'
      BY <2>3, <1>9
    <3>3. IF current_task' = Root
          THEN ctx' \in {"boot", "link", "idle"} /\ sp'[2] = 0
          ELSE \/ ctx' = "user"
               \/ ctx' = "readkey" /\ sp'[2] = 1 /\ frames'[current_task'][1] = "user"
      BY <2>3, <1>9
    <3>4. \A t \in Live' \ {current_task'} : (rsp[t][1] = t /\ Resumable(t, rsp[t][2]))'
      BY <3>1, <1>4, <1>9
    <3>. QED
      BY <3>2, <3>3, <3>4 DEF StacksOwned
  <2>5. BootAlone'
    BY <2>3 DEF BootAlone
  <2>6. NewTaskReady'
    BY <2>1, <1>1, <1>2, <1>3 DEF IndInv, NewTaskReady
  <2>7. Cr3Safe'
    <3>. SUFFICES ASSUME RootCr3 = Nil
                  PROVE  /\ cr3' # Junk
                         /\ current_task' # Root => cr3' = current_task'
                         /\ (cr3' \in Task /\ mem'[cr3'] = "free") => Live' = {Root}
      BY DEF Cr3Safe
    <3>1. CASE s = Root
      <4>1. cr3' = cr3
        BY <3>1, <1>9 DEF LoadCr3, Cr3Of
      <4>2. cr3 = c /\ mem[c] = "live" /\ c # z
        BY <3>1, <1>1, <1>2, <1>14 DEF IndInv, Cr3Safe, Live
      <4>. QED
        BY <3>1, <4>1, <4>2, <1>3, <1>9, <1>12, SchedConstants
    <3>2. CASE s # Root
      <4>1. cr3' = s
        BY <3>2, <1>1, <1>9 DEF LoadCr3, Cr3Of
      <4>2. mem[s] = "live" /\ s # z
        BY <1>1, <1>2 DEF Live
      <4>. QED
        BY <4>1, <4>2, <1>3, <1>9, <1>12, SchedConstants
    <3>. QED
      BY <3>1, <3>2
  <2>8. ctx' \in Context /\ sp' \in Task \X Nat
    BY <2>3, <1>12 DEF Context
  <2>. QED
    BY <2>4, <2>5, <2>6, <2>7, <2>8
<1>15. StacksOwned' /\ BootAlone' /\ NewTaskReady' /\ Cr3Safe'
       /\ ctx' \in Context /\ sp' \in Task \X Nat
  BY <1>13, <1>14
<1>16. TypeOK'
  <2>1. zombie_task' = Nil /\ task_head' = task_head /\ next_pid' = next_pid
    BY DEF Tick
  <2>2. cr3' \in Task \cup {KernelPml4, Junk}
    BY <1>9, <1>12, SchedConstants DEF IndInv, TypeOK, LoadCr3, Cr3Of
  <2>3. frames' \in [Task -> Stack] /\ rsp0' \in Task \X Nat /\ current_task' \in Task
    BY <1>5, <1>6, <1>9, <1>12
  <2>. QED
    BY <2>1, <2>2, <2>3, <1>3, <1>7, <1>10, <1>11, <1>15 DEF IndInv, TypeOK
<1>17. ListIsRing'
  <2>1. \A S \in SUBSET Live : Closed(S)' <=> Closed(S)
    BY <1>10 DEF Closed
  <2>2. task_head' = task_head /\ current_task' \in Live'
    BY <1>1, <1>4, <1>9 DEF Tick
  <2>. QED
    BY <2>1, <2>2, <1>4, <1>10 DEF IndInv, ListIsRing
<1>18. ZombieExited' /\ task_head' = Root
  BY DEF ZombieExited, Tick, IndInv
<1>19. PidsFresh'
  <2>1. \A t \in Task : mem'[t] # "free" => mem[t] # "free" /\ pid'[t] = pid[t]
    BY <1>1, <1>2, <1>3, <1>11
  <2>. QED
    BY <2>1 DEF IndInv, PidsFresh, Tick
<1>. QED
  BY <1>15, <1>16, <1>17, <1>18, <1>19 DEF IndInv

\* task_exit unlinks the running task and leaves it as the zombie.
LEMMA TaskExitInv ==
    ASSUME IndInv, TaskExit
    PROVE  IndInv'
<1>. DEFINE v == current_task
            s == next[current_task]
<1>1. /\ v \in Live /\ s \in Live /\ Live \subseteq Task /\ task_head = Root
      /\ Nil \notin Task /\ Root \in Live /\ v # Root /\ ctx = "user"
  BY SchedConstants DEF IndInv, ListIsRing, Live, StacksOwned, TaskExit
<1>2. PICK p \in Live : next[p] = v /\ next' = [next EXCEPT ![p] = next[v]]
  BY <1>1, WalkIsLive DEF IndInv, TaskExit, PrevOf, Unlinked
<1>3. mem' = [mem EXCEPT ![v] = "exited"] /\ task_head' = task_head /\ current_task' = s
  BY <1>1 DEF TaskExit
<1>4. ListIsRing' /\ p # v /\ s # v
  BY <1>1, <1>2, <1>3, UnlinkKeepsRing DEF IndInv
<1>5. Live' = Live \ {v} /\ v \in Task /\ s \in Task
  BY <1>1, <1>3 DEF IndInv, TypeOK, Live
<1>6. PICK d \in {1, 2} :
        /\ PushedFrames \in [Task -> Stack]
        /\ \A t \in Task \ {current_task} : PushedFrames[t] = frames[t]
  BY PushOnOwnStack DEF IndInv
<1>7. frames' = PushedFrames /\ rsp' = rsp
  BY DEF TaskExit, Resume
<1>8. rsp[s][1] = s /\ Resumable(s, rsp[s][2]) /\ frames'[s] = frames[s]
  BY <1>1, <1>4, <1>5, <1>6, <1>7 DEF IndInv, StacksOwned
<1>9. ctx' = frames'[rsp[s][1]][rsp[s][2]] /\ sp' = <<rsp[s][1], rsp[s][2] - 1>>
  BY <1>7 DEF TaskExit, Resume
<1>10. /\ s = Root => ctx' = "idle" /\ sp' = <<s, 0>>
       /\ s # Root => \/ ctx' = "user" /\ sp' = <<s, 0>>
                      \/ ctx' = "readkey" /\ sp' = <<s, 1>> /\ frames'[s][1] = "user"
  BY <1>8, <1>9 DEF Resumable
<1>11. rsp0' = <<s, 2>> /\ cr3' = LoadCr3(s)
  BY DEF TaskExit, ExitRsp0
<1>12. TypeOK'
  <2>1. next' \in [Task -> Task \cup {Nil}] /\ mem' \in [Task -> MemState]
    BY <1>2, <1>3, <1>5 DEF IndInv, TypeOK, MemState
  <2>2. cr3' \in Task \cup {KernelPml4, Junk}
    BY <1>11, <1>5, SchedConstants DEF IndInv, TypeOK, LoadCr3, Cr3Of
  <2>3. ctx' \in Context /\ sp' \in Task \X Nat /\ rsp0' \in Task \X Nat
    BY <1>5, <1>10, <1>11 DEF Context
  <2>. QED
    BY <2>1, <2>2, <2>3, <1>3, <1>5, <1>6, <1>7 DEF IndInv, TypeOK, TaskExit
<1>13. StacksOwned'
  <2>1. ASSUME NEW t \in Live \ {v, s}
        PROVE  (rsp[t][1] = t /\ Resumable(t, rsp[t][2]))'
    <3>1. rsp'[t] = rsp[t] /\ frames'[t] = frames[t]
      BY <1>1, <1>6, <1>7
    <3>. QED
      BY <3>1 DEF IndInv, StacksOwned, Resumable
  <2>2. \A t \in Live' \ {current_task'} : (rsp[t][1] = t /\ Resumable(t, rsp[t][2]))'
    BY <2>1, <1>3, <1>5
  <2>. QED
    BY <2>2, <1>3, <1>10, <1>11 DEF StacksOwned
<1>14. BootAlone'
  BY <1>10 DEF BootAlone
<1>15. NewTaskReady'
  BY <1>1, <1>3 DEF IndInv, TypeOK, NewTaskReady
<1>16. ZombieExited'
  BY <1>3, <1>5 DEF IndInv, TypeOK, ZombieExited, TaskExit
<1>17. PidsFresh'
  <2>1. \A t \in Task : mem'[t] # "free" => mem[t] # "free"
    BY <1>1, <1>3 DEF IndInv, TypeOK, Live
  <2>. QED
    BY <2>1 DEF IndInv, PidsFresh, TaskExit
<1>18. Cr3Safe'
  <2>. SUFFICES ASSUME RootCr3 = Nil
                PROVE  /\ cr3' # Junk
                       /\ current_task' # Root => cr3' = current_task'
                       /\ (cr3' \in Task /\ mem'[cr3'] = "free") => Live' = {Root}
    BY DEF Cr3Safe
  <2>1. CASE s = Root
    <3>1. cr3' = cr3 /\ cr3 = v
      BY <2>1, <1>1, <1>11 DEF IndInv, Cr3Safe, LoadCr3, Cr3Of
    <3>. QED
      BY <2>1, <3>1, <1>3, <1>5, SchedConstants DEF IndInv, TypeOK
  <2>2. CASE s # Root
    <3>1. cr3' = s
      BY <2>2, <1>1, <1>11 DEF LoadCr3, Cr3Of
    <3>2. mem'[s] = "live"
      BY <1>1, <1>3, <1>4 DEF IndInv, TypeOK, Live
    <3>. QED
      BY <3>1, <3>2, <1>3, <1>5, SchedConstants
  <2>. QED
    BY <2>1, <2>2
<1>. QED
  BY <1>1, <1>3, <1>4, <1>12, <1>13, <1>14, <1>15, <1>16, <1>17, <1>18 DEF IndInv

\* Every entry into the kernel keeps the invariant.
LEMMA NextInv == IndInv /\ [Next]_vars => IndInv'
<1>. SUFFICES ASSUME IndInv, [Next]_vars
              PROVE  IndInv'
  OBVIOUS
<1>1. CASE \E t \in Task : BootAllocate(t) \/ BootLink(t) \/ Exec(t)
  BY <1>1, BootAllocateInv, BootLinkInv, ExecInv
<1>2. CASE BootFail
  BY <1>2, BootFailInv
<1>3. CASE ReadKeyEnter
  BY <1>3, ReadKeyEnterInv
<1>4. CASE ReadKeyReturn
  BY <1>4, ReadKeyReturnInv
<1>5. CASE Tick
  BY <1>5, TickInv
<1>6. CASE TaskExit
  BY <1>6, TaskExitInv
<1>7. CASE UNCHANGED vars
  <2>1. ListIsRing' /\ Live' = Live /\ ZombieExited' /\ PidsFresh' /\ Cr3Safe'
    BY <1>7, ListUnchanged DEF vars, listVars
  <2>2. TypeOK' /\ task_head' = Root
    BY <1>7 DEF IndInv, vars, TypeOK
  <2>3. StacksOwned'
    BY <1>7, <2>1 DEF IndInv, vars, StacksOwned, Resumable
  <2>4. BootAlone' /\ NewTaskReady'
    BY <1>7, <2>1 DEF IndInv, vars, BootAlone, NewTaskReady
  <2>. QED
    BY <2>1, <2>2, <2>3, <2>4 DEF IndInv
<1>. QED
  BY <1>1, <1>2, <1>3, <1>4, <1>5, <1>6, <1>7 DEF Next

\* Every reachable state satisfies the invariant.
LEMMA Invariance == Spec => []IndInv
  BY InitInv, NextInv, PTL DEF Spec

-----------------------------------------------------------------------------

\* Every variable keeps its type.
THEOREM TypeCorrect == Spec => []TypeOK
  BY Invariance, PTL DEF IndInv

\* For any number of processes, ticks, exec and exit keep the task list one
\* ring of exactly the live tasks.
THEOREM RingTheorem == Spec => []ListIsRing
  BY Invariance, PTL DEF IndInv

\* No switch of scheduler_schedule or task_exit resumes a foreign or a stale
\* frame, and a process enters the kernel on its own stack.
THEOREM StacksTheorem == Spec => []StacksOwned
  BY Invariance, PTL DEF IndInv

\* No process runs on foreign or freed page tables, given that the root task's
\* uninitialised cr3 field is 0.
THEOREM Cr3Theorem == Spec => []Cr3Safe
  BY Invariance, PTL DEF IndInv

\* task_exit never reaches its "Corrupt task list" panic.
THEOREM ExitTheorem == Spec => []ExitFindsPrev
<1>1. IndInv => ExitFindsPrev
  <2>. SUFFICES ASSUME IndInv, ctx = "user"
                PROVE  \E p \in PrevOf(current_task) : p # current_task
    BY DEF ExitFindsPrev
  <2>1. current_task \in Live /\ task_head \in Live /\ current_task # task_head
    BY DEF IndInv, ListIsRing, StacksOwned
  <2>2. PICK p \in Live : next[p] = current_task
    BY <2>1, HasPrev DEF IndInv
  <2>3. p # current_task
    BY <2>1, <2>2, SelfNext DEF IndInv
  <2>. QED
    BY <2>1, <2>2, <2>3, WalkIsLive DEF IndInv, PrevOf
<1>. QED
  BY <1>1, Invariance, PTL

\* get_task_by_pid finds exactly the task a pid was given to.
THEOREM PidTheorem == Spec => []PidNamesTask
<1>1. IndInv => PidNamesTask
  <2>. SUFFICES ASSUME IndInv, NEW t \in Live
                PROVE  TasksWithPid(pid[t]) = {t}
    BY DEF PidNamesTask
  <2>1. Walk(task_head) = Live
    BY WalkIsLive DEF IndInv, ListIsRing
  <2>2. \A u \in Live : u \in Task /\ mem[u] # "free"
    BY DEF Live
  <2>. QED
    BY <2>1, <2>2 DEF IndInv, TasksWithPid, PidsFresh
<1>. QED
  BY <1>1, Invariance, PTL

\* What the next tick frees is on no list, on no CPU and in no TSS.
THEOREM ZombieTheorem == Spec => []ZombieDetached
<1>1. IndInv => ZombieDetached
  <2>. SUFFICES ASSUME IndInv, zombie_task # Nil
                PROVE  /\ mem[zombie_task] = "exited"
                       /\ zombie_task \notin Walk(task_head) \cup {current_task, rsp0[1], sp[1]}
    BY DEF ZombieDetached
  <2>1. Walk(task_head) = Live /\ current_task \in Live
    BY WalkIsLive DEF IndInv, ListIsRing
  <2>2. zombie_task \notin Live /\ mem[zombie_task] = "exited"
    BY DEF IndInv, ZombieExited, Live
  <2>. QED
    BY <2>1, <2>2 DEF IndInv, StacksOwned
<1>. QED
  BY <1>1, Invariance, PTL

-----------------------------------------------------------------------------
(***************************************************************************)
(* The queue that the list stands for: module RoundRobin.                  *)
(***************************************************************************)

\* q is the ring of the tasks in L, read from c on along nx.
InTurn(q, L, c, nx) ==
    /\ q \in Seq(L) /\ Len(q) > 0
    /\ \A i, j \in 1 .. Len(q) : q[i] = q[j] => i = j
    /\ \A t \in L : \E i \in 1 .. Len(q) : q[i] = t
    /\ q[1] = c
    /\ \A i \in 1 .. Len(q) - 1 : nx[q[i]] = q[i + 1]
    /\ nx[q[Len(q)]] = c

\* There is such a queue, with as many members as there are live tasks.
QueueOf(q) ==
    /\ IsFiniteSet(Live)
    /\ InTurn(q, Live, current_task, next)
    /\ Len(q) = Cardinality(Live)

QueueInv == \E q : QueueOf(q)

\* A set of naturals that is not empty has a least element.
LEMMA LeastNat ==
    ASSUME NEW T, T \subseteq Nat, T # {}
    PROVE  \E x \in T : \A y \in T : x <= y
<1>1. PICK x \in T : \A y \in T : ~ (<<y, x>> \in OpToRel(<, Nat))
  BY NatLessThanWellFounded, WFMin
<1>2. \A y \in T : ~ (y < x)
  BY <1>1 DEF OpToRel
<1> QED
  BY <1>2

\* The tasks that are met are those of the queue.
LEMMA FollowIs ==
    ASSUME NEW L, Nil \notin L, NEW c, NEW nx, NEW q, InTurn(q, L, c, nx)
    PROVE  Follow(c, nx, Len(q)) = q
<1>1. PICK n \in Nat : n = Len(q)
  BY DEF InTurn
<1>2. /\ n > 0 /\ q \in [1 .. n -> L] /\ q[1] = c
      /\ \A i \in 1 .. n - 1 : nx[q[i]] = q[i + 1]
  BY <1>1 DEF InTurn
<1> DEFINE Val(f, i) == IF i = 1 THEN c ELSE IF f[i - 1] = Nil THEN Nil ELSE nx[f[i - 1]]
           Is(f) == f = [i \in 1 .. n |-> Val(f, i)]
           Hop == CHOOSE f : Is(f)
<1>3. Is(q)
  <2>1. ASSUME NEW i \in 1 .. n  PROVE q[i] = Val(q, i)
    <3>1. CASE i = 1
      BY <1>2, <3>1
    <3>2. CASE i # 1
      <4>1. i - 1 \in 1 .. n - 1 /\ i - 1 \in 1 .. n /\ (i - 1) + 1 = i
        BY <3>2
      <4>2. nx[q[i - 1]] = q[i] /\ q[i - 1] # Nil
        BY <1>2, <4>1
      <4> QED
        BY <3>2, <4>2
    <3> QED
      BY <3>1, <3>2
  <2> HIDE DEF Val
  <2>2. q = [i \in 1 .. n |-> q[i]]
    BY <1>2
  <2> QED
    BY <2>1, <2>2
<1>4. Is(Hop)
  <2> HIDE DEF Is
  <2> QED
    BY <1>3
<1>5. Follow(c, nx, n) = Hop
  BY Zenon DEF Follow
<1>6. PICK f : f = Hop
  OBVIOUS
<1> HIDE DEF Hop
<1>7. f = [i \in 1 .. n |-> Val(f, i)]
  BY <1>4, <1>6
<1>8. ASSUME NEW k \in 1 .. n, f[k] # q[k]  PROVE FALSE
  <2> DEFINE T == {i \in 1 .. n : f[i] # q[i]}
  <2>1. T \subseteq Nat /\ T # {}
    BY <1>8
  <2>2. PICK x \in T : \A y \in T : x <= y
    BY <2>1, LeastNat, Zenon
  <2>3. x \in 1 .. n /\ f[x] # q[x]
    BY <2>2
  <2>4. f[x] = Val(f, x) /\ q[x] = Val(q, x)
    BY <1>3, <1>7, <2>3
  <2>5. x # 1
    BY <2>3, <2>4
  <2>6. x - 1 \in 1 .. n /\ ~ (x <= x - 1)
    BY <2>3, <2>5
  <2>7. f[x - 1] = q[x - 1]
    BY <2>2, <2>6
  <2> QED
    BY <2>3, <2>4, <2>7
<1>9. DOMAIN f = 1 .. n
  BY <1>7
<1>10. f = q
  BY <1>2, <1>7, <1>8, <1>9
<1> QED
  BY <1>1, <1>5, <1>6, <1>10

\* Only the next pointers of the members matter.
LEMMA SameTurn ==
    ASSUME NEW L, NEW c, NEW nx, NEW q, InTurn(q, L, c, nx), NEW mx, \A t \in L : mx[t] = nx[t]
    PROVE  InTurn(q, L, c, mx)
<1>1. PICK n \in Nat : n = Len(q)
  BY DEF InTurn
<1>2. n > 0 /\ \A i \in 1 .. n : q[i] \in L
  BY <1>1 DEF InTurn
<1>3. mx[q[n]] = nx[q[n]] /\ \A i \in 1 .. n - 1 : mx[q[i]] = nx[q[i]]
  BY <1>2
<1> QED
  BY <1>1, <1>3 DEF InTurn

\* The queue after the next task has been switched to.
LEMMA RotateIs ==
    ASSUME NEW L, NEW c, NEW nx, NEW q, InTurn(q, L, c, nx)
    PROVE  /\ InTurn(Append(Tail(q), Head(q)), L, nx[c], nx)
           /\ Len(Append(Tail(q), Head(q))) = Len(q)
<1>1. PICK n \in Nat \ {0} : n = Len(q)
  BY DEF InTurn
<1>2. /\ q \in Seq(L) /\ q \in [1 .. n -> L] /\ q[1] = c /\ nx[q[n]] = c
      /\ \A i, j \in 1 .. n : q[i] = q[j] => i = j
      /\ \A t \in L : \E i \in 1 .. n : q[i] = t
      /\ \A i \in 1 .. n - 1 : nx[q[i]] = q[i + 1]
  BY <1>1 DEF InTurn
<1>3. PICK r : r = Append(Tail(q), Head(q))
  OBVIOUS
<1>4. PICK p : p = [i \in 1 .. n |-> IF i = n THEN q[1] ELSE q[i + 1]]
  OBVIOUS
<1>5. r = p /\ Len(r) = n
  <2>1. Tail(q) \in Seq(L) /\ Len(Tail(q)) = n - 1 /\ \A i \in 1 .. n - 1 : Tail(q)[i] = q[i + 1]
    BY <1>1, <1>2
  <2>2. Head(q) = q[1] /\ q[1] \in L
    BY <1>1, <1>2
  <2>3. r \in Seq(L) /\ Len(r) = n
    BY <1>3, <2>1, <2>2
  <2>4. \A i \in 1 .. n : r[i] = IF i = n THEN q[1] ELSE q[i + 1]
    BY <1>3, <2>1, <2>2
  <2>5. DOMAIN r = 1 .. n /\ r = [i \in 1 .. n |-> r[i]]
    BY <2>3
  <2> QED
    BY <1>4, <2>3, <2>4, <2>5
<1>6. p \in [1 .. n -> L] /\ p[n] = q[1] /\ \A i \in 1 .. n - 1 : p[i] = q[i + 1]
  <2>1. \A i \in 1 .. n : i # n => i + 1 \in 1 .. n
    OBVIOUS
  <2>2. 1 \in 1 .. n /\ n \in 1 .. n
    OBVIOUS
  <2>3. p \in [1 .. n -> L]
    BY <1>2, <1>4, <2>1, <2>2
  <2> QED
    BY <1>4, <2>3, <2>2
<1>7. ASSUME NEW i \in 1 .. n, NEW j \in 1 .. n, p[i] = p[j]  PROVE i = j
  <2>1. \A x, y \in 1 .. n : q[x] = q[y] => x = y
    BY <1>2
  <2>2. ASSUME NEW x \in 1 .. n, x # n  PROVE p[x] = q[x + 1] /\ x + 1 \in 1 .. n /\ x + 1 # 1
    <3>1. x \in 1 .. n - 1 /\ x + 1 \in 1 .. n /\ x + 1 # 1
      BY <2>2
    <3> QED
      BY <1>6, <3>1
  <2>3. p[n] = q[1] /\ 1 \in 1 .. n
    BY <1>6
  <2>4. CASE i = n
    BY <1>7, <2>1, <2>2, <2>3, <2>4
  <2>5. CASE j = n
    BY <1>7, <2>1, <2>2, <2>3, <2>5
  <2>6. CASE i # n /\ j # n
    <3>1. i + 1 = j + 1
      BY <1>7, <2>1, <2>2, <2>6
    <3> QED
      BY <3>1
  <2> QED
    BY <2>4, <2>5, <2>6
<1>8. ASSUME NEW t \in L  PROVE \E i \in 1 .. n : p[i] = t
  <2>1. PICK k \in 1 .. n : q[k] = t
    BY <1>2
  <2>2. CASE k = 1
    <3>1. n \in 1 .. n
      OBVIOUS
    <3> QED
      BY <1>6, <2>1, <2>2, <3>1
  <2>3. CASE k # 1
    <3>1. k - 1 \in 1 .. n - 1 /\ k - 1 \in 1 .. n /\ (k - 1) + 1 = k
      BY <2>3
    <3> QED
      BY <1>6, <2>1, <3>1
  <2> QED
    BY <2>2, <2>3
<1>9. p[1] = nx[c]
  <2>1. CASE n = 1
    BY <1>2, <1>6, <2>1
  <2>2. CASE n # 1
    <3>1. 1 \in 1 .. n - 1
      BY <2>2
    <3> QED
      BY <1>2, <1>6, <3>1
  <2> QED
    BY <2>1, <2>2
<1>10. ASSUME NEW i \in 1 .. n - 1  PROVE nx[p[i]] = p[i + 1]
  <2>1. p[i] = q[i + 1] /\ i + 1 \in 1 .. n
    BY <1>6
  <2>2. CASE i + 1 = n
    BY <1>2, <1>6, <2>1, <2>2
  <2>3. CASE i + 1 # n
    <3>1. i + 1 \in 1 .. n - 1
      BY <2>3
    <3> QED
      BY <1>2, <1>6, <2>1, <3>1
  <2> QED
    BY <2>2, <2>3
<1>11. nx[p[n]] = nx[c]
  BY <1>2, <1>6
<1>12. InTurn(p, L, nx[c], nx)
  <2>1. PICK d : d = nx[c]
    OBVIOUS
  <2>2. p[1] = d /\ nx[p[n]] = d
    BY <1>9, <1>11, <2>1
  <2>3. p \in Seq(L) /\ Len(p) = n /\ n > 0
    BY <1>6
  <2>4. /\ \A i, j \in 1 .. n : p[i] = p[j] => i = j
        /\ \A t \in L : \E i \in 1 .. n : p[i] = t
        /\ \A i \in 1 .. n - 1 : nx[p[i]] = p[i + 1]
    BY <1>7, <1>8, <1>10
  <2>5. InTurn(p, L, d, nx)
    BY <2>2, <2>3, <2>4, Zenon DEF InTurn
  <2> QED
    BY <2>1, <2>5
<1> QED
  BY <1>1, <1>3, <1>5, <1>12

\* mx is nx with c taken out of the ring L, behind b.
TakesOut(L, b, c, nx, mx) ==
    b \in L /\ nx[b] = c /\ mx[b] = nx[c] /\ \A t \in L \ {b} : mx[t] = nx[t]

\* The queue after its first member has left.
LEMMA LeaveIs ==
    ASSUME NEW L, NEW c, NEW nx, NEW q, InTurn(q, L, c, nx), Len(q) > 1,
           NEW b, NEW mx, TakesOut(L, b, c, nx, mx)
    PROVE  InTurn(Tail(q), L \ {c}, nx[c], mx) /\ Len(Tail(q)) = Len(q) - 1
<1>0. b \in L /\ nx[b] = c /\ mx[b] = nx[c] /\ \A t \in L \ {b} : mx[t] = nx[t]
  BY DEF TakesOut
<1>1. PICK n \in Nat \ {0} : n + 1 = Len(q)
  <2>1. PICK m \in Nat : m = Len(q)
    BY DEF InTurn
  <2>2. m > 1
    BY <2>1
  <2>3. m - 1 \in Nat \ {0} /\ (m - 1) + 1 = m
    BY <2>2
  <2> QED
    BY <2>1, <2>3
<1>2. /\ q \in Seq(L) /\ q \in [1 .. n + 1 -> L] /\ q[1] = c /\ nx[q[n + 1]] = c
      /\ \A i, j \in 1 .. n + 1 : q[i] = q[j] => i = j
      /\ \A t \in L : \E i \in 1 .. n + 1 : q[i] = t
      /\ \A i \in 1 .. n : nx[q[i]] = q[i + 1]
  <2>1. (n + 1) - 1 = n
    OBVIOUS
  <2> QED
    BY <1>1, <2>1 DEF InTurn
<1>3. PICK p : p = Tail(q)
  OBVIOUS
<1>4. p \in Seq(L) /\ Len(p) = n /\ \A i \in 1 .. n : p[i] = q[i + 1]
  BY <1>1, <1>2, <1>3
<1>5. \A i \in 1 .. n : i \in 1 .. n + 1 /\ i + 1 \in 1 .. n + 1 /\ i + 1 # 1
  OBVIOUS
<1>6. 1 \in 1 .. n /\ n \in 1 .. n /\ 1 \in 1 .. n + 1 /\ n + 1 \in 1 .. n + 1
  OBVIOUS
<1>7. \A i \in 1 .. n : p[i] \in L \ {c}
  BY <1>2, <1>4, <1>5, <1>6
<1>8. p \in Seq(L \ {c})
  <2>1. p \in [1 .. n -> L \ {c}]
    BY <1>4, <1>7
  <2> QED
    BY <2>1
<1>9. ASSUME NEW i \in 1 .. n, NEW j \in 1 .. n, p[i] = p[j]  PROVE i = j
  <2>1. q[i + 1] = q[j + 1] /\ i + 1 \in 1 .. n + 1 /\ j + 1 \in 1 .. n + 1
    BY <1>4, <1>9
  <2>2. i + 1 = j + 1
    BY <1>2, <2>1
  <2> QED
    BY <2>2
<1>10. ASSUME NEW t \in L \ {c}  PROVE \E i \in 1 .. n : p[i] = t
  <2>1. PICK k \in 1 .. n + 1 : q[k] = t
    BY <1>2
  <2>2. k # 1
    BY <1>2, <2>1
  <2>3. k - 1 \in 1 .. n /\ (k - 1) + 1 = k
    BY <2>2
  <2> QED
    BY <1>4, <2>1, <2>3
<1>11. b = q[n + 1]
  <2>1. PICK k \in 1 .. n + 1 : q[k] = b
    BY <1>0, <1>2
  <2>2. CASE k = n + 1
    BY <2>1, <2>2
  <2>3. CASE k # n + 1
    <3>1. k \in 1 .. n
      BY <2>3
    <3>2. q[k + 1] = q[1] /\ k + 1 \in 1 .. n + 1
      BY <1>0, <1>2, <2>1, <3>1
    <3>3. k + 1 = 1
      BY <1>2, <1>6, <3>2
    <3> QED
      BY <3>1, <3>3
  <2> QED
    BY <2>2, <2>3
<1>12. p[1] = nx[c]
  BY <1>2, <1>4, <1>6
<1>13. mx[p[n]] = nx[c]
  BY <1>0, <1>4, <1>6, <1>11
<1>14. ASSUME NEW i \in 1 .. n - 1  PROVE mx[p[i]] = p[i + 1]
  <2>1. i \in 1 .. n /\ i + 1 \in 1 .. n /\ i + 1 \in 1 .. n + 1 /\ i + 1 # n + 1
    OBVIOUS
  <2>2. p[i] = q[i + 1] /\ p[i + 1] = q[(i + 1) + 1] /\ nx[q[i + 1]] = q[(i + 1) + 1]
    BY <1>2, <1>4, <2>1
  <2>3. q[i + 1] # b /\ q[i + 1] \in L
    BY <1>2, <1>6, <1>11, <2>1
  <2> QED
    BY <1>0, <2>2, <2>3
<1>15. InTurn(p, L \ {c}, nx[c], mx)
  <2>1. PICK d, M : d = nx[c] /\ M = L \ {c}
    OBVIOUS
  <2>2. p[1] = d /\ mx[p[n]] = d
    BY <1>12, <1>13, <2>1
  <2>3. p \in Seq(M) /\ Len(p) = n /\ n > 0
    BY <1>4, <1>8, <2>1
  <2>4. /\ \A i, j \in 1 .. n : p[i] = p[j] => i = j
        /\ \A t \in M : \E i \in 1 .. n : p[i] = t
        /\ \A i \in 1 .. n - 1 : mx[p[i]] = p[i + 1]
    BY <1>9, <1>10, <1>14, <2>1
  <2>5. InTurn(p, M, d, mx)
    BY <2>2, <2>3, <2>4, Zenon DEF InTurn
  <2> QED
    BY <2>1, <2>5
<1>16. Len(p) = Len(q) - 1
  BY <1>1, <1>4
<1> QED
  BY <1>3, <1>15, <1>16

\* A sequence with a new member behind place i.
Inserted(q, i, t) == SubSeq(q, 1, (i + 1) - 1) \o <<t>> \o SubSeq(q, i + 1, Len(q))

\* What its members are.
Behind(r, q, i, t) ==
    /\ Len(r) = Len(q) + 1
    /\ \A k \in 1 .. i : r[k] = q[k]
    /\ r[i + 1] = t
    /\ \A k \in i + 1 .. Len(q) : r[k + 1] = q[k]

\* It has these members.
LEMMA InsertIs ==
    ASSUME NEW L, NEW q \in Seq(L), NEW i \in 1 .. Len(q), NEW t,
           NEW r, r = Inserted(q, i, t)
    PROVE  r \in Seq(L \cup {t}) /\ Behind(r, q, i, t)
<1>1. PICK n \in Nat : n = Len(q)
  OBVIOUS
<1>2. PICK u, v, w : u = SubSeq(q, 1, i) /\ v = <<t>> /\ w = SubSeq(q, i + 1, n)
  OBVIOUS
<1>3. (i + 1) - 1 = i
  OBVIOUS
<1>4. r = u \o v \o w
  BY <1>1, <1>2, <1>3 DEF Inserted
<1>5. u \in Seq(L) /\ Len(u) = i /\ \A k \in 1 .. i : u[k] = q[k]
  BY <1>1, <1>2
<1>6. w \in Seq(L) /\ Len(w) = n - i /\ \A k \in 1 .. n - i : w[k] = q[i + k]
  BY <1>1, <1>2
<1>7. v \in Seq({t}) /\ Len(v) = 1 /\ v[1] = t
  BY <1>2
<1>8. PICK M : M = L \cup {t}
  OBVIOUS
<1>9. u \in Seq(M) /\ v \in Seq(M) /\ w \in Seq(M)
  BY <1>5, <1>6, <1>7, <1>8
<1>10. PICK x : x = u \o v
  OBVIOUS
<1>11. x \in Seq(M) /\ Len(x) = i + 1 /\ x[i + 1] = t /\ \A k \in 1 .. i : x[k] = q[k]
  <2>1. /\ x \in Seq(M) /\ Len(x) = Len(u) + Len(v)
        /\ \A k \in 1 .. Len(u) + Len(v) : x[k] = IF k <= Len(u) THEN u[k] ELSE v[k - Len(u)]
    BY <1>9, <1>10, ConcatProperties
  <2>2. \A k \in 1 .. i + 1 : x[k] = IF k <= i THEN u[k] ELSE v[k - i]
    BY <1>5, <1>7, <2>1
  <2>3. i + 1 \in 1 .. i + 1 /\ (i + 1) - i = 1 /\ ~ (i + 1 <= i)
    OBVIOUS
  <2>4. x[i + 1] = t
    BY <1>7, <2>2, <2>3
  <2>5. \A k \in 1 .. i : x[k] = q[k]
    <3>1. \A k \in 1 .. i : k \in 1 .. i + 1 /\ k <= i
      OBVIOUS
    <3> QED
      BY <1>5, <2>2, <3>1
  <2> QED
    BY <1>5, <1>7, <2>1, <2>4, <2>5
<1>12. r \in Seq(M) /\ Len(r) = n + 1
       /\ \A k \in 1 .. n + 1 : r[k] = IF k <= i + 1 THEN x[k] ELSE w[k - (i + 1)]
  <2>1. r = x \o w
    BY <1>4, <1>10
  <2>2. /\ r \in Seq(M) /\ Len(r) = Len(x) + Len(w)
        /\ \A k \in 1 .. Len(x) + Len(w) : r[k] = IF k <= Len(x) THEN x[k] ELSE w[k - Len(x)]
    <3>1. x \in Seq(M) /\ w \in Seq(M)
      BY <1>9, <1>11
    <3> QED
      BY <2>1, <3>1, ConcatProperties
  <2>3. (i + 1) + (n - i) = n + 1
    OBVIOUS
  <2> QED
    BY <1>6, <1>11, <2>2, <2>3
<1>13. r[i + 1] = t /\ \A k \in 1 .. i : r[k] = q[k]
  <2>1. i + 1 \in 1 .. n + 1 /\ \A k \in 1 .. i : k \in 1 .. n + 1 /\ k <= i + 1
    BY <1>1
  <2> QED
    BY <1>11, <1>12, <2>1
<1>14. ASSUME NEW k \in i + 1 .. n  PROVE r[k + 1] = q[k]
  <2>1. k - i \in 1 .. n - i /\ k + 1 \in 1 .. n + 1 /\ k + 1 > i + 1 /\ (k + 1) - (i + 1) = k - i
        /\ i + (k - i) = k
    BY <1>1
  <2>2. r[k + 1] = w[(k + 1) - (i + 1)]
    BY <1>12, <2>1
  <2> QED
    BY <1>6, <2>1, <2>2
<1> QED
  BY <1>1, <1>8, <1>12, <1>13, <1>14 DEF Behind

\* mx is nx with t put into the ring L behind h.
PutsIn(L, h, t, nx, mx) ==
    t \notin L /\ mx[t] = nx[h] /\ mx[h] = t /\ \A u \in L \ {h} : mx[u] = nx[u]

\* The queue after a task has been linked behind h.
LEMMA JoinIs ==
    ASSUME NEW L, NEW c, NEW nx, NEW q, InTurn(q, L, c, nx), NEW i \in 1 .. Len(q),
           NEW h, q[i] = h, NEW t, NEW mx, PutsIn(L, h, t, nx, mx), NEW r, r = Inserted(q, i, t)
    PROVE  InTurn(r, L \cup {t}, c, mx) /\ Len(r) = Len(q) + 1
<1>0. t \notin L /\ mx[t] = nx[h] /\ mx[h] = t /\ \A u \in L \ {h} : mx[u] = nx[u]
  BY DEF PutsIn
<1>1. PICK n \in Nat \ {0} : n = Len(q)
  BY DEF InTurn
<1>2. /\ q \in Seq(L) /\ q \in [1 .. n -> L] /\ q[1] = c /\ nx[q[n]] = c
      /\ \A k, m \in 1 .. n : q[k] = q[m] => k = m
      /\ \A u \in L : \E k \in 1 .. n : q[k] = u
      /\ \A k \in 1 .. n - 1 : nx[q[k]] = q[k + 1]
  BY <1>1 DEF InTurn
<1>3. i \in 1 .. n
  BY <1>1
<1>4. /\ r \in Seq(L \cup {t}) /\ Len(r) = n + 1
      /\ \A k \in 1 .. i : r[k] = q[k]
      /\ r[i + 1] = t
      /\ \A k \in i + 1 .. n : r[k + 1] = q[k]
  <2>1. r \in Seq(L \cup {t}) /\ Behind(r, q, i, t)
    <3>1. q \in Seq(L)
      BY <1>2
    <3> QED
      BY <3>1, InsertIs
  <2> QED
    BY <1>1, <2>1 DEF Behind
<1>5. ASSUME NEW k \in 1 .. n + 1
      PROVE  \/ k <= i /\ k \in 1 .. n /\ r[k] = q[k]
             \/ k = i + 1 /\ r[k] = t
             \/ k > i + 1 /\ k - 1 \in 1 .. n /\ k - 1 \in i + 1 .. n /\ r[k] = q[k - 1]
  <2>1. CASE k <= i
    BY <1>3, <1>4, <2>1
  <2>2. CASE k = i + 1
    BY <1>4, <2>2
  <2>3. CASE k > i + 1
    <3>1. k - 1 \in 1 .. n /\ k - 1 \in i + 1 .. n /\ (k - 1) + 1 = k
      BY <1>3, <2>3
    <3>2. r[(k - 1) + 1] = q[k - 1]
      BY <1>4, <3>1
    <3> QED
      BY <2>3, <3>1, <3>2
  <2> QED
    BY <1>3, <2>1, <2>2, <2>3
<1>6. ASSUME NEW k \in 1 .. n + 1, NEW m \in 1 .. n + 1, r[k] = r[m]  PROVE k = m
  <2>1. /\ \/ k <= i /\ k \in 1 .. n /\ r[k] = q[k]
           \/ k = i + 1 /\ r[k] = t
           \/ k > i + 1 /\ k - 1 \in 1 .. n /\ r[k] = q[k - 1]
        /\ \/ m <= i /\ m \in 1 .. n /\ r[m] = q[m]
           \/ m = i + 1 /\ r[m] = t
           \/ m > i + 1 /\ m - 1 \in 1 .. n /\ r[m] = q[m - 1]
    BY <1>5
  <2>2. \A x \in 1 .. n : q[x] # t
    BY <1>0, <1>2
  <2>3. CASE k = i + 1
    BY <1>3, <1>4, <1>6, <2>1, <2>2, <2>3
  <2>4. CASE m = i + 1
    BY <1>3, <1>4, <1>6, <2>1, <2>2, <2>4
  <2>5. CASE k <= i /\ m <= i
    BY <1>2, <1>3, <1>6, <2>1, <2>5
  <2>6. CASE k > i + 1 /\ m > i + 1
    <3>1. q[k - 1] = q[m - 1] /\ k - 1 \in 1 .. n /\ m - 1 \in 1 .. n
      BY <1>3, <1>6, <2>1, <2>6
    <3>2. k - 1 = m - 1
      BY <1>2, <3>1
    <3> QED
      BY <3>2
  <2>7. CASE k <= i /\ m > i + 1
    <3>1. q[k] = q[m - 1] /\ k \in 1 .. n /\ m - 1 \in 1 .. n
      BY <1>3, <1>6, <2>1, <2>7
    <3>2. k = m - 1
      BY <1>2, <3>1
    <3> QED
      BY <1>3, <2>7, <3>2
  <2>8. CASE m <= i /\ k > i + 1
    <3>1. q[m] = q[k - 1] /\ m \in 1 .. n /\ k - 1 \in 1 .. n
      BY <1>3, <1>6, <2>1, <2>8
    <3>2. m = k - 1
      BY <1>2, <3>1
    <3> QED
      BY <1>3, <2>8, <3>2
  <2> QED
    BY <1>3, <2>3, <2>4, <2>5, <2>6, <2>7, <2>8
<1>7. ASSUME NEW u \in L \cup {t}  PROVE \E k \in 1 .. n + 1 : r[k] = u
  <2>1. CASE u = t
    <3>1. i + 1 \in 1 .. n + 1
      BY <1>3
    <3> QED
      BY <1>4, <2>1, <3>1
  <2>2. CASE u \in L
    <3>1. PICK k \in 1 .. n : q[k] = u
      BY <1>2, <2>2
    <3>2. CASE k <= i
      <4>1. k \in 1 .. i /\ k \in 1 .. n + 1
        BY <1>3, <3>2
      <4> QED
        BY <1>4, <3>1, <4>1
    <3>3. CASE ~ k <= i
      <4>1. k \in i + 1 .. n /\ k + 1 \in 1 .. n + 1
        BY <1>3, <3>3
      <4> QED
        BY <1>4, <3>1, <4>1
    <3> QED
      BY <3>2, <3>3
  <2> QED
    BY <2>1, <2>2
<1>8. ASSUME NEW x \in 1 .. n, x # i  PROVE mx[q[x]] = nx[q[x]]
  <2>1. q[x] # h /\ q[x] \in L
    BY <1>2, <1>3, <1>8
  <2> QED
    BY <1>0, <2>1
<1>9. ASSUME NEW k \in 1 .. n  PROVE mx[r[k]] = r[k + 1]
  <2>1. CASE k < i
    <3>1. /\ k \in 1 .. i /\ k + 1 \in 1 .. i /\ k \in 1 .. n - 1 /\ k # i
      BY <1>3, <2>1
    <3>2. r[k] = q[k] /\ r[k + 1] = q[k + 1] /\ mx[q[k]] = nx[q[k]] /\ nx[q[k]] = q[k + 1]
      BY <1>2, <1>4, <1>8, <3>1
    <3> QED
      BY <3>2
  <2>2. CASE k = i
    <3>1. i \in 1 .. i
      BY <1>3
    <3>2. r[i] = h
      BY <1>4, <3>1
    <3> QED
      BY <1>0, <1>4, <2>2, <3>2
  <2>3. CASE k = i + 1
    <3>1. i \in 1 .. n - 1 /\ i + 1 \in i + 1 .. n
      BY <1>3, <2>3
    <3>2. r[i + 1] = t /\ r[(i + 1) + 1] = q[i + 1] /\ nx[q[i]] = q[i + 1]
      BY <1>2, <1>4, <3>1
    <3> QED
      BY <1>0, <2>3, <3>2
  <2>4. CASE k > i + 1
    <3>1. /\ k - 1 \in i + 1 .. n /\ (k - 1) + 1 = k /\ k \in i + 1 .. n
          /\ k - 1 \in 1 .. n - 1 /\ k - 1 \in 1 .. n /\ k - 1 # i
      BY <1>3, <2>4
    <3>2. r[(k - 1) + 1] = q[k - 1] /\ r[k + 1] = q[k]
      BY <1>4, <3>1
    <3>3. nx[q[k - 1]] = q[(k - 1) + 1] /\ mx[q[k - 1]] = nx[q[k - 1]]
      BY <1>2, <1>8, <3>1
    <3> QED
      BY <3>1, <3>2, <3>3
  <2> QED
    BY <1>3, <2>1, <2>2, <2>3, <2>4
<1>10. mx[r[n + 1]] = c
  <2>1. CASE i = n
    BY <1>0, <1>2, <1>4, <2>1
  <2>2. CASE i # n
    <3>1. n \in i + 1 .. n /\ n \in 1 .. n
      BY <1>3, <2>2
    <3> QED
      BY <1>2, <1>4, <1>8, <2>2, <3>1
  <2> QED
    BY <2>1, <2>2
<1>11. r[1] = c
  <2>1. 1 \in 1 .. i
    BY <1>3
  <2> QED
    BY <1>2, <1>4, <2>1
<1>12. InTurn(r, L \cup {t}, c, mx)
  <2>1. PICK M : M = L \cup {t}
    OBVIOUS
  <2>2. PICK m \in Nat : m = n + 1
    OBVIOUS
  <2>3. r \in Seq(M) /\ Len(r) = m /\ m > 0 /\ m - 1 = n
    BY <1>4, <2>1, <2>2
  <2>4. /\ \A k, x \in 1 .. m : r[k] = r[x] => k = x
        /\ \A u \in M : \E k \in 1 .. m : r[k] = u
        /\ \A k \in 1 .. m - 1 : mx[r[k]] = r[k + 1]
        /\ mx[r[m]] = c
    BY <1>6, <1>7, <1>9, <1>10, <2>1, <2>2, <2>3
  <2>5. InTurn(r, M, c, mx)
    <3>1. r \in Seq(M) /\ Len(r) > 0
      BY <2>3
    <3>2. /\ \A k, x \in 1 .. Len(r) : r[k] = r[x] => k = x
          /\ \A u \in M : \E k \in 1 .. Len(r) : r[k] = u
          /\ \A k \in 1 .. Len(r) - 1 : mx[r[k]] = r[k + 1]
          /\ mx[r[Len(r)]] = c
      BY <2>3, <2>4
    <3> QED
      BY <1>11, <3>1, <3>2, Zenon DEF InTurn
  <2> QED
    BY <2>1, <2>5
<1> QED
  BY <1>1, <1>4, <1>12

\* A queue of the live tasks is the one that is read off the list.
LEMMA QueueRead ==
    ASSUME NEW q, QueueOf(q)
    PROVE  RunQueue = q
<1>1. PICK c, nx, L : c = current_task /\ nx = next /\ L = Live
  OBVIOUS
<1>2. Nil \notin L
  BY <1>1, SchedConstants DEF Live
<1>3. InTurn(q, L, c, nx) /\ Len(q) = Cardinality(Live)
  BY <1>1 DEF QueueOf
<1>4. Follow(c, nx, Len(q)) = q
  BY <1>2, <1>3, FollowIs
<1> QED
  BY <1>1, <1>3, <1>4 DEF RunQueue

\* The same after a step.
LEMMA QueueReadNext ==
    ASSUME NEW q, QueueOf(q)'
    PROVE  RunQueue' = q /\ QueueInv'
<1>1. PICK c, nx, L : c = current_task' /\ nx = next' /\ L = Live'
  OBVIOUS
<1>2. Nil \notin L
  BY <1>1, SchedConstants DEF Live
<1>3. InTurn(q, L, c, nx) /\ Len(q) = Cardinality(Live')
  BY <1>1 DEF QueueOf
<1>4. Follow(c, nx, Len(q)) = q
  BY <1>2, <1>3, FollowIs
<1>5. RunQueue' = Follow(current_task', next', Cardinality(Live'))
  BY DEF RunQueue
<1>6. RunQueue' = q
  BY <1>1, <1>3, <1>4, <1>5
<1> QED
  BY <1>6 DEF QueueInv

\* A step that leaves the members, their order and the running task alone.
LEMMA QueueKept ==
    ASSUME QueueInv, Live' = Live, current_task' = current_task,
           \A t \in Live : next'[t] = next[t]
    PROVE  QueueInv' /\ RunQueue' = RunQueue
<1>1. PICK q : QueueOf(q)
  BY DEF QueueInv
<1>2. PICK c, nx, mx, L : c = current_task /\ nx = next /\ mx = next' /\ L = Live
  OBVIOUS
<1>3. InTurn(q, L, c, nx) /\ \A t \in L : mx[t] = nx[t]
  BY <1>1, <1>2 DEF QueueOf
<1>4. InTurn(q, L, c, mx)
  BY <1>3, SameTurn
<1>5. QueueOf(q)'
  BY <1>1, <1>2, <1>4 DEF QueueOf
<1> QED
  BY <1>1, <1>5, QueueRead, QueueReadNext

\* A task that is linked behind the root task joins the queue.
LEMMA QueueJoin ==
    ASSUME QueueInv, Root \in Live, NEW t \in Task, t \notin Live, Live' = Live \cup {t},
           current_task' = current_task, next'[t] = next[Root], next'[Root] = t,
           \A u \in Live \ {Root} : next'[u] = next[u]
    PROVE  QueueInv' /\ RR!Join(t)
<1>1. PICK q : QueueOf(q)
  BY DEF QueueInv
<1>2. PICK c, nx, mx, L : c = current_task /\ nx = next /\ mx = next' /\ L = Live
  OBVIOUS
<1>3. InTurn(q, L, c, nx) /\ IsFiniteSet(L) /\ Len(q) = Cardinality(L)
  BY <1>1, <1>2 DEF QueueOf
<1>4. PICK i \in 1 .. Len(q) : q[i] = Root
  BY <1>2, <1>3 DEF InTurn
<1>5. PICK r : r = Inserted(q, i, t)
  OBVIOUS
<1>6. PutsIn(L, Root, t, nx, mx) /\ t \notin L
  BY <1>2 DEF PutsIn
<1>7. InTurn(r, L \cup {t}, c, mx) /\ Len(r) = Len(q) + 1
  BY <1>3, <1>4, <1>5, <1>6, JoinIs
<1>8. IsFiniteSet(L \cup {t}) /\ Cardinality(L \cup {t}) = Cardinality(L) + 1
  BY <1>3, <1>6, FS_AddElement
<1>9. QueueOf(r)'
  BY <1>2, <1>3, <1>7, <1>8 DEF QueueOf
<1>10. RunQueue = q /\ RunQueue' = r /\ QueueInv'
  BY <1>1, <1>9, QueueRead, QueueReadNext
<1>11. RR!Join(t)
  <2>1. q \in Seq(L) /\ DOMAIN q = 1 .. Len(q) /\ \A k \in 1 .. Len(q) : q[k] # t
    BY <1>3, <1>6 DEF InTurn
  <2>2. ~ RR!Contains(RunQueue, t)
    BY <1>10, <2>1 DEF RR!Contains
  <2>3. RunQueue' = RR!InsertAt(RunQueue, i + 1, t)
    BY <1>5, <1>10 DEF RR!InsertAt, Inserted
  <2> QED
    BY <1>4, <1>10, <2>1, <2>2, <2>3 DEF RR!Join
<1> QED
  BY <1>10, <1>11

\* A switch to the next task rotates the queue.
LEMMA QueueRotate ==
    ASSUME QueueInv, Live' = Live, current_task' = next[current_task],
           \A t \in Live : next'[t] = next[t]
    PROVE  QueueInv' /\ RR!Rotate
<1>1. PICK q : QueueOf(q)
  BY DEF QueueInv
<1>2. PICK c, nx, mx, L : c = current_task /\ nx = next /\ mx = next' /\ L = Live
  OBVIOUS
<1>3. /\ InTurn(q, L, c, nx) /\ IsFiniteSet(L) /\ Len(q) = Cardinality(L)
      /\ \A t \in L : mx[t] = nx[t]
  BY <1>1, <1>2 DEF QueueOf
<1>4. PICK r, d : r = Append(Tail(q), Head(q)) /\ d = nx[c]
  OBVIOUS
<1>5. InTurn(r, L, d, nx) /\ Len(r) = Len(q)
  BY <1>3, <1>4, RotateIs
<1>6. InTurn(r, L, d, mx)
  BY <1>3, <1>5, SameTurn
<1>7. QueueOf(r)'
  BY <1>2, <1>3, <1>4, <1>5, <1>6 DEF QueueOf
<1>8. RunQueue = q /\ RunQueue' = r /\ QueueInv'
  BY <1>1, <1>7, QueueRead, QueueReadNext
<1> QED
  BY <1>4, <1>8 DEF RR!Rotate

\* A running task that is unlinked leaves the queue.
LEMMA QueueLeave ==
    ASSUME QueueInv, Root \in Live, current_task \in Live, current_task # Root,
           Live' = Live \ {current_task}, current_task' = next[current_task],
           NEW b \in Live, next[b] = current_task, next'[b] = next[current_task],
           \A t \in Live \ {b} : next'[t] = next[t]
    PROVE  QueueInv' /\ RR!Leave
<1>1. PICK q : QueueOf(q)
  BY DEF QueueInv
<1>2. PICK c, nx, mx, L : c = current_task /\ nx = next /\ mx = next' /\ L = Live
  OBVIOUS
<1>3. /\ InTurn(q, L, c, nx) /\ IsFiniteSet(L) /\ Len(q) = Cardinality(L) /\ c \in L
      /\ TakesOut(L, b, c, nx, mx)
  BY <1>1, <1>2 DEF QueueOf, TakesOut
<1>4. Len(q) \in Nat /\ q[1] = c /\ q # <<>>
  BY <1>3 DEF InTurn
<1>5. Len(q) > 1
  <2>1. PICK i \in 1 .. Len(q) : q[i] = Root
    BY <1>2, <1>3 DEF InTurn
  <2>2. i # 1
    BY <1>2, <1>4, <2>1
  <2> QED
    BY <1>4, <2>2
<1>6. PICK r, d, M : r = Tail(q) /\ d = nx[c] /\ M = L \ {c}
  OBVIOUS
<1>7. InTurn(r, M, d, mx) /\ Len(r) = Len(q) - 1
  BY <1>3, <1>5, <1>6, LeaveIs
<1>8. IsFiniteSet(M) /\ Cardinality(M) = Cardinality(L) - 1
  BY <1>3, <1>6, FS_RemoveElement
<1>9. QueueOf(r)'
  BY <1>2, <1>3, <1>6, <1>7, <1>8 DEF QueueOf
<1>10. RunQueue = q /\ RunQueue' = r /\ QueueInv'
  BY <1>1, <1>9, QueueRead, QueueReadNext
<1>11. Head(RunQueue) # Root
  BY <1>2, <1>4, <1>10
<1> QED
  BY <1>6, <1>10, <1>11 DEF RR!Leave

\* At first the root task is alone in the queue.
LEMMA QueueInit == Init => QueueInv /\ RR!Init
<1> SUFFICES ASSUME Init  PROVE QueueInv /\ RR!Init
  OBVIOUS
<1>1. Live = {Root} /\ current_task = Root /\ next[Root] = Root
  BY SchedConstants DEF Init, Live
<1>2. PICK q : q = <<Root>>
  OBVIOUS
<1>3. q \in Seq(Live) /\ Len(q) = 1 /\ q[1] = Root
  BY <1>1, <1>2
<1>4. InTurn(q, Live, current_task, next)
  BY <1>1, <1>3 DEF InTurn
<1>5. IsFiniteSet(Live) /\ Cardinality(Live) = 1
  BY <1>1, FS_Singleton
<1>6. QueueOf(q)
  BY <1>3, <1>4, <1>5 DEF QueueOf
<1> QED
  BY <1>2, <1>6, QueueRead DEF QueueInv, RR!Init

\* Every step of the scheduler is one of the queue, or leaves it as it is.
LEMMA QueueNext ==
    IndInv /\ QueueInv /\ [Next]_vars => QueueInv' /\ [RR!Next]_RunQueue
<1> SUFFICES ASSUME IndInv, QueueInv, [Next]_vars
             PROVE  QueueInv' /\ [RR!Next]_RunQueue
  OBVIOUS
<1>1. /\ Root \in Live /\ task_head = Root /\ current_task \in Live /\ Live \subseteq Task
      /\ mem \in [Task -> MemState] /\ next \in [Task -> Task \cup {Nil}]
      /\ \A t \in Live : next[t] \in Live
  BY DEF IndInv, ListIsRing, Live, TypeOK
<1>2. ASSUME Live' = Live, current_task' = current_task, \A t \in Live : next'[t] = next[t]
      PROVE  QueueInv' /\ [RR!Next]_RunQueue
  BY <1>2, QueueKept
<1>3. ASSUME NEW t \in Task, t \notin Live, mem' = [mem EXCEPT ![t] = "live"],
             current_task' = current_task, next'[t] = next[Root], next'[Root] = t,
             \A u \in Live \ {Root} : next'[u] = next[u]
      PROVE  QueueInv' /\ [RR!Next]_RunQueue
  <2>1. Live' = Live \cup {t}
    BY <1>1, <1>3 DEF Live
  <2>2. QueueInv' /\ RR!Join(t)
    BY <1>1, <1>3, <2>1, QueueJoin
  <2> QED
    BY <2>2 DEF RR!Next
<1>4. ASSUME NEW t \in Task, BootAllocate(t)  PROVE QueueInv' /\ [RR!Next]_RunQueue
  <2>1. t \notin Live /\ mem' = [mem EXCEPT ![t] = "new"] /\ current_task' = current_task
        /\ next' = [next EXCEPT ![t] = next[task_head]]
    BY <1>4 DEF BootAllocate, Allocate, Live
  <2>2. Live' = Live /\ \A u \in Live : next'[u] = next[u]
    BY <1>1, <2>1 DEF Live
  <2> QED
    BY <1>2, <2>1, <2>2
<1>5. ASSUME NEW t \in Task, BootLink(t)  PROVE QueueInv' /\ [RR!Next]_RunQueue
  <2>1. /\ mem[t] = "new" /\ ctx = "link" /\ mem' = [mem EXCEPT ![t] = "live"]
        /\ current_task' = current_task /\ next' = [next EXCEPT ![Root] = t]
    BY <1>1, <1>5 DEF BootLink
  <2>2. t \notin Live /\ t # Root
    BY <1>1, <2>1 DEF Live
  <2>3. next[t] = Root
    BY <2>1 DEF IndInv, NewTaskReady
  <2>4. next[Root] = Root
    <3>1. Live = {Root}
      BY <2>1 DEF IndInv, BootAlone
    <3> QED
      BY <1>1, <3>1
  <2>5. next'[t] = next[Root] /\ next'[Root] = t /\ \A u \in Live \ {Root} : next'[u] = next[u]
    BY <1>1, <2>1, <2>2, <2>3, <2>4
  <2> QED
    BY <1>3, <2>1, <2>2, <2>5
<1>6. ASSUME NEW t \in Task, Exec(t)  PROVE QueueInv' /\ [RR!Next]_RunQueue
  <2>1. /\ t \notin Live /\ mem' = [mem EXCEPT ![t] = "live"] /\ current_task' = current_task
        /\ next' = [next EXCEPT ![t] = next[Root], ![Root] = t]
    BY <1>1, <1>6 DEF Exec, Allocate, Live, InsertedAfterHead
  <2>2. next'[t] = next[Root] /\ next'[Root] = t /\ \A u \in Live \ {Root} : next'[u] = next[u]
    BY <1>1, <2>1
  <2> QED
    BY <1>3, <2>1, <2>2
<1>7. ASSUME BootFail \/ ReadKeyEnter \/ ReadKeyReturn \/ UNCHANGED vars
      PROVE  QueueInv' /\ [RR!Next]_RunQueue
  <2>1. mem' = mem /\ next' = next /\ current_task' = current_task
    BY <1>7 DEF BootFail, ReadKeyEnter, ReadKeyReturn, listVars, vars
  <2>2. Live' = Live
    BY <2>1 DEF Live
  <2> QED
    BY <1>2, <2>1, <2>2
<1>8. ASSUME Tick  PROVE QueueInv' /\ [RR!Next]_RunQueue
  <2>1. mem' = Reaped(mem, "free") /\ next' = Reaped(next, Nil) /\ current_task' = next[current_task]
    BY <1>8 DEF Tick, Picked
  <2>2. zombie_task # Nil => mem[zombie_task] = "exited"
    BY DEF IndInv, ZombieExited
  <2>3. Live' = Live /\ \A t \in Live : next'[t] = next[t]
    BY <1>1, <2>1, <2>2 DEF Reaped, Live
  <2>4. QueueInv' /\ RR!Rotate
    BY <2>1, <2>3, QueueRotate
  <2> QED
    BY <2>4 DEF RR!Next
<1>9. ASSUME TaskExit  PROVE QueueInv' /\ [RR!Next]_RunQueue
  <2>1. current_task # Root
    BY <1>9 DEF TaskExit, IndInv, StacksOwned
  <2>2. PICK b \in Live : next[b] = current_task
                          /\ next' = [next EXCEPT ![b] = next[current_task]]
    BY <1>1, <1>9, WalkIsLive DEF IndInv, TaskExit, PrevOf, Unlinked
  <2>3. mem' = [mem EXCEPT ![current_task] = "exited"] /\ current_task' = next[current_task]
    BY <1>9 DEF TaskExit
  <2>4. Live' = Live \ {current_task}
    BY <1>1, <2>3 DEF Live
  <2>5. next'[b] = next[current_task] /\ \A t \in Live \ {b} : next'[t] = next[t]
    BY <1>1, <2>2
  <2>6. QueueInv' /\ RR!Leave
    BY <1>1, <2>1, <2>2, <2>3, <2>4, <2>5, QueueLeave
  <2> QED
    BY <2>6 DEF RR!Next
<1> QED
  BY <1>4, <1>5, <1>6, <1>7, <1>8, <1>9 DEF Next

\* The list of pointers implements the queue: whatever is created, exits or is
\* preempted, each step rotates the queue, takes out the running process, puts a
\* new one in behind the root task, or leaves the queue alone.  This is
\* ImplementsRoundRobin without its fairness.
THEOREM RoundRobinTheorem == Spec => RR!Init /\ [][RR!Next]_RunQueue
<1>1. Init => QueueInv /\ RR!Init
  BY QueueInit
<1>2. IndInv /\ QueueInv /\ [Next]_vars => QueueInv' /\ [RR!Next]_RunQueue
  BY QueueNext
<1> QED
  BY <1>1, <1>2, Invariance, PTL DEF Spec
=============================================================================
