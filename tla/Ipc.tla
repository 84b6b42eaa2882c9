-------------------------------- MODULE Ipc --------------------------------
(***************************************************************************)
(* The message queues of src/src/syscall/sys_process.c: a ring buffer in   *)
(* every task_t with msg_head, msg_tail and msg_count.  The two system     *)
(* calls run with interrupts disabled, so each is one action of whichever  *)
(* process is current.                                                     *)
(*                                                                         *)
(* The root task (pid 0) is left out: it executes no system call and no    *)
(* program addresses it, and its queue is never initialised.               *)
(***************************************************************************)
EXTENDS Integers, Sequences

CONSTANTS
    Pid,            \* the pids processes get; none is given out twice
    Payload,        \* type, data1, data2 and data3 of a message
    MSG_QUEUE_SIZE,
    NoMsg           \* the contents of a slot that was never written

ASSUME IpcConstants ==
    /\ MSG_QUEUE_SIZE \in Nat \ {0}
    /\ Payload # {}
    /\ NoMsg \notin [sender_pid : Pid, payload : Payload]

VARIABLES
    state,          \* "unborn", "alive" or "dead": is the pid on the task list?
    msgs,           \* task_t.msgs
    msg_head,
    msg_tail,
    msg_count,
    reply           \* what the last system call returned, and to whom

vars == <<state, msgs, msg_head, msg_tail, msg_count, reply>>
queueVars == <<msgs, msg_head, msg_tail, msg_count>>

Message == [sender_pid : Pid, payload : Payload]
Index == 0 .. MSG_QUEUE_SIZE - 1

Reply(p, ret, m) == [pid |-> p, ret |-> ret, msg |-> m]

\* The processes get_task_by_pid finds.
Alive == {p \in Pid : state[p] = "alive"}

-----------------------------------------------------------------------------
(***************************************************************************)
(* Slips that the properties must notice.                                  *)
(***************************************************************************)
RecvOk_TakesNewest(p) ==
    LET newest == (msg_tail[p] + MSG_QUEUE_SIZE - 1) % MSG_QUEUE_SIZE
    IN  /\ p \in Alive
        /\ msg_count[p] # 0
        /\ reply' = Reply(p, 0, msgs[p][newest])
        /\ msg_tail' = [msg_tail EXCEPT ![p] = newest]
        /\ msg_count' = [msg_count EXCEPT ![p] = @ - 1]
        /\ UNCHANGED <<state, msgs, msg_head>>
-----------------------------------------------------------------------------

\* The ring index after i.
Advance(i) == (i + 1) % MSG_QUEUE_SIZE

\* No room in the queue of dest.
Full(dest) == msg_count[dest] >= MSG_QUEUE_SIZE

Init ==
    /\ state = [p \in Pid |-> "unborn"]
    /\ msgs = [p \in Pid |-> [i \in Index |-> NoMsg]]
    /\ msg_head = [p \in Pid |-> 0]
    /\ msg_tail = [p \in Pid |-> 0]
    /\ msg_count = [p \in Pid |-> 0]
    /\ reply \in {Reply(p, 0, NoMsg) : p \in Pid}

\* create_user_process_from_file: the task_t is cleared with memset.
Create(p) ==
    /\ state[p] = "unborn"
    /\ state' = [state EXCEPT ![p] = "alive"]
    /\ msgs' = [msgs EXCEPT ![p] = [i \in Index |-> NoMsg]]
    /\ msg_head' = [msg_head EXCEPT ![p] = 0]
    /\ msg_tail' = [msg_tail EXCEPT ![p] = 0]
    /\ msg_count' = [msg_count EXCEPT ![p] = 0]
    /\ UNCHANGED reply

\* task_exit takes the process off the list with its messages.
Exit(p) ==
    /\ p \in Alive
    /\ state' = [state EXCEPT ![p] = "dead"]
    /\ UNCHANGED <<queueVars, reply>>

\* sys_ipc_send
SendNoTarget(p, dest) ==
    /\ p \in Alive
    /\ dest \notin Alive
    /\ reply' = Reply(p, -1, NoMsg)
    /\ UNCHANGED <<state, queueVars>>

SendFull(p, dest) ==
    /\ p \in Alive
    /\ dest \in Alive
    /\ Full(dest)
    /\ reply' = Reply(p, -2, NoMsg)
    /\ UNCHANGED <<state, queueVars>>

SendOk(p, dest, d) ==
    /\ p \in Alive
    /\ dest \in Alive
    /\ ~ Full(dest)
    /\ msgs' = [msgs EXCEPT ![dest] =
                   [@ EXCEPT ![msg_tail[dest]] = [sender_pid |-> p, payload |-> d]]]
    /\ msg_tail' = [msg_tail EXCEPT ![dest] = Advance(@)]
    /\ msg_count' = [msg_count EXCEPT ![dest] = @ + 1]
    /\ reply' = Reply(p, 0, NoMsg)
    /\ UNCHANGED <<state, msg_head>>

\* sys_ipc_recv
RecvEmpty(p) ==
    /\ p \in Alive
    /\ msg_count[p] = 0
    /\ reply' = Reply(p, -1, NoMsg)
    /\ UNCHANGED <<state, queueVars>>

RecvOk(p) ==
    /\ p \in Alive
    /\ msg_count[p] # 0
    /\ reply' = Reply(p, 0, msgs[p][msg_head[p]])
    /\ msg_head' = [msg_head EXCEPT ![p] = Advance(@)]
    /\ msg_count' = [msg_count EXCEPT ![p] = @ - 1]
    /\ UNCHANGED <<state, msgs, msg_tail>>

Next ==
    \E p \in Pid :
        \/ Create(p)
        \/ Exit(p)
        \/ \E dest \in Pid : SendNoTarget(p, dest) \/ SendFull(p, dest)
        \/ \E dest \in Pid, d \in Payload : SendOk(p, dest, d)
        \/ RecvEmpty(p)
        \/ RecvOk(p)

Spec == Init /\ [][Next]_vars

-----------------------------------------------------------------------------

\* Every variable has its type; in particular no index leaves the ring and no
\* counter leaves 0 .. MSG_QUEUE_SIZE.
TypeOK ==
    /\ state \in [Pid -> {"unborn", "alive", "dead"}]
    /\ msgs \in [Pid -> [Index -> Message \cup {NoMsg}]]
    /\ msg_head \in [Pid -> Index]
    /\ msg_tail \in [Pid -> Index]
    /\ msg_count \in [Pid -> 0 .. MSG_QUEUE_SIZE]
    /\ reply \in [pid : Pid, ret : {0, -1, -2}, msg : Message \cup {NoMsg}]

\* The i-th oldest message of p.
Slot(p, i) == (msg_head[p] + i - 1) % MSG_QUEUE_SIZE

\* The messages waiting for p, oldest first.
Pending(p) == [i \in 1 .. msg_count[p] |-> msgs[p][Slot(p, i)]]

\* The three fields of a ring agree, and every pending slot was written: a
\* receive never hands out a slot that memset left empty.
RingConsistent ==
    \A p \in Pid :
        /\ msg_tail[p] = (msg_head[p] + msg_count[p]) % MSG_QUEUE_SIZE
        /\ \A i \in 1 .. msg_count[p] : msgs[p][Slot(p, i)] # NoMsg

Abstract == INSTANCE MsgQueues WITH
    Capacity <- MSG_QUEUE_SIZE,
    alive <- Alive,
    queue <- [p \in Pid |-> Pending(p)]

\* The ring buffers implement bounded FIFO queues: nothing accepted is lost,
\* duplicated, reordered or delivered to another process, and the return codes
\* tell the sender the truth.
ImplementsQueues == Abstract!Spec
=============================================================================
