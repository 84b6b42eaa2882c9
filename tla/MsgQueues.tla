----------------------------- MODULE MsgQueues -----------------------------
(***************************************************************************)
(* What the message system calls promise: each process has a FIFO queue of *)
(* at most Capacity messages; a send either appends to the queue of a      *)
(* living process and returns 0 or changes nothing and says why; a receive *)
(* takes the oldest message.                                               *)
(***************************************************************************)
EXTENDS Integers, Sequences

CONSTANTS Pid, Payload, Capacity, NoMsg

VARIABLES
    alive,  \* the processes that exist
    queue,  \* the messages waiting for each process
    reply   \* what the last system call returned, and to whom

vars == <<alive, queue, reply>>

Message == [sender_pid : Pid, payload : Payload]

Reply(p, ret, m) == [pid |-> p, ret |-> ret, msg |-> m]

Init ==
    /\ alive = {}
    /\ queue = [p \in Pid |-> <<>>]
    /\ reply \in {Reply(p, 0, NoMsg) : p \in Pid}

Create(p) ==
    /\ alive' = alive \cup {p}
    /\ queue' = [queue EXCEPT ![p] = <<>>]
    /\ UNCHANGED reply

Exit(p) ==
    /\ p \in alive
    /\ alive' = alive \ {p}
    /\ UNCHANGED <<queue, reply>>

Send(p, dest, d) ==
    /\ p \in alive
    /\ \/ /\ dest \notin alive
          /\ reply' = Reply(p, -1, NoMsg)
          /\ UNCHANGED queue
       \/ /\ dest \in alive
          /\ Len(queue[dest]) = Capacity
          /\ reply' = Reply(p, -2, NoMsg)
          /\ UNCHANGED queue
       \/ /\ dest \in alive
          /\ Len(queue[dest]) < Capacity
          /\ reply' = Reply(p, 0, NoMsg)
          /\ queue' = [queue EXCEPT ![dest] =
                          Append(@, [sender_pid |-> p, payload |-> d])]
    /\ UNCHANGED alive

Recv(p) ==
    /\ p \in alive
    /\ IF queue[p] = <<>>
       THEN reply' = Reply(p, -1, NoMsg) /\ UNCHANGED queue
       ELSE /\ reply' = Reply(p, 0, Head(queue[p]))
            /\ queue' = [queue EXCEPT ![p] = Tail(@)]
    /\ UNCHANGED alive

Next ==
    \E p \in Pid :
        \/ Create(p)
        \/ Exit(p)
        \/ Recv(p)
        \/ \E dest \in Pid, d \in Payload : Send(p, dest, d)

Spec == Init /\ [][Next]_vars
=============================================================================
