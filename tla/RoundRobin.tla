----------------------------- MODULE RoundRobin -----------------------------
(***************************************************************************)
(* What the scheduler promises, without pointers, stacks or page tables:   *)
(* the tasks wait in one queue, its first member runs.                     *)
(***************************************************************************)
EXTENDS Sequences, SequencesExt

CONSTANTS Task, Root

VARIABLE queue

Init == queue = <<Root>>

\* The running task goes to the back of the queue.
Rotate == queue' = Append(Tail(queue), Head(queue))

\* The running process leaves for good.
Leave ==
    /\ Head(queue) # Root
    /\ queue' = Tail(queue)

\* A new process is queued directly behind the root task: ahead of those
\* waiting behind it when the root task waits too, and last but one or later
\* otherwise.
Join(t) ==
    /\ ~ Contains(queue, t)
    /\ \E i \in DOMAIN queue :
          /\ queue[i] = Root
          /\ queue' = InsertAt(queue, i + 1, t)

Next == Rotate \/ Leave \/ \E t \in Task : Join(t)

\* Tasks rotate for ever.
Spec == Init /\ [][Next]_queue /\ WF_queue(Rotate)
=============================================================================
