-------------------------- MODULE SchedRefinement --------------------------
(***************************************************************************)
(* The pointer-based scheduler implements the abstract round-robin queue.  *)
(***************************************************************************)
EXTENDS Sched

\* The n tasks met from t on, following next pointers nx.
Follow(t, nx, n) ==
    LET Hop[i \in 1 .. n] ==
            IF i = 1 THEN t ELSE IF Hop[i - 1] = Nil THEN Nil ELSE nx[Hop[i - 1]]
    IN  Hop

\* The live tasks in the order in which they will run.
RunQueue == Follow(current_task, next, Cardinality(Live))

RR == INSTANCE RoundRobin WITH queue <- RunQueue

\* Every step of the scheduler rotates the queue, removes the running process,
\* queues a new one behind the root task, or leaves the queue as it is; and the
\* queue never stops rotating.
ImplementsRoundRobin == RR!Spec
=============================================================================
