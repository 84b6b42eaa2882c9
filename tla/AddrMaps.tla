------------------------------ MODULE AddrMaps ------------------------------
(***************************************************************************)
(* What the page tables promise: an address space is a map from virtual    *)
(* pages to frames.  A change to the user half of one space is seen by     *)
(* that space alone, and a kernel mapping appears in all of them at once.  *)
(* A frame that is mapped is not free.  The one exception is the lender, a *)
(* space that shares pages with others and keeps its mapping of them when  *)
(* they are gone.                                                          *)
(***************************************************************************)
CONSTANTS Frames, UserPages, KernelPages, None, Lender

VARIABLES
    mapping,   \* space |-> (virtual page |-> frame or None)
    free       \* the frames the page allocator has

Spaces == DOMAIN mapping
Pages == UserPages \cup KernelPages

\* All frames that may be reached through a space other than the lender.
Mapped == {mapping[s][v] : s \in Spaces \ {Lender}, v \in Pages} \ {None}

Init ==
    /\ \E kernel \in Frames \ {Lender} : Spaces = {kernel, Lender}
    /\ \A s \in Spaces : mapping[s] \in [Pages -> Frames \cup {None}]
    /\ free \subseteq Frames
    /\ Mapped \cap free = {}

Create(s) ==
    /\ s \in free \ Spaces
    /\ free' = free \ {s}
    /\ \E k \in Spaces :
          mapping' = [t \in Spaces \cup {s} |->
                         IF t # s THEN mapping[t]
                         ELSE [v \in Pages |-> IF v \in KernelPages THEN mapping[k][v]
                                               ELSE None]]

\* A free frame is mapped; tables may take further free frames.
MapUser(s, v, f) ==
    /\ f \in free
    /\ free' \subseteq free \ {f}
    /\ mapping' = [mapping EXCEPT ![s] = [@ EXCEPT ![v] = f]]

MapKernel(v, f) ==
    /\ f \in free
    /\ free' \subseteq free \ {f}
    /\ mapping' = [s \in Spaces |-> [mapping[s] EXCEPT ![v] = f]]

\* A page of the lender is mapped in another space, too.
MapShared(s, v, f) ==
    /\ free' \subseteq free
    /\ s # Lender /\ f \notin free /\ f \in {mapping[Lender][u] : u \in UserPages} \ {None}
    /\ mapping' = [mapping EXCEPT ![s] = [@ EXCEPT ![v] = f]]

Unmap(s, v) ==
    /\ free' = free
    /\ mapping' = [mapping EXCEPT ![s] = [@ EXCEPT ![v] = None]]

\* Everything the space mapped in its user half is free again, and nothing that is
\* mapped in another space is, unless in the lender's.
Destroy(s) ==
    /\ s # Lender
    /\ free \cup {s} \subseteq free'
    /\ {mapping[s][v] : v \in UserPages} \ {None} \subseteq free'
    /\ mapping' = [t \in Spaces \ {s} |-> mapping[t]]
    /\ Mapped' \cap free' = {}

Next ==
    \/ \E s \in Frames : Create(s)
    \/ \E s \in Spaces, v \in UserPages, f \in Frames : MapUser(s, v, f)
    \/ \E s \in Spaces, v \in UserPages, f \in Frames : MapShared(s, v, f)
    \/ \E v \in KernelPages, f \in Frames : MapKernel(v, f)
    \/ \E s \in Spaces, v \in UserPages : Unmap(s, v)
    \/ \E s \in Spaces : Destroy(s)

Spec == Init /\ [][Next]_<<mapping, free>>
=============================================================================
