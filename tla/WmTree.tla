------------------------------- MODULE WmTree -------------------------------
(***************************************************************************)
(* The window tree of src/userspace/idpwm.c: every window is a leaf of a   *)
(* binary tree whose inner nodes split the screen.  Nodes come from a      *)
(* fixed pool, used up from the bottom and recycled through a stack.  One  *)
(* action is one message or key that the main loop of the window manager   *)
(* handles.                                                                *)
(***************************************************************************)
EXTENDS Integers, Sequences, FiniteSetsExt, SequencesExt

CONSTANTS
    MAX_WINDOWS,
    ScreenWidth, ScreenHeight,
    NULL

Slot == 0 .. MAX_WINDOWS - 1
NodeId == 0 .. 2 * MAX_WINDOWS - 1

ASSUME WmTreeConstants ==
    /\ MAX_WINDOWS \in Nat \ {0} /\ ScreenWidth \in Nat /\ ScreenHeight \in Nat
    /\ NULL \notin NodeId \cup Slot

VARIABLES
    nodes,             \* tree_node_t nodes[]
    node_pool_idx,
    free_stack,
    root,
    focused_node,
    next_split_mode,
    alive,             \* windows[].alive
    rect               \* x, y, width and height of the windows in the tree

tree == <<nodes, node_pool_idx, free_stack, root, focused_node>>
vars == <<tree, next_split_mode, alive, rect>>

Screen == [x |-> 0, y |-> 0, w |-> ScreenWidth, h |-> ScreenHeight]
NoNode == [parent |-> NULL, left |-> NULL, right |-> NULL, is_leaf |-> FALSE,
           split_dir |-> "SPLIT_H", win |-> NULL]

-----------------------------------------------------------------------------
(***************************************************************************)
(* Slips that the properties must notice.                                  *)
(***************************************************************************)
Recycled_LeafOnly(stack, leaf, container) == Append(stack, leaf)
Part_RoundedDown(a, dir, isLeft) ==
    LET w == IF dir = "SPLIT_V" THEN a.w \div 2 ELSE a.w
        h == IF dir = "SPLIT_H" THEN a.h \div 2 ELSE a.h
    IN  [x |-> IF isLeft \/ dir = "SPLIT_H" THEN a.x ELSE a.x + w,
         y |-> IF isLeft \/ dir = "SPLIT_V" THEN a.y ELSE a.y + h,
         w |-> w, h |-> h]
Replaced_AlwaysLeft(ns, old, new) ==
    LET p == ns[old].parent
        linked == [ns EXCEPT ![new].parent = p]
    IN  IF p = NULL THEN linked ELSE [linked EXCEPT ![p].left = new]
-----------------------------------------------------------------------------

\* The slot the search loop of wm_handle_new_client stops at.
LowestSlot(free) == Min(free)

\* tree_alloc: the top of the free stack, else the next unused node.
Allocated(pool) ==
    IF pool.stack # <<>> THEN Last(pool.stack)
    ELSE IF pool.idx < 2 * MAX_WINDOWS THEN pool.idx ELSE NULL
PoolAfter(pool) ==
    IF pool.stack # <<>> THEN [pool EXCEPT !.stack = Front(@)]
    ELSE [pool EXCEPT !.idx = @ + 1]

\* The parent of old points at new instead, and new back at it.
Replaced(ns, old, new) ==
    LET p == ns[old].parent
        linked == [ns EXCEPT ![new].parent = p]
    IN  IF p = NULL THEN linked
        ELSE [linked EXCEPT ![p] = IF @.left = old THEN [@ EXCEPT !.left = new]
                                   ELSE [@ EXCEPT !.right = new]]

\* The nodes that are a leaf or a split: those that tree_alloc has given out.
Used(ns) == {n \in NodeId : ns[n].is_leaf \/ ns[n].left # NULL}

\* Down the left children to a leaf.
LeftmostLeaf(ns, n) ==
    LET leaf[m \in Used(ns)] == IF ns[m].is_leaf THEN m ELSE leaf[ns[m].left]
    IN  leaf[n]

\* wm_insert_window_into_tree: the window shares the place of the focused one.
Insert(win) ==
    LET pool == [stack |-> free_stack, idx |-> node_pool_idx]
        new == Allocated(pool)
        pool1 == PoolAfter(pool)
        container == Allocated(pool1)
        pool2 == PoolAfter(pool1)
        target == LeftmostLeaf(nodes, IF focused_node # NULL THEN focused_node ELSE root)
        leaf == [NoNode EXCEPT !.is_leaf = TRUE, !.win = win]
    IN  /\ new # NULL
        /\ \/ /\ root = NULL
              /\ nodes' = [nodes EXCEPT ![new] = leaf]
              /\ root' = new
              /\ free_stack' = pool1.stack
              /\ node_pool_idx' = pool1.idx
           \/ /\ root # NULL
              /\ container # NULL
              /\ LET split == [NoNode EXCEPT !.split_dir = next_split_mode]
                     ns == Replaced([nodes EXCEPT ![new] = leaf, ![container] = split],
                                    target, container)
                 IN  nodes' = [ns EXCEPT ![container].left = target,
                                         ![container].right = new,
                                         ![target].parent = container,
                                         ![new].parent = container]
              /\ root' = IF nodes[target].parent = NULL THEN container ELSE root
              /\ free_stack' = pool2.stack
              /\ node_pool_idx' = pool2.idx
        /\ focused_node' = new

\* layout_recursive: the part of area a that one child of a split gets.
Part(a, dir, isLeft) ==
    LET halfW == IF dir = "SPLIT_V" THEN a.w \div 2 ELSE a.w
        halfH == IF dir = "SPLIT_H" THEN a.h \div 2 ELSE a.h
    IN  IF isLeft THEN [a EXCEPT !.w = halfW, !.h = halfH]
        ELSE IF dir = "SPLIT_V"
        THEN [a EXCEPT !.x = @ + halfW, !.w = @ - halfW]
        ELSE [a EXCEPT !.y = @ + halfH, !.h = @ - halfH]

Area(ns, top, n) ==
    LET area[m \in Used(ns)] ==
            IF m = top THEN Screen
            ELSE LET p == ns[m].parent
                 IN  Part(area[p], ns[p].split_dir, ns[p].left = m)
    IN  area[n]

\* collect_leaves, which is also the order layout_recursive visits them in.
Leaves(ns, top) ==
    LET leaves[m \in Used(ns)] ==
            IF ns[m].is_leaf THEN <<m>> ELSE leaves[ns[m].left] \o leaves[ns[m].right]
    IN  IF top = NULL THEN <<>> ELSE leaves[top]

\* The rectangles of the windows in the tree.  (What a dead window had is not kept.)
Layout(ns, top) ==
    LET leaves == Range(Leaves(ns, top))
    IN  [s \in {ns[n].win : n \in leaves} |->
            Area(ns, top, CHOOSE n \in leaves : ns[n].win = s)]

\* wm_update_layout
UpdateLayout == rect' = Layout(nodes', root')

\* Where the focus goes when its window is deleted.
Refocused(ns, sibling) == LeftmostLeaf(ns, sibling)

\* tree_free of the leaf, then of its container.
Recycled(stack, leaf, container) == stack \o <<leaf, container>>

\* wm_delete_node of the focused leaf n.  tree_alloc clears a node when it is
\* used again; here it is cleared when it is freed.
Delete(n) ==
    LET parent == nodes[n].parent
        sibling == IF nodes[parent].left = n THEN nodes[parent].right
                   ELSE nodes[parent].left
    IN  \/ /\ parent = NULL
           /\ root' = NULL
           /\ focused_node' = NULL
           /\ free_stack' = Append(free_stack, n)
           /\ nodes' = [nodes EXCEPT ![n] = NoNode]
        \/ /\ parent # NULL
           /\ nodes' = [Replaced(nodes, parent, sibling) EXCEPT ![n] = NoNode,
                                                               ![parent] = NoNode]
           /\ root' = IF nodes[parent].parent = NULL THEN sibling ELSE root
           /\ focused_node' = Refocused(nodes, sibling)
           /\ free_stack' = Recycled(free_stack, n, parent)

Init ==
    /\ nodes = [n \in NodeId |-> NoNode]
    /\ node_pool_idx = 0
    /\ free_stack = <<>>
    /\ root = NULL
    /\ focused_node = NULL
    /\ next_split_mode = "SPLIT_V"
    /\ alive = [s \in Slot |-> FALSE]
    /\ rect = [s \in {} |-> Screen]

\* wm_handle_new_client.  With no slot left, or when sys_share_mem finds the
\* client gone, nothing changes.
HandleNewClient ==
    /\ \E s \in Slot : ~ alive[s]
    /\ LET slot == LowestSlot({s \in Slot : ~ alive[s]})
       IN  /\ alive' = [alive EXCEPT ![slot] = TRUE]
           /\ Insert(slot)
    /\ UpdateLayout
    /\ UNCHANGED next_split_mode

\* wm_focus_next
FocusNext ==
    LET leaves == Leaves(nodes, root)
        current == CHOOSE i \in 1 .. Len(leaves) : leaves[i] = focused_node
    IN  /\ root # NULL
        /\ focused_node' = leaves[(current % Len(leaves)) + 1]
        /\ UNCHANGED <<nodes, node_pool_idx, free_stack, root, next_split_mode, alive, rect>>

\* wm_kill_focused
KillFocused ==
    /\ focused_node # NULL
    /\ alive' = [alive EXCEPT ![nodes[focused_node].win] = FALSE]
    /\ Delete(focused_node)
    /\ UpdateLayout
    /\ UNCHANGED <<node_pool_idx, next_split_mode>>

\* wm_handle_input: Alt-h and Alt-v.
SetSplit(dir) ==
    /\ next_split_mode' = dir
    /\ UNCHANGED <<tree, alive, rect>>

Next ==
    \/ HandleNewClient
    \/ FocusNext
    \/ KillFocused
    \/ \E dir \in {"SPLIT_H", "SPLIT_V"} : SetSplit(dir)

Spec == Init /\ [][Next]_vars

-----------------------------------------------------------------------------

\* Every variable has its type; the free stack never overflows its array.
TypeOK ==
    /\ nodes \in [NodeId -> [parent : NodeId \cup {NULL}, left : NodeId \cup {NULL},
                             right : NodeId \cup {NULL}, is_leaf : BOOLEAN,
                             split_dir : {"SPLIT_H", "SPLIT_V"}, win : Slot \cup {NULL}]]
    /\ node_pool_idx \in 0 .. 2 * MAX_WINDOWS
    /\ free_stack \in Seq(NodeId) /\ Len(free_stack) <= 2 * MAX_WINDOWS
    /\ root \in NodeId \cup {NULL} /\ focused_node \in NodeId \cup {NULL}
    /\ alive \in [Slot -> BOOLEAN]

\* The nodes of the tree.
TreeNodes ==
    LET below[m \in Used(nodes)] ==
            IF nodes[m].is_leaf THEN {m}
            ELSE {m} \cup below[nodes[m].left] \cup below[nodes[m].right]
    IN  IF root = NULL THEN {} ELSE below[root]

\* Links lead down and back up, and every living window has one leaf.
LinksMatch ==
    /\ root # NULL => nodes[root].parent = NULL
    /\ \A n \in TreeNodes : ~ nodes[n].is_leaf =>
          /\ nodes[n].left # nodes[n].right
          /\ nodes[nodes[n].left].parent = n
          /\ nodes[nodes[n].right].parent = n
    /\ \A s \in Slot :
          Cardinality({n \in TreeNodes : nodes[n].is_leaf /\ nodes[n].win = s})
              = IF alive[s] THEN 1 ELSE 0

\* The focus is on a leaf of the tree whenever there is a window, so keys reach
\* a living client and the focus can be moved on and killed.
FocusOnLeaf ==
    IF root = NULL THEN focused_node = NULL
    ELSE focused_node \in TreeNodes /\ nodes[focused_node].is_leaf

\* After any sequence of insertions, kills and focus changes the tree is a tree with
\* one leaf for every living window, and the focus names one of them.
TreeWellFormed == TypeOK /\ LinksMatch /\ FocusOnLeaf

\* The pool is a partition: a node is in the tree, on the free stack once, or
\* was never used.  So 2 * MAX_WINDOWS nodes last for ever, tree_alloc never
\* fails and tree_free never frees twice.
PoolPartition ==
    LET unused == node_pool_idx .. 2 * MAX_WINDOWS - 1
        stacked == Range(free_stack)
    IN  /\ Len(free_stack) = Cardinality(stacked)
        /\ TreeNodes \cap stacked = {}
        /\ (TreeNodes \cup stacked) \cap unused = {}
        /\ TreeNodes \cup stacked \cup unused = NodeId

\* The points of a rectangle.
Points(r) == (r.x .. r.x + r.w - 1) \X (r.y .. r.y + r.h - 1)

\* The living windows tile the screen, also where it cannot be halved evenly.
WindowsTile ==
    LET living == {s \in Slot : alive[s]}
    IN  /\ \A s, t \in living : s # t => Points(rect[s]) \cap Points(rect[t]) = {}
        /\ living # {} => UNION {Points(rect[s]) : s \in living} = Points(Screen)
=============================================================================
