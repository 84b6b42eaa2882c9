------------------------------- MODULE Display -------------------------------
(***************************************************************************)
(* How text that a terminal draws reaches the screen: the window protocol  *)
(* between the window manager (userspace/idpwm.c) and one terminal         *)
(* (userspace/terminal/main.c), from MSG_REQUEST_WINDOW to                 *)
(* MSG_QUIT_REQUEST.  The two share the window's pixel buffer and          *)
(* otherwise exchange messages through bounded queues (module MsgQueues);  *)
(* a send to a full queue is refused and neither program tries again.      *)
(*                                                                         *)
(* An action is what a process does up to its next system call.  The       *)
(* window is a row of cells; a rectangle is an interval of cells, and the  *)
(* bounding box of two rectangles is the hull of two intervals.  The size  *)
(* of the window is also the stride of the buffer: a copy made with a size *)
(* other than the one the terminal draws with shows garbage.               *)
(***************************************************************************)
EXTENDS Integers, Sequences, FiniteSets

CONSTANTS
    MSG_QUEUE_SIZE,
    Cols,           \* the number of cells of the window
    Size,           \* the sizes the layout can give to the window
    MaxInput,       \* bound on the user's actions: keys, layout changes, kill
    MaxOutput       \* bound on the messages of the shell and other clients

ASSUME DisplayConstants ==
    /\ MSG_QUEUE_SIZE \in Nat \ {0, 1}
    /\ Cols \in Nat \ {0}
    /\ Size # {} /\ "none" \notin Size
    /\ MaxInput \in Nat
    /\ MaxOutput \in Nat

VARIABLES
    wq,             \* the queue of the window manager
    tq,             \* the queue of the terminal
    phase,          \* the phase of the window manager's main loop
    todo,           \* the messages it is about to send to the terminal
    redraw,         \* wm_draw and wm_present are still to come, after those
    win,            \* the terminal's window: "none", "alive" or "closed"
    size,           \* the size of the window in the layout
    dirty,          \* the cells in the dirty_map slot of the window
    tpc,            \* where the terminal is
    msg,            \* the message it is handling
    initialized,
    tsize,          \* gfx.width: the size it draws with
    last_update,    \* the cells in term.last_update, {} when not dirty
    unseen,         \* history: it cleared the window and has not announced that
    fresh,          \* the cells whose pixels on the screen are those of the buffer
    lost,           \* the types of the messages a full queue refused
    input,          \* user actions so far
    output          \* messages of the shell and of other clients so far

wmVars == <<phase, todo, redraw, win, size, dirty>>
termVars == <<tpc, msg, initialized, tsize, last_update, unseen>>
vars == <<wq, tq, wmVars, termVars, fresh, lost, input, output>>

Cell == 1 .. Cols
NoSize == "none"

\* Messages.  The fields a type does not use are left out.
Request == [type |-> "request"]
Other == [type |-> "other"]             \* any message of another client
Update(S) == [type |-> "update", area |-> S]
Created(s) == [type |-> "created", size |-> s]
Resize(s) == [type |-> "resize", size |-> s]
Key == [type |-> "key"]
Stdout == [type |-> "stdout"]
Clear == [type |-> "clear"]
Quit == [type |-> "quit"]
NoMsg == [type |-> "none"]

WmMessage == {Request, Other} \cup {Update(S) : S \in SUBSET Cell}
FromWm == {Key, Quit} \cup {Created(s) : s \in Size} \cup {Resize(s) : s \in Size}
TermMessage == FromWm \cup {Stdout, Clear}

Room(q) == Len(q) < MSG_QUEUE_SIZE

\* What sys_ipc_send makes of a queue, and of the record of refusals.
Sent(q, m) == IF Room(q) THEN Append(q, m) ELSE q
Refused(q, m) == IF Room(q) THEN {} ELSE {m.type}

\* The terminal's queue after a send; there is none once it has exited.
ToTerm(m) == IF tpc = "dead" THEN tq ELSE Sent(tq, m)

-----------------------------------------------------------------------------
(***************************************************************************)
(* Slips that the properties must notice.                                  *)
(***************************************************************************)
Laid_OldSize(s) == IF win = "alive" /\ s # size THEN <<Resize(size)>> ELSE <<>>
TermCreated_NoUpdate ==
    /\ tpc = "handle"
    /\ msg.type = "created"
    /\ ~ initialized
    /\ tsize' = msg.size
    /\ fresh' = {}
    /\ last_update' = Cell
    /\ initialized' = TRUE
    /\ tpc' = "loop"
    /\ msg' = NoMsg
    /\ UNCHANGED <<wq, tq, wmVars, unseen, lost, input, output>>
Box_FirstOnly(S, T) == IF S = {} THEN T ELSE S
-----------------------------------------------------------------------------

\* The bounding box of two rectangles: mark_dirty and add_dirty_cell.
Box(S, T) ==
    LET both == S \cup T
    IN  {c \in Cell : \E a, b \in both : a <= c /\ c <= b}

\* What the terminal is sent when the layout gives its window size s.
Laid(s) == IF win = "alive" /\ s # size THEN <<Resize(s)>> ELSE <<>>

\* What it is sent when the window is new: the slot still has the size of its last
\* window, if it had one, and layout sends a MSG_WINDOW_RESIZE if s differs.
Opening(s) == {<<Created(s)>>, <<Resize(s), Created(s)>>}

\* The cells on the screen that are right after the area S was copied.
Copied(S) == IF tsize = size THEN fresh \cup S ELSE fresh \ S

Init ==
    /\ wq = <<>>
    /\ tq = <<>>
    /\ phase = "messages"
    /\ todo = <<>>
    /\ redraw = FALSE
    /\ win = "none"
    /\ size = NoSize
    /\ dirty = {}
    /\ tpc = "start"
    /\ msg = NoMsg
    /\ initialized = FALSE
    /\ tsize = NoSize
    /\ last_update = {}
    /\ unseen = FALSE
    /\ fresh = Cell
    /\ lost = {}
    /\ input = 0
    /\ output = 0

-----------------------------------------------------------------------------
(***************************************************************************)
(* The window manager.                                                     *)
(***************************************************************************)

\* It has sent and drawn what it decided to.
Idle == todo = <<>> /\ ~ redraw

\* The next of the messages that it decided to send: each is a system call of its
\* own, and the terminal may run in between.
WmSend ==
    /\ todo # <<>>
    /\ todo' = Tail(todo)
    /\ tq' = ToTerm(Head(todo))
    /\ lost' = lost \cup Refused(tq, Head(todo))
    /\ UNCHANGED <<wq, phase, redraw, win, size, dirty, termVars, fresh, input, output>>

\* wm_handle_new_client for the terminal, up to the first message.  The buffer is
\* shared by a system call before that, which the terminal cannot notice until
\* MSG_WINDOW_CREATED tells it the address.  With no slot left or no memory for the
\* buffer the client hears nothing.
WmNewClient ==
    /\ phase = "messages"
    /\ Idle
    /\ wq # <<>>
    /\ Head(wq).type = "request"
    /\ wq' = Tail(wq)
    /\ \/ \E s \in Size :
             /\ size' = s
             /\ todo' \in Opening(s)
             /\ win' = "alive"
       \/ UNCHANGED <<todo, size, win>>
    /\ redraw' = TRUE
    /\ UNCHANGED <<tq, phase, dirty, termVars, fresh, lost, input, output>>

\* MSG_BUFFER_UPDATE
WmBufferUpdate ==
    /\ phase = "messages"
    /\ Idle
    /\ wq # <<>>
    /\ Head(wq).type = "update"
    /\ wq' = Tail(wq)
    /\ dirty' = IF win = "alive" THEN Box(dirty, Head(wq).area) ELSE dirty
    /\ UNCHANGED <<tq, phase, todo, redraw, win, size, termVars, fresh, lost, input, output>>

\* A message of another client: its window may be a new one, which changes the
\* layout.
WmOtherClient ==
    /\ phase = "messages"
    /\ Idle
    /\ wq # <<>>
    /\ Head(wq).type = "other"
    /\ wq' = Tail(wq)
    /\ \/ /\ input < MaxInput
          /\ input' = input + 1
          /\ \E s \in Size :
                /\ todo' = Laid(s)
                /\ size' = IF win = "alive" THEN s ELSE size
          /\ redraw' = TRUE
       \/ UNCHANGED <<todo, size, redraw, input>>
    /\ UNCHANGED <<tq, phase, win, dirty, termVars, fresh, lost, output>>

\* sys_ipc_recv found nothing: on to the keyboard.
WmMessagesDone ==
    /\ phase = "messages"
    /\ Idle
    /\ wq = <<>>
    /\ phase' = "input"
    /\ UNCHANGED <<wq, tq, todo, redraw, win, size, dirty, termVars, fresh, lost, input, output>>

\* sys_read_key gives out a key only when no message is waiting.
KeyReady == phase = "input" /\ wq = <<>> /\ input < MaxInput

\* sys_read_key returned 0.
WmNoKey ==
    /\ phase = "input"
    /\ phase' = "render"
    /\ UNCHANGED <<wq, tq, todo, redraw, win, size, dirty, termVars, fresh, lost, input, output>>

\* A plain key for the terminal's window, which has the focus.
WmKey ==
    /\ KeyReady
    /\ win = "alive"
    /\ todo' = <<Key>>
    /\ phase' = "render"
    /\ input' = input + 1
    /\ UNCHANGED <<wq, tq, redraw, win, size, dirty, termVars, fresh, lost, output>>

\* wm_focus_next: the borders change, everything is drawn.
WmFocusNext ==
    /\ KeyReady
    /\ redraw' = TRUE
    /\ phase' = "render"
    /\ input' = input + 1
    /\ UNCHANGED <<wq, tq, todo, win, size, dirty, termVars, fresh, lost, output>>

\* wm_kill_focused with the focus on another window: the layout changes.
WmKillOther ==
    /\ KeyReady
    /\ win = "alive"
    /\ \E s \in Size :
          /\ todo' = Laid(s)
          /\ size' = s
    /\ redraw' = TRUE
    /\ phase' = "render"
    /\ input' = input + 1
    /\ UNCHANGED <<wq, tq, win, dirty, termVars, fresh, lost, output>>

\* wm_kill_focused on the terminal's window.
WmKill ==
    /\ KeyReady
    /\ win = "alive"
    /\ todo' = <<Quit>>
    /\ win' = "closed"
    /\ redraw' = TRUE
    /\ phase' = "render"
    /\ input' = input + 1
    /\ UNCHANGED <<wq, tq, size, dirty, termVars, fresh, lost, output>>

\* wm_draw and wm_present: the whole of every window is copied.
WmDraw ==
    /\ todo = <<>> /\ redraw
    /\ redraw' = FALSE
    /\ fresh' = Copied(Cell)
    /\ UNCHANGED <<wq, tq, phase, todo, win, size, dirty, termVars, lost, input, output>>

\* Phase 3: the dirty area is copied.
WmRender ==
    /\ phase = "render"
    /\ Idle
    /\ phase' = "messages"
    /\ IF win = "alive" /\ dirty # {}
       THEN dirty' = {} /\ fresh' = Copied(dirty)
       ELSE UNCHANGED <<dirty, fresh>>
    /\ UNCHANGED <<wq, tq, todo, redraw, win, size, termVars, lost, input, output>>

-----------------------------------------------------------------------------
(***************************************************************************)
(* The terminal.                                                           *)
(***************************************************************************)
TermStart ==
    /\ tpc = "start"
    /\ wq' = Sent(wq, Request)
    /\ lost' = lost \cup Refused(wq, Request)
    /\ tpc' = "loop"
    /\ UNCHANGED <<tq, wmVars, msg, initialized, tsize, last_update, unseen, fresh, input, output>>

\* The font cannot be read, or gfx_init refuses it: sys_exit.
TermFails ==
    /\ \/ tpc = "start"
       \/ tpc = "handle" /\ msg.type = "created" /\ ~ initialized
    /\ tpc' = "dead"
    /\ msg' = NoMsg
    /\ UNCHANGED <<wq, tq, wmVars, initialized, tsize, last_update, unseen, fresh, lost, input, output>>

TermRecv ==
    /\ tpc = "loop"
    /\ tq # <<>>
    /\ msg' = Head(tq)
    /\ tq' = Tail(tq)
    /\ tpc' = "handle"
    /\ UNCHANGED <<wq, wmVars, initialized, tsize, last_update, unseen, fresh, lost, input, output>>

\* The quit request ends the terminal in whatever state it is.
TermQuit ==
    /\ tpc = "handle"
    /\ msg.type = "quit"
    /\ tpc' = "dead"
    /\ msg' = NoMsg
    /\ UNCHANGED <<wq, tq, wmVars, initialized, tsize, last_update, unseen, fresh, lost, input, output>>

\* MSG_WINDOW_CREATED: gfx_init, term_init, the shell, the version strings.
TermCreated ==
    /\ tpc = "handle"
    /\ msg.type = "created"
    /\ ~ initialized
    /\ tsize' = msg.size
    /\ fresh' = {}
    /\ last_update' = Cell
    /\ initialized' = TRUE
    /\ tpc' = "update"
    /\ msg' = NoMsg
    /\ UNCHANGED <<wq, tq, wmVars, unseen, lost, input, output>>

\* MSG_WINDOW_RESIZE: term_resize draws everything again, which sets
\* last_update, and the terminal notifies the window manager by hand.
TermResize ==
    /\ tpc = "handle"
    /\ msg.type = "resize"
    /\ initialized
    /\ tsize' = msg.size
    /\ fresh' = {}
    /\ last_update' = Cell
    /\ tpc' = "notice"
    /\ msg' = NoMsg
    /\ UNCHANGED <<wq, tq, wmVars, initialized, unseen, lost, input, output>>

TermNotice ==
    /\ tpc = "notice"
    /\ wq' = Sent(wq, Update(Cell))
    /\ lost' = lost \cup Refused(wq, Update(Cell))
    /\ unseen' = FALSE
    /\ tpc' = "loop"
    /\ UNCHANGED <<tq, wmVars, msg, initialized, tsize, last_update, fresh, input, output>>

\* MSG_STDOUT_BATCH: the text may be escape codes only, a few cells, or scroll
\* the whole window.
TermWrite ==
    /\ tpc = "handle"
    /\ msg.type = "stdout"
    /\ initialized
    /\ \E S \in SUBSET Cell :
          /\ fresh' = fresh \ S
          /\ last_update' = Box(last_update, S)
    /\ tpc' = "update"
    /\ msg' = NoMsg
    /\ UNCHANGED <<wq, tq, wmVars, initialized, tsize, unseen, lost, input, output>>

\* process_term_update: the rectangle is forgotten whether or not it was sent.
TermUpdate ==
    /\ tpc = "update"
    /\ IF last_update # {}
       THEN /\ wq' = Sent(wq, Update(last_update))
            /\ lost' = lost \cup Refused(wq, Update(last_update))
       ELSE UNCHANGED <<wq, lost>>
    /\ last_update' = {}
    /\ unseen' = FALSE
    /\ tpc' = "loop"
    /\ UNCHANGED <<tq, wmVars, msg, initialized, tsize, fresh, input, output>>

\* MSG_STDOUT_CLEAR: drawn, but the window manager hears of it only with the
\* next text.
TermClear ==
    /\ tpc = "handle"
    /\ msg.type = "clear"
    /\ initialized
    /\ fresh' = {}
    /\ last_update' = Cell
    /\ unseen' = TRUE
    /\ tpc' = "loop"
    /\ msg' = NoMsg
    /\ UNCHANGED <<wq, tq, wmVars, initialized, tsize, lost, input, output>>

\* A key goes to the shell (module Stdio); everything else is ignored.
TermPass ==
    /\ tpc = "handle"
    /\ msg.type \in {"key", "created", "resize", "stdout", "clear"}
    /\ CASE msg.type = "key" -> TRUE
         [] msg.type = "created" -> initialized
         [] OTHER -> ~ initialized
    /\ tpc' = "loop"
    /\ msg' = NoMsg
    /\ UNCHANGED <<wq, tq, wmVars, initialized, tsize, last_update, unseen, fresh, lost, input, output>>

-----------------------------------------------------------------------------

\* The shell and its commands print; other clients talk to the window manager.
\* Both repeat a refused send (stdio.c) or give it up: neither changes a queue.
ShellPrints ==
    /\ output < MaxOutput
    /\ initialized
    /\ tpc # "dead"
    /\ Room(tq)
    /\ \E m \in {Stdout, Clear} : tq' = Append(tq, m)
    /\ output' = output + 1
    /\ UNCHANGED <<wq, wmVars, termVars, fresh, lost, input>>

OtherSends ==
    /\ output < MaxOutput
    /\ Room(wq)
    /\ wq' = Append(wq, Other)
    /\ output' = output + 1
    /\ UNCHANGED <<tq, wmVars, termVars, fresh, lost, input>>

Wm == \/ WmSend \/ WmNewClient \/ WmBufferUpdate \/ WmOtherClient \/ WmMessagesDone
      \/ WmNoKey \/ WmKey \/ WmFocusNext \/ WmKillOther \/ WmKill
      \/ WmDraw \/ WmRender

Term == \/ TermStart \/ TermFails \/ TermRecv \/ TermQuit \/ TermCreated \/ TermResize
        \/ TermNotice \/ TermWrite \/ TermUpdate \/ TermClear \/ TermPass

Next == Wm \/ Term \/ ShellPrints \/ OtherSends

Spec == Init /\ [][Next]_vars

\* The scheduler runs every ready task again and again (EveryTaskRuns of module
\* Sched), so neither program stops while it has a step to take.
FairSpec == Spec /\ WF_vars(Wm) /\ WF_vars(Term)

-----------------------------------------------------------------------------

\* Every variable has its type; in particular the queues keep their bound.
TypeOK ==
    /\ wq \in Seq(WmMessage) /\ Len(wq) <= MSG_QUEUE_SIZE
    /\ tq \in Seq(TermMessage) /\ Len(tq) <= MSG_QUEUE_SIZE
    /\ phase \in {"messages", "input", "render"}
    /\ todo \in Seq(FromWm) /\ Len(todo) <= 2
    /\ redraw \in BOOLEAN
    /\ win \in {"none", "alive", "closed"}
    /\ size \in Size \cup {NoSize}
    /\ dirty \subseteq Cell
    /\ tpc \in {"start", "loop", "handle", "update", "notice", "dead"}
    /\ msg \in TermMessage \cup {NoMsg}
    /\ initialized \in BOOLEAN
    /\ tsize \in Size \cup {NoSize}
    /\ last_update \subseteq Cell
    /\ unseen \in BOOLEAN
    /\ fresh \subseteq Cell
    /\ lost \subseteq {"request", "created", "resize", "update", "key", "quit"}
    /\ input \in 0 .. MaxInput
    /\ output \in 0 .. MaxOutput

\* What the terminal has not handled yet, oldest first.
Ahead == <<msg>> \o tq \o todo

\* The sizes it has yet to hear of.
Announced == {i \in DOMAIN Ahead : Ahead[i].type \in {"created", "resize"}}

\* The terminal draws with the size the window has, or the last size on its way
\* to it is that size: no order of layout changes, the creation message and the
\* terminal's own progress, which ignores sizes until the window is created, leaves
\* it with an older size, unless a full queue refused a message.
SizeAgreed ==
    /\ TypeOK
    /\ win = "alive" /\ tpc # "dead" /\ lost \cap {"created", "resize"} = {} =>
          IF Announced = {}
          THEN initialized /\ tsize = size
          ELSE \E i \in Announced :
                  /\ Ahead[i].size = size
                  /\ \A j \in Announced : j <= i

\* A full copy of the window is on its way or due: the terminal will draw all
\* of it for a size it has yet to hear of, or the window manager is about to.
RepaintDue ==
    \/ redraw /\ tsize = size
    \/ Announced # {}
    \/ tpc = "notice"

\* No cell is forgotten: a cell of the window whose pixels on the screen are
\* not those of the buffer lies in a rectangle that one of the two programs or
\* a queue still holds, unless a full queue refused a message.
NoStaleCell ==
    win = "alive" /\ initialized /\ tpc # "dead"
        /\ lost \cap {"created", "resize", "update"} = {} =>
            \A c \in Cell :
                \/ c \in fresh \cup dirty \cup last_update
                \/ \E i \in DOMAIN wq : wq[i].type = "update" /\ c \in wq[i].area
                \/ RepaintDue

\* Once the user and the programs are quiet the screen shows the buffer, unless
\* a full queue refused a message or the last thing drawn was MSG_STDOUT_CLEAR,
\* which stays invisible until text follows it.
DisplaySettles ==
    <>[](fresh = Cell \/ unseen \/ lost # {} \/ win # "alive" \/ tpc = "dead")
=============================================================================
