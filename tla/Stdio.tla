-------------------------------- MODULE Stdio --------------------------------
(***************************************************************************)
(* Standard input and output: the terminal (userspace/terminal/main.c),    *)
(* the shell it starts (userspace/shell/shell.c) and a command the shell   *)
(* starts (userspace/coreutils/ls.c), with the buffered output of          *)
(* userspace/libc/stdio.c between them.  The window manager is the         *)
(* environment: it sends keys and the quit request.                        *)
(*                                                                         *)
(* An action is what a process does up to its next system call.  The       *)
(* characters a program prints are numbered: what the terminal draws can   *)
(* then be compared with what was printed.  A refused send that the        *)
(* program repeats (fflush_internal) changes nothing, so it is a           *)
(* stuttering step.                                                        *)
(***************************************************************************)
EXTENDS Integers, Sequences

CONSTANTS
    MSG_QUEUE_SIZE,
    BATCH_SIZE,
    MaxKeys,        \* bound on the keys the user types
    Lines           \* the lines the command prints

ASSUME StdioConstants ==
    /\ MSG_QUEUE_SIZE \in Nat \ {0}
    /\ BATCH_SIZE \in Nat \ {0}
    /\ MaxKeys \in Nat
    /\ Lines \in Nat

Writer == {"shell", "cmd"}
KeyKind == {"char", "backspace", "enter"}

VARIABLES
    tq,         \* the queue of the terminal
    tpc,        \* where the terminal is
    msg,        \* the message it is handling
    screen,     \* the characters of each program it has drawn
    inq,        \* the queues of the programs
    pc,         \* where each program is
    buf,        \* out_buf: printed and not yet flushed
    made,       \* the characters each program has printed
    job,        \* what a program is printing: owe characters, then what
    typed,      \* keys typed
    closed      \* the user has closed the window

termVars == <<tpc, msg, screen>>
progVars == <<pc, buf, made, job>>
vars == <<tq, termVars, inq, progVars, typed, closed>>

\* Messages.
Key(k) == [type |-> "key", key |-> k]
Quit == [type |-> "quit"]
Clear == [type |-> "clear"]
Handshake == [type |-> "handshake"]
Batch(w, s) == [type |-> "batch", from |-> w, text |-> s]
NoMsg == [type |-> "none"]

Room(q) == Len(q) < MSG_QUEUE_SIZE
Sent(q, m) == IF Room(q) THEN Append(q, m) ELSE q

\* A send to a program; there is none before it is started and after its exit.
Exists(w) == pc[w] \notin {"unborn", "dead"}
ToProgram(w, m) ==
    IF Exists(w) THEN [inq EXCEPT ![w] = Sent(@, m)] ELSE inq

\* Print n characters, the last a newline if nl, and go on at next.
Printing(n, nl, next) == [owe |-> n, nl |-> nl, next |-> next]

-----------------------------------------------------------------------------
(***************************************************************************)
(* Slips that the properties must notice.                                  *)
(***************************************************************************)
Flush_NoRetry(w) ==
    /\ pc[w] = "flush"
    /\ tq' = IF tpc # "dead" THEN Sent(tq, Batch(w, buf[w])) ELSE tq
    /\ buf' = [buf EXCEPT ![w] = <<>>]
    /\ pc' = [pc EXCEPT ![w] = IF job[w].owe > 0 THEN "put" ELSE job[w].next]
    /\ UNCHANGED <<termVars, inq, made, job, typed, closed>>
Exec_NoHandshake ==
    /\ pc["shell"] = "command"
    /\ pc["cmd"] = "unborn"
    /\ pc' = [pc EXCEPT !["cmd"] = "init", !["shell"] = "put"]
    /\ job' = [job EXCEPT !["shell"] = Printing(1, FALSE, "getchar")]
    /\ UNCHANGED <<tq, termVars, inq, buf, made, typed, closed>>
-----------------------------------------------------------------------------

\* putchar flushes a full buffer and after a newline.
FlushDue(w, s) == Len(s) >= BATCH_SIZE \/ (job[w].owe = 1 /\ job[w].nl)

Init ==
    /\ tq = <<>>
    /\ tpc = "created"
    /\ msg = NoMsg
    /\ screen = [w \in Writer |-> <<>>]
    /\ inq = [w \in Writer |-> <<>>]
    /\ pc = [w \in Writer |-> "unborn"]
    /\ buf = [w \in Writer |-> <<>>]
    /\ made = [w \in Writer |-> 0]
    /\ job = [w \in Writer |-> Printing(0, FALSE, "init")]
    /\ typed = 0
    /\ closed = FALSE

-----------------------------------------------------------------------------
(***************************************************************************)
(* The window manager.                                                     *)
(***************************************************************************)

\* A key, dropped when the queue is full.
UserTypes(k) ==
    /\ ~ closed
    /\ tpc # "dead"
    /\ typed < MaxKeys
    /\ typed' = typed + 1
    /\ tq' = Sent(tq, Key(k))
    /\ UNCHANGED <<termVars, inq, progVars, closed>>

\* wm_kill_focused; the request, too, is dropped when the queue is full.
UserCloses ==
    /\ ~ closed
    /\ closed' = TRUE
    /\ tq' = Sent(tq, Quit)
    /\ UNCHANGED <<termVars, inq, progVars, typed>>

-----------------------------------------------------------------------------
(***************************************************************************)
(* The terminal.                                                           *)
(***************************************************************************)

\* sys_exec of the shell when the window exists; on failure shell_pid is -1.
TermExec ==
    /\ tpc = "created"
    /\ \/ pc' = [pc EXCEPT !["shell"] = "init"]
       \/ UNCHANGED pc
    /\ tpc' = "handshake"
    /\ UNCHANGED <<tq, msg, screen, inq, buf, made, job, typed, closed>>

TermHandshake ==
    /\ tpc = "handshake"
    /\ inq' = ToProgram("shell", Handshake)
    /\ tpc' = "loop"
    /\ UNCHANGED <<tq, msg, screen, progVars, typed, closed>>

TermRecv ==
    /\ tpc = "loop"
    /\ tq # <<>>
    /\ msg' = Head(tq)
    /\ tq' = Tail(tq)
    /\ tpc' = "handle"
    /\ UNCHANGED <<screen, inq, progVars, typed, closed>>

\* MSG_KEY_EVENT goes on to the shell, and is dropped when its queue is full.
TermKey ==
    /\ tpc = "handle"
    /\ msg.type = "key"
    /\ inq' = ToProgram("shell", msg)
    /\ tpc' = "loop"
    /\ msg' = NoMsg
    /\ UNCHANGED <<tq, screen, progVars, typed, closed>>

\* MSG_STDOUT_BATCH is drawn.
TermDraw ==
    /\ tpc = "handle"
    /\ msg.type = "batch"
    /\ screen' = [screen EXCEPT ![msg.from] = @ \o msg.text]
    /\ tpc' = "loop"
    /\ msg' = NoMsg
    /\ UNCHANGED <<tq, inq, progVars, typed, closed>>

\* MSG_STDOUT_CLEAR empties the grid (module Display).
TermClear ==
    /\ tpc = "handle"
    /\ msg.type = "clear"
    /\ tpc' = "loop"
    /\ msg' = NoMsg
    /\ UNCHANGED <<tq, screen, inq, progVars, typed, closed>>

\* MSG_QUIT_REQUEST: forwarded to the shell, then the terminal ends.
TermForwardQuit ==
    /\ tpc = "handle"
    /\ msg.type = "quit"
    /\ inq' = ToProgram("shell", Quit)
    /\ tpc' = "exit"
    /\ UNCHANGED <<tq, msg, screen, progVars, typed, closed>>

TermExit ==
    /\ tpc = "exit"
    /\ tpc' = "dead"
    /\ msg' = NoMsg
    /\ tq' = <<>>
    /\ UNCHANGED <<screen, inq, progVars, typed, closed>>

-----------------------------------------------------------------------------
(***************************************************************************)
(* stdio.c, for the shell and the command.                                 *)
(***************************************************************************)

\* stdio_init drops everything until the handshake.
StdioInit(w) ==
    /\ pc[w] = "init"
    /\ inq[w] # <<>>
    /\ inq' = [inq EXCEPT ![w] = Tail(@)]
    /\ IF Head(inq[w]) = Handshake
       THEN /\ pc' = [pc EXCEPT ![w] = IF w = "cmd" /\ Lines = 0 THEN "dead" ELSE "put"]
            /\ job' = [job EXCEPT ![w] =
                          IF w = "shell" THEN Printing(1, TRUE, "prompt")
                                         ELSE Printing(2, TRUE, "next")]
       ELSE UNCHANGED <<pc, job>>
    /\ UNCHANGED <<tq, termVars, buf, made, typed, closed>>

\* putchar
PutChar(w) ==
    LET text == Append(buf[w], made[w] + 1)
    IN  /\ pc[w] = "put"
        /\ job[w].owe > 0
        /\ made' = [made EXCEPT ![w] = @ + 1]
        /\ buf' = [buf EXCEPT ![w] = text]
        /\ job' = [job EXCEPT ![w].owe = @ - 1]
        /\ pc' = [pc EXCEPT ![w] = IF FlushDue(w, text) THEN "flush"
                                   ELSE IF job[w].owe = 1 THEN job[w].next
                                   ELSE "put"]
        /\ UNCHANGED <<tq, termVars, inq, typed, closed>>

\* fflush_internal, the send that is accepted.
Flush(w) ==
    /\ pc[w] = "flush"
    /\ tpc # "dead"
    /\ Room(tq)
    /\ tq' = Append(tq, Batch(w, buf[w]))
    /\ buf' = [buf EXCEPT ![w] = <<>>]
    /\ pc' = [pc EXCEPT ![w] = IF job[w].owe > 0 THEN "put" ELSE job[w].next]
    /\ UNCHANGED <<termVars, inq, made, job, typed, closed>>

-----------------------------------------------------------------------------
(***************************************************************************)
(* The shell.                                                              *)
(***************************************************************************)

\* The prompt ends without a newline: getchar flushes it.
Prompt ==
    /\ pc["shell"] = "prompt"
    /\ pc' = [pc EXCEPT !["shell"] = "put"]
    /\ job' = [job EXCEPT !["shell"] = Printing(1, FALSE, "getchar")]
    /\ UNCHANGED <<tq, termVars, inq, buf, made, typed, closed>>

GetcharFlush ==
    /\ pc["shell"] = "getchar"
    /\ buf["shell"] # <<>>
    /\ pc' = [pc EXCEPT !["shell"] = "flush"]
    /\ UNCHANGED <<tq, termVars, inq, buf, made, job, typed, closed>>

\* A key is echoed; a backspace rubs out with three characters, or does nothing
\* at the start of the line.
GetcharKey ==
    LET m == Head(inq["shell"])
    IN  /\ pc["shell"] = "getchar"
        /\ buf["shell"] = <<>>
        /\ inq["shell"] # <<>>
        /\ m.type = "key"
        /\ inq' = [inq EXCEPT !["shell"] = Tail(@)]
        /\ \/ /\ m.key = "enter"
              /\ job' = [job EXCEPT !["shell"] = Printing(1, TRUE, "command")]
              /\ pc' = [pc EXCEPT !["shell"] = "put"]
           \/ /\ m.key \in {"char", "backspace"}
              /\ job' = [job EXCEPT !["shell"] =
                            Printing(IF m.key = "char" THEN 1 ELSE 3, FALSE, "getchar")]
              /\ pc' = [pc EXCEPT !["shell"] = "put"]
           \/ /\ m.key = "backspace"
              /\ UNCHANGED <<pc, job>>
        /\ UNCHANGED <<tq, termVars, buf, made, typed, closed>>

\* The quit request is the end of file, and the shell's end.
GetcharQuit ==
    /\ pc["shell"] = "getchar"
    /\ buf["shell"] = <<>>
    /\ inq["shell"] # <<>>
    /\ Head(inq["shell"]) = Quit
    /\ inq' = [inq EXCEPT !["shell"] = <<>>]
    /\ pc' = [pc EXCEPT !["shell"] = "dead"]
    /\ UNCHANGED <<tq, termVars, buf, made, job, typed, closed>>

\* An empty line; a built-in that prints a line (help, a failed cd, a command
\* that cannot be run).
BuiltIn ==
    /\ pc["shell"] = "command"
    /\ \/ /\ pc' = [pc EXCEPT !["shell"] = "prompt"]
          /\ UNCHANGED job
       \/ /\ pc' = [pc EXCEPT !["shell"] = "put"]
          /\ job' = [job EXCEPT !["shell"] = Printing(2, TRUE, "prompt")]
    /\ UNCHANGED <<tq, termVars, inq, buf, made, typed, closed>>

\* clear: one send, not repeated when it is refused.
ClearScreen ==
    /\ pc["shell"] = "command"
    /\ tq' = IF tpc # "dead" THEN Sent(tq, Clear) ELSE tq
    /\ pc' = [pc EXCEPT !["shell"] = "prompt"]
    /\ UNCHANGED <<termVars, inq, buf, made, job, typed, closed>>

\* A command: sys_exec, then the handshake that names the terminal.
Exec ==
    /\ pc["shell"] = "command"
    /\ pc["cmd"] = "unborn"
    /\ pc' = [pc EXCEPT !["cmd"] = "init", !["shell"] = "greet"]
    /\ UNCHANGED <<tq, termVars, inq, buf, made, job, typed, closed>>

Greet ==
    /\ pc["shell"] = "greet"
    /\ inq' = ToProgram("cmd", Handshake)
    /\ pc' = [pc EXCEPT !["shell"] = "prompt"]
    /\ UNCHANGED <<tq, termVars, buf, made, job, typed, closed>>

\* The command prints its lines and exits.
CmdNext ==
    /\ pc["cmd"] = "next"
    /\ IF made["cmd"] < 2 * Lines
       THEN /\ pc' = [pc EXCEPT !["cmd"] = "put"]
            /\ job' = [job EXCEPT !["cmd"] = Printing(2, TRUE, "next")]
       ELSE /\ pc' = [pc EXCEPT !["cmd"] = "dead"]
            /\ UNCHANGED job
    /\ UNCHANGED <<tq, termVars, inq, buf, made, typed, closed>>

Term == \/ TermExec \/ TermHandshake \/ TermRecv \/ TermKey \/ TermDraw
        \/ TermClear \/ TermForwardQuit \/ TermExit

Library(w) == StdioInit(w) \/ PutChar(w) \/ Flush(w)

Shell == \/ Library("shell") \/ Prompt \/ GetcharFlush \/ GetcharKey
         \/ GetcharQuit \/ BuiltIn \/ ClearScreen \/ Exec \/ Greet

Cmd == Library("cmd") \/ CmdNext

Next == \/ \E k \in KeyKind : UserTypes(k)
        \/ UserCloses
        \/ Term \/ Shell \/ Cmd

Spec == Init /\ [][Next]_vars

\* Every program runs again and again (EveryTaskRuns of module Sched).
FairSpec == Spec /\ WF_vars(Term) /\ WF_vars(Shell) /\ WF_vars(Cmd)

-----------------------------------------------------------------------------

\* Every variable has its type; in particular out_buf is never overrun.
TypeOK ==
    /\ Len(tq) <= MSG_QUEUE_SIZE
    /\ tpc \in {"created", "handshake", "loop", "handle", "exit", "dead"}
    /\ \A w \in Writer :
          /\ Len(inq[w]) <= MSG_QUEUE_SIZE
          /\ pc[w] \in {"unborn", "init", "put", "flush", "prompt", "getchar",
                        "command", "greet", "next", "dead"}
          /\ buf[w] \in Seq(1 .. made[w])
          /\ Len(buf[w]) <= BATCH_SIZE
          /\ job[w].owe \in 0 .. 3
    /\ typed \in 0 .. MaxKeys
    /\ closed \in BOOLEAN

\* The characters of w in a message.
Text(w, m) == IF m.type = "batch" /\ m.from = w THEN m.text ELSE <<>>

\* The characters of w in the first n messages of the queue.
InQueue[w \in Writer, n \in 0 .. MSG_QUEUE_SIZE] ==
    IF n = 0 THEN <<>> ELSE InQueue[w, n - 1] \o Text(w, tq[n])

\* Nothing a program prints is lost, doubled or reordered on its way through
\* out_buf, the retries of fflush_internal and the terminal's queue, however the
\* shell, its command and the keys interleave, as long as the terminal lives.
StreamsIntact ==
    /\ TypeOK
    /\ tpc # "dead" => \A w \in Writer :
          screen[w] \o Text(w, msg) \o InQueue[w, Len(tq)] \o buf[w]
              = [i \in 1 .. made[w] |-> i]

\* No one waits for ever while the terminal lives: the shell comes back for the
\* next key and the command ends, whatever the queues hold.
ProgramsProgress ==
    /\ pc["shell"] = "init" ~> (pc["shell"] = "getchar" \/ tpc = "dead")
    /\ pc["shell"] = "command" ~> (pc["shell"] = "getchar" \/ tpc = "dead")
    /\ pc["cmd"] = "init" ~> (pc["cmd"] = "dead" \/ tpc = "dead")
=============================================================================
