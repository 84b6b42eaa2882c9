------------------------------ MODULE Keyboard ------------------------------
(***************************************************************************)
(* The keyboard from the wire to the program: the interrupt handler and    *)
(* the ring of src/src/drivers/keyboard.c, and sys_read_key of             *)
(* src/src/syscall/sys_io.c, which reads the ring only when no message     *)
(* waits for the caller.  The messages are those of Ipc.                   *)
(*                                                                         *)
(* The keyboard itself is external: a key sends its codes when it goes     *)
(* down, again while it stays down, and when it goes up; the controller    *)
(* keeps them in order and raises one interrupt for each.  System calls and*)
(* the handler run with interrupts disabled, so each is one step.          *)
(***************************************************************************)
EXTENDS Ipc

CONSTANTS
    Reader,         \* the process that calls sys_read_key: the window manager
    Keys,           \* by name: [code, e0, mod], mod being "" for a key with a character
    scancode_map,   \* the characters, by code, without and with shift
    scancode_map_shifted,
    KEYBOARD_RING_BUFFER_SIZE,
    MaxWire,        \* bound: codes waiting in the controller
    Budgets         \* bounds, one of which a behaviour keeps to: [strokes, calls], with
                    \* calls = -1 for any number of system calls about messages

ASSUME KeyboardConstants ==
    /\ Reader \in Pid
    /\ KEYBOARD_RING_BUFFER_SIZE \in Nat \ {0, 1} /\ MaxWire \in Nat
    /\ DOMAIN scancode_map = DOMAIN scancode_map_shifted

NoKey == <<>>
Modifier == {"shift", "ctrl", "alt", "super"}

\* The keys of the keyboard: no code is the prefix, going down or up, the modifiers
\* have the codes of scan code set 1, and the other keys without a prefix have a
\* character.
ASSUME KeyboardKeys ==
    \A k \in DOMAIN Keys :
        LET code == Keys[k].code
            mod == Keys[k].mod
        IN  /\ code \in 1 .. \h7F /\ code # \h60 /\ Keys[k].e0 \in BOOLEAN
            /\ mod \in Modifier \cup {""}
            /\ mod = "shift" <=> code \in {\h2A, \h36}
            /\ mod = "ctrl" <=> code = \h1D
            /\ mod = "alt" <=> code = \h38
            /\ mod = "super" <=> code = \h5B /\ Keys[k].e0
            /\ mod = "" /\ ~ Keys[k].e0 => code \in DOMAIN scancode_map

VARIABLES
    kb,         \* the driver: ring, kb_head, kb_tail, mods, e0_prefix
    down,       \* the keys that are down
    wire,       \* [code, means]: means is what the stroke that ends here should give
    kept,       \* history: the keys that should be waiting
    twin,       \* history: two keys of one modifier were down at once
    left        \* what is left of the budget

kbVars == <<kb, down, wire, kept, twin>>

-----------------------------------------------------------------------------
(***************************************************************************)
(* Slips that the properties must notice.                                  *)
(***************************************************************************)
keyboard_buffer_write_Over(k, data) ==
    [k EXCEPT !.ring = [@ EXCEPT ![k.head] = data],
              !.head = (@ + 1) % KEYBOARD_RING_BUFFER_SIZE]
-----------------------------------------------------------------------------

keyboard_buffer_write(k, data) ==
    LET next_head == (k.head + 1) % KEYBOARD_RING_BUFFER_SIZE
    IN  IF next_head = k.tail THEN k
        ELSE [k EXCEPT !.ring = [@ EXCEPT ![k.head] = data], !.head = next_head]

\* The codes that set and clear a modifier; super only after the prefix.
Sets(k, code) ==
    CASE code \in {\h2A, \h36} -> "shift"
      [] code = \h1D -> "ctrl"
      [] code = \h38 -> "alt"
      [] code = \h5B /\ k.e0_prefix -> "super"
      [] OTHER -> ""

\* keyboard_handler
keyboard_handler(k, code) ==
    LET release == code >= \h80
        mod == Sets(k, code % \h80)
        plain == [k EXCEPT !.e0_prefix = FALSE]
        map == IF "shift" \in k.mods THEN scancode_map_shifted ELSE scancode_map
    IN  IF code = \hE0 THEN [k EXCEPT !.e0_prefix = TRUE]
        ELSE IF mod # "" THEN [plain EXCEPT !.mods = IF release THEN @ \ {mod} ELSE @ \cup {mod}]
        ELSE IF release \/ k.e0_prefix \/ code \notin DOMAIN scancode_map THEN plain
        ELSE keyboard_buffer_write(plain, <<map[code], k.mods>>)

\* The next code: the interrupt.
Irq ==
    LET w == Head(wire)
    IN  /\ wire # <<>>
        /\ wire' = Tail(wire)
        /\ kb' = keyboard_handler(kb, w.code)
        /\ kept' = IF w.means # NoKey /\ Len(kept) < KEYBOARD_RING_BUFFER_SIZE - 1
                   THEN Append(kept, w.means) ELSE kept
        /\ UNCHANGED <<vars, down, twin, left>>

\* keyboard_read_key
keyboard_read_key(k) ==
    IF k.head = k.tail THEN k
    ELSE [k EXCEPT !.tail = (@ + 1) % KEYBOARD_RING_BUFFER_SIZE]

\* sys_read_key
ReadKey ==
    /\ Reader \in Alive
    /\ msg_count[Reader] = 0
    /\ kb' = keyboard_read_key(kb)
    /\ kept' = IF kept = <<>> THEN kept ELSE Tail(kept)
    /\ UNCHANGED <<vars, down, wire, twin, left>>

-----------------------------------------------------------------------------

\* The modifiers of the keys in ks.
Held(ks) == {Keys[k].mod : k \in ks} \ {""}

\* What a stroke of k should give: its character and the modifiers held.  The keys
\* behind the prefix give nothing.
Meant(k) ==
    IF Keys[k].mod # "" \/ Keys[k].e0 THEN NoKey
    ELSE <<IF "shift" \in Held(down) THEN scancode_map_shifted[Keys[k].code]
           ELSE scancode_map[Keys[k].code], Held(down)>>

Sent(k, code, means) ==
    wire \o (IF Keys[k].e0 THEN <<[code |-> \hE0, means |-> NoKey]>> ELSE <<>>)
         \o <<[code |-> code, means |-> means]>>

Stroke == left.strokes > 0 /\ Len(wire) < MaxWire /\ left' = [left EXCEPT !.strokes = @ - 1]

\* Key k goes down, or is still down and repeats.
Press(k) ==
    /\ Stroke
    /\ wire' = Sent(k, Keys[k].code, Meant(k))
    /\ down' = down \cup {k}
    /\ twin' = (twin \/ \E j \in down \ {k} : Keys[j].mod = Keys[k].mod /\ Keys[k].mod # "")
    /\ UNCHANGED <<vars, kb, kept>>

Release(k) ==
    /\ k \in down
    /\ Stroke
    /\ wire' = Sent(k, Keys[k].code + \h80, NoKey)
    /\ down' = down \ {k}
    /\ UNCHANGED <<vars, kb, kept, twin>>

\* The system calls of Ipc.
Messages ==
    /\ left.calls # 0
    /\ Next
    /\ left' = [left EXCEPT !.calls = IF @ > 0 THEN @ - 1 ELSE @]
    /\ UNCHANGED kbVars

KeyInit ==
    /\ Init
    /\ kb = [ring |-> [i \in 0 .. KEYBOARD_RING_BUFFER_SIZE - 1 |-> NoKey],
             head |-> 0, tail |-> 0, mods |-> {}, e0_prefix |-> FALSE]
    /\ down = {} /\ wire = <<>> /\ kept = <<>> /\ twin = FALSE
    /\ left \in Budgets

KeyNext ==
    \/ Messages
    \/ \E k \in DOMAIN Keys : Press(k) \/ Release(k)
    \/ Irq
    \/ ReadKey

KeySpec == KeyInit /\ [][KeyNext]_<<vars, kbVars, left>>

-----------------------------------------------------------------------------

\* The keys between kb_tail and kb_head, oldest first.
Waiting ==
    LET n == (kb.head + KEYBOARD_RING_BUFFER_SIZE - kb.tail) % KEYBOARD_RING_BUFFER_SIZE
    IN  [i \in 1 .. n |-> kb.ring[(kb.tail + i - 1) % KEYBOARD_RING_BUFFER_SIZE]]

\* The keys waiting for sys_read_key are the strokes made, in order, each with the
\* modifiers that were held when it was made, however strokes, interrupts, reads
\* and messages interleave; a key is dropped only when the ring has one slot left,
\* and none is doubled.  Two keys of one modifier held at once, of which one goes
\* up, are beyond the driver.
KeysRight == ~twin => Waiting = kept
=============================================================================
