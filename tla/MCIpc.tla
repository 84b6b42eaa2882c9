------------------------------- MODULE MCIpc -------------------------------
(* Two processes that send to each other and to themselves without limit and no
   keys; or a few messages and a keyboard with two modifiers behind the prefix, two
   without, one letter, and the Enter of the keypad. *)
EXTENDS Keyboard

KeyTable ==
    [k \in {"LShift", "RShift", "LAlt", "RCtrl", "Super", "A", "KeypadEnter"} |->
        CASE k = "LShift" -> [code |-> \h2A, e0 |-> FALSE, mod |-> "shift"]
          [] k = "RShift" -> [code |-> \h36, e0 |-> FALSE, mod |-> "shift"]
          [] k = "LAlt" -> [code |-> \h38, e0 |-> FALSE, mod |-> "alt"]
          [] k = "RCtrl" -> [code |-> \h1D, e0 |-> TRUE, mod |-> "ctrl"]
          [] k = "Super" -> [code |-> \h5B, e0 |-> TRUE, mod |-> "super"]
          [] k = "A" -> [code |-> \h1E, e0 |-> FALSE, mod |-> ""]
          [] k = "KeypadEnter" -> [code |-> \h1C, e0 |-> TRUE, mod |-> ""]]
Plain == [c \in {\h1C, \h1E} |-> IF c = \h1E THEN "a" ELSE "newline"]
Shifted == [c \in {\h1C, \h1E} |-> IF c = \h1E THEN "A" ELSE "newline"]
Cases == {[strokes |-> 0, calls |-> -1], [strokes |-> 4, calls |-> 3]}
=============================================================================
