------------------------------- MODULE MCTerm -------------------------------
(* Term with glyphs of two pixels by one, in windows of two columns and a margin,
   of one column, and too narrow for any. *)
EXTENDS Term

WindowSizes == {<<5, 2>>, <<2, 3>>, <<1, 2>>}
Codes == [c \in {33, 43} |-> IF c = 33 THEN [fg |-> "yellow"] ELSE [bg |-> "yellow"]]
Printed ==
    [s \in {"NORMAL", "ESC", "CSI", "OSC"} |->
        CASE s = "NORMAL" -> {"x", NEWLINE, BACKSPACE, ESC}
          [] s = "ESC" -> {"[", "]", "x"}
          [] s = "CSI" -> {"3", "4", ";", "m", "x"}
          [] OTHER -> {";", "x", BEL}]
\* Much text and layout with short codes; little text and two long codes.
Cases == {[puts |-> 4, escs |-> 1, lays |-> 2, len |-> 2],
          [puts |-> 1, escs |-> 2, lays |-> 0, len |-> 5]}
ImagePrefix == <<";">>
ImagePaths == {<<"x">>}
=============================================================================
