-------------------------------- MODULE Term --------------------------------
(***************************************************************************)
(* The grid of the terminal emulator (src/userspace/terminal/term.c) with  *)
(* the drawing it does into its window (src/userspace/libgfx/gfx.c): text, *)
(* cursor, scrolling, the parser of escape codes, pictures, resizing and   *)
(* the rectangle of changed pixels that the window manager is told of.     *)
(* Module Display has the messages around it.                              *)
(*                                                                         *)
(* term is the term_t with its graphics context.  The frame buffer fb is   *)
(* an array with rows of width pixels; a pixel of a glyph is the glyph, the*)
(* place in it and the colours, one of a blank is the background.  An      *)
(* access outside text_buffer or fb is undefined: the program is broken    *)
(* and nothing is said of it any more.                                     *)
(***************************************************************************)
EXTENDS Integers, Sequences, FiniteSets, SequencesExt

CONSTANTS
    CW, CH,             \* the size of a glyph in pixels
    Sizes,              \* the sizes of the window: <<width, height>>
    FB,                 \* the number of pixels of the shared buffer
    NPARAMS,            \* the size of ansi_params: 4
    OSC_MAX,            \* the characters osc_buffer takes: 127
    OscImage,           \* the prefix of a picture's path: "69;"
    Pictures,           \* the paths that load_file_to_memory loads a picture from
    PicW, PicH,         \* the size of a picture in pixels
    Ansi,               \* the codes 30-37 and 40-47, each a record [fg] or [bg]
    Output,             \* the characters programs print, by parser state
    Budgets             \* bounds, one of which a behaviour keeps to: characters shown
                        \* (puts), escape codes (escs), resizes and clears (lays), and
                        \* the length of a code (len)

ASSUME TermConstants ==
    /\ CW \in Nat \ {0} /\ CH \in Nat \ {0}
    /\ FB \in Nat /\ PicW \in Nat /\ PicH \in Nat
    /\ NPARAMS \in Nat \ {0} /\ OSC_MAX \in Nat
    /\ \A s \in Sizes : s \in Nat \X Nat /\ s[1] * s[2] <= FB

DEFAULT_BG == "bg"
DEFAULT_FG == "fg"
ESC == "esc"
BEL == "bel"
NEWLINE == "nl"
BACKSPACE == "bs"
Digits == <<"0", "1", "2", "3", "4", "5", "6", "7", "8", "9">>
Digit == [d \in Range(Digits) |-> CHOOSE n \in 0 .. 9 : Digits[n + 1] = d]

VARIABLES
    term,       \* the terminal and its window
    mid,        \* a message is being written
    unsent,     \* pixels that changed since the window manager was last told
    narrow,     \* the window was once smaller than a glyph
    seq,        \* the characters of the escape code so far
    want,       \* the colours that the escape codes so far ask for
    left        \* what is left of the budget

term_vars == <<term, mid, unsent, narrow, seq, want, left>>

-----------------------------------------------------------------------------
(***************************************************************************)
(* Slips that the properties must notice.                                  *)
(***************************************************************************)
Clamped_NotX(t) ==
    [t EXCEPT !.cursor_y = IF @ >= t.rows THEN t.rows - 1 ELSE @]
Semicolon_Stale(t) ==
    IF t.ansi_param_count < NPARAMS - 1 THEN [t EXCEPT !.ansi_param_count = @ + 1] ELSE t
Grown_Narrow(r, x, y) ==
    [r EXCEPT !.x = IF x < @ THEN x ELSE @, !.y = IF y < @ THEN y ELSE @]
-----------------------------------------------------------------------------
(***************************************************************************)
(* Drawing.                                                                *)
(***************************************************************************)

Broken(t) == [t EXCEPT !.broken = TRUE]
Blank == [c |-> " ", fg |-> DEFAULT_FG, bg |-> DEFAULT_BG]

\* The pixel of a glyph at row r and column k.
Pixel(c, fg, bg, r, k) == IF c = " " THEN <<bg>> ELSE <<c, fg, bg, r, k>>

\* The pixels of a box at x, y that gfx_draw_char and gfx_draw_image write: clipped
\* at the right and at the bottom only.
Clip(t, x, y, box) == {p \in box : y + p[1] < t.height /\ x + p[2] < t.width}

Area(w, h) == (0 .. h - 1) \X (0 .. w - 1)

\* fb with val[row, column] written to the pixels of the box at x, y.
Painted(t, x, y, val) ==
    LET ps == Clip(t, x, y, DOMAIN val)
        at(p) == (y + p[1]) * t.width + x + p[2]
    IN  IF \E p \in ps : at(p) \notin DOMAIN t.fb THEN Broken(t)
        ELSE [t EXCEPT !.fb = [i \in DOMAIN @ |->
                IF \E p \in ps : at(p) = i
                THEN LET p == CHOOSE p \in ps : at(p) = i IN val[p]
                ELSE @[i]]]

gfx_clear(t) ==
    [t EXCEPT !.fb = [i \in DOMAIN @ |-> IF i < t.width * t.height THEN <<DEFAULT_BG>> ELSE @[i]]]

\* A rectangle that takes in the cell at pixel x, y too.
Grown(r, x, y) ==
    LET min_x == IF x < r.x THEN x ELSE r.x
        min_y == IF y < r.y THEN y ELSE r.y
        max_x == IF x + CW > r.x + r.w THEN x + CW ELSE r.x + r.w
        max_y == IF y + CH > r.y + r.h THEN y + CH ELSE r.y + r.h
    IN  [x |-> min_x, y |-> min_y, w |-> max_x - min_x, h |-> max_y - min_y, dirty |-> TRUE]

add_dirty_cell(t, col, row) ==
    LET x == col * CW
        y == row * CH
    IN  [t EXCEPT !.last_update =
            IF @.dirty THEN Grown(@, x, y)
            ELSE [x |-> x, y |-> y, w |-> CW, h |-> CH, dirty |-> TRUE]]

AllDirty(t) ==
    [t EXCEPT !.last_update = [x |-> 0, y |-> 0, w |-> t.width, h |-> t.height, dirty |-> TRUE]]

\* text_buffer is NULL when it has no cells: malloc(0).
draw_cell(t, x, y) ==
    LET i == y * t.cols + x
        cell == t.text_buffer[i]
        cur == x = t.cursor_x /\ y = t.cursor_y
        fg == IF cur THEN cell.bg ELSE cell.fg
        bg == IF cur THEN cell.fg ELSE cell.bg
    IN  IF DOMAIN t.text_buffer = {} THEN t
        ELSE IF i \notin DOMAIN t.text_buffer THEN Broken(t)
        ELSE add_dirty_cell(Painted(t, x * CW, y * CH,
                 [p \in Area(CW, CH) |-> Pixel(cell.c, fg, bg, p[1], p[2])]), x, y)

\* Cells that look like the cleared window are left out, but for the cursor's.
Redrawn(t, i, u) ==
    IF \/ t.text_buffer[i].c # " " \/ t.text_buffer[i].bg # DEFAULT_BG
       \/ i % t.cols = t.cursor_x /\ i \div t.cols = t.cursor_y
    THEN draw_cell(u, i % t.cols, i \div t.cols) ELSE u

term_redraw_full(t) ==
    LET Drawn[n \in 0 .. t.cols * t.rows] ==
            IF n = 0 THEN gfx_clear(t) ELSE Redrawn(t, n - 1, Drawn[n - 1])
    IN  AllDirty(Drawn[t.cols * t.rows])

-----------------------------------------------------------------------------
(***************************************************************************)
(* The grid.                                                               *)
(***************************************************************************)

\* A cell set to c in the current colours.
Put(t, x, y, c) ==
    LET i == y * t.cols + x
    IN  IF i \notin DOMAIN t.text_buffer THEN Broken(t)
        ELSE [t EXCEPT !.text_buffer =
                  [@ EXCEPT ![i] = [c |-> c, fg |-> t.fg_color, bg |-> t.bg_color]]]

term_scroll(t) ==
    IF DOMAIN t.text_buffer = {} THEN t
    ELSE LET up == IF t.cursor_y > 0 THEN t.cursor_y - 1 ELSE t.cursor_y
             buf == [i \in DOMAIN t.text_buffer |->
                       IF i + t.cols \in DOMAIN t.text_buffer THEN t.text_buffer[i + t.cols]
                       ELSE [c |-> " ", fg |-> t.fg_color, bg |-> t.bg_color]]
         IN  term_redraw_full([t EXCEPT !.cursor_y = up, !.text_buffer = buf])

\* The cursor after a character, and the cell that was written or erased.
Advanced(t, c) ==
    LET right == [t EXCEPT !.cursor_x = @ + 1]
        back == IF t.cursor_x > 0 THEN [t EXCEPT !.cursor_x = @ - 1]
                ELSE IF t.cursor_y > 0
                     THEN [t EXCEPT !.cursor_y = t.cursor_y - 1, !.cursor_x = t.cols - 1]
                     ELSE t
        next == [t EXCEPT !.cursor_x = 0, !.cursor_y = t.cursor_y + 1]
    IN  CASE c = NEWLINE -> next
          [] c = BACKSPACE -> Put(back, back.cursor_x, back.cursor_y, " ")
          [] OTHER -> Put(IF right.cursor_x >= t.cols THEN next ELSE right,
                          t.cursor_x, t.cursor_y, c)

\* A slip: the cell that the cursor left is not drawn again.
term_put_char_NewOnly(t, c) ==
    LET u == Advanced(t, c)
    IN  IF u.broken THEN u
        ELSE IF u.cursor_y >= u.rows THEN term_scroll(u)
        ELSE draw_cell(u, u.cursor_x, u.cursor_y)

term_put_char(t, c) ==
    LET u == Advanced(t, c)
    IN  IF u.broken THEN u
        ELSE IF u.cursor_y >= u.rows THEN term_scroll(u)
        ELSE draw_cell(draw_cell(u, t.cursor_x, t.cursor_y), u.cursor_x, u.cursor_y)

\* A smaller window takes the cursor with it.
Clamped(t) ==
    [t EXCEPT !.cursor_x = IF t.cursor_x >= t.cols THEN t.cols - 1 ELSE t.cursor_x,
              !.cursor_y = IF t.cursor_y >= t.rows THEN t.rows - 1 ELSE t.cursor_y]

term_resize(t, width, height) ==
    LET cols == width \div CW
        rows == height \div CH
        kept(x, y) == x < t.cols /\ y < t.rows
        buf == [i \in 0 .. cols * rows - 1 |->
                  IF kept(i % cols, i \div cols)
                  THEN t.text_buffer[(i \div cols) * t.cols + (i % cols)] ELSE Blank]
    IN  term_redraw_full(Clamped([t EXCEPT !.width = width, !.height = height, !.cols = cols,
                                           !.rows = rows, !.text_buffer = buf]))

term_clear(t) ==
    LET buf == [i \in DOMAIN t.text_buffer |->
                  [c |-> " ", fg |-> t.fg_color, bg |-> t.bg_color]]
    IN  term_redraw_full([t EXCEPT !.cursor_x = 0, !.cursor_y = 0, !.text_buffer = buf])

-----------------------------------------------------------------------------
(***************************************************************************)
(* The parser.                                                             *)
(***************************************************************************)

apply_ansi_code(t, code) ==
    IF code = 0 THEN [t EXCEPT !.fg_color = DEFAULT_FG, !.bg_color = DEFAULT_BG]
    ELSE IF code \notin DOMAIN Ansi THEN t
    ELSE IF "fg" \in DOMAIN Ansi[code] THEN [t EXCEPT !.fg_color = Ansi[code].fg]
    ELSE [t EXCEPT !.bg_color = Ansi[code].bg]

term_process_ansi_end(t, terminator) ==
    LET Applied[n \in 0 .. t.ansi_param_count] ==
            IF n = 0 THEN t ELSE apply_ansi_code(Applied[n - 1], t.ansi_params[n - 1])
        u == IF terminator # "m" THEN t
             ELSE IF t.ansi_param_count = 0 THEN apply_ansi_code(t, 0)
             ELSE Applied[t.ansi_param_count]
    IN  [u EXCEPT !.ansi_state = "NORMAL", !.ansi_param_count = 0,
                  !.ansi_params = [u.ansi_params EXCEPT ![0] = 0]]

\* The next parameter; those past the last are written on to it.
Semicolon(t) ==
    IF t.ansi_param_count < NPARAMS - 1
    THEN LET n == t.ansi_param_count + 1
         IN  [t EXCEPT !.ansi_param_count = n, !.ansi_params = [t.ansi_params EXCEPT ![n] = 0]]
    ELSE t

InCsi(t, c) ==
    IF c \in DOMAIN Digit
    THEN LET n == t.ansi_param_count
             value == 10 * t.ansi_params[n] + Digit[c]
         IN  [t EXCEPT !.ansi_params = [t.ansi_params EXCEPT ![n] = value]]
    ELSE IF c = ";" THEN Semicolon(t)
    ELSE term_process_ansi_end(
            IF t.ansi_param_count = 0 /\ t.ansi_params[0] = 0 THEN t
            ELSE [t EXCEPT !.ansi_param_count = @ + 1], c)

InEsc(t, c) ==
    CASE c = "[" -> [t EXCEPT !.ansi_state = "CSI", !.ansi_param_count = 0,
                              !.ansi_params = [t.ansi_params EXCEPT ![0] = 0]]
      [] c = "]" -> [t EXCEPT !.ansi_state = "OSC", !.osc_buffer = <<>>]
      [] OTHER -> term_put_char([t EXCEPT !.ansi_state = "NORMAL"], c)

\* An opaque picture: blend_pixel gives the picture's pixel.
gfx_draw_image(t, x, y) == Painted(t, x, y, [p \in Area(PicW, PicH) |-> <<"picture">>])

Picture(t) == AllDirty(gfx_draw_image(t, t.cursor_x * CW, t.cursor_y * CH))

InOsc(t, c) ==
    LET path == SubSeq(t.osc_buffer, Len(OscImage) + 1, Len(t.osc_buffer))
        u == IF IsPrefix(OscImage, t.osc_buffer) /\ path \in Pictures THEN Picture(t) ELSE t
    IN  IF c = BEL THEN [u EXCEPT !.ansi_state = "NORMAL"]
        ELSE IF Len(t.osc_buffer) < OSC_MAX THEN [t EXCEPT !.osc_buffer = Append(@, c)]
        ELSE t

\* One round of the loop of term_write.
Written(t, c) ==
    CASE t.ansi_state = "ESC" -> InEsc(t, c)
      [] t.ansi_state = "OSC" -> InOsc(t, c)
      [] t.ansi_state = "CSI" -> InCsi(t, c)
      [] t.ansi_state = "NORMAL" /\ c = ESC -> [t EXCEPT !.ansi_state = "ESC"]
      [] OTHER -> term_put_char(t, c)

-----------------------------------------------------------------------------
(***************************************************************************)
(* What an escape code asks for, read as a whole: colours after the codes  *)
(* between the semicolons, in order.                                       *)
(***************************************************************************)

Semis(s, n) == Cardinality({i \in 1 .. n : s[i] = ";"})
Params(s) ==
    [k \in 1 .. Semis(s, Len(s)) + 1 |->
        FoldLeft(LAMBDA n, i : IF Semis(s, i) = k - 1 /\ s[i] # ";" THEN 10 * n + Digit[s[i]] ELSE n,
                 0, [i \in 1 .. Len(s) |-> i])]
AskedFor(t, s) == FoldLeft(apply_ansi_code, t, Params(s))

-----------------------------------------------------------------------------
(***************************************************************************)
(* Steps.                                                                  *)
(***************************************************************************)

\* term_init: the window manager gave a window.
TermInit ==
    \E s \in Sizes :
        /\ term = term_resize(
              [width |-> 0, height |-> 0, cols |-> 0, rows |-> 0,
               fb |-> [i \in 0 .. FB - 1 |-> <<>>], text_buffer |-> [i \in {} |-> Blank],
               cursor_x |-> 0, cursor_y |-> 0, fg_color |-> DEFAULT_FG, bg_color |-> DEFAULT_BG,
               last_update |-> [x |-> 0, y |-> 0, w |-> 0, h |-> 0, dirty |-> FALSE],
               ansi_state |-> "NORMAL", ansi_param_count |-> 0,
               ansi_params |-> [i \in 0 .. NPARAMS - 1 |-> 0], osc_buffer |-> <<>>,
               broken |-> FALSE], s[1], s[2])
        /\ narrow = (s[1] < CW \/ s[2] < CH)
        /\ unsent = (0 .. s[1] - 1) \X (0 .. s[2] - 1)
        /\ mid = FALSE
        /\ seq = <<>>
        /\ want = <<DEFAULT_FG, DEFAULT_BG>>
        /\ left \in Budgets

\* The pixels of t's window that differ in u.
Changed(t, u) ==
    {p \in (0 .. t.width - 1) \X (0 .. t.height - 1) :
        t.fb[p[2] * t.width + p[1]] # u.fb[p[2] * t.width + p[1]]}

\* term_write gets to the next character of a message.
Write(c) ==
    LET t == term
        u == Written(t, c)
        shows == t.ansi_state = "NORMAL" /\ c # ESC
        ends == t.ansi_state = "CSI" /\ u.ansi_state = "NORMAL"
    IN  /\ ~t.broken
        /\ shows => left.puts > 0
        /\ c = ESC => left.escs > 0
        /\ t.ansi_state = "CSI" /\ ~ends => Len(seq) < left.len
        /\ term' = u
        /\ mid' = TRUE
        /\ unsent' = unsent \cup Changed(t, u)
        /\ seq' = IF t.ansi_state = "CSI" /\ ~ends THEN Append(seq, c) ELSE <<>>
        /\ want' = IF ends /\ c = "m" /\ Semis(seq, Len(seq)) < NPARAMS
                   THEN <<AskedFor(t, seq).fg_color, AskedFor(t, seq).bg_color>>
                   ELSE IF ends /\ c = "m" THEN <<u.fg_color, u.bg_color>> ELSE want
        /\ left' = [left EXCEPT !.puts = IF shows THEN @ - 1 ELSE @,
                                !.escs = IF c = ESC THEN @ - 1 ELSE @]
        /\ UNCHANGED narrow

\* process_term_update at the end of the message.
Report ==
    /\ mid /\ ~term.broken
    /\ mid' = FALSE
    /\ term' = [term EXCEPT !.last_update = [@ EXCEPT !.dirty = FALSE]]
    /\ unsent' = IF term.last_update.dirty THEN {} ELSE unsent
    /\ UNCHANGED <<narrow, seq, want, left>>

\* MSG_WINDOW_RESIZE: the whole window is reported, last_update is kept.
ResizeGrid(s) ==
    /\ ~mid /\ ~term.broken
    /\ left.lays > 0
    /\ term' = term_resize(term, s[1], s[2])
    /\ unsent' = {}
    /\ narrow' = (narrow \/ s[1] < CW \/ s[2] < CH)
    /\ left' = [left EXCEPT !.lays = @ - 1]
    /\ UNCHANGED <<mid, seq, want>>

\* MSG_STDOUT_CLEAR: nothing is reported before the next message is written.
ClearGrid ==
    /\ ~mid /\ ~term.broken
    /\ left.lays > 0
    /\ term' = term_clear(term)
    /\ unsent' = unsent \cup Changed(term, term_clear(term))
    /\ left' = [left EXCEPT !.lays = @ - 1]
    /\ UNCHANGED <<mid, narrow, seq, want>>

TermNext ==
    \/ \E c \in Output[term.ansi_state] : Write(c)
    \/ Report
    \/ \E s \in Sizes : ResizeGrid(s)
    \/ ClearGrid

TermSpec == TermInit /\ [][TermNext]_term_vars

-----------------------------------------------------------------------------
(***************************************************************************)
(* Properties.                                                             *)
(***************************************************************************)

\* Unless the window was once smaller than a glyph, the cursor is in the grid
\* after any mix of text, scrolling, clearing and resizing, and nothing outside
\* text_buffer or the frame buffer is ever touched.
GridSafe ==
    ~narrow => /\ ~term.broken
               /\ term.cursor_x \in 0 .. term.cols - 1 /\ term.cursor_y \in 0 .. term.rows - 1

\* What pixel x, y of the window of t should show: a cell of the grid, the colours
\* of the cursor's swapped, or the margin.
Shown(t, x, y) ==
    LET col == x \div CW
        row == y \div CH
        cell == t.text_buffer[row * t.cols + col]
        cur == col = t.cursor_x /\ row = t.cursor_y
    IN  IF col >= t.cols \/ row >= t.rows THEN <<DEFAULT_BG>>
        ELSE Pixel(cell.c, IF cur THEN cell.bg ELSE cell.fg, IF cur THEN cell.fg ELSE cell.bg,
                   y % CH, x % CW)

\* Although a character draws two cells only, the window always looks as if all
\* of the grid had been drawn: no trail of the cursor, no cell of an old size or
\* an old line; pictures stay until they are drawn over.
ScreenExact ==
    ~narrow => \A x \in 0 .. term.width - 1, y \in 0 .. term.height - 1 :
                  term.fb[y * term.width + x] \in {Shown(term, x, y), <<"picture">>}

\* Every pixel that changed and that the window manager was not told of is in the
\* rectangle it will be told of with the next message.
DirtyCovers ==
    ~narrow => LET r == term.last_update
               IN  \A p \in unsent : /\ r.dirty
                                     /\ p[1] \in r.x .. r.x + r.w - 1
                                     /\ p[2] \in r.y .. r.y + r.h - 1

\* Escape codes that messages cut anywhere set the colours they ask for, whatever
\* codes came before, as long as they have no more parameters than there is room
\* for.
ColorsRight == <<term.fg_color, term.bg_color>> = want
=============================================================================
