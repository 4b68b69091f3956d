------------------------------ MODULE Terminal ------------------------------
(***************************************************************************)
(* What drivers/tty.c does to one virtual terminal, as operators on its    *)
(* state: a scrollback buffer of MaxScroll rows, the cursor, and the row   *)
(* of the buffer the screen starts at.  Cells are numbered through the     *)
(* buffer, row by row.  Colour, the hardware cursor and the deferral of    *)
(* repaints are left out: they change when and how cells are shown, never  *)
(* which.  Parameters of a control sequence are the small ones the         *)
(* programs of this system send.                                           *)
(***************************************************************************)
LOCAL INSTANCE Integers
LOCAL INSTANCE SequencesExt

CONSTANTS Cols,       \* VGA_WIDTH
          TermRows,   \* TERM_ROWS
          MaxScroll   \* MAX_SCROLL

Blank == " "

terminal_reset == [cells |-> [i \in 0..(MaxScroll * Cols - 1) |-> Blank],
                   x |-> 0, y |-> 0, view |-> 0]

\* The cell under the cursor.
At(t) == t.y * Cols + t.x

\* Past the last row the buffer moves up by one.
ScrollBuffer(t) ==
    IF t.y < MaxScroll THEN t
    ELSE [t EXCEPT !.y = MaxScroll - 1,
                   !.cells = [i \in DOMAIN @ |-> IF i + Cols \in DOMAIN @ THEN @[i + Cols]
                                                 ELSE Blank]]

\* The view follows the cursor only when the cursor leaves it.
FollowCursor(t) ==
    [t EXCEPT !.view = IF t.y > @ + TermRows - 1 THEN t.y - (TermRows - 1)
                       ELSE IF t.y < @ THEN t.y ELSE @]

\* A newline, or a character that wraps at the last column.
terminal_putchar(t, c) ==
    LET stepped ==
          IF c = "\n" THEN [t EXCEPT !.x = 0, !.y = @ + 1]
          ELSE [t EXCEPT !.cells[At(t)] = c,
                         !.x = IF @ + 1 >= Cols THEN 0 ELSE @ + 1,
                         !.y = IF t.x + 1 >= Cols THEN @ + 1 ELSE @]
    IN FollowCursor(ScrollBuffer(stepped))

terminal_write(t, s) == FoldLeft(terminal_putchar, t, s)

Bottom(t) == t.view + TermRows - 1

CUU(t, n) == [t EXCEPT !.y = IF @ > t.view + n THEN @ - n ELSE t.view]
CUD(t, n) == [t EXCEPT !.y = IF @ + n < Bottom(t) THEN @ + n ELSE Bottom(t)]
CUF(t, n) == [t EXCEPT !.x = IF @ + n < Cols THEN @ + n ELSE Cols - 1]
CUB(t, n) == [t EXCEPT !.x = IF @ > n THEN @ - n ELSE 0]

term_row_to_buffer(t, row) == t.view + (IF row > TermRows THEN TermRows ELSE row) - 1

\* ESC [ row ; col H.
CUP(t, row, col) == [t EXCEPT !.y = term_row_to_buffer(t, row),
                              !.x = IF col > Cols THEN Cols - 1 ELSE col - 1]

\* ESC [ K: from the cursor to the end of its row.
EL(t) ==
    [t EXCEPT !.cells = [i \in DOMAIN @ |-> IF i >= At(t) /\ i < (t.y + 1) * Cols
                                            THEN Blank ELSE @[i]]]

\* ESC [ J: from the cursor to the bottom of the view.
ED(t) ==
    [t EXCEPT !.cells = [i \in DOMAIN @ |-> IF i >= At(t) /\ i < (Bottom(t) + 1) * Cols
                                            THEN Blank ELSE @[i]]]

\* Shift-PageUp and Shift-PageDown look elsewhere in the buffer.
terminal_scroll_up(t) == IF t.view > 0 THEN [t EXCEPT !.view = @ - 1] ELSE t
terminal_scroll_down(t) ==
    IF t.view < t.y - (TermRows - 1) THEN [t EXCEPT !.view = @ + 1] ELSE t
=============================================================================
