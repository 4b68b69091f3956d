-------------------------------- MODULE Edit --------------------------------
(***************************************************************************)
(* The text editor: apps/bin/edit.c (modes, keys, the window) over         *)
(* include/editbuf.h (line arithmetic, searching and the undo log).        *)
(* The text is a sequence of characters; an offset n names the place       *)
(* after the first n of them.  The frame the window is drawn with,         *)
(* messages and the typing of a command or a pattern are left out: the     *)
(* command or pattern is chosen, and gg and dd are one step (the first key *)
(* only sets a flag that any other key clears).  Reading, writing and the  *)
(* "unsaved changes" flag are left out.                                    *)
(***************************************************************************)
EXTENDS Integers, Sequences, FiniteSets, SequencesExt, Terminal

CONSTANTS Chars,      \* printable characters of the instance
          Cap,        \* EDIT_MAX_BYTES
          NameWidth,  \* columns of the status line outside insert mode
          RecCap,     \* EDIT_UNDO_RECS
          ArenaCap,   \* EDIT_UNDO_ARENA
          Patterns    \* what is searched for

VARIABLES text, cursor,
          top, leftcol,  \* the window: offset of its first line, first column
          want,          \* want_col
          mode,          \* "normal" or "insert"
          log,           \* the undo records, oldest first
          fresh,         \* in insert mode: its group has no record in the log yet
          opened         \* history: in insert mode, the text when that group was opened

editVars == <<text, cursor, top, leftcol, want, mode, log, fresh, opened>>

Newline == "\n"
EditRows == TermRows - 1   \* EDIT_ROWS, the last row is the status line
NoOffset == -1

-----------------------------------------------------------------------------
\* editbuf.h: lines.

Newlines(t, from, to) == {p \in (from + 1)..to : t[p] = Newline}

eb_line_start(t, off) == Max({0} \cup Newlines(t, 0, off))

eb_line_end(t, off) == Min({Len(t)} \cup {p - 1 : p \in Newlines(t, off, Len(t))})

eb_col(t, off) == off - eb_line_start(t, off)

eb_next_line(t, off) == IF eb_line_end(t, off) >= Len(t) THEN NoOffset ELSE eb_line_end(t, off) + 1

eb_prev_line(t, off) ==
    IF eb_line_start(t, off) = 0 THEN NoOffset ELSE eb_line_start(t, eb_line_start(t, off) - 1)

eb_clamp_to_line(t, start, col) == Min({start + col, eb_line_end(t, start)})

\* The start of line n, or of the last one.
eb_goto_line(t, n) ==
    FoldLeft(LAMBDA off, i : IF eb_next_line(t, off) = NoOffset THEN off ELSE eb_next_line(t, off),
             0, [i \in 1..(n - 1) |-> i])

\* What deleting a line removes: its newline with it, or the one before it.
eb_line_span(t, off) ==
    LET start == eb_line_start(t, off)
        end == eb_line_end(t, off)
    IN IF end < Len(t) THEN [from |-> start, to |-> end + 1]
       ELSE [from |-> IF start > 0 THEN start - 1 ELSE start, to |-> end]

eb_insert(t, off, c) == SubSeq(t, 1, off) \o <<c>> \o SubSeq(t, off + 1, Len(t))

Cut(t, from, to) == SubSeq(t, 1, from) \o SubSeq(t, to + 1, Len(t))

eb_match_at(t, pat, off) == off + Len(pat) <= Len(t) /\ SubSeq(t, off + 1, off + Len(pat)) = pat

MatchesIn(t, pat) == {off \in 0..Len(t) : eb_match_at(t, pat, off)}

\* The nearest match strictly after (before) an offset, going round the end.
eb_find_next(t, pat, from) ==
    LET m == MatchesIn(t, pat)
        after == {off \in m : off > from}
    IN IF m = {} THEN NoOffset ELSE Min(IF after # {} THEN after ELSE m)

eb_find_prev(t, pat, from) ==
    LET m == MatchesIn(t, pat)
        before == {off \in m : off < from}
    IN IF m = {} THEN NoOffset ELSE Max(IF before # {} THEN before ELSE m)

-----------------------------------------------------------------------------
\* editbuf.h: the undo log.  A record is the bytes put at an offset (how many) and the
\* bytes taken from there (which); "joins" says it belongs to the group of the record
\* before it, "before" and "opened" remember the text when it was made and when its
\* group was opened.

ArenaUsed(l) == FoldLeft(LAMBDA n, r : n + Len(r.removed), 0, l)

\* The records after the oldest group.
eb_undo_drop_oldest(l) ==
    LET heads == {i \in 2..Len(l) : ~l[i].joins}
    IN IF heads = {} THEN << >> ELSE SubSeq(l, Min(heads), Len(l))

HasRoom(l, need) == Len(l) < RecCap /\ ArenaUsed(l) + need <= ArenaCap

\* As many of the oldest groups as it takes; at most RecCap of them.
eb_undo_room(l, need) ==
    FoldLeft(LAMBDA m, i : IF HasRoom(m, need) THEN m ELSE eb_undo_drop_oldest(m),
             l, [i \in 1..RecCap |-> i])

\* Mutant: a change continues the last record wherever it is.
ContinuesAnywhere(off, ins, removed, new) ==
    /\ ins > 0 /\ removed = << >> /\ log # << >> /\ ~fresh /\ ~new
    /\ Last(log).removed = << >>

\* Typing on where the last record ends grows that record.
Continues(off, ins, removed, new) ==
    /\ ins > 0 /\ removed = << >> /\ log # << >> /\ ~fresh /\ ~new
    /\ Last(log).removed = << >> /\ off = Last(log).off + Last(log).ins

\* new: the key has opened a group for this change.
eb_undo_push(off, ins, removed, c, new) ==
    IF Continues(off, ins, removed, new)
    THEN [log EXCEPT ![Len(log)].ins = @ + ins]
    ELSE IF Len(removed) > ArenaCap THEN << >>
    ELSE LET kept == eb_undo_room(log, Len(removed))
         IN Append(kept, [off |-> off, ins |-> ins, removed |-> removed, cursor |-> c,
                          joins |-> ~fresh /\ ~new /\ kept # << >>, before |-> text,
                          opened |-> IF new THEN text ELSE opened])

\* A record run backwards.
Undone(t, r) == SubSeq(t, 1, r.off) \o r.removed \o SubSeq(t, r.off + r.ins + 1, Len(t))

\* The text with the records from i on taken back, newest first.
Rewound(i) == FoldRight(LAMBDA r, t : Undone(t, r), SubSeq(log, i, Len(log)), text)

GroupStart == Max({i \in DOMAIN log : i = 1 \/ ~log[i].joins})

-----------------------------------------------------------------------------
\* The window.

\* The first line moves up to the cursor, or down until the cursor is EditRows - 1 below.
scroll_to_cursor(t, c, first) ==
    LET from == IF c < first THEN eb_line_start(t, c) ELSE first
        below == Newlines(t, from, c)
    IN IF Cardinality(below) < EditRows THEN from
       ELSE CHOOSE p \in below : Cardinality({q \in below : q > p}) = EditRows - 1

scroll_columns(col) ==
    IF col < leftcol THEN col
    ELSE IF col >= leftcol + Cols THEN col - Cols + 1 ELSE leftcol

\* Every key ends with the window brought to the cursor and drawn.
Drawn ==
    /\ top' = scroll_to_cursor(text', cursor', top)
    /\ leftcol' = scroll_columns(eb_col(text', cursor'))

\* An offset in the line each row of the window shows; NoOffset past the end of the text.
RowOffset(row) ==
    LET offset[r \in 1..row] ==
          IF r = 1 THEN top
          ELSE IF offset[r - 1] = NoOffset THEN NoOffset ELSE eb_next_line(text, offset[r - 1])
    IN offset[row]

\* What a row shows: the columns from leftcol on, or a tilde.
RowText(row) ==
    LET off == RowOffset(row)
        from == eb_line_start(text, off) + leftcol
        end == eb_line_end(text, off)
    IN IF off = NoOffset THEN <<"~">>
       ELSE SubSeq(text, from + 1, Min({end, from + Cols}))

StatusWidth == NameWidth + (IF mode = "insert" THEN 1 ELSE 0)

draw_status(t) == EL(terminal_write(CUP(t, EditRows + 1, 1), [i \in 1..StatusWidth |-> "s"]))

CursorRow == 1 + Cardinality(Newlines(text, top, cursor))

\* Mutant: the rest of a row is left as it was.
RowsUncleared(t) ==
    FoldLeft(LAMBDA u, row : terminal_write(CUP(u, row, 1), RowText(row)), t,
             [row \in 1..EditRows |-> row])

\* Every row is written and the rest of it erased.
RowsDrawn(t) ==
    FoldLeft(LAMBDA u, row : EL(terminal_write(CUP(u, row, 1), RowText(row))), t,
             [row \in 1..EditRows |-> row])

\* The frame, written in one go to a terminal t: the rows, the status, the cursor.
render(t) ==
    CUP(draw_status(RowsDrawn(t)), CursorRow, eb_col(text, cursor) - leftcol + 1)

EditText == UNCHANGED <<text, log, fresh, opened>>

-----------------------------------------------------------------------------
\* Moving.

Move(c, w) ==
    /\ cursor' = c /\ want' = w /\ UNCHANGED mode
    /\ EditText /\ Drawn

MoveCol(c) == Move(c, eb_col(text, c))

LineMove(c, down) ==
    LET target == IF down THEN eb_next_line(text, c) ELSE eb_prev_line(text, c)
    IN IF target = NoOffset THEN c ELSE eb_clamp_to_line(text, target, want)

move_line(n, down) ==
    Move(FoldLeft(LAMBDA c, i : LineMove(c, down), cursor, [i \in 1..n |-> i]), want)

MoveKey ==
    \/ \* h and Left, l and Right: insert mode crosses lines
       \/ MoveCol(Max({cursor - 1, IF mode = "insert" THEN 0 ELSE eb_line_start(text, cursor)}))
       \/ MoveCol(Min({cursor + 1, IF mode = "insert" THEN Len(text)
                                   ELSE eb_line_end(text, cursor)}))
    \/ \E down \in BOOLEAN : move_line(1, down)
    \/ Move(eb_line_start(text, cursor), 0)
    \/ MoveCol(eb_line_end(text, cursor))
    \/ /\ mode = "normal"
       /\ \/ \E down \in BOOLEAN : move_line(EditRows - 1, down)
          \/ Move(eb_line_start(text, Len(text)), 0)
          \/ Move(0, 0)
          \/ \E n \in 1..(Cap + 1) : Move(eb_goto_line(text, n), 0)
    \/ \* Enter in a full buffer
       mode = "insert" /\ Len(text) = Cap /\ Move(cursor, 0)

search_step ==
    /\ mode = "normal"
    /\ \E pat \in Patterns :
         \/ eb_find_next(text, pat, cursor) # NoOffset /\ MoveCol(eb_find_next(text, pat, cursor))
         \/ eb_find_prev(text, pat, cursor) # NoOffset /\ MoveCol(eb_find_prev(text, pat, cursor))

-----------------------------------------------------------------------------
\* Changing the text.  new is the text, l the log, c the cursor afterwards.

Changed(new, l, c, w) ==
    /\ text' = new /\ cursor' = c /\ want' = w
    /\ log' = l

\* One character at off, if the buffer has room.
Insert(off, ch, c, w) ==
    /\ Len(text) < Cap
    /\ LET t == eb_insert(text, off, ch)
       IN Changed(t, eb_undo_push(off, 1, << >>, cursor, FALSE), c, IF w THEN eb_col(t, c) ELSE 0)

Delete1(off, c, w) ==
    LET t == Cut(text, off, off + 1)
    IN Changed(t, eb_undo_push(off, 0, <<text[off + 1]>>, cursor, FALSE), c,
               IF w THEN eb_col(t, c) ELSE want)

insert_key ==
    /\ mode = "insert"
    /\ \/ \E ch \in Chars : Insert(cursor, ch, cursor + 1, TRUE)
       \/ Insert(cursor, Newline, cursor + 1, FALSE)
       \/ cursor > 0 /\ Delete1(cursor - 1, cursor - 1, TRUE)
       \/ cursor < Len(text) /\ Delete1(cursor, cursor, FALSE)
    /\ fresh' = (log' = << >>)
    /\ UNCHANGED <<mode, opened>>
    /\ Drawn

Escape ==
    /\ mode = "insert" /\ mode' = "normal"
    /\ cursor' = IF eb_col(text, cursor) > 0 THEN cursor - 1 ELSE cursor
    /\ want' = eb_col(text, cursor')
    /\ fresh' = TRUE /\ opened' = << >> /\ UNCHANGED <<text, log>>
    /\ Drawn

\* i, a, A: a group is opened for everything typed until Escape.
enter_insert ==
    /\ mode = "normal" /\ mode' = "insert"
    /\ cursor' \in {cursor, Min({cursor + 1, eb_line_end(text, cursor)}),
                    eb_line_end(text, cursor)}
    /\ fresh' = TRUE /\ opened' = text
    /\ UNCHANGED <<text, want, log>>
    /\ Drawn

\* o and O: the group is opened before the newline goes in, after the line or before it.
OpenLine(off, c) ==
    IF Len(text) = Cap
    THEN cursor' = off /\ UNCHANGED <<text, want, log>>
    ELSE Changed(eb_insert(text, off, Newline), eb_undo_push(off, 1, << >>, off, TRUE), c, want)

OpenKey ==
    /\ mode = "normal" /\ mode' = "insert"
    /\ \/ OpenLine(eb_line_end(text, cursor), eb_line_end(text, cursor) + 1)
       \/ OpenLine(eb_line_start(text, cursor), eb_line_start(text, cursor))
    /\ fresh' = (Len(text) = Cap \/ log' = << >>) /\ opened' = text
    /\ Drawn

\* x: the character under the cursor.
DeleteChar ==
    /\ mode = "normal" /\ cursor < eb_line_end(text, cursor)
    /\ Changed(Cut(text, cursor, cursor + 1),
               eb_undo_push(cursor, 0, <<text[cursor + 1]>>, cursor, TRUE), cursor, want)
    /\ UNCHANGED <<mode, fresh, opened>>
    /\ Drawn

\* dd: the line and one newline.
eb_undo_delete_line ==
    /\ mode = "normal"
    /\ LET span == eb_line_span(text, cursor)
           gone == SubSeq(text, span.from + 1, span.to)
           t == Cut(text, span.from, span.to)
       IN Changed(t, IF gone = << >> THEN log ELSE eb_undo_push(span.from, 0, gone, cursor, TRUE),
                  eb_line_start(t, span.from), 0)
    /\ UNCHANGED <<mode, fresh, opened>>
    /\ Drawn

\* u: the newest group, and the cursor where it was before it.
undo_key ==
    /\ mode = "normal" /\ log # << >>
    /\ text' = Rewound(GroupStart)
    /\ cursor' = Min({log[GroupStart].cursor, Len(text')})
    /\ want' = eb_col(text', cursor')
    /\ log' = SubSeq(log, 1, GroupStart - 1)
    /\ UNCHANGED <<mode, fresh, opened>>
    /\ Drawn

-----------------------------------------------------------------------------
EditInit ==
    /\ text \in UNION {[1..n -> Chars \cup {Newline}] : n \in 0..1}
                  \cup {<<CHOOSE c \in Chars : TRUE, Newline>>}
    /\ cursor = 0 /\ top = 0 /\ leftcol = 0 /\ want = 0
    /\ mode = "normal"
    /\ log = << >> /\ fresh = TRUE /\ opened = << >>

EditNext ==
    \/ MoveKey
    \/ search_step
    \/ insert_key
    \/ Escape
    \/ enter_insert
    \/ OpenKey
    \/ DeleteChar
    \/ eb_undo_delete_line
    \/ undo_key

EditSpec == EditInit /\ [][EditNext]_editVars

-----------------------------------------------------------------------------

\* The log can be run backwards at any time: taking back the records from any one of
\* them on gives the text as it was when that one was made, whatever has been merged,
\* dropped to make room or undone since (eb_undo_push, eb_undo_drop_oldest,
\* eb_undo_apply).  And every group but the oldest, which may have lost its first
\* records, is whole: undoing it gives the text as it was when the group was opened.
LogRewinds ==
    /\ \A i \in DOMAIN log : Rewound(i) = log[i].before
    /\ \A i \in DOMAIN log : i > 1 /\ ~log[i].joins => log[i].before = log[i].opened

\* A terminal the editor comes to: written all over, showing the end of its scrollback.
UsedTerminal ==
    [terminal_reset EXCEPT !.cells = [i \in DOMAIN @ |-> "#"],
                           !.view = MaxScroll - TermRows, !.y = MaxScroll - 1]

\* After every key the screen is the window and the cursor stands on the character it
\* is on, whatever was there before and although the window's first line is an offset
\* into a text that deletions and undo shift under it: "draws the status line and
\* leaves the cursor where the text is" (scroll_to_cursor, scroll_columns, render).
ScreenShowsTheText ==
    LET rows == [row \in 1..EditRows |-> RowText(row)]
        shown(row, col) == IF col <= Len(rows[row]) THEN rows[row][col] ELSE Blank
        after == render(UsedTerminal)
        under == RowOffset(after.y - after.view + 1)
    IN /\ \A row \in 1..EditRows, col \in 1..Cols :
            after.cells[(after.view + row - 1) * Cols + col - 1] = shown(row, col)
       /\ under # NoOffset /\ eb_line_start(text, under) = eb_line_start(text, cursor)
       /\ leftcol + after.x = eb_col(text, cursor)

=============================================================================
