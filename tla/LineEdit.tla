------------------------------ MODULE LineEdit ------------------------------
(***************************************************************************)
(* The shell's line editor (apps/bin/sh.c): the line and the cursor in it, *)
(* the history, Tab completion, and the terminal it draws on.  The editor  *)
(* never asks the terminal where its cursor is: it keeps one number,       *)
(* line_cell, in step with everything it prints, and every move is worked  *)
(* out from it.                                                            *)
(*                                                                         *)
(* The prompt is one fixed string.  What a command prints is nothing or    *)
(* one character; the output of other programs while a line is being typed *)
(* and the switch to another virtual terminal are left out.                *)
(***************************************************************************)
EXTENDS Integers, Sequences, SequencesExt, Terminal

CONSTANTS Typed,       \* the printable characters of the instance
          Prompt,      \* the prompt
          MaxLine,     \* 254
          MaxHistory,  \* MAX_HISTORY
          MaxKept,     \* bound: longer lines are neither entered nor put aside
          Commands,    \* builtin_commands and the names in /bin
          Listing      \* directory -> its entries, [name, dir]; << >> is "."

VARIABLES term,      \* the terminal
          line, pos, \* cmd_buf[0..len), and pos
          cell,      \* line_cell
          hist,      \* history, the most recent line first
          view,      \* hist_view
          saved,     \* hist_saved
          comp,      \* the gathered candidates
          exact,     \* history: nothing has moved the cursor behind the editor's back
          drawn      \* history: the line has been redrawn since its prompt

lineVars == <<term, line, pos, cell, hist, view, saved, comp, exact, drawn>>

NoComp == [active |-> FALSE, found |-> << >>, index |-> 0, start |-> 0]
PromptW == Len(Prompt)

-----------------------------------------------------------------------------
\* Drawing.

\* Mutant: sideways only.
CursorInRow(t, from, to) ==
    IF to < from THEN CUB(t, from - to) ELSE IF to > from THEN CUF(t, to - from) ELSE t

\* Up or down by whole rows, to column 0, then right.
cursor_to_cell(t, from, to) ==
    LET rows == to \div Cols - from \div Cols
        row == IF rows < 0 THEN CUU(t, -rows) ELSE IF rows > 0 THEN CUD(t, rows) ELSE t
        col == CUB(row, Cols)
    IN IF to % Cols = 0 THEN col ELSE CUF(col, to % Cols)

\* The text from p on, an erase, and back.
line_redraw_tail(t, l, p) ==
    cursor_to_cell(ED(terminal_write(t, SubSeq(l, p + 1, Len(l)))),
                   PromptW + Len(l), PromptW + p)

line_refresh(t, from, l, p) ==
    cursor_to_cell(ED(terminal_write(cursor_to_cell(t, from, 0), Prompt \o l)),
                   PromptW + Len(l), PromptW + p)

\* What is above the prompt's row is not drawn on again and no longer told apart.
ForgetAbove(t) ==
    LET first == (t.y - PromptW \div Cols) * Cols
    IN [t EXCEPT !.cells = [i \in DOMAIN @ |-> IF i < first THEN Blank ELSE @[i]]]

\* A new prompt on a row of its own.
FreshLine(t) ==
    /\ term' = ForgetAbove(terminal_write(t, <<"\n">> \o Prompt))
    /\ line' = << >> /\ pos' = 0 /\ cell' = PromptW
    /\ view' = 0 /\ saved' = << >> /\ comp' = NoComp
    /\ exact' = TRUE /\ drawn' = FALSE

-----------------------------------------------------------------------------
\* Keys.  The terminal moves and erases within the rows it shows: while the user has
\* scrolled a row of the line out of sight, they do not reach it.

FirstRow == term.y - cell \div Cols
LineInView == /\ FirstRow >= term.view
              /\ FirstRow + (PromptW + Len(line)) \div Cols <= Bottom(term)

Moving == exact' = (exact /\ LineInView)

MoveTo(p) ==
    /\ pos' = p /\ cell' = PromptW + p
    /\ term' = cursor_to_cell(term, cell, PromptW + p)
    /\ Moving
    /\ UNCHANGED <<line, hist, view, saved, drawn>>

Left  == pos > 0 /\ MoveTo(pos - 1) /\ comp' = NoComp
Right == pos < Len(line) /\ MoveTo(pos + 1) /\ comp' = NoComp
Home  == MoveTo(0) /\ comp' = NoComp
End   == MoveTo(Len(line)) /\ comp' = NoComp

\* The line becomes l with the cursor at p, redrawn from there by the terminal t.
Redraw(t, l, p) ==
    /\ line' = l /\ pos' = p /\ cell' = PromptW + p
    /\ term' = line_redraw_tail(t, l, p)
    /\ comp' = NoComp /\ drawn' = TRUE
    /\ UNCHANGED <<hist, view, saved>>

Type(c) ==
    /\ Len(line) < MaxLine
    /\ Redraw(terminal_putchar(term, c), InsertAt(line, pos + 1, c), pos + 1)
    /\ UNCHANGED exact

Delete ==
    /\ pos < Len(line)
    /\ Redraw(term, RemoveAt(line, pos + 1), pos)
    /\ Moving

Backspace ==
    /\ pos > 0
    /\ Redraw(cursor_to_cell(term, cell, PromptW + pos - 1), RemoveAt(line, pos), pos - 1)
    /\ Moving

\* The whole line is replaced, the cursor after it.
Replace(l) ==
    /\ line' = l /\ pos' = Len(l) /\ cell' = PromptW + Len(l)
    /\ term' = line_refresh(term, cell, l, Len(l))
    /\ drawn' = TRUE
    /\ Moving

history_at(h, back, typed) == IF back = 0 THEN typed ELSE h[back]

\* Up and Down walk the history; the line being typed is put aside and comes back.
Up ==
    /\ view < Len(hist) /\ (view = 0 => Len(line) <= MaxKept)
    /\ saved' = IF view = 0 THEN line ELSE saved
    /\ view' = view + 1
    /\ Replace(history_at(hist, view', saved'))
    /\ comp' = NoComp /\ UNCHANGED hist

Down ==
    /\ view > 0
    /\ view' = view - 1
    /\ Replace(history_at(hist, view', saved))
    /\ saved' = IF view' = 0 THEN << >> ELSE saved
    /\ comp' = NoComp /\ UNCHANGED hist

\* Not when it is empty or repeats the last one.
history_add(h, l) ==
    IF l = << >> \/ (h # << >> /\ Head(h) = l) THEN h
    ELSE SubSeq(<<l>> \o h, 1, IF Len(h) < MaxHistory THEN Len(h) + 1 ELSE MaxHistory)

\* Enter: the command runs, printing out, and a new prompt follows.
Enter(out) ==
    /\ Len(line) <= MaxKept
    /\ hist' = history_add(hist, line)
    /\ FreshLine(terminal_write(term, <<"\n">> \o out))

\* Ctrl-C: the keyboard driver echoes it, the line is thrown away.  After an Escape
\* the byte that does not come ends the sequence instead, and the line goes on.
Interrupt ==
    /\ FreshLine(terminal_write(term, <<"^", "C", "\n">>))
    /\ UNCHANGED hist

InterruptAfterEscape ==
    /\ term' = terminal_write(term, <<"^", "C", "\n">>)
    /\ exact' = FALSE /\ comp' = NoComp
    /\ UNCHANGED <<line, pos, cell, hist, view, saved, drawn>>

\* A sequence the editor has no use for: the candidates are forgotten.
OtherKey == comp.active /\ comp' = NoComp
            /\ UNCHANGED <<term, line, pos, cell, hist, view, saved, exact, drawn>>

-----------------------------------------------------------------------------
\* Tab.

\* Offset of the last c before the end, 0 when there is none.
LastOf(s, c) == SelectLastInSubSeq(s, 1, Len(s), LAMBDA e : e = c)

\* The part of the line that is completed, and what it may become: the first word is a
\* command; in any other, what follows the last slash is a name in that directory.
Word == LET w == SubSeq(line, LastOf(line, " ") + 1, Len(line))
            s == LastOf(w, "/")
            dir == SubSeq(w, 1, s)
        IN IF LastOf(line, " ") = 0 THEN [prefix |-> w, from |-> Commands]
           ELSE IF s > 0 /\ dir \in DOMAIN Listing
                THEN [prefix |-> SubSeq(w, s + 1, Len(w)), from |-> Listing[dir]]
           ELSE [prefix |-> w, from |-> Listing[<< >>]]

Matches == SelectSeq(Word.from, LAMBDA e : IsPrefix(Word.prefix, e.name))

\* The longest prefix the candidates share.
Common(found) == LongestCommonPrefix({found[i].name : i \in DOMAIN found})

\* As many of the characters of s as the line still has room for.
Room(l, s, max) == SubSeq(s, 1, IF Len(s) <= max - Len(l) THEN Len(s) ELSE max - Len(l))

Appended(l, s) == l \o Room(l, s, MaxLine)

\* What choosing a candidate adds to its name.
Names(found) == FlattenSeq([i \in DOMAIN found |->
                    found[i].name \o (IF found[i].dir THEN <<"/">> ELSE << >>) \o <<" ", " ">>])

\* The completion appends and prints what it appended; the cursor was at the end.
Grown(new, t) ==
    /\ line' = new /\ pos' = Len(new) /\ cell' = PromptW + Len(new)
    /\ term' = t
    /\ UNCHANGED <<hist, view, saved>>

handle_tab_completion ==
    /\ pos = Len(line) /\ ~comp.active
    /\ LET word == Word
           found == Matches
           typed == Len(word.prefix)
           Add(s) == Grown(Appended(line, s), terminal_write(term, Room(line, s, MaxLine)))
                     /\ UNCHANGED <<exact, drawn>>
       IN CASE found = << >> -> FALSE
            [] Len(found) = 1 ->
                 /\ Add(SubSeq(found[1].name, typed + 1, Len(found[1].name))
                        \o (IF found[1].dir THEN <<"/">> ELSE <<" ">>))
                 /\ comp' = NoComp
            [] OTHER ->
                 /\ IF Len(Common(found)) > typed
                    THEN Add(SubSeq(Common(found), typed + 1, Len(Common(found))))
                    ELSE /\ Grown(line, terminal_write(ForgetAbove(terminal_write(term,
                                          <<"\n">> \o Names(found) \o <<"\n">> \o Prompt)), line))
                         /\ exact' = TRUE /\ drawn' = FALSE
                 /\ comp' = [active |-> TRUE, found |-> found, index |-> 0,
                             start |-> Len(line) - typed]

\* Every later Tab writes the next candidate over the last one.
tab_cycle ==
    /\ pos = Len(line) /\ comp.active
    /\ LET i == (comp.index % Len(comp.found)) + 1
           pick == comp.found[i].name \o (IF comp.found[i].dir THEN <<"/">> ELSE << >>)
           kept == SubSeq(line, 1, comp.start)
       IN /\ Replace(kept \o Room(kept, pick, MaxLine - 1))
          /\ comp' = [comp EXCEPT !.index = i]
    /\ UNCHANGED <<hist, view, saved>>

-----------------------------------------------------------------------------
\* The user looks back through the buffer: no key reaches the shell.

Scroll ==
    /\ term' \in {terminal_scroll_up(term), terminal_scroll_down(term)} \ {term}
    /\ UNCHANGED <<line, pos, cell, hist, view, saved, comp, exact, drawn>>

-----------------------------------------------------------------------------

LineInit ==
    /\ term = terminal_write(terminal_reset, <<"\n">> \o Prompt)
    /\ line = << >> /\ pos = 0 /\ cell = PromptW
    /\ hist = << >> /\ view = 0 /\ saved = << >> /\ comp = NoComp
    /\ exact = TRUE /\ drawn = FALSE

\* Bound: a line whose place on the screen has been lost is only entered or dropped.
Edit ==
    \/ Left \/ Right \/ Home \/ End
    \/ \E c \in Typed : Type(c)
    \/ Delete \/ Backspace
    \/ Up \/ Down
    \/ OtherKey
    \/ handle_tab_completion \/ tab_cycle
    \/ InterruptAfterEscape
    \/ Scroll

LineNext ==
    \/ exact /\ Edit
    \/ \E out \in {<< >>, <<"x">>} : Enter(out)
    \/ Interrupt

LineSpec == LineInit /\ [][LineNext]_lineVars

-----------------------------------------------------------------------------

\* After every key the terminal shows the prompt and the line, wrapped where it wraps,
\* with the cursor on the character pos names; once the line has been redrawn nothing
\* is left on the screen behind it.  The editor gets there by arithmetic on line_cell alone
\* (cursor_to_cell, line_redraw_tail, line_refresh, terminal_putchar).
ScreenShowsTheLine ==
    exact =>
    LET start == FirstRow * Cols
        shown == Prompt \o line
    IN /\ cell = PromptW + pos /\ term.x = cell % Cols
       /\ \A i \in DOMAIN shown : start + i - 1 >= 0 => term.cells[start + i - 1] = shown[i]
       /\ drawn => \A i \in (start + Len(shown))..((Bottom(term) + 1) * Cols - 1) :
                        term.cells[i] = Blank
=============================================================================
