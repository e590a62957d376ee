------------------------------- MODULE Editor -------------------------------
(***************************************************************************)
(* The text editor (text_editor.c): the lines being edited, the cursor and   *)
(* the window on them, the modes, the file they came from, and the rows of   *)
(* the screen that are marked to be drawn again.                             *)
(*                                                                           *)
(* Keys are handled in the keyboard interrupt; the editor's task draws; the  *)
(* main loop's terminal_draw clears the same dirty marks, and so does the    *)
(* terminal_puts in the editor's own loop over the rows.  `shown' is the     *)
(* text the editor last put on a row; that the end of a longer text stays    *)
(* behind it in the terminal's line is left out.  A line is its              *)
(* length: which characters it holds is left out, and so are the horizontal  *)
(* scroll, the status bar and the text typed in command and search mode,     *)
(* whose effect is chosen when Enter is pressed.  A file is the sequence of  *)
(* the lengths of its lines, with an empty last line when it ends in a       *)
(* newline; <<>> is no file.                                                 *)
(***************************************************************************)
EXTENDS Integers, Sequences, SequencesExt

CONSTANTS
    LineMax,      \* EDITOR_LINE_MAX_LENGTH - 1
    EDITOR_MAX_LINES,
    EDITOR_TAB_SIZE,
    ViewHeight,   \* viewport_height
    Files,        \* what the file may hold when it is opened
    MaxKeys       \* bound on the keys pressed

ASSUME EditorAssumption ==
    /\ {LineMax, EDITOR_MAX_LINES, EDITOR_TAB_SIZE, ViewHeight} \subseteq Nat \ {0}
    /\ Files \subseteq Seq(Nat)
    /\ MaxKeys \in Nat

VARIABLES
    ed,      \* the text_editor_t with needs_redraw and the terminal's marks
    file,    \* the file named by editor->filename
    drawing, \* editor_render is running, and a key came in meanwhile
    excused, \* history: the file was lost in part, or a line opened unmarked
    keys     \* history: the keys pressed so far

EditorVars == <<ed, file, drawing, excused, keys>>

Rows == 0..(ViewHeight - 1)

---------------------------------------------------------------------------
(* Loading.                                                                *)

Cut(n) == IF n > LineMax THEN LineMax ELSE n

\* The lines editor_open_file makes of a text: lines that are too long are
\* cut, lines past the last are dropped, and a last line counts only when it
\* has a character.
Loaded(f) ==
    LET whole == IF f # <<>> /\ Last(f) = 0 THEN Front(f) ELSE f
        kept == SubSeq(whole, 1, IF Len(whole) > EDITOR_MAX_LINES THEN EDITOR_MAX_LINES ELSE Len(whole))
    IN  IF kept = <<>> THEN <<0>> ELSE [i \in 1..Len(kept) |-> Cut(kept[i])]

\* `shown' is -1 for a row without text and -2 for what was there before the
\* editor; `last' is the mode of the last render, "none" before the first one
\* since boot.  `stale' is history: the rows that are known to be left behind.
Opened(text) ==
    [text |-> text, cx |-> 0, cy |-> 0, vy |-> 0, modified |-> FALSE, mode |-> "normal",
     clip |-> 0, term |-> 0, running |-> TRUE, redraw |-> TRUE, dirty |-> {}, full |-> TRUE,
     shown |-> [y \in Rows |-> -2], last |-> "none", stale |-> {}]

\* editor_create, editor_open_file and the start of editor_run.  A read error
\* ends the text where it happens.
EditorInit ==
    /\ file \in Files
    /\ \E k \in 0..Len(file) :
          /\ \E last \in {"none", "normal"} : ed = [Opened(Loaded(SubSeq(file, 1, k))) EXCEPT !.last = last]
          /\ excused = (k # Len(file))
    /\ drawing = "first"
    /\ keys = 0

---------------------------------------------------------------------------
(* Editing.  Each operator is one function of the editor on its state.     *)

LineLen(e) == e.text[e.cy + 1]
LineCount(e) == Len(e.text)

\* editor_scroll_if_needed.
Scrolled(e) ==
    LET vy == IF e.cy < e.vy THEN e.cy
              ELSE IF e.cy >= e.vy + ViewHeight THEN e.cy - ViewHeight + 1 ELSE e.vy
    IN  IF vy = e.vy THEN e ELSE [e EXCEPT !.vy = vy, !.full = TRUE, !.dirty = Rows]

\* editor_mark_line_dirty.
Marked(e, n) == IF n - e.vy \in Rows THEN [e EXCEPT !.dirty = @ \cup {n - e.vy}] ELSE e
AllMarked(e) == [e EXCEPT !.full = TRUE, !.dirty = Rows]

InsertChar(e) ==
    IF LineLen(e) >= LineMax THEN e
    ELSE LET cx == IF e.cx > LineLen(e) THEN LineLen(e) ELSE e.cx
         IN  Marked([e EXCEPT !.text[e.cy + 1] = @ + 1, !.modified = TRUE, !.cx = cx + 1], e.cy)

InsertTab(e) ==
    LET ins[k \in 0..EDITOR_TAB_SIZE] == IF k = 0 THEN e ELSE InsertChar(ins[k - 1])
    IN  ins[EDITOR_TAB_SIZE]

\* Line n + 1 (from 0) is appended to line n.
Joined(text, n) ==
    [i \in 1..(Len(text) - 1) |->
        IF i = n + 1 THEN text[i] + text[i + 1] ELSE IF i > n + 1 THEN text[i + 1] ELSE text[i]]

\* Whether lines n and n + 1 fit in one.
MayJoin(text, n) == text[n + 1] + text[n + 2] < LineMax + 1

BackspaceChar(e) ==
    IF e.cx = 0
    THEN IF e.cy > 0 /\ MayJoin(e.text, e.cy - 1)
         THEN AllMarked(Scrolled([e EXCEPT !.text = Joined(@, e.cy - 1), !.cy = @ - 1,
                                           !.cx = e.text[e.cy], !.modified = TRUE]))
         ELSE e
    ELSE LET b == [e EXCEPT !.cx = @ - 1]
         IN  IF b.cx < LineLen(e)
             THEN Marked([b EXCEPT !.text[e.cy + 1] = @ - 1, !.modified = TRUE], e.cy)
             ELSE b

DeleteChar(e) ==
    IF e.cx >= LineLen(e)
    THEN IF e.cy < LineCount(e) - 1 /\ MayJoin(e.text, e.cy)
         THEN AllMarked([e EXCEPT !.text = Joined(@, e.cy), !.modified = TRUE])
         ELSE e
    ELSE Marked([e EXCEPT !.text[e.cy + 1] = @ - 1, !.modified = TRUE], e.cy)

\* Fault: a line that is broken does not count as a change.
InsertNewlineFault(e) ==
    IF LineCount(e) >= EDITOR_MAX_LINES THEN e
    ELSE LET rest == IF e.cx < LineLen(e) THEN LineLen(e) - e.cx ELSE 0
             broken == [e.text EXCEPT ![e.cy + 1] = @ - rest]
         IN  AllMarked(Scrolled([e EXCEPT !.text = InsertAt(broken, e.cy + 2, rest),
                                          !.cy = @ + 1, !.cx = 0]))

InsertNewline(e) ==
    IF LineCount(e) >= EDITOR_MAX_LINES THEN e
    ELSE LET rest == IF e.cx < LineLen(e) THEN LineLen(e) - e.cx ELSE 0
             broken == [e.text EXCEPT ![e.cy + 1] = @ - rest]
         IN  AllMarked(Scrolled([e EXCEPT !.text = InsertAt(broken, e.cy + 2, rest),
                                          !.cy = @ + 1, !.cx = 0, !.modified = TRUE]))

DeleteLine(e) ==
    IF LineCount(e) <= 1 THEN e
    ELSE LET text == RemoveAt(e.text, e.cy + 1)
         IN  AllMarked(Scrolled([e EXCEPT !.text = text, !.modified = TRUE, !.cx = 0,
                                          !.cy = IF @ >= Len(text) THEN Len(text) - 1 ELSE @]))

\* 'O': the line is opened after the one above, or at the top without
\* marking the text modified or the screen dirty.
OpenAbove(e) ==
    IF LineCount(e) >= EDITOR_MAX_LINES THEN e
    ELSE IF e.cy > 0
         THEN [InsertNewline([e EXCEPT !.cy = @ - 1, !.cx = e.text[e.cy]]) EXCEPT !.mode = "insert"]
         ELSE [e EXCEPT !.text = <<0>> \o @, !.cx = 0, !.mode = "insert", !.stale = Rows]

\* 'p': the line goes in below the cursor without marking the screen dirty.
Paste(e) ==
    IF e.clip = 0 \/ LineCount(e) >= EDITOR_MAX_LINES THEN e
    ELSE [e EXCEPT !.text = InsertAt(@, e.cy + 2, e.clip), !.cy = @ + 1, !.cx = 0,
                   !.modified = TRUE, !.stale = @ \cup {y \in Rows : e.vy + y > e.cy}]

\* editor_move_cursor and the keys that place the cursor.
Bound(n, top) == IF n < 0 THEN 0 ELSE IF n > top THEN top ELSE n
MoveTo(e, x, y) ==
    LET m == Scrolled([e EXCEPT !.cx = Bound(x, e.text[y + 1]), !.cy = y])
    IN  IF e.cy # y THEN Marked(Marked(m, e.cy), y) ELSE IF m.cx # e.cx THEN Marked(m, y) ELSE m
Moves(e) ==
    LET top == LineCount(e) - 1
    IN  {MoveTo(e, e.cx - 1, e.cy), MoveTo(e, e.cx + 1, e.cy),
         MoveTo(e, e.cx, Bound(e.cy - 1, top)), MoveTo(e, e.cx, Bound(e.cy + 1, top)),
         [e EXCEPT !.cx = 0], [e EXCEPT !.cx = LineLen(e)]}
Pages(e) ==
    LET to(y) == Scrolled([e EXCEPT !.cy = y, !.cx = Bound(@, e.text[y + 1])])
        top == LineCount(e) - 1
    IN  {to(Bound(e.cy - ViewHeight, top)), to(Bound(e.cy + ViewHeight, top))}
GotoLine(e, n) == Scrolled([e EXCEPT !.cy = Bound(n - 1, LineCount(e) - 1), !.cx = 0])

\* editor_search_next: a match in this line or a later one, or none.  In a
\* line shorter than the term the unsigned bound wraps, and what lies behind
\* the line may match.
Found(e) ==
    {e} \cup {Scrolled([e EXCEPT !.cy = p[1], !.cx = p[2]]) :
                p \in {q \in (e.cy..(LineCount(e) - 1)) \X (0..LineMax) :
                          /\ e.term > 0
                          /\ q[1] = e.cy => q[2] > e.cx
                          /\ q[2] + e.term <= e.text[q[1] + 1] \/ e.text[q[1] + 1] < e.term}}

---------------------------------------------------------------------------
(* Saving: the file is removed, created and written line by line.          *)

\* The outcomes of editor_save_as on editor e and its file.
\* Only a negative count is a failure: a short write is reported as success.
Saves(e) ==
    {[e |-> [e EXCEPT !.modified = FALSE], f |-> e.text, ok |-> TRUE, loss |-> FALSE]}
    \cup {[e |-> [e EXCEPT !.modified = FALSE], f |-> [e.text EXCEPT ![i] = @ - 1],
            ok |-> TRUE, loss |-> TRUE] : i \in {j \in 1..LineCount(e) : e.text[j] > 0}}
    \cup {[e |-> e, f |-> SubSeq(e.text, 1, i), ok |-> FALSE, loss |-> TRUE] :
            i \in 0..(LineCount(e) - 1)}

---------------------------------------------------------------------------
(* Keys, in the keyboard interrupt.                                        *)

\* Every key ends by asking for a redraw; one that comes in while the task is
\* drawing is forgotten when the drawing ends.
Key(e) ==
    /\ ed.running /\ keys < MaxKeys
    /\ keys' = keys + 1
    /\ ed' = [e EXCEPT !.redraw = TRUE]
    /\ drawing' = IF drawing = "yes" THEN "key" ELSE drawing

Edit(e) ==
    /\ Key(e)
    /\ UNCHANGED <<file, excused>>

\* The keys of insert mode.
InsertKey ==
    /\ ed.mode = "insert"
    /\ \/ Edit(InsertChar(ed))
       \/ Edit(InsertTab(ed))
       \/ Edit(InsertNewline(ed))
       \/ Edit(BackspaceChar(ed))
       \/ Edit(DeleteChar(ed))
       \/ \E e \in Moves(ed) : Edit(e)
       \/ Edit([ed EXCEPT !.mode = "normal", !.cx = IF @ > 0 THEN @ - 1 ELSE 0])

\* The keys of normal mode.
NormalKey ==
    /\ ed.mode = "normal"
    /\ \/ Edit([ed EXCEPT !.mode = "insert"])
       \/ Edit([ed EXCEPT !.mode = "insert", !.cx = IF @ < LineLen(ed) THEN @ + 1 ELSE @])
       \/ Edit([InsertNewline(ed) EXCEPT !.mode = "insert"])
       \/ Edit(DeleteChar(ed))
       \/ Edit(DeleteLine(ed))
       \/ Edit([ed EXCEPT !.clip = LineLen(ed)])
       \/ \E e \in Moves(ed) \cup Pages(ed) \cup Found(ed) : Edit(e)
       \/ Edit([ed EXCEPT !.mode = "command"])
       \/ Edit([ed EXCEPT !.mode = "search"])

\* 'O' and 'p', which leave rows unmarked.
OpenAboveKey ==
    /\ ed.mode = "normal"
    /\ Key(OpenAbove(ed))
    /\ excused' = (excused \/ ed.cy = 0)
    /\ UNCHANGED file

PasteKey ==
    /\ ed.mode = "normal"
    /\ Edit(Paste(ed))

\* Save as part of a key; `quits' when the command is :wq.
Saved(e, quits) ==
    \E s \in Saves(e) :
        /\ Key([s.e EXCEPT !.running = ~(quits /\ s.ok)])
        /\ file' = s.f
        /\ excused' = (excused \/ s.loss)

\* ^S, :w and :wq; :w with another name that fails leaves this file alone.
SaveKey ==
    \/ Saved(ed, FALSE)
    \/ ed.mode = "command" /\ Saved([ed EXCEPT !.mode = "normal"], FALSE)
    \/ ed.mode = "command" /\ Saved([ed EXCEPT !.mode = "normal"], TRUE)

\* ^X and :q leave only a text that is not modified; ^Q and :q! always.
QuitKey ==
    \/ Edit([ed EXCEPT !.running = ed.modified])
    \/ Edit([ed EXCEPT !.running = FALSE])

\* The other commands, searches, help, and leaving these modes.
OtherKey ==
    \/ /\ ed.mode = "command"
       /\ \/ \E n \in 0..(LineCount(ed) + 1) : Edit([GotoLine(ed, n) EXCEPT !.mode = "normal"])
          \/ Edit([ed EXCEPT !.mode = "normal"])
    \/ /\ ed.mode = "search"
       /\ \E n \in 0..2 : \E e \in Found([ed EXCEPT !.term = n]) :
             Edit([e EXCEPT !.mode = "normal"])
    \/ Edit([ed EXCEPT !.mode = "help"])
    \/ ed.mode = "help" /\ Edit([ed EXCEPT !.mode = "normal"])

---------------------------------------------------------------------------
(* The screen.                                                             *)

\* What row y should show: its line, or '~' (-1) past the end.
RowOf(e, y) == IF e.vy + y < LineCount(e) THEN e.text[e.vy + y + 1] ELSE -1

\* A mode other than the last render's clears the terminal first.
Refreshed(e) ==
    IF e.last = e.mode THEN e
    ELSE [e EXCEPT !.last = e.mode, !.shown = [y \in Rows |-> -1], !.dirty = {}, !.full = TRUE]

\* The rows that the loop over the lines finds due.
Due(e) == {y \in Rows : RowOf(e, y) >= 0 /\ (e.full \/ y \in e.dirty)}

\* Rows of e that are still wrong once `lost' have lost their mark.
LeftStale(e, lost) == {y \in Rows : y \in e.stale \cup lost /\ e.shown[y] # RowOf(e, y)}

\* The loop writes the first row that is due.  The terminal_puts of its line
\* number draws the terminal, which clears needs_full_redraw and every mark,
\* so that the rows after it are passed over, those past the end too.  With no
\* row due, a full redraw writes the rows past the end, and the status bar,
\* printed when it changed, clears the marks.
FirstWritten(e) ==
    LET r == [e EXCEPT !.shown = [y \in Rows |-> IF y \in Due(e) /\ \A z \in Due(e) : y <= z
                                                 THEN RowOf(e, y) ELSE @[y]],
                       !.dirty = {}, !.full = FALSE]
    IN  [r EXCEPT !.stale = LeftStale(r, {y \in Rows : \E z \in Due(e) : z < y})]
NoneWritten(e, bar) ==
    [e EXCEPT !.shown = [y \in Rows |-> IF e.full THEN -1 ELSE @[y]],
              !.dirty = IF bar \/ e.full THEN {} ELSE @, !.full = FALSE]

\* editor_render.  The help screen stays blank: its text is printed only when
\* the last mode, which was just updated, is another.  The cursor's row is
\* marked at the end.
Drawn(e, bar) ==
    LET c == Refreshed(e)
        r == IF Due(c) # {} THEN FirstWritten(c) ELSE NoneWritten(c, bar)
    IN  IF e.mode = "help" THEN [c EXCEPT !.dirty = @ \cup {0}]
        ELSE [r EXCEPT !.dirty = @ \cup {Bound(e.cy - e.vy, ViewHeight - 1)}]

\* editor_run draws once before its loop ...
FirstRender ==
    /\ drawing = "first"
    /\ \E bar \in BOOLEAN : ed' = Drawn(ed, bar)
    /\ drawing' = "no"
    /\ UNCHANGED <<file, excused, keys>>

\* ... and then when a redraw is asked for ...
RenderStart ==
    /\ ed.running /\ ed.redraw /\ drawing = "no"
    /\ \E bar \in BOOLEAN : ed' = Drawn(ed, bar)
    /\ drawing' = "yes"
    /\ UNCHANGED <<file, excused, keys>>

\* The rows whose marks nobody will look at are stale.
Marks(e) == IF e.full THEN Rows ELSE e.dirty
Forgotten(e) == [e EXCEPT !.stale = LeftStale(e, Marks(e))]

\* ... and clears the request afterwards, also one made meanwhile.
RenderEnd ==
    /\ drawing \in {"yes", "key"}
    /\ ed' = [(IF drawing = "key" THEN Forgotten(ed) ELSE ed) EXCEPT !.redraw = FALSE]
    /\ drawing' = "no"
    /\ UNCHANGED <<file, excused, keys>>

\* main_loop_task draws the terminal after a blink and clears the marks the
\* editor set.
MainLoopDraws ==
    /\ ed.running /\ (ed.dirty # {} \/ ed.full)
    /\ ed' = [Forgotten(ed) EXCEPT !.dirty = {}, !.full = FALSE]
    /\ UNCHANGED <<file, excused, drawing, keys>>

EditorNext ==
    \/ InsertKey \/ NormalKey \/ OpenAboveKey \/ PasteKey \/ SaveKey \/ QuitKey \/ OtherKey
    \/ FirstRender \/ RenderStart \/ RenderEnd \/ MainLoopDraws

EditorSpec == EditorInit /\ [][EditorNext]_EditorVars

---------------------------------------------------------------------------
(* Properties.                                                             *)

EditorTypeOK ==
    /\ LineCount(ed) \in 1..EDITOR_MAX_LINES
    /\ ed.text \in Seq(0..LineMax)
    /\ ed.cy \in 0..(LineCount(ed) - 1) /\ ed.cx \in 0..LineMax
    /\ ed.vy \in 0..EDITOR_MAX_LINES
    /\ ed.mode \in {"normal", "insert", "command", "search", "help"}
    /\ drawing \in {"first", "no", "yes", "key"}
    /\ ed.dirty \cup ed.stale \subseteq Rows
    /\ excused \in BOOLEAN
    /\ keys \in 0..MaxKeys

\* An editor that does not say [+] holds what its file holds, up to an empty
\* last line, so leaving it loses nothing, except after a read that failed, a
\* save that failed or was short, or a line opened at the top with 'O'
\* (editor_open_file, editor_save_as, editor_process_key_normal).
ModifiedIsHonest == ed.modified \/ excused \/ Loaded(file) \in {ed.text, Loaded(ed.text)}

\* Every key marks the rows it changes or asks for a full redraw, and when no
\* redraw is due every row was given its line, but for the rows left stale:
\* those behind the first row of a render, whose marks its own terminal_puts
\* clears, those whose marks the main loop clears or a key sets while the
\* editor draws, and those 'p' and 'O' at the top move without a mark.  The
\* first row due is always written (editor_mark_line_dirty, editor_render).
RowsShown ==
    ed.redraw \/ drawing # "no" \/ ed.mode = "help"
    \/ \A y \in Rows \ ed.stale : ed.shown[y] = RowOf(ed, y)

\* The [+] mark tells the truth and the rows that are drawn show the text
\* (text_editor.c).
EditorSound == ModifiedIsHonest /\ RowsShown

=============================================================================
