------------------------------ MODULE Console ------------------------------
(***************************************************************************)
(* The terminal (terminal.c): the ring of text lines, the window of it that  *)
(* the screen shows, the cursor, the dirty rows, and the line the user is    *)
(* typing with its command history.                                          *)
(*                                                                           *)
(* A line is the set of columns that hold a character; colours, attributes   *)
(* and what the characters are do not matter here.  `shown' is the set of    *)
(* columns painted on each row, which terminal_draw brings up to date for    *)
(* the rows marked dirty.  A key, a command and a system call run with       *)
(* interrupts off, so each is one step with the drawing it does.  The main   *)
(* loop and the kernel's tasks draw with interrupts on: they paint one row   *)
(* at a time, and a step of another may fall between the first pixel of a    *)
(* row and the clearing of its mark.  A puts of one character is one step;   *)
(* the cursor's own pixels are left out.                                     *)
(***************************************************************************)
EXTENDS Integers, FiniteSetsExt

CONSTANTS
    Width, Height,            \* columns and rows with FONT_8x16_VGA
    BootHeight,               \* rows with the 8x8 font terminal_init starts with
    BUFFER_LINE_MULTIPLIER, MIN_BUFFER_LINES, MAX_BUFFER_LINES,
    COMMAND_HISTORY_SIZE,
    InputMax,                 \* sizeof(input_buffer) - 1
    CwdPrompt,                \* length of "cwd> "
    UserPrompt,               \* length of "user@microkernel:cwd $ "
    Painters,                 \* the tasks that draw with interrupts on
    MaxAdded                  \* bound on the lines ever added since a clear

ASSUME ConsoleAssumption ==
    /\ {Width, Height, BootHeight, BUFFER_LINE_MULTIPLIER, MIN_BUFFER_LINES, MAX_BUFFER_LINES,
        COMMAND_HISTORY_SIZE, InputMax, CwdPrompt, UserPrompt} \subseteq Nat \ {0}
    /\ Height <= MAX_BUFFER_LINES \* the screen has fewer rows than the ring may have lines
    /\ MaxAdded \in Nat

VARIABLES
    con,     \* the Terminal: ring, window, cursor, dirty rows, painted rows
    paint,   \* where each painter is in terminal_draw
    line,    \* the input line and the command history
    strayed  \* history: the user scrolled, or erased back over a wrapped row

ConsoleVars == <<con, paint, line, strayed>>

Screen == 0..(Height - 1)
Columns == 0..(Width - 1)

---------------------------------------------------------------------------
(* The ring of lines.  `added' numbers the lines; each slot keeps the      *)
(* number of the line that last cleared it.                                *)

\* The lines kept for h rows.
BufferLines(h) ==
    LET n == h * BUFFER_LINE_MULTIPLIER
    IN  IF n < MIN_BUFFER_LINES THEN MIN_BUFFER_LINES
        ELSE IF n > MAX_BUFFER_LINES THEN MAX_BUFFER_LINES ELSE n

NewBuffer(lines) ==
    [lines |-> lines, head |-> 0, tail |-> 0, count |-> 0, wrapped |-> FALSE, added |-> 0,
     slot |-> [i \in 0..(lines - 1) |-> [id |-> 0, cols |-> {}]]]

\* circular_buffer_clear keeps the ring's size.
Cleared(b) == NewBuffer(b.lines)

\* Fault: the oldest line is not dropped when the ring is full.
AddLineFault(b) ==
    [b EXCEPT !.slot[b.head] = [id |-> b.added + 1, cols |-> {}],
              !.added = @ + 1,
              !.head = (@ + 1) % b.lines,
              !.wrapped = @ \/ b.count = b.lines,
              !.count = IF @ = b.lines THEN @ ELSE @ + 1]

AddLine(b) ==
    [b EXCEPT !.slot[b.head] = [id |-> b.added + 1, cols |-> {}],
              !.added = @ + 1,
              !.head = (@ + 1) % b.lines,
              !.tail = IF b.count = b.lines THEN (@ + 1) % b.lines ELSE @,
              !.wrapped = @ \/ b.count = b.lines,
              !.count = IF @ = b.lines THEN @ ELSE @ + 1]

\* The slot of line `o' counted from the oldest.
SlotOf(b, o) == IF b.wrapped THEN (b.tail + o) % b.lines ELSE o

\* circular_buffer_resize copies the newest lines to the start of the new
\* ring.
Resized(b, lines) ==
    LET kept == IF b.count > lines THEN lines ELSE b.count
    IN  [NewBuffer(lines) EXCEPT
            !.slot = [i \in 0..(lines - 1) |->
                         IF i < kept THEN b.slot[SlotOf(b, b.count - kept + i)] ELSE @[i]],
            !.count = kept,
            !.head = kept % lines,
            !.wrapped = kept = lines,
            !.added = b.added]

---------------------------------------------------------------------------
(* The window and the cursor.                                              *)

\* The columns in use on row y of the window.
Content(t, y) ==
    IF t.view + y < t.b.count THEN t.b.slot[SlotOf(t.b, t.view + y)].cols ELSE {}

\* terminal_draw repaints the rows marked dirty.  `raced' is history: the rows
\* whose mark was cleared by a painter that something broke into.
Draw(t) ==
    LET rows == IF t.redraw THEN Screen ELSE t.dirty
    IN  [t EXCEPT !.shown = [y \in Screen |-> IF y \in rows THEN Content(t, y) ELSE @[y]],
                  !.dirty = {}, !.redraw = FALSE, !.raced = @ \ rows]

\* terminal_putchar('\n').
NewLine(t) ==
    LET b == AddLine(t.b)
        bottom == t.cy >= Height - 1
        follows == bottom /\ t.view + Height >= b.count - 1
        cy == IF bottom THEN t.cy ELSE t.cy + 1
    IN  [t EXCEPT !.b = b, !.cx = 0, !.cy = cy,
                  !.view = IF follows THEN @ + 1 ELSE @,
                  !.dirty = IF follows THEN Screen ELSE @ \cup {cy}]

\* The loop that adds lines until the cursor's line exists.  A full ring
\* never grows, so a cursor at or past its end spins for ever.
Endless(t) == t.view + t.cy >= t.b.count /\ t.view + t.cy >= t.b.lines
Extended(t) ==
    LET missing == t.view + t.cy + 1 - t.b.count
        more[n \in 0..missing] == IF n = 0 THEN t.b ELSE AddLine(more[n - 1])
    IN  IF missing > 0 THEN more[missing] ELSE t.b

\* The character is stored at the cursor and wraps at the last column.
Stored(t) ==
    LET w == [t EXCEPT !.b.slot[SlotOf(t.b, t.view + t.cy)].cols = @ \cup {t.cx},
                       !.dirty = @ \cup {t.cy}, !.cx = @ + 1]
    IN  IF w.cx >= Width THEN NewLine(w) ELSE w

\* terminal_putchar of a printable character.
PutChar(t) ==
    IF t.spin \/ Endless(t) THEN [t EXCEPT !.spin = TRUE]
    ELSE LET e == [t EXCEPT !.b = Extended(t)]
         IN  IF t.cx < Width THEN Stored(e) ELSE e

PutChars(t, n) ==
    LET put[k \in 0..n] == IF k = 0 THEN t ELSE PutChar(put[k - 1])
    IN  put[n]

\* terminal_puts draws when it is done; one that spins never does.
Puts(t, n) == LET p == PutChars(t, n) IN IF p.spin THEN p ELSE Draw(p)
PutsLine(t) ==
    LET p == PutChar(t) IN IF p.spin THEN p ELSE Draw(NewLine(p))

\* The two prompts: terminal_update_prompt's "cwd> " and, after Enter,
\* terminal_show_enhanced_prompt's "user@microkernel:cwd $ ".
UpdatePrompt(t) == Puts(t, CwdPrompt)
ShowEnhancedPrompt(t) == Puts(t, UserPrompt)

CarriageReturn(t) == [t EXCEPT !.cx = 0]

ScrollUp(t) == IF t.view > 0 THEN [t EXCEPT !.view = @ - 1, !.dirty = Screen] ELSE t
ScrollDown(t) ==
    IF t.view + Height < t.b.count THEN [t EXCEPT !.view = @ + 1, !.dirty = Screen] ELSE t

Clear(t) ==
    UpdatePrompt(Draw([t EXCEPT !.b = AddLine(Cleared(t.b)), !.cx = 0, !.cy = 0, !.view = 0,
                        !.redraw = TRUE, !.shown = [y \in Screen |-> {}], !.dirty = Screen]))

ClearCurrentLine(t) ==
    LET o == t.view + t.cy
        b == IF o < t.b.count THEN [t.b EXCEPT !.slot[SlotOf(t.b, o)].cols = {}] ELSE t.b
    IN  [t EXCEPT !.b = b, !.cx = 0, !.shown[t.cy] = {}, !.dirty = @ \cup {t.cy}]

\* terminal_set_cursor: the cursor is clamped to the screen.
SetCursor(t, x, y) ==
    [t EXCEPT !.cx = IF x >= Width THEN Width - 1 ELSE x,
              !.cy = IF y >= Height THEN Height - 1 ELSE y,
              !.dirty = @ \cup {IF y >= Height THEN Height - 1 ELSE y}]

\* terminal_init: one line with the small font, then terminal_resize for the
\* 8x16 font and the first prompt.
TerminalInit ==
    LET b == AddLine(NewBuffer(BufferLines(BootHeight)))
        t == [b |-> Resized(b, BufferLines(Height)), view |-> 0, cx |-> 0, cy |-> 0,
              dirty |-> Screen, shown |-> [y \in Screen |-> {}], redraw |-> FALSE, spin |-> FALSE,
              raced |-> {}]
    IN  UpdatePrompt(t)

Idle == [at |-> "off", y |-> 0, whole |-> TRUE]

ConsoleInit ==
    /\ con = TerminalInit
    /\ paint = [p \in Painters |-> Idle]
    /\ line = [len |-> 0, pos |-> 0, hist |-> [h \in 0..(COMMAND_HISTORY_SIZE - 1) |-> 0],
               count |-> 0, current |-> 0, browsing |-> FALSE, saved |-> 0]
    /\ strayed = FALSE

---------------------------------------------------------------------------
(* Steps.  A step that cannot add its lines within MaxAdded is not taken.  *)

\* A step of another breaks into every row that is being painted.
Broken == [p \in Painters |-> IF paint[p].at = "row" THEN [paint[p] EXCEPT !.whole = FALSE] ELSE paint[p]]

Proceed(t) == ~con.spin /\ t.b.added <= MaxAdded /\ con' = t
Show(t) == Proceed(t) /\ paint' = Broken
Paint(p, t, at) == Proceed(t) /\ paint' = [Broken EXCEPT ![p] = at]

\* A command or a system call prints.
WriteText ==
    /\ \/ Show(Puts(con, 1))
       \/ Show(PutsLine(con))
       \/ Show(Draw(CarriageReturn(con)))
    /\ UNCHANGED <<line, strayed>>

\* terminal_draw with interrupts on starts: a full redraw erases the screen
\* and marks every row.
ScreenErased(t) == IF t.redraw THEN [t EXCEPT !.shown = [y \in Screen |-> {}], !.redraw = FALSE, !.dirty = Screen]
              ELSE t
DrawStart(p, t) ==
    /\ paint[p].at = "off"
    /\ Paint(p, ScreenErased(t), [at |-> "scan", y |-> 0, whole |-> TRUE])
    /\ UNCHANGED <<line, strayed>>

\* Main loop: the screen is drawn when the cursor blinks, which marks its row,
\* or has moved.
Blink(p) ==
    \E marks \in {con.dirty, con.dirty \cup {con.cy}} : DrawStart(p, [con EXCEPT !.dirty = marks])

\* A kernel task prints with terminal_puts.
TaskPrints(p) ==
    \/ PutChar(con).spin /\ Show(PutChar(con)) /\ UNCHANGED <<line, strayed>>
    \/ ~PutChar(con).spin /\ DrawStart(p, PutChar(con))
    \/ DrawStart(p, NewLine(con))

\* The painter comes to the next dirty row, or to the end of the screen.
NextRow(p) ==
    LET rows == {y \in con.dirty : y >= paint[p].y}
    IN  /\ paint[p].at = "scan"
        /\ \/ rows = {} /\ Paint(p, con, Idle)
           \/ \E y \in rows :
                 /\ \A z \in rows : y <= z
                 /\ Paint(p, con, [at |-> "row", y |-> y, whole |-> TRUE])
        /\ UNCHANGED <<line, strayed>>

\* terminal_draw_line has painted the row and clears its mark.  When a step of
\* another fell in between, the row may show anything of before and after it,
\* and a mark that step set is lost: the row is in `raced', and its `shown',
\* of which nothing is known, stands at {}.
DrawLine(p) ==
    LET y == paint[p].y
        whole == paint[p].whole
    IN  /\ paint[p].at = "row"
        /\ Paint(p, [con EXCEPT !.shown[y] = IF whole THEN Content(con, y) ELSE {},
                                !.dirty = @ \ {y},
                                !.raced = IF whole THEN @ \ {y} ELSE @ \cup {y}],
                 [at |-> "scan", y |-> y + 1, whole |-> TRUE])
        /\ UNCHANGED <<line, strayed>>

\* The editor clears the terminal, places the cursor and writes there.
EditorWrites ==
    /\ \E x \in Columns, y \in 0..Height :
          LET c == [Clear(con) EXCEPT !.redraw = TRUE]
          IN  Show(PutChar(SetCursor(c, x, y)))
    /\ line' = [line EXCEPT !.pos = 0, !.len = 0, !.browsing = FALSE]
    /\ strayed' = TRUE

\* Esc, and backspace: the cursor steps back, up to the end of the row above.
Back(t) ==
    LET cx == IF t.cx > 0 THEN t.cx - 1 ELSE IF t.cy > 0 THEN Width - 1 ELSE t.cx
        cy == IF t.cx = 0 /\ t.cy > 0 THEN t.cy - 1 ELSE t.cy
        o == t.view + cy
    IN  [t EXCEPT !.cx = cx, !.cy = cy, !.dirty = @ \cup {cy}, !.shown[cy] = @ \ {cx},
                  !.b = IF o < t.b.count
                        THEN [t.b EXCEPT !.slot[SlotOf(t.b, o)].cols = @ \ {cx}] ELSE t.b]

Erased(t, n) ==
    LET back[k \in 0..n] == IF k = 0 THEN t ELSE Back(back[k - 1])
    IN  back[n]

Backspace ==
    /\ line.pos > 0
    /\ line' = [line EXCEPT !.pos = @ - 1, !.len = line.pos - 1]
    /\ Show(Back(con))
    /\ strayed' = (strayed \/ con.cx = 0)

Escape ==
    /\ line' = [line EXCEPT !.pos = 0, !.len = 0, !.browsing = FALSE]
    /\ Show(Erased(con, line.pos))
    /\ strayed' = (strayed \/ line.pos > con.cx)

\* A printable key ends the line at the cursor.
Type ==
    /\ line.pos < InputMax
    /\ line' = [line EXCEPT !.pos = @ + 1, !.len = line.pos + 1, !.browsing = FALSE]
    /\ Show(PutChar(con))
    /\ UNCHANGED strayed

\* The input line after each editing key.
Recalled(i, n) == [i EXCEPT !.current = n, !.len = i.hist[n], !.pos = i.hist[n]]
HistoryUp(i) ==
    IF i.count = 0 THEN i
    ELSE LET j == IF i.browsing THEN i ELSE [i EXCEPT !.saved = i.len, !.browsing = TRUE,
                                                      !.current = i.count]
         IN  Recalled(j, IF j.current > 0 THEN j.current - 1 ELSE 0)
HistoryDown(i) ==
    IF ~i.browsing THEN i
    ELSE IF i.current < i.count - 1 THEN Recalled(i, i.current + 1)
    ELSE [i EXCEPT !.browsing = FALSE, !.len = i.saved, !.pos = i.saved]
EditKeys(i) ==
    {HistoryUp(i), HistoryDown(i),
     [i EXCEPT !.pos = IF @ > 0 THEN @ - 1 ELSE @],
     [i EXCEPT !.pos = IF @ < i.len THEN @ + 1 ELSE @],
     [i EXCEPT !.pos = 0],
     [i EXCEPT !.pos = i.len],
     [i EXCEPT !.len = IF i.pos < @ THEN @ - 1 ELSE @]}

\* Cursor keys, Home, End, Delete and the history rewrite the row: prompt,
\* input, and the cursor placed by the length of the directory.
EditKey ==
    /\ \E i \in EditKeys(line) :
          LET p == Puts(UpdatePrompt(ClearCurrentLine(con)), i.len)
              placed == [p EXCEPT !.cx = CwdPrompt + i.pos, !.shown[p.cy] = Content(p, p.cy)]
          IN  line' = i /\ Show(IF p.spin THEN p ELSE placed)
    /\ UNCHANGED strayed

\* PgUp and PgDn.
ScrollKey ==
    /\ \/ Show(Draw(ScrollUp(con)))
       \/ Show(Draw(ScrollDown(con)))
    /\ strayed' = TRUE
    /\ UNCHANGED line

\* What the command prints before the prompt.
CommandOutput(t) == {t, PutsLine(t), Clear(t)}

\* Enter: a new line; a line that is not empty up to the cursor is kept in the
\* history and executed; then the row is blanked and the prompt printed.
Entered(i) ==
    LET n == i.count % COMMAND_HISTORY_SIZE
        k == IF i.count < COMMAND_HISTORY_SIZE THEN i.count + 1 ELSE i.count
    IN  IF i.pos > 0 THEN [i EXCEPT !.hist[n] = i.len, !.count = k, !.current = k] ELSE i
Enter ==
    /\ \E r \in IF line.pos > 0
                THEN {UpdatePrompt(o) : o \in CommandOutput(NewLine(con))}
                ELSE {NewLine(con)} :
          Show(IF r.spin THEN r
               ELSE ShowEnhancedPrompt([r EXCEPT !.cx = 0, !.shown[r.cy] = {}]))
    /\ line' = [Entered(line) EXCEPT !.pos = 0, !.len = 0, !.browsing = FALSE]
    /\ UNCHANGED strayed

ConsoleNext ==
    \/ \E p \in Painters : Blink(p) \/ TaskPrints(p) \/ NextRow(p) \/ DrawLine(p)
    \/ WriteText \/ EditorWrites \/ Backspace \/ Escape \/ Type \/ EditKey \/ ScrollKey \/ Enter

ConsoleSpec == ConsoleInit /\ [][ConsoleNext]_ConsoleVars

---------------------------------------------------------------------------
(* Properties.                                                             *)

ConsoleTypeOK ==
    /\ con.b.head \in 0..(con.b.lines - 1) /\ con.b.tail \in 0..(con.b.lines - 1)
    /\ con.b.count \in 0..con.b.lines
    /\ con.cy \in Screen /\ con.cx \in Nat
    /\ con.cx < Width \/ con.cx <= CwdPrompt + InputMax
    /\ con.view \in Nat /\ con.dirty \subseteq Screen
    /\ con.shown \in [Screen -> SUBSET Columns] /\ con.raced \subseteq Screen
    /\ paint \in [Painters -> [at : {"off", "scan", "row"}, y : 0..Height, whole : BOOLEAN]]
    /\ line.pos <= line.len /\ line.len \in 0..InputMax
    /\ line.current \in 0..line.count /\ line.count \in 0..COMMAND_HISTORY_SIZE
    /\ strayed \in BOOLEAN

\* The ring keeps the newest lines in the order in which they were added,
\* through the resize at boot, the wrap of the ring and a clear
\* (circular_buffer_add_line, circular_buffer_get_line).
RingOrder ==
    \A o \in 0..(con.b.count - 1) :
        con.b.slot[SlotOf(con.b, o)].id = con.b.added - con.b.count + 1 + o

\* A row that is not marked dirty shows what the ring holds for it, whatever
\* moved the window or the text and however many draw at once, until the ring
\* drops a line under a window that does not follow the output.  The one
\* exception is a row during whose painting, with interrupts on, another
\* printed or handled a key: its mark is lost and it may stay stale until it
\* is drawn again (terminal_putchar, terminal_draw, terminal_draw_line).
ScreenCurrent ==
    con.b.wrapped \/ con.redraw
    \/ \A y \in Screen \ (con.dirty \cup con.raced) : con.shown[y] = Content(con, y)

\* Until the user scrolls or erases back over a wrapped row, output goes to
\* the newest line, and the loop that makes the cursor's line exist ends as
\* long as the ring has a line to spare (terminal_putchar).
OutputAtEnd ==
    /\ con.spin => con.b.count = con.b.lines
    /\ ~strayed /\ con.b.count < con.b.lines => con.view + con.cy = con.b.count - 1

\* Lines keep their order, rows show them, and output goes to the last one
\* (terminal.c).
ConsoleSound == RingOrder /\ ScreenCurrent /\ OutputAtEnd

=============================================================================
