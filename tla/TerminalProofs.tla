---------------------------- MODULE TerminalProofs ----------------------------
(***************************************************************************)
(* Proofs about the terminal (Console), for a screen, a ring of lines,       *)
(* prompts and a history of any size, and the text editor (Editor), for any  *)
(* files, window and limits; and about the terminal, the editor and the      *)
(* devices of DevicesProofs together.                                        *)
(***************************************************************************)
EXTENDS MCServices, DevicesProofs, Lemmas

-----------------------------------------------------------------------------
(* The ring of lines. *)

TextLine == [id : Nat, cols : SUBSET Columns]
BufRec(n) == [lines : {n}, head : 0..n - 1, tail : 0..n - 1, count : 0..n, wrapped : BOOLEAN,
              added : Nat, slot : [0..n - 1 -> TextLine]]

\* The oldest line is first, or at the tail once the ring has wrapped.
RingShape(n, b) ==
    /\ ~b.wrapped => b.tail = 0 /\ b.head = IF b.count = n THEN 0 ELSE b.count
    /\ b.wrapped => b.count = n /\ b.head = b.tail

\* Line o is the o-th of those kept.
LineInOrder(b, o) == b.slot[SlotOf(b, o)].id = b.added - b.count + 1 + o

Ring(n, b) ==
    /\ b \in BufRec(n) /\ RingShape(n, b)
    /\ \A o \in 0..b.count - 1 : LineInOrder(b, o)

\* The columns in use on line o of the ring.
Cols(b, o) == IF o < b.count THEN b.slot[SlotOf(b, o)].cols ELSE {}

\* The constants as numbers.
LEMMA ConConstants ==
    /\ Width \in Nat /\ Width > 0 /\ Height \in Nat /\ Height > 0 /\ BootHeight \in Nat /\ BootHeight > 0
    /\ BUFFER_LINE_MULTIPLIER \in Nat /\ BUFFER_LINE_MULTIPLIER > 0
    /\ MIN_BUFFER_LINES \in Nat /\ MIN_BUFFER_LINES > 0
    /\ MAX_BUFFER_LINES \in Nat /\ MAX_BUFFER_LINES >= Height
    /\ COMMAND_HISTORY_SIZE \in Nat /\ COMMAND_HISTORY_SIZE > 0
    /\ InputMax \in Nat /\ CwdPrompt \in Nat /\ CwdPrompt > 0 /\ UserPrompt \in Nat /\ UserPrompt > 0
  BY ConsoleAssumption

\* Where a line is: after the tail, round the end of the ring.
LEMMA SlotIs ==
    ASSUME NEW n \in Nat \ {0}, NEW b \in BufRec(n), NEW o \in 0..n - 1
    PROVE  /\ SlotOf(b, o) = IF b.wrapped THEN IF b.tail + o < n THEN b.tail + o ELSE b.tail + o - n ELSE o
           /\ SlotOf(b, o) \in 0..n - 1
  <1>1. b.tail \in 0..n - 1 /\ b.lines = n
    BY DEF BufRec
  <1>2. PICK p \in 0..n - 1 : p = b.tail
    BY <1>1
  <1>3. PICK k \in 0..2 * n - 1 : k = p + o
    BY <1>2
  <1>4. k % n = IF k < n THEN k ELSE k - n
    BY ModOnce
  <1>5. SlotOf(b, o) = IF b.wrapped THEN IF p + o < n THEN p + o ELSE p + o - n ELSE o
    BY <1>1, <1>2, <1>3, <1>4 DEF SlotOf
  <1>6. SlotOf(b, o) \in 0..n - 1
    BY <1>5
  <1> QED BY <1>2, <1>5, <1>6

\* circular_buffer_add_line, field by field.
LEMMA AddFields ==
    ASSUME NEW n \in Nat \ {0}, NEW b \in BufRec(n)
    PROVE  LET r == AddLine(b)
               next(p) == IF p + 1 < n THEN p + 1 ELSE 0
           IN  /\ r \in BufRec(n)
               /\ r.added = b.added + 1
               /\ r.head = next(b.head)
               /\ r.tail = IF b.count = n THEN next(b.tail) ELSE b.tail
               /\ r.wrapped = (b.wrapped \/ b.count = n)
               /\ r.count = IF b.count = n THEN n ELSE b.count + 1
               /\ r.slot = [b.slot EXCEPT ![b.head] = [id |-> b.added + 1, cols |-> {}]]
  <1> DEFINE next(p) == IF p + 1 < n THEN p + 1 ELSE 0
             head == (b.head + 1) % n
             tail == IF b.count = n THEN (b.tail + 1) % n ELSE b.tail
             wrapped == (b.wrapped \/ b.count = n)
             count == IF b.count = n THEN n ELSE b.count + 1
             new == [id |-> b.added + 1, cols |-> {}]
             slot == [b.slot EXCEPT ![b.head] = new]
  <1>0. b.lines = n /\ b.head \in 0..n - 1 /\ b.tail \in 0..n - 1 /\ b.count \in 0..n /\ b.added \in Nat
        /\ b.slot \in [0..n - 1 -> TextLine]
    BY DEF BufRec
  <1>1. ASSUME NEW p \in 0..n - 1 PROVE (p + 1) % n = next(p) /\ next(p) \in 0..n - 1
    <2>1. p + 1 \in 0..2 * n - 1
      OBVIOUS
    <2>2. (p + 1) % n = IF p + 1 < n THEN p + 1 ELSE p + 1 - n
      BY <2>1, ModOnce
    <2> QED BY <2>2
  <1>2. head = next(b.head) /\ tail = (IF b.count = n THEN next(b.tail) ELSE b.tail)
        /\ head \in 0..n - 1 /\ tail \in 0..n - 1
    <2> HIDE DEF next
    <2> QED BY <1>0, <1>1
  <1>3. count \in 0..n /\ wrapped \in BOOLEAN
    BY <1>0
  <1>4. slot \in [0..n - 1 -> TextLine]
    <2>1. new \in TextLine
      BY <1>0 DEF TextLine
    <2> HIDE DEF new
    <2> QED BY <1>0, <2>1
  <1>5. AddLine(b) = [b EXCEPT !.slot = slot, !.added = b.added + 1, !.head = head, !.tail = tail,
                               !.wrapped = wrapped, !.count = count]
    BY <1>0 DEF AddLine
  <1> DEFINE x == [b EXCEPT !.slot = slot, !.added = b.added + 1, !.head = head]
             r == [x EXCEPT !.tail = tail, !.wrapped = wrapped, !.count = count]
  <1>6. AddLine(b) = r
    BY <1>5
  <1> DEFINE added == b.added + 1
  <1>a. added \in Nat
    BY <1>0
  <1> HIDE DEF head, tail, wrapped, count, slot, next, added
  <1>7. x \in BufRec(n) /\ x.slot = slot /\ x.added = b.added + 1 /\ x.head = head
    <2> DEFINE y == [b EXCEPT !.slot = slot, !.added = added, !.head = head]
    <2>1. y \in BufRec(n) /\ y.slot = slot /\ y.added = added /\ y.head = head
      BY <1>a, <1>2, <1>4 DEF BufRec
    <2> QED BY <2>1 DEF added
  <1> HIDE DEF x
  <1>8. r \in BufRec(n) /\ r.added = b.added + 1 /\ r.head = head /\ r.tail = tail /\ r.wrapped = wrapped
        /\ r.count = count /\ r.slot = slot
    BY <1>2, <1>3, <1>7 DEF BufRec
  <1> HIDE DEF r
  <1> QED BY <1>2, <1>6, <1>8 DEF next, wrapped, count, slot

\* What a line added to a ring does to it: the lines keep their order, and
\* until the ring is full what they hold.
Added(n, b, r) ==
    /\ Ring(n, r)
    /\ r.added = b.added + 1
    /\ b.count < n => ~b.wrapped /\ ~r.wrapped /\ r.count = b.count + 1
    /\ b.count = n => r.wrapped /\ r.count = n
    /\ ~r.wrapped => \A o \in Nat : Cols(r, o) = Cols(b, o)

LEMMA AddRing ==
    ASSUME NEW n \in Nat \ {0}, NEW b, Ring(n, b)
    PROVE  Added(n, b, AddLine(b))
  <1> DEFINE r == AddLine(b)
             next(p) == IF p + 1 < n THEN p + 1 ELSE 0
             new == [id |-> b.added + 1, cols |-> {}]
  <1>0. b \in BufRec(n) /\ RingShape(n, b)
    BY DEF Ring
  <1>1. /\ r \in BufRec(n)
        /\ r.added = b.added + 1
        /\ r.head = next(b.head)
        /\ r.tail = IF b.count = n THEN next(b.tail) ELSE b.tail
        /\ r.wrapped = (b.wrapped \/ b.count = n)
        /\ r.count = IF b.count = n THEN n ELSE b.count + 1
        /\ r.slot = [b.slot EXCEPT ![b.head] = new]
    BY <1>0, AddFields
  <1> HIDE DEF r
  <1>2. PICK h \in 0..n - 1, t \in 0..n - 1, c \in 0..n, a \in Nat :
           h = b.head /\ t = b.tail /\ c = b.count /\ a = b.added
    BY <1>0 DEF BufRec
  <1>3. b.slot \in [0..n - 1 -> TextLine] /\ b.wrapped \in BOOLEAN
    BY <1>0 DEF BufRec
  <1>4. new.id = a + 1 /\ new.cols = {}
    BY <1>2
  <1> HIDE DEF new
  <1>5. r.slot[h] = new /\ \A i \in 0..n - 1 : i # h => r.slot[i] = b.slot[i]
    BY <1>1, <1>2, <1>3
  <1>6. \A o \in 0..c - 1 : b.slot[SlotOf(b, o)].id = a - c + 1 + o
    BY <1>2 DEF Ring, LineInOrder
  <1>7. CASE c < n
    <2>1. ~b.wrapped /\ t = 0 /\ h = c
      BY <1>0, <1>2, <1>7 DEF RingShape
    <2>a. b.count # n
      BY <1>2, <1>7
    <2>2. ~r.wrapped /\ r.count = c + 1 /\ r.tail = 0 /\ r.head = next(c)
      <3>1. ~r.wrapped
        BY <1>1, <2>1, <2>a, Zenon
      <3>2. r.count = c + 1 /\ r.tail = 0 /\ r.head = next(c)
        BY <1>1, <1>2, <2>1, <2>a
      <3> QED BY <3>1, <3>2
    <2>3. RingShape(n, r)
      BY <2>2, <1>7 DEF RingShape
    <2>4. \A o : SlotOf(b, o) = o /\ SlotOf(r, o) = o
      BY <2>1, <2>2 DEF SlotOf
    <2>5. ASSUME NEW o \in 0..r.count - 1 PROVE LineInOrder(r, o)
      <3>0. o \in 0..c /\ SlotOf(r, o) = o /\ o \in 0..n - 1
        BY <2>2, <2>4, <2>5, <1>7
      <3>1. r.added - r.count + 1 + o = a - c + 1 + o
        BY <1>1, <1>2, <2>2
      <3>2. CASE o < c
        <4>1. r.slot[o] = b.slot[o] /\ b.slot[o].id = a - c + 1 + o
          BY <1>5, <1>6, <2>1, <2>4, <3>0, <3>2
        <4> QED BY <3>0, <3>1, <4>1 DEF LineInOrder
      <3>3. CASE ~(o < c)
        <4>1. o = c /\ r.slot[o].id = a + 1 /\ a - c + 1 + o = a + 1
          BY <1>2, <1>4, <1>5, <2>1, <3>0, <3>3
        <4> QED BY <3>0, <3>1, <4>1 DEF LineInOrder
      <3> QED BY <3>2, <3>3
    <2>6. ASSUME NEW o \in Nat PROVE Cols(r, o) = Cols(b, o)
      <3>1. CASE o < c
        <4>1. o \in 0..n - 1 /\ o # h
          BY <2>1, <3>1
        <4> QED BY <1>2, <1>5, <2>2, <2>4, <3>1, <4>1 DEF Cols
      <3>2. CASE o = c
        <4>1. Cols(b, o) = {} /\ c < c + 1
          BY <1>2, <3>2 DEF Cols
        <4>2. r.slot[SlotOf(r, o)].cols = {}
          BY <1>4, <1>5, <2>1, <2>4, <3>2
        <4> QED BY <2>2, <3>2, <4>1, <4>2 DEF Cols
      <3>3. CASE o > c
        BY <1>2, <2>2, <3>3 DEF Cols
      <3> QED BY <3>1, <3>2, <3>3
    <2>7. Ring(n, r)
      BY <1>1, <2>3, <2>5 DEF Ring
    <2> QED BY <1>1, <1>2, <1>7, <2>1, <2>2, <2>6, <2>7 DEF Added, r
  <1>8. CASE c = n
    <2>1. h = t /\ (~b.wrapped => t = 0)
      BY <1>0, <1>2, <1>8 DEF RingShape
    <2>2. r.wrapped /\ r.count = n /\ r.tail = next(t) /\ r.head = next(t)
      BY <1>1, <1>2, <1>8, <2>1
    <2>3. RingShape(n, r)
      BY <2>2 DEF RingShape
    <2>4. ASSUME NEW o \in 0..n - 1
          PROVE  /\ SlotOf(b, o) = IF t + o < n THEN t + o ELSE t + o - n
                 /\ SlotOf(r, o) = IF next(t) + o < n THEN next(t) + o ELSE next(t) + o - n
      <3>1. SlotOf(b, o) = IF b.wrapped THEN IF t + o < n THEN t + o ELSE t + o - n ELSE o
        BY <1>0, <1>2, SlotIs
      <3>2. SlotOf(r, o) = IF next(t) + o < n THEN next(t) + o ELSE next(t) + o - n
        BY <1>1, <2>2, SlotIs
      <3> QED BY <2>1, <3>1, <3>2
    <2>5. ASSUME NEW o \in 0..r.count - 1 PROVE LineInOrder(r, o)
      <3>0. o \in 0..n - 1 /\ r.added - r.count + 1 + o = a + 1 - n + 1 + o
        BY <1>1, <1>2, <2>2
      <3>1. CASE o < n - 1
        <4>1. o + 1 \in 0..n - 1 /\ SlotOf(r, o) = SlotOf(b, o + 1) /\ SlotOf(b, o + 1) \in 0..n - 1
              /\ SlotOf(b, o + 1) # t
          BY <2>4, <3>0, <3>1
        <4>2. b.slot[SlotOf(b, o + 1)].id = a - n + 1 + (o + 1)
          BY <1>6, <1>8, <4>1
        <4>3. r.slot[SlotOf(r, o)] = b.slot[SlotOf(b, o + 1)]
          BY <1>5, <2>1, <4>1
        <4> QED BY <1>2, <3>0, <4>2, <4>3 DEF LineInOrder
      <3>2. CASE ~(o < n - 1)
        <4>1. o = n - 1 /\ SlotOf(r, o) = h
          BY <2>1, <2>4, <3>0, <3>2
        <4>2. r.slot[SlotOf(r, o)].id = a + 1
          BY <1>4, <1>5, <4>1
        <4> QED BY <1>2, <3>0, <4>1, <4>2 DEF LineInOrder
      <3> QED BY <3>1, <3>2
    <2>6. Ring(n, r)
      BY <1>1, <2>3, <2>5 DEF Ring
    <2> QED BY <1>1, <1>2, <1>8, <2>2, <2>6 DEF Added, r
  <1> QED BY <1>7, <1>8

\* An empty ring.
LEMMA NewRing ==
    ASSUME NEW n \in Nat \ {0}
    PROVE  Ring(n, NewBuffer(n)) /\ NewBuffer(n).count = 0
  <1> DEFINE new == [id |-> 0, cols |-> {}]
             slot == [i \in 0..n - 1 |-> new]
  <1>1. slot \in [0..n - 1 -> TextLine]
    <2>1. new \in TextLine
      BY DEF TextLine
    <2> HIDE DEF new
    <2> QED BY <2>1
  <1> HIDE DEF slot
  <1>2. NewBuffer(n) = [lines |-> n, head |-> 0, tail |-> 0, count |-> 0, wrapped |-> FALSE, added |-> 0,
                        slot |-> slot]
    BY DEF NewBuffer, slot
  <1>3. NewBuffer(n) \in BufRec(n)
    BY <1>1, <1>2 DEF BufRec
  <1> QED BY <1>2, <1>3 DEF Ring, RingShape

\* Other columns on one line.
ColsSet(b, s, c) == [b EXCEPT !.slot[s].cols = c]
Rewritten(n, b, s, r) ==
    /\ Ring(n, r) /\ r.count = b.count /\ r.wrapped = b.wrapped
    /\ ~b.wrapped => \A o \in Nat : o # s => Cols(r, o) = Cols(b, o)

\* They leave the order of the lines and the other lines as they are.
LEMMA ColsRing ==
    ASSUME NEW n \in Nat \ {0}, NEW b, Ring(n, b), NEW s \in 0..n - 1, NEW c \in SUBSET Columns
    PROVE  Rewritten(n, b, s, ColsSet(b, s, c))
  <1> DEFINE slot == [b.slot EXCEPT ![s] = [b.slot[s] EXCEPT !.cols = c]]
             r == [b EXCEPT !.slot = slot]
  <1>0. b \in BufRec(n) /\ RingShape(n, b)
    BY DEF Ring
  <1>1. b.slot \in [0..n - 1 -> TextLine] /\ b.slot[s] \in TextLine
    BY <1>0 DEF BufRec
  <1>2. [b.slot[s] EXCEPT !.cols = c] \in TextLine /\ [b.slot[s] EXCEPT !.cols = c].id = b.slot[s].id
    BY <1>1 DEF TextLine
  <1>3. slot \in [0..n - 1 -> TextLine] /\ (\A i \in 0..n - 1 : slot[i].id = b.slot[i].id)
        /\ \A i \in 0..n - 1 : i # s => slot[i] = b.slot[i]
    <2> DEFINE v == [b.slot[s] EXCEPT !.cols = c]
    <2>1. v \in TextLine /\ v.id = b.slot[s].id
      BY <1>2
    <2> HIDE DEF v
    <2>2. slot = [b.slot EXCEPT ![s] = v]
      BY DEF v
    <2> QED BY <1>1, <2>1, <2>2
  <1>4. ColsSet(b, s, c) = r
    BY DEF ColsSet
  <1> HIDE DEF slot
  <1>5. r \in BufRec(n) /\ r.slot = slot /\ r.count = b.count /\ r.wrapped = b.wrapped
        /\ r.tail = b.tail /\ r.head = b.head /\ r.added = b.added /\ r.lines = b.lines
    BY <1>0, <1>3 DEF BufRec
  <1> HIDE DEF r
  <1>6. RingShape(n, r)
    BY <1>0, <1>5 DEF RingShape
  <1>7. \A o : SlotOf(r, o) = SlotOf(b, o)
    BY <1>5 DEF SlotOf
  <1>c. b.count \in 0..n
    BY <1>0 DEF BufRec
  <1>8. ASSUME NEW o \in 0..r.count - 1 PROVE LineInOrder(r, o)
    <2>1. o \in 0..n - 1 /\ o \in 0..b.count - 1
      BY <1>c, <1>5
    <2>2. SlotOf(b, o) \in 0..n - 1
      BY <1>0, <2>1, SlotIs
    <2>3. LineInOrder(b, o)
      BY <2>1 DEF Ring
    <2> QED BY <1>3, <1>5, <1>7, <2>2, <2>3 DEF LineInOrder
  <1>9. ASSUME ~b.wrapped, NEW o \in Nat, o # s PROVE Cols(r, o) = Cols(b, o)
    <2>1. CASE o < b.count
      <3>1. o \in 0..n - 1 /\ SlotOf(b, o) = o
        BY <1>c, <1>9, <2>1 DEF SlotOf
      <3> QED BY <1>3, <1>5, <1>7, <1>9, <3>1 DEF Cols
    <2>2. CASE ~(o < b.count)
      BY <1>5, <2>2 DEF Cols
    <2> QED BY <2>1, <2>2
  <1>10. Ring(n, r)
    BY <1>5, <1>6, <1>8 DEF Ring
  <1> QED BY <1>4, <1>5, <1>9, <1>10 DEF Rewritten

\* The columns of a line are columns of the screen.
LEMMA ColsIn ==
    ASSUME NEW n \in Nat \ {0}, NEW b, Ring(n, b), NEW o \in Nat
    PROVE  Cols(b, o) \in SUBSET Columns
  <1>0. b \in BufRec(n) /\ b.count \in 0..n /\ b.slot \in [0..n - 1 -> TextLine]
    BY DEF Ring, BufRec
  <1>1. CASE o < b.count
    <2>1. o \in 0..n - 1
      BY <1>0, <1>1
    <2>2. SlotOf(b, o) \in 0..n - 1
      BY <1>0, <2>1, SlotIs
    <2>3. b.slot[SlotOf(b, o)] \in TextLine
      BY <1>0, <2>2
    <2> QED BY <1>1, <2>3 DEF Cols, TextLine
  <1>2. CASE ~(o < b.count)
    BY <1>2 DEF Cols
  <1> QED BY <1>1, <1>2

-----------------------------------------------------------------------------
(* The window and the cursor. *)

RingLines == BufferLines(Height)

TermRec == [b : BufRec(RingLines), view : Nat, cx : Nat, cy : Screen, dirty : SUBSET Screen,
            shown : [Screen -> SUBSET Columns], redraw : BOOLEAN, spin : BOOLEAN,
            raced : SUBSET Screen]

\* A window with text to fill it, while the ring has room.
TermTyped(t) ==
    /\ t \in TermRec /\ Ring(RingLines, t.b)
    /\ t.spin => t.b.count = RingLines
    /\ t.b.count < RingLines => t.view = 0 \/ t.view + Height <= t.b.count

\* The cursor is on a line that exists.
Placed(t) == t.b.count < RingLines => t.view + t.cy < t.b.count

Term(t) == TermTyped(t) /\ Placed(t)

\* Every row that is not marked shows its line.
RowsCurrent(t, rows) ==
    t.b.wrapped \/ t.redraw \/ \A y \in Screen \ rows : y \in t.raced \/ t.shown[y] = Content(t, y)
Fresh(t) == RowsCurrent(t, t.dirty)

\* The same, but for the cursor's row.
Nearly(t) == RowsCurrent(t, t.dirty \cup {t.cy})

\* The cursor is on the last line.
AtEnd(t) == t.b.count < RingLines => t.view + t.cy = t.b.count - 1

\* The cursor is on the screen, or where a long input line put it.
InColumn(t) == t.cx < Width \/ t.cx <= CwdPrompt + InputMax

Continues(t, r) ==
    /\ Term(r)
    /\ Fresh(t) => Fresh(r)
    /\ AtEnd(t) => AtEnd(r)
    /\ InColumn(t) => InColumn(r)

\* The sizes of the two rings.
LEMMA RingSizes ==
    RingLines \in Nat \ {0} /\ RingLines >= Height /\ BufferLines(BootHeight) \in Nat \ {0}
  <1>1. ASSUME NEW h \in Nat, h > 0 PROVE BufferLines(h) \in Nat \ {0} /\ (h <= MAX_BUFFER_LINES => BufferLines(h) >= h)
    <2>1. PICK n \in Nat : n = h * BUFFER_LINE_MULTIPLIER /\ n >= h
      <3>1. h * BUFFER_LINE_MULTIPLIER \in Nat /\ h * BUFFER_LINE_MULTIPLIER >= h
        BY <1>1, ConConstants
      <3> QED BY <3>1
    <2>2. BufferLines(h) = IF n < MIN_BUFFER_LINES THEN MIN_BUFFER_LINES
                           ELSE IF n > MAX_BUFFER_LINES THEN MAX_BUFFER_LINES ELSE n
      BY <2>1 DEF BufferLines
    <2> QED BY <1>1, <2>1, <2>2, ConConstants
  <1> QED BY <1>1, ConConstants DEF RingLines

\* The fields of a terminal.
LEMMA TermFields ==
    ASSUME NEW t, TermTyped(t)
    PROVE  /\ t \in TermRec /\ Ring(RingLines, t.b) /\ t.b \in BufRec(RingLines) /\ t.b.lines = RingLines
           /\ t.b.count \in Nat /\ t.b.count <= RingLines /\ t.view \in Nat /\ t.cx \in Nat
           /\ t.cy \in Screen /\ t.cy \in Nat /\ t.cy < Height /\ t.dirty \in SUBSET Screen
           /\ t.shown \in [Screen -> SUBSET Columns] /\ t.redraw \in BOOLEAN /\ t.spin \in BOOLEAN /\ t.raced \in SUBSET Screen
           /\ t.b.wrapped \in BOOLEAN
           /\ t.b.count < RingLines => t.view + t.cy < RingLines
  <1>1. t \in TermRec /\ Ring(RingLines, t.b)
    BY DEF TermTyped
  <1>2. t.b \in BufRec(RingLines) /\ t.view \in Nat /\ t.cx \in Nat /\ t.cy \in Screen /\ t.dirty \in SUBSET Screen
        /\ t.shown \in [Screen -> SUBSET Columns] /\ t.redraw \in BOOLEAN /\ t.spin \in BOOLEAN /\ t.raced \in SUBSET Screen
    BY <1>1 DEF TermRec
  <1>3. t.b.lines = RingLines /\ t.b.count \in 0..RingLines /\ t.b.wrapped \in BOOLEAN
    BY <1>2 DEF BufRec
  <1>4. t.cy \in Nat /\ t.cy < Height /\ t.b.count \in Nat /\ t.b.count <= RingLines
    BY <1>2, <1>3, ConConstants, RingSizes DEF Screen
  <1>5. t.b.count < RingLines => t.view + t.cy < RingLines
    <2> SUFFICES ASSUME t.b.count < RingLines PROVE t.view + t.cy < RingLines
      OBVIOUS
    <2>1. t.view = 0 \/ t.view + Height <= t.b.count
      BY DEF TermTyped
    <2>2. PICK v \in Nat, y \in Nat, c \in Nat : v = t.view /\ y = t.cy /\ c = t.b.count
      BY <1>2, <1>4
    <2> QED BY <1>4, <2>1, <2>2, ConConstants, RingSizes
  <1> QED BY <1>1, <1>2, <1>3, <1>4, <1>5

\* Another terminal with the same text, window and cursor row.
LEMMA SameTerminal ==
    ASSUME NEW t, TermTyped(t), NEW r \in TermRec, r.b = t.b, r.view = t.view, r.cy = t.cy, r.spin = t.spin
    PROVE  /\ TermTyped(r) /\ (Placed(t) => Placed(r)) /\ (AtEnd(t) => AtEnd(r))
           /\ \A y : Content(r, y) = Content(t, y)
  <1>1. TermTyped(r) /\ (Placed(t) => Placed(r)) /\ (AtEnd(t) => AtEnd(r))
    BY DEF TermTyped, Placed, AtEnd
  <1> QED BY <1>1 DEF Content

\* What a row holds.
LEMMA ContentIn ==
    ASSUME NEW t, TermTyped(t), NEW y \in Screen
    PROVE  Content(t, y) = Cols(t.b, t.view + y) /\ Content(t, y) \in SUBSET Columns /\ t.view + y \in Nat
  <1>1. t.view + y \in Nat
    BY TermFields, ConConstants DEF Screen
  <1>2. Content(t, y) = Cols(t.b, t.view + y)
    BY DEF Content, Cols
  <1>3. Cols(t.b, t.view + y) \in SUBSET Columns
    BY <1>1, TermFields, RingSizes, ColsIn
  <1> QED BY <1>1, <1>2, <1>3

\* The cursor's column alone.
LEMMA ColumnTerm ==
    ASSUME NEW t, TermTyped(t), NEW x \in Nat
    PROVE  LET r == [t EXCEPT !.cx = x]
           IN  /\ TermTyped(r) /\ (Placed(t) => Placed(r)) /\ (Fresh(t) => Fresh(r)) /\ (AtEnd(t) => AtEnd(r))
               /\ r.cx = x /\ r.spin = t.spin
  <1> DEFINE r == [t EXCEPT !.cx = x]
  <1>1. r \in TermRec /\ r.b = t.b /\ r.view = t.view /\ r.cy = t.cy /\ r.spin = t.spin /\ r.cx = x
        /\ r.dirty = t.dirty /\ r.shown = t.shown /\ r.redraw = t.redraw /\ r.raced = t.raced
    BY TermFields DEF TermRec
  <1> HIDE DEF r
  <1>2. TermTyped(r) /\ (Placed(t) => Placed(r)) /\ (AtEnd(t) => AtEnd(r)) /\ \A y : Content(r, y) = Content(t, y)
    BY <1>1, SameTerminal
  <1>3. Fresh(t) => Fresh(r)
    BY <1>1, <1>2 DEF Fresh, RowsCurrent
  <1> QED BY <1>1, <1>2, <1>3 DEF r

\* terminal_draw shows what it draws.
LEMMA DrawTerm ==
    ASSUME NEW t, TermTyped(t)
    PROVE  /\ TermTyped(Draw(t)) /\ (Placed(t) => Placed(Draw(t))) /\ (Fresh(t) => Fresh(Draw(t)))
           /\ (AtEnd(t) => AtEnd(Draw(t)))
           /\ Draw(t).cx = t.cx /\ Draw(t).cy = t.cy /\ Draw(t).spin = t.spin
  <1> DEFINE rows == IF t.redraw THEN Screen ELSE t.dirty
             left == t.raced \ rows
             shown == [y \in Screen |-> IF y \in rows THEN Content(t, y) ELSE t.shown[y]]
             r == [t EXCEPT !.shown = shown, !.dirty = {}, !.redraw = FALSE, !.raced = left]
  <1>1. Draw(t) = r
    BY DEF Draw
  <1>2. \A y \in Screen : Content(t, y) \in SUBSET Columns
    BY ContentIn
  <1>3. shown \in [Screen -> SUBSET Columns]
    BY <1>2, TermFields
  <1>4. \A y \in Screen : shown[y] = IF y \in rows THEN Content(t, y) ELSE t.shown[y]
    OBVIOUS
  <1> HIDE DEF shown
  <1>5. r \in TermRec /\ r.b = t.b /\ r.view = t.view /\ r.cy = t.cy /\ r.spin = t.spin /\ r.cx = t.cx
        /\ r.dirty = {} /\ r.shown = shown /\ r.redraw = FALSE /\ r.raced = left
    <2>1. t \in TermRec /\ {} \in SUBSET Screen /\ left \in SUBSET Screen
      BY TermFields
    <2> QED BY <1>3, <2>1 DEF TermRec
  <1> HIDE DEF r
  <1>6. TermTyped(r) /\ (Placed(t) => Placed(r)) /\ (AtEnd(t) => AtEnd(r)) /\ \A y : Content(r, y) = Content(t, y)
    BY <1>5, SameTerminal
  <1>7. ASSUME Fresh(t) PROVE Fresh(r)
    <2>1. CASE t.b.wrapped
      BY <1>5, <2>1 DEF Fresh, RowsCurrent
    <2>2. CASE ~t.b.wrapped
      <3>1. ASSUME NEW y \in Screen PROVE y \in left \/ shown[y] = Content(t, y)
        BY <1>4, <1>7, <2>2 DEF Fresh, RowsCurrent
      <3> QED BY <1>5, <1>6, <3>1 DEF Fresh, RowsCurrent
    <2> QED BY <2>1, <2>2
  <1> QED BY <1>1, <1>5, <1>6, <1>7

\* A mark more changes nothing.
LEMMA MarkTerm ==
    ASSUME NEW t, TermTyped(t), NEW rows \in SUBSET Screen
    PROVE  LET r == [t EXCEPT !.dirty = t.dirty \cup rows]
           IN  /\ TermTyped(r) /\ (Placed(t) => Placed(r)) /\ (Fresh(t) => Fresh(r)) /\ (AtEnd(t) => AtEnd(r))
               /\ r.cx = t.cx /\ r.spin = t.spin
  <1> DEFINE d == t.dirty \cup rows
             r == [t EXCEPT !.dirty = d]
  <1>0. t \in TermRec /\ d \in SUBSET Screen
    BY TermFields
  <1>a. t.dirty \subseteq d
    OBVIOUS
  <1> HIDE DEF d
  <1>1. r \in TermRec /\ r.b = t.b /\ r.view = t.view /\ r.cy = t.cy /\ r.spin = t.spin /\ r.cx = t.cx
        /\ r.dirty = d /\ r.shown = t.shown /\ r.redraw = t.redraw /\ r.raced = t.raced
    BY <1>0 DEF TermRec
  <1> HIDE DEF r
  <1>2. TermTyped(r) /\ (Placed(t) => Placed(r)) /\ (AtEnd(t) => AtEnd(r)) /\ \A y : Content(r, y) = Content(t, y)
    BY <1>1, SameTerminal
  <1>3. Fresh(t) => Fresh(r)
    BY <1>1, <1>2, <1>a DEF Fresh, RowsCurrent
  <1> QED BY <1>1, <1>2, <1>3 DEF r, d

\* terminal_putchar of a line feed.
LEMMA NewLineTerm ==
    ASSUME NEW t, Term(t)
    PROVE  Continues(t, NewLine(t)) /\ NewLine(t).spin = t.spin /\ NewLine(t).cx = 0
  <1> DEFINE b == AddLine(t.b)
             bottom == t.cy >= Height - 1
             follows == bottom /\ t.view + Height >= b.count - 1
             cy == IF bottom THEN t.cy ELSE t.cy + 1
             view == IF follows THEN t.view + 1 ELSE t.view
             dirty == IF follows THEN Screen ELSE t.dirty \cup {cy}
             x == [t EXCEPT !.b = b, !.cx = 0, !.cy = cy]
             r == [x EXCEPT !.view = view, !.dirty = dirty]
  <1>0. TermTyped(t) /\ Placed(t)
    BY DEF Term
  <1>1. NewLine(t) = r
    BY DEF NewLine
  <1>2. Added(RingLines, t.b, b)
    BY <1>0, TermFields, RingSizes, AddRing
  <1>3. PICK c \in Nat, v \in Nat, y \in Nat, k \in Nat :
           /\ c = t.b.count /\ v = t.view /\ y = t.cy /\ k = b.count
           /\ c <= RingLines /\ y < Height
           /\ k = IF c = RingLines THEN c ELSE c + 1
    <2>1. t.b.count \in Nat /\ t.b.count <= RingLines /\ t.view \in Nat /\ t.cy \in Nat /\ t.cy < Height
      BY <1>0, TermFields
    <2>2. b.count = IF t.b.count = RingLines THEN t.b.count ELSE t.b.count + 1
      BY <1>2, <2>1, RingSizes DEF Added
    <2> HIDE DEF b
    <2> QED BY <2>1, <2>2
  <1>b. b \in BufRec(RingLines) /\ Ring(RingLines, b)
    BY <1>2 DEF Added, Ring
  <1> HIDE DEF b
  <1>4. cy \in Screen /\ view \in Nat /\ dirty \in SUBSET Screen
    <2>1. cy \in Screen
      BY <1>3, ConConstants DEF Screen
    <2>2. view \in Nat
      BY <1>3
    <2>3. t.dirty \in SUBSET Screen
      BY <1>0, TermFields
    <2> HIDE DEF cy, follows
    <2> QED BY <2>1, <2>2, <2>3
  <1>5. bottom = (y >= Height - 1) /\ cy = (IF bottom THEN y ELSE y + 1) /\ view = (IF follows THEN v + 1 ELSE v)
        /\ follows = (bottom /\ v + Height >= k - 1)
    BY <1>3
  <1>6. (dirty = IF follows THEN Screen ELSE t.dirty \cup {cy})
    OBVIOUS
  <1> HIDE DEF bottom, follows, cy, view, dirty
  <1>7. x \in TermRec /\ x.b = b /\ x.cx = 0 /\ x.cy = cy /\ x.dirty = t.dirty /\ x.shown = t.shown
        /\ x.redraw = t.redraw /\ x.raced = t.raced /\ x.spin = t.spin
    <2>1. t \in TermRec /\ 0 \in Nat
      BY <1>0, TermFields
    <2> QED BY <1>b, <1>4, <2>1 DEF TermRec
  <1> HIDE DEF x
  <1>8. r \in TermRec /\ r.b = b /\ r.cx = 0 /\ r.cy = cy /\ r.dirty = dirty /\ r.shown = t.shown
        /\ r.redraw = t.redraw /\ r.raced = t.raced /\ r.spin = t.spin /\ r.view = view
    BY <1>4, <1>7 DEF TermRec
  <1> HIDE DEF r
  <1>9. c < RingLines => v + y < c /\ (v = 0 \/ v + Height <= c)
    BY <1>0, <1>3 DEF TermTyped, Placed
  <1>10. k < RingLines => /\ view = 0 \/ view + Height <= k
                     /\ view + cy < k
    <2> SUFFICES ASSUME k < RingLines PROVE (view = 0 \/ view + Height <= k) /\ view + cy < k
      OBVIOUS
    <2>1. c < RingLines /\ k = c + 1 /\ v + y < c /\ (v = 0 \/ v + Height <= c)
      BY <1>3, <1>9, RingSizes
    <2>2. CASE follows
      <3>1. bottom
        BY <1>5, <2>2, Zenon
      <3>2. y >= Height - 1 /\ cy = y /\ view = v + 1
        BY <1>5, <2>2, <3>1
      <3> QED BY <2>1, <3>2, <1>3, ConConstants
    <2>3. CASE ~follows
      <3>1. CASE bottom
        BY <2>1, <2>3, <3>1, <1>3, <1>5, ConConstants
      <3>2. CASE ~bottom
        BY <2>1, <2>3, <3>2, <1>3, <1>5, ConConstants
      <3> QED BY <3>1, <3>2
    <2> QED BY <2>2, <2>3
  <1>11. t.spin => k = RingLines
    <2>1. t.spin => c = RingLines
      BY <1>0, <1>3 DEF TermTyped
    <2> QED BY <1>3, <2>1
  <1>12. Term(r)
    <2>1. r.b.count = k /\ Ring(RingLines, r.b)
      BY <1>3, <1>8, <1>b
    <2>2. TermTyped(r)
      BY <1>8, <1>10, <1>11, <2>1 DEF TermTyped
    <2>3. Placed(r)
      BY <1>8, <1>10, <2>1 DEF Placed
    <2> QED BY <2>2, <2>3 DEF Term
  <1>13. ASSUME Fresh(t) PROVE Fresh(r)
    <2>1. CASE b.wrapped \/ t.redraw \/ follows
      <3>1. CASE follows
        BY <1>6, <1>8, <3>1 DEF Fresh, RowsCurrent
      <3> QED BY <1>8, <2>1, <3>1 DEF Fresh, RowsCurrent
    <2>2. CASE ~b.wrapped /\ ~t.redraw /\ ~follows
      <3>1. ~t.b.wrapped
        <4>1. c < RingLines \/ c = RingLines
          BY <1>3, RingSizes
        <4> QED BY <1>2, <1>3, <2>2, <4>1 DEF Added
      <3>2. view = t.view
        BY <1>3, <1>5, <2>2
      <3>3. ASSUME NEW z \in Screen \ dirty, z \notin t.raced PROVE r.shown[z] = Content(r, z)
        <4>1. t.shown[z] = Content(t, z)
          BY <1>6, <1>13, <2>2, <3>1, <3>3 DEF Fresh, RowsCurrent
        <4>2. Content(t, z) = Cols(t.b, t.view + z) /\ t.view + z \in Nat
          BY <1>0, ContentIn
        <4>3. Content(r, z) = Cols(b, view + z)
          BY <1>8, <1>12, ContentIn DEF Term
        <4>4. Cols(b, t.view + z) = Cols(t.b, t.view + z)
          BY <1>2, <2>2, <4>2 DEF Added
        <4> QED BY <1>8, <3>2, <4>1, <4>2, <4>3, <4>4
      <3> QED BY <1>8, <3>3 DEF Fresh, RowsCurrent
    <2> QED BY <2>1, <2>2
  <1>14. ASSUME AtEnd(t) PROVE AtEnd(r)
    <2>1. c < RingLines => v + y = c - 1
      BY <1>3, <1>14 DEF AtEnd
    <2>2. k < RingLines => view + cy = k - 1
      <3> SUFFICES ASSUME k < RingLines PROVE view + cy = k - 1
        OBVIOUS
      <3>1. c < RingLines /\ k = c + 1 /\ v + y = c - 1
        BY <1>3, <2>1, RingSizes
      <3>2. CASE bottom
        <4>0. v + Height >= k - 1
          <5>1. y >= Height - 1
            BY <1>5, <3>2
          <5> QED BY <1>3, <3>1, <5>1, ConConstants
        <4>1. follows
          BY <1>5, <3>2, <4>0, Zenon
        <4> QED BY <1>3, <1>5, <3>1, <3>2, <4>1, ConConstants
      <3>3. CASE ~bottom
        <4>1. ~follows
          BY <1>5, <3>3
        <4> QED BY <1>3, <1>5, <3>1, <3>3, <4>1, ConConstants
      <3> QED BY <3>2, <3>3
    <2> QED BY <1>3, <1>8, <2>2 DEF AtEnd
  <1>15. InColumn(r)
    BY <1>8, ConConstants DEF InColumn
  <1> QED BY <1>1, <1>8, <1>12, <1>13, <1>14, <1>15 DEF Continues

IsMore(b, m, g) == g = [k \in 0..m |-> IF k = 0 THEN b ELSE AddLine(g[k - 1])]

\* Each line is added to the ring that has the ones before.
LEMMA MoreExists ==
    ASSUME NEW b, NEW t \in Nat
    PROVE  \E g : IsMore(b, t, g)
  <1> DEFINE Step(x) == AddLine(x)
             Bad == {m \in Nat : ~\E g : IsMore(b, m, g)}
  <1>1. Bad = {}
    <2> SUFFICES ASSUME Bad # {} PROVE FALSE
      OBVIOUS
    <2>1. PICK m \in Bad : \A k \in Bad : m <= k
      BY LeastNat
    <2>2. IsMore(b, 0, [k \in 0..0 |-> b])
      BY DEF IsMore
    <2>3. m # 0
      BY <2>1, <2>2
    <2>4. m - 1 \in Nat /\ m - 1 \notin Bad /\ m \in Nat
      <3>1. m \in Nat
        OBVIOUS
      <3> HIDE DEF Bad
      <3> QED BY <3>1, <2>1, <2>3
    <2>5. PICK g : IsMore(b, m - 1, g)
      BY <2>4
    <2> HIDE DEF Step
    <2> DEFINE h == [k \in 0..m |-> IF k = m THEN Step(g[m - 1]) ELSE g[k]]
    <2>6. \A k \in 0..m - 1 : g[k] = IF k = 0 THEN b ELSE Step(g[k - 1])
      BY <2>5, Zenon DEF IsMore, Step
    <2>7. ASSUME NEW k \in 0..m PROVE h[k] = IF k = 0 THEN b ELSE Step(h[k - 1])
      <3>1. CASE k = m
        <4>1. h[k] = Step(g[m - 1])
          BY <3>1, <2>4
        <4>2. h[k - 1] = g[m - 1]
          BY <3>1, <2>4, <2>3
        <4> QED BY <4>1, <4>2, <3>1, <2>3
      <3>2. CASE k # m
        <4>1. k \in 0..m - 1 /\ h[k] = g[k]
          BY <3>2, <2>4
        <4>2. k # 0 => h[k - 1] = g[k - 1]
          BY <4>1, <2>4
        <4> QED BY <4>1, <4>2, <2>6
      <3> QED BY <3>1, <3>2
    <2>8. h = [k \in 0..m |-> h[k]]
      OBVIOUS
    <2>9. IsMore(b, m, h)
      <3> HIDE DEF h
      <3> QED BY <2>7, <2>8, Zenon DEF IsMore, Step
    <2> QED BY <2>1, <2>9
  <1> QED BY <1>1

\* A ring with more lines, all of them empty.
Grown(b, r, c) ==
    /\ Ring(RingLines, r) /\ r.count = c /\ r.wrapped = b.wrapped
    /\ ~b.wrapped => \A o \in Nat : Cols(r, o) = Cols(b, o)

\* The loop of terminal_putchar that makes the cursor's line exist: it does
\* not reach the ring's end.
LEMMA ExtendedRing ==
    ASSUME NEW t, TermTyped(t), ~Endless(t)
    PROVE  \E c \in Nat : /\ Grown(t.b, Extended(t), c) /\ t.view + t.cy < c /\ c <= RingLines
                          /\ t.view + t.cy < t.b.count => c = t.b.count
                          /\ t.view + t.cy >= t.b.count => c = t.view + t.cy + 1
  <1> DEFINE missing == t.view + t.cy + 1 - t.b.count
             g == CHOOSE f : IsMore(t.b, missing, f)
  <1>1. PICK a \in Nat, p \in Nat, c \in Nat :
           a = t.view /\ p = t.cy /\ c = t.b.count /\ c <= RingLines
    BY TermFields
  <1>2. a + p < c \/ a + p < RingLines
    <2>1. t.b.lines = RingLines
      BY TermFields
    <2>2. ~(a + p >= c /\ a + p >= RingLines)
      BY <1>1, <2>1 DEF Endless
    <2> QED BY <1>1, <2>2, RingSizes
  <1>3. missing = a + p + 1 - c
    BY <1>1
  <1>4. Extended(t) = IF missing > 0 THEN g[missing] ELSE t.b
    BY DEF Extended, IsMore
  <1>5. CASE ~(missing > 0)
    <2>1. Extended(t) = t.b /\ a + p < c
      BY <1>1, <1>3, <1>4, <1>5
    <2>2. Grown(t.b, Extended(t), c)
      BY <1>1, <2>1, TermFields DEF Grown
    <2>3. t.view + t.cy < c /\ (t.view + t.cy < t.b.count => c = t.b.count) /\ ~(t.view + t.cy >= t.b.count)
      BY <1>1, <2>1
    <2> QED BY <1>1, <2>2, <2>3
  <1>6. CASE missing > 0
    <2>1. PICK n \in Nat : n = missing /\ n > 0 /\ c + n = a + p + 1 /\ c + n <= RingLines /\ c < RingLines
      BY <1>1, <1>2, <1>3, <1>6, RingSizes
    <2>2. IsMore(t.b, n, g)
      BY <2>1, MoreExists
    <2>3. Extended(t) = g[n]
      BY <1>4, <1>6, <2>1
    <2> HIDE DEF g, missing
    <2>4. \A k \in 0..n : g[k] = IF k = 0 THEN t.b ELSE AddLine(g[k - 1])
      BY <2>2, Zenon DEF IsMore
    <2>5. ~t.b.wrapped
      BY <1>1, <2>1, TermFields, RingSizes DEF Ring, RingShape
    <2> DEFINE Bad == {k \in 0..n : ~Grown(t.b, g[k], c + k)}
    <2>6. Bad = {}
      <3> SUFFICES ASSUME Bad # {} PROVE FALSE
        OBVIOUS
      <3>1. Bad \in SUBSET Nat
        BY <2>1
      <3>2. PICK m \in Bad : \A k \in Bad : m <= k
        BY <3>1, LeastNat
      <3>3. m \in 0..n /\ ~Grown(t.b, g[m], c + m)
        BY <3>2
      <3>4. m # 0
        <4>1. g[0] = t.b /\ c + 0 = c
          BY <1>1, <2>1, <2>4
        <4>2. Grown(t.b, t.b, c)
          BY <1>1, TermFields DEF Grown
        <4> QED BY <3>3, <4>1, <4>2
      <3>5. m - 1 \in 0..n /\ m - 1 \notin Bad /\ m \in 1..n
        <4> HIDE DEF Bad
        <4> QED BY <2>1, <3>2, <3>3, <3>4
      <3>6. Grown(t.b, g[m - 1], c + (m - 1))
        BY <3>5
      <3>7. g[m] = AddLine(g[m - 1])
        BY <2>4, <3>3, <3>4
      <3>8. PICK x : x = g[m - 1]
        OBVIOUS
      <3>9. Added(RingLines, x, AddLine(x))
        BY <3>6, <3>8, RingSizes, AddRing DEF Grown
      <3>10. PICK d \in Nat : d = c + (m - 1) /\ d < RingLines /\ d + 1 = c + m
        BY <2>1, <3>5, RingSizes
      <3>11. x.count = d /\ x.wrapped = t.b.wrapped /\ (\A o \in Nat : Cols(x, o) = Cols(t.b, o))
        BY <2>5, <3>6, <3>8, <3>10 DEF Grown
      <3>12. ~AddLine(x).wrapped /\ AddLine(x).count = d + 1 /\ Ring(RingLines, AddLine(x))
             /\ \A o \in Nat : Cols(AddLine(x), o) = Cols(x, o)
        BY <3>9, <3>10, <3>11 DEF Added
      <3>13. AddLine(x).wrapped = t.b.wrapped
        <4>1. AddLine(x).wrapped \in BOOLEAN /\ t.b.wrapped \in BOOLEAN
          BY <3>12, TermFields DEF Ring, BufRec
        <4> QED BY <4>1, <2>5, <3>12
      <3>14. Grown(t.b, AddLine(x), c + m)
        BY <3>10, <3>11, <3>12, <3>13 DEF Grown
      <3> QED BY <3>3, <3>7, <3>8, <3>14
    <2>7. Grown(t.b, g[n], c + n)
      BY <2>1, <2>6
    <2>8. c + n \in Nat /\ t.view + t.cy < c + n /\ c + n <= RingLines /\ ~(t.view + t.cy < t.b.count)
          /\ c + n = t.view + t.cy + 1
      BY <1>1, <2>1
    <2> QED BY <2>3, <2>7, <2>8
  <1> QED BY <1>5, <1>6

\* The terminal once the cursor's line exists.
LEMMA ExtendedTerm ==
    ASSUME NEW t, TermTyped(t), ~Endless(t)
    PROVE  LET e == [t EXCEPT !.b = Extended(t)]
           IN  /\ TermTyped(e) /\ e.view + e.cy < e.b.count
               /\ (Fresh(t) => Fresh(e)) /\ (Nearly(t) => Nearly(e)) /\ (AtEnd(t) => AtEnd(e))
               /\ e.cx = t.cx /\ e.spin = t.spin
  <1> DEFINE b == Extended(t)
             e == [t EXCEPT !.b = b]
  <1>1. PICK c \in Nat : /\ Grown(t.b, b, c) /\ t.view + t.cy < c /\ c <= RingLines
                         /\ t.view + t.cy < t.b.count => c = t.b.count
                         /\ t.view + t.cy >= t.b.count => c = t.view + t.cy + 1
    BY ExtendedRing
  <1> HIDE DEF b
  <1>2. b \in BufRec(RingLines) /\ Ring(RingLines, b) /\ b.count = c /\ b.wrapped = t.b.wrapped
    BY <1>1 DEF Grown, Ring
  <1>3. e \in TermRec /\ e.b = b /\ e.view = t.view /\ e.cx = t.cx /\ e.cy = t.cy /\ e.dirty = t.dirty
        /\ e.shown = t.shown /\ e.redraw = t.redraw /\ e.raced = t.raced /\ e.spin = t.spin
    <2>1. t \in TermRec
      BY TermFields
    <2> QED BY <1>2, <2>1 DEF TermRec
  <1> HIDE DEF e
  <1>4. PICK a \in Nat, p \in Nat, n \in Nat : a = t.view /\ p = t.cy /\ n = t.b.count /\ n <= RingLines
    BY TermFields
  <1>5. n <= c /\ (n = RingLines => c = RingLines) /\ (a + p = n - 1 => c = n)
    <2>1. a + p < c /\ c <= RingLines /\ (a + p < n => c = n) /\ (a + p >= n => c = a + p + 1)
      BY <1>1, <1>4
    <2> QED BY <1>4, <2>1, RingSizes
  <1>6. TermTyped(e)
    <2>1. t.spin => n = RingLines
      BY <1>4 DEF TermTyped
    <2>2. n < RingLines => a = 0 \/ a + Height <= n
      BY <1>4 DEF TermTyped
    <2>3. c < RingLines => a = 0 \/ a + Height <= c
      BY <1>4, <1>5, <2>2, RingSizes, ConConstants
    <2>4. t.spin => c = RingLines
      BY <1>5, <2>1
    <2> QED BY <1>2, <1>3, <1>4, <2>3, <2>4 DEF TermTyped
  <1>7. e.view + e.cy < e.b.count
    BY <1>1, <1>2, <1>3
  <1>8. ~t.b.wrapped => \A z \in Screen : Content(e, z) = Content(t, z)
    <2> SUFFICES ASSUME ~t.b.wrapped, NEW z \in Screen PROVE Content(e, z) = Content(t, z)
      OBVIOUS
    <2>1. Content(t, z) = Cols(t.b, t.view + z) /\ t.view + z \in Nat
      BY ContentIn
    <2>2. Content(e, z) = Cols(b, t.view + z)
      BY <1>3, <1>6, ContentIn
    <2>3. Cols(b, t.view + z) = Cols(t.b, t.view + z)
      BY <1>1, <2>1 DEF Grown
    <2> QED BY <2>1, <2>2, <2>3
  <1>9. ASSUME NEW rows, RowsCurrent(t, rows) PROVE RowsCurrent(e, rows)
    BY <1>2, <1>3, <1>8, <1>9 DEF RowsCurrent
  <1>10. (Fresh(t) => Fresh(e)) /\ (Nearly(t) => Nearly(e))
    BY <1>3, <1>9 DEF Fresh, Nearly
  <1>11. ASSUME AtEnd(t) PROVE AtEnd(e)
    <2>1. n < RingLines => a + p = n - 1
      BY <1>4, <1>11 DEF AtEnd
    <2>2. c < RingLines => a + p = c - 1
      BY <1>4, <1>5, <2>1, RingSizes
    <2> QED BY <1>2, <1>3, <1>4, <2>2 DEF AtEnd
  <1> QED BY <1>3, <1>6, <1>7, <1>10, <1>11 DEF e, b

\* The character goes to the cursor's line, which is marked.
LEMMA StoredTerm ==
    ASSUME NEW e, TermTyped(e), e.view + e.cy < e.b.count, e.cx < Width
    PROVE  /\ Term(Stored(e)) /\ (Nearly(e) => Fresh(Stored(e))) /\ (AtEnd(e) => AtEnd(Stored(e)))
           /\ InColumn(Stored(e)) /\ Stored(e).spin = e.spin
  <1> DEFINE o == e.view + e.cy
             s == SlotOf(e.b, o)
             cols == e.b.slot[s].cols \cup {e.cx}
             b == ColsSet(e.b, s, cols)
             dirty == e.dirty \cup {e.cy}
             cx == e.cx + 1
             w == [e EXCEPT !.b = b, !.dirty = dirty, !.cx = cx]
  <1>1. Stored(e) = IF w.cx >= Width THEN NewLine(w) ELSE w
    BY DEF Stored, ColsSet
  <1>2. o \in Nat /\ o \in 0..RingLines - 1
    <2>1. PICK c \in Nat, v \in Nat, y \in Nat : c = e.b.count /\ c <= RingLines /\ v = e.view /\ y = e.cy
      BY TermFields
    <2> QED BY <2>1, RingSizes
  <1>3. s \in 0..RingLines - 1 /\ (~e.b.wrapped => s = o)
    <2>1. s \in 0..RingLines - 1
      BY <1>2, TermFields, RingSizes, SlotIs
    <2> QED BY <2>1 DEF SlotOf
  <1> HIDE DEF o
  <1>4. cols \in SUBSET Columns
    <2>1. e.cx \in Columns
      BY TermFields, ConConstants DEF Columns
    <2>2. e.b.slot \in [0..RingLines - 1 -> TextLine]
      BY TermFields DEF BufRec
    <2>3. e.b.slot[s] \in TextLine
      BY <1>3, <2>2
    <2>4. e.b.slot[s].cols \in SUBSET Columns
      BY <2>3 DEF TextLine
    <2> QED BY <2>1, <2>4
  <1> HIDE DEF cols, s
  <1>5. /\ Ring(RingLines, b) /\ b.count = e.b.count /\ b.wrapped = e.b.wrapped
        /\ ~e.b.wrapped => \A k \in Nat : k # s => Cols(b, k) = Cols(e.b, k)
    <2>1. Ring(RingLines, e.b)
      BY TermFields
    <2>2. Rewritten(RingLines, e.b, s, b)
      BY <1>3, <1>4, <2>1, RingSizes, ColsRing
    <2> HIDE DEF b
    <2> QED BY <2>2 DEF Rewritten
  <1> HIDE DEF b
  <1>6. dirty \in SUBSET Screen /\ cx \in Nat /\ b \in BufRec(RingLines)
    BY <1>5, TermFields DEF Ring
  <1>7. cx = e.cx + 1 /\ dirty = e.dirty \cup {e.cy}
    OBVIOUS
  <1> HIDE DEF dirty, cx
  <1>8. w \in TermRec /\ w.b = b /\ w.dirty = dirty /\ w.cx = cx /\ w.view = e.view /\ w.cy = e.cy
        /\ w.shown = e.shown /\ w.redraw = e.redraw /\ w.raced = e.raced /\ w.spin = e.spin
    <2>1. e \in TermRec
      BY TermFields
    <2> QED BY <1>6, <2>1 DEF TermRec
  <1> HIDE DEF w
  <1>9. TermTyped(w)
    BY <1>5, <1>8 DEF TermTyped
  <1>10. Placed(w)
    BY <1>5, <1>8 DEF Placed
  <1>11. AtEnd(e) => AtEnd(w)
    BY <1>5, <1>8 DEF AtEnd
  <1>12. ASSUME Nearly(e) PROVE Fresh(w)
    <2>1. CASE e.b.wrapped \/ e.redraw
      BY <1>5, <1>8, <2>1 DEF Fresh, RowsCurrent
    <2>2. CASE ~e.b.wrapped /\ ~e.redraw
      <3>1. ASSUME NEW z \in Screen \ dirty, z \notin e.raced PROVE w.shown[z] = Content(w, z)
        <4>1. e.shown[z] = Content(e, z)
          BY <1>7, <1>12, <2>2, <3>1 DEF Nearly, RowsCurrent
        <4>2. Content(e, z) = Cols(e.b, e.view + z) /\ e.view + z \in Nat
          BY ContentIn
        <4>3. Content(w, z) = Cols(b, e.view + z)
          BY <1>8, <1>9, ContentIn
        <4>4. e.view + z # s
          <5>1. z # e.cy /\ z \in Nat
            BY <1>7, ConConstants DEF Screen
          <5>2. s = e.view + e.cy
            BY <1>3, <2>2 DEF o
          <5>3. e.view \in Nat /\ e.cy \in Nat
            BY TermFields
          <5> QED BY <5>1, <5>2, <5>3
        <4>5. Cols(b, e.view + z) = Cols(e.b, e.view + z)
          BY <1>5, <2>2, <4>2, <4>4
        <4> QED BY <1>8, <4>1, <4>2, <4>3, <4>5
      <3> QED BY <1>8, <3>1 DEF Fresh, RowsCurrent
    <2> QED BY <2>1, <2>2
  <1>13. Term(w)
    BY <1>9, <1>10 DEF Term
  <1>14. CASE w.cx >= Width
    <2>1. Continues(w, NewLine(w)) /\ NewLine(w).spin = w.spin /\ NewLine(w).cx = 0
      BY <1>13, NewLineTerm
    <2>2. InColumn(NewLine(w))
      BY <2>1, ConConstants DEF InColumn
    <2> QED BY <1>1, <1>8, <1>11, <1>12, <1>14, <2>1, <2>2 DEF Continues
  <1>15. CASE ~(w.cx >= Width)
    <2>1. w.cx \in Nat
      BY <1>9, TermFields
    <2>2. InColumn(w)
      BY <1>15, <2>1, ConConstants DEF InColumn
    <2> QED BY <1>1, <1>8, <1>11, <1>12, <1>13, <1>15, <2>2
  <1> QED BY <1>14, <1>15

\* The cursor's row was blanked, and the next character marks it.
Blank(t) == Nearly(t) /\ t.cx < Width /\ ~t.spin /\ t.shown[t.cy] = {}

\* terminal_putchar of a printable character, wherever the cursor is.
LEMMA PutCharTerm ==
    ASSUME NEW t, TermTyped(t)
    PROVE  Continues(t, PutChar(t)) /\ (Blank(t) => Fresh(PutChar(t)))
  <1>1. CASE t.spin \/ Endless(t)
    <2> DEFINE r == [t EXCEPT !.spin = TRUE]
    <2>1. PutChar(t) = r
      BY <1>1 DEF PutChar
    <2>2. t.b.count = RingLines
      <3>1. PICK c \in Nat, v \in Nat, y \in Nat : c = t.b.count /\ c <= RingLines /\ v = t.view /\ y = t.cy
        BY TermFields
      <3>2. CASE t.spin
        BY <3>2 DEF TermTyped
      <3>3. CASE Endless(t)
        <4>1. t.b.lines = RingLines /\ (t.b.count < RingLines => t.view + t.cy < RingLines)
          BY TermFields
        <4>2. v + y >= RingLines /\ (c < RingLines => v + y < RingLines)
          BY <3>1, <3>3, <4>1 DEF Endless
        <4> QED BY <3>1, <4>2, RingSizes
      <3> QED BY <1>1, <3>2, <3>3
    <2>3. r \in TermRec /\ r.b = t.b /\ r.view = t.view /\ r.cx = t.cx /\ r.cy = t.cy /\ r.dirty = t.dirty
          /\ r.shown = t.shown /\ r.redraw = t.redraw /\ r.raced = t.raced
      <3>1. t \in TermRec
        BY TermFields
      <3> QED BY <3>1 DEF TermRec
    <2> HIDE DEF r
    <2>a. ~(t.b.count < RingLines)
      BY <2>2, RingSizes
    <2>4. Term(r) /\ AtEnd(r)
      BY <2>2, <2>3, <2>a DEF Term, TermTyped, Placed, AtEnd
    <2>5. \A z : Content(r, z) = Content(t, z)
      BY <2>3 DEF Content
    <2>6. Fresh(t) => Fresh(r)
      BY <2>3, <2>5 DEF Fresh, RowsCurrent
    <2>7. InColumn(t) => InColumn(r)
      BY <2>3 DEF InColumn
    <2>8. ASSUME Blank(t) PROVE Fresh(r)
      <3>1. Endless(t) /\ t.shown[t.cy] = {} /\ Nearly(t)
        BY <1>1, <2>8 DEF Blank
      <3>2. Content(t, t.cy) = {}
        <4>1. PICK c \in Nat, o \in Nat : c = t.b.count /\ o = t.view + t.cy
          BY TermFields
        <4>2. ~(o < c)
          BY <3>1, <4>1 DEF Endless
        <4> QED BY <4>1, <4>2 DEF Content
      <3>3. Fresh(t)
        BY <3>1, <3>2 DEF Fresh, Nearly, RowsCurrent
      <3> QED BY <2>6, <3>3
    <2> QED BY <2>1, <2>4, <2>6, <2>7, <2>8 DEF Continues
  <1>2. CASE ~(t.spin \/ Endless(t))
    <2> DEFINE e == [t EXCEPT !.b = Extended(t)]
    <2>1. PutChar(t) = IF t.cx < Width THEN Stored(e) ELSE e
      BY <1>2 DEF PutChar
    <2>2. /\ TermTyped(e) /\ e.view + e.cy < e.b.count
          /\ (Fresh(t) => Fresh(e)) /\ (Nearly(t) => Nearly(e)) /\ (AtEnd(t) => AtEnd(e))
          /\ e.cx = t.cx /\ e.spin = t.spin
      BY <1>2, ExtendedTerm
    <2> HIDE DEF e
    <2>3. Fresh(e) => Nearly(e)
      BY DEF Fresh, Nearly, RowsCurrent
    <2>4. CASE t.cx < Width
      <3>1. /\ Term(Stored(e)) /\ (Nearly(e) => Fresh(Stored(e))) /\ (AtEnd(e) => AtEnd(Stored(e)))
            /\ InColumn(Stored(e))
        BY <2>2, <2>4, StoredTerm
      <3> QED BY <2>1, <2>2, <2>3, <2>4, <3>1 DEF Continues, Blank
    <2>5. CASE ~(t.cx < Width)
      <3>1. Term(e) /\ (InColumn(t) => InColumn(e))
        BY <2>2 DEF Term, Placed, InColumn
      <3> QED BY <2>1, <2>2, <2>5, <3>1 DEF Continues, Blank
    <2> QED BY <2>4, <2>5
  <1> QED BY <1>1, <1>2

IsPut(t, m, g) == g = [k \in 0..m |-> IF k = 0 THEN t ELSE PutChar(g[k - 1])]

\* Each character is put after the one before.
LEMMA PutExists ==
    ASSUME NEW t, NEW n \in Nat
    PROVE  \E g : IsPut(t, n, g)
  <1> DEFINE Step(x) == PutChar(x)
             Bad == {m \in Nat : ~\E g : IsPut(t, m, g)}
  <1>1. Bad = {}
    <2> SUFFICES ASSUME Bad # {} PROVE FALSE
      OBVIOUS
    <2>1. PICK m \in Bad : \A k \in Bad : m <= k
      BY LeastNat
    <2>2. IsPut(t, 0, [k \in 0..0 |-> t])
      BY DEF IsPut
    <2>3. m # 0
      BY <2>1, <2>2
    <2>4. m - 1 \in Nat /\ m - 1 \notin Bad /\ m \in Nat
      <3>1. m \in Nat
        OBVIOUS
      <3> HIDE DEF Bad
      <3> QED BY <3>1, <2>1, <2>3
    <2>5. PICK g : IsPut(t, m - 1, g)
      BY <2>4
    <2> HIDE DEF Step
    <2> DEFINE h == [k \in 0..m |-> IF k = m THEN Step(g[m - 1]) ELSE g[k]]
    <2>6. \A k \in 0..m - 1 : g[k] = IF k = 0 THEN t ELSE Step(g[k - 1])
      BY <2>5, Zenon DEF IsPut, Step
    <2>7. ASSUME NEW k \in 0..m PROVE h[k] = IF k = 0 THEN t ELSE Step(h[k - 1])
      <3>1. CASE k = m
        <4>1. h[k] = Step(g[m - 1])
          BY <3>1, <2>4
        <4>2. h[k - 1] = g[m - 1]
          BY <3>1, <2>4, <2>3
        <4> QED BY <4>1, <4>2, <3>1, <2>3
      <3>2. CASE k # m
        <4>1. k \in 0..m - 1 /\ h[k] = g[k]
          BY <3>2, <2>4
        <4>2. k # 0 => h[k - 1] = g[k - 1]
          BY <4>1, <2>4
        <4> QED BY <4>1, <4>2, <2>6
      <3> QED BY <3>1, <3>2
    <2>8. h = [k \in 0..m |-> h[k]]
      OBVIOUS
    <2>9. IsPut(t, m, h)
      <3> HIDE DEF h
      <3> QED BY <2>7, <2>8, Zenon DEF IsPut, Step
    <2> QED BY <2>1, <2>9
  <1> QED BY <1>1


\* A loop of terminal_putchar.
LEMMA PutCharsTerm ==
    ASSUME NEW t, Term(t), NEW n \in Nat
    PROVE  Continues(t, PutChars(t, n)) /\ (n > 0 /\ Blank(t) => Fresh(PutChars(t, n)))
  <1> DEFINE g == CHOOSE f : IsPut(t, n, f)
             P(k) == Continues(t, g[k]) /\ (k > 0 /\ Blank(t) => Fresh(g[k]))
  <1>1. IsPut(t, n, g)
    BY PutExists
  <1>2. PutChars(t, n) = g[n]
    BY DEF PutChars, IsPut
  <1> HIDE DEF g
  <1>3. \A k \in 0..n : g[k] = IF k = 0 THEN t ELSE PutChar(g[k - 1])
    BY <1>1, Zenon DEF IsPut
  <1> DEFINE Bad == {k \in 0..n : ~P(k)}
  <1>4. Bad = {}
    <2> SUFFICES ASSUME Bad # {} PROVE FALSE
      OBVIOUS
    <2> HIDE DEF P
    <2>1. Bad \in SUBSET Nat
      OBVIOUS
    <2>2. PICK m \in Bad : \A k \in Bad : m <= k
      BY <2>1, LeastNat
    <2>3. m \in 0..n /\ ~P(m)
      BY <2>2
    <2>4. m # 0
      <3>1. g[0] = t
        BY <1>3
      <3>2. P(0)
        BY <3>1 DEF P, Continues
      <3> QED BY <2>3, <3>2
    <2>5. m - 1 \in 0..n /\ m - 1 \notin Bad /\ m \in 1..n
      <3> HIDE DEF Bad
      <3> QED BY <2>2, <2>3, <2>4
    <2>6. P(m - 1)
      BY <2>5
    <2>7. g[m] = PutChar(g[m - 1])
      BY <1>3, <2>3, <2>4
    <2>8. PICK x : x = g[m - 1]
      OBVIOUS
    <2>9. Continues(x, PutChar(x)) /\ (Blank(x) => Fresh(PutChar(x)))
      BY <2>6, <2>8, PutCharTerm DEF P, Continues, Term
    <2>10. Continues(t, PutChar(x))
      BY <2>6, <2>8, <2>9 DEF P, Continues
    <2>11. ASSUME Blank(t) PROVE Fresh(PutChar(x))
      <3>1. CASE m = 1
        <4>1. x = t
          BY <1>3, <2>8, <3>1
        <4> QED BY <2>9, <2>11, <4>1
      <3>2. CASE m # 1
        <4>1. m - 1 > 0
          BY <2>5, <3>2
        <4>2. Fresh(x)
          BY <2>6, <2>8, <2>11, <4>1 DEF P
        <4> QED BY <2>9, <4>2 DEF Continues
      <3> QED BY <3>1, <3>2
    <2>12. P(m)
      BY <2>7, <2>8, <2>10, <2>11 DEF P
    <2> QED BY <2>3, <2>12
  <1>5. P(n)
    <2> HIDE DEF P
    <2> QED BY <1>4
  <1> QED BY <1>2, <1>5

\* terminal_draw after it.
LEMMA DrawContinues ==
    ASSUME NEW t, Term(t)
    PROVE  Continues(t, Draw(t))
  <1>1. TermTyped(t) /\ Placed(t)
    BY DEF Term
  <1>2. TermTyped(Draw(t)) /\ Placed(Draw(t)) /\ (Fresh(t) => Fresh(Draw(t))) /\ (AtEnd(t) => AtEnd(Draw(t)))
        /\ Draw(t).cx = t.cx
    BY <1>1, DrawTerm
  <1> QED BY <1>2 DEF Continues, Term, InColumn

\* Nothing is done; and one thing after another.
LEMMA SelfContinues == ASSUME NEW t, Term(t) PROVE Continues(t, t)
  BY DEF Continues

\* What holds through each of two operations holds through both.
LEMMA ContinuesTransitive ==
    ASSUME NEW t, NEW x, NEW r, Continues(t, x), Continues(x, r)
    PROVE  Continues(t, r)
  BY DEF Continues

\* terminal_puts.
LEMMA PutsTerm ==
    ASSUME NEW t, Term(t), NEW n \in Nat
    PROVE  Continues(t, Puts(t, n)) /\ (n > 0 /\ Blank(t) => Fresh(Puts(t, n)))
  <1> DEFINE p == PutChars(t, n)
  <1>1. Continues(t, p) /\ (n > 0 /\ Blank(t) => Fresh(p))
    BY PutCharsTerm
  <1>2. Puts(t, n) = IF p.spin THEN p ELSE Draw(p)
    BY DEF Puts
  <1> HIDE DEF p
  <1>3. Continues(p, Draw(p))
    BY <1>1, DrawContinues DEF Continues
  <1>4. CASE p.spin
    BY <1>1, <1>2, <1>4
  <1>5. CASE ~p.spin
    BY <1>1, <1>2, <1>3, <1>5 DEF Continues
  <1> QED BY <1>4, <1>5

\* terminal_puts of a line.
LEMMA PutsLineTerm ==
    ASSUME NEW t, Term(t)
    PROVE  Continues(t, PutsLine(t))
  <1> DEFINE p == PutChar(t)
  <1>1. Continues(t, p)
    BY PutCharTerm DEF Term
  <1>2. PutsLine(t) = IF p.spin THEN p ELSE Draw(NewLine(p))
    BY DEF PutsLine
  <1> HIDE DEF p
  <1>3. Continues(p, NewLine(p))
    BY <1>1, NewLineTerm DEF Continues
  <1>4. Continues(NewLine(p), Draw(NewLine(p)))
    BY <1>3, DrawContinues DEF Continues
  <1>5. Continues(t, Draw(NewLine(p)))
    BY <1>1, <1>3, <1>4, ContinuesTransitive
  <1> QED BY <1>1, <1>2, <1>5

\* terminal_update_prompt.
LEMMA UpdatePromptTerm == ASSUME NEW t, Term(t) PROVE Continues(t, UpdatePrompt(t))
  BY PutsTerm, ConConstants DEF UpdatePrompt

\* A carriage return.
LEMMA CarriageTerm == ASSUME NEW t, Term(t) PROVE Continues(t, CarriageReturn(t))
  <1>1. TermTyped(t) /\ Placed(t) /\ 0 \in Nat
    BY DEF Term
  <1> DEFINE r == [t EXCEPT !.cx = 0]
  <1>2. /\ TermTyped(r) /\ Placed(r) /\ (Fresh(t) => Fresh(r)) /\ (AtEnd(t) => AtEnd(r)) /\ r.cx = 0
    BY <1>1, ColumnTerm
  <1> HIDE DEF r
  <1>3. InColumn(r)
    BY <1>2, ConConstants DEF InColumn
  <1>4. Continues(t, r)
    BY <1>2, <1>3 DEF Continues, Term
  <1> QED BY <1>4 DEF r, CarriageReturn

\* terminal_clear: the ring begins again, whatever it held.
LEMMA ClearTerm ==
    ASSUME NEW t, Term(t), ~t.spin
    PROVE  Term(Clear(t)) /\ Fresh(Clear(t)) /\ AtEnd(Clear(t)) /\ InColumn(Clear(t))
  <1> DEFINE b == AddLine(Cleared(t.b))
             blank == [y \in Screen |-> {}]
             y == [t EXCEPT !.b = b, !.cx = 0, !.cy = 0]
             z == [y EXCEPT !.view = 0, !.redraw = TRUE]
             x == [z EXCEPT !.shown = blank, !.dirty = Screen]
  <1>0. TermTyped(t) /\ t \in TermRec /\ t.b.lines = RingLines
    BY TermFields DEF Term
  <1>1. Ring(RingLines, b) /\ b.count = 1
    <2> DEFINE n == NewBuffer(RingLines)
    <2>1. Ring(RingLines, n) /\ n.count = 0
      BY RingSizes, NewRing
    <2>2. b = AddLine(n)
      BY <1>0 DEF Cleared
    <2> HIDE DEF n
    <2>3. Added(RingLines, n, AddLine(n))
      BY <2>1, RingSizes, AddRing
    <2>4. 0 < RingLines /\ 0 + 1 = 1
      BY RingSizes
    <2>5. AddLine(n).count = 1 /\ Ring(RingLines, AddLine(n))
      BY <2>1, <2>3, <2>4 DEF Added
    <2> QED BY <2>2, <2>5
  <1>2. Clear(t) = UpdatePrompt(Draw(x))
    BY DEF Clear
  <1>3. blank \in [Screen -> SUBSET Columns] /\ b \in BufRec(RingLines) /\ 0 \in Screen /\ Screen \in SUBSET Screen
    BY <1>1, ConConstants DEF Ring, Screen
  <1> HIDE DEF b, blank
  <1>4. y \in TermRec /\ y.b = b /\ y.cx = 0 /\ y.cy = 0 /\ y.spin = t.spin
    BY <1>0, <1>3 DEF TermRec
  <1> HIDE DEF y
  <1>5. z \in TermRec /\ z.b = b /\ z.cx = 0 /\ z.cy = 0 /\ z.spin = t.spin /\ z.view = 0 /\ z.redraw = TRUE
    BY <1>4 DEF TermRec
  <1> HIDE DEF z
  <1>6. x \in TermRec /\ x.b = b /\ x.cx = 0 /\ x.cy = 0 /\ x.spin = t.spin /\ x.view = 0 /\ x.redraw = TRUE
        /\ x.dirty = Screen
    BY <1>3, <1>5 DEF TermRec
  <1> HIDE DEF x
  <1>7. Term(x) /\ AtEnd(x)
    BY <1>1, <1>6 DEF Term, TermTyped, Placed, AtEnd
  <1>8. Fresh(x) /\ InColumn(x)
    BY <1>6, ConConstants DEF Fresh, RowsCurrent, InColumn
  <1>9. Continues(x, Draw(x))
    BY <1>7, DrawContinues
  <1>10. Continues(Draw(x), UpdatePrompt(Draw(x)))
    BY <1>9, UpdatePromptTerm DEF Continues
  <1> QED BY <1>2, <1>7, <1>8, <1>9, <1>10 DEF Continues

\* A step that rewrites at most one row, which it marks.
RowStep(t, r, y) ==
    /\ r \in TermRec /\ r.view = t.view /\ r.redraw = t.redraw /\ r.raced = t.raced /\ r.spin = t.spin
    /\ r.dirty = t.dirty \cup {y}
    /\ \A z \in Screen : z # y => r.shown[z] = t.shown[z]
    /\ r.b = t.b \/ Rewritten(RingLines, t.b, SlotOf(t.b, t.view + y), r.b)
    /\ r.cy <= t.cy

\* It leaves the window where it was and the other rows as they were.
LEMMA RowTerm ==
    ASSUME NEW t, Term(t), NEW r, NEW y \in Screen, RowStep(t, r, y)
    PROVE  Term(r) /\ (Fresh(t) => Fresh(r)) /\ (AtEnd(t) /\ r.cy = t.cy => AtEnd(r))
  <1>0. TermTyped(t) /\ Placed(t)
    BY DEF Term
  <1>1. r \in TermRec /\ r.view = t.view /\ r.redraw = t.redraw /\ r.raced = t.raced /\ r.spin = t.spin /\ r.dirty = t.dirty \cup {y}
        /\ r.cy <= t.cy
    BY DEF RowStep
  <1>2. Ring(RingLines, r.b) /\ r.b.count = t.b.count /\ r.b.wrapped = t.b.wrapped
    BY <1>0, TermFields DEF RowStep, Rewritten
  <1>3. TermTyped(r)
    BY <1>0, <1>1, <1>2 DEF TermTyped
  <1>4. Placed(r)
    <2>1. PICK v \in Nat, p \in Nat, q \in Nat : v = t.view /\ p = t.cy /\ q = r.cy
      BY <1>0, <1>3, TermFields
    <2>2. PICK c \in Nat : c = t.b.count
      BY <1>0, TermFields
    <2>3. c < RingLines => v + p < c
      BY <1>0, <2>1, <2>2 DEF Placed
    <2>4. q <= p
      BY <1>1, <2>1
    <2>5. c < RingLines => v + q < c
      BY <2>1, <2>2, <2>3, <2>4
    <2> QED BY <1>1, <1>2, <2>1, <2>2, <2>5 DEF Placed
  <1>5. AtEnd(t) /\ r.cy = t.cy => AtEnd(r)
    BY <1>1, <1>2 DEF AtEnd
  <1>6. ASSUME Fresh(t) PROVE Fresh(r)
    <2>1. CASE t.b.wrapped \/ t.redraw
      BY <1>1, <1>2, <2>1 DEF Fresh, RowsCurrent
    <2>2. CASE ~t.b.wrapped /\ ~t.redraw
      <3>1. ASSUME NEW z \in Screen \ r.dirty, z \notin t.raced PROVE r.shown[z] = Content(r, z)
        <4>0. z # y /\ z \notin t.dirty /\ z \in Screen
          BY <1>1
        <4>1. t.shown[z] = Content(t, z) /\ r.shown[z] = t.shown[z]
          BY <1>6, <2>2, <3>1, <4>0 DEF Fresh, RowsCurrent, RowStep
        <4>2. Content(t, z) = Cols(t.b, t.view + z) /\ t.view + z \in Nat
          BY <1>0, <4>0, ContentIn
        <4>3. Content(r, z) = Cols(r.b, t.view + z)
          BY <1>1, <1>3, <4>0, ContentIn
        <4>4. t.view + z # SlotOf(t.b, t.view + y)
          <5>1. t.view \in Nat /\ y \in Nat /\ z \in Nat
            BY <1>0, <4>0, TermFields, ConConstants DEF Screen
          <5>2. SlotOf(t.b, t.view + y) = t.view + y
            BY <2>2 DEF SlotOf
          <5> QED BY <4>0, <5>1, <5>2
        <4>5. Cols(r.b, t.view + z) = Cols(t.b, t.view + z)
          BY <2>2, <4>2, <4>4 DEF RowStep, Rewritten
        <4> QED BY <4>1, <4>2, <4>3, <4>5
      <3> QED BY <1>1, <3>1 DEF Fresh, RowsCurrent
    <2> QED BY <2>1, <2>2
  <1> QED BY <1>3, <1>4, <1>5, <1>6 DEF Term

\* Other columns on the line of row y, if the row has one.
RowCols(t, y, c) ==
    IF t.view + y < t.b.count THEN ColsSet(t.b, SlotOf(t.b, t.view + y), c) ELSE t.b

\* They are the only change to the ring.
LEMMA RowColsRing ==
    ASSUME NEW t, TermTyped(t), NEW y \in Screen, NEW c \in SUBSET Columns
    PROVE  /\ RowCols(t, y, c) = t.b \/ Rewritten(RingLines, t.b, SlotOf(t.b, t.view + y), RowCols(t, y, c))
           /\ RowCols(t, y, c) \in BufRec(RingLines)
  <1>0. Ring(RingLines, t.b) /\ t.b \in BufRec(RingLines)
    BY TermFields
  <1>1. CASE t.view + y < t.b.count
    <2> DEFINE s == SlotOf(t.b, t.view + y)
    <2>1. PICK o \in Nat, n \in Nat : o = t.view + y /\ n = t.b.count /\ n <= RingLines
      BY TermFields, ConConstants DEF Screen
    <2>2. o \in 0..RingLines - 1
      BY <1>1, <2>1, RingSizes
    <2>3. s \in 0..RingLines - 1
      BY <1>0, <2>1, <2>2, RingSizes, SlotIs
    <2> HIDE DEF s
    <2>4. Rewritten(RingLines, t.b, s, ColsSet(t.b, s, c))
      BY <1>0, <2>3, RingSizes, ColsRing
    <2>5. ColsSet(t.b, s, c) \in BufRec(RingLines)
      BY <2>4 DEF Rewritten, Ring
    <2> QED BY <1>1, <2>4, <2>5 DEF RowCols, s
  <1>2. CASE ~(t.view + y < t.b.count)
    BY <1>0, <1>2 DEF RowCols
  <1> QED BY <1>1, <1>2

\* terminal_clear_current_line.
LEMMA ClearLineTerm == ASSUME NEW t, Term(t) PROVE Continues(t, ClearCurrentLine(t))
  <1> DEFINE b == RowCols(t, t.cy, {})
             shown == [t.shown EXCEPT ![t.cy] = {}]
             dirty == t.dirty \cup {t.cy}
             x == [t EXCEPT !.b = b, !.cx = 0]
             r == [x EXCEPT !.shown = shown, !.dirty = dirty]
  <1>0. TermTyped(t)
    BY DEF Term
  <1>1. t \in TermRec /\ t.cy \in Screen /\ t.cy \in Nat /\ {} \in SUBSET Columns
    BY <1>0, TermFields
  <1>2. ClearCurrentLine(t) = r
    BY DEF ClearCurrentLine, RowCols, ColsSet
  <1>3. (b = t.b \/ Rewritten(RingLines, t.b, SlotOf(t.b, t.view + t.cy), b)) /\ b \in BufRec(RingLines)
    BY <1>0, <1>1, RowColsRing
  <1>4. shown \in [Screen -> SUBSET Columns] /\ dirty \in SUBSET Screen
        /\ \A z \in Screen : z # t.cy => shown[z] = t.shown[z]
    BY <1>0, <1>1, TermFields
  <1>5. dirty = t.dirty \cup {t.cy}
    OBVIOUS
  <1> HIDE DEF b, shown, dirty
  <1>6. x \in TermRec /\ x.b = b /\ x.cx = 0 /\ x.cy = t.cy /\ x.view = t.view /\ x.redraw = t.redraw /\ x.raced = t.raced /\ x.spin = t.spin
    BY <1>1, <1>3 DEF TermRec
  <1> HIDE DEF x
  <1>7. r \in TermRec /\ r.b = b /\ r.cx = 0 /\ r.cy = t.cy /\ r.view = t.view /\ r.redraw = t.redraw /\ r.raced = t.raced /\ r.spin = t.spin
        /\ r.shown = shown /\ r.dirty = dirty
    BY <1>4, <1>6 DEF TermRec
  <1> HIDE DEF r
  <1>8. RowStep(t, r, t.cy)
    BY <1>1, <1>3, <1>4, <1>5, <1>7 DEF RowStep
  <1>9. Term(r) /\ (Fresh(t) => Fresh(r)) /\ (AtEnd(t) => AtEnd(r))
    BY <1>1, <1>7, <1>8, RowTerm
  <1>10. InColumn(r)
    BY <1>7, ConConstants DEF InColumn
  <1> QED BY <1>2, <1>9, <1>10 DEF Continues

\* Backspace: the cursor steps back over the character it erases.
LEMMA BackTerm ==
    ASSUME NEW t, Term(t)
    PROVE  /\ Term(Back(t)) /\ (Fresh(t) => Fresh(Back(t))) /\ (InColumn(t) => InColumn(Back(t)))
           /\ t.cx > 0 => /\ Back(t).cx = t.cx - 1 /\ Back(t).cy = t.cy
                          /\ AtEnd(t) => AtEnd(Back(t))
  <1> DEFINE cx == IF t.cx > 0 THEN t.cx - 1 ELSE IF t.cy > 0 THEN Width - 1 ELSE t.cx
             cy == IF t.cx = 0 /\ t.cy > 0 THEN t.cy - 1 ELSE t.cy
             cols == t.b.slot[SlotOf(t.b, t.view + cy)].cols \ {cx}
             b == RowCols(t, cy, cols)
             shown == [t.shown EXCEPT ![cy] = t.shown[cy] \ {cx}]
             dirty == t.dirty \cup {cy}
             x == [t EXCEPT !.cx = cx, !.cy = cy]
             z == [x EXCEPT !.dirty = dirty, !.shown = shown]
             r == [z EXCEPT !.b = b]
  <1>0. TermTyped(t)
    BY DEF Term
  <1>1. t \in TermRec /\ t.cy \in Nat /\ t.cy < Height /\ t.cx \in Nat
    BY <1>0, TermFields
  <1>2. Back(t) = r
    BY DEF Back, RowCols, ColsSet
  <1>3. cx \in Nat /\ cy \in Screen /\ cy <= t.cy /\ (InColumn(t) => cx < Width \/ cx <= CwdPrompt + InputMax)
        /\ (t.cx > 0 => cx = t.cx - 1 /\ cy = t.cy)
    BY <1>1, ConConstants DEF Screen, InColumn
  <1> HIDE DEF cx, cy
  <1>4. (b = t.b \/ Rewritten(RingLines, t.b, SlotOf(t.b, t.view + cy), b)) /\ b \in BufRec(RingLines)
    <2>1. CASE t.view + cy < t.b.count
      <3>1. Content(t, cy) = t.b.slot[SlotOf(t.b, t.view + cy)].cols
        BY <2>1 DEF Content
      <3>2. Content(t, cy) \in SUBSET Columns
        BY <1>0, <1>3, ContentIn
      <3>3. cols \in SUBSET Columns
        BY <3>1, <3>2
      <3> HIDE DEF cols
      <3> QED BY <1>0, <1>3, <3>3, RowColsRing
    <2>2. CASE ~(t.view + cy < t.b.count)
      <3>1. t.b \in BufRec(RingLines)
        BY <1>0, TermFields
      <3> QED BY <2>2, <3>1 DEF RowCols
    <2> QED BY <2>1, <2>2
  <1>5. shown \in [Screen -> SUBSET Columns] /\ dirty \in SUBSET Screen
        /\ \A k \in Screen : k # cy => shown[k] = t.shown[k]
    <2>1. t.shown \in [Screen -> SUBSET Columns] /\ t.dirty \in SUBSET Screen
      BY <1>0, TermFields
    <2>2. t.shown[cy] \ {cx} \in SUBSET Columns
      BY <1>3, <2>1
    <2> QED BY <1>3, <2>1, <2>2
  <1>6. dirty = t.dirty \cup {cy}
    OBVIOUS
  <1> HIDE DEF b, shown, dirty
  <1>7. x \in TermRec /\ x.cx = cx /\ x.cy = cy /\ x.view = t.view /\ x.redraw = t.redraw /\ x.raced = t.raced /\ x.spin = t.spin
    BY <1>1, <1>3 DEF TermRec
  <1> HIDE DEF x
  <1>8. z \in TermRec /\ z.cx = cx /\ z.cy = cy /\ z.view = t.view /\ z.redraw = t.redraw /\ z.raced = t.raced /\ z.spin = t.spin
        /\ z.dirty = dirty /\ z.shown = shown
    BY <1>5, <1>7 DEF TermRec
  <1> HIDE DEF z
  <1>9. r \in TermRec /\ r.b = b /\ r.cx = cx /\ r.cy = cy /\ r.view = t.view /\ r.redraw = t.redraw /\ r.raced = t.raced /\ r.spin = t.spin
        /\ r.shown = shown /\ r.dirty = dirty
    BY <1>4, <1>8 DEF TermRec
  <1> HIDE DEF r
  <1>10. RowStep(t, r, cy)
    BY <1>3, <1>4, <1>5, <1>6, <1>9 DEF RowStep
  <1>11. Term(r) /\ (Fresh(t) => Fresh(r)) /\ (AtEnd(t) /\ r.cy = t.cy => AtEnd(r))
    BY <1>3, <1>10, RowTerm
  <1>12. InColumn(t) => InColumn(r)
    BY <1>3, <1>9 DEF InColumn
  <1> QED BY <1>2, <1>3, <1>9, <1>11, <1>12

\* terminal_set_cursor, to a place on the screen or below it.
LEMMA SetCursorTerm ==
    ASSUME NEW t, TermTyped(t), NEW x \in Columns, NEW y \in 0..Height
    PROVE  LET r == SetCursor(t, x, y)
           IN  TermTyped(r) /\ (Fresh(t) => Fresh(r)) /\ InColumn(r)
  <1> DEFINE cy == IF y >= Height THEN Height - 1 ELSE y
             dirty == t.dirty \cup {cy}
             r == [t EXCEPT !.cx = x, !.cy = cy, !.dirty = dirty]
  <1>0. x \in Nat /\ x < Width /\ ~(x >= Width) /\ cy \in Screen
    BY ConConstants DEF Columns, Screen
  <1>1. SetCursor(t, x, y) = r
    BY <1>0 DEF SetCursor
  <1>2. t \in TermRec /\ dirty \in SUBSET Screen
    BY <1>0, TermFields
  <1>3. t.dirty \subseteq dirty
    OBVIOUS
  <1> HIDE DEF cy, dirty
  <1>4. r \in TermRec /\ r.cx = x /\ r.cy = cy /\ r.dirty = dirty /\ r.b = t.b /\ r.view = t.view
        /\ r.shown = t.shown /\ r.redraw = t.redraw /\ r.raced = t.raced /\ r.spin = t.spin
    BY <1>0, <1>2 DEF TermRec
  <1> HIDE DEF r
  <1>5. TermTyped(r)
    BY <1>4 DEF TermTyped
  <1>6. \A k : Content(r, k) = Content(t, k)
    BY <1>4 DEF Content
  <1>7. Fresh(t) => Fresh(r)
    BY <1>3, <1>4, <1>6 DEF Fresh, RowsCurrent
  <1>8. InColumn(r)
    BY <1>0, <1>4 DEF InColumn
  <1> QED BY <1>1, <1>5, <1>7, <1>8

\* PgUp and PgDn: every row is marked.
LEMMA ScrollTerm ==
    ASSUME NEW t, Term(t), Fresh(t), NEW r, r = ScrollUp(t) \/ r = ScrollDown(t)
    PROVE  Term(r) /\ Fresh(r) /\ r.cx = t.cx
  <1>0. TermTyped(t) /\ Placed(t)
    BY DEF Term
  <1>1. PICK v \in Nat, p \in Nat, c \in Nat :
           v = t.view /\ p = t.cy /\ c = t.b.count /\ c <= RingLines /\ p < Height
    BY <1>0, TermFields
  <1>2. c < RingLines => v + p < c /\ (v = 0 \/ v + Height <= c)
    BY <1>0, <1>1 DEF Placed, TermTyped
  <1>3. CASE r = t
    BY <1>3
  <1>4. CASE r # t
    <2>1. PICK w \in Nat : /\ r = [t EXCEPT !.view = w, !.dirty = Screen]
                           /\ c < RingLines => w + p < c /\ (w = 0 \/ w + Height <= c)
      <3>1. CASE v > 0 /\ r = ScrollUp(t)
        <4>1. r = [t EXCEPT !.view = v - 1, !.dirty = Screen]
          BY <1>1, <3>1 DEF ScrollUp
        <4>2. v - 1 \in Nat /\ (c < RingLines => v - 1 + p < c /\ (v - 1 = 0 \/ v - 1 + Height <= c))
          BY <1>1, <1>2, <3>1, ConConstants
        <4> QED BY <4>1, <4>2
      <3>2. CASE v + Height < c /\ r = ScrollDown(t)
        <4>1. r = [t EXCEPT !.view = v + 1, !.dirty = Screen]
          BY <1>1, <3>2 DEF ScrollDown
        <4>2. v + 1 \in Nat /\ (c < RingLines => v + 1 + p < c /\ (v + 1 = 0 \/ v + 1 + Height <= c))
          BY <1>1, <1>2, <3>2, ConConstants
        <4> QED BY <4>1, <4>2
      <3> QED BY <1>1, <1>4, <3>1, <3>2 DEF ScrollUp, ScrollDown
    <2>2. t \in TermRec /\ Screen \in SUBSET Screen
      BY <1>0, TermFields
    <2>3. r \in TermRec /\ r.view = w /\ r.dirty = Screen /\ r.b = t.b /\ r.cx = t.cx /\ r.cy = t.cy /\ r.spin = t.spin
      BY <2>1, <2>2 DEF TermRec
    <2>4. TermTyped(r)
      BY <1>0, <1>1, <2>1, <2>3 DEF TermTyped
    <2>5. Placed(r)
      BY <1>1, <2>1, <2>3 DEF Placed
    <2>6. Fresh(r)
      BY <2>3 DEF Fresh, RowsCurrent
    <2> QED BY <2>3, <2>4, <2>5, <2>6 DEF Term
  <1> QED BY <1>3, <1>4

IsBack(t, m, g) == g = [k \in 0..m |-> IF k = 0 THEN t ELSE Back(g[k - 1])]

\* Each character is erased after the one before.
LEMMA BackExists ==
    ASSUME NEW t, NEW n \in Nat
    PROVE  \E g : IsBack(t, n, g)
  <1> DEFINE Step(x) == Back(x)
             Bad == {m \in Nat : ~\E g : IsBack(t, m, g)}
  <1>1. Bad = {}
    <2> SUFFICES ASSUME Bad # {} PROVE FALSE
      OBVIOUS
    <2>1. PICK m \in Bad : \A k \in Bad : m <= k
      BY LeastNat
    <2>2. IsBack(t, 0, [k \in 0..0 |-> t])
      BY DEF IsBack
    <2>3. m # 0
      BY <2>1, <2>2
    <2>4. m - 1 \in Nat /\ m - 1 \notin Bad /\ m \in Nat
      <3>1. m \in Nat
        OBVIOUS
      <3> HIDE DEF Bad
      <3> QED BY <3>1, <2>1, <2>3
    <2>5. PICK g : IsBack(t, m - 1, g)
      BY <2>4
    <2> HIDE DEF Step
    <2> DEFINE h == [k \in 0..m |-> IF k = m THEN Step(g[m - 1]) ELSE g[k]]
    <2>6. \A k \in 0..m - 1 : g[k] = IF k = 0 THEN t ELSE Step(g[k - 1])
      BY <2>5, Zenon DEF IsBack, Step
    <2>7. ASSUME NEW k \in 0..m PROVE h[k] = IF k = 0 THEN t ELSE Step(h[k - 1])
      <3>1. CASE k = m
        <4>1. h[k] = Step(g[m - 1])
          BY <3>1, <2>4
        <4>2. h[k - 1] = g[m - 1]
          BY <3>1, <2>4, <2>3
        <4> QED BY <4>1, <4>2, <3>1, <2>3
      <3>2. CASE k # m
        <4>1. k \in 0..m - 1 /\ h[k] = g[k]
          BY <3>2, <2>4
        <4>2. k # 0 => h[k - 1] = g[k - 1]
          BY <4>1, <2>4
        <4> QED BY <4>1, <4>2, <2>6
      <3> QED BY <3>1, <3>2
    <2>8. h = [k \in 0..m |-> h[k]]
      OBVIOUS
    <2>9. IsBack(t, m, h)
      <3> HIDE DEF h
      <3> QED BY <2>7, <2>8, Zenon DEF IsBack, Step
    <2> QED BY <2>1, <2>9
  <1> QED BY <1>1


\* Esc: the whole input is erased; within a row the cursor stays on it.
LEMMA ErasedTerm ==
    ASSUME NEW t, Term(t), NEW n \in Nat
    PROVE  LET r == Erased(t, n)
           IN  /\ Term(r) /\ (Fresh(t) => Fresh(r)) /\ (InColumn(t) => InColumn(r))
               /\ n <= t.cx /\ AtEnd(t) => AtEnd(r)
  <1> DEFINE g == CHOOSE f : IsBack(t, n, f)
             P(k) == /\ Term(g[k]) /\ (Fresh(t) => Fresh(g[k])) /\ (InColumn(t) => InColumn(g[k]))
                     /\ n <= t.cx => g[k].cx = t.cx - k /\ (AtEnd(t) => AtEnd(g[k]))
  <1>0. t.cx \in Nat
    BY TermFields DEF Term
  <1>1. IsBack(t, n, g)
    BY BackExists
  <1>2. Erased(t, n) = g[n]
    BY DEF Erased, IsBack
  <1> HIDE DEF g
  <1>3. \A k \in 0..n : g[k] = IF k = 0 THEN t ELSE Back(g[k - 1])
    BY <1>1, Zenon DEF IsBack
  <1> DEFINE Bad == {k \in 0..n : ~P(k)}
  <1>4. Bad = {}
    <2> SUFFICES ASSUME Bad # {} PROVE FALSE
      OBVIOUS
    <2> HIDE DEF P
    <2>1. Bad \in SUBSET Nat
      OBVIOUS
    <2>2. PICK m \in Bad : \A k \in Bad : m <= k
      BY <2>1, LeastNat
    <2>3. m \in 0..n /\ ~P(m)
      BY <2>2
    <2>4. m # 0
      <3>1. g[0] = t /\ t.cx - 0 = t.cx
        BY <1>0, <1>3
      <3>2. P(0)
        BY <3>1 DEF P
      <3> QED BY <2>3, <3>2
    <2>5. m - 1 \in 0..n /\ m - 1 \notin Bad /\ m \in 1..n
      <3> HIDE DEF Bad
      <3> QED BY <2>2, <2>3, <2>4
    <2>6. P(m - 1)
      BY <2>5
    <2>7. g[m] = Back(g[m - 1])
      BY <1>3, <2>3, <2>4
    <2>8. PICK x : x = g[m - 1]
      OBVIOUS
    <2>9. /\ Term(Back(x)) /\ (Fresh(x) => Fresh(Back(x))) /\ (InColumn(x) => InColumn(Back(x)))
          /\ x.cx > 0 => Back(x).cx = x.cx - 1 /\ (AtEnd(x) => AtEnd(Back(x)))
      BY <2>6, <2>8, BackTerm DEF P
    <2>10. ASSUME n <= t.cx PROVE Back(x).cx = t.cx - m /\ (AtEnd(t) => AtEnd(Back(x)))
      <3>1. x.cx = t.cx - (m - 1) /\ (AtEnd(t) => AtEnd(x))
        BY <2>6, <2>8, <2>10 DEF P
      <3>2. PICK c \in Nat : c = t.cx
        BY <1>0
      <3>3. c - (m - 1) > 0 /\ c - (m - 1) - 1 = c - m
        BY <2>5, <2>10, <3>2
      <3>4. x.cx > 0 /\ x.cx - 1 = t.cx - m
        BY <3>1, <3>2, <3>3
      <3> QED BY <2>9, <3>1, <3>4
    <2>11. P(m)
      BY <2>6, <2>7, <2>8, <2>9, <2>10 DEF P
    <2> QED BY <2>3, <2>11
  <1>5. P(n)
    <2> HIDE DEF P
    <2> QED BY <1>4
  <1> QED BY <1>2, <1>5

\* circular_buffer_resize keeps the newest lines in their order.
LEMMA ResizedRing ==
    ASSUME NEW n \in Nat \ {0}, NEW b, Ring(n, b), NEW m \in Nat \ {0}
    PROVE  Ring(m, Resized(b, m)) /\ Resized(b, m).count = IF b.count > m THEN m ELSE b.count
  <1> DEFINE kept == IF b.count > m THEN m ELSE b.count
             new == NewBuffer(m)
             slot == [i \in 0..(m - 1) |-> IF i < kept THEN b.slot[SlotOf(b, b.count - kept + i)] ELSE new.slot[i]]
             head == kept % m
             x == [new EXCEPT !.slot = slot, !.count = kept, !.head = head]
             full == (kept = m)
             r == [x EXCEPT !.wrapped = full, !.added = b.added]
  <1>1. b \in BufRec(n) /\ b.count \in 0..n /\ b.slot \in [0..n - 1 -> TextLine] /\ b.added \in Nat
    BY DEF Ring, BufRec
  <1>2. PICK c \in Nat : c = b.count /\ c <= n
    BY <1>1
  <1>3. PICK k \in Nat : k = kept /\ k <= m /\ k <= c /\ (k = IF c > m THEN m ELSE c)
    BY <1>2
  <1>4. Resized(b, m) = r
    BY DEF Resized
  <1>5. new \in BufRec(m) /\ new.tail = 0 /\ new.slot \in [0..m - 1 -> TextLine]
    BY NewRing DEF Ring, BufRec, NewBuffer
  <1>6. head = (IF k = m THEN 0 ELSE k) /\ head \in 0..m - 1
    <2>1. k \in 0..2 * m - 1
      BY <1>3
    <2>2. k % m = IF k < m THEN k ELSE k - m
      BY <2>1, ModOnce
    <2> QED BY <1>3, <2>2
  <1>7. ASSUME NEW i \in 0..k - 1
        PROVE  b.slot[SlotOf(b, c - k + i)] \in TextLine /\ LineInOrder(b, c - k + i) /\ c - k + i \in 0..c - 1
    <2>1. c - k + i \in 0..c - 1 /\ c - k + i \in 0..n - 1
      BY <1>2, <1>3
    <2>2. SlotOf(b, c - k + i) \in 0..n - 1
      BY <1>1, <2>1, SlotIs
    <2>3. LineInOrder(b, c - k + i)
      BY <1>2, <2>1 DEF Ring
    <2> QED BY <1>1, <2>1, <2>2, <2>3
  <1>8. slot \in [0..m - 1 -> TextLine] /\ \A i \in 0..k - 1 : slot[i] = b.slot[SlotOf(b, c - k + i)]
    <2>1. slot = [i \in 0..m - 1 |-> IF i < k THEN b.slot[SlotOf(b, c - k + i)] ELSE new.slot[i]]
      BY <1>2, <1>3
    <2> HIDE DEF new
    <2>2. ASSUME NEW i \in 0..m - 1
          PROVE  (IF i < k THEN b.slot[SlotOf(b, c - k + i)] ELSE new.slot[i]) \in TextLine
      <3>1. CASE i < k
        <4>1. i \in 0..k - 1
          BY <3>1
        <4> QED BY <1>7, <3>1, <4>1
      <3>2. CASE ~(i < k)
        BY <1>5, <3>2
      <3> QED BY <3>1, <3>2
    <2> HIDE DEF slot
    <2>3. slot \in [0..m - 1 -> TextLine]
      BY <2>1, <2>2
    <2>4. ASSUME NEW i \in 0..k - 1 PROVE slot[i] = b.slot[SlotOf(b, c - k + i)]
      <3>1. i \in 0..m - 1 /\ i < k
        BY <1>3
      <3> QED BY <2>1, <3>1
    <2> QED BY <2>3, <2>4
  <1>9. kept \in 0..m /\ full \in BOOLEAN /\ (full <=> k = m)
    BY <1>3
  <1> HIDE DEF slot, head, kept, new, full
  <1>10. x \in BufRec(m) /\ x.slot = slot /\ x.count = kept /\ x.head = head /\ x.tail = 0
    <2>1. new \in BufRec(m) /\ new.tail = 0
      BY <1>5
    <2> QED BY <1>6, <1>8, <1>9, <2>1 DEF BufRec
  <1> HIDE DEF x
  <1>11. r \in BufRec(m) /\ r.slot = slot /\ r.count = kept /\ r.head = head /\ r.tail = 0
         /\ r.wrapped = full /\ r.added = b.added
    <2>1. b.added \in Nat
      BY <1>1
    <2> QED BY <1>9, <1>10, <2>1 DEF BufRec
  <1> HIDE DEF r
  <1>12. RingShape(m, r)
    BY <1>3, <1>6, <1>9, <1>11 DEF RingShape
  <1>13. ASSUME NEW o \in 0..r.count - 1 PROVE LineInOrder(r, o)
    <2>1. o \in 0..k - 1 /\ o \in 0..m - 1
      <3>1. r.count = k /\ k <= m
        BY <1>3, <1>11
      <3> QED BY <3>1
    <2>2. SlotOf(r, o) = o
      <3>1. SlotOf(r, o) = IF r.wrapped THEN IF r.tail + o < m THEN r.tail + o ELSE r.tail + o - m ELSE o
        BY <1>11, <2>1, SlotIs
      <3> QED BY <1>11, <2>1, <3>1
    <2>3. r.slot[o] = b.slot[SlotOf(b, c - k + o)]
      BY <1>8, <1>11, <2>1
    <2>4. b.slot[SlotOf(b, c - k + o)].id = b.added - c + 1 + (c - k + o)
      BY <1>2, <1>7, <2>1 DEF LineInOrder
    <2>5. PICK a \in Nat : a = b.added
      BY <1>1
    <2>6. a - c + 1 + (c - k + o) = a - k + 1 + o
      BY <2>1
    <2> QED BY <1>3, <1>11, <2>2, <2>3, <2>4, <2>5, <2>6 DEF LineInOrder
  <1>14. Ring(m, r)
    BY <1>11, <1>12, <1>13 DEF Ring
  <1> QED BY <1>4, <1>11, <1>14 DEF kept

\* terminal_init.
LEMMA InitTerm ==
    Term(TerminalInit) /\ Fresh(TerminalInit) /\ AtEnd(TerminalInit) /\ InColumn(TerminalInit)
  <1> DEFINE n == BufferLines(BootHeight)
             b == AddLine(NewBuffer(n))
             q == Resized(b, RingLines)
             blank == [y \in Screen |-> {}]
             t == [b |-> q, view |-> 0, cx |-> 0, cy |-> 0, dirty |-> Screen, shown |-> blank,
                   redraw |-> FALSE, spin |-> FALSE, raced |-> {}]
  <1>1. TerminalInit = UpdatePrompt(t)
    BY DEF TerminalInit, RingLines
  <1>2. n \in Nat \ {0} /\ RingLines \in Nat \ {0}
    BY RingSizes
  <1> HIDE DEF n
  <1>3. Ring(n, b) /\ b.count = 1
    <2> DEFINE e == NewBuffer(n)
    <2>1. Ring(n, e) /\ e.count = 0
      BY <1>2, NewRing
    <2> HIDE DEF e
    <2>2. Added(n, e, AddLine(e))
      BY <1>2, <2>1, AddRing
    <2>3. 0 < n /\ 0 + 1 = 1
      BY <1>2
    <2>4. AddLine(e).count = 1 /\ Ring(n, AddLine(e))
      BY <2>1, <2>2, <2>3 DEF Added
    <2> QED BY <2>4 DEF e
  <1> HIDE DEF b
  <1>4. Ring(RingLines, q) /\ q.count = 1
    <2>1. Ring(RingLines, q) /\ q.count = IF b.count > RingLines THEN RingLines ELSE b.count
      BY <1>2, <1>3, ResizedRing
    <2> HIDE DEF q
    <2> QED BY <1>2, <1>3, <2>1
  <1>5. q \in BufRec(RingLines) /\ blank \in [Screen -> SUBSET Columns] /\ 0 \in Screen
    BY <1>4, ConConstants DEF Ring, Screen
  <1> HIDE DEF q, blank
  <1>6. t \in TermRec /\ t.b = q /\ t.view = 0 /\ t.cx = 0 /\ t.cy = 0 /\ t.dirty = Screen /\ ~t.spin
    BY <1>5 DEF TermRec
  <1> HIDE DEF t
  <1>7. Term(t) /\ AtEnd(t)
    BY <1>4, <1>6 DEF Term, TermTyped, Placed, AtEnd
  <1>8. Fresh(t) /\ InColumn(t)
    BY <1>6, ConConstants DEF Fresh, RowsCurrent, InColumn
  <1>9. Continues(t, UpdatePrompt(t))
    BY <1>7, UpdatePromptTerm
  <1> QED BY <1>1, <1>7, <1>8, <1>9 DEF Continues

-----------------------------------------------------------------------------
(* The input line and its history. *)

Typed == 0..InputMax
LineRec == [len : Typed, pos : Typed, hist : [0..(COMMAND_HISTORY_SIZE - 1) -> Typed],
            count : 0..COMMAND_HISTORY_SIZE, current : 0..COMMAND_HISTORY_SIZE, browsing : BOOLEAN,
            saved : Typed]

\* The cursor is in the line and the line recalled is one of the history's.
LineOK(i) == i \in LineRec /\ i.pos <= i.len /\ i.current <= i.count

\* Its fields as numbers.
LEMMA LineFields ==
    ASSUME NEW i, LineOK(i)
    PROVE  /\ i \in LineRec /\ i.len \in Nat /\ i.len <= InputMax /\ i.pos \in Nat /\ i.pos <= i.len
           /\ i.count \in Nat /\ i.count <= COMMAND_HISTORY_SIZE
           /\ i.current \in Nat /\ i.current <= i.count /\ i.saved \in Typed
           /\ i.hist \in [0..(COMMAND_HISTORY_SIZE - 1) -> Typed]
  <1>1. i \in LineRec /\ i.pos <= i.len /\ i.current <= i.count
    BY DEF LineOK
  <1>2. i.len \in Typed /\ i.pos \in Typed /\ i.count \in 0..COMMAND_HISTORY_SIZE /\ i.saved \in Typed
        /\ i.current \in 0..COMMAND_HISTORY_SIZE /\ i.hist \in [0..(COMMAND_HISTORY_SIZE - 1) -> Typed]
    BY <1>1 DEF LineRec
  <1> QED BY <1>1, <1>2, ConConstants DEF Typed

\* The cursor and the end of the line.
LEMMA LinePlaced ==
    ASSUME NEW i, LineOK(i), NEW pos \in Nat, NEW len \in Nat, pos <= len, len <= InputMax
    PROVE  LineOK([i EXCEPT !.pos = pos, !.len = len])
  <1> DEFINE j == [i EXCEPT !.pos = pos, !.len = len]
  <1>1. pos \in Typed /\ len \in Typed
    BY ConConstants DEF Typed
  <1>2. i \in LineRec /\ i.current <= i.count
    BY DEF LineOK
  <1>3. j \in LineRec /\ j.pos = pos /\ j.len = len /\ j.current = i.current /\ j.count = i.count
    BY <1>1, <1>2 DEF LineRec
  <1> HIDE DEF j
  <1>4. LineOK(j)
    BY <1>2, <1>3 DEF LineOK
  <1> QED BY <1>4 DEF j

\* Whether the user looks through the history.
LEMMA LineBrowsing ==
    ASSUME NEW i, LineOK(i), NEW f \in BOOLEAN
    PROVE  LineOK([i EXCEPT !.browsing = f])
  <1> DEFINE j == [i EXCEPT !.browsing = f]
  <1>2. i \in LineRec
    BY DEF LineOK
  <1>3. j \in LineRec /\ j.pos = i.pos /\ j.len = i.len /\ j.current = i.current /\ j.count = i.count
    BY <1>2 DEF LineRec
  <1> HIDE DEF j
  <1>4. LineOK(j)
    BY <1>3 DEF LineOK
  <1> QED BY <1>4 DEF j

\* A command of the history is recalled.
LEMMA RecalledLine ==
    ASSUME NEW i, LineOK(i), NEW n \in Nat, n < COMMAND_HISTORY_SIZE, n <= i.count
    PROVE  LineOK(Recalled(i, n))
  <1> DEFINE v == i.hist[n]
             j == [i EXCEPT !.current = n, !.len = v, !.pos = v]
  <1>1. n \in 0..COMMAND_HISTORY_SIZE /\ n \in 0..(COMMAND_HISTORY_SIZE - 1)
    BY ConConstants
  <1>2. v \in Typed
    BY <1>1, LineFields
  <1>3. i \in LineRec
    BY DEF LineOK
  <1>4. Recalled(i, n) = j
    BY DEF Recalled
  <1> HIDE DEF v
  <1>5. j \in LineRec /\ j.pos = v /\ j.len = v /\ j.current = n /\ j.count = i.count
    BY <1>1, <1>2, <1>3 DEF LineRec
  <1> HIDE DEF j
  <1>6. v <= v
    BY <1>2, ConConstants DEF Typed
  <1> QED BY <1>4, <1>5, <1>6 DEF LineOK

\* The line after each editing key.
LEMMA EditKeysLine ==
    ASSUME NEW i, LineOK(i), NEW j \in EditKeys(i)
    PROVE  LineOK(j)
  <1>0. i.len \in Nat /\ i.len <= InputMax /\ i.pos \in Nat /\ i.pos <= i.len
        /\ i.count \in Nat /\ i.count <= COMMAND_HISTORY_SIZE /\ i.current \in Nat /\ i.current <= i.count
        /\ i.saved \in Typed /\ i \in LineRec
    BY LineFields
  <1>1. CASE j = HistoryUp(i)
    <2>1. CASE i.count = 0
      BY <1>1, <2>1 DEF HistoryUp
    <2>2. CASE i.count # 0
      <3> DEFINE k == IF i.browsing THEN i ELSE [i EXCEPT !.saved = i.len, !.browsing = TRUE, !.current = i.count]
      <3>1. j = Recalled(k, IF k.current > 0 THEN k.current - 1 ELSE 0)
        BY <1>1, <2>2 DEF HistoryUp
      <3>2. LineOK(k) /\ k.count = i.count
        <4>1. CASE i.browsing
          BY <4>1
        <4>2. CASE ~i.browsing
          <5> DEFINE x == [i EXCEPT !.saved = i.len, !.browsing = TRUE, !.current = i.count]
          <5>1. i.len \in Typed /\ i.count \in 0..COMMAND_HISTORY_SIZE /\ TRUE \in BOOLEAN
            BY <1>0, ConConstants DEF Typed
          <5>2. x \in LineRec /\ x.pos = i.pos /\ x.len = i.len /\ x.current = i.count /\ x.count = i.count
            BY <1>0, <5>1 DEF LineRec
          <5> HIDE DEF x
          <5>3. LineOK(x)
            BY <1>0, <5>2 DEF LineOK
          <5> QED BY <4>2, <5>2, <5>3 DEF x
        <4> QED BY <4>1, <4>2
      <3> HIDE DEF k
      <3>3. PICK c \in Nat : c = k.current /\ c <= i.count
        BY <3>2, LineFields
      <3>4. PICK n \in Nat : n = (IF c > 0 THEN c - 1 ELSE 0) /\ n < COMMAND_HISTORY_SIZE /\ n <= i.count
        BY <1>0, <2>2, <3>3, ConConstants
      <3>5. LineOK(Recalled(k, n))
        BY <3>2, <3>4, RecalledLine
      <3> QED BY <3>1, <3>3, <3>4, <3>5
    <2> QED BY <2>1, <2>2
  <1>2. CASE j = HistoryDown(i)
    <2>1. CASE ~i.browsing
      BY <1>2, <2>1 DEF HistoryDown
    <2>2. CASE i.browsing /\ i.current < i.count - 1
      <3>1. j = Recalled(i, i.current + 1)
        BY <1>2, <2>2 DEF HistoryDown
      <3>2. PICK n \in Nat : n = i.current + 1 /\ n < COMMAND_HISTORY_SIZE /\ n <= i.count
        BY <1>0, <2>2, ConConstants
      <3> QED BY <3>1, <3>2, RecalledLine
    <2>3. CASE i.browsing /\ ~(i.current < i.count - 1)
      <3> DEFINE x == [i EXCEPT !.browsing = FALSE]
      <3>1. j = [x EXCEPT !.len = i.saved, !.pos = i.saved]
        BY <1>2, <2>3 DEF HistoryDown
      <3>2. x \in LineRec /\ x.current = i.current /\ x.count = i.count
        BY <1>0 DEF LineRec
      <3> HIDE DEF x
      <3>3. PICK v \in Typed : v = i.saved
        BY <1>0
      <3>4. j \in LineRec /\ j.pos = v /\ j.len = v /\ j.current = i.current /\ j.count = i.count
        BY <3>1, <3>2, <3>3 DEF LineRec
      <3>5. v <= v
        BY ConConstants DEF Typed
      <3> QED BY <1>0, <3>4, <3>5 DEF LineOK
    <2> QED BY <2>1, <2>2, <2>3
  <1>3. CASE \E pos \in 0..i.len : j = [i EXCEPT !.pos = pos]
    <2>1. PICK pos \in 0..i.len : j = [i EXCEPT !.pos = pos]
      BY <1>3
    <2>2. pos \in Typed /\ pos <= i.len
      BY <1>0, <2>1, ConConstants DEF Typed
    <2>3. j \in LineRec /\ j.pos = pos /\ j.len = i.len /\ j.current = i.current /\ j.count = i.count
      BY <1>0, <2>1, <2>2 DEF LineRec
    <2> QED BY <1>0, <2>2, <2>3 DEF LineOK
  <1>4. CASE \E len \in i.pos..InputMax : j = [i EXCEPT !.len = len]
    <2>1. PICK len \in i.pos..InputMax : j = [i EXCEPT !.len = len]
      BY <1>4
    <2>2. len \in Typed /\ i.pos <= len
      BY <1>0, <2>1, ConConstants DEF Typed
    <2>3. j \in LineRec /\ j.pos = i.pos /\ j.len = len /\ j.current = i.current /\ j.count = i.count
      BY <1>0, <2>1, <2>2 DEF LineRec
    <2> QED BY <1>0, <2>2, <2>3 DEF LineOK
  <1>5. CASE \/ j = [i EXCEPT !.pos = IF @ > 0 THEN @ - 1 ELSE @]
             \/ j = [i EXCEPT !.pos = IF @ < i.len THEN @ + 1 ELSE @]
             \/ j = [i EXCEPT !.pos = 0]
             \/ j = [i EXCEPT !.pos = i.len]
    <2>1. PICK p \in Nat, l \in Nat : p = i.pos /\ l = i.len /\ p <= l
      BY <1>0
    <2>2. \/ j = [i EXCEPT !.pos = IF p > 0 THEN p - 1 ELSE p]
          \/ j = [i EXCEPT !.pos = IF p < l THEN p + 1 ELSE p]
          \/ j = [i EXCEPT !.pos = 0]
          \/ j = [i EXCEPT !.pos = l]
      BY <1>5, <2>1
    <2>3. /\ (IF p > 0 THEN p - 1 ELSE p) \in 0..l /\ (IF p < l THEN p + 1 ELSE p) \in 0..l
          /\ 0 \in 0..l /\ l \in 0..l
      BY <2>1
    <2>4. \E pos \in 0..l : j = [i EXCEPT !.pos = pos]
      BY <2>2, <2>3, Zenon
    <2> QED BY <1>3, <2>1, <2>4
  <1>6. CASE j = [i EXCEPT !.len = IF i.pos < @ THEN @ - 1 ELSE @]
    <2>1. PICK p \in Nat, l \in Nat : p = i.pos /\ l = i.len /\ p <= l /\ l <= InputMax
      BY <1>0
    <2>2. j = [i EXCEPT !.len = IF p < l THEN l - 1 ELSE l]
      BY <1>6, <2>1
    <2>3. (IF p < l THEN l - 1 ELSE l) \in p..InputMax
      BY <2>1, ConConstants
    <2> QED BY <1>4, <2>1, <2>2, <2>3
  <1> QED BY <1>1, <1>2, <1>5, <1>6 DEF EditKeys

\* Enter keeps the line in the history.
LEMMA EnteredLine == ASSUME NEW i, LineOK(i) PROVE LineOK(Entered(i))
  <1> DEFINE n == i.count % COMMAND_HISTORY_SIZE
             k == IF i.count < COMMAND_HISTORY_SIZE THEN i.count + 1 ELSE i.count
             hist == [i.hist EXCEPT ![n] = i.len]
             j == [i EXCEPT !.hist = hist, !.count = k, !.current = k]
  <1>0. i \in LineRec /\ i.len \in Typed /\ i.hist \in [0..(COMMAND_HISTORY_SIZE - 1) -> Typed]
    BY LineFields DEF LineRec
  <1>1. Entered(i) = IF i.pos > 0 THEN j ELSE i
    BY DEF Entered
  <1>2. k \in 0..COMMAND_HISTORY_SIZE /\ k <= k
    BY LineFields, ConConstants
  <1>3. hist \in [0..(COMMAND_HISTORY_SIZE - 1) -> Typed]
    BY <1>0
  <1> HIDE DEF hist, k
  <1>4. j \in LineRec /\ j.pos = i.pos /\ j.len = i.len /\ j.current = k /\ j.count = k
    BY <1>0, <1>2, <1>3 DEF LineRec
  <1> HIDE DEF j
  <1>5. LineOK(j)
    BY <1>2, <1>4 DEF LineOK
  <1> QED BY <1>1, <1>5

-----------------------------------------------------------------------------
(* The steps. *)

ConState(t, i, s) ==
    /\ Term(t) /\ Fresh(t) /\ InColumn(t)
    /\ ~s => AtEnd(t)
    /\ LineOK(i) /\ s \in BOOLEAN

\* Where a painter may be.
PaintRec == [at : {"off", "scan", "row"}, y : 0..Height, whole : BOOLEAN]
PaintOK(q) == q \in [Painters -> PaintRec] /\ \A p \in Painters : q[p].at = "row" => q[p].y \in Screen

ConsoleInv == ConState(con, line, strayed) /\ PaintOK(paint)

\* The state after boot.
LEMMA InitConsole == ConsoleInit => ConsoleInv
  <1> SUFFICES ASSUME ConsoleInit PROVE ConsoleInv
    OBVIOUS
  <1> DEFINE hist == [h \in 0..(COMMAND_HISTORY_SIZE - 1) |-> 0]
             i == [len |-> 0, pos |-> 0, hist |-> hist, count |-> 0, current |-> 0, browsing |-> FALSE,
                   saved |-> 0]
  <1>1. con = TerminalInit /\ line = i /\ strayed = FALSE
    BY DEF ConsoleInit
  <1>2. 0 \in Typed /\ 0 \in 0..COMMAND_HISTORY_SIZE /\ 0 <= 0
    BY ConConstants DEF Typed
  <1>3. hist \in [0..(COMMAND_HISTORY_SIZE - 1) -> Typed]
    BY <1>2
  <1> HIDE DEF hist
  <1>4. i \in LineRec /\ i.pos = 0 /\ i.len = 0 /\ i.current = 0 /\ i.count = 0
    BY <1>2, <1>3 DEF LineRec
  <1> HIDE DEF i
  <1>5. LineOK(i)
    BY <1>2, <1>4 DEF LineOK
  <1>6. PaintOK(paint)
    <2>1. Idle \in PaintRec /\ Idle.at = "off"
      BY ConConstants DEF Idle, PaintRec
    <2>2. paint = [p \in Painters |-> Idle]
      BY DEF ConsoleInit
    <2> QED BY <2>1, <2>2 DEF PaintOK
  <1> QED BY <1>1, <1>5, <1>6, InitTerm DEF ConsoleInv, ConState

\* The invariant after a step, from what the step leaves.
LEMMA ConsolePrime == ConState(con', line', strayed') /\ PaintOK(paint') => ConsoleInv'
  BY DEF ConsoleInv

\* Painters that are broken into stay where they are.
LEMMA BrokenOK == ASSUME PaintOK(paint) PROVE PaintOK(Broken)
  <1>1. ASSUME NEW p \in Painters
        PROVE  Broken[p] \in PaintRec /\ (Broken[p].at = "row" => Broken[p].y \in Screen)
    <2>1. paint[p] \in PaintRec /\ (paint[p].at = "row" => paint[p].y \in Screen)
      BY DEF PaintOK
    <2>2. Broken[p] = IF paint[p].at = "row" THEN [paint[p] EXCEPT !.whole = FALSE] ELSE paint[p]
      BY DEF Broken
    <2>3. PICK r \in PaintRec : r = paint[p] /\ (r.at = "row" => r.y \in Screen)
      BY <2>1
    <2> QED BY <2>2, <2>3 DEF PaintRec
  <1> QED BY <1>1 DEF PaintOK, Broken

\* A step that shows what follows from the terminal.
LEMMA ContinuesState ==
    ASSUME ConsoleInv, NEW t, Continues(con, t), NEW i, LineOK(i)
    PROVE  ConState(t, i, strayed)
  BY DEF ConsoleInv, ConState, Continues

\* Show leaves the terminal in a state that is right for it.
LEMMA Shown ==
    ASSUME ConsoleInv, NEW t, Show(t), ConState(t, line', strayed')
    PROVE  ConsoleInv'
  <1>1. con' = t /\ PaintOK(paint')
    BY BrokenOK DEF Show, Proceed, ConsoleInv
  <1> QED BY <1>1, ConsolePrime

\* A painter's step, from the terminal it leaves.
LEMMA PainterStep ==
    ASSUME ConsoleInv, NEW p \in Painters, NEW t, NEW at \in PaintRec, at.at = "row" => at.y \in Screen,
           Paint(p, t, at), Continues(con, t), line' = line, strayed' = strayed
    PROVE  ConsoleInv'
  <1>1. ConState(t, line, strayed)
    BY ContinuesState DEF ConsoleInv, ConState
  <1>2. con' = t /\ paint' = [Broken EXCEPT ![p] = at]
    BY DEF Paint, Proceed
  <1>3. PaintOK(Broken)
    BY BrokenOK DEF ConsoleInv
  <1>4. PaintOK(paint')
    BY <1>2, <1>3 DEF PaintOK
  <1> QED BY <1>1, <1>2, <1>4, ConsolePrime

\* Output.
LEMMA WriteTextStep == ConsoleInv /\ WriteText => ConsoleInv'
  <1> SUFFICES ASSUME ConsoleInv, WriteText PROVE ConsoleInv'
    OBVIOUS
  <1>0. Term(con) /\ LineOK(line) /\ line' = line /\ strayed' = strayed /\ 1 \in Nat
    BY DEF ConsoleInv, ConState, WriteText
  <1>1. ASSUME NEW t, Continues(con, t), Show(t) PROVE ConsoleInv'
    BY <1>0, <1>1, ContinuesState, Shown
  <1>2. Continues(con, Puts(con, 1))
    BY <1>0, PutsTerm
  <1>3. Continues(con, PutsLine(con))
    BY <1>0, PutsLineTerm
  <1>4. Continues(con, Draw(CarriageReturn(con)))
    <2>1. Continues(con, CarriageReturn(con))
      BY <1>0, CarriageTerm
    <2>2. Continues(CarriageReturn(con), Draw(CarriageReturn(con)))
      BY <2>1, DrawContinues DEF Continues
    <2> QED BY <2>1, <2>2, ContinuesTransitive
  <1> QED BY <1>1, <1>2, <1>3, <1>4 DEF WriteText

\* A full redraw starts with every row marked.
LEMMA ScreenErasedTerm == ASSUME NEW t, Term(t) PROVE Continues(t, ScreenErased(t))
  <1> DEFINE blank == [y \in Screen |-> {}]
             r == [t EXCEPT !.shown = blank, !.redraw = FALSE, !.dirty = Screen]
  <1>0. TermTyped(t) /\ Placed(t)
    BY DEF Term
  <1>1. blank \in [Screen -> SUBSET Columns] /\ Screen \in SUBSET Screen /\ t \in TermRec
    BY <1>0, TermFields
  <1> HIDE DEF blank
  <1>2. r \in TermRec /\ r.b = t.b /\ r.view = t.view /\ r.cy = t.cy /\ r.spin = t.spin /\ r.cx = t.cx
        /\ r.dirty = Screen
    BY <1>1 DEF TermRec
  <1>3. ScreenErased(t) = IF t.redraw THEN r ELSE t
    BY DEF ScreenErased, blank
  <1> HIDE DEF r
  <1>4. TermTyped(r) /\ Placed(r) /\ (AtEnd(t) => AtEnd(r))
    BY <1>0, <1>2, SameTerminal
  <1>5. Fresh(r)
    BY <1>2 DEF Fresh, RowsCurrent
  <1>6. Continues(t, r)
    BY <1>2, <1>4, <1>5 DEF Continues, Term, InColumn
  <1>7. Continues(t, t)
    BY DEF Continues
  <1> QED BY <1>3, <1>6, <1>7

\* terminal_draw with interrupts on starts.
LEMMA DrawStartStep ==
    ASSUME ConsoleInv, NEW p \in Painters, NEW t, Continues(con, t), DrawStart(p, t)
    PROVE  ConsoleInv'
  <1> DEFINE at == [at |-> "scan", y |-> 0, whole |-> TRUE]
  <1>1. at \in PaintRec /\ at.at # "row"
    BY ConConstants DEF PaintRec
  <1>2. Paint(p, ScreenErased(t), at) /\ line' = line /\ strayed' = strayed
    BY DEF DrawStart
  <1>3. Continues(con, ScreenErased(t))
    <2>1. Continues(t, ScreenErased(t))
      BY ScreenErasedTerm DEF Continues
    <2> QED BY <2>1, ContinuesTransitive
  <1> HIDE DEF at
  <1> QED BY <1>1, <1>2, <1>3, PainterStep

\* The main loop's drawing.
LEMMA BlinkStep == ASSUME ConsoleInv, NEW p \in Painters, Blink(p) PROVE ConsoleInv'
  <1>0. Term(con) /\ TermTyped(con) /\ Placed(con)
    BY DEF ConsoleInv, ConState, Term
  <1>1. PICK rows \in {{}, {con.cy}} : DrawStart(p, [con EXCEPT !.dirty = con.dirty \cup rows])
    <2>1. con.dirty = con.dirty \cup {}
      OBVIOUS
    <2>2. PICK marks \in {con.dirty, con.dirty \cup {con.cy}} : DrawStart(p, [con EXCEPT !.dirty = marks])
      BY DEF Blink
    <2> QED BY <2>1, <2>2
  <1> DEFINE m == [con EXCEPT !.dirty = con.dirty \cup rows]
  <1>2. rows \in SUBSET Screen
    BY <1>0, <1>1, TermFields
  <1>3. /\ TermTyped(m) /\ Placed(m) /\ (Fresh(con) => Fresh(m)) /\ (AtEnd(con) => AtEnd(m)) /\ m.cx = con.cx
    BY <1>0, <1>2, MarkTerm
  <1> HIDE DEF m
  <1>4. Continues(con, m)
    BY <1>3 DEF Continues, Term, InColumn
  <1> QED BY <1>1, <1>4, DrawStartStep DEF m

\* A kernel task prints.
LEMMA TaskPrintsStep == ASSUME ConsoleInv, NEW p \in Painters, TaskPrints(p) PROVE ConsoleInv'
  <1>0. Term(con) /\ LineOK(line) /\ InColumn(con)
    BY DEF ConsoleInv, ConState
  <1>1. Continues(con, PutChar(con)) /\ Continues(con, NewLine(con))
    BY <1>0, PutCharTerm, NewLineTerm DEF Term
  <1>2. CASE Show(PutChar(con)) /\ line' = line /\ strayed' = strayed
    BY <1>0, <1>1, <1>2, ContinuesState, Shown
  <1>3. CASE DrawStart(p, PutChar(con)) \/ DrawStart(p, NewLine(con))
    BY <1>1, <1>3, DrawStartStep
  <1> QED BY <1>2, <1>3 DEF TaskPrints

\* The painter's way to the next row.
LEMMA NextRowStep == ASSUME ConsoleInv, NEW p \in Painters, NextRow(p) PROVE ConsoleInv'
  <1>0. Term(con) /\ TermTyped(con) /\ line' = line /\ strayed' = strayed
    BY DEF ConsoleInv, ConState, NextRow, Term
  <1>1. Continues(con, con)
    BY <1>0 DEF Continues
  <1>2. CASE Paint(p, con, Idle)
    <2>1. Idle \in PaintRec /\ Idle.at # "row"
      BY ConConstants DEF Idle, PaintRec
    <2> QED BY <1>0, <1>1, <1>2, <2>1, PainterStep
  <1>3. ASSUME NEW y \in con.dirty, Paint(p, con, [at |-> "row", y |-> y, whole |-> TRUE]) PROVE ConsoleInv'
    <2> DEFINE at == [at |-> "row", y |-> y, whole |-> TRUE]
    <2>1. y \in Screen /\ y \in 0..Height
      BY <1>0, TermFields, ConConstants DEF Screen
    <2>2. at \in PaintRec /\ at.y \in Screen
      BY <2>1 DEF PaintRec
    <2>3. Paint(p, con, at)
      BY <1>3
    <2> HIDE DEF at
    <2> QED BY <1>0, <1>1, <2>2, <2>3, PainterStep
  <1> QED BY <1>2, <1>3 DEF NextRow

\* The row is painted and its mark cleared.
LEMMA DrawLineStep == ASSUME ConsoleInv, NEW p \in Painters, DrawLine(p) PROVE ConsoleInv'
  <1> DEFINE y == paint[p].y
             whole == paint[p].whole
             s == IF whole THEN Content(con, y) ELSE {}
             shown == [con.shown EXCEPT ![y] = s]
             dirty == con.dirty \ {y}
             raced == IF whole THEN con.raced \ {y} ELSE con.raced \cup {y}
             r == [con EXCEPT !.shown = shown, !.dirty = dirty, !.raced = raced]
             at == [at |-> "scan", y |-> y + 1, whole |-> TRUE]
  <1>0. Term(con) /\ TermTyped(con) /\ Placed(con) /\ line' = line /\ strayed' = strayed
    BY DEF ConsoleInv, ConState, DrawLine, Term
  <1>1. Paint(p, r, at)
    BY DEF DrawLine
  <1>2. y \in Screen
    BY DEF DrawLine, ConsoleInv, PaintOK
  <1>3. at \in PaintRec /\ at.at # "row"
    <2>1. y + 1 \in 0..Height
      BY <1>2, ConConstants DEF Screen
    <2> HIDE DEF y
    <2> QED BY <2>1 DEF PaintRec
  <1>4. s \in SUBSET Columns
    BY <1>0, <1>2, ContentIn
  <1>5. con \in TermRec /\ shown \in [Screen -> SUBSET Columns] /\ dirty \in SUBSET Screen /\ raced \in SUBSET Screen
    <2>1. con \in TermRec /\ con.shown \in [Screen -> SUBSET Columns] /\ con.dirty \in SUBSET Screen
          /\ con.raced \in SUBSET Screen
      BY <1>0, TermFields
    <2> HIDE DEF s, y, whole
    <2> QED BY <1>2, <1>4, <2>1
  <1>6. \A z \in Screen : shown[z] = IF z = y THEN s ELSE con.shown[z]
    <2>1. con.shown \in [Screen -> SUBSET Columns]
      BY <1>0, TermFields
    <2> HIDE DEF s, y
    <2> QED BY <2>1
  <1>7. \A z \in Screen : z \notin dirty => z = y \/ z \notin con.dirty
    OBVIOUS
  <1>8. \A z \in Screen : z \notin raced => IF z = y THEN s = Content(con, y) ELSE z \notin con.raced
    OBVIOUS
  <1> HIDE DEF shown, dirty, raced, s, at
  <1>9. r \in TermRec /\ r.b = con.b /\ r.view = con.view /\ r.cy = con.cy /\ r.spin = con.spin /\ r.cx = con.cx
        /\ r.dirty = dirty /\ r.shown = shown /\ r.raced = raced /\ r.redraw = con.redraw
    BY <1>5 DEF TermRec
  <1> HIDE DEF r, y
  <1>10. TermTyped(r) /\ Placed(r) /\ (AtEnd(con) => AtEnd(r)) /\ \A z : Content(r, z) = Content(con, z)
    BY <1>0, <1>9, SameTerminal
  <1>11. Fresh(con) => Fresh(r)
    BY <1>6, <1>7, <1>8, <1>9, <1>10 DEF Fresh, RowsCurrent
  <1>12. Continues(con, r)
    BY <1>9, <1>10, <1>11 DEF Continues, Term, InColumn
  <1> QED BY <1>0, <1>1, <1>3, <1>12, PainterStep

\* The input line put back to its start.
LEMMA LineReset ==
    ASSUME NEW i, LineOK(i)
    PROVE  LineOK([i EXCEPT !.pos = 0, !.len = 0, !.browsing = FALSE])
  <1> DEFINE j == [i EXCEPT !.pos = 0, !.len = 0]
  <1>1. 0 \in Nat /\ 0 <= 0 /\ 0 <= InputMax
    BY ConConstants
  <1>2. LineOK(j)
    BY <1>1, LinePlaced
  <1> HIDE DEF j
  <1>3. LineOK([j EXCEPT !.browsing = FALSE])
    BY <1>2, LineBrowsing
  <1> QED BY <1>3 DEF j

\* The editor's output.
LEMMA EditorWritesStep == ConsoleInv /\ EditorWrites => ConsoleInv'
  <1> SUFFICES ASSUME ConsoleInv, EditorWrites PROVE ConsoleInv'
    OBVIOUS
  <1> DEFINE c == [Clear(con) EXCEPT !.redraw = TRUE]
  <1>1. PICK x \in Columns, y \in 0..Height : Show(PutChar(SetCursor(c, x, y)))
    BY DEF EditorWrites
  <1>2. Term(con) /\ ~con.spin
    BY <1>1 DEF ConsoleInv, ConState, Show, Proceed
  <1>3. PICK d : d = Clear(con) /\ Term(d)
    BY <1>2, ClearTerm
  <1>4. TermTyped(c) /\ Fresh(c)
    <2> DEFINE e == [d EXCEPT !.redraw = TRUE]
    <2>1. d \in TermRec /\ TermTyped(d)
      BY <1>3, TermFields DEF Term
    <2>2. e \in TermRec /\ e.b = d.b /\ e.view = d.view /\ e.cy = d.cy /\ e.spin = d.spin /\ e.redraw = TRUE
      BY <2>1 DEF TermRec
    <2> HIDE DEF e
    <2>3. TermTyped(e) /\ Fresh(e)
      BY <2>1, <2>2, SameTerminal DEF Fresh, RowsCurrent
    <2> QED BY <1>3, <2>3 DEF e
  <1> HIDE DEF c
  <1>5. PICK q : q = SetCursor(c, x, y) /\ TermTyped(q) /\ Fresh(q) /\ InColumn(q)
    BY <1>4, SetCursorTerm
  <1>6. Continues(q, PutChar(q))
    BY <1>5, PutCharTerm
  <1>7. LineOK(line') /\ strayed' = TRUE
    <2>1. LineOK(line) /\ line' = [line EXCEPT !.pos = 0, !.len = 0, !.browsing = FALSE]
      BY DEF EditorWrites, ConsoleInv, ConState
    <2>2. LineOK([line EXCEPT !.pos = 0, !.len = 0, !.browsing = FALSE])
      BY <2>1, LineReset
    <2> QED BY <2>1, <2>2 DEF EditorWrites
  <1>8. ConState(PutChar(q), line', strayed')
    BY <1>5, <1>6, <1>7 DEF ConState, Continues
  <1> QED BY <1>1, <1>5, <1>8, Shown

\* Backspace.
LEMMA BackspaceStep == ConsoleInv /\ Backspace => ConsoleInv'
  <1> SUFFICES ASSUME ConsoleInv, Backspace PROVE ConsoleInv'
    OBVIOUS
  <1>0. Term(con) /\ Fresh(con) /\ InColumn(con) /\ LineOK(line) /\ (~strayed => AtEnd(con)) /\ strayed \in BOOLEAN
    BY DEF ConsoleInv, ConState
  <1>1. LineOK(line')
    <2>1. PICK p \in Nat, l \in Nat : p = line.pos /\ l = line.len /\ p <= l /\ l <= InputMax
      BY <1>0, LineFields
    <2>2. line' = [line EXCEPT !.pos = p - 1, !.len = p - 1] /\ p > 0
      BY <2>1 DEF Backspace
    <2>3. PICK q \in Nat : q = p - 1 /\ q <= q /\ q <= InputMax
      BY <2>1, <2>2, ConConstants
    <2>4. LineOK([line EXCEPT !.pos = q, !.len = q])
      BY <1>0, <2>3, LinePlaced
    <2> QED BY <2>2, <2>3, <2>4
  <1>2. /\ Term(Back(con)) /\ Fresh(Back(con)) /\ InColumn(Back(con))
        /\ con.cx > 0 => (AtEnd(con) => AtEnd(Back(con)))
    BY <1>0, BackTerm
  <1>3. strayed' \in BOOLEAN /\ (~strayed' => ~strayed /\ con.cx # 0)
    BY <1>0 DEF Backspace
  <1>4. con.cx # 0 => con.cx > 0
    BY <1>0, TermFields DEF Term
  <1>5. ConState(Back(con), line', strayed')
    BY <1>0, <1>1, <1>2, <1>3, <1>4 DEF ConState
  <1> QED BY <1>5, Shown DEF Backspace

\* Esc.
LEMMA EscapeStep == ConsoleInv /\ Escape => ConsoleInv'
  <1> SUFFICES ASSUME ConsoleInv, Escape PROVE ConsoleInv'
    OBVIOUS
  <1>0. Term(con) /\ Fresh(con) /\ InColumn(con) /\ LineOK(line) /\ (~strayed => AtEnd(con)) /\ strayed \in BOOLEAN
    BY DEF ConsoleInv, ConState
  <1>1. LineOK(line')
    <2>1. line' = [line EXCEPT !.pos = 0, !.len = 0, !.browsing = FALSE]
      BY DEF Escape
    <2>2. LineOK([line EXCEPT !.pos = 0, !.len = 0, !.browsing = FALSE])
      BY <1>0, LineReset
    <2> QED BY <2>1, <2>2
  <1>2. PICK n \in Nat : n = line.pos
    BY <1>0, LineFields
  <1>3. PICK r : /\ r = Erased(con, n) /\ Term(r) /\ Fresh(r) /\ InColumn(r)
                 /\ n <= con.cx /\ AtEnd(con) => AtEnd(r)
    BY <1>0, <1>2, ErasedTerm
  <1>4. strayed' \in BOOLEAN /\ (~strayed' => ~strayed /\ ~(n > con.cx))
    BY <1>0, <1>2 DEF Escape
  <1>5. ~(n > con.cx) => n <= con.cx
    <2>1. con.cx \in Nat
      BY <1>0, TermFields DEF Term
    <2> QED BY <2>1
  <1>6. ConState(r, line', strayed')
    BY <1>0, <1>1, <1>3, <1>4, <1>5 DEF ConState
  <1> QED BY <1>2, <1>3, <1>6, Shown DEF Escape

\* A printable key.
LEMMA TypeStep == ConsoleInv /\ Type => ConsoleInv'
  <1> SUFFICES ASSUME ConsoleInv, Type PROVE ConsoleInv'
    OBVIOUS
  <1>0. Term(con) /\ TermTyped(con) /\ LineOK(line) /\ strayed' = strayed
    BY DEF ConsoleInv, ConState, Type, Term
  <1>1. LineOK(line')
    <2>1. PICK p \in Nat : p = line.pos /\ p < InputMax
      BY <1>0, LineFields DEF Type
    <2>2. line' = [line EXCEPT !.pos = p + 1, !.len = p + 1, !.browsing = FALSE]
      BY <2>1 DEF Type
    <2>3. PICK q \in Nat : q = p + 1 /\ q <= q /\ q <= InputMax
      BY <2>1, ConConstants
    <2> DEFINE j == [line EXCEPT !.pos = q, !.len = q]
    <2>4. LineOK(j)
      BY <1>0, <2>3, LinePlaced
    <2>5. line' = [j EXCEPT !.browsing = FALSE]
      BY <2>2, <2>3
    <2> HIDE DEF j
    <2> QED BY <2>4, <2>5, LineBrowsing
  <1>2. Continues(con, PutChar(con))
    BY <1>0, PutCharTerm
  <1> QED BY <1>0, <1>1, <1>2, ContinuesState, Shown DEF Type

\* The editing keys: the row is written anew.
LEMMA EditKeyStep == ConsoleInv /\ EditKey => ConsoleInv'
  <1> SUFFICES ASSUME ConsoleInv, EditKey PROVE ConsoleInv'
    OBVIOUS
  <1> DEFINE p(i) == Puts(UpdatePrompt(ClearCurrentLine(con)), i.len)
             placed(i) == [p(i) EXCEPT !.cx = CwdPrompt + i.pos, !.shown[p(i).cy] = Content(p(i), p(i).cy)]
  <1>0. Term(con) /\ LineOK(line) /\ strayed' = strayed
    BY DEF ConsoleInv, ConState, EditKey
  <1>1. PICK i \in EditKeys(line) : line' = i /\ Show(IF p(i).spin THEN p(i) ELSE placed(i))
    BY DEF EditKey
  <1>2. LineOK(i)
    BY <1>0, <1>1, EditKeysLine
  <1>3. PICK n \in Nat, k \in Nat : n = i.len /\ k = i.pos /\ k <= n /\ n <= InputMax
    BY <1>2, LineFields
  <1>4. PICK q : q = p(i) /\ Continues(con, q)
    <2>1. PICK x : x = ClearCurrentLine(con) /\ Continues(con, x)
      BY <1>0, ClearLineTerm
    <2>2. PICK y : y = UpdatePrompt(x) /\ Continues(x, y)
      BY <2>1, UpdatePromptTerm DEF Continues
    <2>3. Continues(y, Puts(y, n))
      BY <2>2, PutsTerm DEF Continues
    <2>4. Continues(con, Puts(y, n))
      BY <2>1, <2>2, <2>3, ContinuesTransitive
    <2>5. p(i) = Puts(y, n)
      BY <2>1, <2>2, <1>3
    <2> QED BY <2>4, <2>5
  <1>5. Show(IF q.spin THEN q ELSE [q EXCEPT !.cx = CwdPrompt + k, !.shown[q.cy] = Content(q, q.cy)])
    BY <1>1, <1>3, <1>4
  <1> HIDE DEF p, placed
  <1>6. CASE q.spin
    BY <1>0, <1>1, <1>2, <1>4, <1>5, <1>6, ContinuesState, Shown
  <1>7. CASE ~q.spin
    <2> DEFINE cx == CwdPrompt + k
               shown == [q.shown EXCEPT ![q.cy] = Content(q, q.cy)]
               r == [q EXCEPT !.cx = cx, !.shown = shown]
    <2>0. TermTyped(q) /\ Placed(q) /\ q \in TermRec /\ q.cy \in Screen /\ q.shown \in [Screen -> SUBSET Columns]
      BY <1>4, TermFields DEF Continues, Term
    <2>1. cx \in Nat /\ cx <= CwdPrompt + InputMax
      BY <1>3, ConConstants
    <2>2. shown \in [Screen -> SUBSET Columns] /\ \A z \in Screen : shown[z] = IF z = q.cy THEN Content(q, z) ELSE q.shown[z]
      <3>1. Content(q, q.cy) \in SUBSET Columns
        BY <2>0, ContentIn
      <3> QED BY <2>0, <3>1
    <2>3. Show(r)
      BY <1>5, <1>7
    <2> HIDE DEF cx, shown
    <2>4. r \in TermRec /\ r.b = q.b /\ r.view = q.view /\ r.cy = q.cy /\ r.spin = q.spin /\ r.cx = cx
          /\ r.shown = shown /\ r.dirty = q.dirty /\ r.redraw = q.redraw /\ r.raced = q.raced
      BY <2>0, <2>1, <2>2 DEF TermRec
    <2> HIDE DEF r
    <2>5. TermTyped(r) /\ Placed(r) /\ (AtEnd(q) => AtEnd(r)) /\ \A z : Content(r, z) = Content(q, z)
      BY <2>0, <2>4, SameTerminal
    <2>6. Fresh(q) => Fresh(r)
      BY <2>2, <2>4, <2>5 DEF Fresh, RowsCurrent
    <2>7. InColumn(r)
      BY <2>1, <2>4 DEF InColumn
    <2>8. Continues(q, r)
      BY <2>5, <2>6, <2>7 DEF Continues, Term
    <2>9. Continues(con, r)
      BY <1>4, <2>8, ContinuesTransitive
    <2> QED BY <1>0, <1>1, <1>2, <2>3, <2>9, ContinuesState, Shown
  <1> QED BY <1>6, <1>7

\* PgUp and PgDn.
LEMMA ScrollKeyStep == ConsoleInv /\ ScrollKey => ConsoleInv'
  <1> SUFFICES ASSUME ConsoleInv, ScrollKey PROVE ConsoleInv'
    OBVIOUS
  <1>0. Term(con) /\ Fresh(con) /\ InColumn(con) /\ LineOK(line) /\ line' = line /\ strayed' = TRUE
    BY DEF ConsoleInv, ConState, ScrollKey
  <1>1. PICK r : (r = ScrollUp(con) \/ r = ScrollDown(con)) /\ Show(Draw(r))
    BY DEF ScrollKey
  <1>2. Term(r) /\ Fresh(r) /\ r.cx = con.cx
    BY <1>0, <1>1, ScrollTerm
  <1>3. Continues(r, Draw(r)) /\ InColumn(r)
    BY <1>0, <1>2, DrawContinues DEF InColumn
  <1>4. ConState(Draw(r), line', strayed')
    BY <1>0, <1>2, <1>3 DEF ConState, Continues
  <1> QED BY <1>1, <1>4, Shown

\* Enter, whatever the command prints.
LEMMA EnterStep == ConsoleInv /\ Enter => ConsoleInv'
  <1> SUFFICES ASSUME ConsoleInv, Enter PROVE ConsoleInv'
    OBVIOUS
  <1>0. Term(con) /\ Fresh(con) /\ InColumn(con) /\ LineOK(line) /\ (~strayed => AtEnd(con)) /\ strayed \in BOOLEAN
        /\ strayed' = strayed
    BY DEF ConsoleInv, ConState, Enter
  <1>1. LineOK(line')
    <2>1. PICK j : j = Entered(line) /\ LineOK(j)
      BY <1>0, EnteredLine
    <2>2. LineOK([j EXCEPT !.pos = 0, !.len = 0, !.browsing = FALSE])
      BY <2>1, LineReset
    <2> QED BY <2>1, <2>2 DEF Enter
  <1> DEFINE Holds(t) == Term(t) /\ Fresh(t) /\ InColumn(t) /\ (~strayed => AtEnd(t))
  <1>2. ASSUME NEW t, NEW r, Holds(t), Continues(t, r) PROVE Holds(r)
    BY <1>2 DEF Continues
  <1>3. PICK l : l = NewLine(con) /\ Holds(l) /\ l.spin = con.spin
    BY <1>0, NewLineTerm DEF Continues
  <1>4. PICK r : /\ r = l \/ \E o \in CommandOutput(l) : r = UpdatePrompt(o)
                 /\ Show(IF r.spin THEN r ELSE ShowEnhancedPrompt([r EXCEPT !.cx = 0, !.shown[r.cy] = {}]))
    BY <1>3 DEF Enter
  <1>5. ~l.spin
    BY <1>3, <1>4 DEF Show, Proceed
  <1>6. Holds(r)
    <2>1. ASSUME NEW o \in CommandOutput(l) PROVE Holds(o)
      <3>1. CASE o = l
        BY <1>3, <3>1
      <3>2. CASE o = PutsLine(l)
        BY <1>2, <1>3, <3>2, PutsLineTerm
      <3>3. CASE o = Clear(l)
        BY <1>3, <1>5, <3>3, ClearTerm
      <3> QED BY <3>1, <3>2, <3>3 DEF CommandOutput
    <2>2. ASSUME NEW o \in CommandOutput(l), r = UpdatePrompt(o) PROVE Holds(r)
      BY <1>2, <2>1, <2>2, UpdatePromptTerm
    <2> QED BY <1>3, <1>4, <2>2
  <1>7. CASE r.spin
    <2>1. ConState(r, line', strayed')
      BY <1>0, <1>1, <1>6 DEF ConState
    <2> QED BY <1>4, <1>7, <2>1, Shown
  <1>8. CASE ~r.spin
    <2> DEFINE shown == [r.shown EXCEPT ![r.cy] = {}]
               x == [r EXCEPT !.cx = 0, !.shown = shown]
    <2>0. TermTyped(r) /\ Placed(r) /\ r \in TermRec /\ r.cy \in Screen /\ r.shown \in [Screen -> SUBSET Columns]
      BY <1>6, TermFields DEF Term
    <2>1. shown \in [Screen -> SUBSET Columns] /\ 0 \in Nat
          /\ \A z \in Screen : shown[z] = IF z = r.cy THEN {} ELSE r.shown[z]
      BY <2>0
    <2>2. Show(ShowEnhancedPrompt(x))
      BY <1>4, <1>8
    <2> HIDE DEF shown
    <2>3. x \in TermRec /\ x.b = r.b /\ x.view = r.view /\ x.cy = r.cy /\ x.spin = r.spin /\ x.cx = 0
          /\ x.shown = shown /\ x.dirty = r.dirty /\ x.redraw = r.redraw /\ x.raced = r.raced
      BY <2>0, <2>1 DEF TermRec
    <2> HIDE DEF x
    <2>4. TermTyped(x) /\ Placed(x) /\ (AtEnd(r) => AtEnd(x)) /\ \A z : Content(x, z) = Content(r, z)
      BY <2>0, <2>3, SameTerminal
    <2>5. Nearly(x)
      <3>1. Fresh(r)
        BY <1>6
      <3> QED BY <2>1, <2>3, <2>4, <3>1 DEF Fresh, Nearly, RowsCurrent
    <2>6. Blank(x) /\ InColumn(x) /\ Term(x)
      <3>1. x.shown[x.cy] = {}
        BY <2>0, <2>1, <2>3
      <3> QED BY <1>8, <2>3, <2>4, <2>5, <3>1, ConConstants DEF Blank, InColumn, Term
    <2>7. PICK q : q = ShowEnhancedPrompt(x) /\ Continues(x, q) /\ Fresh(q)
      BY <2>6, PutsTerm, ConConstants DEF ShowEnhancedPrompt
    <2>8. ConState(q, line', strayed')
      BY <1>0, <1>1, <1>6, <2>4, <2>6, <2>7 DEF ConState, Continues
    <2> QED BY <2>2, <2>7, <2>8, Shown
  <1> QED BY <1>7, <1>8

\* Every step keeps the invariant.
LEMMA ConsoleStep == ConsoleInv /\ [ConsoleNext]_ConsoleVars => ConsoleInv'
  <1>1. ConsoleInv /\ UNCHANGED ConsoleVars => ConsoleInv'
    BY ConsolePrime DEF ConsoleVars, ConsoleInv
  <1> QED BY <1>1, WriteTextStep, BlinkStep, TaskPrintsStep, NextRowStep, DrawLineStep, EditorWritesStep, BackspaceStep, EscapeStep, TypeStep,
             EditKeyStep, ScrollKeyStep, EnterStep DEF ConsoleNext

\* The invariant gives the property and the type invariant.
LEMMA ConsoleImplies == ConsoleInv => ConsoleSound /\ ConsoleTypeOK
  <1> SUFFICES ASSUME ConsoleInv PROVE ConsoleSound /\ ConsoleTypeOK
    OBVIOUS
  <1>0. Term(con) /\ TermTyped(con) /\ Fresh(con) /\ InColumn(con) /\ LineOK(line) /\ strayed \in BOOLEAN
        /\ (~strayed => AtEnd(con)) /\ paint \in [Painters -> PaintRec]
    BY DEF ConsoleInv, ConState, Term, PaintOK
  <1>1. con.b.lines = RingLines /\ con.b \in BufRec(RingLines) /\ con.cy \in Screen /\ con.cx \in Nat /\ con.view \in Nat
        /\ con.dirty \in SUBSET Screen /\ con.shown \in [Screen -> SUBSET Columns] /\ Ring(RingLines, con.b)
        /\ con.raced \in SUBSET Screen
    BY <1>0, TermFields
  <1>2. RingOrder
    BY <1>1 DEF RingOrder, Ring, LineInOrder
  <1>3. ScreenCurrent
    BY <1>0 DEF ScreenCurrent, Fresh, RowsCurrent
  <1>4. OutputAtEnd
    BY <1>0, <1>1 DEF OutputAtEnd, TermTyped, AtEnd
  <1>5. con.b.head \in 0..(con.b.lines - 1) /\ con.b.tail \in 0..(con.b.lines - 1) /\ con.b.count \in 0..con.b.lines
    BY <1>1 DEF BufRec
  <1>6. line.pos <= line.len /\ line.len \in 0..InputMax /\ line.current \in 0..line.count
        /\ line.count \in 0..COMMAND_HISTORY_SIZE
    BY <1>0, LineFields, ConConstants
  <1>7. ConsoleTypeOK
    BY <1>0, <1>1, <1>5, <1>6 DEF ConsoleTypeOK, InColumn, PaintRec
  <1> QED BY <1>2, <1>3, <1>4, <1>7 DEF ConsoleSound

\* Theorem: for a screen and a ring of any size, and any prompts, the ring
\* keeps the newest lines in order, a row that is not marked shows its line
\* until the ring wraps, however many tasks paint at once, unless its painting
\* was broken into, and output goes to the last line until the user
\* scrolls, so that the loop for the cursor's line ends while the ring has
\* room (terminal_putchar, terminal_draw, circular_buffer_add_line).
THEOREM ConsoleCorrect == ConsoleSpec => []ConsoleSound
  BY InitConsole, ConsoleStep, ConsoleImplies, PTL DEF ConsoleSpec

\* Theorem: the cursor stays on the screen or on the input line, and the line
\* and the history within their arrays (terminal_handle_key).
THEOREM ConsoleTypeCorrect == ConsoleSpec => []ConsoleTypeOK
  BY InitConsole, ConsoleStep, ConsoleImplies, PTL DEF ConsoleSpec

-----------------------------------------------------------------------------
(* The text editor. *)

Lengths == 0..LineMax
Modes == {"normal", "insert", "command", "search", "help"}
EdRec == [text : Seq(Lengths), cx : Lengths, cy : Nat, vy : Nat, modified : BOOLEAN, mode : Modes,
          clip : Lengths, term : Nat, running : BOOLEAN, redraw : BOOLEAN, dirty : SUBSET Rows,
          full : BOOLEAN, shown : [Rows -> Int], last : Modes \cup {"none"}, stale : SUBSET Rows]

\* The cursor is on a line, and the window begins where one may be.
EdTyped(e) ==
    /\ e \in EdRec
    /\ Len(e.text) \in 1..EDITOR_MAX_LINES
    /\ e.cy < Len(e.text)
    /\ e.vy <= EDITOR_MAX_LINES

\* Every row shows its line, is marked or is known to be stale.
Painted(e) ==
    e.full \/ \A y \in Rows :
                 e.shown[y] = RowOf(e, y) \/ (y \in e.dirty /\ RowOf(e, y) >= 0) \/ y \in e.stale

\* A text that is not marked modified is the one it was.
Kept(e, r) == ~r.modified => r.text = e.text /\ ~e.modified

Follows(e, r) == EdTyped(r) /\ (Painted(e) => Painted(r)) /\ Kept(e, r)

\* The constants as numbers.
LEMMA EdConstants ==
    /\ LineMax \in Nat /\ LineMax > 0 /\ EDITOR_MAX_LINES \in Nat /\ EDITOR_MAX_LINES > 0
    /\ EDITOR_TAB_SIZE \in Nat /\ ViewHeight \in Nat /\ ViewHeight > 0
    /\ Rows \subseteq Nat
  BY EditorAssumption DEF Rows

\* The same window on the same text, with no mark removed.
SameView(e, x) ==
    /\ x.text = e.text /\ x.vy = e.vy /\ x.shown = e.shown /\ x.stale = e.stale
    /\ (e.full => x.full) /\ e.dirty \subseteq x.dirty

\* ... is drawn as well as before.
LEMMA SamePainted ==
    ASSUME NEW e, NEW x, SameView(e, x), Painted(e)
    PROVE  Painted(x)
  BY DEF SameView, Painted, RowOf, LineCount

\* editor_scroll_if_needed keeps the types, and draws everything when it moves.
LEMMA ScrolledLemma ==
    ASSUME NEW e, EdTyped(e)
    PROVE  /\ EdTyped(Scrolled(e)) /\ (Painted(e) => Painted(Scrolled(e)))
           /\ Scrolled(e).text = e.text /\ Scrolled(e).modified = e.modified
           /\ Scrolled(e).cx = e.cx /\ Scrolled(e).cy = e.cy
  <1> DEFINE vy == IF e.cy < e.vy THEN e.cy
                   ELSE IF e.cy >= e.vy + ViewHeight THEN e.cy - ViewHeight + 1 ELSE e.vy
             r == [e EXCEPT !.vy = vy, !.full = TRUE, !.dirty = Rows]
  <1>1. e \in EdRec /\ e.cy \in Nat /\ e.vy \in Nat /\ Len(e.text) \in 1..EDITOR_MAX_LINES
        /\ e.cy < Len(e.text) /\ e.vy <= EDITOR_MAX_LINES
    BY DEF EdTyped, EdRec
  <1>2. vy \in Nat /\ vy <= EDITOR_MAX_LINES
    BY <1>1, EdConstants
  <1>3. Scrolled(e) = e \/ Scrolled(e) = r
    BY DEF Scrolled
  <1> HIDE DEF vy
  <1>4. CASE Scrolled(e) = e
    BY <1>4
  <1>5. CASE Scrolled(e) = r
    <2>1. r \in EdRec /\ r.text = e.text /\ r.modified = e.modified /\ r.cx = e.cx /\ r.cy = e.cy
          /\ r.vy = vy /\ r.full
      BY <1>1, <1>2 DEF EdRec
    <2> HIDE DEF r
    <2> QED BY <1>1, <1>2, <1>5, <2>1 DEF EdTyped, Painted
  <1> QED BY <1>3, <1>4, <1>5

\* A full redraw draws whatever there is.
LEMMA AllMarkedLemma ==
    ASSUME NEW e, EdTyped(e)
    PROVE  /\ EdTyped(AllMarked(e)) /\ Painted(AllMarked(e))
           /\ AllMarked(e).text = e.text /\ AllMarked(e).modified = e.modified
  <1> DEFINE r == [e EXCEPT !.full = TRUE, !.dirty = Rows]
  <1>1. e \in EdRec
    BY DEF EdTyped
  <1>2. r \in EdRec /\ r.text = e.text /\ r.modified = e.modified /\ r.cy = e.cy /\ r.vy = e.vy /\ r.full
    BY <1>1 DEF EdRec
  <1>3. AllMarked(e) = r
    BY DEF AllMarked
  <1> HIDE DEF r
  <1> QED BY <1>2, <1>3 DEF EdTyped, Painted

\* editor_mark_line_dirty adds a mark, when the line is in the window.
LEMMA MarkedLemma ==
    ASSUME NEW e, EdTyped(e), NEW n
    PROVE  /\ EdTyped(Marked(e, n)) /\ SameView(e, Marked(e, n))
           /\ Marked(e, n).modified = e.modified
           /\ n - e.vy \in Rows => n - e.vy \in Marked(e, n).dirty
  <1> DEFINE r == [e EXCEPT !.dirty = @ \cup {n - e.vy}]
  <1>1. e \in EdRec
    BY DEF EdTyped
  <1>2. CASE n - e.vy \in Rows
    <2> DEFINE d == n - e.vy
               c == e.dirty \cup {d}
    <2>0. d \in Rows /\ c \in SUBSET Rows
      BY <1>1, <1>2 DEF EdRec
    <2>1. Marked(e, n) = [e EXCEPT !.dirty = c]
      BY <1>2 DEF Marked
    <2> DEFINE q == [e EXCEPT !.dirty = c]
    <2> HIDE DEF d
    <2>2. d \in c /\ e.dirty \subseteq c
      OBVIOUS
    <2> HIDE DEF c
    <2>3. q \in EdRec /\ q.text = e.text /\ q.modified = e.modified /\ q.cy = e.cy /\ q.vy = e.vy
          /\ q.dirty = c /\ q.full = e.full /\ q.shown = e.shown /\ q.stale = e.stale
      BY <1>1, <2>0 DEF EdRec
    <2> HIDE DEF q
    <2>4. EdTyped(q) /\ SameView(e, q)
      BY <2>2, <2>3 DEF EdTyped, SameView
    <2> QED BY <2>1, <2>2, <2>3, <2>4 DEF q, d
  <1>3. CASE n - e.vy \notin Rows
    BY <1>3 DEF Marked, SameView
  <1> QED BY <1>2, <1>3

\* A change of one line is drawn once that line is marked.
LEMMA LineEdited ==
    ASSUME NEW e, EdTyped(e), NEW x, EdTyped(x), x.vy = e.vy, x.shown = e.shown, x.stale = e.stale, x.full = e.full,
           x.dirty = e.dirty, Len(x.text) = Len(e.text),
           \A i \in 1..Len(e.text) : i # e.cy + 1 => x.text[i] = e.text[i],
           Painted(e)
    PROVE  Painted(Marked(x, e.cy))
  <1> DEFINE r == Marked(x, e.cy)
  <1>0. e.cy \in Nat /\ e.vy \in Nat /\ Len(e.text) \in Nat /\ x.text \in Seq(Lengths)
    BY EdConstants DEF EdTyped, EdRec
  <1>1. r.text = x.text /\ r.vy = e.vy /\ r.shown = e.shown /\ r.stale = e.stale /\ (e.full => r.full) /\ e.dirty \subseteq r.dirty
        /\ (e.cy - e.vy \in Rows => e.cy - e.vy \in r.dirty)
    BY MarkedLemma DEF SameView
  <1> HIDE DEF r
  <1>2. CASE e.full
    BY <1>1, <1>2 DEF Painted, r
  <1>3. CASE ~e.full
    <2>1. ASSUME NEW y \in Rows
          PROVE  r.shown[y] = RowOf(r, y) \/ (y \in r.dirty /\ RowOf(r, y) >= 0) \/ y \in r.stale
      <3>0. y \in Nat /\ e.vy + y + 1 \in Nat
        BY <1>0, EdConstants
      <3>1. e.shown[y] = RowOf(e, y) \/ (y \in e.dirty /\ RowOf(e, y) >= 0) \/ y \in e.stale
        BY <1>3 DEF Painted
      <3>2. CASE e.vy + y = e.cy
        <4>1. y = e.cy - e.vy /\ y \in r.dirty
          BY <1>0, <1>1, <3>0, <3>2
        <4>2. e.cy + 1 \in 1..Len(x.text)
          BY <1>0 DEF EdTyped
        <4>3. x.text[e.cy + 1] \in Lengths
          BY <1>0, <4>2, ElementOfSeq
        <4>4. RowOf(r, y) = x.text[e.cy + 1]
          BY <1>1, <3>2, <4>2, <1>0 DEF RowOf, LineCount
        <4> QED BY <4>1, <4>3, <4>4, EdConstants DEF Lengths
      <3>3. CASE e.vy + y # e.cy
        <4>1. RowOf(r, y) = RowOf(e, y)
          <5>1. CASE e.vy + y < Len(e.text)
            <6>0. PICK v \in Nat, c \in Nat, l \in Nat : v = e.vy /\ c = e.cy /\ l = Len(e.text)
              BY <1>0
            <6>1. e.vy + y + 1 \in 1..Len(e.text) /\ e.vy + y + 1 # e.cy + 1
              <7>1. v + y < l /\ v + y # c
                BY <3>3, <5>1, <6>0
              <7>2. v + y + 1 \in 1..l /\ v + y + 1 # c + 1
                BY <3>0, <7>1
              <7> QED BY <6>0, <7>2
            <6> QED BY <1>1, <5>1, <6>1 DEF RowOf, LineCount
          <5>2. CASE ~(e.vy + y < Len(e.text))
            BY <1>1, <5>2 DEF RowOf, LineCount
          <5> QED BY <5>1, <5>2
        <4> QED BY <1>1, <3>1, <4>1
      <3> QED BY <3>2, <3>3
    <2> QED BY <2>1 DEF Painted, r
  <1> QED BY <1>2, <1>3

\* The line the cursor is on.
LEMMA CursorLine ==
    ASSUME NEW e, EdTyped(e)
    PROVE  /\ e \in EdRec /\ e.text \in Seq(Lengths) /\ e.cy \in Nat /\ e.vy \in Nat /\ e.cx \in Nat /\ e.cx <= LineMax
           /\ Len(e.text) \in Nat /\ e.cy + 1 \in 1..Len(e.text)
           /\ LineLen(e) = e.text[e.cy + 1] /\ LineLen(e) \in Nat /\ LineLen(e) <= LineMax
           /\ LineCount(e) = Len(e.text)
  <1>1. e \in EdRec /\ e.text \in Seq(Lengths) /\ e.cy \in Nat /\ e.vy \in Nat /\ e.cx \in Lengths
    BY DEF EdTyped, EdRec
  <1>2. Len(e.text) \in Nat /\ e.cy + 1 \in 1..Len(e.text)
    BY <1>1, EdConstants DEF EdTyped
  <1>3. e.text[e.cy + 1] \in Lengths
    BY <1>1, <1>2, ElementOfSeq
  <1> QED BY <1>1, <1>2, <1>3, EdConstants DEF LineLen, LineCount, Lengths

\* One line of a text is given another length.
LEMMA SetLine ==
    ASSUME NEW text \in Seq(Lengths), NEW i \in 1..Len(text), NEW v \in Lengths
    PROVE  /\ [text EXCEPT ![i] = v] \in Seq(Lengths)
           /\ Len([text EXCEPT ![i] = v]) = Len(text)
           /\ [text EXCEPT ![i] = v][i] = v
           /\ \A k \in 1..Len(text) : k # i => [text EXCEPT ![i] = v][k] = text[k]
  <1>1. DOMAIN text = 1..Len(text) /\ Len(text) \in Nat
    BY LenProperties
  <1>2. [text EXCEPT ![i] = v] \in Seq(Lengths) /\ Len([text EXCEPT ![i] = v]) = Len(text)
    BY <1>1, ExceptSeq
  <1> QED BY <1>1, <1>2

\* An edit within the cursor's line, which is marked.
LEMMA LineFollows ==
    ASSUME NEW e, EdTyped(e), NEW v \in Lengths, NEW cx \in Lengths
    PROVE  Follows(e, Marked([e EXCEPT !.text = [e.text EXCEPT ![e.cy + 1] = v], !.modified = TRUE,
                                       !.cx = cx], e.cy))
  <1> DEFINE t == [e.text EXCEPT ![e.cy + 1] = v]
             x == [e EXCEPT !.text = t, !.modified = TRUE, !.cx = cx]
  <1>1. t \in Seq(Lengths) /\ Len(t) = Len(e.text)
        /\ \A k \in 1..Len(e.text) : k # e.cy + 1 => t[k] = e.text[k]
    BY CursorLine, SetLine
  <1>2. e \in EdRec
    BY CursorLine
  <1> HIDE DEF t
  <1>3. x \in EdRec /\ x.text = t /\ x.cy = e.cy /\ x.vy = e.vy /\ x.shown = e.shown /\ x.stale = e.stale /\ x.full = e.full
        /\ x.dirty = e.dirty /\ x.modified = TRUE
    BY <1>1, <1>2 DEF EdRec
  <1> HIDE DEF x
  <1>4. EdTyped(x)
    BY <1>1, <1>3 DEF EdTyped
  <1>5. Painted(e) => Painted(Marked(x, e.cy))
    BY <1>1, <1>3, <1>4, LineEdited
  <1>6. EdTyped(Marked(x, e.cy)) /\ Marked(x, e.cy).modified = TRUE
    BY <1>3, <1>4, MarkedLemma
  <1>7. Follows(e, Marked(x, e.cy))
    BY <1>5, <1>6 DEF Follows, Kept
  <1> QED BY <1>7 DEF x, t

\* A step that changes only the cursor's column.
LEMMA ColumnFollows ==
    ASSUME NEW e, EdTyped(e), NEW cx \in Lengths
    PROVE  Follows(e, [e EXCEPT !.cx = cx]) /\ SameView(e, [e EXCEPT !.cx = cx])
  <1> DEFINE x == [e EXCEPT !.cx = cx]
  <1>1. e \in EdRec
    BY CursorLine
  <1>2. x \in EdRec /\ x.text = e.text /\ x.cy = e.cy /\ x.vy = e.vy /\ x.shown = e.shown /\ x.stale = e.stale /\ x.full = e.full
        /\ x.dirty = e.dirty /\ x.modified = e.modified
    BY <1>1 DEF EdRec
  <1> HIDE DEF x
  <1>3. SameView(e, x) /\ EdTyped(x)
    BY <1>2 DEF SameView, EdTyped
  <1>4. Follows(e, x)
    BY <1>2, <1>3, SamePainted DEF Follows, Kept
  <1> QED BY <1>3, <1>4 DEF x

\* Nothing is done.
LEMMA SelfFollows == ASSUME NEW e, EdTyped(e) PROVE Follows(e, e)
  BY DEF Follows, Kept

\* Several operations of one key.
LEMMA FollowsTransitive ==
    ASSUME NEW e, NEW x, NEW r, Follows(e, x), Follows(x, r)
    PROVE  Follows(e, r)
  BY DEF Follows, Kept

\* editor_insert_char.
LEMMA InsertCharFollows == ASSUME NEW e, EdTyped(e) PROVE Follows(e, InsertChar(e))
  <1>1. CASE LineLen(e) >= LineMax
    BY <1>1, SelfFollows DEF InsertChar
  <1>2. CASE ~(LineLen(e) >= LineMax)
    <2> DEFINE c == (IF e.cx > LineLen(e) THEN LineLen(e) ELSE e.cx) + 1
               v == LineLen(e) + 1
    <2>1. c \in Lengths /\ v \in Lengths
      BY <1>2, CursorLine, EdConstants DEF Lengths
    <2>2. InsertChar(e) = Marked([e EXCEPT !.text = [e.text EXCEPT ![e.cy + 1] = v], !.modified = TRUE,
                                           !.cx = c], e.cy)
      BY <1>2 DEF InsertChar, LineLen
    <2> QED BY <2>1, <2>2, LineFollows
  <1> QED BY <1>1, <1>2

IsTab(e, m, g) == g = [k \in 0..m |-> IF k = 0 THEN e ELSE InsertChar(g[k - 1])]

\* Each blank of a tab is typed after the one before.
LEMMA TabExists ==
    ASSUME NEW e, NEW t \in Nat
    PROVE  \E g : IsTab(e, t, g)
  <1> DEFINE Step(x) == InsertChar(x)
             Bad == {m \in Nat : ~\E g : IsTab(e, m, g)}
  <1>1. Bad = {}
    <2> SUFFICES ASSUME Bad # {} PROVE FALSE
      OBVIOUS
    <2>1. PICK m \in Bad : \A k \in Bad : m <= k
      BY LeastNat
    <2>2. IsTab(e, 0, [k \in 0..0 |-> e])
      BY DEF IsTab
    <2>3. m # 0
      BY <2>1, <2>2
    <2>4. m - 1 \in Nat /\ m - 1 \notin Bad /\ m \in Nat
      <3>1. m \in Nat
        OBVIOUS
      <3> HIDE DEF Bad
      <3> QED BY <3>1, <2>1, <2>3
    <2>5. PICK g : IsTab(e, m - 1, g)
      BY <2>4
    <2> HIDE DEF Step
    <2> DEFINE h == [k \in 0..m |-> IF k = m THEN Step(g[m - 1]) ELSE g[k]]
    <2>6. \A k \in 0..m - 1 : g[k] = IF k = 0 THEN e ELSE Step(g[k - 1])
      BY <2>5, Zenon DEF IsTab, Step
    <2>7. ASSUME NEW k \in 0..m PROVE h[k] = IF k = 0 THEN e ELSE Step(h[k - 1])
      <3>1. CASE k = m
        <4>1. h[k] = Step(g[m - 1])
          BY <3>1, <2>4
        <4>2. h[k - 1] = g[m - 1]
          BY <3>1, <2>4, <2>3
        <4> QED BY <4>1, <4>2, <3>1, <2>3
      <3>2. CASE k # m
        <4>1. k \in 0..m - 1 /\ h[k] = g[k]
          BY <3>2, <2>4
        <4>2. k # 0 => h[k - 1] = g[k - 1]
          BY <4>1, <2>4
        <4> QED BY <4>1, <4>2, <2>6
      <3> QED BY <3>1, <3>2
    <2>8. h = [k \in 0..m |-> h[k]]
      OBVIOUS
    <2>9. IsTab(e, m, h)
      <3> HIDE DEF h
      <3> QED BY <2>7, <2>8, Zenon DEF IsTab, Step
    <2> QED BY <2>1, <2>9
  <1> QED BY <1>1

\* editor_insert_tab.
LEMMA InsertTabFollows == ASSUME NEW e, EdTyped(e) PROVE Follows(e, InsertTab(e))
  <1> DEFINE T == EDITOR_TAB_SIZE
             g == CHOOSE f : IsTab(e, T, f)
  <1>0. T \in Nat
    BY EdConstants
  <1>1. IsTab(e, T, g)
    BY <1>0, TabExists
  <1>2. InsertTab(e) = g[T]
    BY DEF InsertTab, IsTab
  <1> HIDE DEF g
  <1>3. \A k \in 0..T : g[k] = IF k = 0 THEN e ELSE InsertChar(g[k - 1])
    BY <1>1, Zenon DEF IsTab
  <1> DEFINE Bad == {k \in 0..T : ~Follows(e, g[k])}
  <1>4. Bad = {}
    <2> SUFFICES ASSUME Bad # {} PROVE FALSE
      OBVIOUS
    <2>1. Bad \in SUBSET Nat
      BY <1>0
    <2>2. PICK m \in Bad : \A k \in Bad : m <= k
      BY <2>1, LeastNat
    <2>3. m \in 0..T /\ ~Follows(e, g[m])
      BY <2>2
    <2>4. m # 0
      BY <1>0, <1>3, <2>3, SelfFollows
    <2>5. m - 1 \in 0..T /\ m - 1 \notin Bad
      <3> HIDE DEF Bad
      <3> QED BY <1>0, <2>2, <2>3, <2>4
    <2>6. Follows(e, g[m - 1])
      BY <2>5
    <2>7. g[m] = InsertChar(g[m - 1])
      BY <1>3, <2>3, <2>4
    <2>8. Follows(g[m - 1], g[m])
      BY <2>6, <2>7, InsertCharFollows DEF Follows
    <2> QED BY <2>3, <2>6, <2>8, FollowsTransitive
  <1> QED BY <1>0, <1>2, <1>4

\* A new text with a cursor in it, all of it drawn.
LEMMA WholeFollows ==
    ASSUME NEW e, EdTyped(e), NEW x, x \in EdRec, x.modified = TRUE, Len(x.text) \in 1..EDITOR_MAX_LINES,
           x.cy < Len(x.text), x.vy = e.vy
    PROVE  EdTyped(x) /\ Follows(e, AllMarked(x)) /\ Follows(e, AllMarked(Scrolled(x)))
  <1>1. EdTyped(x)
    BY DEF EdTyped
  <1>2. EdTyped(Scrolled(x)) /\ Scrolled(x).modified = TRUE
    BY <1>1, ScrolledLemma
  <1> QED BY <1>1, <1>2, AllMarkedLemma DEF Follows, Kept

\* Two lines become one.
LEMMA JoinedLemma ==
    ASSUME NEW text \in Seq(Lengths), NEW n \in Nat, n + 2 <= Len(text), MayJoin(text, n)
    PROVE  Joined(text, n) \in Seq(Lengths) /\ Len(Joined(text, n)) = Len(text) - 1 /\ Len(text) \in Nat
  <1> DEFINE m == Len(text) - 1
             F(i) == IF i = n + 1 THEN text[i] + text[i + 1] ELSE IF i > n + 1 THEN text[i + 1] ELSE text[i]
  <1>0. Len(text) \in Nat /\ m \in Nat
    BY LenProperties
  <1>1. \A i \in 1..Len(text) : text[i] \in Lengths
    BY ElementOfSeq
  <1>2. text[n + 1] \in Nat /\ text[n + 2] \in Nat /\ text[n + 1] + text[n + 2] <= LineMax
    BY <1>0, <1>1, EdConstants DEF MayJoin, Lengths
  <1>3. ASSUME NEW i \in 1..m PROVE F(i) \in Lengths
    <2>1. i \in 1..Len(text) /\ i + 1 \in 1..Len(text)
      BY <1>0
    <2>2. CASE i = n + 1
      <3>1. i + 1 = n + 2
        BY <2>2
      <3> QED BY <1>2, <2>2, <3>1, EdConstants DEF Lengths
    <2>3. CASE i # n + 1
      BY <1>1, <2>1, <2>3
    <2> QED BY <2>2, <2>3
  <1>4. Joined(text, n) = [i \in 1..m |-> F(i)]
    BY DEF Joined
  <1> HIDE DEF F, m
  <1>5. [i \in 1..m |-> F(i)] \in Seq(Lengths) /\ Len([i \in 1..m |-> F(i)]) = m
    <2>1. [i \in 1..m |-> F(i)] \in Seq(Lengths)
      BY <1>0, <1>3, IsASeq
    <2>2. DOMAIN [i \in 1..m |-> F(i)] = 1..m
      OBVIOUS
    <2> QED BY <1>0, <2>1, <2>2, LenProperties
  <1> QED BY <1>0, <1>4, <1>5 DEF m

\* editor_backspace_char.
LEMMA BackspaceFollows == ASSUME NEW e, EdTyped(e) PROVE Follows(e, BackspaceChar(e))
  <1>0. e \in EdRec /\ e.text \in Seq(Lengths) /\ Len(e.text) \in 1..EDITOR_MAX_LINES /\ e.cy \in Nat
        /\ e.cx \in Nat /\ e.cx <= LineMax /\ e.cy + 1 \in 1..Len(e.text)
        /\ LineLen(e) \in Nat /\ LineLen(e) <= LineMax /\ LineLen(e) = e.text[e.cy + 1]
    BY CursorLine DEF EdTyped
  <1>1. CASE e.cx = 0 /\ e.cy > 0 /\ MayJoin(e.text, e.cy - 1)
    <2> DEFINE t == Joined(e.text, e.cy - 1)
               x == [e EXCEPT !.text = t, !.cy = e.cy - 1, !.cx = e.text[e.cy], !.modified = TRUE]
    <2>1. e.cy - 1 \in Nat /\ e.cy \in 1..Len(e.text) /\ e.cy - 1 + 2 <= Len(e.text)
      BY <1>0, <1>1, EdConstants
    <2>2. t \in Seq(Lengths) /\ Len(t) = Len(e.text) - 1
      BY <1>0, <1>1, <2>1, JoinedLemma
    <2>3. e.text[e.cy] \in Lengths
      BY <1>0, <2>1, ElementOfSeq
    <2>4. BackspaceChar(e) = AllMarked(Scrolled(x))
      BY <1>1 DEF BackspaceChar
    <2> HIDE DEF t
    <2>5. x \in EdRec /\ x.modified = TRUE /\ x.text = t /\ x.cy = e.cy - 1 /\ x.vy = e.vy
      BY <1>0, <2>1, <2>2, <2>3 DEF EdRec
    <2> HIDE DEF x
    <2>6. Len(x.text) \in 1..EDITOR_MAX_LINES /\ x.cy < Len(x.text)
      BY <1>0, <2>1, <2>2, <2>5, EdConstants
    <2> QED BY <2>4, <2>5, <2>6, WholeFollows
  <1>2. CASE e.cx = 0 /\ ~(e.cy > 0 /\ MayJoin(e.text, e.cy - 1))
    BY <1>2, SelfFollows DEF BackspaceChar
  <1>3. CASE e.cx # 0
    <2> DEFINE c == e.cx - 1
               b == [e EXCEPT !.cx = c]
    <2>1. c \in Lengths
      BY <1>0, <1>3, EdConstants DEF Lengths
    <2>2. b.cx = c
      BY <1>0 DEF EdRec
    <2>3. CASE c < LineLen(e)
      <3>1. LineLen(e) - 1 \in Lengths
        <4>1. PICK l \in Nat : l = LineLen(e) /\ l <= LineMax
          BY <1>0
        <4>2. l - 1 \in Lengths
          BY <4>1, <2>1, <2>3, EdConstants DEF Lengths
        <4> QED BY <4>1, <4>2
      <3>2. BackspaceChar(e) = Marked([b EXCEPT !.text[e.cy + 1] = @ - 1, !.modified = TRUE], e.cy)
        BY <1>3, <2>2, <2>3 DEF BackspaceChar
      <3> DEFINE v == LineLen(e) - 1
      <3>3. [b EXCEPT !.text[e.cy + 1] = @ - 1, !.modified = TRUE]
               = [e EXCEPT !.text = [e.text EXCEPT ![e.cy + 1] = v], !.modified = TRUE, !.cx = c]
        BY <1>0 DEF EdRec
      <3> HIDE DEF v, b
      <3>4. BackspaceChar(e) = Marked([e EXCEPT !.text = [e.text EXCEPT ![e.cy + 1] = v], !.modified = TRUE, !.cx = c], e.cy)
        BY <3>2, <3>3
      <3>5. v \in Lengths
        BY <3>1 DEF v
      <3> HIDE DEF c
      <3> QED BY <2>1, <3>4, <3>5, LineFollows
    <2>4. CASE ~(c < LineLen(e))
      <3>1. BackspaceChar(e) = b
        BY <1>3, <2>2, <2>4 DEF BackspaceChar
      <3> QED BY <2>1, <3>1, ColumnFollows
    <2> QED BY <2>3, <2>4
  <1> QED BY <1>1, <1>2, <1>3

\* editor_delete_char.
LEMMA DeleteCharFollows == ASSUME NEW e, EdTyped(e) PROVE Follows(e, DeleteChar(e))
  <1>0. e \in EdRec /\ e.text \in Seq(Lengths) /\ Len(e.text) \in 1..EDITOR_MAX_LINES /\ e.cy \in Nat
        /\ e.cx \in Nat /\ e.cx <= LineMax /\ e.cy + 1 \in 1..Len(e.text)
        /\ LineLen(e) \in Nat /\ LineLen(e) <= LineMax /\ LineLen(e) = e.text[e.cy + 1]
        /\ LineCount(e) = Len(e.text)
    BY CursorLine DEF EdTyped
  <1>1. CASE e.cx >= LineLen(e) /\ e.cy < LineCount(e) - 1 /\ MayJoin(e.text, e.cy)
    <2> DEFINE t == Joined(e.text, e.cy)
               x == [e EXCEPT !.text = t, !.modified = TRUE]
    <2>1. e.cy + 2 <= Len(e.text)
      BY <1>0, <1>1, EdConstants
    <2>2. t \in Seq(Lengths) /\ Len(t) = Len(e.text) - 1
      BY <1>0, <1>1, <2>1, JoinedLemma
    <2>4. DeleteChar(e) = AllMarked(x)
      BY <1>1 DEF DeleteChar
    <2> HIDE DEF t
    <2>5. x \in EdRec /\ x.modified = TRUE /\ x.text = t /\ x.cy = e.cy /\ x.vy = e.vy
      BY <1>0, <2>1, <2>2 DEF EdRec
    <2> HIDE DEF x
    <2>6. Len(x.text) \in 1..EDITOR_MAX_LINES /\ x.cy < Len(x.text)
      BY <1>0, <2>1, <2>2, <2>5, EdConstants
    <2> QED BY <2>4, <2>5, <2>6, WholeFollows
  <1>2. CASE e.cx >= LineLen(e) /\ ~(e.cy < LineCount(e) - 1 /\ MayJoin(e.text, e.cy))
    BY <1>2, SelfFollows DEF DeleteChar
  <1>3. CASE ~(e.cx >= LineLen(e))
    <2> DEFINE v == LineLen(e) - 1
               c == e.cx
    <2>1. v \in Lengths /\ c \in Lengths
      <3>1. PICK l \in Nat : l = LineLen(e) /\ l <= LineMax
        BY <1>0
      <3>2. PICK k \in Nat : k = e.cx /\ k <= LineMax
        BY <1>0
      <3>3. l - 1 \in Lengths /\ k \in Lengths
        <4>1. k < l
          BY <3>1, <3>2, <1>3
        <4> QED BY <3>1, <3>2, <4>1, EdConstants DEF Lengths
      <3> QED BY <3>1, <3>2, <3>3
    <2>2. DeleteChar(e) = Marked([e EXCEPT !.text[e.cy + 1] = @ - 1, !.modified = TRUE], e.cy)
      BY <1>3 DEF DeleteChar
    <2>3. [e EXCEPT !.text[e.cy + 1] = @ - 1, !.modified = TRUE]
             = [e EXCEPT !.text = [e.text EXCEPT ![e.cy + 1] = v], !.modified = TRUE, !.cx = c]
      BY <1>0 DEF EdRec
    <2> HIDE DEF v, c
    <2> QED BY <2>1, <2>2, <2>3, LineFollows
  <1> QED BY <1>1, <1>2, <1>3

\* editor_insert_newline.
LEMMA NewlineFollows == ASSUME NEW e, EdTyped(e) PROVE Follows(e, InsertNewline(e))
  <1>0. e \in EdRec /\ e.text \in Seq(Lengths) /\ Len(e.text) \in 1..EDITOR_MAX_LINES /\ e.cy \in Nat
        /\ e.cx \in Nat /\ e.cy + 1 \in 1..Len(e.text) /\ LineCount(e) = Len(e.text)
    BY CursorLine DEF EdTyped
  <1>1. PICK l \in Nat : l = LineLen(e) /\ l = e.text[e.cy + 1] /\ l <= LineMax
    BY CursorLine
  <1>2. CASE LineCount(e) >= EDITOR_MAX_LINES
    BY <1>2, SelfFollows DEF InsertNewline
  <1>3. CASE ~(LineCount(e) >= EDITOR_MAX_LINES)
    <2> DEFINE rest == IF e.cx < l THEN l - e.cx ELSE 0
               v == l - rest
               broken == [e.text EXCEPT ![e.cy + 1] = v]
               t == InsertAt(broken, e.cy + 2, rest)
               y == e.cy + 1
               x == [e EXCEPT !.text = t, !.cy = y, !.cx = 0, !.modified = TRUE]
    <2>1. rest \in Lengths /\ v \in Lengths /\ 0 \in Lengths /\ y \in Nat
      <3>1. PICK k \in Nat : k = e.cx
        BY <1>0
      <3>2. l \in Nat /\ l <= LineMax
        BY <1>1
      <3>3. (IF k < l THEN l - k ELSE 0) \in Lengths
        BY <3>2, EdConstants DEF Lengths
      <3>4. l - (IF k < l THEN l - k ELSE 0) \in Lengths
        BY <3>2, EdConstants DEF Lengths
      <3>5. y \in Nat /\ 0 \in Lengths
        BY <1>0, EdConstants DEF Lengths
      <3> QED BY <3>1, <3>3, <3>4, <3>5
    <2>2. InsertNewline(e) = AllMarked(Scrolled(x))
      BY <1>1, <1>3 DEF InsertNewline
    <2> HIDE DEF rest, v
    <2>3. broken \in Seq(Lengths) /\ Len(broken) = Len(e.text)
      BY <1>0, <2>1, SetLine
    <2> HIDE DEF broken
    <2>4. e.cy + 2 \in 2..Len(broken) + 1
      BY <1>0, <2>3, EdConstants
    <2>5. t \in Seq(Lengths) /\ Len(t) = Len(broken) + 1
      BY <2>1, <2>3, <2>4, InsertAtLemma
    <2> HIDE DEF t
    <2>6. x \in EdRec /\ x.modified = TRUE /\ x.text = t /\ x.cy = y /\ x.vy = e.vy
      BY <1>0, <2>1, <2>5 DEF EdRec
    <2> HIDE DEF x
    <2>7. Len(x.text) \in 1..EDITOR_MAX_LINES /\ x.cy < Len(x.text)
      BY <1>0, <1>3, <2>3, <2>5, <2>6, EdConstants
    <2> QED BY <2>2, <2>6, <2>7, WholeFollows
  <1> QED BY <1>2, <1>3

\* editor_delete_line.
LEMMA DeleteLineFollows == ASSUME NEW e, EdTyped(e) PROVE Follows(e, DeleteLine(e))
  <1>0. e \in EdRec /\ e.text \in Seq(Lengths) /\ Len(e.text) \in 1..EDITOR_MAX_LINES /\ e.cy \in Nat
        /\ e.cx \in Nat /\ e.cy + 1 \in 1..Len(e.text) /\ LineCount(e) = Len(e.text)
    BY CursorLine DEF EdTyped
  <1>2. CASE LineCount(e) <= 1
    BY <1>2, SelfFollows DEF DeleteLine
  <1>3. CASE ~(LineCount(e) <= 1)
    <2> DEFINE t == RemoveAt(e.text, e.cy + 1)
               y == IF e.cy >= Len(t) THEN Len(t) - 1 ELSE e.cy
               x == [e EXCEPT !.text = t, !.modified = TRUE, !.cx = 0, !.cy = y]
    <2>1. DeleteLine(e) = AllMarked(Scrolled(x))
      BY <1>3 DEF DeleteLine
    <2>2. t \in Seq(Lengths) /\ Len(t) = Len(e.text) - 1
      BY <1>0, RemoveAtLemma
    <2> HIDE DEF t
    <2>3. y \in Nat /\ y < Len(t) /\ 0 \in Lengths /\ Len(t) \in 1..EDITOR_MAX_LINES
      <3>1. PICK k \in Nat, m \in Nat : k = e.cy /\ m = Len(t)
        BY <1>0, <1>3, <2>2, EdConstants
      <3>2. m >= 1 /\ m <= EDITOR_MAX_LINES
        BY <1>0, <1>3, <2>2, <3>1, EdConstants
      <3>3. (IF k >= m THEN m - 1 ELSE k) \in Nat /\ (IF k >= m THEN m - 1 ELSE k) < m
        BY <3>2
      <3>4. 0 \in Lengths /\ m \in 1..EDITOR_MAX_LINES
        BY <3>2, EdConstants DEF Lengths
      <3> QED BY <3>1, <3>3, <3>4
    <2> HIDE DEF y
    <2>4. x \in EdRec /\ x.modified = TRUE /\ x.text = t /\ x.cy = y /\ x.vy = e.vy
      BY <1>0, <2>2, <2>3 DEF EdRec
    <2> HIDE DEF x
    <2> QED BY <2>1, <2>3, <2>4, WholeFollows
  <1> QED BY <1>2, <1>3

\* A step that moves the cursor to a line and scrolls.
LEMMA CursorFollows ==
    ASSUME NEW e, EdTyped(e), NEW y \in Nat, y < Len(e.text), NEW c \in Lengths
    PROVE  /\ EdTyped([e EXCEPT !.cx = c, !.cy = y])
           /\ Follows(e, Scrolled([e EXCEPT !.cx = c, !.cy = y]))
           /\ Scrolled([e EXCEPT !.cx = c, !.cy = y]) = Scrolled([e EXCEPT !.cy = y, !.cx = c])
  <1> DEFINE x == [e EXCEPT !.cx = c, !.cy = y]
  <1>0. e \in EdRec
    BY CursorLine
  <1>1. x \in EdRec /\ x.text = e.text /\ x.cy = y /\ x.vy = e.vy /\ x.shown = e.shown /\ x.stale = e.stale /\ x.full = e.full
        /\ x.dirty = e.dirty /\ x.modified = e.modified
    BY <1>0 DEF EdRec
  <1>2. x = [e EXCEPT !.cy = y, !.cx = c]
    BY <1>0 DEF EdRec
  <1>3. Scrolled(x) = Scrolled([e EXCEPT !.cy = y, !.cx = c])
    BY <1>2
  <1> HIDE DEF x
  <1>4. EdTyped(x) /\ SameView(e, x)
    BY <1>1 DEF EdTyped, SameView
  <1>5. Painted(e) => Painted(x)
    BY <1>4, SamePainted
  <1>6. Follows(e, Scrolled(x))
    BY <1>1, <1>4, <1>5, ScrolledLemma DEF Follows, Kept
  <1> QED BY <1>3, <1>4, <1>6 DEF x

\* The same, the line written first.
LEMMA PlaceFollows ==
    ASSUME NEW e, EdTyped(e), NEW y \in Nat, y < Len(e.text), NEW c \in Lengths
    PROVE  Follows(e, Scrolled([e EXCEPT !.cy = y, !.cx = c]))
  BY CursorFollows

\* A place within bounds.
LEMMA BoundLemma ==
    ASSUME NEW n \in Int, NEW top \in Nat
    PROVE  Bound(n, top) \in Nat /\ Bound(n, top) <= top
  BY DEF Bound

\* Marks added to a step that follows.
LEMMA MarkFollows ==
    ASSUME NEW e, NEW x, Follows(e, x), NEW n
    PROVE  Follows(e, Marked(x, n))
  <1>1. EdTyped(Marked(x, n)) /\ SameView(x, Marked(x, n)) /\ Marked(x, n).modified = x.modified
    BY MarkedLemma DEF Follows
  <1>2. Painted(x) => Painted(Marked(x, n))
    BY <1>1, SamePainted
  <1> QED BY <1>1, <1>2 DEF Follows, Kept, SameView

\* editor_move_cursor.
LEMMA MoveFollows ==
    ASSUME NEW e, EdTyped(e), NEW n \in Int, NEW y \in Nat, y < Len(e.text)
    PROVE  Follows(e, MoveTo(e, n, y))
  <1> DEFINE c == Bound(n, e.text[y + 1])
             m == Scrolled([e EXCEPT !.cx = c, !.cy = y])
  <1>1. e.text \in Seq(Lengths) /\ Len(e.text) \in Nat /\ y + 1 \in 1..Len(e.text)
    BY CursorLine
  <1>2. e.text[y + 1] \in Lengths
    BY <1>1, ElementOfSeq
  <1>3. c \in Lengths
    <2>1. PICK l \in Nat : l = e.text[y + 1] /\ l <= LineMax
      BY <1>2, EdConstants DEF Lengths
    <2>2. Bound(n, l) \in Nat /\ Bound(n, l) <= l
      BY BoundLemma
    <2> QED BY <2>1, <2>2, EdConstants DEF Lengths
  <1>4. MoveTo(e, n, y) \in {m, Marked(m, y), Marked(Marked(m, e.cy), y)}
    BY DEF MoveTo
  <1> HIDE DEF c
  <1>5. Follows(e, m)
    BY <1>3, CursorFollows
  <1> HIDE DEF m
  <1> QED BY <1>4, <1>5, MarkFollows

\* The keys that move the cursor.
LEMMA MovesFollow == ASSUME NEW e, EdTyped(e), NEW r \in Moves(e) PROVE Follows(e, r)
  <1>0. e.cx \in Nat /\ e.cx <= LineMax /\ e.cy \in Nat /\ e.cy + 1 \in 1..Len(e.text) /\ Len(e.text) \in Nat
        /\ LineLen(e) \in Nat /\ LineLen(e) <= LineMax /\ LineCount(e) = Len(e.text)
    BY CursorLine
  <1> DEFINE top == LineCount(e) - 1
  <1>1. top \in Nat /\ top < Len(e.text) /\ e.cy < Len(e.text)
    BY <1>0
  <1>2. \/ r = MoveTo(e, e.cx - 1, e.cy) \/ r = MoveTo(e, e.cx + 1, e.cy)
        \/ r = MoveTo(e, e.cx, Bound(e.cy - 1, top)) \/ r = MoveTo(e, e.cx, Bound(e.cy + 1, top))
        \/ r = [e EXCEPT !.cx = 0] \/ r = [e EXCEPT !.cx = LineLen(e)]
    BY DEF Moves
  <1> HIDE DEF top
  <1>3. e.cx - 1 \in Int /\ e.cx + 1 \in Int /\ e.cy - 1 \in Int /\ e.cy + 1 \in Int /\ e.cx \in Int
    BY <1>0
  <1>4. \A n \in Int : Bound(n, top) \in Nat /\ Bound(n, top) < Len(e.text)
    <2> SUFFICES ASSUME NEW n \in Int PROVE Bound(n, top) \in Nat /\ Bound(n, top) < Len(e.text)
      OBVIOUS
    <2>1. Bound(n, top) \in Nat /\ Bound(n, top) <= top
      BY <1>1, BoundLemma
    <2> QED BY <1>0, <1>1, <2>1
  <1>5. 0 \in Lengths /\ LineLen(e) \in Lengths
    <2>1. PICK l \in Nat : l = LineLen(e) /\ l <= LineMax
      BY <1>0
    <2> QED BY <2>1, EdConstants DEF Lengths
  <1>6. CASE r = MoveTo(e, e.cx - 1, e.cy) \/ r = MoveTo(e, e.cx + 1, e.cy)
    BY <1>0, <1>1, <1>3, <1>6, MoveFollows
  <1>7. CASE r = MoveTo(e, e.cx, Bound(e.cy - 1, top)) \/ r = MoveTo(e, e.cx, Bound(e.cy + 1, top))
    BY <1>3, <1>4, <1>7, MoveFollows
  <1>8. CASE r = [e EXCEPT !.cx = 0] \/ r = [e EXCEPT !.cx = LineLen(e)]
    BY <1>5, <1>8, ColumnFollows
  <1> QED BY <1>2, <1>6, <1>7, <1>8

\* Page up and page down.
LEMMA PagesFollow == ASSUME NEW e, EdTyped(e), NEW r \in Pages(e) PROVE Follows(e, r)
  <1>0. e.cx \in Nat /\ e.cy \in Nat /\ Len(e.text) \in Nat /\ e.cy + 1 \in 1..Len(e.text)
        /\ LineCount(e) = Len(e.text) /\ e.text \in Seq(Lengths) /\ e \in EdRec
    BY CursorLine
  <1> DEFINE top == LineCount(e) - 1
  <1>1. PICK y \in {Bound(e.cy - ViewHeight, top), Bound(e.cy + ViewHeight, top)} :
           r = Scrolled([e EXCEPT !.cy = y, !.cx = Bound(@, e.text[y + 1])])
    BY DEF Pages
  <1>2. e.cy - ViewHeight \in Int /\ e.cy + ViewHeight \in Int /\ top \in Nat
    BY <1>0, EdConstants
  <1>3. y \in Nat /\ y <= top
    <2> HIDE DEF top
    <2> QED BY <1>2, BoundLemma
  <1>4. y < Len(e.text) /\ y + 1 \in 1..Len(e.text)
    BY <1>0, <1>3
  <1>5. e.text[y + 1] \in Lengths
    BY <1>0, <1>4, ElementOfSeq
  <1> DEFINE c == Bound(e.cx, e.text[y + 1])
  <1>6. c \in Lengths
    <2>1. PICK l \in Nat : l = e.text[y + 1] /\ l <= LineMax
      BY <1>5, EdConstants DEF Lengths
    <2>2. Bound(e.cx, l) \in Nat /\ Bound(e.cx, l) <= l
      <3>1. PICK k \in Int : k = e.cx
        BY <1>0
      <3>2. Bound(k, l) \in Nat /\ Bound(k, l) <= l
        BY BoundLemma
      <3> QED BY <3>1, <3>2
    <2> QED BY <2>1, <2>2, EdConstants DEF Lengths
  <1>7. [e EXCEPT !.cy = y, !.cx = Bound(@, e.text[y + 1])] = [e EXCEPT !.cy = y, !.cx = c]
    BY <1>0 DEF EdRec
  <1> HIDE DEF c
  <1> QED BY <1>1, <1>3, <1>4, <1>6, <1>7, PlaceFollows

\* editor_goto_line.
LEMMA GotoFollows == ASSUME NEW e, EdTyped(e), NEW n \in Nat PROVE Follows(e, GotoLine(e, n))
  <1>0. Len(e.text) \in Nat /\ e.cy + 1 \in 1..Len(e.text) /\ e.cy \in Nat /\ LineCount(e) = Len(e.text)
    BY CursorLine
  <1> DEFINE y == Bound(n - 1, LineCount(e) - 1)
  <1>1. n - 1 \in Int /\ LineCount(e) - 1 \in Nat
    BY <1>0
  <1>2. y \in Nat /\ y <= LineCount(e) - 1
    BY <1>1, BoundLemma
  <1>3. GotoLine(e, n) = Scrolled([e EXCEPT !.cy = y, !.cx = 0])
    BY DEF GotoLine
  <1> HIDE DEF y
  <1>4. y < Len(e.text) /\ 0 \in Lengths
    BY <1>0, <1>2, EdConstants DEF Lengths
  <1> QED BY <1>2, <1>3, <1>4, PlaceFollows

\* editor_search_next.
LEMMA FoundFollows == ASSUME NEW e, EdTyped(e), NEW r \in Found(e) PROVE Follows(e, r)
  <1>0. Len(e.text) \in Nat /\ e.cy \in Nat /\ LineCount(e) = Len(e.text)
    BY CursorLine
  <1>1. CASE r = e
    BY <1>1, SelfFollows
  <1>2. CASE r # e
    <2>1. PICK p \in (e.cy..(LineCount(e) - 1)) \X (0..LineMax) :
             r = Scrolled([e EXCEPT !.cy = p[1], !.cx = p[2]])
      BY <1>2 DEF Found
    <2>2. PICK y \in e.cy..(LineCount(e) - 1), c \in 0..LineMax : y = p[1] /\ c = p[2]
      BY <2>1
    <2>3. r = Scrolled([e EXCEPT !.cy = y, !.cx = c])
      BY <2>1, <2>2
    <2>4. y \in Nat /\ y < Len(e.text) /\ c \in Lengths
      BY <1>0, <2>2 DEF Lengths
    <2> QED BY <2>3, <2>4, PlaceFollows
  <1> QED BY <1>1, <1>2

\* What a key may set besides the text, the window and the marks.
SameText(x, r) ==
    /\ x.text = r.text /\ x.cy = r.cy /\ x.vy = r.vy /\ x.shown = r.shown /\ x.stale = r.stale /\ x.full = r.full
    /\ x.dirty = r.dirty

\* ... keeps the types and what is drawn,
LEMMA AttrTyped ==
    ASSUME NEW x \in EdRec, NEW r, EdTyped(r), SameText(x, r)
    PROVE  EdTyped(x) /\ (Painted(r) => Painted(x))
  <1>1. EdTyped(x)
    BY DEF EdTyped, SameText
  <1>2. SameView(r, x)
    BY DEF SameView, SameText
  <1> QED BY <1>1, <1>2, SamePainted

\* ... and follows when it says the same of the text.
LEMMA AttrFollows ==
    ASSUME NEW e, NEW r, Follows(e, r), NEW x \in EdRec, SameText(x, r), x.modified = r.modified
    PROVE  Follows(e, x)
  BY AttrTyped DEF Follows, Kept, SameText

\* A key that ends in another mode.
LEMMA ModeFollows ==
    ASSUME NEW e, NEW r, Follows(e, r), NEW m \in Modes
    PROVE  Follows(e, [r EXCEPT !.mode = m])
  <1> DEFINE x == [r EXCEPT !.mode = m]
  <1>0. r \in EdRec
    BY DEF Follows, EdTyped
  <1>1. x \in EdRec /\ SameText(x, r) /\ x.modified = r.modified
    BY <1>0 DEF EdRec, SameText
  <1> HIDE DEF x
  <1>2. Follows(e, x)
    BY <1>1, AttrFollows
  <1> QED BY <1>2 DEF x

\* 'O' below the first line is a newline after the line above.
LEMMA OpenAboveFollows ==
    ASSUME NEW e, EdTyped(e)
    PROVE  EdTyped(OpenAbove(e)) /\ (Painted(e) => Painted(OpenAbove(e))) /\ (e.cy # 0 => Follows(e, OpenAbove(e)))
  <1>0. e \in EdRec /\ e.text \in Seq(Lengths) /\ Len(e.text) \in 1..EDITOR_MAX_LINES /\ e.cy \in Nat
        /\ e.cy + 1 \in 1..Len(e.text) /\ LineCount(e) = Len(e.text)
    BY CursorLine DEF EdTyped
  <1>1. CASE LineCount(e) >= EDITOR_MAX_LINES
    BY <1>1, SelfFollows DEF OpenAbove
  <1>2. CASE ~(LineCount(e) >= EDITOR_MAX_LINES) /\ e.cy > 0
    <2> DEFINE y == e.cy - 1
               c == e.text[e.cy]
               x == [e EXCEPT !.cy = y, !.cx = c]
    <2>1. e.cy \in 1..Len(e.text) /\ y \in Nat /\ y < Len(e.text)
      BY <1>0, <1>2, EdConstants
    <2>2. c \in Lengths
      BY <1>0, <2>1, ElementOfSeq
    <2>3. OpenAbove(e) = [InsertNewline(x) EXCEPT !.mode = "insert"]
      BY <1>2 DEF OpenAbove
    <2> HIDE DEF y, c
    <2>4. x \in EdRec /\ x.text = e.text /\ x.cy = y /\ x.vy = e.vy /\ x.shown = e.shown /\ x.stale = e.stale
          /\ x.full = e.full /\ x.dirty = e.dirty /\ x.modified = e.modified
      BY <1>0, <2>1, <2>2 DEF EdRec
    <2> HIDE DEF x
    <2>5. EdTyped(x) /\ SameView(e, x)
      BY <2>1, <2>4 DEF EdTyped, SameView
    <2>6. Follows(e, x)
      BY <2>4, <2>5, SamePainted DEF Follows, Kept
    <2>7. Follows(e, InsertNewline(x))
      BY <2>5, <2>6, NewlineFollows, FollowsTransitive
    <2>8. Follows(e, OpenAbove(e))
      <3>1. "insert" \in Modes
        BY DEF Modes
      <3>2. Follows(e, [InsertNewline(x) EXCEPT !.mode = "insert"])
        BY <2>7, <3>1, ModeFollows
      <3> QED BY <2>3, <3>2
    <2> QED BY <2>8 DEF Follows
  <1>3. CASE ~(LineCount(e) >= EDITOR_MAX_LINES) /\ ~(e.cy > 0)
    <2> DEFINE t == <<0>> \o e.text
               x == [e EXCEPT !.text = t, !.cx = 0, !.mode = "insert", !.stale = Rows]
    <2>1. OpenAbove(e) = x
      BY <1>3 DEF OpenAbove
    <2>2. 0 \in Lengths
      BY EdConstants DEF Lengths
    <2>3. t \in Seq(Lengths) /\ Len(t) = Len(e.text) + 1
      BY <1>0, <2>2, ConsLemma
    <2> HIDE DEF t
    <2>4. x \in EdRec /\ x.text = t /\ x.cy = e.cy /\ x.vy = e.vy /\ x.stale = Rows
      BY <1>0, <2>2, <2>3 DEF EdRec, Modes
    <2> HIDE DEF x
    <2>5. Len(t) \in 1..EDITOR_MAX_LINES /\ e.cy < Len(t)
      BY <1>0, <1>3, <2>3, EdConstants
    <2>6. EdTyped(x)
      BY <2>4, <2>5 DEF EdTyped
    <2>7. Painted(x)
      BY <2>4 DEF Painted
    <2> QED BY <2>1, <2>6, <2>7, <1>0, <1>3
  <1> QED BY <1>1, <1>2, <1>3

\* 'p' puts a line below the cursor's, and says that the text was modified.
LEMMA PasteFollows == ASSUME NEW e, EdTyped(e) PROVE Follows(e, Paste(e))
  <1>0. e \in EdRec /\ e.text \in Seq(Lengths) /\ Len(e.text) \in 1..EDITOR_MAX_LINES /\ e.cy \in Nat
        /\ e.cy + 1 \in 1..Len(e.text) /\ LineCount(e) = Len(e.text) /\ e.clip \in Lengths
    BY CursorLine DEF EdTyped, EdRec
  <1>1. CASE e.clip = 0 \/ LineCount(e) >= EDITOR_MAX_LINES
    BY <1>1, SelfFollows DEF Paste
  <1>2. CASE ~(e.clip = 0 \/ LineCount(e) >= EDITOR_MAX_LINES)
    <2> DEFINE t == InsertAt(e.text, e.cy + 2, e.clip)
               y == e.cy + 1
               s == e.stale \cup {z \in Rows : e.vy + z > e.cy}
               x == [e EXCEPT !.text = t, !.cy = y, !.cx = 0, !.modified = TRUE, !.stale = s]
    <2>1. Paste(e) = x
      BY <1>2 DEF Paste
    <2>2. 0 \in Lengths /\ y \in Nat /\ e.cy + 2 \in 2..Len(e.text) + 1
      BY <1>0, EdConstants DEF Lengths
    <2>3. t \in Seq(Lengths) /\ Len(t) = Len(e.text) + 1 /\ \A i \in 1..(e.cy + 1) : t[i] = e.text[i]
      <3>1. \A i \in 1..(e.cy + 1) : i \in 1..Len(e.text) + 1 /\ i < e.cy + 2
        BY <1>0
      <3>2. t \in Seq(Lengths) /\ Len(t) = Len(e.text) + 1
            /\ \A i \in 1..Len(e.text) + 1 : i < e.cy + 2 => t[i] = e.text[i]
        BY <1>0, <2>2, InsertAtLemma
      <3> HIDE DEF t
      <3> QED BY <3>1, <3>2
    <2>s. s \in SUBSET Rows /\ e.stale \subseteq s /\ \A z \in Rows : e.vy + z > e.cy => z \in s
      BY <1>0 DEF EdRec
    <2> HIDE DEF t, s
    <2>4. x \in EdRec /\ x.text = t /\ x.cy = y /\ x.vy = e.vy /\ x.modified = TRUE /\ x.stale = s
          /\ x.shown = e.shown /\ x.full = e.full /\ x.dirty = e.dirty
      BY <1>0, <2>2, <2>3, <2>s DEF EdRec
    <2> HIDE DEF x
    <2>5. Len(t) \in 1..EDITOR_MAX_LINES /\ y < Len(t)
      BY <1>0, <1>2, <2>3, EdConstants
    <2>6. EdTyped(x)
      BY <2>4, <2>5 DEF EdTyped
    <2>7. ASSUME NEW z \in Rows PROVE z \in s \/ RowOf(x, z) = RowOf(e, z)
      <3>1. e.vy \in Nat /\ z \in Nat
        BY <1>0, EdConstants DEF EdRec
      <3>2. CASE e.vy + z > e.cy
        BY <2>s, <3>2
      <3>3. CASE e.vy + z <= e.cy
        <4>1. e.vy + z + 1 \in 1..(e.cy + 1) /\ e.vy + z < Len(e.text) /\ e.vy + z < Len(t)
          BY <1>0, <2>3, <3>1, <3>3
        <4> QED BY <2>3, <2>4, <4>1 DEF RowOf, LineCount
      <3> QED BY <1>0, <3>1, <3>2, <3>3
    <2>8. Painted(e) => Painted(x)
      BY <2>4, <2>7, <2>s DEF Painted
    <2> QED BY <2>1, <2>4, <2>6, <2>8 DEF Kept, Follows
  <1> QED BY <1>1, <1>2

---------------------------------------------------------------------------
(* The inductive invariant.                                                *)

AllShown(e) == \A y \in Rows : e.shown[y] = RowOf(e, y) \/ y \in e.stale

EditorInv ==
    /\ EdTyped(ed)
    /\ drawing \in {"first", "no", "yes", "key"} /\ excused \in BOOLEAN /\ keys \in 0..MaxKeys
    /\ Painted(ed)
    /\ drawing = "yes" => ed.mode = "help" \/ AllShown(ed)
    /\ ModifiedIsHonest
    /\ RowsShown

\* A key, whatever it did to the text, asks for the redraw that its marks need.
LEMMA KeyKept ==
    ASSUME EditorInv, NEW r, Key(r), EdTyped(r), excused' \in BOOLEAN, Painted(r),
           r.modified \/ excused' \/ Loaded(file') \in {r.text, Loaded(r.text)}
    PROVE  EditorInv'
  <1> DEFINE x == [r EXCEPT !.redraw = TRUE]
  <1>0. r \in EdRec
    BY DEF EdTyped
  <1>1. x \in EdRec /\ SameText(x, r) /\ x.modified = r.modified /\ x.redraw = TRUE
    BY <1>0 DEF EdRec, SameText
  <1>2. ed' = x
    BY DEF Key
  <1> HIDE DEF x
  <1>3. EdTyped(x) /\ (Painted(r) => Painted(x))
    BY <1>1, AttrTyped
  <1>4. keys' \in 0..MaxKeys
    BY EditorAssumption DEF Key, EditorInv
  <1>5. drawing' \in {"first", "no", "key"}
    BY DEF Key, EditorInv
  <1>6. ModifiedIsHonest'
    BY <1>1, <1>2 DEF ModifiedIsHonest, SameText
  <1>7. RowsShown'
    BY <1>1, <1>2 DEF RowsShown
  <1>8. EdTyped(ed)' /\ Painted(ed)'
    BY <1>2, <1>3 DEF EdTyped, Painted
  <1> QED BY <1>4, <1>5, <1>6, <1>7, <1>8 DEF EditorInv

\* A key that edits or moves.
LEMMA EditKept == ASSUME EditorInv, NEW r, Edit(r), Follows(ed, r) PROVE EditorInv'
  <1>1. Key(r) /\ file' = file /\ excused' = excused
    BY DEF Edit
  <1>2. EdTyped(r) /\ (Painted(ed) => Painted(r)) /\ Kept(ed, r)
    BY DEF Follows
  <1>3. r.modified \/ excused \/ Loaded(file) \in {r.text, Loaded(r.text)}
    BY <1>2 DEF EditorInv, ModifiedIsHonest, Kept
  <1> QED BY <1>1, <1>2, <1>3, KeyKept DEF EditorInv

\* The modes.
LEMMA ModesAre ==
    "normal" \in Modes /\ "insert" \in Modes /\ "command" \in Modes /\ "search" \in Modes /\ "help" \in Modes
  BY DEF Modes

\* The keys of insert mode.
LEMMA InsertKeyKept == ASSUME EditorInv, InsertKey PROVE EditorInv'
  <1>0. EdTyped(ed) /\ ed \in EdRec /\ ed.cx \in Nat /\ ed.cx <= LineMax
    BY CursorLine DEF EditorInv
  <1>1. CASE Edit(InsertChar(ed))
    BY <1>0, <1>1, InsertCharFollows, EditKept
  <1>2. CASE Edit(InsertTab(ed))
    BY <1>0, <1>2, InsertTabFollows, EditKept
  <1>3. CASE Edit(InsertNewline(ed))
    BY <1>0, <1>3, NewlineFollows, EditKept
  <1>4. CASE Edit(BackspaceChar(ed))
    BY <1>0, <1>4, BackspaceFollows, EditKept
  <1>5. CASE Edit(DeleteChar(ed))
    BY <1>0, <1>5, DeleteCharFollows, EditKept
  <1>6. ASSUME NEW e \in Moves(ed), Edit(e) PROVE EditorInv'
    BY <1>0, <1>6, MovesFollow, EditKept
  <1>7. CASE Edit([ed EXCEPT !.mode = "normal", !.cx = IF @ > 0 THEN @ - 1 ELSE 0])
    <2> DEFINE c == IF ed.cx > 0 THEN ed.cx - 1 ELSE 0
               x == [ed EXCEPT !.cx = c]
    <2>1. c \in Lengths
      BY <1>0, EdConstants DEF Lengths
    <2>2. [ed EXCEPT !.mode = "normal", !.cx = IF @ > 0 THEN @ - 1 ELSE 0] = [x EXCEPT !.mode = "normal"]
      BY <1>0 DEF EdRec
    <2> HIDE DEF c
    <2>3. Follows(ed, x)
      BY <1>0, <2>1, ColumnFollows
    <2> HIDE DEF x
    <2>4. Follows(ed, [x EXCEPT !.mode = "normal"])
      BY <2>3, ModesAre, ModeFollows
    <2> QED BY <1>7, <2>2, <2>4, EditKept
  <1> QED BY <1>1, <1>2, <1>3, <1>4, <1>5, <1>6, <1>7 DEF InsertKey

\* The keys of normal mode.
LEMMA NormalKeyKept == ASSUME EditorInv, NormalKey PROVE EditorInv'
  <1>0. EdTyped(ed) /\ ed \in EdRec /\ ed.cx \in Nat /\ ed.cx <= LineMax
        /\ LineLen(ed) \in Nat /\ LineLen(ed) <= LineMax
    BY CursorLine DEF EditorInv
  <1>s. Follows(ed, ed)
    BY <1>0, SelfFollows
  <1>1. CASE Edit([ed EXCEPT !.mode = "insert"])
    BY <1>1, <1>s, ModesAre, ModeFollows, EditKept
  <1>2. CASE Edit([ed EXCEPT !.mode = "insert", !.cx = IF @ < LineLen(ed) THEN @ + 1 ELSE @])
    <2> DEFINE c == IF ed.cx < LineLen(ed) THEN ed.cx + 1 ELSE ed.cx
               x == [ed EXCEPT !.cx = c]
    <2>1. c \in Lengths
      BY <1>0, EdConstants DEF Lengths
    <2>2. [ed EXCEPT !.mode = "insert", !.cx = IF @ < LineLen(ed) THEN @ + 1 ELSE @] = [x EXCEPT !.mode = "insert"]
      BY <1>0 DEF EdRec
    <2> HIDE DEF c
    <2>3. Follows(ed, x)
      BY <1>0, <2>1, ColumnFollows
    <2> HIDE DEF x
    <2>4. Follows(ed, [x EXCEPT !.mode = "insert"])
      BY <2>3, ModesAre, ModeFollows
    <2> QED BY <1>2, <2>2, <2>4, EditKept
  <1>3. CASE Edit([InsertNewline(ed) EXCEPT !.mode = "insert"])
    <2>1. Follows(ed, InsertNewline(ed))
      BY <1>0, NewlineFollows
    <2>2. Follows(ed, [InsertNewline(ed) EXCEPT !.mode = "insert"])
      BY <2>1, ModesAre, ModeFollows
    <2> QED BY <1>3, <2>2, EditKept
  <1>4. CASE Edit(DeleteChar(ed))
    BY <1>0, <1>4, DeleteCharFollows, EditKept
  <1>5. CASE Edit(DeleteLine(ed))
    BY <1>0, <1>5, DeleteLineFollows, EditKept
  <1>6. CASE Edit([ed EXCEPT !.clip = LineLen(ed)])
    <2> DEFINE l == LineLen(ed)
               x == [ed EXCEPT !.clip = l]
    <2>1. l \in Lengths
      BY <1>0, EdConstants DEF Lengths
    <2> HIDE DEF l
    <2>2. x \in EdRec /\ SameText(x, ed) /\ x.modified = ed.modified
      BY <1>0, <2>1 DEF EdRec, SameText
    <2> HIDE DEF x
    <2>3. Follows(ed, x)
      BY <1>s, <2>2, AttrFollows
    <2> QED BY <1>6, <2>3, EditKept DEF x, l
  <1>7. ASSUME NEW e \in Moves(ed) \cup Pages(ed) \cup Found(ed), Edit(e) PROVE EditorInv'
    BY <1>0, <1>7, MovesFollow, PagesFollow, FoundFollows, EditKept
  <1>8. CASE Edit([ed EXCEPT !.mode = "command"])
    BY <1>8, <1>s, ModesAre, ModeFollows, EditKept
  <1>9. CASE Edit([ed EXCEPT !.mode = "search"])
    BY <1>9, <1>s, ModesAre, ModeFollows, EditKept
  <1> QED BY <1>1, <1>2, <1>3, <1>4, <1>5, <1>6, <1>7, <1>8, <1>9 DEF NormalKey

\* 'O' and 'p': what they leave unmarked is stale.
LEMMA GapKeysKept == ASSUME EditorInv, OpenAboveKey \/ PasteKey PROVE EditorInv'
  <1>0. EdTyped(ed) /\ ed.cy \in Nat /\ excused \in BOOLEAN /\ Painted(ed)
    BY CursorLine DEF EditorInv
  <1>1. CASE OpenAboveKey
    <2>1. Key(OpenAbove(ed)) /\ file' = file /\ excused' = (excused \/ ed.cy = 0)
      BY <1>1 DEF OpenAboveKey
    <2>2. EdTyped(OpenAbove(ed)) /\ Painted(OpenAbove(ed))
      BY <1>0, OpenAboveFollows
    <2>3. CASE ed.cy = 0
      BY <1>0, <2>1, <2>2, <2>3, KeyKept
    <2>4. CASE ed.cy # 0
      <3>1. Follows(ed, OpenAbove(ed)) /\ Edit(OpenAbove(ed))
        BY <1>0, <2>1, <2>4, OpenAboveFollows DEF Edit
      <3> QED BY <3>1, EditKept
    <2> QED BY <2>3, <2>4
  <1>2. CASE PasteKey
    BY <1>0, <1>2, PasteFollows, EditKept DEF PasteKey
  <1> QED BY <1>1, <1>2

\* A save leaves what the file holds, or says so in the history.
LEMMA SavedKept ==
    ASSUME EditorInv, NEW e, Follows(ed, e), NEW q \in BOOLEAN, Saved(e, q)
    PROVE  EditorInv'
  <1>0. EdTyped(e) /\ e \in EdRec /\ excused \in BOOLEAN
    BY DEF EditorInv, Follows, EdTyped
  <1>1. PICK s \in Saves(e) :
           /\ Key([s.e EXCEPT !.running = ~(q /\ s.ok)])
           /\ file' = s.f
           /\ excused' = (excused \/ s.loss)
    BY DEF Saved
  <1> DEFINE w == [e EXCEPT !.modified = FALSE]
  <1>w. w \in EdRec /\ SameText(w, e)
    BY <1>0 DEF EdRec, SameText
  <1> HIDE DEF w
  <1>2. \/ s.e = w /\ s.f = e.text /\ ~s.loss
        \/ s.e = w /\ s.loss
        \/ s.e = e /\ s.loss
    <2>1. \/ s = [e |-> w, f |-> e.text, ok |-> TRUE, loss |-> FALSE]
          \/ \E f : s = [e |-> w, f |-> f, ok |-> TRUE, loss |-> TRUE]
          \/ \E f : s = [e |-> e, f |-> f, ok |-> FALSE, loss |-> TRUE]
      BY Zenon DEF Saves, w
    <2> QED BY <2>1
  <1> DEFINE b == ~(q /\ s.ok)
             x == [s.e EXCEPT !.running = b]
  <1>3. b \in BOOLEAN
    OBVIOUS
  <1>b. Key(x)
    BY <1>1
  <1> HIDE DEF b
  <1>4. s.e \in EdRec
    BY <1>0, <1>2, <1>w
  <1>5. SameText(s.e, e)
    BY <1>0, <1>2, <1>w DEF SameText
  <1>6. x \in EdRec /\ SameText(x, s.e)
    BY <1>3, <1>4 DEF EdRec, SameText
  <1> HIDE DEF x
  <1>7. EdTyped(x) /\ (Painted(e) => Painted(x)) /\ x.text = e.text
    BY <1>0, <1>4, <1>5, <1>6, AttrTyped DEF SameText
  <1>8. Painted(x)
    BY <1>1, <1>7 DEF Follows, EditorInv
  <1>9. excused' \/ Loaded(file') \in {x.text, Loaded(x.text)}
    BY <1>1, <1>2, <1>7
  <1>10. excused' \in BOOLEAN
    BY <1>1
  <1> QED BY <1>b, <1>7, <1>8, <1>9, <1>10, KeyKept

\* Saving, leaving, commands, searches and help.
LEMMA OtherKeysKept == ASSUME EditorInv, SaveKey \/ QuitKey \/ OtherKey PROVE EditorInv'
  <1>0. EdTyped(ed) /\ ed \in EdRec /\ ed.modified \in BOOLEAN
    BY DEF EditorInv, EdTyped, EdRec
  <1>s. Follows(ed, ed)
    BY <1>0, SelfFollows
  <1>n. Follows(ed, [ed EXCEPT !.mode = "normal"])
    BY <1>s, ModesAre, ModeFollows
  <1>r. ASSUME NEW b \in BOOLEAN PROVE Follows(ed, [ed EXCEPT !.running = b])
    <2> DEFINE x == [ed EXCEPT !.running = b]
    <2>1. x \in EdRec /\ SameText(x, ed) /\ x.modified = ed.modified
      BY <1>0 DEF EdRec, SameText
    <2> HIDE DEF x
    <2>2. Follows(ed, x)
      BY <1>s, <2>1, AttrFollows
    <2> QED BY <2>2 DEF x
  <1>1. CASE SaveKey
    <2>1. \/ Saved(ed, FALSE)
          \/ Saved([ed EXCEPT !.mode = "normal"], FALSE)
          \/ Saved([ed EXCEPT !.mode = "normal"], TRUE)
      BY <1>1 DEF SaveKey
    <2> QED BY <2>1, <1>s, <1>n, SavedKept
  <1>2. CASE QuitKey
    <2>1. PICK b \in BOOLEAN : Edit([ed EXCEPT !.running = b])
      BY <1>0, <1>2 DEF QuitKey
    <2> QED BY <2>1, <1>r, EditKept
  <1>3. CASE OtherKey
    <2>1. ASSUME NEW n \in 0..(LineCount(ed) + 1), Edit([GotoLine(ed, n) EXCEPT !.mode = "normal"]) PROVE EditorInv'
      <3>0. n \in Nat
        BY <1>0, CursorLine
      <3>1. Follows(ed, GotoLine(ed, n))
        BY <1>0, <3>0, GotoFollows
      <3>2. Follows(ed, [GotoLine(ed, n) EXCEPT !.mode = "normal"])
        BY <3>1, ModesAre, ModeFollows
      <3> QED BY <2>1, <3>2, EditKept
    <2>2. CASE Edit([ed EXCEPT !.mode = "normal"])
      BY <2>2, <1>n, EditKept
    <2>3. ASSUME NEW n \in 0..2, NEW e \in Found([ed EXCEPT !.term = n]), Edit([e EXCEPT !.mode = "normal"])
          PROVE  EditorInv'
      <3> DEFINE x == [ed EXCEPT !.term = n]
      <3>1. x \in EdRec /\ SameText(x, ed) /\ x.modified = ed.modified
        BY <1>0 DEF EdRec, SameText
      <3> HIDE DEF x
      <3>2. Follows(ed, x)
        BY <1>s, <3>1, AttrFollows
      <3>3. Follows(x, e)
        BY <2>3, <3>2, FoundFollows DEF Follows, x
      <3>4. Follows(ed, [e EXCEPT !.mode = "normal"])
        BY <3>2, <3>3, FollowsTransitive, ModesAre, ModeFollows
      <3> QED BY <2>3, <3>4, EditKept
    <2>4. CASE Edit([ed EXCEPT !.mode = "help"])
      BY <2>4, <1>s, ModesAre, ModeFollows, EditKept
    <2> QED BY <1>3, <2>1, <2>2, <2>3, <2>4 DEF OtherKey
  <1> QED BY <1>1, <1>2, <1>3

\* What a row holds is a number.
LEMMA RowOfIn == ASSUME NEW e, EdTyped(e), NEW y \in Rows PROVE RowOf(e, y) \in Int
  <1>0. y \in Nat
    BY EdConstants
  <1>1. CASE e.vy + y < Len(e.text)
    <2>1. e.vy + y + 1 \in 1..Len(e.text) /\ e.text \in Seq(Lengths)
      BY <1>0, <1>1, CursorLine
    <2>2. e.text[e.vy + y + 1] \in Lengths
      BY <2>1, ElementOfSeq
    <2> QED BY <1>1, <2>2, EdConstants DEF RowOf, LineCount, Lengths
  <1>2. CASE ~(e.vy + y < Len(e.text))
    BY <1>2 DEF RowOf, LineCount
  <1> QED BY <1>1, <1>2

\* The same text and window.
SamePlace(x, e) ==
    /\ x.text = e.text /\ x.cy = e.cy /\ x.vy = e.vy /\ x.modified = e.modified
    /\ x.redraw = e.redraw /\ x.mode = e.mode

\* ... has the same rows.
LEMMA SameRows ==
    ASSUME NEW e, EdTyped(e), NEW x \in EdRec, SamePlace(x, e)
    PROVE  EdTyped(x) /\ \A y : RowOf(x, y) = RowOf(e, y)
  BY DEF SamePlace, EdTyped, RowOf, LineCount

\* A change of mode clears the terminal and asks for a full redraw.
LEMMA RefreshedLemma ==
    ASSUME NEW e, EdTyped(e)
    PROVE  /\ EdTyped(Refreshed(e)) /\ SamePlace(Refreshed(e), e)
           /\ Painted(e) => Painted(Refreshed(e))
  <1> DEFINE s == [y \in Rows |-> -1]
             x == [e EXCEPT !.last = e.mode, !.shown = s, !.dirty = {}, !.full = TRUE]
  <1>0. e \in EdRec
    BY DEF EdTyped
  <1>1. s \in [Rows -> Int] /\ {} \in SUBSET Rows /\ e.mode \in Modes
    BY <1>0 DEF EdRec
  <1> HIDE DEF s
  <1>2. x \in EdRec /\ SamePlace(x, e) /\ x.full = TRUE
    BY <1>0, <1>1 DEF EdRec, SamePlace
  <1>3. Refreshed(e) = IF e.last = e.mode THEN e ELSE x
    BY DEF Refreshed, s
  <1> HIDE DEF x
  <1>4. EdTyped(x) /\ Painted(x)
    BY <1>2, SameRows DEF Painted
  <1> QED BY <1>2, <1>3, <1>4 DEF SamePlace

\* The first row that is due is written, and the rows behind it are right or stale.
LEMMA FirstWrittenLemma ==
    ASSUME NEW e, EdTyped(e), Painted(e), Due(e) # {}
    PROVE  LET r == FirstWritten(e) IN EdTyped(r) /\ SamePlace(r, e) /\ AllShown(r)
  <1> DEFINE due == Due(e)
             s == [y \in Rows |-> IF y \in due /\ \A z \in due : y <= z THEN RowOf(e, y) ELSE e.shown[y]]
             q == [e EXCEPT !.shown = s, !.dirty = {}, !.full = FALSE]
             b == {y \in Rows : \E z \in due : z < y}
             l == LeftStale(q, b)
             r == [q EXCEPT !.stale = l]
  <1>0. e \in EdRec /\ e.vy \in Nat /\ Len(e.text) \in Nat
    BY CursorLine DEF EdTyped, EdRec
  <1>1. FirstWritten(e) = r
    BY DEF FirstWritten
  <1>2. s \in [Rows -> Int]
    BY <1>0, RowOfIn DEF EdRec
  <1>3. \A y \in Rows : s[y] = IF y \in due /\ \A z \in due : y <= z THEN RowOf(e, y) ELSE e.shown[y]
    OBVIOUS
  <1>4. ASSUME NEW y \in Rows PROVE s[y] = RowOf(e, y) \/ y \in e.stale \/ y \in b
    <2>0. y \in Nat /\ due \subseteq Nat
      BY EdConstants DEF Due
    <2>1. CASE y \in due
      <3>1. CASE \A z \in due : y <= z
        BY <1>3, <2>1, <3>1
      <3>2. CASE ~(\A z \in due : y <= z)
        <4>1. PICK z \in due : ~(y <= z)
          BY <3>2
        <4>2. z < y
          BY <2>0, <4>1
        <4> QED BY <4>2
      <3> QED BY <3>1, <3>2
    <2>2. CASE y \notin due /\ e.full
      <3>1. ~(e.vy + y < Len(e.text))
        <4> SUFFICES ASSUME e.vy + y < Len(e.text) PROVE FALSE
          OBVIOUS
        <4>1. e.vy + y + 1 \in 1..Len(e.text) /\ e.text \in Seq(Lengths)
          BY <1>0, <2>0, CursorLine
        <4>2. e.text[e.vy + y + 1] \in Lengths
          BY <4>1, ElementOfSeq
        <4>3. RowOf(e, y) >= 0
          BY <4>2, EdConstants DEF RowOf, LineCount, Lengths
        <4> QED BY <2>2, <4>3 DEF Due
      <3>2. PICK z \in due : TRUE
        OBVIOUS
      <3>3. e.vy + z < Len(e.text)
        BY <3>2 DEF Due, RowOf, LineCount
      <3>4. z < y
        BY <1>0, <2>0, <3>1, <3>3
      <3> QED BY <3>4
    <2>3. CASE y \notin due /\ ~e.full
      <3>1. e.shown[y] = RowOf(e, y) \/ y \in e.stale
        BY <2>3 DEF Painted, Due
      <3> QED BY <1>3, <2>3, <3>1
    <2> QED BY <2>1, <2>2, <2>3
  <1> HIDE DEF due, s, b
  <1>5. q \in EdRec /\ SamePlace(q, e) /\ q.shown = s /\ q.stale = e.stale
    BY <1>0, <1>2 DEF EdRec, SamePlace
  <1> HIDE DEF q
  <1>6. EdTyped(q) /\ \A y : RowOf(q, y) = RowOf(e, y)
    BY <1>5, SameRows
  <1>7. l \in SUBSET Rows /\ \A y \in Rows : (y \in e.stale \/ y \in b) => y \in l \/ s[y] = RowOf(e, y)
    BY <1>5, <1>6 DEF LeftStale
  <1> HIDE DEF l
  <1>8. r \in EdRec /\ SamePlace(r, q) /\ r.shown = s /\ r.stale = l
    BY <1>5, <1>7 DEF EdRec, SamePlace
  <1> HIDE DEF r
  <1>9. EdTyped(r) /\ \A y : RowOf(r, y) = RowOf(q, y)
    BY <1>6, <1>8, SameRows
  <1>10. AllShown(r)
    BY <1>4, <1>6, <1>7, <1>8, <1>9 DEF AllShown
  <1> QED BY <1>1, <1>5, <1>8, <1>9, <1>10 DEF SamePlace

\* With no row due there is nothing to write but the rows past the end.
LEMMA NoneWrittenLemma ==
    ASSUME NEW e, EdTyped(e), Painted(e), Due(e) = {}, NEW bar \in BOOLEAN
    PROVE  LET r == NoneWritten(e, bar) IN EdTyped(r) /\ SamePlace(r, e) /\ AllShown(r)
  <1> DEFINE s == [y \in Rows |-> IF e.full THEN -1 ELSE e.shown[y]]
             d == IF bar \/ e.full THEN {} ELSE e.dirty
             r == [e EXCEPT !.shown = s, !.dirty = d, !.full = FALSE]
  <1>0. e \in EdRec
    BY DEF EdTyped
  <1>1. NoneWritten(e, bar) = r
    BY DEF NoneWritten
  <1>2. s \in [Rows -> Int] /\ d \in SUBSET Rows
    BY <1>0 DEF EdRec
  <1>3. ASSUME NEW y \in Rows PROVE s[y] = RowOf(e, y) \/ y \in e.stale
    <2>1. CASE e.full
      <3>1. ~(RowOf(e, y) >= 0) /\ RowOf(e, y) \in Int
        BY <2>1, RowOfIn DEF Due
      <3>2. RowOf(e, y) = -1
        <4>1. CASE e.vy + y < Len(e.text)
          <5>1. y \in Nat
            BY EdConstants
          <5>2. e.vy + y + 1 \in 1..Len(e.text) /\ e.text \in Seq(Lengths)
            BY <4>1, <5>1, CursorLine
          <5>3. e.text[e.vy + y + 1] \in Lengths
            BY <5>2, ElementOfSeq
          <5> QED BY <3>1, <4>1, <5>3, EdConstants DEF RowOf, LineCount, Lengths
        <4>2. CASE ~(e.vy + y < Len(e.text))
          BY <4>2 DEF RowOf, LineCount
        <4> QED BY <4>1, <4>2
      <3> QED BY <2>1, <3>2
    <2>2. CASE ~e.full
      BY <2>2 DEF Painted, Due
    <2> QED BY <2>1, <2>2
  <1> HIDE DEF s, d
  <1>4. r \in EdRec /\ SamePlace(r, e) /\ r.shown = s /\ r.stale = e.stale
    BY <1>0, <1>2 DEF EdRec, SamePlace
  <1> HIDE DEF r
  <1>5. EdTyped(r) /\ \A y : RowOf(r, y) = RowOf(e, y)
    BY <1>4, SameRows
  <1>6. AllShown(r)
    BY <1>3, <1>4, <1>5 DEF AllShown
  <1> QED BY <1>1, <1>4, <1>5, <1>6

\* A mark more.
LEMMA OneMark ==
    ASSUME NEW e, EdTyped(e), NEW y \in Rows
    PROVE  LET r == [e EXCEPT !.dirty = e.dirty \cup {y}]
           IN  /\ EdTyped(r) /\ SamePlace(r, e) /\ (AllShown(e) => AllShown(r)) /\ (Painted(e) => Painted(r))
  <1> DEFINE d == e.dirty \cup {y}
             r == [e EXCEPT !.dirty = d]
  <1>0. e \in EdRec /\ d \in SUBSET Rows /\ e.dirty \subseteq d
    BY DEF EdTyped, EdRec
  <1> HIDE DEF d
  <1>1. r \in EdRec /\ SamePlace(r, e) /\ r.shown = e.shown /\ r.stale = e.stale /\ r.full = e.full /\ r.dirty = d
    BY <1>0 DEF EdRec, SamePlace
  <1> HIDE DEF r
  <1>2. EdTyped(r) /\ \A z : RowOf(r, z) = RowOf(e, z)
    BY <1>1, SameRows
  <1>3. (AllShown(e) => AllShown(r)) /\ (Painted(e) => Painted(r))
    BY <1>0, <1>1, <1>2 DEF AllShown, Painted
  <1> QED BY <1>1, <1>2, <1>3 DEF r, d

\* A render leaves every row right or stale, but for the help screen.
LEMMA DrawnLemma ==
    ASSUME NEW e, EdTyped(e), Painted(e), NEW bar \in BOOLEAN
    PROVE  LET r == Drawn(e, bar)
           IN  EdTyped(r) /\ SamePlace(r, e) /\ Painted(r) /\ (e.mode = "help" \/ AllShown(r))
  <1> DEFINE c == Refreshed(e)
             w == IF Due(c) # {} THEN FirstWritten(c) ELSE NoneWritten(c, bar)
             y == Bound(e.cy - e.vy, ViewHeight - 1)
  <1>1. EdTyped(c) /\ SamePlace(c, e) /\ Painted(c)
    BY RefreshedLemma
  <1> HIDE DEF c
  <1>2. EdTyped(w) /\ SamePlace(w, c) /\ AllShown(w)
    BY <1>1, FirstWrittenLemma, NoneWrittenLemma
  <1> HIDE DEF w
  <1>3. y \in Rows /\ 0 \in Rows
    <2>1. e.cy - e.vy \in Int /\ ViewHeight - 1 \in Nat
      BY EdConstants DEF EdTyped, EdRec
    <2>2. y \in Nat /\ y <= ViewHeight - 1
      BY <2>1, BoundLemma
    <2> HIDE DEF y
    <2> QED BY <2>2, EdConstants DEF Rows
  <1> HIDE DEF y
  <1>4. Drawn(e, bar) = IF e.mode = "help" THEN [c EXCEPT !.dirty = c.dirty \cup {0}]
                        ELSE [w EXCEPT !.dirty = w.dirty \cup {y}]
    BY DEF Drawn, c, w, y
  <1>5. CASE e.mode = "help"
    <2> DEFINE r == [c EXCEPT !.dirty = c.dirty \cup {0}]
    <2>1. EdTyped(r) /\ SamePlace(r, c) /\ Painted(r)
      BY <1>1, <1>3, OneMark
    <2>2. Drawn(e, bar) = r
      BY <1>4, <1>5
    <2> HIDE DEF r
    <2> QED BY <1>1, <1>5, <2>1, <2>2 DEF SamePlace
  <1>6. CASE e.mode # "help"
    <2> DEFINE r == [w EXCEPT !.dirty = w.dirty \cup {y}]
    <2>1. EdTyped(r) /\ SamePlace(r, w) /\ AllShown(r)
      BY <1>2, <1>3, OneMark
    <2>2. Drawn(e, bar) = r
      BY <1>4, <1>6
    <2> HIDE DEF r
    <2>3. Painted(r)
      BY <2>1 DEF Painted, AllShown
    <2> QED BY <1>1, <1>2, <2>1, <2>2, <2>3 DEF SamePlace
  <1> QED BY <1>5, <1>6

\* Marks that are forgotten leave stale rows.
LEMMA ForgottenLemma ==
    ASSUME NEW e, EdTyped(e), Painted(e)
    PROVE  /\ EdTyped(Forgotten(e)) /\ SamePlace(Forgotten(e), e) /\ AllShown(Forgotten(e))
           /\ Forgotten(e).dirty = e.dirty /\ Forgotten(e).full = e.full
  <1> DEFINE l == LeftStale(e, Marks(e))
             r == [e EXCEPT !.stale = l]
  <1>0. e \in EdRec
    BY DEF EdTyped
  <1>1. l \in SUBSET Rows
    BY DEF LeftStale
  <1>2. \A y \in Rows : e.shown[y] = RowOf(e, y) \/ y \in l
    BY DEF LeftStale, Marks, Painted
  <1>3. Forgotten(e) = r
    BY DEF Forgotten
  <1> HIDE DEF l
  <1>4. r \in EdRec /\ SamePlace(r, e) /\ r.shown = e.shown /\ r.stale = l /\ r.dirty = e.dirty /\ r.full = e.full
    BY <1>0, <1>1 DEF EdRec, SamePlace
  <1> HIDE DEF r
  <1>5. EdTyped(r) /\ \A y : RowOf(r, y) = RowOf(e, y)
    BY <1>4, SameRows
  <1>6. AllShown(r)
    BY <1>2, <1>4, <1>5 DEF AllShown
  <1> QED BY <1>3, <1>4, <1>5, <1>6

\* The invariant, from the editor a step of the screen leaves.
LEMMA ScreenStep ==
    ASSUME EditorInv, NEW r, EdTyped(r), ed' = r, r.text = ed.text, r.modified = ed.modified, r.mode = ed.mode,
           Painted(r), drawing' \in {"first", "no", "yes", "key"},
           drawing' \in {"no", "yes"} => r.mode = "help" \/ AllShown(r) \/ (drawing' = "no" /\ r.redraw),
           UNCHANGED <<file, excused, keys>>
    PROVE  EditorInv'
  <1>1. EdTyped(ed)' /\ Painted(ed)' /\ (drawing' = "yes" => ed'.mode = "help" \/ AllShown(ed)')
    BY DEF EdTyped, Painted, AllShown
  <1>2. ModifiedIsHonest'
    BY DEF EditorInv, ModifiedIsHonest
  <1>3. RowsShown'
    BY DEF RowsShown, AllShown
  <1>4. excused' \in BOOLEAN /\ keys' \in 0..MaxKeys
    BY DEF EditorInv
  <1> QED BY <1>1, <1>2, <1>3, <1>4 DEF EditorInv

\* The task's drawing and the main loop's.
LEMMA ScreenKept ==
    ASSUME EditorInv, FirstRender \/ RenderStart \/ RenderEnd \/ MainLoopDraws PROVE EditorInv'
  <1>0. EdTyped(ed) /\ ed \in EdRec /\ Painted(ed)
    BY DEF EditorInv, EdTyped
  <1>1. CASE FirstRender \/ RenderStart
    <2>1. PICK bar \in BOOLEAN : ed' = Drawn(ed, bar)
      BY <1>1 DEF FirstRender, RenderStart
    <2>2. drawing' \in {"no", "yes"} /\ UNCHANGED <<file, excused, keys>>
      BY <1>1 DEF FirstRender, RenderStart
    <2> DEFINE r == Drawn(ed, bar)
    <2>3. EdTyped(r) /\ SamePlace(r, ed) /\ Painted(r) /\ (ed.mode = "help" \/ AllShown(r))
      BY <1>0, DrawnLemma
    <2>4. ed' = r
      BY <2>1
    <2> HIDE DEF r
    <2> QED BY <2>2, <2>3, <2>4, ScreenStep DEF SamePlace
  <1>2. CASE RenderEnd
    <2> DEFINE g == IF drawing = "key" THEN Forgotten(ed) ELSE ed
               x == [g EXCEPT !.redraw = FALSE]
    <2>1. ed' = x /\ drawing' = "no" /\ UNCHANGED <<file, excused, keys>> /\ drawing \in {"yes", "key"}
      BY <1>2 DEF RenderEnd
    <2>2. EdTyped(g) /\ SamePlace(g, ed) /\ Painted(g) /\ (ed.mode = "help" \/ AllShown(g))
      <3>1. CASE drawing = "key"
        <4>1. EdTyped(Forgotten(ed)) /\ SamePlace(Forgotten(ed), ed) /\ AllShown(Forgotten(ed))
          BY <1>0, ForgottenLemma
        <4> QED BY <3>1, <4>1 DEF AllShown, Painted
      <3>2. CASE drawing = "yes"
        BY <1>0, <3>2 DEF EditorInv, SamePlace
      <3> QED BY <2>1, <3>1, <3>2
    <2> HIDE DEF g
    <2>3. g \in EdRec
      BY <2>2 DEF EdTyped
    <2>4. x \in EdRec /\ SameText(x, g) /\ x.modified = g.modified /\ x.mode = g.mode
      BY <2>3 DEF EdRec, SameText
    <2> HIDE DEF x
    <2>5. EdTyped(x) /\ Painted(x)
      BY <2>2, <2>4, AttrTyped
    <2>6. AllShown(g) => AllShown(x)
      BY <2>4 DEF AllShown, SameText, RowOf, LineCount
    <2>7. x.text = ed.text /\ x.modified = ed.modified /\ x.mode = ed.mode
      BY <2>2, <2>4 DEF SamePlace, SameText
    <2> QED BY <2>1, <2>2, <2>5, <2>6, <2>7, ScreenStep
  <1>3. CASE MainLoopDraws
    <2> DEFINE f == Forgotten(ed)
               x == [f EXCEPT !.dirty = {}, !.full = FALSE]
    <2>1. ed' = x /\ drawing' = drawing /\ UNCHANGED <<file, excused, keys>>
      BY <1>3 DEF MainLoopDraws
    <2>2. EdTyped(f) /\ SamePlace(f, ed) /\ AllShown(f)
      BY <1>0, ForgottenLemma
    <2> HIDE DEF f
    <2>3. f \in EdRec
      BY <2>2 DEF EdTyped
    <2>4. x \in EdRec /\ SamePlace(x, f) /\ x.shown = f.shown /\ x.stale = f.stale
      BY <2>3 DEF EdRec, SamePlace
    <2> HIDE DEF x
    <2>5. EdTyped(x) /\ \A y : RowOf(x, y) = RowOf(f, y)
      BY <2>2, <2>4, SameRows
    <2>6. AllShown(x) /\ Painted(x)
      BY <2>2, <2>4, <2>5 DEF AllShown, Painted
    <2>7. drawing' \in {"first", "no", "yes", "key"}
      BY <2>1 DEF EditorInv
    <2> QED BY <2>1, <2>2, <2>4, <2>5, <2>6, <2>7, ScreenStep DEF SamePlace
  <1> QED BY <1>1, <1>2, <1>3

\* Cut(n) is a length.
LEMMA CutLemma == ASSUME NEW n \in Nat PROVE Cut(n) \in Lengths
  BY EdConstants DEF Cut, Lengths

\* What editor_open_file makes of a text is a text of the editor.
LEMMA LoadedLemma ==
    ASSUME NEW f \in Seq(Nat)
    PROVE  Loaded(f) \in Seq(Lengths) /\ Len(Loaded(f)) \in 1..EDITOR_MAX_LINES
  <1> DEFINE whole == IF f # <<>> /\ Last(f) = 0 THEN Front(f) ELSE f
             top == IF Len(whole) > EDITOR_MAX_LINES THEN EDITOR_MAX_LINES ELSE Len(whole)
             kept == SubSeq(whole, 1, top)
  <1>1. whole \in Seq(Nat) /\ Len(whole) \in Nat
    <2>1. CASE f # <<>> /\ Last(f) = 0
      <3>1. Len(f) \in Nat /\ Len(f) - 1 \in Int /\ \A i \in 1..(Len(f) - 1) : f[i] \in Nat
        BY LenProperties, ElementOfSeq
      <3>2. SubSeq(f, 1, Len(f) - 1) \in Seq(Nat)
        BY <3>1, SubSeqProperties
      <3>3. whole = SubSeq(f, 1, Len(f) - 1)
        BY <2>1 DEF Front
      <3> QED BY <3>2, <3>3, LenProperties
    <2>2. CASE ~(f # <<>> /\ Last(f) = 0)
      BY <2>2, LenProperties
    <2> QED BY <2>1, <2>2
  <1> HIDE DEF whole
  <1>2. top \in Nat /\ top <= Len(whole) /\ top <= EDITOR_MAX_LINES
    BY <1>1, EdConstants
  <1> HIDE DEF top
  <1>3. kept \in Seq(Nat) /\ Len(kept) = top
    <2>1. \A i \in 1..top : whole[i] \in Nat
      BY <1>1, <1>2, ElementOfSeq
    <2>2. kept \in Seq(Nat) /\ Len(kept) = IF 1 <= top THEN top - 1 + 1 ELSE 0
      BY <1>2, <2>1, SubSeqProperties
    <2> QED BY <1>2, <2>2
  <1>4. Loaded(f) = IF kept = <<>> THEN <<0>> ELSE [i \in 1..Len(kept) |-> Cut(kept[i])]
    BY DEF Loaded, kept, top, whole
  <1> HIDE DEF kept
  <1>5. CASE kept = <<>>
    <2>1. 0 \in Lengths /\ 1 \in 1..EDITOR_MAX_LINES
      BY EdConstants DEF Lengths
    <2>2. <<0>> \in Seq(Lengths) /\ Len(<<0>>) = 1
      BY <2>1
    <2> QED BY <1>4, <1>5, <2>1, <2>2
  <1>6. CASE kept # <<>>
    <2> DEFINE q == [i \in 1..top |-> Cut(kept[i])]
    <2>1. \A i \in 1..top : Cut(kept[i]) \in Lengths
      BY <1>2, <1>3, ElementOfSeq, CutLemma
    <2>2. q \in Seq(Lengths)
      BY <1>2, <2>1, IsASeq
    <2>3. DOMAIN q = 1..top
      OBVIOUS
    <2>4. Len(q) = top
      BY <1>2, <2>2, <2>3, LenProperties
    <2>5. top >= 1
      BY <1>2, <1>3, <1>6, EmptySeq
    <2> QED BY <1>2, <1>3, <1>4, <1>6, <2>2, <2>4, <2>5
  <1> QED BY <1>5, <1>6

\* The first state.
LEMMA InitEditor == EditorInit => EditorInv
  <1> SUFFICES ASSUME EditorInit PROVE EditorInv
    OBVIOUS
  <1>0. file \in Seq(Nat) /\ Len(file) \in Nat /\ MaxKeys \in Nat
    BY EditorAssumption, LenProperties DEF EditorInit
  <1>1. PICK k \in 0..Len(file), lm \in {"none", "normal"} :
           /\ ed = [Opened(Loaded(SubSeq(file, 1, k))) EXCEPT !.last = lm]
           /\ excused = (k # Len(file))
    BY DEF EditorInit
  <1> DEFINE f == SubSeq(file, 1, k)
             t == Loaded(f)
  <1>2. f \in Seq(Nat) /\ (k = Len(file) => f = file)
    <2>1. \A i \in 1..k : file[i] \in Nat
      BY <1>0, ElementOfSeq
    <2>2. f \in Seq(Nat) /\ Len(f) = (IF 1 <= k THEN k - 1 + 1 ELSE 0)
          /\ \A i \in 1..(k - 1 + 1) : f[i] = file[1 + i - 1]
      BY <1>0, <2>1, SubSeqProperties
    <2> HIDE DEF f
    <2>3. Len(f) = k /\ \A i \in 1..k : f[i] = file[i]
      BY <1>0, <2>2
    <2>4. k = Len(file) => f = file
      BY <1>0, <2>2, <2>3, SeqEqual
    <2> QED BY <2>2, <2>4
  <1>3. t \in Seq(Lengths) /\ Len(t) \in 1..EDITOR_MAX_LINES
    BY <1>2, LoadedLemma
  <1>4. ed = [Opened(t) EXCEPT !.last = lm]
    BY <1>1
  <1>5. k = Len(file) => t = Loaded(file)
    BY <1>2
  <1> HIDE DEF t, f
  <1> DEFINE blank == [y \in Rows |-> -2]
  <1>s. blank \in [Rows -> Int]
    OBVIOUS
  <1>o. ed = [text |-> t, cx |-> 0, cy |-> 0, vy |-> 0, modified |-> FALSE, mode |-> "normal",
              clip |-> 0, term |-> 0, running |-> TRUE, redraw |-> TRUE, dirty |-> {}, full |-> TRUE,
              shown |-> blank, last |-> lm, stale |-> {}]
    BY <1>4 DEF Opened
  <1> HIDE DEF blank
  <1>m. lm \in Modes \cup {"none"} /\ "normal" \in Modes /\ {} \in SUBSET Rows
    BY DEF Modes
  <1>z. 0 \in Lengths
    BY EdConstants DEF Lengths
  <1>r. ed \in EdRec
    BY <1>3, <1>o, <1>s, <1>m, <1>z DEF EdRec
  <1>6. ed \in EdRec /\ ed.text = t /\ ed.cy = 0 /\ ed.vy = 0 /\ ed.full = TRUE /\ ed.redraw = TRUE
    BY <1>o, <1>r
  <1>7. EdTyped(ed)
    BY <1>3, <1>6, EdConstants DEF EdTyped
  <1>8. drawing = "first" /\ keys = 0 /\ excused \in BOOLEAN
    BY <1>1 DEF EditorInit
  <1>9. ModifiedIsHonest /\ RowsShown /\ Painted(ed)
    BY <1>1, <1>5, <1>6, <1>8 DEF ModifiedIsHonest, RowsShown, Painted
  <1> QED BY <1>0, <1>1, <1>7, <1>8, <1>9 DEF EditorInv

\* Every step keeps the invariant.
LEMMA EditorStep == EditorInv /\ [EditorNext]_EditorVars => EditorInv'
  <1> SUFFICES ASSUME EditorInv, [EditorNext]_EditorVars PROVE EditorInv'
    OBVIOUS
  <1>1. CASE UNCHANGED EditorVars
    BY <1>1 DEF EditorVars, EditorInv, EdTyped, Painted, AllShown, ModifiedIsHonest, RowsShown
  <1> QED BY <1>1, InsertKeyKept, NormalKeyKept, GapKeysKept, OtherKeysKept, ScreenKept DEF EditorNext

\* The invariant says more than the type invariant.
LEMMA EditorTyped == EditorInv => EditorTypeOK
  BY CursorLine, EdConstants DEF EditorInv, EditorTypeOK, EdTyped, EdRec, Lengths, LineCount, Modes

\* Theorem: the [+] mark tells the truth and, with no redraw due, every row
\* that is not among the stale ones was given its line, for any file, any
\* sizes of line, text and window and any number of keys (text_editor.c).
THEOREM EditorCorrect == EditorSpec => []EditorSound
  BY InitEditor, EditorStep, PTL DEF EditorSpec, EditorInv, EditorSound

\* Theorem: the cursor stays on a line of the text and in its width, and the
\* text within editor_line_t and the array of lines (text_editor.c).
THEOREM EditorTypeCorrect == EditorSpec => []EditorTypeOK
  BY InitEditor, EditorStep, EditorTyped, PTL DEF EditorSpec

-----------------------------------------------------------------------------
(* Disks, terminal, editor, drivers and ports together, as the run of        *)
(* MCServices composes them.                                                 *)

\* The composed system is a system of each of its components.
LEMMA ServicesCompose ==
    Spec => /\ BlkSpec /\ AhciSpec /\ PartitionsSpec /\ ConsoleSpec
            /\ EditorSpec /\ DriversSpec /\ SerialSpec
  <1>1. Init => /\ BlkInit /\ AhciInit /\ PartitionsInit /\ ConsoleInit
                /\ EditorInit /\ DriversInit /\ SerialInit
    BY DEF Init
  <1>2. ASSUME [Next]_vars
        PROVE  /\ [BlkNext]_BlkVars /\ [AhciNext]_AhciVars /\ [PartitionsNext]_PartitionVars
               /\ [ConsoleNext]_ConsoleVars /\ [EditorNext]_EditorVars
               /\ [DriversNext]_DriverVars /\ [SerialNext]_SerialVars
    <2>1. CASE UNCHANGED vars
      BY <2>1 DEF vars
    <2>2. CASE Next
      BY <2>2 DEF Next, Others
    <2> QED BY <1>2, <2>1, <2>2
  <1> QED BY <1>1, <1>2, PTL
          DEF Spec, BlkSpec, AhciSpec, PartitionsSpec, ConsoleSpec, EditorSpec, DriversSpec, SerialSpec

\* Theorem: every one of them keeps its tables, indices and counters within
\* their types and limits.
THEOREM ServicesTypeCorrect == Spec => []TypeOK
  <1>1. ASSUME BlkTypeOK, AhciTypeOK, PartitionsTypeOK,
               ConsoleTypeOK, EditorTypeOK, DriversTypeOK, SerialTypeOK
        PROVE  TypeOK
    BY <1>1 DEF TypeOK
  <1> QED BY <1>1, ServicesCompose, BlkTypeCorrect, AhciTypeCorrect, PartitionsTypeCorrect,
             ConsoleTypeCorrect, EditorTypeCorrect, DriversTypeCorrect, SerialTypeCorrect, PTL
=============================================================================
