---------------------------- MODULE LiveDisplay ----------------------------
(***************************************************************************)
(* The display of a running capture (RowDisplayThread and                  *)
(* ColumnDisplayThread of COMSCOPE/thread.c), with what the window         *)
(* procedures do to its cursors (COMSCOPE/comscope.c, column.c).           *)
(*                                                                         *)
(* The thread draws the elements of the stream one after another; the      *)
(* monitor keeps less than a buffer ahead of it, what happens when it does *)
(* not is in Capture.  A cell of a screen holds the number of the element  *)
(* drawn there, 0 when it is blank.  Lines are counted from the bottom, as *)
(* the coordinates of the window are: a new line is the one below, and     *)
(* the top one after the bottom one.                                       *)
(***************************************************************************)
EXTENDS Screen

CONSTANTS
    Streams,        \* the streams a device may carry
    CaptureLength   \* stCFG.lBufferLength

VARIABLES
    stream,     \* what the device carries in this session
    at,         \* the thread's place: pos elements read, index lReadIndex in the
                \* capture buffer, left words of a packet to skip, the last was an overflow
    row,        \* the row screen: its cursor and its cells
    col,        \* the column screens, and the thread's flags for each
    drawn,      \* what has been drawn since the last painting, per screen
    stale       \* a screen is to be painted, or was drawn on by the old options

liveVars == <<stream, at, row, col, drawn, stale>>

Area(h, w) == (0 .. h - 1) \X (0 .. w - 1)
Blank(h, w) == [p \in Area(h, w) |-> 0]

RowStart == [y |-> frame.h - 1, x |-> 0, cells |-> Blank(frame.h, frame.w)]

\* bLast...WasNewLine, and whether the next line is to start at the other's.
ColStart == [y |-> ColHeight - 1, x |-> 0, cells |-> Blank(ColHeight, ColWidth),
             newLine |-> FALSE, jump |-> FALSE, line |-> 0]

AtStart == [pos |-> 0, index |-> 0, left |-> 0, overflow |-> FALSE]
NothingDrawn == [s \in {"row", "read", "write"} |-> <<>>]

LiveInit ==
    /\ stream \in Streams
    /\ at = AtStart
    /\ row = RowStart
    /\ col = [d \in Directions |-> ColStart]
    /\ drawn = NothingDrawn
    /\ stale = FALSE
-----------------------------------------------------------------------------
More == at.pos < Len(stream)
Element == stream[at.pos + 1]

\* lReadIndex, wrapped before an element is read.
Read == [at EXCEPT !.pos = @ + 1, !.index = (IF @ >= CaptureLength THEN 0 ELSE @) + 1]

\* A word of a packet is passed over; where the buffer ends inside the packet the
\* wrapping takes the place of one.
Skip ==
    /\ More /\ at.left > 0
    /\ at' = IF at.index >= CaptureLength
             THEN [at EXCEPT !.left = @ - 1, !.index = 0]
             ELSE [at EXCEPT !.left = @ - 1, !.pos = @ + 1, !.index = @ + 1]
    /\ UNCHANGED <<stream, row, col, drawn, stale>>

\* Line y blanked.
Cleared(cells, lines) == [p \in DOMAIN cells |-> IF p[1] \in lines THEN 0 ELSE cells[p]]

\* The element at the cursor; outside the window nothing is seen.
DrawnAt(s) == IF <<s.y, s.x>> \in DOMAIN s.cells
              THEN [s EXCEPT !.cells[<<s.y, s.x>>] = at.pos + 1] ELSE s

Below(s, top) == IF s.y <= 0 THEN top ELSE s.y - 1

\* (mutant) the line the cursor goes to is not blanked.
NextLineUncleared(s, top) == [s EXCEPT !.y = Below(s, top), !.x = 0]

\* The cursor on the next line, which is blanked first.
NextLine(s, top) ==
    [s EXCEPT !.y = Below(s, top), !.x = 0, !.cells = Cleared(@, {Below(s, top)})]

Recorded(screen, s) == IF <<s.y, s.x>> \in DOMAIN s.cells
                       THEN [drawn EXCEPT ![screen] = Append(@, at.pos + 1)] ELSE drawn

\* An overflow is drawn once, however often the driver reports it.
Draws(e) ==
    /\ DrawOption[e.k] \in shown
    /\ ~(e.k = "overflow" /\ at.overflow)

RowCursor(s) == IF s.x >= frame.w - 1 THEN NextLine(s, frame.h - 1) ELSE [s EXCEPT !.x = @ + 1]

\* The body of RowDisplayThread's loop.
ShowInRow ==
    /\ ~columns
    /\ More /\ at.left = 0
    /\ at' = [Read EXCEPT !.left = IF Element.k = "packet" THEN Element.v ELSE 0,
                          !.overflow = Element.k = "overflow" /\ (@ \/ Draws(Element))]
    /\ IF Draws(Element)
       THEN row' = RowCursor(DrawnAt(row)) /\ drawn' = Recorded("row", row)
       ELSE UNCHANGED <<row, drawn>>
    /\ UNCHANGED <<stream, col, stale>>
-----------------------------------------------------------------------------
\* A newline: its glyph if it has one and there is room, then the next line, and
\* the other column is to follow if it is synchronised.
Broken(dir, s, c) ==
    LET o == opt[dir]
        ends == NextLine(IF CharPrintable(o, c) /\ (o.wrap \/ s.x < ColWidth) THEN DrawnAt(s) ELSE s,
                         ColHeight - 1)
    IN [col EXCEPT ![dir] = [ends EXCEPT !.newLine = TRUE],
                   ![Other(dir)] = IF opt[Other(dir)].sync
                                   THEN [@ EXCEPT !.jump = TRUE, !.line = ends.y] ELSE @]

\* The first character of a line goes to the line the other column began, and what
\* is between, or above, is blanked.
Jumps(s) ==
    LET lines == IF s.y > s.line THEN s.line - 1 .. s.y - 1 ELSE s.line - 1 .. ColHeight
    IN [s EXCEPT !.y = s.line, !.jump = FALSE, !.cells = Cleared(@, lines)]

ColCursor(o, s) == IF o.wrap /\ s.x >= ColWidth - 1 THEN NextLine(s, ColHeight - 1)
                   ELSE [s EXCEPT !.x = @ + 1]

Aligned(s) == IF s.jump /\ s.x = 0 THEN Jumps(s) ELSE s

Shows(dir, s) == ColCursor(opt[dir], DrawnAt(Aligned([s EXCEPT !.newLine = FALSE])))

ColumnElement(dir, c) ==
    LET o == opt[dir]
        s == col[dir]
    IN IF o.nl /\ c = NewLine
       THEN IF o.skip /\ s.newLine THEN UNCHANGED <<col, drawn>>
            ELSE /\ col' = Broken(dir, s, c)
                 /\ drawn' = IF CharPrintable(o, c) /\ (o.wrap \/ s.x < ColWidth)
                             THEN Recorded(dir, s) ELSE drawn
       ELSE IF CharPrintable(o, c)
            THEN col' = [col EXCEPT ![dir] = Shows(dir, s)] /\ drawn' = Recorded(dir, Aligned(s))
            ELSE col' = [col EXCEPT ![dir].newLine = FALSE] /\ UNCHANGED drawn

\* The body of ColumnDisplayThread's loop.
ShowInColumn ==
    /\ columns
    /\ More /\ at.left = 0
    /\ at' = [Read EXCEPT !.left = IF Element.k = "packet" THEN Element.v ELSE 0]
    /\ IF Column[Element.k] \in Directions
       THEN ColumnElement(Column[Element.k], Masked(opt[Column[Element.k]], Element.v))
       ELSE UNCHANGED <<col, drawn>>
    /\ UNCHANGED <<stream, row, stale>>
-----------------------------------------------------------------------------
\* A new thread starts at the write index, with its cursors in the first line; its
\* flags are its own.  The screens are as they were until they are painted.
ThreadStarts ==
    /\ \E n \in at.pos .. Len(stream) :
          at' = [AtStart EXCEPT !.pos = n, !.index = IF n = 0 THEN 0 ELSE ((n - 1) % CaptureLength) + 1]
    /\ row' = [row EXCEPT !.y = frame.h - 1, !.x = 0]
    /\ col' = [d \in Directions |-> [ColStart EXCEPT !.cells = col[d].cells]]
    /\ stale' = TRUE
    /\ UNCHANGED <<stream, drawn>>

\* WM_PAINT while a stream is displayed: blank screens and cursors in the first line.
Paints ==
    /\ row' = [row EXCEPT !.y = frame.h - 1, !.x = 0, !.cells = Blank(frame.h, frame.w)]
    /\ col' = [d \in Directions |-> [col[d] EXCEPT !.y = ColHeight - 1, !.x = 0,
                                                   !.cells = Blank(ColHeight, ColWidth)]]

Paint ==
    /\ Paints
    /\ stale' = FALSE
    /\ drawn' = NothingDrawn
    /\ UNCHANGED <<stream, at>>
-----------------------------------------------------------------------------
\* The cells of a screen in the order in which they are written, from the line
\* below the cursor's to the cursor's, blanks left out.
Written(s) ==
    LET h == Cardinality({p[1] : p \in DOMAIN s.cells})
        w == Cardinality({p[2] : p \in DOMAIN s.cells})
        line(i) == (s.y - i + h) % h
    IN SelectSeq([k \in 1 .. h * w |-> s.cells[<<line((k - 1) \div w + 1), (k - 1) % w>>]],
                 LAMBDA n : n # 0)

Least(a, b) == IF a < b THEN a ELSE b

Increasing(q) == \A i, j \in DOMAIN q : i < j => q[i] < q[j]

\* Each element is drawn in order of transfer, each in the next position: read from
\* the line after the cursor's to the cursor, a screen holds the end of what was
\* drawn since it was painted, in order and without a hole, whatever the lines are
\* broken by.  (A synchronised column loses the lines it blanks when it jumps, and
\* keeps the order.)
LiveInOrder ==
    ~stale =>
        /\ ~columns => /\ IsSuffix(Written(row), drawn.row)
                       /\ Len(Written(row)) >= Least(Len(drawn.row), frame.w * (frame.h - 1))
        /\ columns => \A d \in Directions :
              /\ Increasing(Written(col[d]))
              /\ ~(\E e \in Directions : opt[e].sync) => IsSuffix(Written(col[d]), drawn[d])
=============================================================================
