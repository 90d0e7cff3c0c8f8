------------------------------ MODULE Examine ------------------------------
(***************************************************************************)
(* COMscope's display of a finished capture: the scroll buffer, the place  *)
(* of each screen in it, and the commands that move them (COMSCOPE/        *)
(* scroll.c, search.c, and the parts of comscope.c, column.c, csutil.c,    *)
(* wincmd.c and dialog.c that call them).                                  *)
(*                                                                         *)
(* Indices count from 0 as the code's do.  What is painted is a page: the  *)
(* indices of the elements in their order, or the cells they are in.  Past *)
(* the end of the buffer nothing is modelled: when an index is outside it, *)
(* the session is over.                                                    *)
(***************************************************************************)
EXTENDS Screen

CONSTANTS Finds     \* what the user may look for

VARIABLES
    viewing,    \* fDisplaying: the capture (DISP_DATA), a file (DISP_FILE), or neither
    buf,        \* pwScrollBuffer, lScrollCount long
    scr,        \* lScrollIndex, lScrollRow, lScrollRowCount, lScrollEndIndex, a scroll bar
    page        \* what RowPaint has painted, and its static bLastWasOverflow

examineVars == <<viewing, buf, scr, page>>

Screens == {"row"} \cup Directions
NoPage == [from |-> 0, cells |-> <<>>, over |-> FALSE]

ExamineInit ==
    /\ viewing = "no"
    /\ buf = <<>>
    /\ scr = [s \in Screens |-> [idx |-> 0, row |-> 0, rows |-> 0, end |-> 0, bar |-> FALSE]]
    /\ page = NoPage

N == Len(buf)
At(i) == IF i < N THEN buf[i + 1] ELSE [k |-> "raw", v |-> 0]

Greatest(S) == CHOOSE x \in S : \A y \in S : y <= x
Smallest(S) == CHOOSE x \in S : \A y \in S : x <= y
Ascending(S) == SelectSeq([i \in 1 .. N + 1 |-> i - 1], LAMBDA i : i \in S)
Descending(S) == Reverse(Ascending(S))
-----------------------------------------------------------------------------
\* CountTraceElement for both directions: one if the element is shown, none if it is
\* not, and the length of a packet with its header.
Counted(e) == IF e.k = "packet" THEN e.v + 1 ELSE IF CountOption[e.k] \in shown THEN 1 ELSE 0

\* (mutant) a packet is taken for as many elements as it has bytes.
StepShort(i) == i + (IF Counted(At(i)) > 1 THEN Counted(At(i)) - 1 ELSE 1)

Step(i) == i + (IF Counted(At(i)) > 1 THEN Counted(At(i)) ELSE 1)

\* The indices below `to' that a scan from `from' stops at, and where it ends.
Scan(from, to) ==
    LET scan[i \in Nat] == IF i >= to THEN <<>> ELSE <<i>> \o scan[Step(i)] IN scan[from]

Ends(from, to) == IF from >= to THEN from ELSE Step(Last(Scan(from, to)))

Hits(from, to) == SelectSeq(Scan(from, to), LAMBDA i : Counted(At(i)) = 1)

DisplayCount(to) == Len(Hits(0, to))

RowsOf(to, w) == (DisplayCount(to) + w - 1) \div w

\* Going down: the index of the k-th shown element after this one.
Forward(from, k, end) ==
    LET hits == Hits(from, end) IN IF Len(hits) > k THEN hits[k + 1] ELSE Ends(from, end)

\* Going up packets are met from behind: their words count as if they were elements,
\* and at the header what is shown between it and the index of its length is taken
\* off again.
Weight(i) ==
    IF At(i).k = "packet"
    THEN -Cardinality({j \in i + 1 .. At(i).v - 1 : At(j).k = "packet" \/ Counted(At(j)) = 1})
    ELSE Counted(At(i))

\* (mutant) going up stops an element late.
BackwardLate(from, k) ==
    LET stops == {i \in 0 .. from - 1 : Weight(i) = 1 /\ MapThenSumSet(Weight, i .. from - 1) > k}
    IN IF from <= 0 THEN 0 ELSE IF stops = {} THEN -1 ELSE Greatest(stops)

Backward(from, k) ==
    LET stops == {i \in 0 .. from - 1 : Weight(i) = 1 /\ MapThenSumSet(Weight, i .. from - 1) >= k}
    IN IF from <= 0 THEN 0 ELSE IF stops = {} THEN -1 ELSE Greatest(stops)
-----------------------------------------------------------------------------
RowWidth(s) == frame.w - (IF s.bar THEN 1 ELSE 0)
RowSize(s) == RowWidth(s) * frame.h

\* Where the last page begins; it is left as it was when everything fits in one.
RowEnd(s) ==
    IF RowsOf(N, RowWidth(s)) <= frame.h THEN s.end
    ELSE LET i == Backward(N, RowSize(s)) IN IF i < 0 THEN 0 ELSE i

\* SetupRowScrolling: the bar takes a column of the window, and only then is counted.
SetupRow(s) ==
    LET t == [s EXCEPT !.bar = TRUE]
    IN [t EXCEPT !.end = RowEnd(t), !.rows = RowsOf(N, RowWidth(t))]

\* The elements that a painting comes to.
Painted(from) ==
    LET from2[i \in Nat] ==
            IF i >= N THEN <<>>
            ELSE <<i>> \o from2[i + 1 + (IF At(i).k = "packet" THEN At(i).v ELSE 0)]
    IN from2[from]

\* RowPaint, from the first shown element until the page is full.
RowPaint(s, over) ==
    LET paint(p, i) ==
            IF Len(p.cells) = RowSize(s) THEN p
            ELSE LET again == At(i).k = "overflow"
                     draws == DrawOption[At(i).k] \in shown /\ ~(again /\ p.over)
                 IN [p EXCEPT !.cells = IF draws THEN Append(@, i) ELSE @,
                              !.over = again /\ (@ \/ draws)]
    IN FoldLeft(paint, [from |-> s.idx, cells |-> <<>>, over |-> over], Painted(s.idx))

\* DisplayCharacterInfo: the element that the n-th cell of the page is taken for.
Clicked(n) == LET hits == Hits(scr.row.idx, N) IN IF n <= Len(hits) THEN hits[n] ELSE -1
-----------------------------------------------------------------------------
\* CountTraceElement for one direction reads the low half of the kind's byte, and
\* takes every element for one of that direction.
Nibble == [k \in Kinds |-> CASE k \in {"read", "write", "raw"} -> 0
                             [] k \in {"readImm", "writeImm"} -> 1
                             [] k \in {"readReq", "writeReq"} -> 2
                             [] k \in {"modemIn", "modemOut"} -> 4
                             [] k \in {"overflow", "devIoctl"} -> 5
                             [] k \in {"error", "open"} -> 6
                             [] k = "breakTx" -> 10
                             [] OTHER -> 15]

NibbleOption ==
    [read |-> [b \in 0 .. 15 |-> CASE b = 0 -> "Read" [] b = 1 -> "IMM" [] b = 2 -> "ReadReq"
                                   [] b = 4 -> "ModemIn" [] b \in 5 .. 7 -> "Errors"
                                   [] OTHER -> "none"],
     write |-> [b \in 0 .. 15 |-> CASE b = 0 -> "Write" [] b = 1 -> "IMM" [] b = 2 -> "WriteReq"
                                    [] b = 4 -> "ModemOut" [] b \in {5, 10} -> "DevIOctl"
                                    [] b \in 6 .. 9 -> "Open" [] OTHER -> "none"]]

Width(s) == ColWidth - (IF s.bar THEN 1 ELSE 0)

\* GetColScrollRow: by newlines it finds none (it looks at the kind, not the byte).
ColScrollRow(dir, s) ==
    IF opt[dir].nl THEN 0
    ELSE Cardinality({i \in 0 .. s.idx - 1 : NibbleOption[dir][Nibble[At(i).k]] \in shown})
             \div Width(s)

\* The characters of a column, its newlines, and what is printed of it.
InCol(dir) == {i \in 0 .. N - 1 : At(i).k = dir}
Char(dir, i) == Masked(opt[dir], At(i).v)
Breaks(dir) == {i \in InCol(dir) : Char(dir, i) = NewLine}
Prints(dir) == {i \in InCol(dir) \ Breaks(dir) : CharPrintable(opt[dir], Char(dir, i))}

Between(S, a, b) == {i \in S : a <= i /\ i <= b}

\* The first characters of the lines that are not empty.
Starts(dir) ==
    {i \in Prints(dir) : \A j \in Prints(dir) : j < i => Between(Breaks(dir), j, i) # {}}

\* The newlines that count: of those in a row one, if blank lines are skipped.
CountedBreaks(dir, from) ==
    {b \in Breaks(dir) : /\ b >= from
                         /\ opt[dir].skip => \A c \in Between(Breaks(dir), from, b - 1) :
                                                 Between(Prints(dir), c, b) # {}}

ColEnd(dir, s) ==
    IF opt[dir].nl
    THEN LET last == IF Starts(dir) = {} THEN 0 ELSE Greatest(Starts(dir))
             least == N - Width(s) * ColHeight
         IN IF last < least THEN least ELSE last
    ELSE IF InCol(dir) = {} THEN s.end ELSE Greatest(InCol(dir))

ColRows(dir, s) ==
    IF opt[dir].nl THEN Cardinality({b \in CountedBreaks(dir, 0) : b < s.end})
    ELSE Cardinality({i \in InCol(dir) : i < s.end}) \div Width(s)

\* The first character of the k-th line below; past the end if there is none.
LineDown(dir, from, k) ==
    LET breaks == Ascending(CountedBreaks(dir, from + 1))
        after == IF Len(breaks) < k THEN {} ELSE {i \in Prints(dir) : i > breaks[k]}
    IN IF after = {} THEN N ELSE Smallest(after)

\* (mutant) going up stops at the line's end.
LineUpLast(dir, from, k) ==
    LET breaks == Descending({i \in Breaks(dir) : i < from})
    IN IF Len(breaks) < k THEN 0 ELSE breaks[k]

LineUp(dir, from, k) ==
    LET starts == Descending({i \in Starts(dir) : i < from})
    IN IF starts = <<>> THEN from ELSE starts[IF Len(starts) < k THEN Len(starts) ELSE k]

\* GetColScrollIndex, k lines down or up.
ColIndex(dir, s, k) ==
    LET w == Width(s)
        down == Ascending({i \in InCol(dir) : i > s.idx})
        up == Descending({i \in InCol(dir) : i < s.idx})
        past == IF s.idx < N THEN N ELSE s.idx + 1
    IN CASE k = 0 -> s.idx
         [] k > 0 /\ opt[dir].nl -> IF s.idx < N THEN LineDown(dir, s.idx, k) ELSE past
         [] k < 0 /\ opt[dir].nl -> LineUp(dir, s.idx, -k)
         [] k > 0 /\ ~opt[dir].nl -> IF Len(down) > w * k THEN down[w * k + 1] ELSE past
         [] k < 0 /\ ~opt[dir].nl -> IF Len(up) > w * (-k) THEN up[w * (-k) + 1] ELSE -1

\* AdjustScrollBar and SetupColScrolling.
Adjusted(dir, s) ==
    LET t == [s EXCEPT !.end = ColEnd(dir, s)] IN [t EXCEPT !.rows = ColRows(dir, t)]
SetupCol(dir, s) == Adjusted(dir, [s EXCEPT !.bar = TRUE])

\* ColumnPaint: the cell of each element, lines counted from the bottom.  On the last
\* line a newline is drawn and no more, and what wraps from it is not seen.
ColumnPage(dir) ==
    LET o == opt[dir]
        w == Width(scr[dir])
        paint(p, i) ==
            LET c == Char(dir, i)
                put(q) == [q EXCEPT !.cells = @ \cup {[i |-> i, y |-> q.y, x |-> q.x]}]
            IN IF Column[At(i).k] # dir THEN p
               ELSE IF o.nl /\ c = NewLine
               THEN LET q == IF CharPrintable(o, c) /\ (o.wrap \/ p.x < w) THEN put(p) ELSE p
                    IN CASE o.skip /\ p.last -> p
                         [] ~(o.skip /\ p.last) /\ p.y <= 0 -> q
                         [] OTHER -> [q EXCEPT !.y = @ - 1, !.x = 0, !.last = TRUE]
               ELSE IF ~CharPrintable(o, c) THEN p
               ELSE LET q == [p EXCEPT !.last = FALSE]
                        next == [q EXCEPT !.y = @ - 1, !.x = 0]
                    IN CASE p.x < w -> [put(q) EXCEPT !.x = @ + 1]
                         [] p.x >= w /\ o.wrap -> [put(next) EXCEPT !.x = @ + 1]
                         [] OTHER -> q
    IN {c \in FoldLeft(paint, [y |-> ColHeight - 1, x |-> 0, last |-> FALSE, cells |-> {}],
                       Painted(scr[dir].idx)).cells : c.y >= 0}
-----------------------------------------------------------------------------
InBuffer == \A s \in Screens : scr[s].idx \in 0 .. N

Viewing == viewing # "no" /\ InBuffer

Repaint(s) == page' = RowPaint(s, page.over)

\* Both columns at the row screen's index.
Follow(t, idx) ==
    IF ~(opt["read"].sync \/ opt["write"].sync) THEN t
    ELSE [s \in Screens |->
             IF s = "row" THEN t.row
             ELSE [t[s] EXCEPT !.idx = idx, !.row = ColScrollRow(s, [t[s] EXCEPT !.idx = idx])]]

\* RowScroll's end: nothing happens, not even to the row, when the index is the same.
RowGoes(idx, row) ==
    IF idx = scr.row.idx THEN UNCHANGED <<scr, page>>
    ELSE /\ scr' = Follow([scr EXCEPT !.row.idx = idx, !.row.row = row], idx)
         /\ Repaint(scr'.row)

\* Lines up or down from the element the screen is at.
RowIndex(k) ==
    LET s == scr.row
        i == IF k > 0 THEN Forward(s.idx, RowWidth(s) * k, s.end) ELSE Backward(s.idx, RowWidth(s) * (-k))
    IN IF i > s.end THEN s.end ELSE IF i < 0 THEN 0 ELSE i

RowScroll(k) ==
    LET s == scr.row
    IN CASE s.row + k >= s.rows -> RowGoes(s.end, s.rows)
         [] s.row + k < s.rows /\ s.row + k <= 0 -> RowGoes(0, 0)
         [] OTHER -> RowGoes(RowIndex(k), s.row + k)

RowSlide(r) == RowGoes(IF r = 0 THEN 0 ELSE Forward(0, RowWidth(scr.row) * r, scr.row.end), r)

\* ColScroll's end: the other column and the row screen follow this one.
ColGoes(t, dir, idx, row) ==
    IF idx = t[dir].idx THEN t
    ELSE LET u == [t EXCEPT ![dir].idx = idx, ![dir].row = row]
         IN IF opt[dir].sync
            THEN [u EXCEPT ![Other(dir)].idx = idx,
                           !.row.idx = idx, !.row.row = RowsOf(idx, RowWidth(u.row))]
            ELSE u

ColScroll(t, dir, k) ==
    LET s == t[dir]
        i == ColIndex(dir, s, k)
    IN CASE s.row + k >= s.rows -> ColGoes(t, dir, s.end, s.rows)
         [] s.row + k < s.rows /\ s.row + k <= 0 -> ColGoes(t, dir, 0, 0)
         [] OTHER -> ColGoes(t, dir, IF i > s.end THEN s.end ELSE IF i < 0 THEN 0 ELSE i, s.row + k)

ColSlide(t, dir, r) == ColGoes(t, dir, ColIndex(dir, t[dir], r - t[dir].row), r)
-----------------------------------------------------------------------------
\* The high half of the kind's byte.
Side == [k \in Kinds |->
            CASE k \in {"read", "readImm", "readReq", "modemIn", "overflow", "error"} -> "read"
              [] k \in {"packet", "raw"} -> "none"
              [] OTHER -> "write"]

\* SearchCaptureBuffer begins at the place of the row screen or of a column; with a
\* string to find it is the buffer's first element that says which.
StartIndex(f) ==
    LET r == scr["read"].idx
        w == scr["write"].idx
        side == IF f.text = <<>> THEN "none" ELSE Side[At(0).k]
    IN CASE ~columns -> scr.row.idx
         [] columns /\ side # "none" -> scr[side].idx
         [] columns /\ side = "none" -> IF (r > w) = f.forward THEN w ELSE r

\* (mutant) a character that does not match leaves the matching where it is.
MatchOn(f, text, i, a) ==
    IF f.text = <<>> \/ At(i).k # f.dir \/ text[a.j + 1] # At(i).v THEN a
    ELSE LET first == IF a.j = 0 THEN i ELSE a.first
         IN IF a.j + 1 >= Len(text) THEN [a EXCEPT !.hit = IF f.forward THEN first ELSE i]
            ELSE [a EXCEPT !.j = @ + 1, !.first = first]

\* One element against the string: what does not match begins it anew, and is not
\* tried as its beginning.
Match(f, text, i, a) ==
    IF f.text = <<>> \/ At(i).k # f.dir THEN a
    ELSE IF text[a.j + 1] # At(i).v THEN [a EXCEPT !.j = 0]
    ELSE LET first == IF a.j = 0 THEN i ELSE a.first
         IN IF a.j + 1 >= Len(text) THEN [a EXCEPT !.hit = IF f.forward THEN first ELSE i]
            ELSE [a EXCEPT !.j = @ + 1, !.first = first]

\* The first of these indices with an event that is looked for, or where the string is.
Found(f, indices) ==
    LET text == IF f.forward THEN f.text ELSE Reverse(f.text)
        look(a, i) == IF a.hit # -1 THEN a
                      ELSE IF CountOption[At(i).k] \in f.events THEN [a EXCEPT !.hit = i]
                      ELSE Match(f, text, i, a)
    IN FoldLeft(look, [j |-> 0, first |-> 0, hit |-> -1], indices).hit

\* To the end and then, if it is to wrap, the rest and the start once more.
Search(f) ==
    LET s == IF f.forward THEN StartIndex(f) + 1 ELSE StartIndex(f) - 1
        ahead == IF f.forward THEN Ascending(s .. N - 1) ELSE Descending(0 .. s)
        rest == IF f.forward THEN Ascending(0 .. s) ELSE Descending(s .. N - 1)
    IN CASE s > N \/ s < 0 -> -1
         [] s \in 0 .. N /\ Found(f, ahead) # -1 -> Found(f, ahead)
         [] OTHER -> IF f.wrap THEN Found(f, rest) ELSE -1

\* Found: the screens are there; the row screen is not painted again.
GoTo(i) ==
    scr' = IF columns
           THEN [s \in Screens |-> IF s = "row" THEN scr.row
                                   ELSE [scr[s] EXCEPT !.idx = i,
                                                       !.row = DisplayCount(i) \div Width(scr[s])]]
           ELSE [scr EXCEPT !.row.idx = i, !.row.row = DisplayCount(i) \div RowWidth(scr.row)]
-----------------------------------------------------------------------------
\* Every element is drawn if it is counted, and counted for itself going up.
Plain == \A i \in 0 .. N - 1 :
            /\ CountOption[At(i).k] \in shown <=> DrawOption[At(i).k] \in shown
            /\ At(i).k # "overflow"
            /\ At(i).k = "packet" => Weight(i) = 0

\* A click tells of the element drawn where it is, however many packets and elements
\* that are not shown are among them.  (Search moves the row screen's place without
\* painting it; till then a click tells of another.)
ClickTells ==
    Viewing /\ ~columns /\ Plain /\ page.from = scr.row.idx =>
        \A n \in DOMAIN page.cells : Clicked(n) = page.cells[n]

\* What a search finds is there: an event of a kind that is looked for, or the string,
\* read along the elements of its direction.
FoundMatches ==
    Viewing => \A f \in Finds :
        LET i == Search(f)
            along == SelectSeq(Ascending(i .. N - 1), LAMBDA j : At(j).k = f.dir)
        IN i # -1 => \/ CountOption[At(i).k] \in f.events
                     \/ /\ f.text # <<>> /\ i \in 0 .. N - 1 /\ Len(along) >= Len(f.text)
                        /\ \A j \in DOMAIN f.text : At(along[j]).v = f.text[j]

\* A column that breaks its lines at newlines goes a line down to the first character
\* of the next line painted that is not blank, and a line up from there to where it
\* was: the scans that move it and the painting agree on what a line is.
LinesAgree ==
    Viewing => \A dir \in Directions :
        LET i == scr[dir].idx
            below == LineDown(dir, i, 1)
            lines == ColumnPage(dir)
            first == {c \in lines : c.i \in Prints(dir) /\ c.x = 0 /\ c.y < ColHeight - 1}
        IN opt[dir].nl /\ ~opt[dir].wrap /\ i \in Starts(dir) =>
              /\ below < N => LineUp(dir, below, 1) = i
              /\ (\A j \in 0 .. N - 1 : At(j).k # "packet" /\ At(j).k \notin {"readImm", "writeImm"})
                 /\ first # {} => below = Smallest({c.i : c \in first})
=============================================================================
