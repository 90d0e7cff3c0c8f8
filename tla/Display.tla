------------------------------ MODULE Display ------------------------------
(***************************************************************************)
(* COMscope's window: the display of the running capture, the examination  *)
(* of the finished one or of a file, and the commands that lead from one   *)
(* to the other and change how either is shown (COMSCOPE/comscope.c,       *)
(* column.c, csutil.c, wincmd.c, dialog.c).                                *)
(*                                                                         *)
(* The window's messages are handled one at a time; the display thread     *)
(* runs between them.                                                      *)
(***************************************************************************)
EXTENDS LiveDisplay, Examine

CONSTANTS
    Files,          \* the traces that may be loaded
    MaxCommands     \* the commands that a session may have

VARIABLES
    streaming,  \* the capture runs and is displayed (DISP_STREAM)
    n           \* the commands given

vars == <<screenVars, liveVars, examineVars, streaming, n>>

\* A file that was examined when the program was last left is loaded again, and the
\* columns are where they were.
Restored(b) ==
    /\ buf = b /\ viewing = "file" /\ streaming = FALSE
    /\ stream = <<>> /\ at = AtStart /\ row = RowStart /\ col = [d \in Directions |-> ColStart]
    /\ drawn = NothingDrawn /\ stale = FALSE
    /\ \E i \in {0, Len(b) \div 2} :
          LET s == [idx |-> IF columns THEN i ELSE 0, row |-> 0, rows |-> 0, end |-> 0, bar |-> FALSE]
          IN /\ columns \/ i = 0
             /\ scr = IF columns
                      THEN [d \in Screens |-> IF d = "row" \/ opt[Other(d)].sync THEN s ELSE SetupCol(d, s)]
                      ELSE [d \in Screens |-> IF d = "row" THEN SetupRow(s) ELSE s]
    /\ page = IF columns THEN NoPage ELSE RowPaint(scr.row, FALSE)

Init ==
    /\ ScreenInit
    /\ n = 0
    /\ \/ LiveInit /\ ExamineInit /\ streaming = TRUE
       \/ \E b \in Files : Restored(b)

Command == n < MaxCommands /\ n' = n + 1

\* A command to the running display, and one to the examination.
Live == Command /\ streaming /\ UNCHANGED <<examineVars, streaming>>
Examining == Command /\ Viewing /\ UNCHANGED <<liveVars, viewing, buf, streaming>>
-----------------------------------------------------------------------------
\* The display thread, and the window's painting.
Thread ==
    /\ streaming
    /\ Skip \/ ShowInRow \/ ShowInColumn \/ Paint
    /\ UNCHANGED <<screenVars, examineVars, streaming, n>>

\* The other format: the thread is killed and one for the format started.
SwitchLive ==
    /\ Live
    /\ columns' = ~columns
    /\ ThreadStarts
    /\ UNCHANGED <<shown, opt, frame>>

EventsLive ==
    /\ Live
    /\ shown' \in ShownSets
    /\ stale' = TRUE
    /\ UNCHANGED <<opt, frame, columns, stream, at, row, col, drawn>>

\* The dialog works on a copy of the SCREEN, and writes all of it back: the cursor is
\* where it was when the dialog was opened.  A painting is under way.
FilterLive(dir, l) ==
    /\ Live /\ columns
    /\ opt' = OptionsSet(dir, l)
    /\ \E y \in {col[dir].y, ColHeight - 1} :
          col' = [col EXCEPT ![dir].y = y, ![dir].x = IF y = col[dir].y THEN @ ELSE 0]
    /\ stale' = TRUE
    /\ UNCHANGED <<shown, frame, columns, stream, at, row, drawn>>

\* WndSize puts the cursors in the first line of the new window.
ResizeLive ==
    /\ Live
    /\ frame' \in Frames \ {frame}
    /\ UNCHANGED <<shown, opt, columns, stream, at, drawn>>
    /\ row' = [y |-> frame'.h - 1, x |-> 0, cells |-> Blank(frame'.h, frame'.w)]
    /\ col' = [d \in Directions |->
                  [col[d] EXCEPT !.y = (ColHeight)' - 1, !.x = 0, !.cells = Blank((ColHeight)', (ColWidth)')]]
    /\ stale' = TRUE
-----------------------------------------------------------------------------
LiveAnew ==
    /\ at' = AtStart /\ row' = RowStart /\ col' = [d \in Directions |-> ColStart]
    /\ drawn' = NothingDrawn /\ stale' = FALSE

\* Nothing is left of a page but the static flag.
Unpainted == [NoPage EXCEPT !.over = page.over]

\* A buffer is shown from its start: the screens of the format are set up, and the
\* last page of the others is where it was.  What was displayed is of no use any more.
Shown(b, what) ==
    /\ buf' = b
    /\ viewing' = what
    /\ streaming' = FALSE
    /\ stream' = <<>> /\ LiveAnew
    /\ UNCHANGED screenVars
    /\ \E t \in {[s \in Screens |-> [scr[s] EXCEPT !.idx = 0, !.row = 0, !.bar = FALSE]]}, over \in {page.over} :
          /\ scr' = IF columns
                    THEN [s \in Screens |-> IF s = "row" \/ opt[Other(s)].sync THEN t[s] ELSE SetupCol(s, t[s])']
                    ELSE [t EXCEPT !.row = SetupRow(t.row)']
          /\ page' = IF columns THEN Unpainted ELSE RowPaint(scr.row, over)'

\* Examine Data: the threads are killed, the monitor somewhere in what is to be read,
\* and the buffer is what the ring holds.
View ==
    /\ Command /\ streaming
    /\ \E m \in at.pos .. at.pos + CaptureLength - 1 :
          /\ 0 < m /\ m <= Len(stream)
          /\ Shown(SubSeq(stream, IF m > CaptureLength THEN m - CaptureLength + 1 ELSE 1, m), "data")

Load == Command /\ ~streaming /\ \E t \in Files : Shown(t, "file")

\* Examine Data again ends it, for the capture's buffer; it is freed.
Unview ==
    /\ Command /\ viewing = "data"
    /\ viewing' = "no" /\ buf' = <<>>
    /\ scr' = [s \in Screens |-> [scr[s] EXCEPT !.bar = FALSE]]
    /\ page' = Unpainted
    /\ UNCHANGED <<screenVars, liveVars, streaming>>

\* Capture Data Stream and Display Data Stream: a new session.
Stream ==
    /\ Command /\ ~streaming
    /\ stream' \in Streams
    /\ LiveAnew
    /\ viewing' = "no" /\ streaming' = TRUE
    /\ scr' = [s \in Screens |-> [scr[s] EXCEPT !.bar = FALSE,
                                                !.idx = IF columns /\ s # "row" THEN 0 ELSE @,
                                                !.row = IF columns /\ s # "row" THEN 0 ELSE @]]
    /\ page' = Unpainted
    /\ UNCHANGED <<screenVars, buf>>
-----------------------------------------------------------------------------
Events ==
    /\ Examining
    /\ shown' \in ShownSets
    /\ UNCHANGED <<opt, frame, columns>>
    /\ IF columns THEN UNCHANGED <<scr, page>>
       ELSE \E s \in {scr.row} : \E over \in {page.over} :
               /\ scr' = [scr EXCEPT !.row = SetupRow(s)']
               /\ page' = RowPaint(scr.row, over)'

\* The filter dialog of a column, and who has a scroll bar after it.
Filter(dir, l) ==
    /\ Examining /\ columns
    /\ opt' = OptionsSet(dir, l)
    /\ UNCHANGED <<shown, frame, columns, page>>
    /\ \E mine \in {scr[dir]}, other \in {scr[Other(dir)]} :
          scr' = CASE opt'[dir].sync /\ ~opt[dir].sync ->
                        [scr EXCEPT ![dir] = SetupCol(dir, mine)', ![Other(dir)].bar = FALSE]
                   [] ~opt'[dir].sync /\ opt[dir].sync ->
                        [scr EXCEPT ![dir] = Adjusted(dir, mine)',
                                    ![Other(dir)] = SetupCol(Other(dir), other)']
                   [] OTHER -> [scr EXCEPT ![dir] = Adjusted(dir, mine)']

\* To the rows, at the place of a synchronised column; or to the columns.
Switch ==
    /\ Examining
    /\ columns' = ~columns
    /\ IF columns
       THEN /\ scr' = [s \in Screens |->
                          IF s # "row" THEN [scr[s] EXCEPT !.bar = FALSE]
                          ELSE [SetupRow(scr.row) EXCEPT !.idx = IF opt["write"].sync THEN scr["write"].idx
                                                                 ELSE IF opt["read"].sync THEN scr["read"].idx
                                                                 ELSE @]]
            /\ Repaint(scr'.row)
       ELSE /\ scr' = [s \in Screens |->
                          IF s = "row" THEN [scr[s] EXCEPT !.bar = FALSE]
                          ELSE IF opt[Other(s)].sync THEN scr[s] ELSE SetupCol(s, scr[s])]
            /\ page' = Unpainted
    /\ UNCHANGED <<shown, opt, frame>>

Resize ==
    /\ Examining
    /\ frame' \in Frames \ {frame}
    /\ UNCHANGED <<shown, opt, columns>>
    /\ \E t \in {scr}, over \in {page.over} :
          /\ scr' = IF columns
                    THEN [s \in Screens |-> IF s # "row" /\ t[s].bar THEN SetupCol(s, t[s])' ELSE t[s]]
                    ELSE [t EXCEPT !.row = SetupRow(t.row)']
          /\ page' = IF columns THEN page ELSE RowPaint(scr.row, over)'

\* Lines and pages by the scroll bar or the keys, and the slider.
RowScrolls ==
    /\ Examining /\ ~columns
    /\ \E k \in {1, -1, frame.h, -frame.h} : RowScroll(k)
    /\ UNCHANGED screenVars

RowSlides ==
    /\ Examining /\ ~columns
    /\ \E r \in 0 .. scr.row.rows : RowSlide(r)
    /\ UNCHANGED screenVars

\* The arrow keys: to the next shown element, or to the one before.
RowKeys ==
    /\ Examining /\ ~columns
    /\ LET i == scr.row.idx
           back == {j \in 0 .. i - 1 : Counted(At(j)) = 1}
           goes(j) == scr' = [scr EXCEPT !.row.idx = j] /\ Repaint(scr'.row)
       IN \/ i < N /\ Hits(i + 1, N) # <<>> /\ goes(Head(Hits(i + 1, N)))
          \/ back # {} /\ goes(Greatest(back))
    /\ UNCHANGED screenVars

ColScrolls(dir) ==
    /\ Examining /\ columns /\ scr[dir].bar
    /\ \/ \E k \in {1, -1, ColHeight, -ColHeight} : scr' = ColScroll(scr, dir, k)
       \/ \E r \in 0 .. scr[dir].rows : scr' = ColSlide(scr, dir, r)
    /\ UNCHANGED <<screenVars, page>>

\* A key goes to the columns that no other leads.
ToBoth(move(_, _)) ==
    LET t == IF opt["read"].sync THEN scr ELSE move(scr, "write")
    IN IF opt["write"].sync THEN t ELSE move(t, "read")

ColKeys ==
    /\ Examining /\ columns
    /\ \/ \E k \in {1, -1, ColHeight, -ColHeight} : scr' = ToBoth(LAMBDA t, dir : ColScroll(t, dir, k))
       \/ scr' = ToBoth(LAMBDA t, dir : ColSlide(t, dir, 0))
       \/ scr' = ToBoth(LAMBDA t, dir : ColSlide(t, dir, t[dir].rows))
       \/ \E k \in {1, -1} :
             /\ \A d \in Directions : IF k = 1 THEN scr[d].idx < N ELSE scr[d].idx > 0
             /\ scr' = [s \in Screens |-> IF s = "row" THEN scr[s] ELSE [scr[s] EXCEPT !.idx = @ + k]]
    /\ UNCHANGED <<screenVars, page>>

\* The popup menu's Sync: this column goes where the other is.
Synchronise(dir) ==
    /\ Examining /\ columns
    /\ LET s == [scr[dir] EXCEPT !.idx = scr[Other(dir)].idx]
           t == [scr EXCEPT ![dir] = [s EXCEPT !.row = ColScrollRow(dir, s)]]
       IN scr' = IF opt[dir].sync
                 THEN [t EXCEPT !.row.idx = s.idx, !.row.row = RowsOf(s.idx, RowWidth(t.row))] ELSE t
    /\ UNCHANGED <<screenVars, page>>

Look(f) ==
    /\ Examining
    /\ IF Search(f) = -1 THEN UNCHANGED scr ELSE GoTo(Search(f))
    /\ UNCHANGED <<screenVars, page>>

Next ==
    \/ Thread
    \/ SwitchLive \/ EventsLive \/ ResizeLive
    \/ View \/ Load \/ Unview \/ Stream
    \/ Events \/ Switch \/ Resize \/ RowScrolls \/ RowSlides \/ RowKeys \/ ColKeys
    \/ \E dir \in Directions :
          \/ ColScrolls(dir) \/ Synchronise(dir)
          \/ \E l \in Layouts : FilterLive(dir, l) \/ Filter(dir, l)
    \/ \E f \in Finds : Look(f)

Spec == Init /\ [][Next]_vars
-----------------------------------------------------------------------------
\* Scrolling the rows by lines and pages leaves nothing out: as long as the row's
\* number is that of its place, what is shown between the old place and the new is in
\* the old page, or going up in the new one.
NoGap ==
    [][ LET a == scr.row.idx
            b == scr'.row.idx
            between == {i \in 0 .. N - 1 : /\ (a <= i /\ i < b) \/ (b <= i /\ i < a)
                                           /\ i \in ToSet(Hits(0, N))}
        IN RowScrolls /\ Plain /\ page.from = a /\ scr.row.row = RowsOf(a, RowWidth(scr.row))
           /\ b \in 0 .. N
              => between \subseteq ToSet(IF a < b THEN page.cells ELSE page'.cells) ]_vars

\* The running display: see LiveInOrder.
DrawnInOrder == streaming => LiveInOrder

=============================================================================
