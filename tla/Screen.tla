------------------------------- MODULE Screen -------------------------------
(***************************************************************************)
(* What COMscope's display of a running capture and its display of a       *)
(* finished one share: the elements of a trace, the options of the event   *)
(* and filter dialogs, and the size and the format of the window           *)
(* (COMSCOPE/scroll.c, column.c, comscope.c, dialog.c).                    *)
(*                                                                         *)
(* An element is a word of the trace: its kind and its low byte.  The kinds *)
(* that differ only in what they draw are one kind here (a request and its *)
(* completion; the four opens and closes; a hardware error and a break).   *)
(* "raw" is a word of packet data that looks like no event.                *)
(***************************************************************************)
EXTENDS Integers, Sequences, FiniteSets, SequencesExt

CONSTANTS
    ShownSets,  \* what the user may check in the event dialog
    Profiles,   \* what the columns' options may be when the program starts
    Layouts,    \* what the user may enter in the filter dialog of a column
    Frames      \* the sizes the window may have

VARIABLES
    shown,      \* the bDisp... options that are set
    opt,        \* for each column its SCREEN's options (bSync is also stCFG.bSyncTo...)
    frame,      \* the client window in cells: w wide, h pairs of lines high
    columns     \* stCFG.bColumnDisplay

screenVars == <<shown, opt, frame, columns>>

Directions == {"read", "write"}
Other(dir) == IF dir = "read" THEN "write" ELSE "read"

NewLine == 10
Control == 1
Letter == 65

\* The option that CountTraceElement counts a kind by.
CountOption ==
    [read |-> "Read", write |-> "Write", readImm |-> "IMM", writeImm |-> "IMM",
     readReq |-> "ReadReq", writeReq |-> "WriteReq", modemIn |-> "ModemIn", modemOut |-> "ModemOut",
     devIoctl |-> "DevIOctl", overflow |-> "Errors", error |-> "Errors", open |-> "Open",
     breakTx |-> "DevIOctl", packet |-> "packet", raw |-> "none"]

\* The option that RowPaint and RowDisplayThread draw a kind by.
DrawOption == [CountOption EXCEPT !.breakTx = "ModemOut"]

Kinds == DOMAIN CountOption
Options == {CountOption[k] : k \in Kinds} \ {"packet", "none"}

\* The direction an element is of in the columns, which show nothing but data.
Column == [k \in Kinds |-> CASE k \in {"read", "readImm"} -> "read"
                             [] k \in {"write", "writeImm"} -> "write"
                             [] OTHER -> "none"]

\* A mask of seven bits, where the filter is on.
Masked(o, v) == IF o.filter THEN v % 128 ELSE v

\* CharPrintable: which classes of character the filter takes out.
CharPrintable(o, v) ==
    ~o.filter \/ (IF v < 32 \/ v > 126 THEN "control" ELSE "letter") \notin o.hides

Columns == [nl : BOOLEAN, skip : BOOLEAN, sync : BOOLEAN, wrap : BOOLEAN, filter : BOOLEAN,
            hides : SUBSET {"control", "letter"}]

ColWidth == frame.w \div 2
ColHeight == 2 * frame.h

\* The filter dialog, left with OK: what depends on an unchecked button stays.
LayoutSet(dir, l) ==
    [l EXCEPT !.skip = IF l.nl THEN l.skip ELSE opt[dir].skip,
              !.sync = IF l.nl THEN l.sync ELSE opt[dir].sync,
              !.wrap = IF l.nl THEN l.wrap ELSE TRUE,
              !.hides = IF l.filter THEN l.hides ELSE opt[dir].hides]

\* Only one column is synchronised to the other.
OptionsSet(dir, l) ==
    [d \in Directions |->
        IF d = dir THEN LayoutSet(dir, l)
        ELSE IF LayoutSet(dir, l).sync /\ ~opt[dir].sync THEN [opt[d] EXCEPT !.sync = FALSE]
        ELSE opt[d]]

ScreenInit ==
    /\ shown \in ShownSets
    /\ frame \in Frames
    /\ columns \in BOOLEAN
    /\ opt \in Profiles
=============================================================================
