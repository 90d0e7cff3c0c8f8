------------------------------ MODULE Capture ------------------------------
(***************************************************************************)
(* COMscope's capture of a device's data stream: the monitor thread, which *)
(* moves words from the trace ring of the driver to the capture buffer;    *)
(* the display thread, which follows it; and the user interface, which     *)
(* starts, stops, views and saves (COMSCOPE/thread.c, wincmd.c,            *)
(* comscope.c, init.c, dialog.c, csutil.c).                                *)
(*                                                                         *)
(* A word is its number among those the monitor got in a session; 0 is     *)
(* memory nobody wrote.  What a word shows is not modelled here.  The      *)
(* monitor stores a word, and the display shows one, in one step; the      *)
(* monitor runs at a time-critical priority and the display at a server's, *)
(* so that the user interface interrupts neither between the test of a     *)
(* flag and the wait or the ending that follows it.  KillMonitorThread and *)
(* KillDisplayThread are given the ten seconds they wait.                  *)
(***************************************************************************)
EXTENDS Integers, Sequences, FiniteSets, SequencesExt

CONSTANTS
    BufferLength,   \* stCFG.lBufferLength, in words
    TraceLength,    \* dwCOMscopeBuffLen / 2
    Batch,          \* the most words one AccessCOMscope returns
    Modes,          \* what the user may choose in the buffer dialog
    Offered,        \* the commands the user gives
    MaxWords        \* bound: words the monitor gets in a session

ASSUME CaptureAssumption ==
    /\ BufferLength \in Nat \ {0} /\ TraceLength \in Nat \ {0} /\ Batch \in Nat \ {0}
    /\ Modes # {} /\ Modes \subseteq {"stop", "wrap", "file"}
    /\ MaxWords \in Nat

Commands == {"mstream", "mdisplay", "format", "view", "unview", "save", "load", "buffer", "restart", "close"}

ASSUME OfferedAssumption == Offered \subseteq Commands

VARIABLES
    trace,      \* how many words the driver's ring has, and whether it traces
    m,          \* the monitor thread and the flags that stop it
    d,          \* the display thread, its flags and its semaphore
    b,          \* the capture buffer and its indexes; "n" words got, "gone" to a file;
                \* "sound": nobody but the monitor has touched it in this session,
                \* the user interface knows that there is one, and capture to
                \* file was not chosen after the buffer had wrapped
    ui,         \* where the user interface thread is
    cfg,        \* stCFG, and which menu items are enabled
    msgs,       \* messages posted to the client window
    dlg,        \* the buffer dialog: whether it is up, and if monitoring held it to
                \* the length ("busy") or not ("free") when it came up
    view,       \* pwScrollBuffer, while the user scrolls through it
    disk        \* the files of this capture, and the file saved

vars == <<trace, m, d, b, ui, cfg, msgs, dlg, view, disk>>

Blank == 0
Slots == 0 .. BufferLength - 1
Least(x, y) == IF x < y THEN x ELSE y

Init ==
    /\ trace = [on |-> FALSE, q |-> 0]
    /\ m = [pc |-> "dead", batch |-> 0, stop |-> TRUE, kill |-> FALSE]
    /\ d = [pc |-> "dead", stop |-> TRUE, kill |-> FALSE, wake |-> FALSE, last |-> Blank]
    /\ b = [slot |-> [i \in Slots |-> Blank], w |-> 0, r |-> 0, wrapped |-> FALSE,
            toView |-> FALSE, n |-> 0, gone |-> 0, sound |-> TRUE]
    /\ ui = [at |-> "idle", cmd |-> "none", killed |-> FALSE]
    /\ \E mode \in Modes : cfg = [mode |-> mode, show |-> {}, monitoring |-> FALSE,
                                  display |-> FALSE, view |-> FALSE, save |-> FALSE, load |-> TRUE]
    /\ msgs = <<>>
    /\ dlg = "none"
    /\ view = <<>>
    /\ disk = [done |-> <<>>, last |-> <<>>, saved |-> <<>>, lost |-> FALSE]
-----------------------------------------------------------------------------
(***************************************************************************)
(* The driver's trace ring.                                                *)
(***************************************************************************)

\* COMscopeStream stores a word and moves the write pointer, whatever the read
\* pointer is: the word that fills the ring makes it look empty.
Arrive ==
    /\ trace.on
    /\ b.n + m.batch + trace.q < MaxWords
    /\ trace' = [trace EXCEPT !.q = (@ + 1) % TraceLength]
    /\ UNCHANGED <<m, d, b, ui, cfg, msgs, view, disk, dlg>>

\* COMscopeControl, called by EnableCOMscope: both ways the pointers are reset.
Control(on) == [on |-> on, q |-> 0]

\* GetCOMscopeData, called by AccessCOMscope: the words it returns.
Taken == Least(Batch, trace.q)
-----------------------------------------------------------------------------
(***************************************************************************)
(* The monitor thread.                                                     *)
(***************************************************************************)

Pending(q) == {i \in DOMAIN q : q[i].um = "BUFFER_WRITE"}

\* (mutant) a flag of the last session is left.
ResetButWrapped(buf) == [buf EXCEPT !.w = 0, !.r = 0, !.toView = FALSE,
                                    !.n = 0, !.gone = 0, !.sound = cfg.monitoring]
\* The buffer of a new session.
Reset(buf) == [buf EXCEPT !.w = 0, !.r = 0, !.wrapped = FALSE, !.toView = FALSE,
                          !.n = 0, !.gone = 0, !.sound = cfg.monitoring]

\* EnableCOMscope with CSFUNC_RESET_BUFFERS, then every index is reset.
MonitorStarts ==
    /\ m.pc = "start"
    /\ trace' = Control(TRUE)
    /\ m' = [m EXCEPT !.pc = "top"]
    /\ b' = Reset(b)
    /\ d' = [d EXCEPT !.last = Blank]
    /\ msgs' = Append(msgs, [um |-> "STARTMONITOR", data |-> <<>>])
    /\ disk' = [disk EXCEPT !.done = <<>>, !.last = <<>>, !.lost = Pending(msgs) # {}]
    /\ UNCHANGED <<ui, cfg, view, dlg>>

\* AccessCOMscope returned nothing: the display's semaphore is reset, and the
\* thread sleeps until the user interface wakes it or its count runs out.
MonitorFindsNothing ==
    /\ m.pc = "top" /\ ~m.stop
    /\ trace.q = 0
    /\ d' = [d EXCEPT !.wake = FALSE]
    /\ UNCHANGED <<trace, m, b, ui, cfg, msgs, view, disk, dlg>>

\* DosPostEventSem(hevDisplayWaitDataSem): a thread that waits is released at once.
Posted(dd) == [dd EXCEPT !.wake = TRUE, !.pc = IF @ = "wait" THEN "woken" ELSE @]

\* AccessCOMscope returned words: the display is woken before they are stored.
MonitorReads ==
    /\ m.pc = "top" /\ ~m.stop
    /\ trace.q # 0
    /\ m' = [m EXCEPT !.pc = "store", !.batch = Taken]
    /\ trace' = [trace EXCEPT !.q = @ - Taken]
    /\ d' = Posted(d)
    /\ b' = [b EXCEPT !.toView = TRUE]
    /\ msgs' = IF b.toView THEN msgs ELSE Append(msgs, [um |-> "VIEWDAT_ON", data |-> <<>>])
    /\ UNCHANGED <<ui, cfg, view, disk, dlg>>

\* The numbers of the words in the first k slots.
Contents(buf, k) == [i \in 1 .. k |-> buf.slot[i - 1]]

\* What becomes of a full buffer: with capture to file it is posted and another
\* takes its place, else it is overwritten.
Emptied(buf) ==
    IF cfg.mode = "file"
    THEN [buf EXCEPT !.slot = [i \in Slots |-> Blank], !.w = 0, !.r = 0, !.gone = @ + BufferLength]
    ELSE [buf EXCEPT !.w = 0, !.wrapped = TRUE]

Stored(buf) == [buf EXCEPT !.slot[buf.w] = buf.n + 1, !.w = @ + 1, !.n = @ + 1]

MonitorStores ==
    /\ m.pc = "store"
    /\ \/ /\ b.w < BufferLength
          /\ b' = Stored(b)
          /\ UNCHANGED msgs
       \/ /\ b.w >= BufferLength /\ cfg.mode # "stop"
          /\ b' = Stored(Emptied(b))
          /\ msgs' = IF cfg.mode = "file"
                     THEN Append(msgs, [um |-> "BUFFER_WRITE", data |-> Contents(b, BufferLength)])
                     ELSE msgs
    /\ m' = [m EXCEPT !.batch = @ - 1, !.pc = IF m.batch = 1 THEN "top" ELSE @]
    /\ UNCHANGED <<trace, d, ui, cfg, view, disk, dlg>>

\* (mutant) a single word is not worth a file.
FinishShort(q) ==
    /\ trace' = Control(FALSE)
    /\ m' = [m EXCEPT !.pc = "dead", !.batch = 0, !.stop = TRUE, !.kill = TRUE]
    /\ b' = [b EXCEPT !.r = b.w]
    /\ IF cfg.mode = "file" /\ b.w > 1
       THEN disk' = [disk EXCEPT !.last = Contents(b, b.w), !.lost = @ \/ Pending(q) # {}]
       ELSE UNCHANGED disk
    /\ msgs' = Append(q, [um |-> "KILLMONITOR", data |-> <<>>])
    /\ UNCHANGED <<d, ui, cfg, view, dlg>>

\* The end of the thread: what is left goes to the file, the display has nothing
\* more to read, and whoever waits for the end is woken.
Finish(q) ==
    /\ trace' = Control(FALSE)
    /\ m' = [m EXCEPT !.pc = "dead", !.batch = 0, !.stop = TRUE, !.kill = TRUE]
    /\ b' = [b EXCEPT !.r = b.w]
    /\ IF cfg.mode = "file" /\ b.w # 0
       THEN disk' = [disk EXCEPT !.last = Contents(b, b.w), !.lost = @ \/ Pending(q) # {}]
       ELSE UNCHANGED disk
    /\ msgs' = Append(q, [um |-> "KILLMONITOR", data |-> <<>>])
    /\ UNCHANGED <<d, ui, cfg, view, dlg>>

\* The buffer is full and neither to be written nor to be overwritten.
MonitorStopsAtEnd ==
    /\ m.pc = "store"
    /\ b.w >= BufferLength /\ cfg.mode = "stop"
    /\ Finish(Append(msgs, [um |-> "BUFFER_END", data |-> <<>>]))

MonitorIsStopped ==
    /\ m.pc = "top" /\ m.stop
    /\ Finish(msgs)

Monitor == \/ MonitorStarts \/ MonitorFindsNothing \/ MonitorReads \/ MonitorStores
           \/ MonitorStopsAtEnd \/ MonitorIsStopped
-----------------------------------------------------------------------------
(***************************************************************************)
(* The display thread (RowDisplayThread and ColumnDisplayThread, which     *)
(* handle the capture buffer alike).                                       *)
(***************************************************************************)

\* while (!bStopDisplayThread) DosWaitEventSem(hevDisplayWaitDataSem,-1)
Waits(dd) == IF dd.stop THEN [dd EXCEPT !.pc = "dead", !.kill = TRUE]
             ELSE [dd EXCEPT !.pc = IF dd.wake THEN "woken" ELSE "wait"]

DisplayStarts ==
    /\ d.pc = "start"
    /\ d' = Waits(d)
    /\ b' = [b EXCEPT !.r = b.w]
    /\ UNCHANGED <<trace, m, ui, cfg, msgs, view, disk, dlg>>

DisplayWakes ==
    /\ d.pc = "woken"
    /\ d' = IF d.stop THEN [d EXCEPT !.pc = "dead", !.kill = TRUE]
            ELSE [d EXCEPT !.pc = "busy", !.wake = FALSE]
    /\ UNCHANGED <<trace, m, b, ui, cfg, msgs, view, disk, dlg>>

\* The slot read next, and the index after it.
NextSlot == IF b.r >= BufferLength THEN 0 ELSE b.r

DisplayShows ==
    /\ d.pc = "busy" /\ b.r # b.w /\ ~d.stop
    /\ d' = [d EXCEPT !.last = b.slot[NextSlot]]
    /\ b' = [b EXCEPT !.r = NextSlot + 1]
    /\ UNCHANGED <<trace, m, ui, cfg, msgs, view, disk, dlg>>

DisplayCaughtUp ==
    /\ d.pc = "busy"
    /\ b.r = b.w \/ d.stop
    /\ d' = Waits(d)
    /\ UNCHANGED <<trace, m, b, ui, cfg, msgs, view, disk, dlg>>

Display == DisplayStarts \/ DisplayWakes \/ DisplayShows \/ DisplayCaughtUp
-----------------------------------------------------------------------------
(***************************************************************************)
(* The user interface thread.                                              *)
(***************************************************************************)

Ends(cmd) == IF cmd \in {"mstream", "view", "restart", "close", "abort"} THEN {"display", "monitor"}
             ELSE IF cmd \in {"mdisplay", "format", "end"} THEN {"display"} ELSE {}

\* Which menu items the user finds enabled.
Selectable(cmd) ==
    CASE cmd = "mdisplay" -> cfg.display
      [] cmd = "format"   -> cfg.show \cap {"data", "file"} = {}
      [] cmd = "view"     -> cfg.view /\ "data" \notin cfg.show
      [] cmd = "unview"   -> cfg.view /\ "data" \in cfg.show
      [] cmd = "save"     -> cfg.save
      [] cmd = "load"     -> cfg.load
      [] OTHER            -> TRUE

\* KillMonitorThread, as far as its wait: nothing to wait for if the flag is set.
KillMonitor(cmd, killed) ==
    IF "monitor" \in Ends(cmd) /\ ~m.stop
    THEN /\ ui' = [at |-> "monitorEnds", cmd |-> cmd, killed |-> FALSE]
         /\ m' = [m EXCEPT !.stop = TRUE, !.kill = FALSE]
    ELSE /\ ui' = [at |-> "rest", cmd |-> cmd, killed |-> killed /\ "monitor" \notin Ends(cmd)]
         /\ UNCHANGED m

\* (mutant) the display thread is not woken to see the flag.
KillDisplayUnposted(cmd) ==
    IF "display" \in Ends(cmd) /\ ~d.stop
    THEN /\ ui' = [at |-> "displayEnds", cmd |-> cmd, killed |-> FALSE]
         /\ d' = [d EXCEPT !.stop = TRUE, !.kill = FALSE]
         /\ UNCHANGED m
    ELSE /\ KillMonitor(cmd, FALSE)
         /\ UNCHANGED d

\* KillDisplayThread, likewise, and what follows it.
KillDisplay(cmd) ==
    IF "display" \in Ends(cmd) /\ ~d.stop
    THEN /\ ui' = [at |-> "displayEnds", cmd |-> cmd, killed |-> FALSE]
         /\ d' = Posted([d EXCEPT !.stop = TRUE, !.kill = FALSE])
         /\ UNCHANGED m
    ELSE /\ KillMonitor(cmd, FALSE)
         /\ UNCHANGED d

\* The window's posted messages are served before the user's input, so that a
\* command is chosen when none is left, and none while the buffer dialog, which is
\* modal, is up.  The user is slower than the start of a thread.
Select ==
    /\ ui.at = "idle" /\ msgs = <<>> /\ m.pc # "start" /\ dlg = "none"
    /\ \E cmd \in Offered : Selectable(cmd) /\ KillDisplay(cmd)
    /\ disk' = [disk EXCEPT !.saved = <<>>]
    /\ UNCHANGED <<trace, b, cfg, msgs, view, dlg>>

DisplayEnded ==
    /\ ui.at = "displayEnds" /\ d.kill
    /\ KillMonitor(ui.cmd, TRUE)
    /\ UNCHANGED <<trace, d, b, cfg, msgs, view, disk, dlg>>

MonitorEnded ==
    /\ ui.at = "monitorEnds" /\ m.kill
    /\ ui' = [ui EXCEPT !.at = "rest", !.killed = TRUE]
    /\ UNCHANGED <<trace, m, d, b, cfg, msgs, view, disk, dlg>>

\* What a command does once the threads it ends have ended.
Does(cmd) == ui.at = "rest" /\ ui.cmd = cmd /\ ui' = [ui EXCEPT !.at = "idle", !.cmd = "none", !.killed = FALSE]

MonitorCreated == [m EXCEPT !.pc = "start", !.stop = FALSE]
DisplayCreated == [d EXCEPT !.pc = "start", !.stop = FALSE]

StreamToggled ==
    /\ Does("mstream")
    /\ \/ /\ ui.killed
          /\ cfg' = [cfg EXCEPT !.monitoring = FALSE]
          /\ UNCHANGED <<m, d, disk>>
       \/ /\ ~ui.killed
          /\ m' = MonitorCreated
          /\ d' = IF "stream" \in cfg.show THEN DisplayCreated ELSE d
          /\ cfg' = [cfg EXCEPT !.monitoring = TRUE, !.show = @ \cap {"stream"}]
          /\ disk' = IF cfg.mode = "file" THEN [disk EXCEPT !.last = <<>>, !.lost = TRUE] ELSE disk
       \/ /\ ~ui.killed /\ cfg.mode = "file"       \* no file to write to
          /\ UNCHANGED <<m, d, cfg, disk>>
    /\ view' = IF cfg'.show = cfg.show THEN view ELSE <<>>
    /\ UNCHANGED <<trace, b, msgs, dlg>>

DisplayToggled ==
    /\ Does("mdisplay")
    /\ IF ui.killed
       THEN cfg' = [cfg EXCEPT !.show = {}] /\ UNCHANGED d
       ELSE cfg' = [cfg EXCEPT !.show = {"stream"}] /\ d' = DisplayCreated
    /\ view' = <<>>
    /\ UNCHANGED <<trace, m, b, msgs, disk, dlg>>

FormatChanged ==
    /\ Does("format")
    /\ d' = IF ui.killed THEN DisplayCreated ELSE d
    /\ UNCHANGED <<trace, m, b, cfg, msgs, view, disk, dlg>>

\* (mutant) a wrapped buffer is copied as it lies.
SnapshotAsItLies == Contents(b, IF b.wrapped THEN BufferLength ELSE b.w)

\* A wrapped buffer is copied from its oldest word on.
Snapshot == IF b.wrapped
            THEN [i \in 1 .. BufferLength |-> b.slot[(b.w + i - 1) % BufferLength]]
            ELSE Contents(b, b.w)

Viewed ==
    /\ Does("view")
    /\ view' = Snapshot
    /\ cfg' = [cfg EXCEPT !.monitoring = FALSE, !.show = @ \cup {"data"}]
    /\ UNCHANGED <<trace, m, d, b, msgs, disk, dlg>>

ViewClosed ==
    /\ Does("unview")
    /\ view' = <<>>
    /\ cfg' = [cfg EXCEPT !.show = {}]
    /\ UNCHANGED <<trace, m, d, b, msgs, disk, dlg>>

\* (mutant) the write index is taken for the length of a wrapped buffer.
SavedToIndex ==
    /\ Does("save")
    /\ disk' = [disk EXCEPT !.saved = Contents(b, Least(b.w, BufferLength))]
    /\ UNCHANGED <<trace, m, d, b, cfg, msgs, view, dlg>>

\* The capture buffer as it lies in memory.
Saved ==
    /\ Does("save")
    /\ disk' = [disk EXCEPT !.saved = Contents(b, IF b.wrapped THEN BufferLength ELSE Least(b.w, BufferLength))]
    /\ UNCHANGED <<trace, m, d, b, cfg, msgs, view, dlg>>

\* ReadCaptureFile allocates what the file needs; lWriteIndex takes its length,
\* here a short one or one longer than the buffer.
Loaded ==
    /\ Does("load")
    /\ \E words \in {1, BufferLength + 1} :
          /\ view' = [i \in 1 .. words |-> 0]
          /\ b' = [b EXCEPT !.w = words, !.sound = FALSE]
    /\ cfg' = [cfg EXCEPT !.show = @ \cup {"file"}, !.view = FALSE, !.save = FALSE]
    /\ UNCHANGED <<trace, m, d, msgs, disk, dlg>>

\* The buffer dialog comes up whether or not a monitor runs, and copies stCFG.  Of
\* what it copies only bMonitoringStream changes until it is left: posted messages
\* are served while it is up.
BufferOpened ==
    /\ Does("buffer")
    /\ dlg' = IF cfg.monitoring THEN "busy" ELSE "free"
    /\ UNCHANGED <<trace, m, d, b, cfg, msgs, view, disk>>

\* It is left with OK, which puts the copy back: the mode is set under a monitor that
\* runs, another length brings another buffer.  Capture to file begins a new file, to
\* which nothing goes that was stored before in buffers that are gone or overwritten.
SetBuffer(resizable) ==
    /\ dlg # "none" /\ ui.at = "idle"
    /\ \E mode \in Modes, resized \in {FALSE, resizable} :
          /\ cfg' = [cfg EXCEPT !.mode = mode, !.monitoring = (dlg = "busy"), !.view = @ /\ ~resized]
          /\ b' = IF resized
                  THEN [b EXCEPT !.slot = [i \in Slots |-> Blank], !.w = 0, !.wrapped = FALSE, !.sound = FALSE]
                  ELSE [b EXCEPT !.sound = @ /\ ~(mode = "file" /\ b.wrapped /\ m.pc # "dead")]
          /\ disk' = IF mode = "file" /\ (dlg = "free" \/ cfg.mode # "file")
                     THEN [disk EXCEPT !.last = <<>>, !.lost = @ \/ b.wrapped \/ b.gone # 0 \/ m.pc = "dead"]
                     ELSE disk
    /\ dlg' = "none"
    /\ UNCHANGED <<trace, m, d, ui, msgs, view>>

\* (mutant) the length may be set while the buffer is in use.
BufferSetAlways == SetBuffer(TRUE)
BufferSet == SetBuffer(dlg = "free")

BufferCancelled ==
    /\ dlg # "none" /\ ui.at = "idle"
    /\ dlg' = "none"
    /\ UNCHANGED <<trace, m, d, b, ui, cfg, msgs, view, disk>>

\* StartSystem, with what the profile says: a new buffer under the old indexes.
Restarted ==
    /\ Does("restart")
    /\ \E mode \in Modes, show \in SUBSET {"stream"}, monitoring \in BOOLEAN :
          /\ cfg' = [cfg EXCEPT !.mode = mode, !.monitoring = monitoring, !.show = show]
          /\ m' = IF monitoring THEN MonitorCreated ELSE m
          /\ d' = IF monitoring /\ show # {} THEN DisplayCreated ELSE d
          /\ disk' = IF mode = "file" THEN [disk EXCEPT !.last = <<>>, !.lost = TRUE] ELSE disk
    /\ b' = [b EXCEPT !.slot = [i \in Slots |-> Blank], !.sound = FALSE]
    /\ view' = <<>>
    /\ UNCHANGED <<trace, msgs, dlg>>

Closed ==
    /\ ui.at = "rest" /\ ui.cmd = "close"
    /\ ui' = [ui EXCEPT !.at = "closed"]
    /\ UNCHANGED <<trace, m, d, b, cfg, msgs, view, disk, dlg>>

Serve(um) == ui.at = "idle" /\ msgs # <<>> /\ Head(msgs).um = um /\ msgs' = Tail(msgs)

ServeStart ==
    /\ Serve("STARTMONITOR")
    /\ cfg' = [cfg EXCEPT !.load = FALSE, !.save = FALSE, !.display = TRUE, !.view = FALSE]
    /\ UNCHANGED <<trace, m, d, b, ui, view, disk, dlg>>

ServeKill ==
    /\ Serve("KILLMONITOR")
    /\ cfg' = [cfg EXCEPT !.save = @ \/ (cfg.mode # "file" /\ b.toView), !.load = TRUE, !.display = FALSE]
    /\ UNCHANGED <<trace, m, d, b, ui, view, disk, dlg>>

ServeViewOn ==
    /\ Serve("VIEWDAT_ON")
    /\ cfg' = [cfg EXCEPT !.view = TRUE]
    /\ UNCHANGED <<trace, m, d, b, ui, view, disk, dlg>>

\* A full buffer is written to the file, and the file's name counted on.
ServeWrite ==
    /\ Serve("BUFFER_WRITE")
    /\ \/ /\ cfg.mode = "file"
          /\ disk' = [disk EXCEPT !.done = Append(@, Head(msgs).data), !.last = <<>>]
          /\ UNCHANGED <<m, d, ui>>
       \/ /\ cfg.mode = "file"                     \* the disk is full
          /\ disk' = [disk EXCEPT !.last = Head(msgs).data, !.lost = TRUE]
          /\ KillDisplay("abort")
       \/ /\ cfg.mode # "file"                     \* it is given back unwritten
          /\ disk' = [disk EXCEPT !.lost = TRUE]
          /\ UNCHANGED <<m, d, ui>>
    /\ UNCHANGED <<trace, b, cfg, view, dlg>>

Aborted ==
    /\ Does("abort")
    /\ cfg' = [cfg EXCEPT !.monitoring = FALSE]
    /\ disk' = [disk EXCEPT !.last = <<>>, !.lost = TRUE]
    /\ UNCHANGED <<trace, m, d, b, msgs, view, dlg>>

ServeEnd ==
    /\ Serve("BUFFER_END")
    /\ KillDisplay("end")
    /\ UNCHANGED <<trace, b, cfg, view, disk, dlg>>

\* The end of a capture is told after another may have begun.
EndTold ==
    /\ Does("end")
    /\ cfg' = [cfg EXCEPT !.monitoring = FALSE, !.display = FALSE]
    /\ b' = [b EXCEPT !.sound = @ /\ m.pc = "dead"]
    /\ UNCHANGED <<trace, m, d, msgs, view, disk, dlg>>

Messages == ServeStart \/ ServeKill \/ ServeViewOn \/ ServeWrite \/ ServeEnd
Carries == \/ DisplayEnded \/ MonitorEnded
           \/ StreamToggled \/ DisplayToggled \/ FormatChanged \/ Viewed \/ ViewClosed \/ Saved
           \/ Loaded \/ BufferOpened \/ Restarted \/ Closed \/ Aborted \/ EndTold

Next == \/ Arrive \/ Monitor \/ Display \/ Select \/ Carries \/ Messages
        \/ BufferSet \/ BufferCancelled

Spec == Init /\ [][Next]_vars

\* The threads run, and the user interface does what it was told; the device's
\* traffic and the user are under no obligation.
FairSpec == Spec /\ WF_vars(Monitor) /\ WF_vars(Display) /\ WF_vars(Carries) /\ WF_vars(Messages)
-----------------------------------------------------------------------------
(***************************************************************************)
(* Properties.                                                             *)
(***************************************************************************)

\* The capture buffer is a window on the stream: the words below the write index are
\* the last ones the monitor stored, in order, and those above it, once it has
\* wrapped, are the ones before them.
InOrder ==
    b.sound =>
        /\ b.w <= BufferLength
        /\ ~b.wrapped => b.n = b.gone + b.w
        /\ \A i \in Slots : i < b.w => b.slot[i] = b.n - b.w + i + 1
        /\ b.wrapped => \A i \in Slots : i >= b.w => b.slot[i] = b.n - b.w - BufferLength + i + 1

\* The last words of the stream, as many as the buffer holds of them.
Recent == [i \in 1 .. Least(b.n - b.gone, BufferLength) |->
              b.n - Least(b.n - b.gone, BufferLength) + i]

\* What the user scrolls through is the end of the stream, in order, whatever ended
\* the capture and wherever the write index stood.
ViewIsRecent == ("data" \in cfg.show /\ "file" \notin cfg.show /\ b.sound) => view = Recent

\* Save Data writes every word the buffer holds.
SavedComplete == [][(disk'.saved # disk.saved /\ disk'.saved # <<>> /\ b.sound) => ToSet(disk'.saved) = ToSet(Recent)]_vars

\* The buffer of the stream that follows k others.
Chunk(k) == [i \in 1 .. BufferLength |-> k * BufferLength + i]

\* The full buffers filed, and those on their way to a file before the message i.
Before(i) == Len(disk.done) + Cardinality({j \in Pending(msgs) : j < i})

\* The files of a capture, the full buffers on their way to them and the last file
\* are the stream, buffer after buffer, unless a write failed or a full buffer was
\* still queued when the monitor thread ended.
FilesHoldStream ==
    (cfg.mode = "file" /\ b.sound /\ ~disk.lost) =>
        /\ \A k \in DOMAIN disk.done : disk.done[k] = Chunk(k - 1)
        /\ \A i \in Pending(msgs) : msgs[i].data = Chunk(Before(i))
        /\ b.gone = Before(Len(msgs) + 1) * BufferLength
        /\ (m.pc = "dead" /\ b.w # 0) => disk.last = Contents(b, b.w)

\* The capture buffer is given back only when no thread uses it.
FreedUnused == [][(b.sound /\ b'.slot # b.slot /\ ~b'.sound) => (m.pc \in {"dead", "start"} /\ d.pc # "busy")]_vars

\* A command that ends threads is carried out: neither thread can be missed by the
\* flag and the post that are to end it.
CommandReturns == (ui.at \notin {"idle", "closed"}) ~> (ui.at \in {"idle", "closed"})
=============================================================================
