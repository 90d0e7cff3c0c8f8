--------------------------- MODULE CaptureProofs ---------------------------
(***************************************************************************)
(* The capture buffer holds the stream in order, what is shown and saved   *)
(* is its end, the files are the stream, and the buffer is freed when no   *)
(* thread uses it, for every length of the buffer and of the trace ring,   *)
(* every batch and choice of commands.                                     *)
(***************************************************************************)
EXTENDS Capture, FunctionTheorems, FiniteSetTheorems, TLAPS

-----------------------------------------------------------------------------
(* The inductive invariant.  InOrder depends on the mode, which the user    *)
(* may change; on whether the monitor runs, which cfg tells the menus; and  *)
(* on the flag that ends it.                                                *)

MonitorShape == /\ DOMAIN m = {"pc", "batch", "stop", "kill"}
                /\ m.pc \in {"dead", "start", "top", "store"} /\ m.stop \in BOOLEAN /\ m.kill \in BOOLEAN
BufferShape == /\ DOMAIN b = {"slot", "w", "r", "wrapped", "toView", "n", "gone", "sound"}
               /\ b.slot \in [Slots -> Int] /\ b.w \in Nat /\ b.n \in Nat /\ b.gone \in Nat
               /\ b.wrapped \in BOOLEAN /\ b.sound \in BOOLEAN
UiShape == /\ DOMAIN ui = {"at", "cmd", "killed"}
           /\ ui.at \in {"idle", "displayEnds", "monitorEnds", "rest", "closed"}
CfgShape == /\ DOMAIN cfg = {"mode", "show", "monitoring", "display", "view", "save", "load"}
            /\ cfg.mode \in Modes /\ cfg.monitoring \in BOOLEAN
Shape == MonitorShape /\ BufferShape /\ UiShape /\ CfgShape

(* A monitor thread that has been told to end has ended, or somebody waits. *)
StopMeansDead == m.stop => m.pc = "dead" \/ ui.at = "monitorEnds"

(* Who waited for the end of the monitor goes on when it has ended.         *)
KilledMeansDead ==
  /\ ui.at = "monitorEnds" /\ m.kill => m.pc = "dead"
  /\ ui.at = "rest" /\ "monitor" \in Ends(ui.cmd) => m.pc = "dead"

Running == m.pc \in {"top", "store"}
KnownToRun == b.sound /\ Running => cfg.monitoring
FilesDoNotWrap == b.sound /\ Running /\ cfg.mode = "file" => ~b.wrapped

Inv == /\ Shape /\ StopMeansDead /\ KilledMeansDead
       /\ KnownToRun /\ FilesDoNotWrap /\ InOrder

-----------------------------------------------------------------------------
(* The order of the words depends on the buffer alone.                      *)
LEMMA SameWords ==
  ASSUME InOrder, b'.slot = b.slot, b'.w = b.w, b'.wrapped = b.wrapped, b'.n = b.n, b'.gone = b.gone,
         b'.sound => b.sound
  PROVE  InOrder'
BY DEF InOrder

(* A step that leaves the monitor, the user interface and the settings      *)
(* alone, and of the buffer at most moves what the display has read.        *)
LEMMA OnlyRead ==
  ASSUME Inv, UNCHANGED <<m, ui, cfg>>, BufferShape', b'.slot = b.slot, b'.w = b.w,
         b'.wrapped = b.wrapped, b'.n = b.n, b'.gone = b.gone, b'.sound = b.sound
  PROVE  Inv'
<1>1. Shape'
  BY DEF Inv, Shape, MonitorShape, UiShape, CfgShape
<1>2. StopMeansDead' /\ KilledMeansDead'
  BY DEF Inv, StopMeansDead, KilledMeansDead, Ends
<1>3. KnownToRun' /\ FilesDoNotWrap'
  BY DEF Inv, KnownToRun, FilesDoNotWrap, Running
<1>4. InOrder'
  BY SameWords DEF Inv
<1>5. QED
  BY <1>1, <1>2, <1>3, <1>4 DEF Inv

-----------------------------------------------------------------------------
(* The monitor stores a word: below the write index, or at the start of a   *)
(* buffer that was emptied or is overwritten.                               *)
LEMMA StoreKeeps ==
  ASSUME Inv, Running, b.w < BufferLength, b' = Stored(b)
  PROVE  BufferShape' /\ InOrder' /\ b'.wrapped = b.wrapped /\ b'.sound = b.sound
<1>1. /\ b.w \in Slots /\ b.w \in Nat /\ b.n \in Nat /\ b.gone \in Nat
      /\ b.slot \in [Slots -> Int] /\ BufferLength \in Nat
  BY CaptureAssumption DEF Inv, Shape, BufferShape, Slots
<1>2. /\ b'.slot = [b.slot EXCEPT ![b.w] = b.n + 1] /\ b'.w = b.w + 1 /\ b'.n = b.n + 1
      /\ b'.gone = b.gone /\ b'.wrapped = b.wrapped /\ b'.sound = b.sound
  BY DEF Stored, Inv, Shape, BufferShape
<1>3. BufferShape'
  <2>1. DOMAIN b' = DOMAIN b
    BY DEF Stored
  <2>2. QED
    BY <1>1, <1>2, <2>1 DEF Inv, Shape, BufferShape
<1>4. ASSUME b.sound PROVE b'.w <= BufferLength /\ (~b'.wrapped => b'.n = b'.gone + b'.w)
  BY <1>1, <1>2, <1>4 DEF Inv, InOrder
<1>5. ASSUME b.sound, NEW i \in Slots, i < b.w + 1
      PROVE  b'.slot[i] = b'.n - b'.w + i + 1
  <2>1. i < b.w => b.slot[i] = b.n - b.w + i + 1
    BY <1>5 DEF Inv, InOrder
  <2>2. i \in Int
    BY DEF Slots
  <2>3. CASE i = b.w
    BY <1>1, <1>2, <2>3
  <2>4. CASE i < b.w
    BY <1>1, <1>2, <2>1, <2>2, <2>4
  <2>5. QED
    BY <1>1, <1>5, <2>2, <2>3, <2>4
<1>6. ASSUME b.sound, b.wrapped, NEW i \in Slots, i >= b.w + 1
      PROVE  b'.slot[i] = b'.n - b'.w - BufferLength + i + 1
  <2>1. i \in Int /\ i >= b.w /\ i # b.w
    BY <1>1, <1>6 DEF Slots
  <2>2. b.slot[i] = b.n - b.w - BufferLength + i + 1
    BY <1>6, <2>1 DEF Inv, InOrder
  <2>3. QED
    BY <1>1, <1>2, <2>1, <2>2
<1>7. InOrder'
  BY <1>2, <1>4, <1>5, <1>6 DEF InOrder
<1>8. QED
  BY <1>2, <1>3, <1>7

LEMMA WrapKeeps ==
  ASSUME Inv, Running, b.w >= BufferLength, cfg.mode # "stop", b' = Stored(Emptied(b))
  PROVE  /\ BufferShape' /\ InOrder' /\ b'.sound = b.sound
         /\ cfg.mode = "file" => b'.wrapped = b.wrapped
<1>1. /\ 0 \in Slots /\ b.w \in Nat /\ b.n \in Nat /\ b.gone \in Nat
      /\ b.slot \in [Slots -> Int] /\ BufferLength \in Nat /\ BufferLength >= 1
  BY CaptureAssumption DEF Inv, Shape, BufferShape, Slots
<1>2. b.sound => b.w = BufferLength
  <2>1. b.sound => b.w <= BufferLength
    BY DEF Inv, InOrder
  <2>2. QED
    BY <1>1, <2>1
<1>3. CASE cfg.mode = "file"
  <2> DEFINE blank == [i \in Slots |-> Blank]
  <2>1. /\ DOMAIN b' = DOMAIN b
        /\ b'.slot = [blank EXCEPT ![0] = b.n + 1] /\ b'.w = 0 + 1 /\ b'.n = b.n + 1
        /\ b'.gone = b.gone + BufferLength /\ b'.wrapped = b.wrapped /\ b'.sound = b.sound
    BY <1>1, <1>3 DEF Stored, Emptied, Inv, Shape, BufferShape
  <2>2. blank \in [Slots -> Int]
    BY DEF Blank
  <2>3. BufferShape'
    BY <1>1, <2>1, <2>2 DEF Inv, Shape, BufferShape
  <2>4. b.sound => ~b.wrapped
    BY <1>3 DEF Inv, FilesDoNotWrap
  <2>5. b.sound => b.n = b.gone + b.w
    BY <2>4 DEF Inv, InOrder
  <2>6. b.sound => b'.n = b'.gone + b'.w
    BY <1>1, <1>2, <2>1, <2>5
  <2>7. ASSUME NEW i \in Slots, i < 1 PROVE b'.slot[i] = b'.n - b'.w + i + 1
    <3>1. i = 0
      BY <2>7 DEF Slots
    <3>2. QED
      BY <1>1, <2>1, <2>2, <3>1
  <2>8. InOrder'
    BY <1>1, <2>1, <2>4, <2>6, <2>7 DEF InOrder
  <2>9. QED
    BY <2>1, <2>3, <2>8
<1>4. CASE cfg.mode # "file"
  <2>1. /\ DOMAIN b' = DOMAIN b
        /\ b'.slot = [b.slot EXCEPT ![0] = b.n + 1] /\ b'.w = 0 + 1 /\ b'.n = b.n + 1
        /\ b'.gone = b.gone /\ b'.wrapped = TRUE /\ b'.sound = b.sound
    BY <1>1, <1>4 DEF Stored, Emptied, Inv, Shape, BufferShape
  <2>2. BufferShape'
    <3>1. b'.slot \in [Slots -> Int] /\ b'.w \in Nat /\ b'.n \in Nat /\ b'.gone \in Nat
      BY <1>1, <2>1
    <3>2. b'.wrapped \in BOOLEAN /\ b'.sound \in BOOLEAN
      BY <2>1 DEF Inv, Shape, BufferShape
    <3>3. QED
      BY <2>1, <3>1, <3>2 DEF Inv, Shape, BufferShape
  <2>3. ASSUME b.sound, NEW i \in Slots
        PROVE  /\ i < 1 => b'.slot[i] = b'.n - b'.w + i + 1
               /\ i >= 1 => b'.slot[i] = b'.n - b'.w - BufferLength + i + 1
    <3>1. i \in Nat /\ i < b.w
      BY <1>1, <1>2, <2>3 DEF Slots
    <3>2. b.slot[i] = b.n - b.w + i + 1
      BY <2>3, <3>1 DEF Inv, InOrder
    <3>3. QED
      BY <1>1, <1>2, <2>1, <2>3, <3>1, <3>2
  <2>4. InOrder'
    BY <1>1, <2>1, <2>3 DEF InOrder
  <2>5. QED
    BY <1>4, <2>1, <2>2, <2>4
<1>5. QED
  BY <1>3, <1>4

(* The end of the monitor.                                                  *)
LEMMA FinishInv ==
  ASSUME Inv, NEW q, Finish(q)
  PROVE  Inv'
<1>1. /\ UNCHANGED <<ui, cfg>>
      /\ m' = [m EXCEPT !.pc = "dead", !.batch = 0, !.stop = TRUE, !.kill = TRUE]
      /\ b' = [b EXCEPT !.r = b.w]
  BY DEF Finish
<1>2. Shape'
  BY <1>1 DEF Inv, Shape, MonitorShape, BufferShape, UiShape, CfgShape
<1>3. m'.pc = "dead"
  BY <1>1 DEF Inv, Shape, MonitorShape
<1>4. /\ b'.slot = b.slot /\ b'.w = b.w /\ b'.wrapped = b.wrapped /\ b'.n = b.n /\ b'.gone = b.gone
      /\ b'.sound = b.sound
  BY <1>1 DEF Inv, Shape, BufferShape
<1>5. InOrder'
  BY <1>4, SameWords DEF Inv
<1>6. QED
  BY <1>1, <1>2, <1>3, <1>5 DEF Inv, StopMeansDead, KilledMeansDead, KnownToRun,
     FilesDoNotWrap, Running

LEMMA MonitorInv ==
  ASSUME Inv, Monitor
  PROVE  Inv'
<1>1. CASE MonitorStarts
  <2>1. m' = [m EXCEPT !.pc = "top"] /\ b' = Reset(b) /\ UNCHANGED <<ui, cfg>> /\ m.pc = "start"
    BY <1>1 DEF MonitorStarts
  <2>2. /\ b'.slot = b.slot /\ b'.w = 0 /\ b'.n = 0 /\ b'.gone = 0 /\ b'.wrapped = FALSE
        /\ b'.sound = cfg.monitoring /\ DOMAIN b' = DOMAIN b
    BY <2>1 DEF Reset, Inv, Shape, BufferShape, CfgShape
  <2>3. /\ MonitorShape' /\ m'.pc = "top" /\ m'.stop = m.stop /\ m'.kill = m.kill
    BY <2>1 DEF Inv, Shape, MonitorShape
  <2>4. InOrder'
    BY <2>2, CaptureAssumption DEF InOrder, Slots
  <2>5. Shape'
    <3>1. b'.w \in Nat /\ b'.n \in Nat /\ b'.gone \in Nat
      BY <2>2
    <3>2. b'.wrapped \in BOOLEAN /\ b'.sound \in BOOLEAN
      BY <2>2 DEF Inv, Shape, CfgShape
    <3>3. BufferShape'
      BY <2>2, <3>1, <3>2 DEF Inv, Shape, BufferShape
    <3>4. QED
      BY <2>1, <2>3, <3>3 DEF Inv, Shape, UiShape, CfgShape
  <2>6. StopMeansDead' /\ KilledMeansDead'
    BY <2>1, <2>3 DEF Inv, StopMeansDead, KilledMeansDead, Ends
  <2>7. KnownToRun' /\ FilesDoNotWrap'
    BY <2>1, <2>2 DEF KnownToRun, FilesDoNotWrap
  <2>8. QED
    BY <2>4, <2>5, <2>6, <2>7 DEF Inv
<1>2. CASE MonitorFindsNothing
  BY <1>2, OnlyRead DEF MonitorFindsNothing, Inv, Shape, BufferShape
<1>3. CASE MonitorReads
  <2>1. /\ m' = [m EXCEPT !.pc = "store", !.batch = Taken] /\ b' = [b EXCEPT !.toView = TRUE]
        /\ UNCHANGED <<ui, cfg>> /\ m.pc = "top" /\ ~m.stop
    BY <1>3 DEF MonitorReads
  <2>3. /\ MonitorShape' /\ m'.pc = "store" /\ m'.stop = m.stop /\ m'.kill = m.kill
    BY <2>1 DEF Inv, Shape, MonitorShape
  <2>4. /\ BufferShape' /\ b'.slot = b.slot /\ b'.w = b.w /\ b'.n = b.n /\ b'.gone = b.gone
        /\ b'.wrapped = b.wrapped /\ b'.sound = b.sound
    BY <2>1 DEF Inv, Shape, BufferShape
  <2>5. QED
    BY <2>1, <2>3, <2>4, SameWords DEF Inv, Shape, UiShape, CfgShape, StopMeansDead, KilledMeansDead,
       KnownToRun, FilesDoNotWrap, Running
<1>4. CASE MonitorStores
  <2>1. /\ m.pc = "store" /\ UNCHANGED <<ui, cfg>>
        /\ m' = [m EXCEPT !.batch = @ - 1, !.pc = IF m.batch = 1 THEN "top" ELSE @]
        /\ \/ b.w < BufferLength /\ b' = Stored(b)
           \/ b.w >= BufferLength /\ cfg.mode # "stop" /\ b' = Stored(Emptied(b))
    BY <1>4 DEF MonitorStores
  <2>2. /\ MonitorShape' /\ m'.pc \in {"top", "store"} /\ m'.stop = m.stop /\ m'.kill = m.kill
    BY <2>1 DEF Inv, Shape, MonitorShape
  <2>3. Running
    BY <2>1 DEF Running
  <2>4. /\ BufferShape' /\ InOrder' /\ b'.sound = b.sound
        /\ cfg.mode = "file" => b'.wrapped = b.wrapped
    BY <2>1, <2>3, StoreKeeps, WrapKeeps
  <2>5. QED
    BY <2>1, <2>2, <2>3, <2>4 DEF Inv, Shape, UiShape, CfgShape, StopMeansDead, KilledMeansDead,
       KnownToRun, FilesDoNotWrap, Running
<1>5. CASE MonitorStopsAtEnd
  BY <1>5, FinishInv DEF MonitorStopsAtEnd
<1>6. CASE MonitorIsStopped
  BY <1>6, FinishInv DEF MonitorIsStopped
<1>7. QED
  BY <1>1, <1>2, <1>3, <1>4, <1>5, <1>6 DEF Monitor

(* The display only reads.                                                  *)
LEMMA DisplayInv ==
  ASSUME Inv, Display
  PROVE  Inv'
<1>1. CASE DisplayStarts
  <2>1. b' = [b EXCEPT !.r = b.w] /\ UNCHANGED <<m, ui, cfg>>
    BY <1>1 DEF DisplayStarts
  <2>2. QED
    BY <2>1, OnlyRead DEF Inv, Shape, BufferShape
<1>2. CASE DisplayShows
  <2>1. b' = [b EXCEPT !.r = NextSlot + 1] /\ UNCHANGED <<m, ui, cfg>>
    BY <1>2 DEF DisplayShows
  <2>2. QED
    BY <2>1, OnlyRead DEF Inv, Shape, BufferShape
<1>3. CASE DisplayWakes \/ DisplayCaughtUp
  BY <1>3, OnlyRead DEF DisplayWakes, DisplayCaughtUp, Inv, Shape, BufferShape
<1>4. QED
  BY <1>1, <1>2, <1>3 DEF Display

-----------------------------------------------------------------------------
(* A command that is to end threads has begun to, or goes on to its rest.   *)
LEMMA KillMonitorInv ==
  ASSUME Inv, NEW cmd, NEW killed, KillMonitor(cmd, killed), UNCHANGED <<b, cfg>>,
         ui.at # "monitorEnds"
  PROVE  Inv'
<1>1. BufferShape' /\ CfgShape' /\ UiShape'
  BY DEF Inv, Shape, BufferShape, CfgShape, UiShape, KillMonitor
<1>2. InOrder'
  BY SameWords DEF Inv
<1>3. ui'.cmd = cmd
  BY DEF KillMonitor
<1>4. CASE "monitor" \in Ends(cmd) /\ ~m.stop
  <2>1. m' = [m EXCEPT !.stop = TRUE, !.kill = FALSE] /\ ui'.at = "monitorEnds"
    BY <1>4 DEF KillMonitor
  <2>2. MonitorShape' /\ m'.pc = m.pc /\ m'.kill = FALSE
    BY <2>1 DEF Inv, Shape, MonitorShape
  <2>3. QED
    BY <1>1, <1>2, <1>3, <2>1, <2>2 DEF Inv, Shape, StopMeansDead, KilledMeansDead, KnownToRun,
       FilesDoNotWrap, Running
<1>5. CASE ~("monitor" \in Ends(cmd) /\ ~m.stop)
  <2>1. m' = m /\ ui'.at = "rest"
    BY <1>5 DEF KillMonitor
  <2>2. MonitorShape'
    BY <2>1 DEF Inv, Shape, MonitorShape
  <2>3. m.stop => m.pc = "dead"
    BY DEF Inv, StopMeansDead
  <2>4. StopMeansDead' /\ KilledMeansDead'
    BY <1>3, <1>5, <2>1, <2>3 DEF StopMeansDead, KilledMeansDead, Ends
  <2>5. QED
    BY <1>1, <1>2, <1>3, <2>1, <2>2, <2>4 DEF Inv, Shape, KnownToRun, FilesDoNotWrap, Running
<1>6. QED
  BY <1>4, <1>5

LEMMA KillDisplayInv ==
  ASSUME Inv, NEW cmd, KillDisplay(cmd), UNCHANGED <<b, cfg>>,
         ui.at = "idle"
  PROVE  Inv'
<1>1. CASE KillMonitor(cmd, FALSE)
  BY <1>1, KillMonitorInv
<1>2. CASE ui' = [at |-> "displayEnds", cmd |-> cmd, killed |-> FALSE] /\ m' = m
  <2>1. ui'.at = "displayEnds" /\ ui'.cmd = cmd /\ UiShape'
    BY <1>2 DEF UiShape
  <2>2. Shape'
    BY <1>2, <2>1 DEF Inv, Shape, MonitorShape, BufferShape, CfgShape
  <2>3. InOrder'
    BY SameWords DEF Inv
  <2>4. QED
    BY <1>2, <2>1, <2>2, <2>3 DEF Inv, StopMeansDead, KilledMeansDead, KnownToRun,
       FilesDoNotWrap, Running
<1>3. QED
  BY <1>1, <1>2 DEF KillDisplay

(* What remains of a command when its threads have ended.                   *)
LEMMA Done ==
  ASSUME Inv, NEW cmd, Does(cmd), BufferShape', CfgShape', InOrder', m' = m \/ m' = MonitorCreated,
         b'.sound /\ Running' => cfg'.monitoring /\ (cfg'.mode = "file" => ~b'.wrapped)
  PROVE  Inv'
<1>1. ui'.at = "idle" /\ ui'.cmd = "none" /\ UiShape'
  BY DEF Does, Inv, Shape, UiShape
<1>2. MonitorShape' /\ (m'.stop => m'.pc = "dead")
  <2>1. CASE m' = m
    BY <2>1 DEF Does, Inv, Shape, MonitorShape, StopMeansDead
  <2>2. CASE m' = MonitorCreated
    BY <2>2 DEF MonitorCreated, Inv, Shape, MonitorShape
  <2>3. QED
    BY <2>1, <2>2
<1>3. QED
  BY <1>1, <1>2 DEF Inv, Shape, StopMeansDead, KilledMeansDead, KnownToRun, FilesDoNotWrap

(* A command that found the monitor ended.                                  *)
LEMMA DoneDead ==
  ASSUME Inv, NEW cmd, Does(cmd), "monitor" \in Ends(cmd), b' = b, CfgShape', m' = m \/ m' = MonitorCreated
  PROVE  Inv'
<1>1. m.pc = "dead"
  BY DEF Does, Inv, KilledMeansDead
<1>2. ~Running'
  BY <1>1 DEF Running, MonitorCreated, Inv, Shape, MonitorShape
<1>3. BufferShape' /\ InOrder'
  BY SameWords DEF Inv, Shape, BufferShape
<1>4. QED
  BY <1>2, <1>3, Done

(* A command after which neither the mode nor the monitoring is another.    *)
LEMMA DoneSame ==
  ASSUME Inv, NEW cmd, Does(cmd), UNCHANGED <<m, b>>, CfgShape', cfg'.mode = cfg.mode,
         cfg'.monitoring = cfg.monitoring
  PROVE  Inv'
<1>1. BufferShape' /\ InOrder'
  BY SameWords DEF Inv, Shape, BufferShape
<1>2. QED
  BY <1>1, Done DEF Inv, KnownToRun, FilesDoNotWrap, Running

(* A command that takes the buffer away from whoever looks at it.           *)
LEMMA DoneUnsound ==
  ASSUME Inv, NEW cmd, Does(cmd), BufferShape', ~b'.sound, CfgShape', m' = m \/ m' = MonitorCreated
  PROVE  Inv'
<1>1. InOrder'
  BY DEF InOrder
<1>2. QED
  BY <1>1, Done

LEMMA CarriesInv ==
  ASSUME Inv, Carries
  PROVE  Inv'
<1>1. CASE DisplayEnded
  BY <1>1, KillMonitorInv DEF DisplayEnded
<1>2. CASE MonitorEnded
  <2>1. ui' = [ui EXCEPT !.at = "rest", !.killed = TRUE] /\ UNCHANGED <<m, b, cfg>>
        /\ ui.at = "monitorEnds" /\ m.kill
    BY <1>2 DEF MonitorEnded
  <2>2. UiShape' /\ ui'.at = "rest" /\ ui'.cmd = ui.cmd /\ m.pc = "dead"
    BY <2>1 DEF Inv, Shape, UiShape, KilledMeansDead
  <2>3. Shape' /\ InOrder'
    BY <2>1, <2>2, SameWords DEF Inv, Shape, MonitorShape, BufferShape, CfgShape
  <2>4. QED
    BY <2>1, <2>2, <2>3 DEF Inv, StopMeansDead, KilledMeansDead, KnownToRun,
       FilesDoNotWrap, Running
<1>3. CASE StreamToggled
  <2>1. Does("mstream") /\ b' = b /\ (m' = m \/ m' = MonitorCreated)
    BY <1>3 DEF StreamToggled
  <2>2. CfgShape'
    BY <1>3 DEF StreamToggled, Inv, Shape, CfgShape
  <2>3. QED
    BY <2>1, <2>2, DoneDead DEF Ends
<1>4. CASE DisplayToggled
  <2>1. Does("mdisplay") /\ UNCHANGED <<m, b>>
    BY <1>4 DEF DisplayToggled
  <2>2. CfgShape' /\ cfg'.mode = cfg.mode /\ cfg'.monitoring = cfg.monitoring
    BY <1>4 DEF DisplayToggled, Inv, Shape, CfgShape
  <2>3. QED
    BY <2>1, <2>2, DoneSame
<1>5. CASE FormatChanged
  <2>1. Does("format") /\ UNCHANGED <<m, b, cfg>>
    BY <1>5 DEF FormatChanged
  <2>2. QED
    BY <2>1, DoneSame DEF Inv, Shape, CfgShape
<1>6. CASE Viewed
  <2>1. Does("view") /\ UNCHANGED <<m, b>>
    BY <1>6 DEF Viewed
  <2>2. CfgShape'
    BY <1>6 DEF Viewed, Inv, Shape, CfgShape
  <2>3. QED
    BY <2>1, <2>2, DoneDead DEF Ends
<1>7. CASE ViewClosed
  <2>1. Does("unview") /\ UNCHANGED <<m, b>>
    BY <1>7 DEF ViewClosed
  <2>2. CfgShape' /\ cfg'.mode = cfg.mode /\ cfg'.monitoring = cfg.monitoring
    BY <1>7 DEF ViewClosed, Inv, Shape, CfgShape
  <2>3. QED
    BY <2>1, <2>2, DoneSame
<1>8. CASE Saved
  <2>1. Does("save") /\ UNCHANGED <<m, b, cfg>>
    BY <1>8 DEF Saved
  <2>2. QED
    BY <2>1, DoneSame DEF Inv, Shape, CfgShape
<1>9. CASE Loaded
  <2>1. PICK words \in {1, BufferLength + 1} : b' = [b EXCEPT !.w = words, !.sound = FALSE]
    BY <1>9 DEF Loaded
  <2>2. Does("load") /\ m' = m
    BY <1>9 DEF Loaded
  <2>3. words \in Nat
    BY CaptureAssumption
  <2>4. BufferShape' /\ ~b'.sound
    BY <2>1, <2>3 DEF Inv, Shape, BufferShape
  <2>5. CfgShape'
    BY <1>9 DEF Loaded, Inv, Shape, CfgShape
  <2>6. QED
    BY <2>2, <2>4, <2>5, DoneUnsound
<1>10. CASE BufferOpened
  <2>1. Does("buffer") /\ UNCHANGED <<m, b, cfg>>
    BY <1>10 DEF BufferOpened
  <2>2. QED
    BY <2>1, DoneSame DEF Inv, Shape, CfgShape
<1>11. CASE Restarted
  <2>1. PICK mode \in Modes, show \in SUBSET {"stream"}, monitoring \in BOOLEAN :
          /\ cfg' = [cfg EXCEPT !.mode = mode, !.monitoring = monitoring, !.show = show]
          /\ m' = IF monitoring THEN MonitorCreated ELSE m
    BY <1>11 DEF Restarted
  <2>2. Does("restart") /\ b' = [b EXCEPT !.slot = [i \in Slots |-> Blank], !.sound = FALSE]
    BY <1>11 DEF Restarted
  <2>3. [i \in Slots |-> Blank] \in [Slots -> Int]
    BY DEF Blank
  <2>4. BufferShape' /\ ~b'.sound
    BY <2>2, <2>3 DEF Inv, Shape, BufferShape
  <2>5. CfgShape' /\ (m' = m \/ m' = MonitorCreated)
    BY <2>1 DEF Inv, Shape, CfgShape
  <2>6. QED
    BY <2>2, <2>4, <2>5, DoneUnsound
<1>12. CASE Closed
  <2>1. ui' = [ui EXCEPT !.at = "closed"] /\ UNCHANGED <<m, b, cfg>> /\ ui.at = "rest"
    BY <1>12 DEF Closed
  <2>2. UiShape' /\ ui'.at = "closed" /\ ui'.cmd = ui.cmd
    BY <2>1 DEF Inv, Shape, UiShape
  <2>3. Shape' /\ InOrder'
    BY <2>1, <2>2, SameWords DEF Inv, Shape, MonitorShape, BufferShape, CfgShape
  <2>4. QED
    BY <2>1, <2>2, <2>3 DEF Inv, StopMeansDead, KilledMeansDead, KnownToRun,
       FilesDoNotWrap, Running
<1>13. CASE Aborted
  <2>1. Does("abort") /\ UNCHANGED <<m, b>>
    BY <1>13 DEF Aborted
  <2>2. CfgShape'
    BY <1>13 DEF Aborted, Inv, Shape, CfgShape
  <2>3. QED
    BY <2>1, <2>2, DoneDead DEF Ends
<1>14. CASE EndTold
  <2>1. Does("end") /\ m' = m /\ b' = [b EXCEPT !.sound = @ /\ m.pc = "dead"]
    BY <1>14 DEF EndTold
  <2>2. CfgShape'
    BY <1>14 DEF EndTold, Inv, Shape, CfgShape
  <2>3. PICK ended \in BOOLEAN : ended = (b.sound /\ m.pc = "dead")
    OBVIOUS
  <2>4. b' = [b EXCEPT !.sound = ended]
    BY <2>1, <2>3
  <2>5. /\ BufferShape' /\ b'.sound = ended /\ b'.slot = b.slot /\ b'.w = b.w /\ b'.wrapped = b.wrapped
        /\ b'.n = b.n /\ b'.gone = b.gone
    BY <2>4 DEF Inv, Shape, BufferShape
  <2>6. (b'.sound => b.sound) /\ ~(b'.sound /\ Running')
    BY <2>1, <2>3, <2>5 DEF Running
  <2>7. InOrder'
    BY <2>5, <2>6, SameWords DEF Inv
  <2>8. QED
    BY <2>1, <2>2, <2>5, <2>6, <2>7, Done
<1>15. QED
  BY <1>1, <1>2, <1>3, <1>4, <1>5, <1>6, <1>7, <1>8, <1>9, <1>10, <1>11, <1>12, <1>13, <1>14 DEF Carries

(* The messages of the monitor, and the choice of a command.                *)
LEMMA ServedInv ==
  ASSUME Inv, UNCHANGED <<m, b, ui>>, CfgShape', cfg'.mode = cfg.mode, cfg'.monitoring = cfg.monitoring
  PROVE  Inv'
<1>1. Shape' /\ InOrder'
  BY SameWords DEF Inv, Shape, MonitorShape, BufferShape, UiShape
<1>2. QED
  BY <1>1 DEF Inv, StopMeansDead, KilledMeansDead, KnownToRun, FilesDoNotWrap, Running, Ends

LEMMA MessagesInv ==
  ASSUME Inv, Messages
  PROVE  Inv'
<1>1. CASE ServeStart \/ ServeKill \/ ServeViewOn
  <2>1. UNCHANGED <<m, b, ui>>
    BY <1>1 DEF ServeStart, ServeKill, ServeViewOn
  <2>2. CfgShape' /\ cfg'.mode = cfg.mode /\ cfg'.monitoring = cfg.monitoring
    BY <1>1 DEF ServeStart, ServeKill, ServeViewOn, Inv, Shape, CfgShape
  <2>3. QED
    BY <2>1, <2>2, ServedInv
<1>2. CASE ServeWrite
  <2>1. UNCHANGED <<b, cfg>> /\ ui.at = "idle" /\ (UNCHANGED <<m, ui>> \/ KillDisplay("abort"))
    BY <1>2 DEF ServeWrite, Serve
  <2>2. QED
    BY <2>1, ServedInv, KillDisplayInv DEF Inv, Shape, CfgShape
<1>3. CASE ServeEnd
  BY <1>3, KillDisplayInv DEF ServeEnd, Serve
<1>4. QED
  BY <1>1, <1>2, <1>3 DEF Messages

LEMMA SelectInv ==
  ASSUME Inv, Select
  PROVE  Inv'
<1>1. PICK cmd \in Offered : Selectable(cmd) /\ KillDisplay(cmd)
  BY DEF Select
<1>2. QED
  BY <1>1, KillDisplayInv DEF Select

-----------------------------------------------------------------------------
(* The buffer dialog lets the length go only if nothing was monitored when  *)
(* it came up, and no command but those of posted messages is given since.  *)
DialogInv == /\ dlg \in {"none", "free", "busy"}
             /\ dlg = "free" => ~cfg.monitoring
             /\ dlg # "none" => ui.cmd \in {"none", "end", "abort"}

LEMMA NextDialog == Inv /\ DialogInv /\ [Next]_vars => DialogInv'
<1> SUFFICES ASSUME Inv, DialogInv, [Next]_vars PROVE DialogInv'
  OBVIOUS
<1>1. DOMAIN cfg = {"mode", "show", "monitoring", "display", "view", "save", "load"} /\ UiShape
  BY DEF Inv, Shape, CfgShape
<1>2. ASSUME dlg' = "none" PROVE DialogInv'
  BY <1>2 DEF DialogInv
<1>3. ASSUME dlg' = dlg, dlg # "none" => (cfg'.monitoring => cfg.monitoring) /\ ui'.cmd \in {"none", "end", "abort"}
      PROVE  DialogInv'
  BY <1>3 DEF DialogInv
<1>4. CASE UNCHANGED vars \/ Arrive \/ Monitor \/ Display
  <2>1. UNCHANGED <<cfg, ui, dlg>>
    BY <1>4 DEF vars, Arrive, Monitor, MonitorStarts, MonitorFindsNothing, MonitorReads, MonitorStores,
           MonitorStopsAtEnd, MonitorIsStopped, Finish, Display, DisplayStarts, DisplayWakes, DisplayShows,
           DisplayCaughtUp
  <2> QED
    BY <2>1 DEF DialogInv
<1>5. CASE Select
  BY <1>2, <1>5 DEF Select
<1>6. ASSUME NEW cmd, KillDisplay(cmd) PROVE ui'.cmd = cmd
  BY <1>6 DEF KillDisplay, KillMonitor
<1>7. CASE Messages
  <2>1. dlg' = dlg /\ (ui' = ui \/ KillDisplay("abort") \/ KillDisplay("end"))
    BY <1>7 DEF Messages, ServeStart, ServeKill, ServeViewOn, ServeWrite, ServeEnd
  <2>2. cfg'.monitoring = cfg.monitoring
    BY <1>1, <1>7 DEF Messages, ServeStart, ServeKill, ServeViewOn, ServeWrite, ServeEnd
  <2> QED
    BY <1>3, <1>6, <2>1, <2>2 DEF DialogInv
<1>8. CASE DisplayEnded \/ MonitorEnded \/ Closed
  <2>1. /\ UNCHANGED <<cfg, dlg>>
        /\ \/ KillMonitor(ui.cmd, TRUE)
           \/ ui' = [ui EXCEPT !.at = "rest", !.killed = TRUE]
           \/ ui' = [ui EXCEPT !.at = "closed"]
    BY <1>8 DEF DisplayEnded, MonitorEnded, Closed
  <2>2. ui'.cmd = ui.cmd
    <3>1. CASE KillMonitor(ui.cmd, TRUE)
      <4>1. PICK killed : killed = (TRUE /\ "monitor" \notin Ends(ui.cmd))
        OBVIOUS
      <4>2. \/ ui' = [at |-> "monitorEnds", cmd |-> ui.cmd, killed |-> FALSE]
            \/ ui' = [at |-> "rest", cmd |-> ui.cmd, killed |-> killed]
        BY <3>1, <4>1 DEF KillMonitor
      <4> QED
        BY <4>2
    <3> QED
      BY <1>1, <2>1, <3>1 DEF UiShape
  <2> QED
    BY <1>3, <2>1, <2>2 DEF DialogInv
<1>9. CASE BufferOpened
  <2>1. cfg' = cfg /\ ui'.cmd = "none" /\ dlg' = IF cfg.monitoring THEN "busy" ELSE "free"
    BY <1>1, <1>9 DEF BufferOpened, Does, UiShape
  <2> QED
    BY <2>1 DEF DialogInv
<1>10. CASE BufferSet \/ BufferCancelled
  BY <1>2, <1>10 DEF BufferSet, SetBuffer, BufferCancelled
<1>11. ASSUME NEW cmd, Does(cmd), dlg' = dlg, cmd # "none", cmd \in {"end", "abort"} => ~cfg'.monitoring
       PROVE  DialogInv'
  <2>1. ui.cmd = cmd /\ ui'.cmd = "none"
    BY <1>1, <1>11 DEF Does, UiShape
  <2>2. dlg # "none" => cmd \in {"end", "abort"}
    BY <1>11, <2>1 DEF DialogInv
  <2> QED
    BY <1>3, <1>11, <2>1, <2>2
<1>12. CASE Aborted \/ EndTold
  <2>1. dlg' = dlg /\ (Does("abort") \/ Does("end"))
    BY <1>12 DEF Aborted, EndTold
  <2>2. ~cfg'.monitoring
    BY <1>1, <1>12 DEF Aborted, EndTold
  <2> QED
    BY <1>11, <2>1, <2>2
<1>13. CASE \/ StreamToggled \/ DisplayToggled \/ FormatChanged \/ Viewed \/ ViewClosed \/ Saved
            \/ Loaded \/ Restarted
  <2>1. /\ dlg' = dlg
        /\ \E cmd \in {"mstream", "mdisplay", "format", "view", "unview", "save", "load", "restart"} : Does(cmd)
    BY <1>13 DEF StreamToggled, DisplayToggled, FormatChanged, Viewed, ViewClosed, Saved, Loaded, Restarted
  <2> QED
    BY <1>11, <2>1
<1> QED
  BY <1>4, <1>5, <1>7, <1>8, <1>9, <1>10, <1>12, <1>13 DEF Next, Carries

LEMMA InitDialog == Init => DialogInv
BY DEF Init, DialogInv

(* The dialog is left: the mode is another, or the buffer is taken away     *)
(* from whoever looks at it, and the monitor and the commands are as they   *)
(* were.                                                                    *)
LEMMA DialogLeft ==
  ASSUME Inv, DialogInv, BufferSet \/ BufferCancelled
  PROVE  /\ UNCHANGED <<trace, m, d, ui, msgs, view>> /\ CfgShape' /\ BufferShape'
         /\ cfg'.show = cfg.show /\ cfg'.display = cfg.display /\ (cfg.monitoring => cfg'.monitoring)
         /\ b'.sound => /\ b.sound /\ b'.slot = b.slot /\ b'.w = b.w /\ b'.wrapped = b.wrapped
                        /\ b'.n = b.n /\ b'.gone = b.gone
         /\ b'.sound /\ cfg'.mode = "file" /\ b.wrapped => m.pc = "dead" \/ cfg' = cfg
         /\ b'.slot # b.slot => dlg = "free"
<1>1. CASE BufferCancelled
  BY <1>1 DEF BufferCancelled, Inv, Shape, CfgShape, BufferShape
<1>2. CASE BufferSet
  <2>1. PICK mode \in Modes, resized \in {FALSE, dlg = "free"} :
          /\ cfg' = [cfg EXCEPT !.mode = mode, !.monitoring = (dlg = "busy"), !.view = @ /\ ~resized]
          /\ b' = IF resized
                  THEN [b EXCEPT !.slot = [i \in Slots |-> Blank], !.w = 0, !.wrapped = FALSE, !.sound = FALSE]
                  ELSE [b EXCEPT !.sound = @ /\ ~(mode = "file" /\ b.wrapped /\ m.pc # "dead")]
    BY <1>2 DEF BufferSet, SetBuffer
  <2>2. UNCHANGED <<trace, m, d, ui, msgs, view>>
    BY <1>2 DEF BufferSet, SetBuffer
  <2>3. PICK busy \in BOOLEAN, view1 \in {cfg.view /\ ~resized} : busy = (dlg = "busy") /\ view1 = (cfg.view /\ ~resized)
    OBVIOUS
  <2>4. cfg' = [cfg EXCEPT !.mode = mode, !.monitoring = busy, !.view = view1]
    BY <2>1, <2>3
  <2>5. CfgShape' /\ cfg'.show = cfg.show /\ cfg'.display = cfg.display /\ cfg'.mode = mode /\ cfg'.monitoring = busy
    BY <2>4 DEF Inv, Shape, CfgShape
  <2>6. cfg.monitoring => cfg'.monitoring
    BY <1>2, <2>3, <2>5 DEF DialogInv, BufferSet, SetBuffer
  <2>7. CASE resized
    <3>1. b' = [b EXCEPT !.slot = [i \in Slots |-> Blank], !.w = 0, !.wrapped = FALSE, !.sound = FALSE]
      BY <2>1, <2>7
    <3>2. [i \in Slots |-> Blank] \in [Slots -> Int]
      BY DEF Blank
    <3>3. BufferShape' /\ ~b'.sound
      BY <3>1, <3>2 DEF Inv, Shape, BufferShape
    <3>4. dlg = "free"
      BY <2>7
    <3> QED
      BY <2>2, <2>5, <2>6, <3>3, <3>4
  <2>8. CASE ~resized
    <3>1. PICK sound \in BOOLEAN : sound = (b.sound /\ ~(mode = "file" /\ b.wrapped /\ m.pc # "dead"))
      OBVIOUS
    <3>2. b' = [b EXCEPT !.sound = sound]
      BY <2>1, <2>8, <3>1
    <3>3. /\ BufferShape' /\ b'.sound = sound /\ b'.slot = b.slot /\ b'.w = b.w /\ b'.wrapped = b.wrapped
          /\ b'.n = b.n /\ b'.gone = b.gone
      BY <3>2 DEF Inv, Shape, BufferShape
    <3> QED
      BY <2>2, <2>5, <2>6, <3>1, <3>3
  <2> QED
    BY <2>7, <2>8
<1> QED
  BY <1>1, <1>2

LEMMA DialogKeeps ==
  ASSUME Inv, DialogInv, BufferSet \/ BufferCancelled
  PROVE  Inv'
<1>1. /\ UNCHANGED <<m, ui>> /\ CfgShape' /\ BufferShape' /\ (cfg.monitoring => cfg'.monitoring)
      /\ b'.sound => /\ b.sound /\ b'.slot = b.slot /\ b'.w = b.w /\ b'.wrapped = b.wrapped
                     /\ b'.n = b.n /\ b'.gone = b.gone
      /\ b'.sound /\ cfg'.mode = "file" /\ b.wrapped => m.pc = "dead" \/ cfg' = cfg
  BY DialogLeft
<1>2. Shape' /\ StopMeansDead' /\ KilledMeansDead'
  BY <1>1 DEF Inv, Shape, MonitorShape, UiShape, StopMeansDead, KilledMeansDead, Ends
<1>3. InOrder'
  <2>1. CASE ~b'.sound
    BY <2>1 DEF InOrder
  <2>2. CASE b'.sound
    BY <1>1, <2>2, SameWords DEF Inv
  <2> QED
    BY <2>1, <2>2
<1>4. KnownToRun' /\ FilesDoNotWrap'
  BY <1>1 DEF Inv, KnownToRun, FilesDoNotWrap, Running
<1> QED
  BY <1>2, <1>3, <1>4 DEF Inv

-----------------------------------------------------------------------------
LEMMA InitInv == Init => Inv
<1> SUFFICES ASSUME Init PROVE Inv
  OBVIOUS
<1>1. MonitorShape /\ m.pc = "dead"
  BY DEF Init, MonitorShape
<1>2. PICK blank : blank = [i \in Slots |-> Blank]
  OBVIOUS
<1>3. blank \in [Slots -> Int]
  BY <1>2 DEF Blank
<1>4. b = [slot |-> blank, w |-> 0, r |-> 0, wrapped |-> FALSE, toView |-> FALSE, n |-> 0, gone |-> 0,
           sound |-> TRUE]
  BY <1>2 DEF Init
<1>5. BufferShape /\ b.w = 0 /\ b.n = 0 /\ b.gone = 0 /\ ~b.wrapped
  BY <1>3, <1>4 DEF BufferShape
<1>6. InOrder
  BY <1>5, CaptureAssumption DEF InOrder, Slots
<1>7. UiShape /\ ui.at = "idle" /\ ui.cmd = "none"
  BY DEF Init, UiShape
<1>8. CfgShape
  BY DEF Init, CfgShape
<1>9. QED
  BY <1>1, <1>5, <1>6, <1>7, <1>8 DEF Inv, Shape, StopMeansDead, KilledMeansDead,
     KnownToRun, FilesDoNotWrap, Running

LEMMA NextInv == Inv /\ DialogInv /\ [Next]_vars => Inv'
<1> SUFFICES ASSUME Inv, DialogInv, [Next]_vars PROVE Inv'
  OBVIOUS
<1>1. CASE UNCHANGED vars \/ Arrive
  <2>1. UNCHANGED <<m, b, ui, cfg>>
    BY <1>1 DEF vars, Arrive
  <2>2. QED
    BY <2>1, OnlyRead DEF Inv, Shape, BufferShape
<1>2. QED
  BY <1>1, MonitorInv, DisplayInv, SelectInv, CarriesInv, MessagesInv, DialogKeeps DEF Next

(* The capture buffer is a window on the stream, for every length of the    *)
(* buffer, whatever the user does: what the monitor stores (thread.c) lies  *)
(* in order as long as nobody else has touched the buffer.                  *)
THEOREM BufferInOrder == Spec => []InOrder
<1>1. Inv => InOrder
  BY DEF Inv
<1>2. QED
  BY <1>1, InitInv, NextInv, InitDialog, NextDialog, PTL DEF Spec

-----------------------------------------------------------------------------
(* What the user scrolls through and what is saved.  A buffer that wrapped  *)
(* is full of words of this session; who looks at the buffer has seen the   *)
(* monitor end, and the view is closed before the monitor is created again. *)
WrappedFull == b.sound /\ b.wrapped => b.n - b.gone >= BufferLength
ViewedDead == "data" \in cfg.show => m.pc = "dead"
ViewInv == WrappedFull /\ ViewedDead /\ ViewIsRecent

LEMMA ModOnce ==
  ASSUME NEW N \in Nat \ {0}, NEW x \in Nat
  PROVE  (x < N => x % N = x) /\ (N <= x /\ x < 2 * N => x % N = x - N)
OBVIOUS

(* How many words the buffer holds, and where the i-th of them lies.        *)
LEMMA HowMany ==
  ASSUME Inv, WrappedFull, b.sound
  PROVE  /\ b.w \in 0 .. BufferLength /\ b.n \in Nat /\ BufferLength \in Nat \ {0}
         /\ Least(b.n - b.gone, BufferLength) = IF b.wrapped THEN BufferLength ELSE b.w
         /\ ~b.wrapped => \A i \in 1 .. b.w : b.slot[i - 1] = b.n - b.w + i
         /\ b.wrapped => \A i \in 1 .. BufferLength :
              /\ i <= BufferLength - b.w => b.slot[b.w + i - 1] = b.n - BufferLength + i
              /\ i > BufferLength - b.w => b.slot[b.w + i - 1 - BufferLength] = b.n - BufferLength + i
<1>1. /\ b.w \in Nat /\ b.n \in Nat /\ b.gone \in Nat /\ BufferLength \in Nat \ {0} /\ b.w <= BufferLength
      /\ ~b.wrapped => b.n = b.gone + b.w
  BY CaptureAssumption DEF Inv, InOrder, Shape, BufferShape
<1>2. Least(b.n - b.gone, BufferLength) = IF b.wrapped THEN BufferLength ELSE b.w
  BY <1>1 DEF Least, WrappedFull
<1>3. ASSUME ~b.wrapped, NEW i \in 1 .. b.w PROVE b.slot[i - 1] = b.n - b.w + i
  <2>1. i - 1 \in Slots /\ i - 1 < b.w
    BY <1>1 DEF Slots
  <2>2. b.slot[i - 1] = b.n - b.w + (i - 1) + 1
    BY <2>1 DEF Inv, InOrder
  <2> QED
    BY <1>1, <2>2
<1>4. ASSUME b.wrapped, NEW i \in 1 .. BufferLength, i <= BufferLength - b.w
      PROVE  b.slot[b.w + i - 1] = b.n - BufferLength + i
  <2>1. PICK j : j = b.w + i - 1
    OBVIOUS
  <2>2. j \in Slots /\ j >= b.w
    BY <1>1, <1>4, <2>1 DEF Slots
  <2>3. b.slot[j] = b.n - b.w - BufferLength + j + 1
    BY <1>4, <2>2 DEF Inv, InOrder
  <2> QED
    BY <1>1, <2>1, <2>3
<1>5. ASSUME b.wrapped, NEW i \in 1 .. BufferLength, i > BufferLength - b.w
      PROVE  b.slot[b.w + i - 1 - BufferLength] = b.n - BufferLength + i
  <2>1. PICK j : j = b.w + i - 1 - BufferLength
    OBVIOUS
  <2>2. j \in Slots /\ j < b.w
    BY <1>1, <1>5, <2>1 DEF Slots
  <2>3. b.slot[j] = b.n - b.w + j + 1
    BY <2>2 DEF Inv, InOrder
  <2>4. b.n - b.w + j + 1 = b.n - BufferLength + i
    BY <1>1, <2>1
  <2> QED
    BY <2>1, <2>3, <2>4
<1>6. ~b.wrapped => \A i \in 1 .. b.w : b.slot[i - 1] = b.n - b.w + i
  BY <1>3
<1>7. b.wrapped => \A i \in 1 .. BufferLength :
        /\ i <= BufferLength - b.w => b.slot[b.w + i - 1] = b.n - BufferLength + i
        /\ i > BufferLength - b.w => b.slot[b.w + i - 1 - BufferLength] = b.n - BufferLength + i
  BY <1>4, <1>5
<1>8. b.w \in 0 .. BufferLength
  BY <1>1
<1> QED
  BY <1>1, <1>2, <1>6, <1>7, <1>8

LEMMA SnapshotIsRecent ==
  ASSUME Inv, WrappedFull, b.sound
  PROVE  Snapshot = Recent
<1>1. /\ b.w \in 0 .. BufferLength /\ b.n \in Nat /\ BufferLength \in Nat \ {0}
      /\ Least(b.n - b.gone, BufferLength) = IF b.wrapped THEN BufferLength ELSE b.w
      /\ ~b.wrapped => \A i \in 1 .. b.w : b.slot[i - 1] = b.n - b.w + i
      /\ b.wrapped => \A i \in 1 .. BufferLength :
           /\ i <= BufferLength - b.w => b.slot[b.w + i - 1] = b.n - BufferLength + i
           /\ i > BufferLength - b.w => b.slot[b.w + i - 1 - BufferLength] = b.n - BufferLength + i
  BY HowMany
<1>2. CASE ~b.wrapped
  <2>1. Snapshot = [i \in 1 .. b.w |-> b.slot[i - 1]]
    BY <1>2 DEF Snapshot, Contents
  <2>2. Recent = [i \in 1 .. b.w |-> b.n - b.w + i]
    BY <1>1, <1>2 DEF Recent
  <2> QED
    BY <1>1, <1>2, <2>1, <2>2
<1>3. CASE b.wrapped
  <2>1. Snapshot = [i \in 1 .. BufferLength |-> b.slot[(b.w + i - 1) % BufferLength]]
    BY <1>3 DEF Snapshot
  <2>2. Recent = [i \in 1 .. BufferLength |-> b.n - BufferLength + i]
    BY <1>1, <1>3 DEF Recent
  <2>3. ASSUME NEW i \in 1 .. BufferLength
        PROVE  b.slot[(b.w + i - 1) % BufferLength] = b.n - BufferLength + i
    <3>1. PICK x : x = b.w + i - 1
      OBVIOUS
    <3>2. x \in Nat /\ x < 2 * BufferLength
      BY <1>1, <3>1
    <3>3. (x < BufferLength => x % BufferLength = x)
          /\ (BufferLength <= x => x % BufferLength = x - BufferLength)
      BY <1>1, <3>2, ModOnce
    <3>4. CASE i <= BufferLength - b.w
      BY <1>1, <1>3, <3>1, <3>3, <3>4
    <3>5. CASE i > BufferLength - b.w
      BY <1>1, <1>3, <3>1, <3>3, <3>5
    <3> QED
      BY <1>1, <3>4, <3>5
  <2> QED
    BY <2>1, <2>2, <2>3
<1> QED
  BY <1>2, <1>3

(* The words of a wrapped buffer as it lies are the same in another order.  *)
LEMMA SavedIsRecent ==
  ASSUME Inv, WrappedFull, b.sound
  PROVE  ToSet(Contents(b, IF b.wrapped THEN BufferLength ELSE Least(b.w, BufferLength))) = ToSet(Recent)
<1>1. /\ b.w \in 0 .. BufferLength /\ b.n \in Nat /\ BufferLength \in Nat \ {0}
      /\ Least(b.n - b.gone, BufferLength) = IF b.wrapped THEN BufferLength ELSE b.w
      /\ ~b.wrapped => \A i \in 1 .. b.w : b.slot[i - 1] = b.n - b.w + i
      /\ b.wrapped => \A i \in 1 .. BufferLength :
           /\ i <= BufferLength - b.w => b.slot[b.w + i - 1] = b.n - BufferLength + i
           /\ i > BufferLength - b.w => b.slot[b.w + i - 1 - BufferLength] = b.n - BufferLength + i
  BY HowMany
<1>2. CASE ~b.wrapped
  <2>1. Least(b.w, BufferLength) = b.w
    BY <1>1 DEF Least
  <2>2. Contents(b, b.w) = Snapshot
    BY <1>2 DEF Snapshot
  <2> QED
    BY <1>2, <2>1, <2>2, SnapshotIsRecent
<1>3. CASE b.wrapped
  <2>1. ToSet(Recent) = {b.n - BufferLength + i : i \in 1 .. BufferLength}
    BY <1>1, <1>3 DEF Recent, ToSet
  <2>2. ToSet(Contents(b, BufferLength)) = {b.slot[i - 1] : i \in 1 .. BufferLength}
    BY DEF Contents, ToSet
  <2>3. ASSUME NEW i \in 1 .. BufferLength
        PROVE  \E j \in 1 .. BufferLength : b.slot[j - 1] = b.n - BufferLength + i
    <3>1. CASE i <= BufferLength - b.w
      <4>1. b.w + i \in 1 .. BufferLength /\ (b.w + i) - 1 = b.w + i - 1
        BY <1>1, <3>1
      <4> QED
        BY <1>1, <1>3, <3>1, <4>1
    <3>2. CASE i > BufferLength - b.w
      <4>1. b.w + i - BufferLength \in 1 .. BufferLength
            /\ (b.w + i - BufferLength) - 1 = b.w + i - 1 - BufferLength
        BY <1>1, <3>2
      <4> QED
        BY <1>1, <1>3, <3>2, <4>1
    <3> QED
      BY <1>1, <3>1, <3>2
  <2>4. ASSUME NEW j \in 1 .. BufferLength
        PROVE  \E i \in 1 .. BufferLength : b.slot[j - 1] = b.n - BufferLength + i
    <3>1. CASE j <= b.w
      <4>1. PICK i : i = j + BufferLength - b.w
        OBVIOUS
      <4>2. i \in 1 .. BufferLength /\ i > BufferLength - b.w /\ b.w + i - 1 - BufferLength = j - 1
        BY <1>1, <3>1, <4>1
      <4> QED
        BY <1>1, <1>3, <4>2
    <3>2. CASE j > b.w
      <4>1. PICK i : i = j - b.w
        OBVIOUS
      <4>2. i \in 1 .. BufferLength /\ i <= BufferLength - b.w /\ b.w + i - 1 = j - 1
        BY <1>1, <3>2, <4>1
      <4> QED
        BY <1>1, <1>3, <4>2
    <3> QED
      BY <1>1, <3>1, <3>2
  <2> QED
    BY <1>3, <2>1, <2>2, <2>3, <2>4
<1> QED
  BY <1>2, <1>3

-----------------------------------------------------------------------------
(* A step after which the buffer holds the words it held, and whoever views *)
(* it viewed it before.                                                     *)
LEMMA ViewKept ==
  ASSUME ViewInv,
         b'.sound => b.sound /\ b'.n = b.n /\ b'.gone = b.gone /\ b'.wrapped = b.wrapped,
         "data" \in cfg'.show => /\ "data" \in cfg.show /\ m'.pc = "dead" /\ view' = view
                                 /\ "file" \notin cfg'.show => "file" \notin cfg.show
  PROVE  ViewInv'
<1>1. WrappedFull' /\ ViewedDead'
  BY DEF ViewInv, WrappedFull, ViewedDead
<1>2. ASSUME "data" \in cfg'.show, "file" \notin cfg'.show, b'.sound PROVE view' = Recent'
  <2>1. Recent' = Recent
    BY <1>2 DEF Recent
  <2> QED
    BY <1>2, <2>1 DEF ViewInv, ViewIsRecent
<1> QED
  BY <1>1, <1>2 DEF ViewInv, ViewIsRecent

(* A running monitor is not viewed.                                         *)
LEMMA ViewNone ==
  ASSUME ViewInv, m.pc # "dead", cfg' = cfg, WrappedFull'
  PROVE  ViewInv'
BY DEF ViewInv, ViewedDead, ViewIsRecent

LEMMA MonitorView ==
  ASSUME Inv, ViewInv, Monitor
  PROVE  ViewInv'
<1>1. m.pc # "dead" /\ cfg' = cfg
  BY DEF Monitor, MonitorStarts, MonitorFindsNothing, MonitorReads, MonitorStores, MonitorStopsAtEnd,
         MonitorIsStopped, Finish
<1>2. ASSUME b'.sound => b.sound /\ b'.n = b.n /\ b'.gone = b.gone /\ b'.wrapped = b.wrapped
      PROVE  WrappedFull'
  BY <1>2 DEF ViewInv, WrappedFull
<1>3. CASE MonitorStarts
  <2>1. b' = Reset(b)
    BY <1>3 DEF MonitorStarts
  <2>2. b'.wrapped = FALSE
    BY <2>1 DEF Reset, Inv, Shape, BufferShape
  <2> QED
    BY <1>1, <2>2, ViewNone DEF WrappedFull
<1>4. CASE MonitorFindsNothing
  BY <1>1, <1>2, <1>4, ViewNone DEF MonitorFindsNothing
<1>5. CASE MonitorReads
  <2>1. b' = [b EXCEPT !.toView = TRUE]
    BY <1>5 DEF MonitorReads
  <2>2. b'.n = b.n /\ b'.gone = b.gone /\ b'.wrapped = b.wrapped /\ b'.sound = b.sound
    BY <2>1 DEF Inv, Shape, BufferShape
  <2> QED
    BY <1>1, <1>2, <2>2, ViewNone
<1>6. CASE MonitorStores
  <2>1. m.pc = "store" /\ \/ b.w < BufferLength /\ b' = Stored(b)
                          \/ b.w >= BufferLength /\ cfg.mode # "stop" /\ b' = Stored(Emptied(b))
    BY <1>6 DEF MonitorStores
  <2>2. /\ b.n \in Nat /\ b.gone \in Nat /\ b.w \in Nat /\ BufferLength \in Nat
        /\ DOMAIN b = {"slot", "w", "r", "wrapped", "toView", "n", "gone", "sound"}
    BY CaptureAssumption DEF Inv, Shape, BufferShape
  <2>3. CASE b' = Stored(b)
    <3>1. b'.n = b.n + 1 /\ b'.gone = b.gone /\ b'.wrapped = b.wrapped /\ b'.sound = b.sound
      BY <2>2, <2>3 DEF Stored
    <3>2. WrappedFull'
      BY <2>2, <3>1 DEF ViewInv, WrappedFull
    <3> QED
      BY <1>1, <3>2, ViewNone
  <2>4. CASE b.w >= BufferLength /\ cfg.mode = "file" /\ b' = Stored(Emptied(b))
    <3>1. b'.wrapped = b.wrapped /\ b'.sound = b.sound
      BY <2>2, <2>4 DEF Stored, Emptied
    <3>2. ~(b'.sound /\ b'.wrapped)
      BY <2>1, <2>4, <3>1 DEF Inv, FilesDoNotWrap, Running
    <3> QED
      BY <1>1, <3>2, ViewNone DEF WrappedFull
  <2>5. CASE b.w >= BufferLength /\ cfg.mode # "file" /\ b' = Stored(Emptied(b))
    <3>1. b'.n = b.n + 1 /\ b'.gone = b.gone /\ b'.sound = b.sound
      BY <2>2, <2>5 DEF Stored, Emptied
    <3>2. b.sound => b.n - b.gone >= BufferLength
      BY <2>2, <2>5 DEF ViewInv, WrappedFull, Inv, InOrder
    <3>3. WrappedFull'
      BY <2>2, <3>1, <3>2 DEF WrappedFull
    <3> QED
      BY <1>1, <3>3, ViewNone
  <2> QED
    BY <2>1, <2>3, <2>4, <2>5
<1>7. ASSUME NEW q, Finish(q) PROVE ViewInv'
  <2>1. b' = [b EXCEPT !.r = b.w]
    BY <1>7 DEF Finish
  <2>2. b'.n = b.n /\ b'.gone = b.gone /\ b'.wrapped = b.wrapped /\ b'.sound = b.sound
    BY <2>1 DEF Inv, Shape, BufferShape
  <2> QED
    BY <1>1, <1>2, <2>2, ViewNone
<1> QED
  BY <1>3, <1>4, <1>5, <1>6, <1>7 DEF Monitor, MonitorStopsAtEnd, MonitorIsStopped

(* The commands and messages that leave what is shown as it is, or end it.  *)
LEMMA CarriesView ==
  ASSUME Inv, ViewInv, Carries
  PROVE  ViewInv'
<1>1. /\ DOMAIN b = {"slot", "w", "r", "wrapped", "toView", "n", "gone", "sound"}
      /\ DOMAIN cfg = {"mode", "show", "monitoring", "display", "view", "save", "load"}
      /\ DOMAIN m = {"pc", "batch", "stop", "kill"}
  BY DEF Inv, Shape, BufferShape, CfgShape, MonitorShape
<1>2. ASSUME "data" \notin cfg'.show, b' = b PROVE ViewInv'
  BY <1>2, ViewKept
<1>3. ASSUME cfg'.show = cfg.show, view' = view, m'.pc = m.pc,
             b'.sound => b.sound /\ b'.n = b.n /\ b'.gone = b.gone /\ b'.wrapped = b.wrapped
      PROVE  ViewInv'
  BY <1>3, ViewKept DEF ViewInv, ViewedDead
<1>4. CASE DisplayEnded
  <2>1. UNCHANGED <<b, cfg, view>> /\ (m' = m \/ m' = [m EXCEPT !.stop = TRUE, !.kill = FALSE])
    BY <1>4 DEF DisplayEnded, KillMonitor
  <2>2. m'.pc = m.pc
    BY <1>1, <2>1
  <2> QED
    BY <1>3, <2>1, <2>2
<1>5. CASE MonitorEnded \/ FormatChanged \/ Saved \/ Closed
  BY <1>3, <1>5 DEF MonitorEnded, FormatChanged, Saved, Closed
<1>6. CASE StreamToggled
  <2>1. b' = b /\ (m' = m \/ m' = MonitorCreated)
        /\ view' = (IF cfg'.show = cfg.show THEN view ELSE <<>>)
    BY <1>6 DEF StreamToggled
  <2>2. CASE m' = m /\ (cfg' = cfg \/ cfg' = [cfg EXCEPT !.monitoring = FALSE])
    <3>1. cfg'.show = cfg.show
      BY <1>1, <2>2
    <3> QED
      BY <1>3, <2>1, <2>2, <3>1
  <2>3. CASE cfg' = [cfg EXCEPT !.monitoring = TRUE, !.show = @ \cap {"stream"}]
    <3>1. "data" \notin cfg'.show
      BY <1>1, <2>3
    <3> QED
      BY <1>2, <2>1, <3>1
  <2> QED
    BY <1>6, <2>2, <2>3 DEF StreamToggled
<1>7. CASE DisplayToggled
  <2>1. b' = b /\ (cfg' = [cfg EXCEPT !.show = {}] \/ cfg' = [cfg EXCEPT !.show = {"stream"}])
    BY <1>7 DEF DisplayToggled
  <2>2. "data" \notin cfg'.show
    BY <1>1, <2>1
  <2> QED
    BY <1>2, <2>1, <2>2
<1>8. CASE Viewed
  <2>1. /\ Does("view") /\ view' = Snapshot /\ UNCHANGED <<m, b>>
        /\ cfg' = [cfg EXCEPT !.monitoring = FALSE, !.show = @ \cup {"data"}]
    BY <1>8 DEF Viewed
  <2>2. m.pc = "dead"
    BY <2>1 DEF Does, Inv, KilledMeansDead, Ends
  <2>3. WrappedFull' /\ ViewedDead'
    BY <2>1, <2>2 DEF ViewInv, WrappedFull, ViewedDead
  <2>4. ASSUME b'.sound PROVE view' = Recent'
    <3>1. Recent' = Recent
      BY <2>1 DEF Recent
    <3>2. Snapshot = Recent
      BY <2>1, <2>4, SnapshotIsRecent DEF ViewInv
    <3> QED
      BY <2>1, <3>1, <3>2
  <2> QED
    BY <2>3, <2>4 DEF ViewInv, ViewIsRecent
<1>9. CASE ViewClosed
  <2>1. b' = b /\ cfg' = [cfg EXCEPT !.show = {}]
    BY <1>9 DEF ViewClosed
  <2>2. "data" \notin cfg'.show
    BY <1>1, <2>1
  <2> QED
    BY <1>2, <2>1, <2>2
<1>10. CASE Loaded
  <2>1. PICK words : b' = [b EXCEPT !.w = words, !.sound = FALSE]
    BY <1>10 DEF Loaded
  <2>2. m' = m /\ cfg' = [cfg EXCEPT !.show = @ \cup {"file"}, !.view = FALSE, !.save = FALSE]
    BY <1>10 DEF Loaded
  <2>3. ~b'.sound /\ cfg'.show = cfg.show \cup {"file"}
    BY <1>1, <2>1, <2>2
  <2> QED
    BY <2>2, <2>3 DEF ViewInv, WrappedFull, ViewedDead, ViewIsRecent
<1>11. CASE BufferOpened
  BY <1>3, <1>11 DEF BufferOpened
<1>12. CASE Restarted
  <2>1. PICK mode \in Modes, show \in SUBSET {"stream"}, monitoring \in BOOLEAN :
          cfg' = [cfg EXCEPT !.mode = mode, !.monitoring = monitoring, !.show = show]
    BY <1>12 DEF Restarted
  <2>2. b' = [b EXCEPT !.slot = [i \in Slots |-> Blank], !.sound = FALSE]
    BY <1>12 DEF Restarted
  <2>3. "data" \notin cfg'.show /\ ~b'.sound
    BY <1>1, <2>1, <2>2
  <2> QED
    BY <2>3, ViewKept
<1>13. CASE Aborted
  <2>1. UNCHANGED <<m, b, view>> /\ cfg' = [cfg EXCEPT !.monitoring = FALSE]
    BY <1>13 DEF Aborted
  <2>2. cfg'.show = cfg.show
    BY <1>1, <2>1
  <2> QED
    BY <1>3, <2>1, <2>2
<1>14. CASE EndTold
  <2>1. UNCHANGED <<m, view>> /\ cfg' = [cfg EXCEPT !.monitoring = FALSE, !.display = FALSE]
    BY <1>14 DEF EndTold
  <2>2. PICK ended : ended = (b.sound /\ m.pc = "dead")
    OBVIOUS
  <2>3. b' = [b EXCEPT !.sound = ended]
    BY <1>14, <2>2 DEF EndTold
  <2>4. b'.sound = ended /\ b'.n = b.n /\ b'.gone = b.gone /\ b'.wrapped = b.wrapped
    BY <1>1, <2>3
  <2>5. cfg'.show = cfg.show
    BY <1>1, <2>1
  <2> QED
    BY <1>3, <2>1, <2>2, <2>4, <2>5
<1> QED
  BY <1>4, <1>5, <1>6, <1>7, <1>8, <1>9, <1>10, <1>11, <1>12, <1>13, <1>14 DEF Carries

(* The other steps leave the words, the view and what is shown alone.       *)
LEMMA OthersView ==
  ASSUME Inv, ViewInv, Display \/ Select \/ Messages \/ Arrive \/ UNCHANGED vars
  PROVE  ViewInv'
<1>1. /\ DOMAIN b = {"slot", "w", "r", "wrapped", "toView", "n", "gone", "sound"}
      /\ DOMAIN cfg = {"mode", "show", "monitoring", "display", "view", "save", "load"}
      /\ DOMAIN m = {"pc", "batch", "stop", "kill"}
  BY DEF Inv, Shape, BufferShape, CfgShape, MonitorShape
<1>2. view' = view
  BY DEF Display, DisplayStarts, DisplayWakes, DisplayShows, DisplayCaughtUp, Select, Messages, ServeStart,
         ServeKill, ServeViewOn, ServeWrite, ServeEnd, Arrive, vars
<1>3. b' = b \/ b' = [b EXCEPT !.r = b.w] \/ b' = [b EXCEPT !.r = NextSlot + 1]
  BY DEF Display, DisplayStarts, DisplayWakes, DisplayShows, DisplayCaughtUp, Select, Messages, ServeStart,
         ServeKill, ServeViewOn, ServeWrite, ServeEnd, Arrive, vars
<1>4. m' = m \/ m' = [m EXCEPT !.stop = TRUE, !.kill = FALSE]
  BY DEF Display, DisplayStarts, DisplayWakes, DisplayShows, DisplayCaughtUp, Select, Messages, ServeStart,
         ServeKill, ServeViewOn, ServeWrite, ServeEnd, Arrive, vars, KillDisplay, KillMonitor
<1>5. \/ cfg' = cfg
      \/ cfg' = [cfg EXCEPT !.load = FALSE, !.save = FALSE, !.display = TRUE, !.view = FALSE]
      \/ cfg' = [cfg EXCEPT !.save = @ \/ (cfg.mode # "file" /\ b.toView), !.load = TRUE, !.display = FALSE]
      \/ cfg' = [cfg EXCEPT !.view = TRUE]
  BY DEF Display, DisplayStarts, DisplayWakes, DisplayShows, DisplayCaughtUp, Select, Messages, ServeStart,
         ServeKill, ServeViewOn, ServeWrite, ServeEnd, Arrive, vars
<1>6. cfg'.show = cfg.show
  BY <1>1, <1>5
<1>7. m'.pc = m.pc
  BY <1>1, <1>4
<1>8. b'.n = b.n /\ b'.gone = b.gone /\ b'.wrapped = b.wrapped /\ b'.sound = b.sound
  BY <1>1, <1>3
<1> QED
  BY <1>2, <1>6, <1>7, <1>8, ViewKept DEF ViewInv, ViewedDead

(* The mode shows nothing, and another length takes the buffer away.        *)
LEMMA DialogView ==
  ASSUME Inv, DialogInv, ViewInv, BufferSet \/ BufferCancelled
  PROVE  ViewInv'
<1>1. /\ UNCHANGED <<m, view>> /\ cfg'.show = cfg.show
      /\ b'.sound => b.sound /\ b'.n = b.n /\ b'.gone = b.gone /\ b'.wrapped = b.wrapped
  BY DialogLeft
<1> QED
  BY <1>1, ViewKept DEF ViewInv, ViewedDead

LEMMA NextView == Inv /\ DialogInv /\ ViewInv /\ [Next]_vars => ViewInv'
BY MonitorView, CarriesView, OthersView, DialogView DEF Next

LEMMA InitView == Init => ViewInv
<1> SUFFICES ASSUME Init PROVE ViewInv
  OBVIOUS
<1>1. "data" \notin cfg.show /\ ~b.wrapped
  BY DEF Init
<1> QED
  BY <1>1 DEF ViewInv, WrappedFull, ViewedDead, ViewIsRecent

(* What the user scrolls through is the end of the stream, in order, for    *)
(* every length of the buffer and wherever the write index stood            *)
(* (COMSCOPE/comscope.c, IDM_VIEWDAT and the copy of a wrapped buffer).     *)
THEOREM ViewCorrect == Spec => []ViewIsRecent
<1>1. ViewInv => ViewIsRecent
  BY DEF ViewInv
<1> QED
  BY <1>1, InitInv, NextInv, InitDialog, NextDialog, InitView, NextView, PTL DEF Spec

(* Save Data writes every word the buffer holds, however it lies.           *)
THEOREM SaveCorrect == Spec => SavedComplete
<1> DEFINE Complete ==
      (disk'.saved # disk.saved /\ disk'.saved # <<>> /\ b.sound) => ToSet(disk'.saved) = ToSet(Recent)
<1>0. Init => DOMAIN disk = {"done", "last", "saved", "lost"}
  BY DEF Init
<1>1. ASSUME Inv, ViewInv, DOMAIN disk = {"done", "last", "saved", "lost"}, [Next]_vars
      PROVE  Complete /\ DOMAIN disk' = {"done", "last", "saved", "lost"}
  <2>1. CASE Saved
    <3>1. disk' = [disk EXCEPT !.saved =
                     Contents(b, IF b.wrapped THEN BufferLength ELSE Least(b.w, BufferLength))]
      BY <2>1 DEF Saved
    <3> QED
      BY <1>1, <3>1, SavedIsRecent DEF ViewInv
  <2>2. CASE Select
    BY <1>1, <2>2 DEF Select
  <2>3. ASSUME \/ disk' = disk
               \/ \E done, last, lost :
                    disk' = [disk EXCEPT !.done = done, !.last = last, !.lost = lost]
               \/ \E last, lost : disk' = [disk EXCEPT !.last = last, !.lost = lost]
               \/ \E done, last : disk' = [disk EXCEPT !.done = done, !.last = last]
        PROVE  Complete /\ DOMAIN disk' = {"done", "last", "saved", "lost"}
    BY <1>1, <2>3
  <2>4. CASE UNCHANGED vars \/ Arrive \/ Display
    BY <2>3, <2>4 DEF vars, Arrive, Display, DisplayStarts, DisplayWakes, DisplayShows, DisplayCaughtUp
  <2>5. ASSUME NEW q, Finish(q) PROVE Complete /\ DOMAIN disk' = {"done", "last", "saved", "lost"}
    BY <2>3, <2>5 DEF Finish
  <2>9. CASE MonitorStarts
    <3>1. PICK lost : lost = (Pending(msgs) # {})
      OBVIOUS
    <3>2. disk' = [disk EXCEPT !.done = <<>>, !.last = <<>>, !.lost = lost]
      BY <2>9, <3>1 DEF MonitorStarts
    <3> QED
      BY <2>3, <3>2
  <2>6. CASE Monitor
    BY <2>3, <2>5, <2>6, <2>9 DEF Monitor, MonitorFindsNothing, MonitorReads, MonitorStores,
           MonitorStopsAtEnd, MonitorIsStopped
  <2>7. CASE Messages
    <3>1. CASE ServeWrite
      <4>1. \/ disk' = [disk EXCEPT !.done = Append(@, Head(msgs).data), !.last = <<>>]
            \/ disk' = [disk EXCEPT !.last = Head(msgs).data, !.lost = TRUE]
            \/ disk' = [disk EXCEPT !.lost = TRUE]
        BY <3>1 DEF ServeWrite
      <4> QED
        BY <1>1, <4>1
    <3> QED
      BY <2>3, <2>7, <3>1 DEF Messages, ServeStart, ServeKill, ServeViewOn, ServeEnd
  <2>8. CASE Carries /\ ~Saved
    BY <2>3, <2>8 DEF Carries, DisplayEnded, MonitorEnded, StreamToggled, DisplayToggled, FormatChanged,
           Viewed, ViewClosed, Loaded, BufferOpened, Restarted, Closed, Aborted, EndTold
  <2>10. CASE BufferSet
    <3>1. disk' = disk \/ \E lost : disk' = [disk EXCEPT !.last = <<>>, !.lost = lost]
      <4>1. PICK mode \in Modes :
              disk' = IF mode = "file" /\ (dlg = "free" \/ cfg.mode # "file")
                      THEN [disk EXCEPT !.last = <<>>, !.lost = @ \/ b.wrapped \/ b.gone # 0 \/ m.pc = "dead"]
                      ELSE disk
        BY <2>10 DEF BufferSet, SetBuffer
      <4>2. PICK lost : lost = (disk.lost \/ b.wrapped \/ b.gone # 0 \/ m.pc = "dead")
        OBVIOUS
      <4> QED
        BY <4>1, <4>2
    <3> QED
      BY <2>3, <3>1
  <2>11. CASE BufferCancelled
    BY <2>3, <2>11 DEF BufferCancelled
  <2> QED
    BY <1>1, <2>1, <2>2, <2>4, <2>6, <2>7, <2>8, <2>10, <2>11 DEF Next
<1> DEFINE Files == DOMAIN disk = {"done", "last", "saved", "lost"}
<1>5. Inv /\ DialogInv /\ ViewInv /\ Files /\ [Next]_vars => Files'
  BY <1>1
<1>6. Init => Files
  BY <1>0
<1>3. Inv /\ ViewInv /\ Files /\ [Next]_vars => [Complete]_vars
  BY <1>1
<1> HIDE DEF Files, Complete
<1>2. Spec => [](Inv /\ ViewInv /\ Files)
  BY <1>5, <1>6, InitInv, NextInv, InitDialog, NextDialog, InitView, NextView, PTL DEF Spec
<1>4. Spec => [][Complete]_vars
  BY <1>2, <1>3, PTL DEF Spec
<1> QED
  BY <1>4 DEF SavedComplete, Complete
-----------------------------------------------------------------------------
(* What the freeing of the capture buffer rests on: where the two threads    *)
(* and the window that ends them stand.                                      *)

(* The display thread, which nothing but the user interface creates.         *)
DisplayShape == /\ DOMAIN d = {"pc", "stop", "kill", "wake", "last"}
                /\ d.pc \in {"dead", "start", "wait", "woken", "busy"} /\ d.stop \in BOOLEAN /\ d.kill \in BOOLEAN
DisplayStopped == /\ d.stop => d.pc = "dead" \/ ui.at = "displayEnds"
                  /\ d.pc = "dead" => d.stop

(* Who waited for the end of the display goes on when it has ended.          *)
DisplayGone ==
  /\ ui.at = "displayEnds" /\ d.kill => d.pc = "dead"
  /\ ui.at \in {"rest", "monitorEnds"} /\ "display" \in Ends(ui.cmd) => d.pc = "dead"
  /\ ui.at = "monitorEnds" => "monitor" \in Ends(ui.cmd)

(* What is displayed is monitored, as far as the menus know; and so is what  *)
(* the command under way will have displayed again.                          *)
Resumed == \/ ui.cmd = "mdisplay"
           \/ ui.cmd = "format" /\ (ui.killed \/ ui.at = "displayEnds")
DisplayKnown == b.sound /\ (d.pc # "dead" \/ Resumed) => cfg.monitoring

DisplayInvs == DisplayShape /\ DisplayStopped /\ DisplayGone /\ DisplayKnown

(* While no monitor runs, the last the window heard of one, or will hear, is *)
(* that it has ended.                                                        *)
Message == [um : {"STARTMONITOR", "VIEWDAT_ON", "BUFFER_WRITE", "BUFFER_END", "KILLMONITOR"}, data : Seq(Int)]
Announced(um) == {i \in DOMAIN msgs : msgs[i].um = um}
EndAnnounced == \E i \in Announced("KILLMONITOR") : \A j \in Announced("STARTMONITOR") : j < i
EndTaken == ~cfg.display /\ Announced("STARTMONITOR") = {}
EndHeard == msgs \in Seq(Message) /\ (~Running => EndAnnounced \/ EndTaken)

FreeInv == DisplayInvs /\ EndHeard

(* The message of the end is the last of the queue.                          *)
LEMMA HeardEnd ==
  ASSUME NEW q \in Seq(Message), msgs' = Append(q, [um |-> "KILLMONITOR", data |-> <<>>])
  PROVE  msgs' \in Seq(Message) /\ EndAnnounced'
<1> DEFINE end == [um |-> "KILLMONITOR", data |-> <<>>]
<1>1. end \in Message
  BY DEF Message
<1>2. msgs' \in Seq(Message) /\ Len(msgs') = Len(q) + 1 /\ msgs'[Len(q) + 1] = end
  BY <1>1
<1>3. Len(q) \in Nat /\ DOMAIN msgs' = 1 .. Len(q) + 1
  BY <1>2
<1>4. Len(q) + 1 \in Announced("KILLMONITOR")'
  BY <1>2, <1>3 DEF Announced
<1>5. ASSUME NEW j \in Announced("STARTMONITOR")' PROVE j < Len(q) + 1
  <2>1. j \in 1 .. Len(q) + 1 /\ msgs'[j].um = "STARTMONITOR"
    BY <1>3, <1>5 DEF Announced
  <2>2. j # Len(q) + 1
    BY <1>2, <2>1
  <2> QED
    BY <1>3, <2>1, <2>2
<1> QED
  BY <1>2, <1>4, <1>5 DEF EndAnnounced

(* What is heard while no monitor runs.                                      *)
LEMMA HeardNext ==
  ASSUME msgs \in Seq(Message), msgs # <<>>, msgs' = Tail(msgs), EndAnnounced \/ EndTaken,
         cfg'.display => cfg.display \/ Head(msgs).um = "STARTMONITOR",
         Head(msgs).um = "KILLMONITOR" => ~cfg'.display
  PROVE  EndAnnounced' \/ EndTaken'
<1>1. /\ Len(msgs) \in Nat /\ Len(msgs) >= 1 /\ DOMAIN msgs = 1 .. Len(msgs) /\ Head(msgs) = msgs[1]
      /\ Len(msgs') = Len(msgs) - 1 /\ DOMAIN msgs' = 1 .. Len(msgs) - 1
      /\ \A i \in 1 .. Len(msgs) - 1 : msgs'[i] = msgs[i + 1]
  OBVIOUS
<1>2. ASSUME NEW um, NEW i \in Announced(um)' PROVE i + 1 \in Announced(um)
  BY <1>1, <1>2 DEF Announced
<1>3. ASSUME NEW um, NEW i \in Announced(um), i # 1 PROVE i - 1 \in Announced(um)'
  <2>1. i \in 1 .. Len(msgs) /\ msgs[i].um = um
    BY <1>1, <1>3 DEF Announced
  <2>2. i - 1 \in 1 .. Len(msgs) - 1 /\ (i - 1) + 1 = i
    BY <1>1, <1>3, <2>1
  <2> QED
    BY <1>1, <2>1, <2>2 DEF Announced
<1>4. \A um : \A i \in Announced(um)' : i \in Int /\ i >= 1
  BY <1>1 DEF Announced
<1>5. CASE EndTaken
  <2>1. Announced("STARTMONITOR")' = {}
    BY <1>2, <1>5 DEF EndTaken
  <2>2. Head(msgs).um # "STARTMONITOR"
    BY <1>1, <1>5 DEF EndTaken, Announced
  <2> QED
    BY <1>5, <2>1, <2>2 DEF EndTaken
<1>6. CASE EndAnnounced
  <2>1. PICK i \in Announced("KILLMONITOR") : \A j \in Announced("STARTMONITOR") : j < i
    BY <1>6 DEF EndAnnounced
  <2>2. i \in 1 .. Len(msgs) /\ msgs[i].um = "KILLMONITOR"
    BY <1>1, <2>1 DEF Announced
  <2>3. CASE i = 1
    <3>1. ~cfg'.display
      BY <1>1, <2>2, <2>3
    <3>2. \A j \in Announced("STARTMONITOR")' : j + 1 < 1
      BY <1>2, <2>1, <2>3
    <3> QED
      BY <1>4, <3>1, <3>2 DEF EndTaken
  <2>4. CASE i # 1
    <3>1. i - 1 \in Announced("KILLMONITOR")'
      BY <1>3, <2>4
    <3>2. \A j \in Announced("STARTMONITOR")' : j + 1 < i
      BY <1>2, <2>1
    <3>3. \A j \in Announced("STARTMONITOR")' : j < i - 1
      BY <1>4, <2>2, <3>2
    <3> QED
      BY <3>1, <3>3 DEF EndAnnounced
  <2> QED
    BY <2>3, <2>4
<1> QED
  BY <1>5, <1>6

(* A step that neither creates nor ends the display, and gives no command.   *)
LEMMA DisplaySame ==
  ASSUME DisplayInvs, ui' = ui, cfg'.monitoring = cfg.monitoring, DisplayShape', d'.stop = d.stop,
         d'.kill = d.kill, d'.pc = "dead" <=> d.pc = "dead", b'.sound => b.sound \/ cfg.monitoring
  PROVE  DisplayInvs'
BY DEF DisplayInvs, DisplayStopped, DisplayGone, DisplayKnown, Resumed, Ends

LEMMA FinishFree ==
  ASSUME Inv, FreeInv, NEW q \in Seq(Message), Finish(q)
  PROVE  FreeInv'
<1>1. UNCHANGED <<d, ui, cfg>> /\ b' = [b EXCEPT !.r = b.w]
  BY DEF Finish
<1>2. b'.sound = b.sound
  BY <1>1 DEF Inv, Shape, BufferShape
<1>3. DisplayInvs'
  BY <1>1, <1>2, DisplaySame DEF FreeInv, DisplayInvs, DisplayShape
<1>4. EndHeard'
  BY HeardEnd DEF Finish, EndHeard
<1> QED
  BY <1>3, <1>4 DEF FreeInv

LEMMA MonitorFree ==
  ASSUME Inv, FreeInv, Monitor
  PROVE  FreeInv'
<1>1. /\ DOMAIN b = {"slot", "w", "r", "wrapped", "toView", "n", "gone", "sound"}
      /\ DOMAIN m = {"pc", "batch", "stop", "kill"} /\ DisplayShape /\ msgs \in Seq(Message)
  BY DEF Inv, Shape, MonitorShape, BufferShape, FreeInv, DisplayInvs, EndHeard
<1>2. ASSUME NEW um \in {"STARTMONITOR", "VIEWDAT_ON", "BUFFER_WRITE", "BUFFER_END"}, NEW data \in Seq(Int)
      PROVE  Append(msgs, [um |-> um, data |-> data]) \in Seq(Message)
  <2>1. [um |-> um, data |-> data] \in Message
    BY DEF Message
  <2> QED
    BY <1>1, <2>1
<1>3. <<>> \in Seq(Int)
  OBVIOUS
<1>4. ASSUME UNCHANGED <<ui, cfg>>, DisplayShape', d'.stop = d.stop, d'.kill = d.kill,
             d'.pc = "dead" <=> d.pc = "dead", b'.sound => b.sound \/ cfg.monitoring,
             msgs' \in Seq(Message), m'.pc \in {"top", "store"} \/ (m' = m /\ msgs' = msgs)
      PROVE  FreeInv'
  <2>1. DisplayInvs'
    BY <1>4, DisplaySame DEF FreeInv
  <2>2. EndHeard'
    BY <1>4 DEF FreeInv, EndHeard, Running, EndAnnounced, EndTaken, Announced
  <2> QED
    BY <2>1, <2>2 DEF FreeInv
<1>5. CASE MonitorStarts
  <2>1. /\ m' = [m EXCEPT !.pc = "top"] /\ b' = Reset(b) /\ d' = [d EXCEPT !.last = Blank]
        /\ msgs' = Append(msgs, [um |-> "STARTMONITOR", data |-> <<>>]) /\ UNCHANGED <<ui, cfg>>
    BY <1>5 DEF MonitorStarts
  <2>2. b'.sound = cfg.monitoring /\ m'.pc = "top"
    BY <1>1, <2>1 DEF Reset
  <2>3. DisplayShape' /\ d'.stop = d.stop /\ d'.kill = d.kill /\ d'.pc = d.pc
    BY <1>1, <2>1 DEF DisplayShape
  <2>4. msgs' \in Seq(Message)
    BY <1>2, <1>3, <2>1
  <2> QED
    BY <1>4, <2>1, <2>2, <2>3, <2>4
<1>6. CASE MonitorFindsNothing
  <2>1. d' = [d EXCEPT !.wake = FALSE] /\ UNCHANGED <<m, b, ui, cfg, msgs>>
    BY <1>6 DEF MonitorFindsNothing
  <2>2. DisplayShape' /\ d'.stop = d.stop /\ d'.kill = d.kill /\ d'.pc = d.pc
    BY <1>1, <2>1 DEF DisplayShape
  <2> QED
    BY <1>1, <1>4, <2>1, <2>2
<1>7. CASE MonitorReads
  <2>1. /\ m' = [m EXCEPT !.pc = "store", !.batch = Taken] /\ b' = [b EXCEPT !.toView = TRUE] /\ d' = Posted(d)
        /\ msgs' = IF b.toView THEN msgs ELSE Append(msgs, [um |-> "VIEWDAT_ON", data |-> <<>>])
        /\ UNCHANGED <<ui, cfg>>
    BY <1>7 DEF MonitorReads
  <2>2. DisplayShape' /\ d'.stop = d.stop /\ d'.kill = d.kill /\ (d'.pc = "dead" <=> d.pc = "dead")
    BY <1>1, <2>1 DEF DisplayShape, Posted
  <2>3. m'.pc = "store" /\ b'.sound = b.sound
    BY <1>1, <2>1
  <2>4. msgs' \in Seq(Message)
    BY <1>1, <1>2, <1>3, <2>1
  <2> QED
    BY <1>4, <2>1, <2>2, <2>3, <2>4
<1>8. CASE MonitorStores
  <2>1. /\ m.pc = "store" /\ UNCHANGED <<d, ui, cfg>>
        /\ m' = [m EXCEPT !.batch = @ - 1, !.pc = IF m.batch = 1 THEN "top" ELSE @]
        /\ \/ b.w < BufferLength /\ b' = Stored(b)
           \/ b.w >= BufferLength /\ cfg.mode # "stop" /\ b' = Stored(Emptied(b))
        /\ msgs' = msgs \/ msgs' = Append(msgs, [um |-> "BUFFER_WRITE", data |-> Contents(b, BufferLength)])
    BY <1>8 DEF MonitorStores
  <2>2. m'.pc \in {"top", "store"}
    BY <1>1, <2>1
  <2>3. b'.sound = b.sound
    BY <1>1, <2>1, StoreKeeps, WrapKeeps DEF Running
  <2>4. Contents(b, BufferLength) \in Seq(Int)
    <3>1. BufferLength \in Nat /\ b.slot \in [Slots -> Int]
      BY CaptureAssumption DEF Inv, Shape, BufferShape
    <3>2. \A i \in 1 .. BufferLength : b.slot[i - 1] \in Int
      BY <3>1 DEF Slots
    <3> QED
      BY <3>1, <3>2 DEF Contents
  <2>5. msgs' \in Seq(Message)
    BY <1>1, <1>2, <2>1, <2>4
  <2> QED
    BY <1>1, <1>4, <2>1, <2>2, <2>3, <2>5 DEF DisplayShape
<1>9. CASE MonitorStopsAtEnd
  BY <1>2, <1>3, <1>9, FinishFree DEF MonitorStopsAtEnd
<1>10. CASE MonitorIsStopped
  BY <1>1, <1>10, FinishFree DEF MonitorIsStopped
<1> QED
  BY <1>5, <1>6, <1>7, <1>8, <1>9, <1>10 DEF Monitor

(* The display starts, shows, waits, or ends because it was told to.         *)
LEMMA DisplayFree ==
  ASSUME Inv, FreeInv, Display
  PROVE  FreeInv'
<1>1. DOMAIN b = {"slot", "w", "r", "wrapped", "toView", "n", "gone", "sound"} /\ DisplayShape
  BY DEF Inv, Shape, BufferShape, FreeInv, DisplayInvs
<1>2. UNCHANGED <<m, ui, cfg, msgs>> /\ d.pc # "dead"
  BY DEF Display, DisplayStarts, DisplayWakes, DisplayShows, DisplayCaughtUp
<1>3. b' = b \/ b' = [b EXCEPT !.r = b.w] \/ b' = [b EXCEPT !.r = NextSlot + 1]
  BY DEF Display, DisplayStarts, DisplayWakes, DisplayShows, DisplayCaughtUp
<1>4. b'.sound = b.sound
  BY <1>1, <1>3
<1>5. EndHeard'
  BY <1>2 DEF FreeInv, EndHeard, Running, EndAnnounced, EndTaken, Announced
<1>6. DisplayShape' /\ d'.stop = d.stop /\ (d'.pc = "dead" => d.stop) /\ (d'.kill => d.kill \/ d'.pc = "dead")
  <2>1. CASE d' = Waits(d)
    BY <1>1, <2>1 DEF Waits, DisplayShape
  <2>2. CASE DisplayWakes
    BY <1>1, <2>2 DEF DisplayWakes, DisplayShape
  <2>3. CASE DisplayShows
    BY <1>1, <2>3 DEF DisplayShows, DisplayShape
  <2> QED
    BY <2>1, <2>2, <2>3 DEF Display, DisplayStarts, DisplayCaughtUp
<1>7. DisplayInvs'
  BY <1>2, <1>4, <1>6 DEF FreeInv, DisplayInvs, DisplayStopped, DisplayGone, DisplayKnown, Resumed, Ends
<1> QED
  BY <1>5, <1>7 DEF FreeInv

(* A command that ends the display waits for it, unless it has ended.        *)
LEMMA KillDisplayFree ==
  ASSUME Inv, FreeInv, ui.at = "idle", NEW cmd, KillDisplay(cmd), b' = b, cfg'.monitoring = cfg.monitoring,
         cmd = "mdisplay" /\ b.sound => cfg.monitoring
  PROVE  DisplayInvs' /\ m'.pc = m.pc
<1>1. DOMAIN m = {"pc", "batch", "stop", "kill"} /\ DisplayShape
  BY DEF Inv, Shape, MonitorShape, FreeInv, DisplayInvs
<1>2. CASE "display" \in Ends(cmd) /\ ~d.stop
  <2>1. /\ ui' = [at |-> "displayEnds", cmd |-> cmd, killed |-> FALSE]
        /\ d' = Posted([d EXCEPT !.stop = TRUE, !.kill = FALSE]) /\ UNCHANGED m
    BY <1>2 DEF KillDisplay
  <2>2. DisplayShape' /\ d'.stop /\ ~d'.kill
    BY <1>1, <2>1 DEF DisplayShape, Posted
  <2>3. d.pc # "dead"
    BY <1>2 DEF FreeInv, DisplayInvs, DisplayStopped
  <2> QED
    BY <2>1, <2>2, <2>3 DEF FreeInv, DisplayInvs, DisplayStopped, DisplayGone, DisplayKnown
<1>3. CASE ~("display" \in Ends(cmd) /\ ~d.stop)
  <2>1. KillMonitor(cmd, FALSE) /\ d' = d
    BY <1>3 DEF KillDisplay
  <2>2. /\ ui'.cmd = cmd /\ ~ui'.killed /\ ui'.at \in {"monitorEnds", "rest"}
        /\ ui'.at = "monitorEnds" => "monitor" \in Ends(cmd)
    <3>1. (FALSE /\ "monitor" \notin Ends(cmd)) = FALSE
      OBVIOUS
    <3>2. \/ "monitor" \in Ends(cmd) /\ ui' = [at |-> "monitorEnds", cmd |-> cmd, killed |-> FALSE]
          \/ ui' = [at |-> "rest", cmd |-> cmd, killed |-> FALSE]
      BY <2>1, <3>1 DEF KillMonitor
    <3> QED
      BY <3>2
  <2>3. m'.pc = m.pc
    BY <1>1, <2>1 DEF KillMonitor
  <2>4. d.stop => d.pc = "dead"
    BY DEF FreeInv, DisplayInvs, DisplayStopped
  <2>5. DisplayStopped'
    BY <2>1, <2>4 DEF FreeInv, DisplayInvs, DisplayStopped
  <2>6. DisplayGone'
    BY <1>3, <2>1, <2>2, <2>4 DEF DisplayGone
  <2>7. DisplayKnown'
    BY <2>1, <2>2 DEF FreeInv, DisplayInvs, DisplayKnown, Resumed
  <2> QED
    BY <1>1, <2>1, <2>3, <2>5, <2>6, <2>7 DEF DisplayInvs, DisplayShape
<1> QED
  BY <1>2, <1>3

(* A display is started while a monitor is known to run, for the menu item   *)
(* is disabled when the end of the monitor is heard.                         *)
LEMMA SelectFree ==
  ASSUME Inv, FreeInv, Select
  PROVE  FreeInv'
<1>1. PICK cmd \in Offered : Selectable(cmd) /\ KillDisplay(cmd)
  BY DEF Select
<1>2. ui.at = "idle" /\ msgs = <<>> /\ UNCHANGED <<b, cfg, msgs>>
  BY DEF Select
<1>3. Announced("KILLMONITOR") = {}
  BY <1>2 DEF Announced
<1>4. cmd = "mdisplay" /\ b.sound => cfg.monitoring
  BY <1>1, <1>3 DEF Selectable, FreeInv, EndHeard, EndAnnounced, EndTaken, Inv, KnownToRun
<1>5. DisplayInvs' /\ m'.pc = m.pc
  BY <1>1, <1>2, <1>4, KillDisplayFree
<1>6. EndHeard'
  BY <1>2, <1>5 DEF FreeInv, EndHeard, Running, EndAnnounced, EndTaken, Announced
<1> QED
  BY <1>5, <1>6 DEF FreeInv

LEMMA MessagesFree ==
  ASSUME Inv, FreeInv, Messages
  PROVE  FreeInv'
<1>1. /\ DOMAIN cfg = {"mode", "show", "monitoring", "display", "view", "save", "load"}
      /\ DisplayShape /\ msgs \in Seq(Message) /\ DisplayInvs
  BY DEF Inv, Shape, CfgShape, FreeInv, DisplayInvs, EndHeard
<1>2. ui.at = "idle" /\ msgs # <<>> /\ msgs' = Tail(msgs) /\ b' = b
  BY DEF Messages, ServeStart, ServeKill, ServeViewOn, ServeWrite, ServeEnd, Serve
<1>3. msgs' \in Seq(Message)
  BY <1>1, <1>2
<1>4. ASSUME DisplayInvs', m'.pc = m.pc, cfg'.display => cfg.display \/ Head(msgs).um = "STARTMONITOR",
             Head(msgs).um = "KILLMONITOR" => ~cfg'.display
      PROVE  FreeInv'
  <2>1. Running' = Running
    BY <1>4 DEF Running
  <2>2. EndHeard'
    BY <1>1, <1>2, <1>3, <1>4, <2>1, HeardNext DEF FreeInv, EndHeard
  <2> QED
    BY <1>4, <2>2 DEF FreeInv
<1>5. ASSUME ui' = ui, d' = d, cfg'.monitoring = cfg.monitoring PROVE DisplayInvs'
  BY <1>1, <1>2, <1>5, DisplaySame DEF DisplayShape
<1>6. CASE ServeStart
  <2>1. /\ UNCHANGED <<m, d, ui>> /\ Head(msgs).um = "STARTMONITOR"
        /\ cfg' = [cfg EXCEPT !.load = FALSE, !.save = FALSE, !.display = TRUE, !.view = FALSE]
    BY <1>6 DEF ServeStart, Serve
  <2> QED
    BY <1>1, <1>4, <1>5, <2>1
<1>7. CASE ServeKill
  <2>1. /\ UNCHANGED <<m, d, ui>>
        /\ cfg' = [cfg EXCEPT !.save = @ \/ (cfg.mode # "file" /\ b.toView), !.load = TRUE, !.display = FALSE]
    BY <1>7 DEF ServeKill
  <2>2. ~cfg'.display /\ cfg'.monitoring = cfg.monitoring
    BY <1>1, <2>1
  <2> QED
    BY <1>4, <1>5, <2>1, <2>2
<1>8. CASE ServeViewOn
  <2>1. UNCHANGED <<m, d, ui>> /\ Head(msgs).um = "VIEWDAT_ON" /\ cfg' = [cfg EXCEPT !.view = TRUE]
    BY <1>8 DEF ServeViewOn, Serve
  <2>2. cfg'.display = cfg.display /\ cfg'.monitoring = cfg.monitoring
    BY <1>1, <2>1
  <2> QED
    BY <1>4, <1>5, <2>1, <2>2
<1>9. CASE ServeWrite
  <2>1. cfg' = cfg /\ Head(msgs).um = "BUFFER_WRITE" /\ (UNCHANGED <<m, d, ui>> \/ KillDisplay("abort"))
    BY <1>9 DEF ServeWrite, Serve
  <2>2. DisplayInvs' /\ m'.pc = m.pc
    BY <1>2, <1>5, <2>1, KillDisplayFree
  <2> QED
    BY <1>4, <2>1, <2>2
<1>10. CASE ServeEnd
  <2>1. cfg' = cfg /\ Head(msgs).um = "BUFFER_END" /\ KillDisplay("end")
    BY <1>10 DEF ServeEnd, Serve
  <2>2. DisplayInvs' /\ m'.pc = m.pc
    BY <1>2, <2>1, KillDisplayFree
  <2> QED
    BY <1>4, <2>1, <2>2
<1> QED
  BY <1>6, <1>7, <1>8, <1>9, <1>10 DEF Messages

(* A command has been carried out: the user interface rests.                 *)
LEMMA DoneFree ==
  ASSUME Inv, FreeInv, NEW cmd, Does(cmd), msgs' = msgs, m'.pc = m.pc \/ ~Running', ~Running \/ m'.pc = m.pc,
         cfg'.display => cfg.display,
         d' = d \/ (d.pc = "dead" /\ d' = DisplayCreated),
         b'.sound => b.sound, b'.sound /\ d'.pc # "dead" => cfg'.monitoring
  PROVE  FreeInv'
<1>1. ui.at = "rest" /\ DOMAIN ui = {"at", "cmd", "killed"} /\ DisplayInvs /\ DisplayShape
  BY DEF Does, Inv, Shape, UiShape, FreeInv, DisplayInvs
<1>2. ui'.at = "idle" /\ ui'.cmd = "none"
  BY <1>1 DEF Does
<1>3. DisplayShape' /\ (d'.stop => d'.pc = "dead") /\ (d'.pc = "dead" => d'.stop)
  <2>1. CASE d' = d
    BY <1>1, <2>1 DEF DisplayInvs, DisplayShape, DisplayStopped
  <2>2. CASE d' = DisplayCreated
    BY <1>1, <2>2 DEF DisplayCreated, DisplayShape
  <2> QED
    BY <2>1, <2>2
<1>4. DisplayInvs'
  BY <1>2, <1>3 DEF DisplayInvs, DisplayStopped, DisplayGone, DisplayKnown, Resumed
<1>5. EndHeard'
  BY DEF FreeInv, EndHeard, Running, EndAnnounced, EndTaken, Announced
<1> QED
  BY <1>4, <1>5 DEF FreeInv

LEMMA CarriesFree ==
  ASSUME Inv, FreeInv, Carries
  PROVE  FreeInv'
<1>1. /\ DOMAIN b = {"slot", "w", "r", "wrapped", "toView", "n", "gone", "sound"}
      /\ DOMAIN cfg = {"mode", "show", "monitoring", "display", "view", "save", "load"}
      /\ DOMAIN m = {"pc", "batch", "stop", "kill"} /\ DOMAIN ui = {"at", "cmd", "killed"}
      /\ DisplayShape /\ DisplayInvs /\ EndHeard
  BY DEF Inv, Shape, BufferShape, CfgShape, MonitorShape, UiShape, FreeInv, DisplayInvs
<1>2. MonitorCreated.pc = "start" /\ DisplayCreated.pc = "start"
  BY <1>1 DEF MonitorCreated, DisplayCreated, DisplayShape
<1>3. ASSUME NEW cmd, Does(cmd) PROVE ui.at = "rest" /\ ui.cmd = cmd
  BY <1>3 DEF Does
<1>4. ASSUME NEW cmd, Does(cmd), "display" \in Ends(cmd) PROVE d.pc = "dead"
  BY <1>3, <1>4 DEF FreeInv, DisplayInvs, DisplayGone
<1>5. ASSUME NEW cmd, Does(cmd), "monitor" \in Ends(cmd) PROVE m.pc = "dead"
  BY <1>3, <1>5 DEF Inv, KilledMeansDead
<1>6. ASSUME NEW cmd, Does(cmd), msgs' = msgs, UNCHANGED <<m, d>>, cfg'.monitoring = cfg.monitoring,
             cfg'.display => cfg.display, b'.sound => b.sound
      PROVE  FreeInv'
  BY <1>1, <1>6, DoneFree DEF FreeInv, DisplayInvs, DisplayKnown
<1>7. CASE DisplayEnded
  <2>1. /\ ui.at = "displayEnds" /\ d.kill /\ KillMonitor(ui.cmd, TRUE) /\ UNCHANGED <<d, b, cfg, msgs>>
    BY <1>7 DEF DisplayEnded
  <2>2. m'.pc = m.pc
    BY <1>1, <2>1 DEF KillMonitor
  <2>3. /\ ui'.cmd = ui.cmd /\ ui'.at \in {"monitorEnds", "rest"}
        /\ ui'.at = "monitorEnds" => "monitor" \in Ends(ui.cmd)
    <3>1. PICK killed : killed = (TRUE /\ "monitor" \notin Ends(ui.cmd))
      OBVIOUS
    <3>2. \/ "monitor" \in Ends(ui.cmd) /\ ui' = [at |-> "monitorEnds", cmd |-> ui.cmd, killed |-> FALSE]
          \/ ui' = [at |-> "rest", cmd |-> ui.cmd, killed |-> killed]
      BY <2>1, <3>1 DEF KillMonitor
    <3> QED
      BY <3>2
  <2>4. d.pc = "dead"
    BY <1>1, <2>1 DEF DisplayInvs, DisplayGone
  <2>5. DisplayInvs'
    BY <1>1, <2>1, <2>3, <2>4 DEF DisplayInvs, DisplayShape, DisplayStopped, DisplayGone, DisplayKnown, Resumed
  <2>6. EndHeard'
    BY <1>1, <2>1, <2>2 DEF EndHeard, Running, EndAnnounced, EndTaken, Announced
  <2> QED
    BY <2>5, <2>6 DEF FreeInv
<1>8. CASE MonitorEnded
  <2>1. ui.at = "monitorEnds" /\ ui' = [ui EXCEPT !.at = "rest", !.killed = TRUE] /\ UNCHANGED <<m, d, b, cfg, msgs>>
    BY <1>8 DEF MonitorEnded
  <2>2. ui'.cmd = ui.cmd /\ ui'.at = "rest"
    BY <1>1, <2>1
  <2>3. ui.cmd # "format"
    BY <1>1, <2>1 DEF DisplayInvs, DisplayGone, Ends
  <2>4. DisplayInvs'
    BY <1>1, <2>1, <2>2, <2>3 DEF DisplayInvs, DisplayShape, DisplayStopped, DisplayGone, DisplayKnown, Resumed
  <2>5. EndHeard'
    BY <1>1, <2>1 DEF EndHeard, Running, EndAnnounced, EndTaken, Announced
  <2> QED
    BY <2>4, <2>5 DEF FreeInv
<1>9. CASE StreamToggled
  <2>1. /\ Does("mstream") /\ UNCHANGED <<b, msgs>> /\ (m' = m \/ m' = MonitorCreated)
        /\ \/ d' = d /\ cfg' = [cfg EXCEPT !.monitoring = FALSE]
           \/ /\ d' = d \/ d' = DisplayCreated
              /\ cfg' = [cfg EXCEPT !.monitoring = TRUE, !.show = @ \cap {"stream"}]
           \/ UNCHANGED <<d, cfg>>
    BY <1>9 DEF StreamToggled
  <2>2. d.pc = "dead" /\ m.pc = "dead"
    BY <1>4, <1>5, <2>1 DEF Ends
  <2>3. cfg'.display = cfg.display /\ (d' = d \/ cfg'.monitoring)
    BY <1>1, <2>1
  <2> QED
    BY <1>2, <2>1, <2>2, <2>3, DoneFree DEF Running
<1>10. CASE DisplayToggled
  <2>1. /\ Does("mdisplay") /\ UNCHANGED <<m, b, msgs>>
        /\ \/ cfg' = [cfg EXCEPT !.show = {}] /\ d' = d
           \/ cfg' = [cfg EXCEPT !.show = {"stream"}] /\ d' = DisplayCreated
    BY <1>10 DEF DisplayToggled
  <2>2. d.pc = "dead" /\ (b.sound => cfg.monitoring)
    BY <1>1, <1>3, <1>4, <2>1 DEF Ends, DisplayInvs, DisplayKnown, Resumed
  <2>3. cfg'.display = cfg.display /\ cfg'.monitoring = cfg.monitoring
    BY <1>1, <2>1
  <2> QED
    BY <2>1, <2>2, <2>3, DoneFree
<1>11. CASE FormatChanged
  <2>1. Does("format") /\ UNCHANGED <<m, b, cfg, msgs>> /\ d' = (IF ui.killed THEN DisplayCreated ELSE d)
    BY <1>11 DEF FormatChanged
  <2>2. d.pc = "dead" /\ (b.sound /\ ui.killed => cfg.monitoring)
    BY <1>1, <1>3, <1>4, <2>1 DEF Ends, DisplayInvs, DisplayKnown, Resumed
  <2> QED
    BY <2>1, <2>2, DoneFree
<1>12. CASE Viewed \/ Aborted
  <2>1. PICK cmd \in {"view", "abort"} :
          /\ Does(cmd) /\ UNCHANGED <<m, d, b, msgs>>
          /\ \/ cfg' = [cfg EXCEPT !.monitoring = FALSE, !.show = @ \cup {"data"}]
             \/ cfg' = [cfg EXCEPT !.monitoring = FALSE]
    BY <1>12 DEF Viewed, Aborted
  <2>2. d.pc = "dead"
    BY <1>4, <2>1 DEF Ends
  <2>3. cfg'.display = cfg.display
    BY <1>1, <2>1
  <2> QED
    BY <2>1, <2>2, <2>3, DoneFree
<1>13. CASE ViewClosed
  BY <1>1, <1>6, <1>13 DEF ViewClosed
<1>14. CASE Saved
  BY <1>1, <1>6, <1>14 DEF Saved
<1>15. CASE Loaded
  <2>1. PICK words \in {1, BufferLength + 1} : b' = [b EXCEPT !.w = words, !.sound = FALSE]
    BY <1>15 DEF Loaded
  <2>2. /\ Does("load") /\ UNCHANGED <<m, d, msgs>>
        /\ cfg' = [cfg EXCEPT !.show = @ \cup {"file"}, !.view = FALSE, !.save = FALSE]
    BY <1>15 DEF Loaded
  <2> QED
    BY <1>1, <1>6, <2>1, <2>2
<1>16. CASE BufferOpened
  BY <1>1, <1>6, <1>16 DEF BufferOpened
<1>17. CASE Restarted
  <2>1. /\ Does("restart") /\ msgs' = msgs /\ (m' = m \/ m' = MonitorCreated) /\ (d' = d \/ d' = DisplayCreated)
        /\ b' = [b EXCEPT !.slot = [i \in Slots |-> Blank], !.sound = FALSE]
        /\ \E mode, show, monitoring : cfg' = [cfg EXCEPT !.mode = mode, !.monitoring = monitoring, !.show = show]
    BY <1>17 DEF Restarted
  <2>2. d.pc = "dead" /\ m.pc = "dead"
    BY <1>4, <1>5, <2>1 DEF Ends
  <2>3. cfg'.display = cfg.display /\ ~b'.sound
    BY <1>1, <2>1
  <2> QED
    BY <1>2, <2>1, <2>2, <2>3, DoneFree DEF Running
<1>18. CASE Closed
  <2>1. ui' = [ui EXCEPT !.at = "closed"] /\ UNCHANGED <<m, d, b, cfg, msgs>> /\ ui.at = "rest" /\ ui.cmd = "close"
    BY <1>18 DEF Closed
  <2>2. ui'.at = "closed" /\ ui'.cmd = "close"
    BY <1>1, <2>1
  <2>3. DisplayInvs'
    BY <1>1, <2>1, <2>2 DEF DisplayInvs, DisplayShape, DisplayStopped, DisplayGone, DisplayKnown, Resumed
  <2>4. EndHeard'
    BY <1>1, <2>1 DEF EndHeard, Running, EndAnnounced, EndTaken, Announced
  <2> QED
    BY <2>3, <2>4 DEF FreeInv
<1>19. CASE EndTold
  <2>1. /\ Does("end") /\ UNCHANGED <<m, d, msgs>>
        /\ cfg' = [cfg EXCEPT !.monitoring = FALSE, !.display = FALSE]
    BY <1>19 DEF EndTold
  <2>2. PICK ended : ended = (b.sound /\ m.pc = "dead")
    OBVIOUS
  <2>3. b' = [b EXCEPT !.sound = ended]
    BY <1>19, <2>2 DEF EndTold
  <2>4. d.pc = "dead"
    BY <1>4, <2>1 DEF Ends
  <2>5. (b'.sound => b.sound) /\ (cfg'.display => cfg.display)
    BY <1>1, <2>1, <2>2, <2>3
  <2> QED
    BY <2>1, <2>4, <2>5, DoneFree
<1> QED
  BY <1>7, <1>8, <1>9, <1>10, <1>11, <1>12, <1>13, <1>14, <1>15, <1>16, <1>17, <1>18, <1>19 DEF Carries

(* The dialog ends no thread and creates none.                               *)
LEMMA DialogFree ==
  ASSUME Inv, DialogInv, FreeInv, BufferSet \/ BufferCancelled
  PROVE  FreeInv'
<1>1. /\ UNCHANGED <<m, d, ui, msgs>> /\ cfg'.display = cfg.display /\ (cfg.monitoring => cfg'.monitoring)
      /\ b'.sound => b.sound
  BY DialogLeft
<1>2. DisplayInvs'
  BY <1>1 DEF FreeInv, DisplayInvs, DisplayShape, DisplayStopped, DisplayGone, DisplayKnown, Resumed, Ends
<1>3. EndHeard'
  BY <1>1 DEF FreeInv, EndHeard, Running, EndAnnounced, EndTaken, Announced
<1> QED
  BY <1>2, <1>3 DEF FreeInv

LEMMA NextFree == Inv /\ DialogInv /\ FreeInv /\ [Next]_vars => FreeInv'
<1> SUFFICES ASSUME Inv, DialogInv, FreeInv, [Next]_vars PROVE FreeInv'
  OBVIOUS
<1>1. CASE Arrive \/ UNCHANGED vars
  <2>1. UNCHANGED <<m, d, b, ui, cfg, msgs>>
    BY <1>1 DEF Arrive, vars
  <2>2. DisplayInvs'
    BY <2>1, DisplaySame DEF FreeInv, DisplayInvs, DisplayShape
  <2>3. EndHeard'
    BY <2>1 DEF FreeInv, EndHeard, Running, EndAnnounced, EndTaken, Announced
  <2> QED
    BY <2>2, <2>3 DEF FreeInv
<1> QED
  BY <1>1, MonitorFree, DisplayFree, SelectFree, CarriesFree, MessagesFree, DialogFree DEF Next

LEMMA InitFree == Init => FreeInv
<1> SUFFICES ASSUME Init PROVE FreeInv
  OBVIOUS
<1>1. /\ d = [pc |-> "dead", stop |-> TRUE, kill |-> FALSE, wake |-> FALSE, last |-> Blank]
      /\ ui = [at |-> "idle", cmd |-> "none", killed |-> FALSE] /\ ~cfg.display /\ msgs = <<>>
  BY DEF Init
<1>2. DisplayInvs
  BY <1>1 DEF DisplayInvs, DisplayShape, DisplayStopped, DisplayGone, DisplayKnown, Resumed
<1>3. Announced("STARTMONITOR") = {} /\ msgs \in Seq(Message)
  BY <1>1 DEF Announced
<1> QED
  BY <1>1, <1>2, <1>3 DEF FreeInv, EndHeard, EndTaken

(* No thread uses the capture buffer when the user interface gives it back   *)
(* (COMSCOPE/init.c, dialog.c): the monitor has ended or not begun, and the  *)
(* display thread is not reading, whatever was posted and not yet served.    *)
THEOREM FreedCorrect == Spec => FreedUnused
<1> DEFINE Unused == (b.sound /\ b'.slot # b.slot /\ ~b'.sound) => (m.pc \in {"dead", "start"} /\ d.pc # "busy")
<1>1. ASSUME Inv, DialogInv, FreeInv, [Next]_vars PROVE Unused
  <2>1. /\ DOMAIN b = {"slot", "w", "r", "wrapped", "toView", "n", "gone", "sound"}
        /\ DisplayInvs /\ m.pc \in {"dead", "start", "top", "store"} /\ b.slot \in [Slots -> Int]
    BY <1>1 DEF Inv, Shape, MonitorShape, BufferShape, FreeInv
  <2>2. ASSUME \/ b' = b
               \/ \E r : b' = [b EXCEPT !.r = r]
               \/ \E sound : b' = [b EXCEPT !.sound = sound]
               \/ \E toView : b' = [b EXCEPT !.toView = toView]
               \/ \E w, sound : b' = [b EXCEPT !.w = w, !.sound = sound]
        PROVE  Unused
    BY <2>1, <2>2
  <2>3. CASE UNCHANGED vars \/ Arrive \/ Select \/ Messages
    BY <2>2, <2>3 DEF vars, Arrive, Select, Messages, ServeStart, ServeKill, ServeViewOn, ServeWrite, ServeEnd
  <2>4. CASE Display
    BY <2>2, <2>4 DEF Display, DisplayStarts, DisplayWakes, DisplayShows, DisplayCaughtUp
  <2>5. CASE MonitorStarts
    <3>1. b'.slot = b.slot
      BY <2>1, <2>5 DEF MonitorStarts, Reset
    <3> QED
      BY <3>1
  <2>6. CASE MonitorStores
    <3>1. b'.sound = b.sound
      BY <1>1, <2>6, StoreKeeps, WrapKeeps DEF MonitorStores, Running
    <3> QED
      BY <3>1
  <2>7. CASE MonitorFindsNothing \/ MonitorReads \/ \E q : Finish(q)
    BY <2>2, <2>7 DEF MonitorFindsNothing, MonitorReads, Finish
  <2>8. CASE BufferSet \/ BufferCancelled
    <3>1. b'.slot # b.slot => dlg = "free"
      BY <1>1, <2>8, DialogLeft
    <3>2. dlg = "free" => ~cfg.monitoring
      BY <1>1 DEF DialogInv
    <3>3. ~cfg.monitoring /\ b.sound => m.pc \in {"dead", "start"} /\ d.pc = "dead"
      BY <1>1, <2>1 DEF Inv, KnownToRun, Running, DisplayInvs, DisplayKnown
    <3> QED
      BY <3>1, <3>2, <3>3
  <2>9. CASE Restarted
    <3>1. ui.at = "rest" /\ ui.cmd = "restart"
      BY <2>9 DEF Restarted, Does
    <3>2. m.pc = "dead" /\ d.pc = "dead"
      BY <1>1, <2>1, <3>1 DEF Inv, KilledMeansDead, DisplayInvs, DisplayGone, Ends
    <3> QED
      BY <3>2
  <2>10. CASE EndTold
    <3>1. PICK ended : ended = (b.sound /\ m.pc = "dead")
      OBVIOUS
    <3>2. b' = [b EXCEPT !.sound = ended]
      BY <2>10, <3>1 DEF EndTold
    <3> QED
      BY <2>2, <3>2
  <2>11. CASE Carries /\ ~Restarted /\ ~EndTold
    BY <2>2, <2>11 DEF Carries, DisplayEnded, MonitorEnded, StreamToggled, DisplayToggled, FormatChanged,
           Viewed, ViewClosed, Saved, Loaded, BufferOpened, Closed, Aborted
  <2> QED
    BY <1>1, <2>3, <2>4, <2>5, <2>6, <2>7, <2>8, <2>9, <2>10, <2>11 DEF Next, Monitor, MonitorStopsAtEnd,
       MonitorIsStopped
<1>2. Inv /\ DialogInv /\ FreeInv /\ [Next]_vars => [Unused]_vars
  BY <1>1
<1> HIDE DEF Unused
<1>3. Spec => [](Inv /\ DialogInv /\ FreeInv)
  BY InitInv, NextInv, InitDialog, NextDialog, InitFree, NextFree, PTL DEF Spec
<1>4. Spec => [][Unused]_vars
  BY <1>2, <1>3, PTL DEF Spec
<1> QED
  BY <1>4 DEF FreedUnused, Unused

-----------------------------------------------------------------------------
(* What the files of a capture hold.                                        *)

(* How many messages of the queue before the i-th carry a full buffer.      *)
Carried(q, i) == {j \in Pending(q) : j < i}
Ahead(q, i) == Cardinality(Carried(q, i))

(* The messages of the queue carry the buffers after the n-th, and what was *)
(* taken from the capture buffer is with them or before them.               *)
InLine(q, n, g) == /\ \A i \in Pending(q) : q[i].data = Chunk(n + Ahead(q, i))
                   /\ g = (n + Ahead(q, Len(q) + 1)) * BufferLength

LEMMA CarriedFinite ==
  ASSUME NEW q \in Seq(Message), NEW i
  PROVE  /\ Pending(q) \subseteq 1 .. Len(q)
         /\ IsFiniteSet(Carried(q, i)) /\ Ahead(q, i) \in Nat
<1>1. Carried(q, i) \in SUBSET (1 .. Len(q)) /\ Pending(q) \subseteq 1 .. Len(q) /\ Len(q) \in Nat
  BY DEF Pending, Carried
<1>2. IsFiniteSet(1 .. Len(q))
  BY <1>1, FS_Interval
<1> QED
  BY <1>1, <1>2, FS_Subset, FS_CardinalityType DEF Ahead

LEMMA LineSame ==
  ASSUME NEW q \in Seq(Message), NEW x \in Message, x.um # "BUFFER_WRITE",
         NEW n, NEW g, InLine(q, n, g)
  PROVE  InLine(Append(q, x), n, g) /\ Pending(Append(q, x)) = Pending(q)
<1> DEFINE r == Append(q, x)
<1>1. /\ Len(q) \in Nat /\ Len(r) = Len(q) + 1 /\ DOMAIN r = 1 .. Len(r) /\ DOMAIN q = 1 .. Len(q)
      /\ r[Len(q) + 1] = x /\ \A i \in 1 .. Len(q) : r[i] = q[i]
  OBVIOUS
<1>2. Pending(r) = Pending(q)
  BY <1>1 DEF Pending
<1>3. \A i : Carried(r, i) = Carried(q, i)
  BY <1>2 DEF Carried
<1>4. Carried(q, Len(q) + 2) = Carried(q, Len(q) + 1)
  BY <1>1 DEF Carried, Pending
<1>5. Len(r) + 1 = Len(q) + 2
  BY <1>1
<1>6. Ahead(r, Len(r) + 1) = Ahead(q, Len(q) + 1)
  BY <1>3, <1>4, <1>5 DEF Ahead
<1>7. ASSUME NEW i \in Pending(r) PROVE r[i].data = Chunk(n + Ahead(r, i))
  <2>1. i \in Pending(q) /\ r[i] = q[i]
    BY <1>1, <1>2, <1>7 DEF Pending
  <2>2. Ahead(r, i) = Ahead(q, i)
    BY <1>3 DEF Ahead
  <2> QED
    BY <2>1, <2>2 DEF InLine
<1> HIDE DEF r
<1>8. InLine(r, n, g)
  BY <1>6, <1>7 DEF InLine
<1> QED
  BY <1>2, <1>8 DEF r

LEMMA LineGrows ==
  ASSUME NEW q \in Seq(Message), NEW x \in Message, x.um = "BUFFER_WRITE",
         NEW n \in Nat, NEW g \in Nat, InLine(q, n, g), x.data = [i \in 1 .. BufferLength |-> g + i]
  PROVE  InLine(Append(q, x), n, g + BufferLength)
<1> DEFINE r == Append(q, x)
<1>1. /\ Len(q) \in Nat /\ Len(r) = Len(q) + 1 /\ DOMAIN r = 1 .. Len(r) /\ DOMAIN q = 1 .. Len(q)
      /\ r[Len(q) + 1] = x /\ \A i \in 1 .. Len(q) : r[i] = q[i]
  OBVIOUS
<1> DEFINE l == Len(q) + 1
<1>2. Pending(r) = Pending(q) \cup {l}
  BY <1>1 DEF Pending
<1>3. Pending(q) \subseteq 1 .. Len(q) /\ IsFiniteSet(Carried(q, l)) /\ Ahead(q, l) \in Nat
  BY CarriedFinite
<1>4. ASSUME NEW i \in 1 .. l PROVE Ahead(r, i) = Ahead(q, i)
  <2>1. Carried(r, i) = Carried(q, i)
    BY <1>1, <1>2, <1>3, <1>4 DEF Carried
  <2> QED
    BY <2>1 DEF Ahead
<1>5. Ahead(r, l + 1) = Ahead(q, l) + 1
  <2>1. Carried(r, l + 1) = Carried(q, l) \cup {l} /\ l \notin Carried(q, l)
    BY <1>1, <1>2, <1>3 DEF Carried
  <2> QED
    BY <1>3, <2>1, FS_AddElement DEF Ahead
<1>6. BufferLength \in Nat
  BY CaptureAssumption
<1>7. g + BufferLength = (n + Ahead(r, l + 1)) * BufferLength
  <2>1. g = (n + Ahead(q, l)) * BufferLength
    BY DEF InLine
  <2>2. \A k \in Nat : (k + 1) * BufferLength = k * BufferLength + BufferLength
    BY <1>6
  <2>3. n + Ahead(q, l) \in Nat /\ n + Ahead(r, l + 1) = (n + Ahead(q, l)) + 1
    BY <1>3, <1>5
  <2> QED
    BY <2>1, <2>2, <2>3
<1>8. ASSUME NEW i \in Pending(r) PROVE r[i].data = Chunk(n + Ahead(r, i))
  <2>1. CASE i = l
    <3>1. Ahead(r, i) = Ahead(q, l)
      BY <1>1, <1>4, <2>1
    <3>2. g = (n + Ahead(r, i)) * BufferLength
      BY <3>1 DEF InLine
    <3>3. r[i].data = [k \in 1 .. BufferLength |-> g + k]
      BY <1>1, <2>1
    <3> QED
      BY <3>2, <3>3 DEF Chunk
  <2>2. CASE i \in Pending(q)
    <3>1. i \in 1 .. Len(q) /\ i \in 1 .. l /\ r[i] = q[i]
      BY <1>1, <1>3, <2>2
    <3>2. Ahead(r, i) = Ahead(q, i)
      BY <1>4, <3>1
    <3> QED
      BY <2>2, <3>1, <3>2 DEF InLine
  <2> QED
    BY <1>2, <2>1, <2>2
<1>9. Len(r) + 1 = l + 1
  BY <1>1
<1> HIDE DEF r, l
<1>10. InLine(r, n, g + BufferLength)
  BY <1>7, <1>8, <1>9 DEF InLine
<1> QED
  BY <1>10 DEF r

(* The messages behind the head, one place on.                              *)
LEMMA AheadServed ==
  ASSUME NEW q \in Seq(Message), q # <<>>, NEW i \in 1 .. Len(q)
  PROVE  Ahead(q, i + 1) = Ahead(Tail(q), i) + (IF Head(q).um = "BUFFER_WRITE" THEN 1 ELSE 0)
<1> DEFINE t == Tail(q)
<1>1. /\ Len(q) \in Nat \ {0} /\ t \in Seq(Message) /\ Len(t) = Len(q) - 1 /\ Head(q) = q[1]
      /\ DOMAIN t = 1 .. Len(t) /\ DOMAIN q = 1 .. Len(q) /\ \A j \in 1 .. Len(t) : t[j] = q[j + 1]
  OBVIOUS
<1> DEFINE A == Carried(t, i)
           B == Carried(q, i + 1) \ {1}
           f == [j \in A |-> j + 1]
<1>2. IsFiniteSet(A) /\ IsFiniteSet(Carried(q, i + 1)) /\ Pending(t) \subseteq 1 .. Len(t) /\ Pending(q) \subseteq 1 .. Len(q)
      /\ Ahead(t, i) \in Nat /\ Ahead(q, i + 1) \in Nat
  BY <1>1, CarriedFinite
<1>3. \A j \in A : j \in Nat /\ j + 1 \in B
  BY <1>1, <1>2 DEF Carried, Pending
<1>4. \A k \in B : k \in Nat /\ k - 1 \in A
  BY <1>1, <1>2 DEF Carried, Pending
<1>5. ExistsBijection(A, B)
  <2>1. f \in [A -> B]
    BY <1>3
  <2>2. \A x, y \in A : f[x] = f[y] => x = y
    BY <1>3
  <2>3. \A k \in B : \E x \in A : f[x] = k
    <3> TAKE k \in B
    <3>1. k - 1 \in A /\ f[k - 1] = k
      BY <1>4
    <3> QED
      BY <3>1
  <2> HIDE DEF f, A, B
  <2>4. f \in Bijection(A, B)
    BY <2>1, <2>2, <2>3, Fun_IsBij
  <2> QED
    BY <2>4 DEF ExistsBijection
<1>6. Cardinality(B) = Ahead(t, i)
  BY <1>2, <1>5, FS_Bijection DEF Ahead
<1>7. 1 \in Carried(q, i + 1) <=> Head(q).um = "BUFFER_WRITE"
  BY <1>1 DEF Carried, Pending
<1>8. Cardinality(B) = IF 1 \in Carried(q, i + 1) THEN Ahead(q, i + 1) - 1 ELSE Ahead(q, i + 1)
  BY <1>2, FS_RemoveElement DEF Ahead
<1> HIDE DEF A, B, f
<1> QED
  BY <1>2, <1>6, <1>7, <1>8

LEMMA LineServed ==
  ASSUME NEW q \in Seq(Message), q # <<>>, NEW n \in Nat, NEW g, InLine(q, n, g)
  PROVE  /\ Head(q).um # "BUFFER_WRITE" => InLine(Tail(q), n, g)
         /\ Head(q).um = "BUFFER_WRITE" => Head(q).data = Chunk(n) /\ InLine(Tail(q), n + 1, g)
<1> DEFINE t == Tail(q)
           w == IF Head(q).um = "BUFFER_WRITE" THEN 1 ELSE 0
<1>1. /\ Len(q) \in Nat \ {0} /\ t \in Seq(Message) /\ Len(t) = Len(q) - 1 /\ Head(q) = q[1]
      /\ DOMAIN t = 1 .. Len(t) /\ DOMAIN q = 1 .. Len(q) /\ \A j \in 1 .. Len(t) : t[j] = q[j + 1]
  OBVIOUS
<1>2. \A i \in 1 .. Len(q) : Ahead(q, i + 1) = Ahead(t, i) + w /\ Ahead(t, i) \in Nat
  BY <1>1, AheadServed, CarriedFinite
<1>3. Pending(t) \subseteq 1 .. Len(t)
  BY <1>1, CarriedFinite
<1>4. w \in Nat
  OBVIOUS
<1>5. ASSUME NEW i \in 1 .. Len(q) PROVE n + Ahead(q, i + 1) = (n + w) + Ahead(t, i)
  BY <1>2, <1>4, <1>5
<1>6. ASSUME NEW i \in Pending(t) PROVE t[i].data = Chunk((n + w) + Ahead(t, i))
  <2>1. i \in 1 .. Len(q) /\ t[i] = q[i + 1] /\ i + 1 \in Pending(q)
    BY <1>1, <1>3, <1>6 DEF Pending
  <2>2. q[i + 1].data = Chunk(n + Ahead(q, i + 1))
    BY <2>1 DEF InLine
  <2> QED
    BY <1>5, <2>1, <2>2
<1>7. g = ((n + w) + Ahead(t, Len(t) + 1)) * BufferLength
  <2>1. Len(q) \in 1 .. Len(q) /\ Len(t) + 1 = Len(q)
    BY <1>1
  <2> QED
    BY <1>5, <2>1 DEF InLine
<1> HIDE DEF t
<1>8. InLine(t, n + w, g)
  BY <1>6, <1>7 DEF InLine
<1>9. Head(q).um = "BUFFER_WRITE" => Head(q).data = Chunk(n)
  <2>1. Carried(q, 1) = {}
    BY <1>1 DEF Carried, Pending
  <2>2. Ahead(q, 1) = 0
    BY <2>1, FS_EmptySet DEF Ahead
  <2>3. Head(q).um = "BUFFER_WRITE" => 1 \in Pending(q)
    BY <1>1 DEF Pending
  <2>4. n + 0 = n
    OBVIOUS
  <2> QED
    BY <1>1, <2>2, <2>3, <2>4 DEF InLine
<1> QED
  BY <1>8, <1>9 DEF t

-----------------------------------------------------------------------------
(* The inductive invariant of the files.                                    *)

DiskShape == /\ DOMAIN disk = {"done", "last", "saved", "lost"}
             /\ disk.done \in Seq(Seq(Int)) /\ disk.lost \in BOOLEAN
Kept == b.sound /\ ~disk.lost
Filed == \A k \in DOMAIN disk.done : disk.done[k] = Chunk(k - 1)

(* When the monitor has left the last file, no full buffer is on its way.   *)
LastKept == cfg.mode = "file" /\ m.pc = "dead" /\ b.w # 0 => disk.last = Contents(b, b.w) /\ Pending(msgs) = {}

FileInv == DiskShape /\ (Kept => Filed /\ InLine(msgs, Len(disk.done), b.gone) /\ LastKept)

LEMMA FilesLost ==
  ASSUME DiskShape', ~Kept'
  PROVE  FileInv'
BY DEF FileInv

LEMMA FilesSame ==
  ASSUME FileInv, DiskShape', Kept' => Kept /\ disk'.done = disk.done /\ disk'.last = disk.last,
         Kept' => InLine(msgs', Len(disk.done), b'.gone),
         Kept' /\ cfg'.mode = "file" /\ m'.pc = "dead" =>
           /\ cfg.mode = "file" /\ m.pc = "dead" /\ b'.w = b.w /\ b'.slot = b.slot
           /\ Pending(msgs) = {} => Pending(msgs') = {}
  PROVE  FileInv'
<1> SUFFICES ASSUME Kept' PROVE Filed' /\ InLine(msgs, Len(disk.done), b.gone)' /\ LastKept'
  BY DEF FileInv
<1>1. Kept /\ Filed /\ LastKept /\ disk'.done = disk.done /\ disk'.last = disk.last
  BY DEF FileInv
<1>2. \A k : Chunk(k)' = Chunk(k)
  BY DEF Chunk
<1>3. Filed'
  BY <1>1, <1>2 DEF Filed
<1>4. InLine(msgs, Len(disk.done), b.gone)' <=> InLine(msgs', Len(disk'.done), b'.gone)
  BY DEF InLine, Ahead, Carried, Pending, Chunk
<1>5. LastKept'
  BY <1>1 DEF LastKept, Contents, Pending
<1> QED
  BY <1>1, <1>3, <1>4, <1>5

LEMMA FilesQuiet ==
  ASSUME FileInv, DiskShape', disk'.done = disk.done, disk'.last = disk.last, disk'.lost = disk.lost,
         msgs' = msgs, m'.pc = "dead" => m.pc = "dead", cfg'.mode = cfg.mode,
         b'.sound => b.sound, b'.gone = b.gone, b'.w = b.w, b'.slot = b.slot
  PROVE  FileInv'
<1>1. Kept' => Kept
  BY DEF Kept
<1>2. Kept => InLine(msgs, Len(disk.done), b.gone)
  BY DEF FileInv
<1> QED
  BY <1>1, <1>2, FilesSame

-----------------------------------------------------------------------------
LEMMA FinishFiles ==
  ASSUME Inv, FileInv, NEW q \in Seq(Message), Finish(q),
         Kept => InLine(q, Len(disk.done), b.gone)
  PROVE  FileInv'
<1> DEFINE end == [um |-> "KILLMONITOR", data |-> <<>>]
<1>1. /\ DOMAIN b = {"slot", "w", "r", "wrapped", "toView", "n", "gone", "sound"}
      /\ DOMAIN m = {"pc", "batch", "stop", "kill"} /\ DiskShape
  BY DEF Inv, Shape, BufferShape, MonitorShape, FileInv
<1>2. /\ msgs' = Append(q, end) /\ cfg' = cfg /\ b' = [b EXCEPT !.r = b.w]
      /\ IF cfg.mode = "file" /\ b.w # 0
         THEN disk' = [disk EXCEPT !.last = Contents(b, b.w), !.lost = @ \/ Pending(q) # {}]
         ELSE UNCHANGED disk
  BY DEF Finish
<1>3. /\ b'.slot = b.slot /\ b'.w = b.w /\ b'.gone = b.gone /\ b'.sound = b.sound
  BY <1>1, <1>2
<1>4. PICK lost : lost = (disk.lost \/ Pending(q) # {})
  OBVIOUS
<1>5. /\ DiskShape' /\ disk'.done = disk.done /\ (disk.lost => disk'.lost)
      /\ cfg.mode = "file" /\ b.w # 0 => disk'.last = Contents(b, b.w) /\ disk'.lost = lost
  <2>1. CASE cfg.mode = "file" /\ b.w # 0
    <3>1. disk' = [disk EXCEPT !.last = Contents(b, b.w), !.lost = lost]
      BY <1>2, <1>4, <2>1
    <3> QED
      BY <1>1, <1>4, <3>1 DEF DiskShape
  <2>2. CASE ~(cfg.mode = "file" /\ b.w # 0)
    BY <1>1, <1>2, <2>2 DEF DiskShape
  <2> QED
    BY <2>1, <2>2
<1>6. SUFFICES ASSUME Kept' PROVE FileInv'
  BY <1>5, FilesLost
<1>7. Kept /\ Filed /\ InLine(q, Len(disk.done), b.gone)
  BY <1>2, <1>3, <1>5, <1>6 DEF Kept, FileInv
<1>8. end \in Message /\ end.um # "BUFFER_WRITE"
  BY DEF Message
<1>9. InLine(msgs', Len(disk'.done), b'.gone) /\ Pending(msgs') = Pending(q)
  BY <1>2, <1>3, <1>5, <1>7, <1>8, LineSame
<1>10. LastKept'
  <2> SUFFICES ASSUME cfg.mode = "file", b.w # 0
               PROVE  disk'.last = Contents(b', b'.w) /\ Pending(msgs') = {}
    BY <1>2, <1>3 DEF LastKept, Contents, Pending
  <2>1. ~lost /\ disk'.last = Contents(b, b.w)
    BY <1>5, <1>6, <1>7 DEF Kept
  <2>2. Contents(b', b'.w) = Contents(b, b.w)
    BY <1>3 DEF Contents
  <2> QED
    BY <1>4, <1>9, <2>1, <2>2
<1>11. Filed'
  <2>1. \A k : Chunk(k)' = Chunk(k)
    BY DEF Chunk
  <2> QED
    BY <1>5, <1>7, <2>1 DEF Filed
<1>12. InLine(msgs, Len(disk.done), b.gone)'
  BY <1>9 DEF InLine, Ahead, Carried, Pending, Chunk
<1> QED
  BY <1>5, <1>10, <1>11, <1>12 DEF FileInv

LEMMA StoreFiles ==
  ASSUME Inv, FreeInv, FileInv, MonitorStores
  PROVE  FileInv'
<1>1. /\ DOMAIN b = {"slot", "w", "r", "wrapped", "toView", "n", "gone", "sound"}
      /\ DOMAIN m = {"pc", "batch", "stop", "kill"} /\ DiskShape /\ msgs \in Seq(Message)
      /\ b.slot \in [Slots -> Int] /\ b.w \in Nat /\ b.n \in Nat /\ b.gone \in Nat /\ disk.done \in Seq(Seq(Int))
  BY DEF Inv, Shape, BufferShape, MonitorShape, FileInv, DiskShape, FreeInv, EndHeard
<1>2. /\ m.pc = "store" /\ cfg' = cfg /\ disk' = disk
      /\ m' = [m EXCEPT !.batch = @ - 1, !.pc = IF m.batch = 1 THEN "top" ELSE @]
  BY DEF MonitorStores
<1>3. m'.pc # "dead" /\ DiskShape'
  BY <1>1, <1>2 DEF DiskShape
<1>4. SUFFICES ASSUME Kept' PROVE FileInv'
  BY <1>3, FilesLost
<1>5. CASE b.w < BufferLength /\ b' = Stored(b) /\ msgs' = msgs
  <2>1. b'.gone = b.gone /\ b'.sound = b.sound
    BY <1>1, <1>5 DEF Stored
  <2>2. Kept /\ InLine(msgs, Len(disk.done), b.gone)
    BY <1>2, <1>4, <2>1 DEF Kept, FileInv
  <2> QED
    BY <1>2, <1>3, <1>5, <2>1, <2>2, FilesSame
<1>7. CASE b.w >= BufferLength /\ b' = Stored(Emptied(b)) /\ cfg.mode # "file"
  <2>1. ~(b.w < BufferLength)
    BY <1>1, <1>7, CaptureAssumption
  <2>2. b'.gone = b.gone /\ b'.sound = b.sound /\ msgs' = msgs
    BY <1>1, <1>7, <2>1 DEF Stored, Emptied, MonitorStores
  <2>3. Kept /\ InLine(msgs, Len(disk.done), b.gone)
    BY <1>2, <1>4, <2>2 DEF Kept, FileInv
  <2> QED
    BY <1>2, <1>3, <2>2, <2>3, FilesSame
<1>6. CASE b.w >= BufferLength /\ b' = Stored(Emptied(b)) /\ cfg.mode = "file"
  <2>1. cfg.mode = "file"
    BY <1>6
  <2>2. b'.gone = b.gone + BufferLength /\ b'.sound = b.sound
    BY <1>1, <1>6, <2>1 DEF Stored, Emptied
  <2>3. Kept /\ InLine(msgs, Len(disk.done), b.gone) /\ b.sound
    BY <1>2, <1>4, <2>2 DEF Kept, FileInv
  <2>4. ~b.wrapped /\ BufferLength \in Nat
    BY <1>2, <2>1, <2>3, CaptureAssumption DEF Inv, FilesDoNotWrap, Running
  <2>5. b.w = BufferLength /\ b.n = b.gone + BufferLength
    BY <1>1, <1>6, <2>3, <2>4 DEF Inv, InOrder
  <2>6. \A i \in Slots : b.slot[i] = b.gone + i + 1
    <3> TAKE i \in Slots
    <3>1. i \in Int /\ i < b.w
      BY <2>4, <2>5 DEF Slots
    <3>2. b.slot[i] = b.n - b.w + i + 1
      BY <2>3, <3>1 DEF Inv, InOrder
    <3> QED
      BY <1>1, <2>4, <2>5, <3>1, <3>2
  <2> DEFINE full == [um |-> "BUFFER_WRITE", data |-> Contents(b, BufferLength)]
  <2>7. full.data = [i \in 1 .. BufferLength |-> b.gone + i]
    <3>1. ASSUME NEW i \in 1 .. BufferLength PROVE b.slot[i - 1] = b.gone + i
      <4>1. i - 1 \in Slots /\ i \in Int
        BY <2>4 DEF Slots
      <4>2. b.slot[i - 1] = b.gone + (i - 1) + 1
        BY <2>6, <4>1
      <4> QED
        BY <1>1, <4>1, <4>2
    <3> QED
      BY <3>1 DEF Contents
  <2>8. full \in Message
    <3>1. [i \in 1 .. BufferLength |-> b.gone + i] \in Seq(Int)
      BY <1>1, <2>4
    <3> QED
      BY <2>7, <3>1 DEF Message
  <2>9. msgs' = Append(msgs, full)
    <3>1. ~(b.w < BufferLength)
      BY <1>1, <1>6, <2>4
    <3> QED
      BY <2>1, <3>1 DEF MonitorStores
  <2>10. Len(disk.done) \in Nat /\ b.gone \in Nat /\ msgs \in Seq(Message) /\ full.um = "BUFFER_WRITE"
    BY <1>1
  <2> HIDE DEF full
  <2>11. InLine(Append(msgs, full), Len(disk.done), b.gone + BufferLength)
    BY <2>3, <2>7, <2>8, <2>10, LineGrows
  <2>12. InLine(msgs', Len(disk.done), b'.gone)
    BY <2>2, <2>9, <2>11
  <2> QED
    BY <1>2, <1>3, <2>3, <2>12, FilesSame
<1> QED
  BY <1>5, <1>6, <1>7 DEF MonitorStores

LEMMA MonitorFiles ==
  ASSUME Inv, FreeInv, FileInv, Monitor
  PROVE  FileInv'
<1>1. /\ DOMAIN b = {"slot", "w", "r", "wrapped", "toView", "n", "gone", "sound"}
      /\ DOMAIN m = {"pc", "batch", "stop", "kill"} /\ DiskShape /\ msgs \in Seq(Message)
      /\ DOMAIN disk = {"done", "last", "saved", "lost"}
      /\ disk.done \in Seq(Seq(Int)) /\ disk.lost \in BOOLEAN
  BY DEF Inv, Shape, BufferShape, MonitorShape, FileInv, DiskShape, FreeInv, EndHeard
<1>2. ASSUME NEW um \in {"STARTMONITOR", "VIEWDAT_ON", "BUFFER_END"}
      PROVE  LET x == [um |-> um, data |-> <<>>]
             IN  x \in Message /\ x.um # "BUFFER_WRITE"
  BY <1>2 DEF Message
<1>3. CASE MonitorStarts
  <2> DEFINE begin == [um |-> "STARTMONITOR", data |-> <<>>]
  <2>1. /\ m' = [m EXCEPT !.pc = "top"] /\ b' = Reset(b) /\ msgs' = Append(msgs, begin)
        /\ disk' = [disk EXCEPT !.done = <<>>, !.last = <<>>, !.lost = Pending(msgs) # {}]
    BY <1>3 DEF MonitorStarts
  <2>2. PICK lost \in BOOLEAN : lost = (Pending(msgs) # {})
    OBVIOUS
  <2>3. disk' = [disk EXCEPT !.done = <<>>, !.last = <<>>, !.lost = lost]
    BY <2>1, <2>2
  <2>4. /\ DOMAIN disk' = {"done", "last", "saved", "lost"} /\ disk'.done = <<>> /\ disk'.lost = lost
        /\ b'.gone = 0 /\ m'.pc = "top"
    <3>1. b'.gone = 0
      BY <1>1, <2>1 DEF Reset
    <3>2. m'.pc = "top"
      BY <1>1, <2>1
    <3> QED
      BY <1>1, <2>3, <3>1, <3>2
  <2>5. DiskShape'
    BY <2>4 DEF DiskShape
  <2>6. SUFFICES ASSUME Kept' PROVE FileInv'
    BY <2>5, FilesLost
  <2>7. Pending(msgs) = {}
    BY <2>2, <2>4, <2>6 DEF Kept
  <2>8. Ahead(msgs, Len(msgs) + 1) = 0
    <3>1. Carried(msgs, Len(msgs) + 1) = {}
      BY <2>7 DEF Carried
    <3> QED
      BY <3>1, FS_EmptySet DEF Ahead
  <2>9. 0 = (0 + 0) * BufferLength
    BY CaptureAssumption
  <2>10. InLine(msgs, 0, 0)
    BY <2>7, <2>8, <2>9 DEF InLine
  <2>11. InLine(msgs', 0, 0)
    BY <1>1, <1>2, <2>1, <2>10, LineSame
  <2>12. InLine(msgs, Len(disk.done), b.gone)'
    BY <2>4, <2>11 DEF InLine, Ahead, Carried, Pending, Chunk
  <2> QED
    BY <2>4, <2>5, <2>12 DEF FileInv, Filed, LastKept
<1>4. CASE MonitorFindsNothing
  BY <1>1, <1>4, FilesQuiet DEF MonitorFindsNothing, DiskShape
<1>5. CASE MonitorReads
  <2> DEFINE shown == [um |-> "VIEWDAT_ON", data |-> <<>>]
  <2>1. /\ m' = [m EXCEPT !.pc = "store", !.batch = Taken] /\ b' = [b EXCEPT !.toView = TRUE]
        /\ msgs' = (IF b.toView THEN msgs ELSE Append(msgs, shown)) /\ UNCHANGED <<cfg, disk>>
    BY <1>5 DEF MonitorReads
  <2>2. /\ m'.pc = "store" /\ b'.gone = b.gone /\ b'.sound = b.sound /\ DiskShape'
    BY <1>1, <2>1 DEF DiskShape
  <2>3. Kept' => Kept /\ InLine(msgs, Len(disk.done), b.gone)
    BY <2>1, <2>2 DEF Kept, FileInv
  <2>4. Kept' => InLine(msgs', Len(disk.done), b.gone)
    BY <1>1, <1>2, <2>1, <2>3, LineSame
  <2> QED
    BY <2>1, <2>2, <2>3, <2>4, FilesSame
<1>6. CASE MonitorStopsAtEnd
  <2> DEFINE full == [um |-> "BUFFER_END", data |-> <<>>]
  <2>1. Append(msgs, full) \in Seq(Message)
    BY <1>1, <1>2
  <2>2. Kept => InLine(Append(msgs, full), Len(disk.done), b.gone)
    BY <1>1, <1>2, LineSame DEF FileInv
  <2>3. Finish(Append(msgs, full))
    BY <1>6 DEF MonitorStopsAtEnd
  <2> HIDE DEF full
  <2> QED
    BY <2>1, <2>2, <2>3, FinishFiles
<1>7. CASE MonitorIsStopped
  <2>1. Finish(msgs) /\ (Kept => InLine(msgs, Len(disk.done), b.gone))
    BY <1>7 DEF MonitorIsStopped, FileInv
  <2> QED
    BY <1>1, <2>1, FinishFiles
<1> QED
  BY <1>3, <1>4, <1>5, <1>6, <1>7, StoreFiles DEF Monitor

LEMMA OthersFiles ==
  ASSUME Inv, FileInv, Display \/ Select \/ Arrive \/ UNCHANGED vars
  PROVE  FileInv'
<1>1. /\ DOMAIN b = {"slot", "w", "r", "wrapped", "toView", "n", "gone", "sound"}
      /\ DOMAIN m = {"pc", "batch", "stop", "kill"}
      /\ DOMAIN disk = {"done", "last", "saved", "lost"} /\ DiskShape
  BY DEF Inv, Shape, BufferShape, MonitorShape, FileInv, DiskShape
<1>2. msgs' = msgs /\ cfg' = cfg
  BY DEF Display, DisplayStarts, DisplayWakes, DisplayShows, DisplayCaughtUp, Select, Arrive, vars
<1>3. b' = b \/ b' = [b EXCEPT !.r = b.w] \/ b' = [b EXCEPT !.r = NextSlot + 1]
  BY DEF Display, DisplayStarts, DisplayWakes, DisplayShows, DisplayCaughtUp, Select, Arrive, vars
<1>4. m' = m \/ m' = [m EXCEPT !.stop = TRUE, !.kill = FALSE]
  BY DEF Display, DisplayStarts, DisplayWakes, DisplayShows, DisplayCaughtUp, Select, Arrive, vars,
     KillDisplay, KillMonitor
<1>5. disk' = disk \/ disk' = [disk EXCEPT !.saved = <<>>]
  BY DEF Display, DisplayStarts, DisplayWakes, DisplayShows, DisplayCaughtUp, Select, Arrive, vars
<1>6. b'.slot = b.slot /\ b'.w = b.w /\ b'.gone = b.gone /\ b'.sound = b.sound /\ m'.pc = m.pc
  BY <1>1, <1>3, <1>4
<1>7. DiskShape' /\ disk'.done = disk.done /\ disk'.last = disk.last /\ disk'.lost = disk.lost
  BY <1>1, <1>5 DEF DiskShape
<1> QED
  BY <1>2, <1>6, <1>7, FilesQuiet

(* A command after which a capture to the file begins anew, or is over.     *)
LEMMA FilesAnew ==
  ASSUME FileInv, disk' = [disk EXCEPT !.last = <<>>, !.lost = TRUE]
  PROVE  FileInv'
<1>1. DiskShape' /\ disk'.lost
  BY DEF FileInv, DiskShape
<1> QED
  BY <1>1, FilesLost DEF Kept

LEMMA CarriesFiles ==
  ASSUME Inv, FreeInv, FileInv, Carries
  PROVE  FileInv'
<1>1. /\ DOMAIN b = {"slot", "w", "r", "wrapped", "toView", "n", "gone", "sound"}
      /\ DOMAIN cfg = {"mode", "show", "monitoring", "display", "view", "save", "load"}
      /\ DOMAIN m = {"pc", "batch", "stop", "kill"}
      /\ DOMAIN disk = {"done", "last", "saved", "lost"} /\ DiskShape
  BY DEF Inv, Shape, BufferShape, CfgShape, MonitorShape, FileInv, DiskShape
<1>2. MonitorCreated.pc = "start"
  BY <1>1 DEF MonitorCreated
<1>3. ASSUME disk' = disk, msgs' = msgs, m'.pc = "dead" => m.pc = "dead", cfg'.mode = cfg.mode, b' = b
      PROVE  FileInv'
  BY <1>1, <1>3, FilesQuiet DEF DiskShape
<1>4. CASE DisplayEnded
  <2>1. KillMonitor(ui.cmd, TRUE) /\ UNCHANGED <<b, cfg, msgs, disk>>
    BY <1>4 DEF DisplayEnded
  <2>2. m'.pc = m.pc
    BY <1>1, <2>1 DEF KillMonitor
  <2> QED
    BY <1>3, <2>1, <2>2
<1>5. CASE MonitorEnded \/ FormatChanged \/ BufferOpened \/ Closed
  BY <1>3, <1>5 DEF MonitorEnded, FormatChanged, BufferOpened, Closed
<1>6. CASE StreamToggled
  <2>1. /\ UNCHANGED <<b, msgs>> /\ (m' = m \/ m' = MonitorCreated)
        /\ \/ cfg' = [cfg EXCEPT !.monitoring = FALSE] /\ disk' = disk
           \/ /\ cfg' = [cfg EXCEPT !.monitoring = TRUE, !.show = @ \cap {"stream"}]
              /\ disk' = IF cfg.mode = "file" THEN [disk EXCEPT !.last = <<>>, !.lost = TRUE] ELSE disk
           \/ UNCHANGED <<cfg, disk>>
    BY <1>6 DEF StreamToggled
  <2>2. cfg'.mode = cfg.mode /\ (m'.pc = "dead" => m.pc = "dead")
    BY <1>1, <1>2, <2>1
  <2> QED
    BY <1>3, <2>1, <2>2, FilesAnew
<1>7. CASE DisplayToggled \/ Viewed \/ ViewClosed
  <2>1. /\ UNCHANGED <<m, b, msgs, disk>>
        /\ \/ cfg' = [cfg EXCEPT !.show = {}]
           \/ cfg' = [cfg EXCEPT !.show = {"stream"}]
           \/ cfg' = [cfg EXCEPT !.monitoring = FALSE, !.show = @ \cup {"data"}]
    BY <1>7 DEF DisplayToggled, Viewed, ViewClosed
  <2>2. cfg'.mode = cfg.mode
    BY <1>1, <2>1
  <2> QED
    BY <1>3, <2>1, <2>2
<1>8. CASE Saved
  <2>1. /\ UNCHANGED <<m, b, cfg, msgs>>
        /\ \E saved : disk' = [disk EXCEPT !.saved = saved]
    BY <1>8 DEF Saved
  <2>2. DiskShape' /\ disk'.done = disk.done /\ disk'.last = disk.last /\ disk'.lost = disk.lost
    BY <1>1, <2>1 DEF DiskShape
  <2> QED
    BY <2>1, <2>2, FilesQuiet
<1>9. CASE Loaded
  <2>1. PICK words \in {1, BufferLength + 1} : b' = [b EXCEPT !.w = words, !.sound = FALSE]
    BY <1>9 DEF Loaded
  <2>2. ~b'.sound /\ disk' = disk
    BY <1>1, <1>9, <2>1 DEF Loaded
  <2> QED
    BY <1>1, <2>2, FilesLost DEF Kept, DiskShape
<1>11. CASE Restarted
  <2>1. /\ b' = [b EXCEPT !.slot = [i \in Slots |-> Blank], !.sound = FALSE]
        /\ disk' = [disk EXCEPT !.last = <<>>, !.lost = TRUE] \/ disk' = disk
    BY <1>11 DEF Restarted
  <2>2. ~b'.sound
    BY <1>1, <2>1
  <2> QED
    BY <1>1, <2>1, <2>2, FilesAnew, FilesLost DEF Kept, DiskShape
<1>12. CASE Aborted
  BY <1>12, FilesAnew DEF Aborted
<1>13. CASE EndTold
  <2>1. UNCHANGED <<m, msgs, disk>> /\ cfg' = [cfg EXCEPT !.monitoring = FALSE, !.display = FALSE]
    BY <1>13 DEF EndTold
  <2>2. PICK ended : ended = (b.sound /\ m.pc = "dead")
    OBVIOUS
  <2>3. b' = [b EXCEPT !.sound = ended]
    BY <1>13, <2>2 DEF EndTold
  <2>4. /\ (b'.sound => b.sound) /\ cfg'.mode = cfg.mode
        /\ b'.gone = b.gone /\ b'.w = b.w /\ b'.slot = b.slot
    BY <1>1, <2>1, <2>2, <2>3
  <2> QED
    BY <1>1, <2>1, <2>4, FilesQuiet DEF DiskShape
<1> QED
  BY <1>4, <1>5, <1>6, <1>7, <1>8, <1>9, <1>11, <1>12, <1>13 DEF Carries

LEMMA MessagesFiles ==
  ASSUME Inv, FreeInv, FileInv, Messages
  PROVE  FileInv'
<1>1. /\ DOMAIN cfg = {"mode", "show", "monitoring", "display", "view", "save", "load"}
      /\ DOMAIN m = {"pc", "batch", "stop", "kill"}
      /\ DOMAIN disk = {"done", "last", "saved", "lost"} /\ DiskShape
      /\ disk.done \in Seq(Seq(Int)) /\ disk.lost \in BOOLEAN /\ msgs \in Seq(Message)
  BY DEF Inv, Shape, CfgShape, MonitorShape, FileInv, DiskShape, FreeInv, EndHeard
<1>2. msgs # <<>> /\ msgs' = Tail(msgs) /\ b' = b
  BY DEF Messages, ServeStart, ServeKill, ServeViewOn, ServeWrite, ServeEnd, Serve
<1>3. Head(msgs) = msgs[1] /\ 1 \in DOMAIN msgs /\ Head(msgs) \in Message /\ Len(disk.done) \in Nat
  BY <1>1, <1>2
<1>4. Pending(msgs) = {} => Pending(msgs') = {}
  <2>1. \A i \in DOMAIN msgs' : i + 1 \in DOMAIN msgs /\ msgs'[i] = msgs[i + 1]
    BY <1>1, <1>2
  <2> QED
    BY <2>1 DEF Pending
<1>5. Kept => /\ Head(msgs).um # "BUFFER_WRITE" => InLine(msgs', Len(disk.done), b.gone)
              /\ Head(msgs).um = "BUFFER_WRITE" => /\ Head(msgs).data = Chunk(Len(disk.done))
                                                   /\ InLine(msgs', Len(disk.done) + 1, b.gone)
  BY <1>1, <1>2, <1>3, LineServed DEF FileInv
<1>6. ASSUME disk' = disk, cfg'.mode = cfg.mode, m'.pc = m.pc, Head(msgs).um # "BUFFER_WRITE"
      PROVE  FileInv'
  <2>1. Kept' => Kept
    BY <1>2, <1>6 DEF Kept
  <2> QED
    BY <1>1, <1>2, <1>4, <1>5, <1>6, <2>1, FilesSame DEF DiskShape
<1>7. CASE ServeStart \/ ServeKill \/ ServeViewOn
  <2>1. UNCHANGED <<m, disk>> /\ Head(msgs).um \in {"STARTMONITOR", "KILLMONITOR", "VIEWDAT_ON"}
    BY <1>7 DEF ServeStart, ServeKill, ServeViewOn, Serve
  <2>2. cfg'.mode = cfg.mode
    BY <1>1, <1>7 DEF ServeStart, ServeKill, ServeViewOn
  <2> QED
    BY <1>6, <2>1, <2>2
<1>8. CASE ServeEnd
  <2>1. cfg' = cfg /\ disk' = disk /\ Head(msgs).um = "BUFFER_END" /\ KillDisplay("end")
    BY <1>8 DEF ServeEnd, Serve
  <2>2. m'.pc = m.pc
    BY <1>1, <2>1 DEF KillDisplay, KillMonitor
  <2> QED
    BY <1>6, <2>1, <2>2
<1>9. CASE ServeWrite
  <2>1. cfg' = cfg /\ Head(msgs).um = "BUFFER_WRITE"
    BY <1>9 DEF ServeWrite, Serve
  <2>2. CASE disk' = [disk EXCEPT !.last = Head(msgs).data, !.lost = TRUE]
    <3>1. DiskShape' /\ disk'.lost
      BY <1>1, <2>2 DEF DiskShape
    <3> QED
      BY <3>1, FilesLost DEF Kept
  <2>3. CASE disk' = [disk EXCEPT !.lost = TRUE]
    <3>1. DiskShape' /\ disk'.lost
      BY <1>1, <2>3 DEF DiskShape
    <3> QED
      BY <3>1, FilesLost DEF Kept
  <2>4. CASE m' = m /\ disk' = [disk EXCEPT !.done = Append(@, Head(msgs).data), !.last = <<>>]
    <3>1. Head(msgs).data \in Seq(Int)
      BY <1>3 DEF Message
    <3>2. /\ DOMAIN disk' = {"done", "last", "saved", "lost"} /\ disk'.lost = disk.lost
          /\ disk'.done = Append(disk.done, Head(msgs).data)
      BY <1>1, <2>4
    <3>3. DiskShape' /\ Len(disk'.done) = Len(disk.done) + 1
      BY <1>1, <3>1, <3>2 DEF DiskShape
    <3>4. SUFFICES ASSUME Kept' PROVE FileInv'
      BY <3>3, FilesLost
    <3>5. Kept /\ Filed /\ LastKept
      BY <1>2, <2>1, <3>2, <3>4 DEF Kept, FileInv
    <3>6. Filed'
      <4>1. ASSUME NEW k \in DOMAIN disk'.done PROVE disk'.done[k] = Chunk(k - 1)
        <5>1. CASE k = Len(disk.done) + 1
          <6>1. disk'.done[k] = Head(msgs).data /\ k - 1 = Len(disk.done)
            BY <1>1, <1>3, <3>1, <3>2, <5>1
          <6> QED
            BY <1>5, <2>1, <3>5, <6>1
        <5>2. CASE k # Len(disk.done) + 1
          <6>1. k \in DOMAIN disk.done /\ disk'.done[k] = disk.done[k]
            BY <1>1, <3>1, <3>2, <4>1, <5>2
          <6> QED
            BY <3>5, <6>1 DEF Filed
        <5> QED
          BY <5>1, <5>2
      <4>2. \A k : Chunk(k)' = Chunk(k)
        BY DEF Chunk
      <4> QED
        BY <4>1, <4>2 DEF Filed
    <3>7. InLine(msgs', Len(disk'.done), b'.gone)
      BY <1>2, <1>5, <2>1, <3>3, <3>5
    <3>8. InLine(msgs, Len(disk.done), b.gone)'
      BY <3>7 DEF InLine, Ahead, Carried, Pending, Chunk
    <3>9. 1 \in Pending(msgs)
      BY <1>3, <2>1 DEF Pending
    <3>10. LastKept'
      BY <1>2, <2>1, <2>4, <3>5, <3>9 DEF LastKept
    <3> QED
      BY <3>3, <3>6, <3>8, <3>10 DEF FileInv
  <2>5. \/ m' = m /\ disk' = [disk EXCEPT !.done = Append(@, Head(msgs).data), !.last = <<>>]
        \/ disk' = [disk EXCEPT !.last = Head(msgs).data, !.lost = TRUE]
        \/ disk' = [disk EXCEPT !.lost = TRUE]
    BY <1>9 DEF ServeWrite
  <2> QED
    BY <2>2, <2>3, <2>4, <2>5
<1> QED
  BY <1>7, <1>8, <1>9 DEF Messages

(* A file that is begun while the monitor runs holds what it has stored, if  *)
(* nothing of that is gone or overwritten.                                  *)
LEMMA DialogFiles ==
  ASSUME Inv, DialogInv, FileInv, BufferSet \/ BufferCancelled
  PROVE  FileInv'
<1>1. /\ UNCHANGED <<m, msgs>> /\ DiskShape /\ disk.lost \in BOOLEAN
      /\ b'.sound => b.sound /\ b'.slot = b.slot /\ b'.w = b.w /\ b'.gone = b.gone
  BY DialogLeft DEF FileInv, DiskShape
<1>2. CASE BufferCancelled
  BY <1>1, <1>2, FilesQuiet DEF BufferCancelled, DiskShape
<1>3. CASE BufferSet
  <2>1. PICK mode \in Modes, resized \in {FALSE, dlg = "free"} :
          /\ cfg' = [cfg EXCEPT !.mode = mode, !.monitoring = (dlg = "busy"), !.view = @ /\ ~resized]
          /\ disk' = IF mode = "file" /\ (dlg = "free" \/ cfg.mode # "file")
                     THEN [disk EXCEPT !.last = <<>>, !.lost = @ \/ b.wrapped \/ b.gone # 0 \/ m.pc = "dead"]
                     ELSE disk
    BY <1>3 DEF BufferSet, SetBuffer
  <2>2. PICK busy, view1 : busy = (dlg = "busy") /\ view1 = (cfg.view /\ ~resized)
    OBVIOUS
  <2>3. cfg' = [cfg EXCEPT !.mode = mode, !.monitoring = busy, !.view = view1]
    BY <2>1, <2>2
  <2>4. cfg'.mode = mode
    BY <2>3 DEF Inv, Shape, CfgShape
  <2>5. PICK lost \in BOOLEAN : lost = (disk.lost \/ b.wrapped \/ b.gone # 0 \/ m.pc = "dead")
    OBVIOUS
  <2>6. CASE disk' = disk /\ (mode = "file" => cfg.mode = "file")
    <3>1. DiskShape' /\ (Kept' => Kept)
      BY <1>1, <2>6 DEF DiskShape, Kept
    <3>2. Kept => InLine(msgs, Len(disk.done), b.gone)
      BY DEF FileInv
    <3> QED
      BY <1>1, <2>4, <2>6, <3>1, <3>2, FilesSame DEF Kept
  <2>7. CASE disk' = [disk EXCEPT !.last = <<>>, !.lost = lost]
    <3>1. DiskShape' /\ disk'.done = disk.done /\ disk'.lost = lost
      BY <1>1, <2>7 DEF DiskShape
    <3>2. SUFFICES ASSUME Kept' PROVE FileInv'
      BY <3>1, FilesLost
    <3>3. Kept /\ m.pc # "dead" /\ b'.gone = b.gone
      BY <1>1, <2>5, <3>1, <3>2 DEF Kept
    <3>4. Filed /\ InLine(msgs, Len(disk.done), b.gone)
      BY <3>3 DEF FileInv
    <3>5. \A k : Chunk(k)' = Chunk(k)
      BY DEF Chunk
    <3>6. Filed'
      BY <3>1, <3>4, <3>5 DEF Filed
    <3>7. InLine(msgs', Len(disk'.done), b'.gone)
      BY <1>1, <3>1, <3>3, <3>4
    <3>8. InLine(msgs, Len(disk.done), b.gone)'
      BY <3>7 DEF InLine, Ahead, Carried, Pending, Chunk
    <3>9. LastKept'
      BY <1>1, <3>3 DEF LastKept
    <3> QED
      BY <3>1, <3>6, <3>8, <3>9 DEF FileInv
  <2> QED
    BY <2>1, <2>5, <2>6, <2>7
<1> QED
  BY <1>2, <1>3

LEMMA NextFiles == Inv /\ DialogInv /\ FreeInv /\ FileInv /\ [Next]_vars => FileInv'
BY MonitorFiles, OthersFiles, CarriesFiles, MessagesFiles, DialogFiles DEF Next

LEMMA InitFiles == Init => FileInv
<1> SUFFICES ASSUME Init PROVE FileInv
  OBVIOUS
<1>1. /\ msgs = <<>> /\ b.gone = 0 /\ b.w = 0
      /\ disk = [done |-> <<>>, last |-> <<>>, saved |-> <<>>, lost |-> FALSE]
  BY DEF Init
<1>2. DiskShape /\ Len(disk.done) = 0 /\ DOMAIN disk.done = {}
  BY <1>1 DEF DiskShape
<1>3. Pending(msgs) = {}
  BY <1>1 DEF Pending
<1>4. Ahead(msgs, Len(msgs) + 1) = 0
  <2>1. Carried(msgs, Len(msgs) + 1) = {}
    BY <1>3 DEF Carried
  <2> QED
    BY <2>1, FS_EmptySet DEF Ahead
<1>5. 0 = (0 + 0) * BufferLength
  BY CaptureAssumption
<1>6. InLine(msgs, Len(disk.done), b.gone)
  BY <1>1, <1>2, <1>3, <1>4, <1>5 DEF InLine
<1> QED
  BY <1>1, <1>2, <1>6 DEF FileInv, Filed, LastKept

(* The files of a capture and the full buffers on their way to them are the *)
(* stream, buffer after buffer, and the last file is what was left of it,   *)
(* for every length of the buffer and any delay of the window's messages    *)
(* (COMSCOPE/thread.c, UM_BUFFER_WRITE in COMSCOPE/comscope.c).             *)
THEOREM FilesCorrect == Spec => []FilesHoldStream
<1>1. FileInv => FilesHoldStream
  <2> SUFFICES ASSUME FileInv PROVE FilesHoldStream
    OBVIOUS
  <2>1. \A i : Before(i) = Len(disk.done) + Ahead(msgs, i)
    BY DEF Before, Ahead, Carried
  <2> QED
    BY <2>1 DEF FileInv, Kept, Filed, InLine, LastKept, FilesHoldStream
<1> QED
  BY <1>1, InitInv, NextInv, InitDialog, NextDialog, InitFree, NextFree, InitFiles, NextFiles, PTL DEF Spec
=============================================================================
