-------------------------- MODULE PortDriverProofs --------------------------
(***************************************************************************)
(* Proofs about the print port drivers, for any number of ports, rates,    *)
(* texts and failures: what a driver owns it can read, the two copies of   *)
(* the initialization string agree, InitPort programs what the dialog      *)
(* shows, and the last dialog to end leaves no hook behind.                *)
(***************************************************************************)
EXTENDS PortDriver, FiniteSetTheorems, TLAPS

(* What the dialog's controls may show.                                     *)
Controls == [rate : Rates, parity : {"PARITYNONE", "PARITYODD", "PARITYEVEN"},
             word : {"5BITS", "6BITS", "7BITS", "8BITS"},
             stop : {"STOPBIT1", "STOPBIT1_5", "STOPBIT2"}, shake : {"HSHARDW", "HSNONE"}]

Keys == {"desc", "init", "setup", "term", "driver", "time"}
SetupKeys == {"rate", "line", "dcb"}
Editing == {"open", "saveinit", "saveold", "savetime"}

(* Of every port:                                                           *)
Stored(p) ==
  /\ DOMAIN app[p] = Keys
  /\ app[p].setup = NoSettings \/ DOMAIN app[p].setup = SetupKeys
Readable(p) ==
  /\ Owns("SERIAL", p) /\ p \notin taken => app[p].init \in Text
  /\ Owns("COMI", p) => app[p].setup # NoSettings

(* The driver's name is written after what the driver reads, and what it    *)
(* reads is not spoilt by a dialog that is still open from before.  While   *)
(* COMI is installed over SERIAL the port is marked.                        *)
Installing(p) ==
  job[p].kind = "install" =>
    /\ DOMAIN job[p] = {"kind", "d", "step"}
    /\ job[p].d \in Drivers
    /\ job[p].step \in 1 .. (IF job[p].d = "SERIAL" THEN 6 ELSE 7)
    /\ job[p].d = "COMI" /\ Owns("SERIAL", p) => p \in taken
    /\ job[p].d = "SERIAL" /\ job[p].step > 2 => app[p].init \in Text
    /\ job[p].d = "COMI" /\ job[p].step > 3 => app[p].setup # NoSettings

(* A dialog has settings it can write.                                      *)
Showing(p) ==
  /\ dlg[p].pc \in Editing =>
       /\ DOMAIN dlg[p] = {"pc", "list", "shown", "secs", "org", "orgSecs"}
       /\ dlg[p].shown \in Controls /\ dlg[p].org \in Text
  /\ dlg[p].pc = "setup" => DOMAIN dlg[p].s = SetupKeys

PortInv(p) == Stored(p) /\ Readable(p) /\ Installing(p) /\ Showing(p)
Inv == /\ DOMAIN app = Ports /\ DOMAIN job = Ports /\ DOMAIN dlg = Ports
       /\ \A p \in Ports : PortInv(p)

-----------------------------------------------------------------------------
(* The text a dialog makes of its controls can be read again, and a text    *)
(* checks a button of each group.                                           *)
LEMMA TextOfControls ==
  ASSUME NEW c \in Controls
  PROVE  GetDialogValues(c) \in Text
<1>1. c.word \in {"5BITS", "6BITS", "7BITS", "8BITS"} /\ c.rate \in Rates
  BY DEF Controls
<1>2. /\ DOMAIN WordButton = {"5", "6", "7", "8"}
      /\ WordButton["5"] = "5BITS" /\ WordButton["6"] = "6BITS"
      /\ WordButton["7"] = "7BITS" /\ WordButton["8"] = "8BITS"
  BY DEF WordButton
<1>3. \E t \in DOMAIN WordButton : WordButton[t] = c.word
  BY <1>1, <1>2
<1>4. PICK word : word = CHOOSE t \in DOMAIN WordButton : WordButton[t] = c.word
  OBVIOUS
<1>5. word \in {"5", "6", "7", "8"}
  BY <1>2, <1>3, <1>4
<1>6. PICK parity : parity = CASE c.parity = "PARITYEVEN" -> "2" [] c.parity = "PARITYODD" -> "1"
                               [] c.parity = "PARITYNONE" -> "0"
  OBVIOUS
<1>7. parity \in {"0", "1", "2"}
  BY <1>6 DEF Controls
<1>8. PICK stop : stop = CASE c.stop = "STOPBIT1" -> "1" [] c.stop = "STOPBIT1_5" -> "1.5"
                           [] c.stop = "STOPBIT2" -> "2"
  OBVIOUS
<1>9. stop \in {"1", "1.5", "2"}
  BY <1>8 DEF Controls
<1>10. GetDialogValues(c) = [rate |-> c.rate, parity |-> parity, word |-> word, stop |-> stop,
                             shake |-> IF c.shake = "HSHARDW" THEN "1" ELSE "0"]
  BY <1>4, <1>6, <1>8 DEF GetDialogValues
<1>11. QED
  BY <1>1, <1>5, <1>7, <1>9, <1>10 DEF Text

LEMMA ControlsOfText ==
  ASSUME NEW list \in SUBSET Rates, NEW was \in Rates, NEW t \in Text
  PROVE  SetDialogValues(list, was, t) \in Controls
<1>1. ParityButton[t.parity] \in {"PARITYNONE", "PARITYODD", "PARITYEVEN"}
  BY DEF ParityButton, Text
<1>2. StopButton[t.stop] \in {"STOPBIT1", "STOPBIT1_5", "STOPBIT2"}
  BY DEF StopButton, Text
<1>3. WordButton[t.word] \in {"5BITS", "6BITS", "7BITS", "8BITS"}
  BY DEF WordButton, Text
<1>4. t.rate \in Rates
  BY DEF Text
<1>5. QED
  BY <1>1, <1>2, <1>3, <1>4 DEF SetDialogValues, Controls

LEMMA DefaultIsText == DefaultText \in Text
BY RatesAssumption DEF DefaultText, Text

(* What InstallPort writes, step by step.                                   *)
LEMMA SerialWrites ==
  LET w == InstallWrites("SERIAL") IN
  /\ Len(w) = 6
  /\ w[1][1] = "desc" /\ w[2][1] = "init" /\ w[2][2] = DefaultText /\ w[3][1] = "term"
  /\ w[4][1] = "driver" /\ w[4][2] = "SERIAL" /\ w[5][1] = "time" /\ w[6][1] = "old"
  /\ \A i \in 1 .. 6 : w[i][3] = TRUE
BY DEF InstallWrites

LEMMA ComiWrites ==
  LET w == InstallWrites("COMI") IN
  /\ Len(w) = 7
  /\ w[1][1] = "desc" /\ w[2][1] = "init" /\ w[3][1] = "setup" /\ w[3][2] = DefaultSetup
  /\ w[4][1] = "driver" /\ w[4][2] = "COMI" /\ w[5][1] = "term" /\ w[6][1] = "time" /\ w[7][1] = "old"
  /\ \A i \in 1 .. 4 : w[i][3] = TRUE
BY DEF InstallWrites

LEMMA SetupsDiffer ==
  /\ DOMAIN DefaultSetup = SetupKeys
  /\ \A s : DOMAIN s = SetupKeys => s # NoSettings
<1>1. DOMAIN NoSettings = {"none"}
  BY DEF NoSettings
<1>2. QED
  BY <1>1 DEF DefaultSetup, SetupKeys

-----------------------------------------------------------------------------
(* A step of one port.                                                      *)
LEMMA OnePort ==
  ASSUME Inv, NEW p \in Ports, DOMAIN app' = Ports, DOMAIN job' = Ports, DOMAIN dlg' = Ports,
         \A q \in Ports \ {p} : /\ app'[q] = app[q] /\ job'[q] = job[q] /\ dlg'[q] = dlg[q]
                                /\ (q \in taken' <=> q \in taken),
         PortInv(p)'
  PROVE  Inv'
<1>1. ASSUME NEW q \in Ports \ {p} PROVE PortInv(q)'
  BY <1>1 DEF Inv, PortInv, Stored, Readable, Installing, Showing, Owns
<1>2. QED
  BY <1>1 DEF Inv

(* One profile write.                                                       *)
LEMMA Wrote ==
  ASSUME Inv, NEW p \in Ports, NEW key, NEW value, NEW done \in BOOLEAN, Write(p, key, value, done)
  PROVE  /\ DOMAIN app' = Ports /\ \A q \in Ports \ {p} : app'[q] = app[q]
         /\ ~done => app' = app
         /\ key = "old" => app' = app
         /\ done /\ key \in Keys => app'[p] = [app[p] EXCEPT ![key] = value]
BY DEF Write, Inv, Keys

(* A step that leaves the file and the jobs as they are.                    *)
LEMMA DialogStep ==
  ASSUME Inv, NEW p \in Ports, UNCHANGED <<app, job, taken>>, DOMAIN dlg' = Ports,
         \A q \in Ports \ {p} : dlg'[q] = dlg[q], Showing(p)'
  PROVE  Inv'
<1>1. Stored(p)' /\ Readable(p)' /\ Installing(p)'
  BY DEF Inv, PortInv, Stored, Readable, Installing, Owns
<1>2. QED
  BY <1>1, OnePort DEF Inv, PortInv

LEMMA InstallWriteInv ==
  ASSUME Inv, NEW p \in Ports, InstallWrite(p)
  PROVE  Inv'
<1> DEFINE i == job[p].step
<1>1. PICK w : w = InstallWrites(job[p].d)
  OBVIOUS
<1>2. PICK done \in BOOLEAN :
        /\ Write(p, w[i][1], w[i][2], done)
        /\ job' = [job EXCEPT ![p] = IF i = Len(w) \/ (~done /\ w[i][3]) THEN NoJob
                                     ELSE [@ EXCEPT !.step = i + 1]]
        /\ taken' = IF done /\ w[i][1] = "driver" THEN taken \ {p} ELSE taken
  BY <1>1 DEF InstallWrite
<1>3. job[p].kind = "install" /\ dlg' = dlg
  BY DEF InstallWrite
<1>4. /\ DOMAIN job[p] = {"kind", "d", "step"} /\ job[p].d \in Drivers
      /\ i \in 1 .. (IF job[p].d = "SERIAL" THEN 6 ELSE 7)
      /\ job[p].d = "COMI" /\ Owns("SERIAL", p) => p \in taken
      /\ job[p].d = "SERIAL" /\ i > 2 => app[p].init \in Text
      /\ job[p].d = "COMI" /\ i > 3 => app[p].setup # NoSettings
      /\ Stored(p) /\ Readable(p)
  BY <1>3 DEF Inv, PortInv, Installing
<1>5. /\ DOMAIN app' = Ports /\ \A q \in Ports \ {p} : app'[q] = app[q]
      /\ ~done => app' = app
      /\ w[i][1] = "old" => app' = app
      /\ done /\ w[i][1] \in Keys => app'[p] = [app[p] EXCEPT ![w[i][1]] = w[i][2]]
  BY <1>2, Wrote
<1>6. /\ DOMAIN job' = Ports /\ \A q \in Ports \ {p} : job'[q] = job[q]
      /\ \/ job'[p] = NoJob
         \/ /\ i # Len(w) /\ (done \/ ~w[i][3])
            /\ job'[p] = [job[p] EXCEPT !.step = i + 1]
  BY <1>2 DEF Inv
<1>7. Showing(p)' /\ \A q \in Ports \ {p} : q \in taken' <=> q \in taken
  BY <1>2, <1>3 DEF Inv, PortInv, Showing
<1>8. job'[p] # NoJob =>
        /\ job'[p].kind = "install" /\ DOMAIN job'[p] = {"kind", "d", "step"}
        /\ job'[p].d = job[p].d /\ job'[p].step = i + 1
  BY <1>4, <1>6, <1>3
<1>9. CASE job[p].d = "SERIAL"
  <2>1. /\ Len(w) = 6
        /\ w[1][1] = "desc" /\ w[2][1] = "init" /\ w[2][2] = DefaultText /\ w[3][1] = "term"
        /\ w[4][1] = "driver" /\ w[4][2] = "SERIAL" /\ w[5][1] = "time" /\ w[6][1] = "old"
        /\ \A k \in 1 .. 6 : w[k][3] = TRUE
    BY <1>1, <1>9, SerialWrites
  <2>2. i \in 1 .. 6
    BY <1>4, <1>9
  <2>3. Stored(p)' /\ Readable(p)'
        /\ (job'[p] # NoJob /\ i + 1 > 2 => app'[p].init \in Text)
    <3>0. taken' = IF done /\ i = 4 THEN taken \ {p} ELSE taken
      <4>1. \A k \in 1 .. 6 : w[k][1] = "driver" <=> k = 4
        BY <2>1
      <4> QED
        BY <1>2, <2>2, <4>1
    <3>1. CASE app' = app /\ (~done \/ w[i][1] = "old")
      <4>1. Stored(p)' /\ Readable(p)'
        BY <1>4, <2>1, <2>2, <3>0, <3>1 DEF Stored, Readable, Owns
      <4>2. job'[p] # NoJob => i > 4
        BY <1>6, <2>1, <2>2, <3>1
      <4>3. QED
        BY <1>4, <1>9, <2>2, <3>1, <4>1, <4>2
    <3>2. CASE done /\ w[i][1] \in Keys
      <4>1. app'[p] = [app[p] EXCEPT ![w[i][1]] = w[i][2]]
        BY <1>5, <3>2
      <4>2. CASE i = 1
        BY <1>4, <2>1, <3>0, <4>1, <4>2 DEF Stored, Readable, Owns, Keys, Absent
      <4>3. CASE i = 2
        BY <1>4, <2>1, <3>0, <4>1, <4>3, DefaultIsText DEF Stored, Readable, Owns, Keys, Absent
      <4>4. CASE i = 3
        BY <1>4, <1>9, <2>1, <3>0, <4>1, <4>4 DEF Stored, Readable, Owns, Keys, Absent
      <4>5. CASE i = 4
        BY <1>4, <1>9, <2>1, <3>0, <4>1, <4>5 DEF Stored, Readable, Owns, Keys, Absent
      <4>6. CASE i = 5
        BY <1>4, <1>9, <2>1, <3>0, <4>1, <4>6 DEF Stored, Readable, Owns, Keys, Absent
      <4>7. CASE i = 6
        BY <2>1, <3>2, <4>7 DEF Keys
      <4>8. QED
        BY <2>2, <4>2, <4>3, <4>4, <4>5, <4>6, <4>7
    <3>3. QED
      BY <1>5, <2>1, <2>2, <3>1, <3>2 DEF Keys
  <2>4. Installing(p)'
    BY <1>6, <1>8, <1>9, <2>1, <2>2, <2>3 DEF Installing, Drivers, NoJob
  <2>5. QED
    BY <1>3, <1>5, <1>6, <1>7, <2>3, <2>4, OnePort DEF Inv, PortInv
<1>10. CASE job[p].d = "COMI"
  <2>1. /\ Len(w) = 7
        /\ w[1][1] = "desc" /\ w[2][1] = "init" /\ w[3][1] = "setup" /\ w[3][2] = DefaultSetup
        /\ w[4][1] = "driver" /\ w[4][2] = "COMI" /\ w[5][1] = "term" /\ w[6][1] = "time" /\ w[7][1] = "old"
        /\ \A k \in 1 .. 4 : w[k][3] = TRUE
    BY <1>1, <1>10, ComiWrites
  <2>2. i \in 1 .. 7
    BY <1>4, <1>10
  <2>3. Stored(p)' /\ Readable(p)' /\ (Owns("SERIAL", p)' => p \in taken')
        /\ (job'[p] # NoJob /\ i + 1 > 3 => app'[p].setup # NoSettings)
    <3>0. taken' = IF done /\ i = 4 THEN taken \ {p} ELSE taken
      <4>1. \A k \in 1 .. 7 : w[k][1] = "driver" <=> k = 4
        BY <2>1
      <4> QED
        BY <1>2, <2>2, <4>1
    <3>1. CASE app' = app /\ (~done \/ w[i][1] = "old")
      <4>1. Stored(p)' /\ Readable(p)' /\ (Owns("SERIAL", p)' => p \in taken')
        BY <1>4, <1>10, <2>1, <2>2, <3>0, <3>1 DEF Stored, Readable, Owns
      <4>2. job'[p] # NoJob => i > 4
        BY <1>6, <2>1, <2>2, <3>1
      <4>3. QED
        BY <1>4, <1>10, <2>2, <3>1, <4>1, <4>2
    <3>2. CASE done /\ w[i][1] \in Keys
      <4>1. app'[p] = [app[p] EXCEPT ![w[i][1]] = w[i][2]]
        BY <1>5, <3>2
      <4>2. CASE i = 1
        BY <1>4, <1>10, <2>1, <3>0, <4>1, <4>2 DEF Stored, Readable, Owns, Keys, Absent
      <4>3. CASE i = 2
        BY <1>4, <1>10, <2>1, <3>0, <4>1, <4>3 DEF Stored, Readable, Owns, Keys, Absent
      <4>4. CASE i = 3
        BY <1>4, <1>10, <2>1, <3>0, <4>1, <4>4, SetupsDiffer DEF Stored, Readable, Owns, Keys, Absent
      <4>5. CASE i = 4
        BY <1>4, <1>10, <2>1, <3>0, <4>1, <4>5 DEF Stored, Readable, Owns, Keys, Absent
      <4>6. CASE i \in {5, 6}
        BY <1>4, <1>10, <2>1, <3>0, <4>1, <4>6 DEF Stored, Readable, Owns, Keys, Absent
      <4>7. CASE i = 7
        BY <2>1, <3>2, <4>7 DEF Keys
      <4>8. QED
        BY <2>2, <4>2, <4>3, <4>4, <4>5, <4>6, <4>7
    <3>3. QED
      BY <1>5, <2>1, <2>2, <3>1, <3>2 DEF Keys
  <2>4. Installing(p)'
    BY <1>6, <1>8, <1>10, <2>1, <2>2, <2>3 DEF Installing, Drivers, NoJob
  <2>5. QED
    BY <1>3, <1>5, <1>6, <1>7, <2>3, <2>4, OnePort DEF Inv, PortInv
<1>11. QED
  BY <1>4, <1>9, <1>10 DEF Drivers

LEMMA RemoveWriteInv ==
  ASSUME Inv, NEW p \in Ports, RemoveWrite(p)
  PROVE  Inv'
<1>1. job[p].kind = "remove" /\ dlg' = dlg /\ taken' = taken
  BY DEF RemoveWrite
<1>2. Stored(p) /\ Readable(p) /\ Showing(p)'
  BY <1>1 DEF Inv, PortInv, Showing
<1>3. CASE job[p].step = 1
  <2>1. /\ app' = app \/ app' = [app EXCEPT ![p] = NoApp]
        /\ job' = [job EXCEPT ![p].step = 2]
    BY <1>3 DEF RemoveWrite
  <2>2. /\ DOMAIN app' = Ports /\ DOMAIN job' = Ports
        /\ \A q \in Ports \ {p} : app'[q] = app[q] /\ job'[q] = job[q]
        /\ app'[p] = app[p] \/ app'[p] = NoApp
    BY <2>1 DEF Inv
  <2>3. job'[p].kind = "remove"
    BY <1>1, <2>1 DEF Inv
  <2>4. Stored(p)' /\ Readable(p)'
    BY <1>1, <1>2, <2>2 DEF Stored, Readable, Owns, NoApp, Absent, Keys
  <2>5. QED
    BY <1>1, <1>2, <2>2, <2>3, <2>4, OnePort DEF Inv, PortInv, Installing
<1>4. CASE job[p].step # 1
  <2>1. PICK done \in BOOLEAN : Write(p, "old", NoSettings, done)
    BY <1>4 DEF RemoveWrite
  <2>2. app' = app
    BY <2>1, Wrote
  <2>3. /\ DOMAIN job' = Ports /\ \A q \in Ports \ {p} : job'[q] = job[q]
        /\ job'[p].kind = "none"
    BY <1>4 DEF RemoveWrite, NoJob, Inv
  <2>4. Stored(p)' /\ Readable(p)'
    BY <1>1, <1>2, <2>2 DEF Stored, Readable, Owns
  <2>5. QED
    BY <1>1, <1>2, <2>2, <2>3, <2>4, OnePort DEF Inv, PortInv, Installing
<1>5. QED
  BY <1>3, <1>4

(* A write of the dialog, which ends it or goes on.                         *)
LEMMA SaveStepInv ==
  ASSUME Inv, NEW p \in Ports, NEW from \in Editing, NEW key \in {"init", "old", "time"}, NEW value,
         key = "init" => value \in Text, NEW next \in {"saveold", "savetime", "end"},
         SaveStep(p, from, key, value, next)
  PROVE  Inv'
<1>1. PICK done \in BOOLEAN :
        /\ Write(p, key, value, done)
        /\ \/ dlg' = [dlg EXCEPT ![p].pc = "open"]
           \/ dlg' = [dlg EXCEPT ![p] = Closed]
           \/ next # "end" /\ dlg' = [dlg EXCEPT ![p].pc = next]
  BY DEF SaveStep, Dismiss
<1>2. dlg[p].pc = from /\ job' = job /\ taken' = taken
  BY DEF SaveStep
<1>3. /\ DOMAIN app' = Ports /\ \A q \in Ports \ {p} : app'[q] = app[q]
      /\ app' = app \/ app'[p] = [app[p] EXCEPT ![key] = value]
  <2>1. key \in Keys \cup {"old"}
    BY DEF Keys
  <2>2. /\ DOMAIN app' = Ports /\ \A q \in Ports \ {p} : app'[q] = app[q]
        /\ ~done => app' = app
        /\ key = "old" => app' = app
        /\ done /\ key \in Keys => app'[p] = [app[p] EXCEPT ![key] = value]
    <3>1. Write(p, key, value, done)
      BY <1>1
    <3>2. QED
      BY <3>1, Wrote
  <2>3. QED
    BY <2>1, <2>2
<1>4. Stored(p) /\ Readable(p) /\ Installing(p) /\ Showing(p)
  BY DEF Inv, PortInv
<1>5. /\ DOMAIN app'[p] = DOMAIN app[p] /\ app'[p].setup = app[p].setup /\ app'[p].driver = app[p].driver
      /\ app'[p].init = app[p].init \/ app'[p].init \in Text
  BY <1>3, <1>4 DEF Stored, Keys
<1>6. Stored(p)' /\ Readable(p)' /\ Installing(p)'
  BY <1>2, <1>4, <1>5 DEF Stored, Readable, Owns, Installing
<1>7. DOMAIN dlg' = Ports /\ \A q \in Ports \ {p} : dlg'[q] = dlg[q]
  BY <1>1 DEF Inv
<1>8. Showing(p)'
  <2>1. CASE dlg' = [dlg EXCEPT ![p] = Closed]
    BY <2>1 DEF Showing, Inv, Closed, Editing
  <2>2. ASSUME NEW pc \in Editing, dlg' = [dlg EXCEPT ![p].pc = pc] PROVE Showing(p)'
    <3>1. dlg'[p] = [dlg[p] EXCEPT !.pc = pc]
      BY <2>2 DEF Inv
    <3>2. QED
      BY <1>2, <1>4, <3>1 DEF Showing, Editing
  <2>3. QED
    BY <1>1, <2>1, <2>2 DEF Editing
<1>9. QED
  BY <1>2, <1>3, <1>6, <1>7, <1>8, OnePort DEF Inv, PortInv

LEMMA SavePortSettingsInv ==
  ASSUME Inv, NEW p \in Ports, SavePortSettings(p)
  PROVE  Inv'
<1>1. PICK text : text = GetDialogValues(dlg[p].shown)
  OBVIOUS
<1>2. dlg[p].pc \in Editing
  BY DEF SavePortSettings, SaveStep, Editing
<1>3. text \in Text
  BY <1>1, <1>2, TextOfControls DEF Inv, PortInv, Showing
<1>4. \/ SaveStep(p, "saveinit", "init", text, "saveold")
      \/ SaveStep(p, "saveold", "old", text, "savetime") \/ SaveStep(p, "saveold", "old", text, "end")
      \/ SaveStep(p, "savetime", "time", dlg[p].secs, "end")
  BY <1>1 DEF SavePortSettings
<1>5. "saveinit" \in Editing /\ "saveold" \in Editing /\ "savetime" \in Editing
  BY DEF Editing
<1>6. QED
  BY <1>3, <1>4, <1>5, SaveStepInv

(* The other steps of SERIAL's dialog.                                      *)
LEMMA DialogInv ==
  ASSUME Inv, NEW p \in Ports, SplPdSetPort(p) \/ Edit(p) \/ Reset(p) \/ Default(p) \/ Cancel(p) \/ OK(p) \/ Help(p)
  PROVE  Inv'
<1>1. UNCHANGED <<app, job, taken>>
  BY DEF SplPdSetPort, Edit, Reset, Default, Cancel, OK, Help
<1>2. dlg[p].pc \in Editing =>
        /\ DOMAIN dlg[p] = {"pc", "list", "shown", "secs", "org", "orgSecs"}
        /\ dlg[p].shown \in Controls /\ dlg[p].org \in Text /\ dlg[p].shown.rate \in Rates
  BY DEF Inv, PortInv, Showing, Controls
<1>3. ASSUME dlg[p].pc = "open", NEW t \in Text, NEW secs,
             dlg' = [dlg EXCEPT ![p].shown = SetDialogValues(dlg[p].list, dlg[p].shown.rate, t),
                                ![p].secs = secs]
      PROVE  Inv'
  <2>1. PICK shown : shown = SetDialogValues(dlg[p].list, dlg[p].shown.rate, t)
    OBVIOUS
  <2>2. shown \in Controls
    <3>1. dlg[p].shown.rate \in Rates /\ t.rate \in Rates
      BY <1>2, <1>3 DEF Editing, Text
    <3>2. /\ ParityButton[t.parity] \in {"PARITYNONE", "PARITYODD", "PARITYEVEN"}
          /\ StopButton[t.stop] \in {"STOPBIT1", "STOPBIT1_5", "STOPBIT2"}
          /\ WordButton[t.word] \in {"5BITS", "6BITS", "7BITS", "8BITS"}
      BY DEF ParityButton, StopButton, WordButton, Text
    <3>3. QED
      BY <2>1, <3>1, <3>2 DEF SetDialogValues, Controls
  <2>3. /\ DOMAIN dlg' = Ports /\ \A q \in Ports \ {p} : dlg'[q] = dlg[q]
        /\ dlg'[p] = [dlg[p] EXCEPT !.shown = shown, !.secs = secs]
    BY <1>3, <2>1 DEF Inv
  <2>4. Showing(p)'
    BY <1>2, <1>3, <2>2, <2>3 DEF Showing, Editing
  <2>5. QED
    BY <1>1, <2>3, <2>4, DialogStep
<1>4. ASSUME dlg' = [dlg EXCEPT ![p] = Closed] PROVE Inv'
  <2>1. DOMAIN dlg' = Ports /\ (\A q \in Ports \ {p} : dlg'[q] = dlg[q]) /\ Showing(p)'
    BY <1>4 DEF Inv, Showing, Closed, Editing
  <2>2. QED
    BY <1>1, <2>1, DialogStep
<1>5. CASE SplPdSetPort(p)
  <2>1. PICK list \in BaudLists : \E was \in list : dlg' = [dlg EXCEPT ![p] = Opened(p, list, was)]
    BY <1>5 DEF SplPdSetPort
  <2>2. PICK was \in list : dlg' = [dlg EXCEPT ![p] = Opened(p, list, was)]
    BY <2>1
  <2>3. list \in SUBSET Rates /\ was \in Rates /\ app[p].init \in Text
    BY <1>5 DEF SplPdSetPort, BaudLists
  <2>4. PICK shown : shown = SetDialogValues(list, was, app[p].init)
    OBVIOUS
  <2>5. shown \in Controls /\ GetDialogValues(shown) \in Text
    BY <2>3, <2>4, ControlsOfText, TextOfControls
  <2>6. dlg'[p] = [pc |-> "open", list |-> list, shown |-> shown, secs |-> StoredTime(p),
                   org |-> GetDialogValues(shown), orgSecs |-> StoredTime(p)]
    BY <2>2, <2>4 DEF Inv, Opened
  <2>7. Showing(p)'
    BY <2>5, <2>6 DEF Showing, Editing
  <2>8. DOMAIN dlg' = Ports /\ \A q \in Ports \ {p} : dlg'[q] = dlg[q]
    BY <2>2 DEF Inv
  <2>9. QED
    BY <1>1, <2>7, <2>8, DialogStep
<1>6. CASE Edit(p)
  BY <1>3, <1>6, TextsAssumption DEF Edit
<1>7. CASE Reset(p)
  BY <1>2, <1>3, <1>7 DEF Reset, Editing
<1>8. CASE Default(p)
  BY <1>3, <1>8, DefaultIsText DEF Default
<1>9. CASE Cancel(p)
  BY <1>4, <1>9 DEF Cancel, Dismiss
<1>10. CASE OK(p)
  <2>1. CASE dlg' = [dlg EXCEPT ![p] = Closed]
    BY <1>4, <2>1
  <2>2. ASSUME NEW pc \in Editing, dlg' = [dlg EXCEPT ![p].pc = pc] PROVE Inv'
    <3>1. /\ DOMAIN dlg' = Ports /\ \A q \in Ports \ {p} : dlg'[q] = dlg[q]
          /\ dlg'[p] = [dlg[p] EXCEPT !.pc = pc] /\ dlg[p].pc = "open"
      BY <1>10, <2>2 DEF OK, Inv
    <3>2. Showing(p)'
      BY <1>2, <3>1 DEF Showing, Editing
    <3>3. QED
      BY <1>1, <3>1, <3>2, DialogStep
  <2>3. QED
    BY <1>10, <2>1, <2>2 DEF OK, Dismiss, Editing
<1>11. CASE Help(p)
  BY <1>1, <1>11, DialogStep DEF Help, Inv, PortInv, Showing
<1>12. QED
  BY <1>5, <1>6, <1>7, <1>8, <1>9, <1>10, <1>11

(* The dialog of the configuration library.                                 *)
LEMMA SetupInv ==
  ASSUME Inv, NEW p \in Ports, SPLPDSETPORT(p) \/ SpoolerSetupDialogEnds(p)
  PROVE  Inv'
<1>1. CASE SPLPDSETPORT(p)
  <2>1. /\ UNCHANGED <<app, job, taken>> /\ app[p].setup # NoSettings
        /\ dlg' = [dlg EXCEPT ![p] = [pc |-> "setup", s |-> app[p].setup]]
    BY <1>1 DEF SPLPDSETPORT
  <2>2. Showing(p)'
    BY <2>1 DEF Inv, PortInv, Stored, Showing, Editing
  <2>3. QED
    BY <2>1, <2>2, DialogStep DEF Inv
<1>2. CASE SpoolerSetupDialogEnds(p)
  <2>1. dlg[p].pc = "setup" /\ job' = job /\ taken' = taken /\ dlg' = [dlg EXCEPT ![p] = Closed]
    BY <1>2 DEF SpoolerSetupDialogEnds
  <2>2. Showing(p)' /\ DOMAIN dlg' = Ports /\ \A q \in Ports \ {p} : dlg'[q] = dlg[q]
    BY <2>1 DEF Inv, Showing, Closed, Editing
  <2>3. CASE app' = app
    <3>1. Stored(p)' /\ Readable(p)' /\ Installing(p)'
      BY <2>1, <2>3 DEF Inv, PortInv, Stored, Readable, Owns, Installing
    <3>2. QED
      BY <2>1, <2>2, <2>3, <3>1, OnePort DEF Inv, PortInv
  <2>4. ASSUME NEW r \in Rates, NEW done \in BOOLEAN, Write(p, "setup", [dlg[p].s EXCEPT !.rate = r], done), app' # app
        PROVE  Inv'
    <3>1. PICK new : new = [dlg[p].s EXCEPT !.rate = r]
      OBVIOUS
    <3>2. DOMAIN new = SetupKeys
      BY <2>1, <3>1 DEF Inv, PortInv, Showing
    <3>3. Write(p, "setup", new, done)
      BY <2>4, <3>1
    <3>4. /\ DOMAIN app' = Ports /\ \A q \in Ports \ {p} : app'[q] = app[q]
          /\ app'[p] = [app[p] EXCEPT !.setup = new]
      <4>1. "setup" \in Keys
        BY DEF Keys
      <4>2. /\ DOMAIN app' = Ports /\ \A q \in Ports \ {p} : app'[q] = app[q]
            /\ ~done => app' = app
            /\ done /\ "setup" \in Keys => app'[p] = [app[p] EXCEPT !["setup"] = new]
        BY <3>3, Wrote
      <4>3. QED
        BY <2>4, <4>1, <4>2
    <3>5. Stored(p)' /\ Readable(p)' /\ Installing(p)'
      BY <2>1, <3>2, <3>4, SetupsDiffer DEF Inv, PortInv, Stored, Keys, Readable, Owns, Installing
    <3>6. QED
      BY <2>1, <2>2, <3>4, <3>5, OnePort DEF Inv, PortInv
  <2>5. QED
    BY <1>2, <2>3, <2>4 DEF SpoolerSetupDialogEnds
<1>3. QED
  BY <1>1, <1>2

(* The start of an installation or a removal.                               *)
LEMMA JobInv ==
  ASSUME Inv, NEW p \in Ports, NEW d \in Drivers, SplPdInstallPort(p, d) \/ SplPdRemovePort(p, d)
  PROVE  Inv'
<1>1. UNCHANGED <<app, dlg>>
  BY DEF SplPdInstallPort, SplPdRemovePort
<1>2. Stored(p)' /\ Showing(p)'
  BY <1>1 DEF Inv, PortInv, Stored, Showing
<1>3. CASE SplPdInstallPort(p, d)
  <2>1. /\ job' = [job EXCEPT ![p] = [kind |-> "install", d |-> d, step |-> 1]]
        /\ taken' = IF app[p].driver = Absent THEN taken \ {p}
                    ELSE IF d = "COMI" /\ Owns("SERIAL", p) THEN taken \cup {p} ELSE taken
    BY <1>3 DEF SplPdInstallPort
  <2>2. Readable(p)' /\ \A q \in Ports \ {p} : q \in taken' <=> q \in taken
    BY <1>1, <2>1 DEF Inv, PortInv, Readable, Owns, Absent
  <2>3. Installing(p)'
    BY <1>1, <2>1 DEF Inv, Installing, Drivers, Owns, Absent
  <2>4. QED
    BY <1>1, <1>2, <2>1, <2>2, <2>3, OnePort DEF Inv, PortInv
<1>4. CASE SplPdRemovePort(p, d)
  <2>1. job' = [job EXCEPT ![p] = [kind |-> "remove", step |-> 1]] /\ taken' = taken
    BY <1>4 DEF SplPdRemovePort
  <2>2. Installing(p)' /\ Readable(p)'
    BY <1>1, <2>1 DEF Inv, PortInv, Installing, Readable, Owns
  <2>3. QED
    BY <1>1, <1>2, <2>1, <2>2, OnePort DEF Inv, PortInv
<1>5. QED
  BY <1>3, <1>4

-----------------------------------------------------------------------------
(* The two copies of the initialization string.  At rest they are the same; *)
(* the invariant says what each of them is in the middle of a removal, an   *)
(* installation or the writes of a dialog.  A port in mixed is one of which *)
(* nothing is known: what makes the invariant inductive is that a job and a *)
(* dialog that write at the same time put it there.                         *)

InitOf(d) == IF d = "SERIAL" THEN DefaultText ELSE ComiSpooler

Jobs(p) ==
  \/ job[p] = NoJob
  \/ job[p].kind = "install"
  \/ job[p].kind = "remove" /\ DOMAIN job[p] = {"kind", "step"} /\ job[p].step \in {1, 2}

Agree(p) ==
  p \notin mixed =>
    /\ job[p] = NoJob /\ dlg[p].pc = "saveold" => app[p].init = GetDialogValues(dlg[p].shown)
    /\ job[p] = NoJob /\ dlg[p].pc # "saveold" => app[p].init = old[p]
    /\ job[p].kind = "install" /\ ~Saving(p) /\ job[p].step > 2 => app[p].init = InitOf(job[p].d)
    /\ job[p].kind = "remove" /\ ~Saving(p) /\ job[p].step = 2 => app[p].init = NoSettings

CopyInv == DOMAIN old = Ports /\ \A p \in Ports : Jobs(p) /\ Agree(p)

(* What InstallPort writes where the other copy and the dialog look.        *)
LEMMA InstallValues ==
  ASSUME NEW d \in Drivers, NEW w, w = InstallWrites(d)
  PROVE  /\ Len(w) = IF d = "SERIAL" THEN 6 ELSE 7
         /\ w[2][1] = "init" /\ w[2][2] = InitOf(d)
         /\ w[Len(w)][1] = "old" /\ w[Len(w)][2] = InitOf(d)
         /\ \A i \in 1 .. Len(w) : i # Len(w) => w[i][1] \in Keys
         /\ \A i \in 1 .. Len(w) : i # 2 => w[i][1] # "init"
<1>1. CASE d = "SERIAL"
  <2>1. /\ Len(w) = 6 /\ w[1][1] = "desc" /\ w[2][1] = "init" /\ w[2][2] = DefaultText
        /\ w[3][1] = "term" /\ w[4][1] = "driver" /\ w[5][1] = "time"
    BY <1>1, SerialWrites
  <2>2. w[6][1] = "old" /\ w[6][2] = DefaultText
    BY <1>1 DEF InstallWrites
  <2>3. \A i \in 1 .. 6 : i \in {1, 2, 3, 4, 5, 6}
    OBVIOUS
  <2> QED
    BY <1>1, <2>1, <2>2, <2>3 DEF InitOf, Keys
<1>2. CASE d = "COMI"
  <2>1. /\ Len(w) = 7 /\ w[1][1] = "desc" /\ w[2][1] = "init" /\ w[3][1] = "setup"
        /\ w[4][1] = "driver" /\ w[5][1] = "term" /\ w[6][1] = "time"
    BY <1>2, ComiWrites
  <2>2. w[2][2] = ComiSpooler /\ w[7][1] = "old" /\ w[7][2] = ComiSpooler
    BY <1>2 DEF InstallWrites
  <2>3. \A i \in 1 .. 7 : i \in {1, 2, 3, 4, 5, 6, 7}
    OBVIOUS
  <2> QED
    BY <1>2, <2>1, <2>2, <2>3 DEF InitOf, Keys
<1> QED
  BY <1>1, <1>2 DEF Drivers

(* What one write does to the copies.                                       *)
LEMMA Copied ==
  ASSUME Inv, CopyInv, NEW p \in Ports, NEW key, NEW value, NEW done \in BOOLEAN,
         Write(p, key, value, done)
  PROVE  /\ DOMAIN old' = Ports
         /\ \A q \in Ports \ {p} : old'[q] = old[q] /\ (q \notin mixed' => q \notin mixed)
         /\ p \notin mixed' => p \notin mixed /\ done /\ ~Overlap(p)
         /\ done /\ key = "old" => old'[p] = value /\ app'[p] = app[p]
         /\ done /\ key \in Keys => old'[p] = old[p] /\ app'[p] = [app[p] EXCEPT ![key] = value]
BY DEF Write, Inv, CopyInv, Keys

LEMMA OtherCopies ==
  ASSUME Inv, CopyInv, NEW p \in Ports, DOMAIN old' = Ports,
         \A q \in Ports \ {p} : /\ app'[q] = app[q] /\ old'[q] = old[q] /\ job'[q] = job[q]
                                /\ dlg'[q] = dlg[q] /\ (q \notin mixed' => q \notin mixed),
         Jobs(p)', Agree(p)'
  PROVE  CopyInv'
<1>1. ASSUME NEW q \in Ports \ {p} PROVE Jobs(q)' /\ Agree(q)'
  BY <1>1 DEF CopyInv, Jobs, Agree, Saving
<1> QED
  BY <1>1 DEF CopyInv

(* A step of a dialog that writes nothing, or nothing of the two copies.    *)
LEMMA CopiesLeft ==
  ASSUME Inv, CopyInv, NEW p \in Ports, UNCHANGED <<old, job>>,
         \A q \in Ports \ {p} : /\ app'[q] = app[q] /\ dlg'[q] = dlg[q]
                                /\ (q \notin mixed' => q \notin mixed),
         app'[p].init = app[p].init, p \notin mixed' => p \notin mixed,
         dlg[p].pc # "saveold", dlg'[p].pc # "saveold", ~Saving(p) \/ Saving(p)'
  PROVE  CopyInv'
<1>1. Jobs(p)' /\ Agree(p)'
  BY DEF CopyInv, Jobs, Agree
<1> QED
  BY <1>1, OtherCopies DEF CopyInv

LEMMA InstallCopies ==
  ASSUME Inv, CopyInv, NEW p \in Ports, InstallWrite(p)
  PROVE  CopyInv'
<1> DEFINE i == job[p].step
           d == job[p].d
<1>1. PICK w : w = InstallWrites(d)
  OBVIOUS
<1>2. PICK done \in BOOLEAN :
        /\ Write(p, w[i][1], w[i][2], done)
        /\ job' = [job EXCEPT ![p] = IF i = Len(w) \/ (~done /\ w[i][3]) THEN NoJob
                                     ELSE [@ EXCEPT !.step = i + 1]]
  BY <1>1 DEF InstallWrite
<1>3. job[p].kind = "install" /\ dlg' = dlg
  BY DEF InstallWrite
<1>4. /\ DOMAIN job[p] = {"kind", "d", "step"} /\ d \in Drivers
      /\ i \in 1 .. (IF d = "SERIAL" THEN 6 ELSE 7) /\ DOMAIN app[p] = Keys
  BY <1>3 DEF Inv, PortInv, Installing, Stored
<1>5. /\ Len(w) = IF d = "SERIAL" THEN 6 ELSE 7
      /\ w[2][1] = "init" /\ w[2][2] = InitOf(d)
      /\ w[Len(w)][1] = "old" /\ w[Len(w)][2] = InitOf(d)
      /\ \A k \in 1 .. Len(w) : k # Len(w) => w[k][1] \in Keys
      /\ \A k \in 1 .. Len(w) : k # 2 => w[k][1] # "init"
  <2>1. d \in Drivers /\ w = InstallWrites(d)
    BY <1>1, <1>4
  <2> HIDE DEF d
  <2> QED
    BY ONLY <2>1, InstallValues
<1>6. i \in 1 .. Len(w) /\ Len(w) \in {6, 7}
  BY <1>4, <1>5
<1>7. /\ DOMAIN old' = Ports
      /\ \A q \in Ports \ {p} : old'[q] = old[q] /\ (q \notin mixed' => q \notin mixed)
      /\ p \notin mixed' => p \notin mixed /\ done /\ ~Overlap(p)
      /\ done /\ w[i][1] = "old" => old'[p] = w[i][2] /\ app'[p] = app[p]
      /\ done /\ w[i][1] \in Keys => old'[p] = old[p] /\ app'[p] = [app[p] EXCEPT ![w[i][1]] = w[i][2]]
  BY <1>2, Copied
<1>8. \A q \in Ports \ {p} : app'[q] = app[q] /\ job'[q] = job[q] /\ dlg'[q] = dlg[q]
  <2>1. \A q \in Ports \ {p} : app'[q] = app[q]
    BY <1>2 DEF Write, Inv
  <2> QED
    BY <1>2, <1>3, <2>1 DEF Inv
<1>9. /\ job'[p] = NoJob \/ (job'[p] = [job[p] EXCEPT !.step = i + 1] /\ i # Len(w))
      /\ done /\ i # Len(w) => job'[p] # NoJob
      /\ i = Len(w) => job'[p] = NoJob
  <2>1. [job[p] EXCEPT !.step = i + 1].kind = "install"
    BY <1>3, <1>4
  <2> QED
    BY <1>2, <2>1 DEF Inv, NoJob
<1>10. Jobs(p)'
  <2>1. [job[p] EXCEPT !.step = i + 1].kind = "install"
    BY <1>3, <1>4
  <2> QED
    BY <1>9, <2>1 DEF Jobs
<1>11. Agree(p)'
  <2> SUFFICES ASSUME p \notin mixed'
               PROVE  /\ job'[p] = NoJob => dlg'[p].pc # "saveold" /\ app'[p].init = old'[p]
                      /\ job'[p].kind # "remove"
                      /\ job'[p].kind = "install" /\ job'[p].step > 2 => app'[p].init = InitOf(job'[p].d)
    BY DEF Agree
  <2>1. p \notin mixed /\ done /\ ~Saving(p)
    BY <1>3, <1>7 DEF Overlap, NoJob
  <2>2. i > 2 => app[p].init = InitOf(d)
    BY <1>3, <2>1 DEF CopyInv, Agree
  <2>3. CASE i = Len(w)
    BY <1>3, <1>5, <1>6, <1>7, <1>9, <2>1, <2>2, <2>3 DEF NoJob, Saving
  <2>4. CASE i # Len(w)
    <3>1. /\ app'[p] = [app[p] EXCEPT ![w[i][1]] = w[i][2]] /\ w[i][1] \in Keys
      BY <1>5, <1>6, <1>7, <2>1, <2>4
    <3>2. job'[p] = [job[p] EXCEPT !.step = i + 1] /\ job'[p] # NoJob
      BY <1>9, <2>1, <2>4
    <3>3. job'[p].kind = "install" /\ job'[p].step = i + 1 /\ job'[p].d = d
      BY <1>3, <1>4, <3>2
    <3>4. CASE i = 2
      BY <1>4, <1>5, <3>1, <3>2, <3>3, <3>4 DEF Keys
    <3>5. CASE i # 2
      <4>1. app'[p].init = app[p].init
        BY <1>4, <1>5, <1>6, <3>1, <3>5 DEF Keys
      <4> QED
        BY <1>6, <2>2, <3>2, <3>3, <3>5, <4>1
    <3> QED
      BY <3>4, <3>5
  <2> QED
    BY <2>3, <2>4
<1> QED
  BY <1>7, <1>8, <1>10, <1>11, OtherCopies

LEMMA RemoveCopies ==
  ASSUME Inv, CopyInv, NEW p \in Ports, RemoveWrite(p)
  PROVE  CopyInv'
<1>1. job[p].kind = "remove" /\ dlg' = dlg /\ job[p] # NoJob /\ job[p].step \in {1, 2}
      /\ DOMAIN job[p] = {"kind", "step"}
  BY DEF RemoveWrite, NoJob, CopyInv, Jobs
<1>2. CASE job[p].step = 1
  <2>1. /\ \/ app' = app /\ p \in mixed'
           \/ app' = [app EXCEPT ![p] = NoApp] /\ (p \notin mixed' => ~Overlap(p))
        /\ mixed' = mixed \/ mixed' = mixed \cup {p}
        /\ job' = [job EXCEPT ![p].step = 2] /\ old' = old
    <3>1. /\ job' = [job EXCEPT ![p].step = 2] /\ old' = old
          /\ \/ /\ app' = [app EXCEPT ![p] = NoApp]
                /\ mixed' = IF Overlap(p) THEN mixed \cup {p} ELSE mixed
             \/ app' = app /\ mixed' = mixed \cup {p}
      BY <1>2, Zenon DEF RemoveWrite
    <3> QED
      BY <3>1
  <2>2. job'[p].kind = "remove" /\ job'[p].step = 2 /\ job'[p] # NoJob /\ DOMAIN job'[p] = {"kind", "step"}
    BY <1>1, <2>1 DEF Inv, NoJob
  <2>3. \A q \in Ports \ {p} : app'[q] = app[q] /\ job'[q] = job[q]
    BY <2>1 DEF Inv
  <2>4. p \notin mixed' => app'[p] = NoApp
    BY <2>1 DEF Inv
  <2>5. Jobs(p)' /\ Agree(p)'
    BY <2>2, <2>4 DEF Jobs, Agree, NoApp
  <2> QED
    BY <1>1, <2>1, <2>3, <2>5, OtherCopies DEF CopyInv
<1>3. CASE job[p].step = 2
  <2>1. PICK done \in BOOLEAN : Write(p, "old", NoSettings, done)
    BY <1>3 DEF RemoveWrite
  <2>2. job' = [job EXCEPT ![p] = NoJob]
    BY <1>3 DEF RemoveWrite
  <2>3. /\ DOMAIN old' = Ports
        /\ \A q \in Ports \ {p} : old'[q] = old[q] /\ (q \notin mixed' => q \notin mixed)
        /\ p \notin mixed' => p \notin mixed /\ done /\ ~Overlap(p)
        /\ done => old'[p] = NoSettings /\ app'[p] = app[p]
    BY <2>1 DEF Write, Inv, CopyInv
  <2>4. \A q \in Ports \ {p} : app'[q] = app[q] /\ job'[q] = job[q]
    BY <2>1, <2>2 DEF Write, Inv
  <2>5. job'[p] = NoJob
    BY <2>2 DEF Inv
  <2>6. ASSUME p \notin mixed' PROVE app'[p].init = old'[p] /\ ~Saving(p)
    BY <1>1, <1>3, <2>3, <2>6 DEF CopyInv, Agree, Overlap
  <2>7. Jobs(p)' /\ Agree(p)'
    BY <1>1, <2>5, <2>6 DEF Jobs, Agree, Saving, NoJob
  <2> QED
    BY <1>1, <2>3, <2>4, <2>7, OtherCopies
<1> QED
  BY <1>1, <1>2, <1>3

LEMMA SaveCopies ==
  ASSUME Inv, CopyInv, NEW p \in Ports, SavePortSettings(p)
  PROVE  CopyInv'
<1>1. PICK text : text = GetDialogValues(dlg[p].shown)
  OBVIOUS
<1>2. job' = job /\ Saving(p) /\ Stored(p)
      /\ DOMAIN dlg[p] = {"pc", "list", "shown", "secs", "org", "orgSecs"}
  BY DEF SavePortSettings, SaveStep, Saving, Inv, PortInv, Showing, Editing
<1>3. ASSUME NEW from, NEW key, NEW value, NEW next, SaveStep(p, from, key, value, next),
             key \in Keys \cup {"old"},
             p \notin mixed /\ job[p] = NoJob /\ old'[p] = (IF key = "old" THEN value ELSE old[p])
               /\ app'[p] = (IF key = "old" THEN app[p] ELSE [app[p] EXCEPT ![key] = value])
               /\ (IF next = "end" THEN dlg'[p] = Closed ELSE dlg'[p] = [dlg[p] EXCEPT !.pc = next])
             => Agree(p)'
      PROVE  CopyInv'
  <2>1. PICK done \in BOOLEAN :
          /\ Write(p, key, value, done)
          /\ IF ~done THEN dlg' = [dlg EXCEPT ![p].pc = "open"]
             ELSE IF next = "end" THEN dlg' = [dlg EXCEPT ![p] = Closed]
             ELSE dlg' = [dlg EXCEPT ![p].pc = next]
    BY <1>3 DEF SaveStep, Dismiss
  <2>2. /\ DOMAIN old' = Ports
        /\ \A q \in Ports \ {p} : old'[q] = old[q] /\ (q \notin mixed' => q \notin mixed)
        /\ p \notin mixed' => p \notin mixed /\ done /\ ~Overlap(p)
        /\ done /\ key = "old" => old'[p] = value /\ app'[p] = app[p]
        /\ done /\ key \in Keys => old'[p] = old[p] /\ app'[p] = [app[p] EXCEPT ![key] = value]
    <3>1. Write(p, key, value, done)
      BY <2>1
    <3> QED
      BY <3>1, Copied
  <2>3. \A q \in Ports \ {p} : app'[q] = app[q] /\ dlg'[q] = dlg[q]
    <3>1. Write(p, key, value, done)
      BY <2>1
    <3>2. \A q \in Ports \ {p} : app'[q] = app[q]
      BY <3>1 DEF Write, Inv
    <3> QED
      BY <2>1, <3>2 DEF Inv
  <2>4. "old" \notin Keys
    BY DEF Keys
  <2>5. Agree(p)'
    <3>1. CASE p \in mixed'
      BY <3>1 DEF Agree
    <3>2. CASE p \notin mixed'
      <4>1. done /\ p \notin mixed /\ job[p] = NoJob
        BY <1>2, <2>2, <3>2 DEF Overlap
      <4>2. IF next = "end" THEN dlg'[p] = Closed ELSE dlg'[p] = [dlg[p] EXCEPT !.pc = next]
        BY <2>1, <4>1 DEF Inv
      <4> QED
        BY <1>3, <2>2, <2>4, <4>1, <4>2
    <3> QED
      BY <3>1, <3>2
  <2>6. Jobs(p)'
    BY <1>2 DEF CopyInv, Jobs
  <2> QED
    BY <1>2, <2>2, <2>3, <2>5, <2>6, OtherCopies
<1>4. CASE SaveStep(p, "saveinit", "init", text, "saveold")
  <2>1. ASSUME job[p] = NoJob, app'[p] = [app[p] EXCEPT !.init = text],
               dlg'[p] = [dlg[p] EXCEPT !.pc = "saveold"]
        PROVE  Agree(p)'
    BY <1>1, <1>2, <2>1 DEF Agree, Stored, Keys, NoJob
  <2> QED
    BY <1>3, <1>4, <2>1 DEF Keys
<1>5. ASSUME NEW next \in {"savetime", "end"}, SaveStep(p, "saveold", "old", text, next)
      PROVE  CopyInv'
  <2>1. ASSUME p \notin mixed, job[p] = NoJob, app'[p] = app[p], old'[p] = text,
               IF next = "end" THEN dlg'[p] = Closed ELSE dlg'[p] = [dlg[p] EXCEPT !.pc = next]
        PROVE  Agree(p)'
    <3>1. dlg[p].pc = "saveold"
      BY <1>5 DEF SaveStep
    <3>2. dlg'[p].pc # "saveold"
      BY <1>2, <2>1 DEF Closed
    <3> QED
      BY <1>1, <1>2, <2>1, <3>1, <3>2 DEF Agree, CopyInv, NoJob
  <2> QED
    BY <1>3, <1>5, <2>1
<1>6. CASE SaveStep(p, "savetime", "time", dlg[p].secs, "end")
  <2>1. ASSUME p \notin mixed, job[p] = NoJob, app'[p] = [app[p] EXCEPT !.time = dlg[p].secs],
               old'[p] = old[p], dlg'[p] = Closed
        PROVE  Agree(p)'
    <3>1. dlg[p].pc = "savetime"
      BY <1>6 DEF SaveStep
    <3> QED
      BY <1>2, <2>1, <3>1 DEF Agree, CopyInv, NoJob, Stored, Keys, Closed
  <2> QED
    BY <1>3, <1>6, <2>1 DEF Keys
<1> QED
  BY <1>1, <1>4, <1>5, <1>6 DEF SavePortSettings

(* The other steps of SERIAL's dialog write nothing.                        *)
LEMMA DialogCopies ==
  ASSUME Inv, CopyInv, NEW p \in Ports,
         SplPdSetPort(p) \/ Edit(p) \/ Reset(p) \/ Default(p) \/ Cancel(p) \/ OK(p) \/ Help(p)
  PROVE  CopyInv'
<1>1. UNCHANGED <<app, old, job, mixed>> /\ dlg[p].pc \in {"closed", "open"}
  BY DEF SplPdSetPort, Edit, Reset, Default, Cancel, OK, Help, Closed
<1>2. dlg[p].pc = "open" => DOMAIN dlg[p] = {"pc", "list", "shown", "secs", "org", "orgSecs"}
  BY DEF Inv, PortInv, Showing, Editing
<1>3. ASSUME NEW x, dlg' = dlg \/ (dlg' = [dlg EXCEPT ![p] = x] /\ x.pc # "saveold")
      PROVE  CopyInv'
  <2>1. /\ \A q \in Ports \ {p} : dlg'[q] = dlg[q]
        /\ dlg'[p].pc # "saveold" /\ dlg[p].pc # "saveold" /\ ~Saving(p)
    BY <1>1, <1>3 DEF Inv, Saving
  <2> QED
    BY <1>1, <2>1, CopiesLeft
<1>4. ASSUME NEW shown, NEW secs, dlg[p].pc = "open",
             dlg' = [dlg EXCEPT ![p].shown = shown, ![p].secs = secs]
      PROVE  CopyInv'
  <2>1. PICK x : x = [dlg[p] EXCEPT !.shown = shown, !.secs = secs]
    OBVIOUS
  <2>2. dlg' = [dlg EXCEPT ![p] = x]
    BY <1>4, <2>1 DEF Inv
  <2>3. x.pc = "open"
    BY <1>2, <1>4, <2>1
  <2> QED
    BY <1>3, <2>2, <2>3
<1>5. CASE SplPdSetPort(p)
  <2>1. PICK list \in BaudLists : \E was \in list : dlg' = [dlg EXCEPT ![p] = Opened(p, list, was)]
    BY <1>5 DEF SplPdSetPort
  <2>2. PICK was \in list : dlg' = [dlg EXCEPT ![p] = Opened(p, list, was)]
    BY <2>1
  <2>3. Opened(p, list, was).pc = "open"
    BY DEF Opened
  <2> QED
    BY <1>3, <2>2, <2>3
<1>6. CASE Edit(p)
  BY <1>4, <1>6 DEF Edit
<1>7. CASE Reset(p)
  BY <1>4, <1>7 DEF Reset
<1>8. CASE Default(p)
  BY <1>4, <1>8 DEF Default
<1>c. ASSUME dlg' = [dlg EXCEPT ![p] = Closed] PROVE CopyInv'
  <2>1. Closed.pc # "saveold"
    BY DEF Closed
  <2> QED
    BY <1>3, <1>c, <2>1
<1>9. CASE Cancel(p)
  BY <1>c, <1>9 DEF Cancel, Dismiss
<1>10. CASE OK(p)
  <2>1. CASE dlg' = [dlg EXCEPT ![p] = Closed]
    BY <1>c, <2>1
  <2>2. ASSUME NEW pc \in {"saveinit", "savetime"}, dlg' = [dlg EXCEPT ![p].pc = pc] PROVE CopyInv'
    <3>1. PICK x : x = [dlg[p] EXCEPT !.pc = pc]
      OBVIOUS
    <3>2. dlg' = [dlg EXCEPT ![p] = x]
      BY <2>2, <3>1 DEF Inv
    <3>3. x.pc = pc
      BY <1>2, <1>10, <3>1 DEF OK
    <3> QED
      BY <1>3, <3>2, <3>3
  <2> QED
    BY <1>10, <2>1, <2>2 DEF OK, Dismiss
<1>11. CASE Help(p)
  BY <1>3, <1>11 DEF Help
<1> QED
  BY <1>5, <1>6, <1>7, <1>8, <1>9, <1>10, <1>11

(* The dialog of the configuration library writes another key.              *)
LEMMA SetupCopies ==
  ASSUME Inv, CopyInv, NEW p \in Ports, SPLPDSETPORT(p) \/ SpoolerSetupDialogEnds(p)
  PROVE  CopyInv'
<1>1. CASE SPLPDSETPORT(p)
  <2>1. /\ UNCHANGED <<app, old, job, mixed>> /\ dlg[p].pc = "closed"
        /\ dlg' = [dlg EXCEPT ![p] = [pc |-> "setup", s |-> app[p].setup]]
    BY <1>1 DEF SPLPDSETPORT, Closed
  <2>2. /\ \A q \in Ports \ {p} : dlg'[q] = dlg[q]
        /\ dlg'[p].pc = "setup" /\ ~Saving(p)
    BY <2>1 DEF Inv, Saving
  <2> QED
    BY <2>1, <2>2, CopiesLeft
<1>2. CASE SpoolerSetupDialogEnds(p)
  <2>1. /\ UNCHANGED job /\ dlg[p].pc = "setup" /\ dlg' = [dlg EXCEPT ![p] = Closed]
    BY <1>2 DEF SpoolerSetupDialogEnds
  <2>2. /\ \A q \in Ports \ {p} : dlg'[q] = dlg[q]
        /\ dlg'[p].pc = "closed" /\ ~Saving(p)
    BY <2>1 DEF Inv, Saving, Closed
  <2>3. CASE UNCHANGED <<app, old, mixed>>
    BY <2>1, <2>2, <2>3, CopiesLeft
  <2>4. ASSUME NEW new, NEW done \in BOOLEAN, Write(p, "setup", new, done)
        PROVE  CopyInv'
    <3>1. /\ old' = old /\ (\A q \in Ports \ {p} : app'[q] = app[q])
          /\ \A q \in Ports : q \notin mixed' => q \notin mixed
          /\ app' = app \/ app'[p] = [app[p] EXCEPT !.setup = new]
      BY <2>4 DEF Write, Inv
    <3>2. app'[p].init = app[p].init
      BY <3>1 DEF Inv, PortInv, Stored, Keys
    <3> QED
      BY <2>1, <2>2, <3>1, <3>2, CopiesLeft
  <2> QED
    BY <1>2, <2>3, <2>4 DEF SpoolerSetupDialogEnds
<1> QED
  BY <1>1, <1>2

(* An installation starts the history of its port anew.                     *)
LEMMA JobCopies ==
  ASSUME Inv, CopyInv, NEW p \in Ports, NEW d \in Drivers, SplPdInstallPort(p, d) \/ SplPdRemovePort(p, d)
  PROVE  CopyInv'
<1>1. /\ UNCHANGED <<app, old, dlg>>
      /\ \A q \in Ports \ {p} : q \notin mixed' => q \notin mixed
  BY DEF SplPdInstallPort, SplPdRemovePort
<1>2. \/ job' = [job EXCEPT ![p] = [kind |-> "install", d |-> d, step |-> 1]]
      \/ job' = [job EXCEPT ![p] = [kind |-> "remove", step |-> 1]]
  BY DEF SplPdInstallPort, SplPdRemovePort
<1>3. \A q \in Ports \ {p} : job'[q] = job[q]
  BY <1>2 DEF Inv
<1>4. \/ job'[p] = [kind |-> "install", d |-> d, step |-> 1]
      \/ job'[p] = [kind |-> "remove", step |-> 1]
  BY <1>2 DEF Inv
<1>5. Jobs(p)' /\ Agree(p)'
  BY <1>4 DEF Jobs, Agree, NoJob
<1> QED
  BY <1>1, <1>3, <1>5, OtherCopies DEF CopyInv

LEMMA NextCopies == Inv /\ CopyInv /\ [Next]_vars => CopyInv'
<1> SUFFICES ASSUME Inv, CopyInv, [Next]_vars PROVE CopyInv'
  OBVIOUS
<1>1. ASSUME UNCHANGED <<app, old, job, dlg, mixed>> PROVE CopyInv'
  BY <1>1 DEF CopyInv, Jobs, Agree, Saving
<1>2. CASE UNCHANGED vars
  BY <1>1, <1>2 DEF vars
<1>3. CASE \E p \in Ports : SplPdInitPort(p) \/ SPLPDINITPORT(p)
  BY <1>1, <1>3 DEF SplPdInitPort, SPLPDINITPORT
<1>4. CASE SplPdEnumPort \/ EnumAgain
  BY <1>1, <1>4 DEF SplPdEnumPort, EnumAgain
<1>5. ASSUME NEW p \in Ports, NEW d \in Drivers, SplPdInstallPort(p, d) \/ SplPdRemovePort(p, d)
      PROVE  CopyInv'
  BY <1>5, JobCopies
<1>6. ASSUME NEW p \in Ports,
             \/ InstallWrite(p) \/ RemoveWrite(p)
             \/ SplPdSetPort(p) \/ Edit(p) \/ Reset(p) \/ Default(p) \/ Cancel(p) \/ OK(p)
             \/ SavePortSettings(p) \/ Help(p)
             \/ SPLPDSETPORT(p) \/ SpoolerSetupDialogEnds(p)
      PROVE  CopyInv'
  BY <1>6, InstallCopies, RemoveCopies, DialogCopies, SaveCopies, SetupCopies
<1> QED
  BY <1>2, <1>3, <1>4, <1>5, <1>6 DEF Next

LEMMA InitCopies == Init => CopyInv
<1> SUFFICES ASSUME Init, NEW p \in Ports PROVE Jobs(p) /\ Agree(p)
  BY DEF Init, CopyInv
<1>1. job[p] = NoJob /\ dlg[p] = Closed /\ app[p] = NoApp /\ old[p] = NoSettings
  BY DEF Init
<1> QED
  BY <1>1 DEF Jobs, Agree, NoJob, Closed, NoApp, Saving

-----------------------------------------------------------------------------
LEMMA InitInv == Init => Inv
<1> SUFFICES ASSUME Init PROVE Inv
  OBVIOUS
<1>1. DOMAIN app = Ports /\ DOMAIN job = Ports /\ DOMAIN dlg = Ports
  BY DEF Init
<1>2. ASSUME NEW p \in Ports PROVE PortInv(p)
  <2>1. app[p] = NoApp /\ job[p] = NoJob /\ dlg[p] = Closed
    BY DEF Init
  <2>2. QED
    BY <2>1 DEF PortInv, Stored, Readable, Installing, Showing, Owns, NoApp, NoJob, Closed, Absent, Keys, Editing
<1>3. QED
  BY <1>1, <1>2 DEF Inv

LEMMA NextInv == Inv /\ [Next]_vars => Inv'
<1> SUFFICES ASSUME Inv, [Next]_vars PROVE Inv'
  OBVIOUS
<1>1. ASSUME UNCHANGED <<app, job, dlg, taken>> PROVE Inv'
  BY <1>1 DEF Inv, PortInv, Stored, Readable, Owns, Installing, Showing
<1>2. CASE UNCHANGED vars
  BY <1>1, <1>2 DEF vars
<1>3. CASE \E p \in Ports : SplPdInitPort(p) \/ SPLPDINITPORT(p)
  BY <1>1, <1>3 DEF SplPdInitPort, SPLPDINITPORT
<1>4. CASE SplPdEnumPort \/ EnumAgain
  BY <1>1, <1>4 DEF SplPdEnumPort, EnumAgain
<1>5. ASSUME NEW p \in Ports, NEW d \in Drivers, SplPdInstallPort(p, d) \/ SplPdRemovePort(p, d)
      PROVE  Inv'
  BY <1>5, JobInv
<1>6. ASSUME NEW p \in Ports,
             \/ InstallWrite(p) \/ RemoveWrite(p)
             \/ SplPdSetPort(p) \/ Edit(p) \/ Reset(p) \/ Default(p) \/ Cancel(p) \/ OK(p)
             \/ SavePortSettings(p) \/ Help(p)
             \/ SPLPDSETPORT(p) \/ SpoolerSetupDialogEnds(p)
      PROVE  Inv'
  BY <1>6, InstallWriteInv, RemoveWriteInv, DialogInv, SavePortSettingsInv, SetupInv
<1>7. QED
  BY <1>2, <1>3, <1>4, <1>5, <1>6 DEF Next

(* A port that a driver takes for its own has settings that driver can      *)
(* read: InstallPort, RemovePort, the two dialogs and any failure among     *)
(* their writes (SPOOLER/spooler.c, SPOOLER/IBM/serial.c).                  *)
THEOREM OwnedCorrect == Spec => []OwnedIsReadable
<1>1. Inv => OwnedIsReadable
  BY DEF Inv, PortInv, Readable, OwnedIsReadable
<1>2. QED
  BY <1>1, InitInv, NextInv, PTL DEF Spec

(* The two places that hold a port's initialization string agree whenever   *)
(* nothing is writing it, unless a write failed or a dialog and an          *)
(* installation wrote at once: InstallPort, RemovePort, SavePortSettings    *)
(* (SPOOLER/IBM/serial.c, SPOOLER/spooler.c).                               *)
THEOREM CopiesCorrect == Spec => []CopiesAgree
<1>1. CopyInv => CopiesAgree
  BY DEF CopyInv, Agree, Saving, CopiesAgree
<1> QED
  BY <1>1, InitInv, NextInv, InitCopies, NextCopies, PTL DEF Spec
-----------------------------------------------------------------------------
(* The help hook.  hook and fStubHooked go together, and the stub is not    *)
(* hooked while help manager is up.  A dialog that opens while another of   *)
(* the process has help up would hook the stub and the end of either would  *)
(* lose it, so the invariant needs the dialogs of the process to follow one *)
(* another.                                                                 *)
OneDialog == \A p, q \in Ports : dlg[p].pc \in Editing /\ dlg[q].pc \in Editing => p = q

NoneUp == \A p \in Ports : dlg[p].pc \notin Editing

Hooks == [hook : BOOLEAN, flag : BOOLEAN, up : BOOLEAN]
Sound(h) == h \in Hooks /\ (h.hook <=> h.flag) /\ (h.up => ~h.flag)
HookInv == Sound(help) /\ (NoneUp => ~help.hook /\ ~help.up)

LEMMA HelpSound ==
  ASSUME NEW h, Sound(h), NEW works \in BOOLEAN
  PROVE  /\ Sound(InitializeHelp(h, works))
         /\ ~h.up => Sound(SetHelpStubHook(h))
         /\ Sound(Destroyed(h)) /\ ~Destroyed(h).hook /\ ~Destroyed(h).up
<1>1. PICK a \in BOOLEAN, b \in BOOLEAN, c \in BOOLEAN : h = [hook |-> a, flag |-> b, up |-> c]
  BY DEF Sound, Hooks
<1>2. (a <=> b) /\ (c => ~b)
  BY <1>1 DEF Sound
<1>3. CASE h = [hook |-> FALSE, flag |-> FALSE, up |-> FALSE]
  BY <1>3 DEF InitializeHelp, SetHelpStubHook, ReleaseHelpStubHook, Destroyed, Sound, Hooks
<1>4. CASE h = [hook |-> TRUE, flag |-> TRUE, up |-> FALSE]
  BY <1>4 DEF InitializeHelp, SetHelpStubHook, ReleaseHelpStubHook, Destroyed, Sound, Hooks
<1>5. CASE h = [hook |-> FALSE, flag |-> FALSE, up |-> TRUE]
  BY <1>5 DEF InitializeHelp, SetHelpStubHook, ReleaseHelpStubHook, Destroyed, Sound, Hooks
<1> QED
  BY <1>1, <1>2, <1>3, <1>4, <1>5

(* Steps that leave the hook alone, and the end of a dialog.                *)
LEMMA HookLeft ==
  ASSUME HookInv, help' = help, NoneUp' => NoneUp
  PROVE  HookInv'
BY DEF HookInv

LEMMA HookFreed ==
  ASSUME HookInv, help' = Destroyed(help)
  PROVE  HookInv'
BY HelpSound DEF HookInv

LEMMA DialogHook ==
  ASSUME Inv, HookInv, OneDialog', NEW p \in Ports,
         SplPdSetPort(p) \/ Edit(p) \/ Reset(p) \/ Default(p) \/ Cancel(p) \/ OK(p) \/ Help(p)
  PROVE  HookInv'
<1>1. dlg[p].pc \in Editing => DOMAIN dlg[p] = {"pc", "list", "shown", "secs", "org", "orgSecs"}
  BY DEF Inv, PortInv, Showing
<1>2. CASE SplPdSetPort(p)
  <2>1. PICK list \in BaudLists : \E was \in list : dlg' = [dlg EXCEPT ![p] = Opened(p, list, was)]
    BY <1>2 DEF SplPdSetPort
  <2>2. PICK was \in list : dlg' = [dlg EXCEPT ![p] = Opened(p, list, was)]
    BY <2>1
  <2>3. dlg'[p].pc = "open"
    BY <2>2 DEF Inv, Opened
  <2>4. \A q \in Ports \ {p} : dlg'[q] = dlg[q]
    BY <2>2 DEF Inv
  <2>5. NoneUp
    BY <1>2, <2>3, <2>4 DEF NoneUp, OneDialog, Editing, SplPdSetPort, Closed
  <2>6. ~NoneUp'
    BY <2>3 DEF NoneUp, Editing
  <2>7. help' = SetHelpStubHook(help) /\ Sound(help) /\ ~help.up
    BY <1>2, <2>5 DEF SplPdSetPort, HookInv
  <2>8. Sound(help')
    BY <2>7, HelpSound
  <2> QED
    BY <2>6, <2>8 DEF HookInv
<1>3. ASSUME help' = help, dlg[p].pc = "open", dlg'[p].pc \in Editing PROVE HookInv'
  BY <1>3, HookLeft DEF NoneUp
<1>4. ASSUME NEW shown, NEW secs, help' = help, dlg[p].pc = "open",
             dlg' = [dlg EXCEPT ![p].shown = shown, ![p].secs = secs]
      PROVE  HookInv'
  <2>1. dlg'[p] = [dlg[p] EXCEPT !.shown = shown, !.secs = secs]
    BY <1>4 DEF Inv
  <2>2. dlg'[p].pc \in Editing
    BY <1>1, <1>4, <2>1 DEF Editing
  <2> QED
    BY <1>3, <1>4, <2>2
<1>5. CASE Edit(p)
  BY <1>4, <1>5 DEF Edit
<1>6. CASE Reset(p)
  BY <1>4, <1>6 DEF Reset
<1>7. CASE Default(p)
  BY <1>4, <1>7 DEF Default
<1>8. CASE Cancel(p)
  BY <1>8, HookFreed DEF Cancel, Dismiss
<1>9. CASE OK(p)
  <2>1. CASE help' = Destroyed(help)
    BY <2>1, HookFreed
  <2>2. ASSUME NEW pc \in Editing, dlg' = [dlg EXCEPT ![p].pc = pc], help' = help PROVE HookInv'
    <3>1. dlg'[p] = [dlg[p] EXCEPT !.pc = pc] /\ dlg[p].pc = "open"
      BY <1>9, <2>2 DEF OK, Inv
    <3>2. dlg'[p].pc \in Editing
      BY <1>1, <3>1 DEF Editing
    <3> QED
      BY <1>3, <2>2, <3>1, <3>2
  <2> QED
    BY <1>9, <2>1, <2>2 DEF OK, Dismiss, Editing
<1>10. CASE Help(p)
  <2>1. PICK works \in BOOLEAN : help' = InitializeHelp(help, works)
    BY <1>10 DEF Help
  <2>2. Sound(help')
    BY <2>1, HelpSound DEF HookInv
  <2>3. ~NoneUp'
    BY <1>10 DEF Help, NoneUp, Editing
  <2> QED
    BY <2>2, <2>3 DEF HookInv
<1> QED
  BY <1>2, <1>5, <1>6, <1>7, <1>8, <1>9, <1>10

LEMMA SaveHook ==
  ASSUME Inv, HookInv, NEW p \in Ports, SavePortSettings(p)
  PROVE  HookInv'
<1>1. DOMAIN dlg[p] = {"pc", "list", "shown", "secs", "org", "orgSecs"} /\ dlg[p].pc \in Editing
  BY DEF Inv, PortInv, Showing, SavePortSettings, SaveStep, Editing
<1>2. \/ help' = Destroyed(help)
      \/ \E pc \in Editing : help' = help /\ dlg' = [dlg EXCEPT ![p].pc = pc]
  BY DEF SavePortSettings, SaveStep, Dismiss, Editing
<1>3. ASSUME NEW pc \in Editing, help' = help, dlg' = [dlg EXCEPT ![p].pc = pc] PROVE HookInv'
  <2>1. dlg'[p] = [dlg[p] EXCEPT !.pc = pc]
    BY <1>3 DEF Inv
  <2>2. dlg'[p].pc \in Editing
    BY <1>1, <2>1
  <2> QED
    BY <1>1, <1>3, <2>2, HookLeft DEF NoneUp
<1> QED
  BY <1>2, <1>3, HookFreed

LEMMA NextHook == Inv /\ HookInv /\ OneDialog' /\ [Next]_vars => HookInv'
<1> SUFFICES ASSUME Inv, HookInv, OneDialog', [Next]_vars PROVE HookInv'
  OBVIOUS
<1>1. ASSUME UNCHANGED <<dlg, help>> PROVE HookInv'
  BY <1>1 DEF HookInv, NoneUp
<1>2. CASE UNCHANGED vars
  BY <1>1, <1>2 DEF vars
<1>3. CASE \E p \in Ports : SplPdInitPort(p) \/ SPLPDINITPORT(p)
  BY <1>1, <1>3 DEF SplPdInitPort, SPLPDINITPORT
<1>4. CASE SplPdEnumPort \/ EnumAgain
  BY <1>1, <1>4 DEF SplPdEnumPort, EnumAgain
<1>5. ASSUME NEW p \in Ports, NEW d \in Drivers, SplPdInstallPort(p, d) \/ SplPdRemovePort(p, d)
      PROVE  HookInv'
  BY <1>1, <1>5 DEF SplPdInstallPort, SplPdRemovePort
<1>6. ASSUME NEW p \in Ports, InstallWrite(p) \/ RemoveWrite(p) PROVE HookInv'
  BY <1>1, <1>6 DEF InstallWrite, RemoveWrite
<1>7. ASSUME NEW p \in Ports, SPLPDSETPORT(p) \/ SpoolerSetupDialogEnds(p) PROVE HookInv'
  <2>1. help' = help /\ dlg[p].pc \in {"closed", "setup"}
        /\ \A q \in Ports \ {p} : dlg'[q] = dlg[q]
    BY <1>7 DEF SPLPDSETPORT, SpoolerSetupDialogEnds, Closed, Inv
  <2>2. NoneUp' => NoneUp
    BY <2>1 DEF NoneUp, Editing
  <2> QED
    BY <2>1, <2>2, HookLeft
<1>8. ASSUME NEW p \in Ports,
             \/ SplPdSetPort(p) \/ Edit(p) \/ Reset(p) \/ Default(p) \/ Cancel(p) \/ OK(p)
             \/ SavePortSettings(p) \/ Help(p)
      PROVE  HookInv'
  BY <1>8, DialogHook, SaveHook
<1> QED
  BY <1>2, <1>3, <1>4, <1>5, <1>6, <1>7, <1>8 DEF Next

(* While the dialogs of a process come one after another, the end of the    *)
(* last leaves no hook into the module that SetPort frees (SetHelpStubHook, *)
(* ReleaseHelpStubHook, InitializeHelp and WM_DESTROY of CommDlg).          *)
THEOREM HookFreedAtEnd == Spec /\ []OneDialog => []HookGone
<1>1. Init => HookInv
  <2> SUFFICES ASSUME Init PROVE HookInv
    OBVIOUS
  <2>1. help = [hook |-> FALSE, flag |-> FALSE, up |-> FALSE]
    BY DEF Init
  <2> QED
    BY <2>1 DEF HookInv, Sound, Hooks
<1>2. HookInv => HookGone
  BY DEF HookInv, HookGone, NoneUp, Editing
<1> QED
  BY <1>1, <1>2, InitInv, NextInv, NextHook, PTL DEF Spec
-----------------------------------------------------------------------------
(* What InitPort programs is what the dialog shows.  The parts of the state *)
(* this rests on: a stored time-out is one the spin button can show, so its *)
(* hundredths fit a USHORT, and a stored setup has its keys and no others.  *)
Second == 0 .. TIMEOUT_UPPER_LIMIT
IsFcn(s) == s = [k \in DOMAIN s |-> s[k]]

Kept(p) == app[p].time \in Second \cup {NoTime} /\ IsFcn(app[p].setup)
Shown(p) == /\ dlg[p].pc \in Editing => dlg[p].secs \in Second /\ dlg[p].orgSecs \in Second
            /\ dlg[p].pc = "setup" => IsFcn(dlg[p].s)
ShownInv == fails \in Nat /\ \A p \in Ports : Kept(p) /\ Shown(p)

LEMMA Seconds == DEF_TIMEOUT \in Second /\ Times \subseteq Second /\ 0 \in Second
BY TimesAssumption DEF DEF_TIMEOUT, Second, TIMEOUT_UPPER_LIMIT

LEMMA WroteKept ==
  ASSUME Inv, ShownInv, NEW p \in Ports, NEW key \in Keys \cup {"old"}, NEW value, NEW done \in BOOLEAN,
         Write(p, key, value, done), key = "time" => value \in Second, key = "setup" => IsFcn(value)
  PROVE  fails' \in Nat /\ \A q \in Ports : Kept(q)'
<1>1. /\ fails' = fails \/ fails' = fails + 1
      /\ \A q \in Ports \ {p} : app'[q] = app[q]
      /\ app'[p] = app[p] \/ (key \in Keys /\ app'[p] = [app[p] EXCEPT ![key] = value])
  BY DEF Write, Inv, Keys
<1>2. fails' \in Nat
  BY <1>1 DEF ShownInv
<1>3. \A q \in Ports \ {p} : Kept(q)'
  BY <1>1 DEF ShownInv, Kept
<1>4. Kept(p)'
  <2>1. DOMAIN app[p] = Keys /\ Kept(p)
    BY DEF Inv, PortInv, Stored, ShownInv
  <2>2. CASE app'[p] = app[p]
    BY <2>1, <2>2 DEF Kept
  <2>3. CASE key \in Keys /\ app'[p] = [app[p] EXCEPT ![key] = value]
    <3>1. app'[p].time = IF key = "time" THEN value ELSE app[p].time
      BY <2>1, <2>3 DEF Keys
    <3>2. app'[p].setup = IF key = "setup" THEN value ELSE app[p].setup
      BY <2>1, <2>3 DEF Keys
    <3> QED
      BY <2>1, <3>1, <3>2 DEF Kept
  <2> QED
    BY <1>1, <2>2, <2>3
<1> QED
  BY <1>2, <1>3, <1>4

(* What an installation writes.                                             *)
LEMMA InstallKept ==
  ASSUME NEW d \in Drivers, NEW w, w = InstallWrites(d), NEW i \in 1 .. Len(w)
  PROVE  /\ w[i][1] \in Keys \cup {"old"}
         /\ w[i][1] = "time" => w[i][2] \in Second
         /\ w[i][1] = "setup" => IsFcn(w[i][2])
<1>1. IsFcn(DefaultSetup)
  BY DEF IsFcn, DefaultSetup
<1>2. CASE d = "SERIAL"
  <2>1. /\ Len(w) = 6 /\ w[1][1] = "desc" /\ w[2][1] = "init" /\ w[3][1] = "term"
        /\ w[4][1] = "driver" /\ w[5][1] = "time" /\ w[6][1] = "old"
    BY <1>2, SerialWrites
  <2>2. w[5][2] = DEF_TIMEOUT
    BY <1>2 DEF InstallWrites
  <2>3. i \in {1, 2, 3, 4, 5, 6}
    BY <2>1
  <2> QED
    BY <2>1, <2>2, <2>3, Seconds DEF Keys
<1>3. CASE d = "COMI"
  <2>1. /\ Len(w) = 7 /\ w[1][1] = "desc" /\ w[2][1] = "init" /\ w[3][1] = "setup" /\ w[3][2] = DefaultSetup
        /\ w[4][1] = "driver" /\ w[5][1] = "term" /\ w[6][1] = "time" /\ w[7][1] = "old"
    BY <1>3, ComiWrites
  <2>2. w[6][2] = DEF_TIMEOUT
    BY <1>3 DEF InstallWrites
  <2>3. i \in {1, 2, 3, 4, 5, 6, 7}
    BY <2>1
  <2> QED
    BY <1>1, <2>1, <2>2, <2>3, Seconds DEF Keys
<1> QED
  BY <1>2, <1>3 DEF Drivers

LEMMA InstallShown ==
  ASSUME Inv, ShownInv, NEW p \in Ports, InstallWrite(p)
  PROVE  ShownInv'
<1>1. PICK w : w = InstallWrites(job[p].d)
  OBVIOUS
<1>2. PICK i : i = job[p].step
  OBVIOUS
<1>3. /\ job[p].kind = "install" /\ dlg' = dlg
      /\ \E done \in BOOLEAN : Write(p, w[i][1], w[i][2], done)
  BY <1>1, <1>2 DEF InstallWrite
<1>4. PICK done \in BOOLEAN : Write(p, w[i][1], w[i][2], done)
  BY <1>3
<1>5. job[p].d \in Drivers /\ i \in 1 .. (IF job[p].d = "SERIAL" THEN 6 ELSE 7)
  BY <1>2, <1>3 DEF Inv, PortInv, Installing
<1>6. i \in 1 .. Len(w)
  BY <1>1, <1>5, SerialWrites, ComiWrites DEF Drivers
<1>7. PICK key, value : key = w[i][1] /\ value = w[i][2]
  OBVIOUS
<1>8. /\ key \in Keys \cup {"old"} /\ (key = "time" => value \in Second) /\ (key = "setup" => IsFcn(value))
  BY <1>1, <1>5, <1>6, <1>7, InstallKept
<1>9. Write(p, key, value, done)
  BY <1>4, <1>7
<1>10. fails' \in Nat /\ \A q \in Ports : Kept(q)'
  BY <1>8, <1>9, WroteKept
<1> QED
  BY <1>3, <1>10 DEF ShownInv, Shown

LEMMA RemoveShown ==
  ASSUME Inv, ShownInv, NEW p \in Ports, RemoveWrite(p)
  PROVE  ShownInv'
<1>1. dlg' = dlg
  BY DEF RemoveWrite
<1>2. /\ fails' = fails \/ fails' = fails + 1
      /\ app' = app \/ app' = [app EXCEPT ![p] = NoApp]
  BY DEF RemoveWrite, Write
<1>3. \A q \in Ports : app'[q] = app[q] \/ app'[q] = NoApp
  BY <1>2 DEF Inv
<1>4. NoApp.time = NoTime /\ IsFcn(NoApp.setup)
  BY DEF NoApp, IsFcn, NoSettings
<1>5. \A q \in Ports : Kept(q)'
  BY <1>3, <1>4 DEF Kept, ShownInv
<1> QED
  BY <1>1, <1>2, <1>5 DEF ShownInv, Shown

(* A dialog, whatever it does to the file.                                  *)
LEMMA DialogShown ==
  ASSUME Inv, ShownInv, NEW p \in Ports, fails' \in Nat, \A q \in Ports : Kept(q)',
         \A q \in Ports \ {p} : dlg'[q] = dlg[q], Shown(p)'
  PROVE  ShownInv'
BY DEF ShownInv, Shown

LEMMA EditShown ==
  ASSUME Inv, ShownInv, NEW p \in Ports,
         SplPdSetPort(p) \/ Edit(p) \/ Reset(p) \/ Default(p) \/ Cancel(p) \/ OK(p) \/ Help(p)
  PROVE  ShownInv'
<1>1. UNCHANGED <<app, fails>>
  BY DEF SplPdSetPort, Edit, Reset, Default, Cancel, OK, Help
<1>2. fails' \in Nat /\ \A q \in Ports : Kept(q)'
  BY <1>1 DEF ShownInv, Kept
<1>3. dlg[p].pc \in Editing => /\ DOMAIN dlg[p] = {"pc", "list", "shown", "secs", "org", "orgSecs"}
                               /\ dlg[p].secs \in Second /\ dlg[p].orgSecs \in Second
  BY DEF Inv, PortInv, Showing, ShownInv, Shown
<1>4. ASSUME NEW shown, NEW secs \in Second, dlg[p].pc = "open",
             dlg' = [dlg EXCEPT ![p].shown = shown, ![p].secs = secs]
      PROVE  ShownInv'
  <2>1. /\ dlg'[p] = [dlg[p] EXCEPT !.shown = shown, !.secs = secs]
        /\ \A q \in Ports \ {p} : dlg'[q] = dlg[q]
    BY <1>4 DEF Inv
  <2>2. dlg'[p].pc = "open" /\ dlg'[p].secs \in Second /\ dlg'[p].orgSecs \in Second
    <3>1. /\ DOMAIN dlg[p] = {"pc", "list", "shown", "secs", "org", "orgSecs"}
          /\ dlg[p].orgSecs \in Second
      BY <1>3, <1>4 DEF Editing
    <3>2. PICK old1 : old1 = dlg[p]
      OBVIOUS
    <3>3. PICK new : new = [old1 EXCEPT !.shown = shown, !.secs = secs]
      OBVIOUS
    <3>4. new.pc = old1.pc /\ new.secs = secs /\ new.orgSecs = old1.orgSecs
      BY <3>1, <3>2, <3>3
    <3>5. dlg'[p] = new
      BY <2>1, <3>2, <3>3
    <3> QED
      BY <1>4, <3>1, <3>2, <3>4, <3>5
  <2>3. Shown(p)'
    BY <2>2 DEF Shown
  <2> QED
    BY <1>2, <2>1, <2>3, DialogShown
<1>5. ASSUME dlg' = [dlg EXCEPT ![p] = Closed] PROVE ShownInv'
  <2>1. (\A q \in Ports \ {p} : dlg'[q] = dlg[q]) /\ dlg'[p] = Closed
    BY <1>5 DEF Inv
  <2>2. Shown(p)'
    BY <2>1 DEF Shown, Closed, Editing
  <2> QED
    BY <1>2, <2>1, <2>2, DialogShown
<1>6. CASE SplPdSetPort(p)
  <2>1. PICK list \in BaudLists : \E was \in list : dlg' = [dlg EXCEPT ![p] = Opened(p, list, was)]
    BY <1>6 DEF SplPdSetPort
  <2>2. PICK was \in list : dlg' = [dlg EXCEPT ![p] = Opened(p, list, was)]
    BY <2>1
  <2>3. dlg'[p] = Opened(p, list, was) /\ \A q \in Ports \ {p} : dlg'[q] = dlg[q]
    BY <2>2 DEF Inv
  <2>4. StoredTime(p) \in Second
    BY Seconds DEF StoredTime, ShownInv, Kept
  <2>5. Shown(p)'
    BY <2>3, <2>4 DEF Shown, Opened, Editing
  <2> QED
    BY <1>2, <2>3, <2>5, DialogShown
<1>7. CASE Edit(p)
  BY <1>4, <1>7, Seconds DEF Edit
<1>8. CASE Reset(p)
  BY <1>3, <1>4, <1>8 DEF Reset, Editing
<1>9. CASE Default(p)
  BY <1>4, <1>9, Seconds DEF Default
<1>10. CASE Cancel(p)
  BY <1>5, <1>10 DEF Cancel, Dismiss
<1>11. CASE OK(p)
  <2>1. ASSUME NEW pc \in Editing, dlg' = [dlg EXCEPT ![p].pc = pc] PROVE ShownInv'
    <3>1. /\ dlg'[p] = [dlg[p] EXCEPT !.pc = pc] /\ dlg[p].pc = "open"
          /\ \A q \in Ports \ {p} : dlg'[q] = dlg[q]
      BY <1>11, <2>1 DEF OK, Inv
    <3>2. Shown(p)'
      BY <1>3, <3>1 DEF Shown, Editing
    <3> QED
      BY <1>2, <3>1, <3>2, DialogShown
  <2> QED
    BY <1>5, <1>11, <2>1 DEF OK, Dismiss, Editing
<1>12. CASE Help(p)
  BY <1>2, <1>12 DEF Help, ShownInv, Shown
<1> QED
  BY <1>6, <1>7, <1>8, <1>9, <1>10, <1>11, <1>12

LEMMA SaveShown ==
  ASSUME Inv, ShownInv, NEW p \in Ports, SavePortSettings(p)
  PROVE  ShownInv'
<1>1. /\ DOMAIN dlg[p] = {"pc", "list", "shown", "secs", "org", "orgSecs"} /\ dlg[p].pc \in Editing
      /\ dlg[p].secs \in Second /\ dlg[p].orgSecs \in Second
  BY DEF Inv, PortInv, Showing, SavePortSettings, SaveStep, Editing, ShownInv, Shown
<1>2. ASSUME NEW from, NEW key \in {"init", "old", "time"}, NEW value, NEW next,
             SaveStep(p, from, key, value, next), key = "time" => value \in Second
      PROVE  fails' \in Nat /\ \A q \in Ports : Kept(q)'
  <2>1. PICK done \in BOOLEAN : Write(p, key, value, done)
    BY <1>2 DEF SaveStep
  <2>2. key \in Keys \cup {"old"} /\ key # "setup"
    BY DEF Keys
  <2> QED
    BY <1>2, <2>1, <2>2, WroteKept
<1>3. \/ dlg' = [dlg EXCEPT ![p] = Closed]
      \/ \E pc \in Editing : dlg' = [dlg EXCEPT ![p].pc = pc]
  BY DEF SavePortSettings, SaveStep, Dismiss, Editing
<1>4. fails' \in Nat /\ \A q \in Ports : Kept(q)'
  <2>1. PICK text : text = GetDialogValues(dlg[p].shown)
    OBVIOUS
  <2>2. CASE SaveStep(p, "saveinit", "init", text, "saveold")
    BY <1>2, <2>2
  <2>3. ASSUME NEW next, SaveStep(p, "saveold", "old", text, next)
        PROVE  fails' \in Nat /\ \A q \in Ports : Kept(q)'
    BY <1>2, <2>3
  <2>4. CASE SaveStep(p, "savetime", "time", dlg[p].secs, "end")
    BY <1>1, <1>2, <2>4
  <2> QED
    BY <2>1, <2>2, <2>3, <2>4 DEF SavePortSettings
<1>5. \A q \in Ports \ {p} : dlg'[q] = dlg[q]
  BY <1>3 DEF Inv
<1>6. Shown(p)'
  <2>1. CASE dlg' = [dlg EXCEPT ![p] = Closed]
    BY <2>1 DEF Shown, Closed, Editing, Inv
  <2>2. ASSUME NEW pc \in Editing, dlg' = [dlg EXCEPT ![p].pc = pc] PROVE Shown(p)'
    <3>1. dlg'[p] = [dlg[p] EXCEPT !.pc = pc]
      BY <2>2 DEF Inv
    <3> QED
      BY <1>1, <3>1 DEF Shown, Editing
  <2> QED
    BY <1>3, <2>1, <2>2
<1> QED
  BY <1>4, <1>5, <1>6, DialogShown

LEMMA SetupShown ==
  ASSUME Inv, ShownInv, NEW p \in Ports, SPLPDSETPORT(p) \/ SpoolerSetupDialogEnds(p)
  PROVE  ShownInv'
<1>1. CASE SPLPDSETPORT(p)
  <2>1. UNCHANGED <<app, fails>> /\ dlg' = [dlg EXCEPT ![p] = [pc |-> "setup", s |-> app[p].setup]]
    BY <1>1 DEF SPLPDSETPORT
  <2>2. fails' \in Nat /\ (\A q \in Ports : Kept(q)') /\ Kept(p)
    BY <2>1 DEF ShownInv, Kept
  <2>3. (\A q \in Ports \ {p} : dlg'[q] = dlg[q]) /\ dlg'[p] = [pc |-> "setup", s |-> app[p].setup]
    BY <2>1 DEF Inv
  <2>4. Shown(p)'
    BY <2>2, <2>3 DEF Shown, Kept, Editing
  <2> QED
    BY <2>2, <2>3, <2>4, DialogShown
<1>2. CASE SpoolerSetupDialogEnds(p)
  <2>1. dlg' = [dlg EXCEPT ![p] = Closed] /\ dlg[p].pc = "setup"
    BY <1>2 DEF SpoolerSetupDialogEnds
  <2>2. Shown(p)' /\ \A q \in Ports \ {p} : dlg'[q] = dlg[q]
    BY <2>1 DEF Shown, Closed, Editing, Inv
  <2>3. CASE UNCHANGED <<app, fails>>
    <3>1. fails' \in Nat /\ \A q \in Ports : Kept(q)'
      BY <2>3 DEF ShownInv, Kept
    <3> QED
      BY <2>2, <3>1, DialogShown
  <2>4. ASSUME NEW r, NEW done \in BOOLEAN, Write(p, "setup", [dlg[p].s EXCEPT !.rate = r], done)
        PROVE  ShownInv'
    <3>1. PICK new : new = [dlg[p].s EXCEPT !.rate = r]
      OBVIOUS
    <3>2. IsFcn(new)
      BY <3>1 DEF IsFcn
    <3>3. Write(p, "setup", new, done) /\ "setup" \in Keys \cup {"old"}
      BY <2>4, <3>1 DEF Keys
    <3>4. fails' \in Nat /\ \A q \in Ports : Kept(q)'
      BY <3>2, <3>3, WroteKept
    <3> QED
      BY <2>2, <3>4, DialogShown
  <2> QED
    BY <1>2, <2>3, <2>4 DEF SpoolerSetupDialogEnds
<1> QED
  BY <1>1, <1>2

LEMMA ControlsFinite ==
  ASSUME NEW failed \in SUBSET {"query", "rate", "line", "dcb"}
  PROVE  Cardinality(failed) \in Nat /\ (Cardinality(failed) = 0 => failed = {})
<1>1. IsFiniteSet({"query", "rate", "line", "dcb"})
  <2>1. IsFiniteSet({"rate"}) /\ IsFiniteSet({"rate"} \cup {"line"})
    BY FS_Singleton, FS_AddElement
  <2>2. IsFiniteSet(({"rate"} \cup {"line"}) \cup {"dcb"})
    BY <2>1, FS_AddElement
  <2>3. IsFiniteSet((({"rate"} \cup {"line"}) \cup {"dcb"}) \cup {"query"})
    BY <2>2, FS_AddElement
  <2>4. (({"rate"} \cup {"line"}) \cup {"dcb"}) \cup {"query"} = {"query", "rate", "line", "dcb"}
    OBVIOUS
  <2> QED
    BY <2>3, <2>4
<1>2. IsFiniteSet(failed)
  BY <1>1, FS_Subset
<1> QED
  BY <1>2, FS_EmptySet, FS_CardinalityType

LEMMA NextShown == Inv /\ ShownInv /\ [Next]_vars => ShownInv'
<1> SUFFICES ASSUME Inv, ShownInv, [Next]_vars PROVE ShownInv'
  OBVIOUS
<1>1. ASSUME UNCHANGED <<app, dlg>>, fails' \in Nat PROVE ShownInv'
  BY <1>1 DEF ShownInv, Kept, Shown
<1>2. fails \in Nat
  BY DEF ShownInv
<1>3. CASE UNCHANGED vars
  BY <1>1, <1>2, <1>3 DEF vars
<1>4. ASSUME NEW p \in Ports, SplPdInitPort(p) PROVE ShownInv'
  <2>1. CASE UNCHANGED fails
    BY <1>1, <1>2, <1>4, <2>1 DEF SplPdInitPort
  <2>2. CASE \E failed \in SUBSET {"query", "rate", "line", "dcb"} : fails' = fails + Cardinality(failed)
    <3>1. PICK failed \in SUBSET {"query", "rate", "line", "dcb"} : fails' = fails + Cardinality(failed)
      BY <2>2
    <3>2. Cardinality(failed) \in Nat
      BY ControlsFinite
    <3>3. fails' \in Nat
      BY <1>2, <3>1, <3>2
    <3> QED
      BY <1>1, <1>4, <3>3 DEF SplPdInitPort
  <2> QED
    BY <1>4, <2>1, <2>2 DEF SplPdInitPort, InitializeCommPort, NotInstalled
<1>5. ASSUME NEW p \in Ports, SPLPDINITPORT(p) PROVE ShownInv'
  <2>1. (fails' = fails \/ fails' = fails + 1) /\ UNCHANGED <<app, dlg>>
    BY <1>5 DEF SPLPDINITPORT, NotInstalled
  <2> QED
    BY <1>1, <1>2, <2>1
<1>6. CASE SplPdEnumPort \/ EnumAgain
  BY <1>1, <1>2, <1>6 DEF SplPdEnumPort, EnumAgain
<1>7. ASSUME NEW p \in Ports, NEW d \in Drivers, SplPdInstallPort(p, d) \/ SplPdRemovePort(p, d)
      PROVE  ShownInv'
  BY <1>1, <1>2, <1>7 DEF SplPdInstallPort, SplPdRemovePort
<1>8. ASSUME NEW p \in Ports,
             \/ InstallWrite(p) \/ RemoveWrite(p)
             \/ SplPdSetPort(p) \/ Edit(p) \/ Reset(p) \/ Default(p) \/ Cancel(p) \/ OK(p)
             \/ SavePortSettings(p) \/ Help(p)
             \/ SPLPDSETPORT(p) \/ SpoolerSetupDialogEnds(p)
      PROVE  ShownInv'
  BY <1>8, InstallShown, RemoveShown, EditShown, SaveShown, SetupShown
<1> QED
  BY <1>3, <1>4, <1>5, <1>6, <1>7, <1>8 DEF Next

LEMMA InitShown == Init => ShownInv
<1> SUFFICES ASSUME Init PROVE ShownInv
  OBVIOUS
<1>1. fails = 0
  BY DEF Init
<1>2. ASSUME NEW p \in Ports PROVE Kept(p) /\ Shown(p)
  <2>1. app[p] = NoApp /\ dlg[p] = Closed
    BY DEF Init
  <2> QED
    BY <2>1 DEF Kept, Shown, NoApp, NoSettings, IsFcn, Closed, Editing
<1> QED
  BY <1>1, <1>2 DEF ShownInv

(* Two parsers of one string.  InitializeCommPort reads the text, the       *)
(* dialog checks buttons for it; each button means what was programmed.     *)
LEMMA SameWord ==
  ASSUME NEW t \in Text, NEW b, b = WordButton[t.word]
  PROVE  (CHOOSE n \in 5..8 : t.word = <<"5", "6", "7", "8">>[n - 4])
         = (CHOOSE n \in 5..8 : WordButton[<<"5", "6", "7", "8">>[n - 4]] = b)
<1>1. /\ WordButton["5"] = "5BITS" /\ WordButton["6"] = "6BITS"
      /\ WordButton["7"] = "7BITS" /\ WordButton["8"] = "8BITS"
  BY DEF WordButton
<1> DEFINE tup == <<"5", "6", "7", "8">>
<1>3. tup[1] = "5" /\ tup[2] = "6" /\ tup[3] = "7" /\ tup[4] = "8"
  OBVIOUS
<1> HIDE DEF tup
<1>4. t.word \in {"5", "6", "7", "8"}
  BY DEF Text
<1>5. ASSUME NEW n \in 5..8
      PROVE  (t.word = tup[n - 4]) <=> (WordButton[tup[n - 4]] = b)
  <2>1. tup[n - 4] \in {"5", "6", "7", "8"}
    <3>1. n \in {5, 6, 7, 8}
      OBVIOUS
    <3> QED
      BY <1>3, <3>1
  <2> QED
    BY <1>1, <1>4, <2>1
<1>6. PICK m \in 5..8 : t.word = tup[m - 4]
  <2>1. tup[5 - 4] = "5" /\ tup[6 - 4] = "6" /\ tup[7 - 4] = "7" /\ tup[8 - 4] = "8"
    BY <1>3
  <2> QED
    BY <1>4, <2>1
<1>7. \A n \in 5..8 : t.word = tup[n - 4] => n = m
  <2>1. \A n \in 5..8 : n - 4 \in {1, 2, 3, 4}
    OBVIOUS
  <2>2. \A i, j \in {1, 2, 3, 4} : tup[i] = tup[j] => i = j
    BY <1>3
  <2>3. ASSUME NEW n \in 5..8, t.word = tup[n - 4] PROVE n = m
    <3>1. n - 4 = m - 4
      BY <1>6, <2>1, <2>2, <2>3
    <3> QED
      BY <3>1
  <2> QED
    BY <2>3
<1>8. (CHOOSE n \in 5..8 : t.word = tup[n - 4]) = m
  BY <1>6, <1>7
<1>9. (CHOOSE n \in 5..8 : WordButton[tup[n - 4]] = b) = m
  <2>1. WordButton[tup[m - 4]] = b
    BY <1>6
  <2>2. \A n \in 5..8 : WordButton[tup[n - 4]] = b => n = m
    BY <1>5, <1>7
  <2> QED
    BY <2>1, <2>2
<1> USE DEF tup
<1> QED
  BY <1>8, <1>9

LEMMA RateOfText ==
  ASSUME NEW t \in Text
  PROVE  t.rate \in Rates /\ t.rate \in Nat
<1>1. t.rate \in Rates
  BY DEF Text
<1>2. \A r \in Rates : r \in Nat
  BY RatesAssumption
<1> QED
  BY <1>1, <1>2, Zenon

LEMMA OneMeaning ==
  ASSUME NEW t \in Text, NEW secs \in Second, t.rate < 65536
  PROVE  Programmed(t, secs) = Meaning(SetDialogValues(Rates, 0, t), secs)
<1>1. PICK c : c = SetDialogValues(Rates, 0, t)
  OBVIOUS
<1>2. t.rate \in Rates /\ t.rate \in Nat
  BY RateOfText
<1>3. c = [rate |-> t.rate, parity |-> ParityButton[t.parity], word |-> WordButton[t.word],
           stop |-> StopButton[t.stop], shake |-> IF t.shake = "1" THEN "HSHARDW" ELSE "HSNONE"]
  BY <1>1, <1>2 DEF SetDialogValues
<1>4. t.rate % 65536 = c.rate
  BY <1>2, <1>3
<1>5. PICK hundredths : hundredths = (secs * 100) % 65536
  OBVIOUS
<1>6. hundredths = 100 * secs /\ hundredths <= 65500
  BY <1>5 DEF Second, TIMEOUT_UPPER_LIMIT
<1>7. (IF hundredths > 65500 THEN 4500 ELSE hundredths) = 100 * secs
  BY <1>6 DEF Second
<1>p. PICK parity : parity = CASE t.parity = "0" -> 0 [] t.parity = "1" -> 1 [] t.parity = "2" -> 2
  OBVIOUS
<1>8. [PARITYNONE |-> 0, PARITYODD |-> 1, PARITYEVEN |-> 2][c.parity] = parity
  <2>1. t.parity \in {"0", "1", "2"} /\ c.parity = ParityButton[t.parity]
    BY <1>3 DEF Text
  <2>2. ParityButton["0"] = "PARITYNONE" /\ ParityButton["1"] = "PARITYODD" /\ ParityButton["2"] = "PARITYEVEN"
    BY DEF ParityButton
  <2>3. CASE t.parity = "0"
    BY <1>p, <2>1, <2>2, <2>3
  <2>4. CASE t.parity = "1"
    BY <1>p, <2>1, <2>2, <2>4
  <2>5. CASE t.parity = "2"
    BY <1>p, <2>1, <2>2, <2>5
  <2> QED
    BY <2>1, <2>3, <2>4, <2>5
<1>s. PICK stop : stop = CASE t.stop = "1" -> 0 [] t.stop = "1.5" -> 1 [] t.stop = "2" -> 2
  OBVIOUS
<1>9. [STOPBIT1 |-> 0, STOPBIT1_5 |-> 1, STOPBIT2 |-> 2][c.stop] = stop
  <2>1. t.stop \in {"1", "1.5", "2"} /\ c.stop = StopButton[t.stop]
    BY <1>3 DEF Text
  <2>2. StopButton["1"] = "STOPBIT1" /\ StopButton["1.5"] = "STOPBIT1_5" /\ StopButton["2"] = "STOPBIT2"
    BY DEF StopButton
  <2>3. CASE t.stop = "1"
    BY <1>s, <2>1, <2>2, <2>3
  <2>4. CASE t.stop = "1.5"
    BY <1>s, <2>1, <2>2, <2>4
  <2>5. CASE t.stop = "2"
    BY <1>s, <2>1, <2>2, <2>5
  <2> QED
    BY <2>1, <2>3, <2>4, <2>5
<1>10. (IF t.shake = "0" THEN {"XON"} ELSE {"CTS", "DSR"})
       = (IF c.shake = "HSHARDW" THEN {"CTS", "DSR"} ELSE {"XON"})
  <2>1. t.shake \in {"0", "1"} /\ c.shake = IF t.shake = "1" THEN "HSHARDW" ELSE "HSNONE"
    BY <1>3 DEF Text
  <2> QED
    BY <2>1
<1>w. PICK word : word = CHOOSE n \in 5..8 : t.word = <<"5", "6", "7", "8">>[n - 4]
  OBVIOUS
<1>11. (CHOOSE n \in 5..8 : WordButton[<<"5", "6", "7", "8">>[n - 4]] = c.word) = word
  <2>1. c.word = WordButton[t.word]
    BY <1>3
  <2> QED
    BY ONLY <1>w, <2>1, SameWord, t \in Text
<1>12. PICK rate : rate = t.rate % 65536
  OBVIOUS
<1>t. PICK timeout : timeout = IF hundredths > 65500 THEN 4500 ELSE hundredths
  OBVIOUS
<1> DEFINE out == IF t.shake = "0" THEN {"XON"} ELSE {"CTS", "DSR"}
<1>o. out = IF t.shake = "0" THEN {"XON"} ELSE {"CTS", "DSR"}
  OBVIOUS
<1>m. out = IF c.shake = "HSHARDW" THEN {"CTS", "DSR"} ELSE {"XON"}
  BY <1>10
<1> HIDE DEF out
<1>13. Programmed(t, secs) = [rate |-> rate, line |-> [parity |-> parity, word |-> word, stop |-> stop],
                              dcb |-> [timeout |-> timeout, out |-> out]]
  BY <1>5, <1>12, <1>p, <1>w, <1>s, <1>t, <1>o DEF Programmed
<1>14. Meaning(c, secs) = [rate |-> rate, line |-> [parity |-> parity, word |-> word, stop |-> stop],
                           dcb |-> [timeout |-> timeout, out |-> out]]
  <2>1. c.rate = rate /\ 100 * secs = timeout
    BY <1>4, <1>7, <1>12, <1>t
  <2> QED
    BY ONLY <1>8, <1>9, <1>11, <1>m, <2>1 DEF Meaning
<1> QED
  BY <1>1, <1>13, <1>14

(* COMI's InitPort, when it reports success, has programmed all of PortSetup. *)
LEMMA ComiPrograms ==
  ASSUME Inv, ShownInv, NEW p \in Ports, SPLPDINITPORT(p), inited'.ret = "NO_ERROR"
  PROVE  inited'.port = p /\ Owns("COMI", p) /\ inited'.set = app[p].setup
<1>1. ~NotInstalled(p)
  BY DEF NotInstalled
<1>2. Owns("COMI", p) /\ app[p].setup # NoSettings
  BY <1>1 DEF SPLPDINITPORT
<1>3. PICK done \in 0..3 :
        inited' = [port |-> p, ret |-> IF done = 3 THEN "NO_ERROR" ELSE "INVALID_PARAMETER",
                   set |-> [k \in {ComiOrder[i] : i \in 1..done} |-> app[p].setup[k]]]
  BY <1>1, <1>2 DEF SPLPDINITPORT
<1>4. done = 3 /\ inited'.port = p
  BY <1>3
<1>5. inited'.set = [k \in {ComiOrder[i] : i \in 1..3} |-> app[p].setup[k]]
  BY <1>3, <1>4
<1>6. {ComiOrder[i] : i \in 1..3} = SetupKeys
  <2>1. ComiOrder[1] = "rate" /\ ComiOrder[2] = "dcb" /\ ComiOrder[3] = "line"
    BY DEF ComiOrder
  <2>2. 1..3 = {1, 2, 3}
    OBVIOUS
  <2> QED
    BY <2>1, <2>2 DEF SetupKeys
<1>7. DOMAIN app[p].setup = SetupKeys /\ IsFcn(app[p].setup)
  BY <1>2 DEF Inv, PortInv, Stored, ShownInv, Kept
<1> QED
  BY <1>2, <1>4, <1>5, <1>6, <1>7 DEF IsFcn

LEMMA TextIsNotComi ==
  ASSUME NEW t \in Text
  PROVE  t # ComiSpooler
<1>1. DOMAIN t = {"rate", "parity", "word", "stop", "shake"}
  BY DEF Text
<1>2. DOMAIN ComiSpooler = {"none"}
  BY DEF ComiSpooler
<1> QED
  BY <1>1, <1>2

LEMMA ProgrammedKeys ==
  ASSUME NEW t, NEW secs
  PROVE  Programmed(t, secs) = [k \in {"rate", "line", "dcb"} |-> Programmed(t, secs)[k]]
<1> DEFINE h == (secs * 100) % 65536
           line == [parity |-> CASE t.parity = "0" -> 0 [] t.parity = "1" -> 1 [] t.parity = "2" -> 2,
                    word |-> CHOOSE n \in 5..8 : t.word = <<"5", "6", "7", "8">>[n - 4],
                    stop |-> CASE t.stop = "1" -> 0 [] t.stop = "1.5" -> 1 [] t.stop = "2" -> 2]
           dcb == [timeout |-> IF h > 65500 THEN 4500 ELSE h,
                   out |-> IF t.shake = "0" THEN {"XON"} ELSE {"CTS", "DSR"}]
<1>1. PICK a : a = t.rate % 65536
  OBVIOUS
<1>2. Programmed(t, secs) = [rate |-> t.rate % 65536, line |-> line, dcb |-> dcb]
  BY DEF Programmed
<1> HIDE DEF line, dcb
<1>3. PICK r : r = [rate |-> a, line |-> line, dcb |-> dcb]
  OBVIOUS
<1>4. r = [k \in {"rate", "line", "dcb"} |-> r[k]]
  BY <1>3
<1>5. r = Programmed(t, secs)
  BY <1>1, <1>2, <1>3
<1> QED
  BY <1>4, <1>5

LEMMA SerialPrograms ==
  ASSUME Inv, ShownInv, NEW p \in Ports, SplPdInitPort(p), inited'.ret = "NO_ERROR", fails' = fails
  PROVE  /\ inited'.port = p /\ Owns("SERIAL", p)
         /\ p \notin taken => app[p].init \in Text
         /\ p \notin taken /\ app[p].time # NoTime =>
              app[p].time \in Second /\ inited'.set = Programmed(app[p].init, app[p].time)
<1>1. ~NotInstalled(p)
  BY DEF NotInstalled
<1>2. /\ Owns("SERIAL", p) /\ InitializeCommPort(p)
      /\ p \notin taken => app[p].init \in Text
  BY <1>1 DEF SplPdInitPort, Inv, PortInv, Readable
<1>3. inited'.port = p
  <2>1. CASE inited' = [port |-> p, ret |-> "NO_ERROR", set |-> NothingSet]
    BY <2>1
  <2>2. CASE app[p].init # ComiSpooler
    <3>1. PICK set : inited' = [port |-> p, ret |-> "NO_ERROR", set |-> set]
      BY <1>2, <2>2 DEF InitializeCommPort
    <3> QED
      BY <3>1
  <2> QED
    BY <1>2, <2>1, <2>2 DEF InitializeCommPort
<1>4. ASSUME p \notin taken, app[p].time # NoTime
      PROVE  app[p].time \in Second /\ inited'.set = Programmed(app[p].init, app[p].time)
  <2>1. app[p].init \in Text /\ app[p].init # ComiSpooler
    BY <1>2, <1>4, TextIsNotComi
  <2>2. PICK secs \in (IF app[p].time = NoTime THEN Times \cup {0} ELSE {app[p].time}),
             failed \in SUBSET {"query", "rate", "line", "dcb"} :
          /\ fails' = fails + Cardinality(failed)
          /\ inited' = [port |-> p, ret |-> "NO_ERROR",
                        set |-> [k \in {"rate", "line", "dcb"} \ failed |->
                          [Programmed(app[p].init, secs) EXCEPT !.dcb = IF "query" \in failed THEN Stack ELSE @][k]]]
    BY <1>2, <2>1 DEF InitializeCommPort
  <2>3. failed = {}
    <3>1. Cardinality(failed) \in Nat /\ (Cardinality(failed) = 0 => failed = {})
      BY ControlsFinite
    <3>2. fails \in Nat /\ fails = fails + Cardinality(failed)
      BY <2>2 DEF ShownInv
    <3> QED
      BY <3>1, <3>2
  <2>4. PICK to : to = Programmed(app[p].init, secs)
    OBVIOUS
  <2>5. to = [k \in {"rate", "line", "dcb"} |-> to[k]]
    BY <2>4, ProgrammedKeys
  <2>6. [to EXCEPT !.dcb = IF "query" \in failed THEN Stack ELSE @] = to
    BY <2>3, <2>5
  <2>7. inited'.set = [k \in {"rate", "line", "dcb"} |-> to[k]]
    <3>1. inited' = [port |-> p, ret |-> "NO_ERROR",
                     set |-> [k \in {"rate", "line", "dcb"} \ failed |->
                       [to EXCEPT !.dcb = IF "query" \in failed THEN Stack ELSE @][k]]]
      BY <2>2, <2>4
    <3>2. {"rate", "line", "dcb"} \ failed = {"rate", "line", "dcb"}
      BY <2>3
    <3> QED
      BY <2>6, <3>1, <3>2
  <2>8. app[p].time \in Second /\ secs = app[p].time
    BY <1>4, <2>2 DEF ShownInv, Kept
  <2> QED
    BY <2>4, <2>5, <2>7, <2>8
<1> QED
  BY <1>2, <1>3, <1>4

(* The two parsers of the initialization string, InitializeCommPort and the *)
(* dialog's, read the same settings from it, and COMI's InitPort programs   *)
(* the settings its dialog edits (SPOOLER/IBM/serial.c, SPOOLER/spooler.c). *)
THEOREM ProgramsCorrect == Spec => ProgramsWhatIsShown
<1> DEFINE Same ==
      inited'.ret = "NO_ERROR" /\ fails' = fails =>
        LET p == inited'.port IN
        \/ Owns("COMI", p) /\ inited'.set = app[p].setup
        \/ /\ Owns("SERIAL", p)
           /\ p \notin taken =>
              LET c == SetDialogValues(Rates, 0, app[p].init) IN
              app[p].time # NoTime /\ c.rate < 65536 =>
                inited'.set = Meaning(c, app[p].time)
<1>1. Inv /\ ShownInv /\ [Next]_vars => [Same]_vars
  <2> SUFFICES ASSUME Inv, ShownInv, Next, inited'.ret = "NO_ERROR", fails' = fails PROVE Same
    OBVIOUS
  <2>1. inited' # NoInit
    BY DEF NoInit
  <2>2. PICK p \in Ports : SplPdInitPort(p) \/ SPLPDINITPORT(p)
    BY <2>1 DEF Next
  <2>3. CASE SPLPDINITPORT(p)
    BY <2>3, ComiPrograms
  <2>4. CASE SplPdInitPort(p)
    <3>1. /\ inited'.port = p /\ Owns("SERIAL", p)
          /\ p \notin taken => app[p].init \in Text
          /\ p \notin taken /\ app[p].time # NoTime =>
               app[p].time \in Second /\ inited'.set = Programmed(app[p].init, app[p].time)
      BY <2>4, SerialPrograms
    <3>2. PICK t : t = app[p].init
      OBVIOUS
    <3>3. PICK c : c = SetDialogValues(Rates, 0, t)
      OBVIOUS
    <3>4. ASSUME p \notin taken PROVE t \in Text /\ c.rate = t.rate
      <4>1. t \in Text
        BY <3>1, <3>2, <3>4
      <4>2. t.rate \in Rates
        BY <4>1, RateOfText
      <4> QED
        BY <3>3, <4>1, <4>2 DEF SetDialogValues
    <3>5. ASSUME p \notin taken, app[p].time # NoTime, c.rate < 65536 PROVE inited'.set = Meaning(c, app[p].time)
      <4>1. app[p].time \in Second /\ inited'.set = Programmed(t, app[p].time) /\ t.rate < 65536
        BY <3>1, <3>2, <3>4, <3>5
      <4> QED
        BY <3>3, <3>4, <3>5, <4>1, OneMeaning
    <3>6. p \notin taken =>
            LET c0 == SetDialogValues(Rates, 0, app[p].init) IN
            app[p].time # NoTime /\ c0.rate < 65536 =>
              inited'.set = Meaning(c0, app[p].time)
      BY <3>2, <3>3, <3>5
    <3>7. inited'.port = p /\ Owns("SERIAL", p)
      BY <3>1
    <3> QED
      BY <3>6, <3>7
  <2> QED
    BY <2>2, <2>3, <2>4
<1>2. Spec => [](Inv /\ ShownInv)
  BY InitInv, NextInv, InitShown, NextShown, PTL DEF Spec
<1>3. Spec => [][Same]_vars
  BY <1>1, <1>2, PTL DEF Spec
<1> QED
  BY <1>3 DEF ProgramsWhatIsShown
=============================================================================
