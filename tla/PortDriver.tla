------------------------------ MODULE PortDriver ------------------------------
(***************************************************************************)
(* The two print port drivers: the one IBM ships for COM.SYS               *)
(* (SPOOLER/IBM/serial.c, driver name "SERIAL") and the one that replaces  *)
(* it for COMi (SPOOLER/spooler.c, "COMI").  The spooler calls InitPort    *)
(* before it prints; the print object calls EnumPort, InstallPort,         *)
(* RemovePort and SetPort.  They meet only in the system INI file, one     *)
(* write at a time: the application PM_<port> with a key per setting, and  *)
(* the older list PM_SPOOLER_PORT with one entry per port.                 *)
(*                                                                         *)
(* External, modelled from its use: PrfWriteProfileString may fail and     *)
(* leaves the file as it was; an I/O control may fail; a spin button       *)
(* ignores a value that is not in its list; the spooler installs or        *)
(* removes a port once at a time.  Either driver may be asked to install a *)
(* port that the other one owns.                                           *)
(***************************************************************************)
EXTENDS Integers, Sequences, FiniteSets

CONSTANTS
  Ports,      \* port names
  Rates,      \* szBaudRateAra, the rates the dialog can show
  UserTexts,  \* bound: the settings a user gives the controls of the dialog
  Times,      \* time-outs the user enters, in seconds
  MaxFails,   \* bound: writes and I/O controls that fail
  MaxBuf,     \* bound: the largest buffer an enumeration is given
  NPorts,     \* ports the driver offers
  SizeOfPort  \* bytes of one PORTNAMES entry with its two strings

ASSUME RatesAssumption == Rates \subseteq Nat /\ 9600 \in Rates
\* The spin button of the time-out goes from 0 to this.
TIMEOUT_UPPER_LIMIT == 655
ASSUME TimesAssumption == Times \subseteq 0..TIMEOUT_UPPER_LIMIT
ASSUME SizesAssumption == NPorts \in Nat \ {0} /\ SizeOfPort \in Nat \ {0}

VARIABLES
  app,    \* app[p]: the keys of PM_<p>
  old,    \* old[p]: the entry of PM_SPOOLER_PORT
  job,    \* job[p]: an InstallPort or RemovePort under way
  dlg,    \* dlg[p]: the setup dialog of SERIAL
  inited, \* what the InitPort of the last step did, if it was one: the port, the
          \* return value, and what it programmed by I/O control
  help,   \* the help hook of the process that shows dialogs
  fails,  \* calls that have failed so far
  mixed,  \* history: ports whose two copies a failure or an overlap disturbed
  taken,  \* history: ports of SERIAL that COMI has begun to install, till a driver's
          \* name is written again
  enum    \* the caller of EnumPort

vars == <<app, old, job, dlg, inited, help, fails, mixed, taken, enum>>

\* A key that is not in the file, by the kind of value it would hold.
Absent == "absent"
NoSettings == [none |-> "absent"]
ComiSpooler == [none |-> "COMi Spooler;"]   \* not a list of settings
NoTime == -1
Drivers == {"SERIAL", "COMI"}
-----------------------------------------------------------------------------
(* The three forms of a port's settings. *)

\* "Baudrate;Parity;Wordlength;StopBits;Handshaking"
Text == [rate: Rates, parity: {"0", "1", "2"}, word: {"5", "6", "7", "8"},
         stop: {"1", "1.5", "2"}, shake: {"0", "1"}]
ASSUME TextsAssumption == UserTexts \subseteq Text

ParityButton == [t \in {"0", "1", "2"} |->
  CASE t = "0" -> "PARITYNONE" [] t = "1" -> "PARITYODD" [] t = "2" -> "PARITYEVEN"]
StopButton == [t \in {"1", "1.5", "2"} |->
  CASE t = "1" -> "STOPBIT1" [] t = "1.5" -> "STOPBIT1_5" [] t = "2" -> "STOPBIT2"]
WordButton == [t \in {"5", "6", "7", "8"} |->
  CASE t = "5" -> "5BITS" [] t = "6" -> "6BITS" [] t = "7" -> "7BITS" [] t = "8" -> "8BITS"]

\* GetDialogValues: the text that the checked buttons and the spin button make.
GetDialogValues(c) ==
  [ rate |-> c.rate,
    parity |-> CASE c.parity = "PARITYEVEN" -> "2" [] c.parity = "PARITYODD" -> "1"
                 [] c.parity = "PARITYNONE" -> "0",
    word |-> CHOOSE t \in DOMAIN WordButton : WordButton[t] = c.word,
    stop |-> CASE c.stop = "STOPBIT1" -> "1" [] c.stop = "STOPBIT1_5" -> "1.5"
               [] c.stop = "STOPBIT2" -> "2",
    shake |-> IF c.shake = "HSHARDW" THEN "1" ELSE "0" ]

\* SetDialogValues: the buttons a text checks.  The spin button keeps its value
\* when the rate is not one the list holds.
SetDialogValues(list, was, t) ==
  [ rate |-> IF t.rate \in list THEN t.rate ELSE was,
    parity |-> ParityButton[t.parity], word |-> WordButton[t.word],
    stop |-> StopButton[t.stop],
    shake |-> IF t.shake = "1" THEN "HSHARDW" ELSE "HSNONE" ]

\* GetPortDefaultSettings and DEF_INITIALIZATION, "9600;0;8;1;1;"
DefaultText == [rate |-> 9600, parity |-> "0", word |-> "8", stop |-> "1", shake |-> "1"]
DEF_TIMEOUT == 45

\* (mutant) the stop bits are passed as their number of bits.
ProgrammedStopBits(t, secs) ==
  [ rate |-> t.rate % 65536,
    line |-> [parity |-> CASE t.parity = "0" -> 0 [] t.parity = "1" -> 1 [] t.parity = "2" -> 2,
              word |-> CHOOSE n \in 5..8 : t.word = <<"5", "6", "7", "8">>[n - 4],
              stop |-> IF t.stop = "2" THEN 2 ELSE 1],
    dcb |-> [timeout |-> secs * 100, out |-> IF t.shake = "0" THEN {"XON"} ELSE {"CTS", "DSR"}] ]

\* What InitializeCommPort passes to the three I/O controls: the rate is a
\* USHORT, the write time-out counts hundredths of a second, a first stop bit
\* code of 0 means one bit.
Programmed(t, secs) ==
  LET hundredths == (secs * 100) % 65536 IN
  [ rate |-> t.rate % 65536,
    line |-> [parity |-> CASE t.parity = "0" -> 0 [] t.parity = "1" -> 1 [] t.parity = "2" -> 2,
              word |-> CHOOSE n \in 5..8 : t.word = <<"5", "6", "7", "8">>[n - 4],
              stop |-> CASE t.stop = "1" -> 0 [] t.stop = "1.5" -> 1 [] t.stop = "2" -> 2],
    dcb |-> [timeout |-> IF hundredths > 65500 THEN 4500 ELSE hundredths,
             out |-> IF t.shake = "0" THEN {"XON"} ELSE {"CTS", "DSR"}] ]

\* The settings SPLPDINSTALLPORT stores under "PortSetup".
DefaultSetup ==
  [ rate |-> 9600, line |-> [parity |-> 0, word |-> 8, stop |-> 0],
    dcb |-> [timeout |-> 4500, out |-> {"CTS"}] ]

NoInit == [ret |-> "none"]

\* (mutant) the driver's name is written first.
InstallDriverFirst(d) ==
  << <<"driver", d, TRUE>>, <<"desc", "port name", TRUE>>,
     <<"init", IF d = "SERIAL" THEN DefaultText ELSE ComiSpooler, TRUE>>,
     <<"setup", DefaultSetup, TRUE>>, <<"term", ";", TRUE>>, <<"time", DEF_TIMEOUT, TRUE>>,
     <<"old", IF d = "SERIAL" THEN DefaultText ELSE ComiSpooler, TRUE>> >>

\* The writes of InstallPort in order: <<key, value, whether a failure returns>>.
InstallWrites(d) ==
  IF d = "SERIAL"
  THEN << <<"desc", "port name", TRUE>>, <<"init", DefaultText, TRUE>>,
          <<"term", ";", TRUE>>, <<"driver", "SERIAL", TRUE>>,
          <<"time", DEF_TIMEOUT, TRUE>>, <<"old", DefaultText, TRUE>> >>
  ELSE << <<"desc", "COMi Serial Port ", TRUE>>, <<"init", ComiSpooler, TRUE>>,
          <<"setup", DefaultSetup, TRUE>>, <<"driver", "COMI", TRUE>>,
          <<"term", ";", FALSE>>, <<"time", DEF_TIMEOUT, FALSE>>,
          <<"old", ComiSpooler, FALSE>> >>

NoApp == [desc |-> Absent, init |-> NoSettings, setup |-> NoSettings, term |-> Absent,
          driver |-> Absent, time |-> NoTime]
NoJob == [kind |-> "none"]
Closed == [pc |-> "closed"]

\* The test every entry point starts with: PORTDRIVER names this driver.
Owns(d, p) == app[p].driver = d

Enumerating == enum.pc # "done"
-----------------------------------------------------------------------------
Init ==
  /\ app = [p \in Ports |-> NoApp]
  /\ old = [p \in Ports |-> NoSettings]
  /\ job = [p \in Ports |-> NoJob]
  /\ dlg = [p \in Ports |-> Closed]
  /\ inited = NoInit
  /\ help = [hook |-> FALSE, flag |-> FALSE, up |-> FALSE]
  /\ fails = 0
  /\ mixed = {}
  /\ taken = {}
  /\ enum \in [pc: {"call"}, d: Drivers, cb: 0..MaxBuf, required: {0},
               returned: {0}, rc: {"none"}, again: {FALSE}]

(* EnumPort.  The caller may ask with any buffer and, told how much is       *)
(* needed, asks again with that, in the same variables.                      *)

\* Both drivers compute the size anew, COMI from the longest of its names.
CalcBufLength == NPorts * SizeOfPort

\* NumPortsCanFit counts entries while they fit; COMI divides.
NumPortsCanFit(d, required, cb) ==
  IF d = "SERIAL"
  THEN Cardinality({n \in 1..NPorts : n * SizeOfPort <= cb})
  ELSE LET n == cb \div (required \div NPorts) IN IF n > NPorts THEN NPorts ELSE n

SplPdEnumPort ==
  LET need == CalcBufLength
      n == IF enum.cb = 0 THEN 0 ELSE NumPortsCanFit(enum.d, need, enum.cb)
      rc == IF enum.cb = 0 THEN "MORE_DATA" ELSE IF n = 0 THEN "INSUFFICIENT_BUFFER"
            ELSE IF n < NPorts THEN "MORE_DATA" ELSE "NO_ERROR"
  IN /\ enum.pc = "call"
     /\ enum' = [enum EXCEPT !.pc = "returned", !.required = need, !.returned = n, !.rc = rc]
     /\ UNCHANGED <<app, old, job, dlg, help, fails, mixed, taken>>

EnumAgain ==
  /\ enum.pc = "returned"
  /\ enum' = IF enum.rc # "NO_ERROR" /\ enum.cb # enum.required /\ enum.required <= 2 * MaxBuf
             THEN [enum EXCEPT !.pc = "call", !.cb = enum.required, !.again = TRUE]
             ELSE [pc |-> "done"]
  /\ UNCHANGED <<app, old, job, dlg, help, fails, mixed, taken>>
-----------------------------------------------------------------------------
(* The INI file. *)

\* One profile write of port p: it happens, or fails and changes nothing.  A
\* failure, or a write while both a job and a dialog are writing, disturbs the
\* two copies.
Saving(p) == dlg[p].pc \in {"saveinit", "saveold", "savetime"}
Overlap(p) == job[p] # NoJob /\ Saving(p)

Write(p, key, value, done) ==
  \/ /\ done
     /\ IF key = "old" THEN old' = [old EXCEPT ![p] = value] /\ UNCHANGED app
        ELSE app' = [app EXCEPT ![p][key] = value] /\ UNCHANGED old
     /\ UNCHANGED fails
     /\ mixed' = IF Overlap(p) THEN mixed \cup {p} ELSE mixed
  \/ /\ ~done /\ fails < MaxFails
     /\ fails' = fails + 1
     /\ mixed' = mixed \cup {p}
     /\ UNCHANGED <<app, old>>

(* InstallPort and RemovePort. *)

SplPdInstallPort(p, d) ==
  /\ ~Enumerating /\ job[p] = NoJob
  /\ job' = [job EXCEPT ![p] = [kind |-> "install", d |-> d, step |-> 1]]
  /\ mixed' = mixed \ {p}
  /\ taken' = IF app[p].driver = Absent THEN taken \ {p}
              ELSE IF d = "COMI" /\ Owns("SERIAL", p) THEN taken \cup {p} ELSE taken
  /\ UNCHANGED <<app, old, dlg, help, fails, enum>>

InstallWrite(p) ==
  /\ job[p].kind = "install"
  /\ LET w == InstallWrites(job[p].d)
         i == job[p].step
     IN \E done \in BOOLEAN :
          /\ Write(p, w[i][1], w[i][2], done)
          /\ job' = [job EXCEPT ![p] = IF i = Len(w) \/ (~done /\ w[i][3]) THEN NoJob
                                       ELSE [@ EXCEPT !.step = i + 1]]
          /\ taken' = IF done /\ w[i][1] = "driver" THEN taken \ {p} ELSE taken
  /\ UNCHANGED <<dlg, help, enum>>

SplPdRemovePort(p, d) ==
  /\ ~Enumerating /\ job[p] = NoJob /\ Owns(d, p)
  /\ job' = [job EXCEPT ![p] = [kind |-> "remove", step |-> 1]]
  /\ UNCHANGED <<app, old, dlg, help, fails, mixed, taken, enum>>

\* A null key deletes the whole application; neither deletion is checked.
RemoveWrite(p) ==
  /\ job[p].kind = "remove"
  /\ IF job[p].step = 1
     THEN /\ \/ /\ app' = [app EXCEPT ![p] = NoApp]
                /\ mixed' = IF Overlap(p) THEN mixed \cup {p} ELSE mixed
                /\ UNCHANGED fails
             \/ /\ fails < MaxFails /\ fails' = fails + 1
                /\ mixed' = mixed \cup {p}
                /\ UNCHANGED app
          /\ job' = [job EXCEPT ![p].step = 2]
          /\ UNCHANGED old
     ELSE /\ \E done \in BOOLEAN : Write(p, "old", NoSettings, done)
          /\ job' = [job EXCEPT ![p] = NoJob]
  /\ UNCHANGED <<dlg, help, taken, enum>>

(* InitPort, called by the spooler with the port open. *)

Stack == [timeout |-> -1, out |-> {}]   \* a control block nothing was put in
NothingSet == <<>>

\* Each of SERIAL's four controls may fail; it does not look, but for the query of
\* the control block that it changes.  With no TIMEOUT key it converts a buffer
\* nothing was put in.  In the string of COMI there is no second value, and it
\* sets nothing, which is not looked at either.  The reads of the file are one step.
InitializeCommPort(p) ==
  IF app[p].init = ComiSpooler
  THEN /\ inited' = [port |-> p, ret |-> "NO_ERROR", set |-> NothingSet]
       /\ UNCHANGED fails
  ELSE \E secs \in IF app[p].time = NoTime THEN Times \cup {0} ELSE {app[p].time},
          failed \in SUBSET {"query", "rate", "line", "dcb"} :
         LET to == [Programmed(app[p].init, secs) EXCEPT !.dcb = IF "query" \in failed THEN Stack ELSE @] IN
         /\ fails' = fails + Cardinality(failed)
         /\ fails' <= MaxFails
         /\ inited' = [port |-> p, ret |-> "NO_ERROR",
                       set |-> [k \in {"rate", "line", "dcb"} \ failed |-> to[k]]]

NotInstalled(p) == /\ inited' = [port |-> p, ret |-> "INVALID_PARAMETER", set |-> NothingSet]
                   /\ UNCHANGED fails

SplPdInitPort(p) ==
  /\ ~Enumerating
  /\ IF Owns("SERIAL", p) /\ app[p].init # NoSettings
     THEN InitializeCommPort(p) ELSE NotInstalled(p)
  /\ UNCHANGED <<app, old, job, dlg, help, mixed, taken, enum>>

\* COMI sets the rate, the control block and the line in that order and stops
\* at the first that fails.
ComiOrder == <<"rate", "dcb", "line">>

SPLPDINITPORT(p) ==
  /\ ~Enumerating
  /\ IF ~Owns("COMI", p) \/ app[p].setup = NoSettings
     THEN NotInstalled(p)
     ELSE \E done \in 0..3 :
            /\ fails' = IF done < 3 THEN fails + 1 ELSE fails
            /\ fails' <= MaxFails
            /\ inited' = [port |-> p,
                          ret |-> IF done = 3 THEN "NO_ERROR" ELSE "INVALID_PARAMETER",
                          set |-> [k \in {ComiOrder[i] : i \in 1..done} |-> app[p].setup[k]]]
  /\ UNCHANGED <<app, old, job, dlg, help, mixed, taken, enum>>
-----------------------------------------------------------------------------
(* The help hook: F1 is caught by a stub until help manager is loaded. *)

SetHelpStubHook(h) == IF h.flag THEN h ELSE [h EXCEPT !.hook = TRUE, !.flag = TRUE]
ReleaseHelpStubHook(h) == IF h.flag THEN [h EXCEPT !.hook = FALSE, !.flag = FALSE] ELSE h

\* (mutant) the stub stays hooked once help is up.
HelpKeepsHook(h, works) ==
  IF h.up THEN h
  ELSE IF works THEN [h EXCEPT !.up = TRUE]
  ELSE SetHelpStubHook(ReleaseHelpStubHook(h))

\* InitializeHelp; `works' says whether an instance was made and associated.
InitializeHelp(h, works) ==
  IF h.up THEN h
  ELSE IF works THEN ReleaseHelpStubHook([h EXCEPT !.up = TRUE])
  ELSE SetHelpStubHook(ReleaseHelpStubHook(h))

\* WM_DESTROY of CommDlg.
Destroyed(h) == ReleaseHelpStubHook(IF h.up THEN [h EXCEPT !.up = FALSE, !.flag = FALSE] ELSE h)

(* SetPort of SERIAL: CommDlg. *)

Dismiss(p) == dlg' = [dlg EXCEPT ![p] = Closed] /\ help' = Destroyed(help)

\* InitCommDialogBox: the list holds the rates up to the highest the port, or
\* COM1 in its place, reports; all of them when neither can be asked.
BaudLists == {{r \in Rates : r <= top} : top \in Rates}

\* GetPortSettings: the time-out has a default, the settings must be there.
StoredTime(p) == IF app[p].time = NoTime THEN DEF_TIMEOUT ELSE app[p].time

\* WM_INITDLG of CommDlg: the controls show what is stored, the spin button
\* having started on some rate of its list, and the original settings are read
\* back from the controls.
Opened(p, list, was) ==
  LET shown == SetDialogValues(list, was, app[p].init) IN
  [ pc |-> "open", list |-> list, shown |-> shown, secs |-> StoredTime(p),
    org |-> GetDialogValues(shown), orgSecs |-> StoredTime(p) ]

\* The check of the owner and the read of the settings are one step: nobody
\* reinstalls the port in between.  Over the string of COMI, which has no second
\* value, WM_INITDLG reads through a null pointer: the program ends there.
SplPdSetPort(p) ==
  /\ ~Enumerating /\ dlg[p] = Closed /\ Owns("SERIAL", p) /\ app[p].init \in Text
  /\ \E list \in BaudLists : \E was \in list : dlg' = [dlg EXCEPT ![p] = Opened(p, list, was)]
  /\ help' = SetHelpStubHook(help)
  /\ UNCHANGED <<app, old, job, fails, mixed, taken, enum>>

\* The user turns the controls.
Edit(p) ==
  /\ dlg[p].pc = "open"
  /\ \E t \in UserTexts, secs \in Times :
       dlg' = [dlg EXCEPT ![p].shown = SetDialogValues(dlg[p].list, dlg[p].shown.rate, t),
                         ![p].secs = secs]
  /\ UNCHANGED <<app, old, job, help, fails, mixed, taken, enum>>

\* IDC_RESET
Reset(p) ==
  /\ dlg[p].pc = "open"
  /\ dlg' = [dlg EXCEPT ![p].shown = SetDialogValues(dlg[p].list, dlg[p].shown.rate, dlg[p].org),
                        ![p].secs = dlg[p].orgSecs]
  /\ UNCHANGED <<app, old, job, help, fails, mixed, taken, enum>>

\* IDC_DEFAULT
Default(p) ==
  /\ dlg[p].pc = "open"
  /\ dlg' = [dlg EXCEPT ![p].shown = SetDialogValues(dlg[p].list, dlg[p].shown.rate, DefaultText),
                        ![p].secs = DEF_TIMEOUT]
  /\ UNCHANGED <<app, old, job, help, fails, mixed, taken, enum>>

\* IDC_CANCEL, or the window is closed.
Cancel(p) ==
  /\ dlg[p].pc = "open"
  /\ Dismiss(p)
  /\ UNCHANGED <<app, old, job, fails, mixed, taken, enum>>

\* IDC_OK: what the controls say is compared with the original; if it is the
\* same the dialog ends, else SavePortSettings writes what differs.
OK(p) ==
  LET text == GetDialogValues(dlg[p].shown)
      secs == dlg[p].secs
  IN /\ dlg[p].pc = "open"
     /\ IF text = dlg[p].org /\ secs = dlg[p].orgSecs
        THEN Dismiss(p)
        ELSE /\ dlg' = [dlg EXCEPT ![p].pc = IF text # dlg[p].org THEN "saveinit" ELSE "savetime"]
             /\ UNCHANGED help
     /\ UNCHANGED <<app, old, job, fails, mixed, taken, enum>>

\* SavePortSettings: one write; a failure leaves the dialog open.  Nothing turns
\* a control meanwhile, so the saved text is the one the controls still make.
SaveStep(p, from, key, value, next) ==
  /\ dlg[p].pc = from
  /\ \E done \in BOOLEAN :
       /\ Write(p, key, value, done)
       /\ IF ~done THEN dlg' = [dlg EXCEPT ![p].pc = "open"] /\ UNCHANGED help
          ELSE IF next = "end" THEN Dismiss(p)
          ELSE dlg' = [dlg EXCEPT ![p].pc = next] /\ UNCHANGED help
  /\ UNCHANGED <<job, taken, enum>>

\* (mutant) the old list is forgotten.
SaveNewOnly(p) ==
  LET text == GetDialogValues(dlg[p].shown) IN
  \/ SaveStep(p, "saveinit", "init", text,
              IF dlg[p].secs # dlg[p].orgSecs THEN "savetime" ELSE "end")
  \/ SaveStep(p, "savetime", "time", dlg[p].secs, "end")

SavePortSettings(p) ==
  LET text == GetDialogValues(dlg[p].shown) IN
  \/ SaveStep(p, "saveinit", "init", text, "saveold")
  \/ SaveStep(p, "saveold", "old", text,
              IF dlg[p].secs # dlg[p].orgSecs THEN "savetime" ELSE "end")
  \/ SaveStep(p, "savetime", "time", dlg[p].secs, "end")

\* F1 or WM_HELP while a dialog is up.
Help(p) ==
  /\ dlg[p].pc = "open"
  /\ \E works \in BOOLEAN : help' = InitializeHelp(help, works)
  /\ UNCHANGED <<app, old, job, dlg, fails, mixed, taken, enum>>

(* SPLPDSETPORT: the dialog of the configuration library edits a copy of     *)
(* PortSetup, which is written back when it ends, unchecked.                 *)
SPLPDSETPORT(p) ==
  /\ ~Enumerating /\ dlg[p] = Closed /\ Owns("COMI", p) /\ app[p].setup # NoSettings
  /\ dlg' = [dlg EXCEPT ![p] = [pc |-> "setup", s |-> app[p].setup]]
  /\ UNCHANGED <<app, old, job, help, fails, mixed, taken, enum>>

SpoolerSetupDialogEnds(p) ==
  /\ dlg[p].pc = "setup"
  /\ \/ \E r \in Rates, done \in BOOLEAN : Write(p, "setup", [dlg[p].s EXCEPT !.rate = r], done)
     \/ UNCHANGED <<app, old, fails, mixed>>
  /\ dlg' = [dlg EXCEPT ![p] = Closed]
  /\ UNCHANGED <<job, help, taken, enum>>

Next ==
  \/ \E p \in Ports : SplPdInitPort(p) \/ SPLPDINITPORT(p)
  \/ /\ inited' = NoInit
     /\ \/ SplPdEnumPort \/ EnumAgain
        \/ \E p \in Ports :
             \/ \E d \in Drivers : SplPdInstallPort(p, d) \/ SplPdRemovePort(p, d)
             \/ InstallWrite(p) \/ RemoveWrite(p)
             \/ SplPdSetPort(p) \/ Edit(p) \/ Reset(p) \/ Default(p) \/ Cancel(p) \/ OK(p)
             \/ SavePortSettings(p) \/ Help(p)
             \/ SPLPDSETPORT(p) \/ SpoolerSetupDialogEnds(p)

Spec == Init /\ [][Next]_vars
-----------------------------------------------------------------------------
\* A port that a driver takes for its own has settings that driver can read,
\* however many writes of an installation failed, whatever ran in between and
\* whichever driver is installed over the other.  InitPort and the dialog rely on
\* it: they read a key the other driver, or an installation that stopped, may have
\* left out or written its own way.  The one exception is the port of SERIAL that
\* COMI has begun to install and whose name it has not written (taken): the string
\* is COMI's by then and the port still SERIAL's, for good if a write fails.
OwnedIsReadable ==
  \A p \in Ports :
    /\ Owns("SERIAL", p) /\ p \notin taken => app[p].init \in Text
    /\ Owns("COMI", p) => app[p].setup # NoSettings

\* The initialization string is kept in two places, "but we always write to
\* both places" (serial.c): with no writer at work they hold the same, unless a
\* write failed or two writers overlapped since the port was installed.
CopiesAgree ==
  \A p \in Ports :
    job[p] = NoJob /\ ~Saving(p) /\ p \notin mixed => app[p].init = old[p]

\* The settings the dialog shows are the settings InitPort programs: two parsers
\* of one string agree, for every string the program stores and every rate a
\* USHORT holds, once the time-out is there and unless COMI has half taken the
\* port.  COMI programs all of PortSetup when it reports success.
Meaning(c, secs) ==
  [ rate |-> c.rate,
    line |-> [parity |-> [PARITYNONE |-> 0, PARITYODD |-> 1, PARITYEVEN |-> 2][c.parity],
              word |-> CHOOSE n \in 5..8 : WordButton[<<"5", "6", "7", "8">>[n - 4]] = c.word,
              stop |-> [STOPBIT1 |-> 0, STOPBIT1_5 |-> 1, STOPBIT2 |-> 2][c.stop]],
    dcb |-> [timeout |-> 100 * secs,
             out |-> IF c.shake = "HSHARDW" THEN {"CTS", "DSR"} ELSE {"XON"}] ]

ProgramsWhatIsShown ==
  [][inited'.ret = "NO_ERROR" /\ fails' = fails =>
       LET p == inited'.port IN
       \/ Owns("COMI", p) /\ inited'.set = app[p].setup
       \/ /\ Owns("SERIAL", p)
          /\ p \notin taken =>
             LET c == SetDialogValues(Rates, 0, app[p].init) IN
             app[p].time # NoTime /\ c.rate < 65536 =>
               inited'.set = Meaning(c, app[p].time)]_vars

\* A dialog that ended leaves no hook behind: the hook's code is in a module
\* that SetPort frees as soon as the dialog returns.
HookGone == (\A p \in Ports : dlg[p].pc \in {"closed", "setup"}) => ~help.hook

=============================================================================
