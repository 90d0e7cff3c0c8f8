------------------------------- MODULE WinCom -------------------------------
(****************************************************************************)
(* WinCOM, the terminal and string-transfer program: the window's thread,   *)
(* the loop thread that writes (or, as a terminal, reads), the read thread  *)
(* it creates, and the event semaphores between them.                       *)
(*                                                                          *)
(* Execute creates the loop thread; Suspend shortens the time-outs of the   *)
(* port, raises bStopThread, wakes both threads and waits at most a second  *)
(* for each.  In half duplex the loop thread waits for hevStartWriteSem     *)
(* before each line it writes and the read thread for hevStartReadSem       *)
(* before each line it reads; each posts the other's semaphore.             *)
(*                                                                          *)
(* Data are whole lines.  Left out: what lines hold, the buffers, writing   *)
(* character by character (its index is a pointer that runs off), colors,   *)
(* the window and its scroll bars, and the dialogs of the COM control       *)
(* library, which run while no command does.                                *)
(****************************************************************************)
EXTENDS Integers, FiniteSets

CONSTANTS
  MaxRuns,      \* bound: loop threads ever created
  MaxCommands,  \* bound: commands of the user
  MaxLines,     \* bound: lines on their way, each direction
  Transfers     \* bound: string transfers the user chooses from

\* Half duplex is taken only with both reads and writes.
Definable == {c \in [mode : {"string"}, rd : BOOLEAN, wr : BOOLEAN, half : BOOLEAN,
                     slave : BOOLEAN, chars : BOOLEAN] : c.half => c.rd /\ c.wr}

ASSUME WinComAssumption ==
  /\ MaxRuns \in Nat \ {0} /\ MaxCommands \in Nat /\ MaxLines \in Nat \ {0}
  /\ Transfers \subseteq Definable

VARIABLES
  cfg,      \* what the dialogs define: mode, reads, writes, half duplex, slave, character reads
  open,     \* hCom # 0
  menu,     \* whether Execute and Suspend are enabled
  ui,       \* the window's thread: where it is, what follows a pause, the time-outs it saved
  msgs,     \* UM_KILLTHREAD messages posted
  stop,     \* bStopThread
  ids,      \* idThread and idReadThread are not 0
  posted,   \* the event semaphores that are posted
  loop,     \* program counters of the loop threads
  rdr,      \* program counters of the read threads, by the loop thread that created them
  skip,     \* bSkipRead of the read threads
  loc,      \* the DCB a loop thread has read
  dcb,      \* time-outs of the port
  owes,     \* complete lines at the peer
  inbuf,    \* complete lines to read
  late,     \* history: the wait for a thread to end has timed out
  quiet,    \* history: since Execute nothing timed out and no definition changed
  commands  \* commands so far

uiVars == <<cfg, open, menu, ui, msgs, commands>>
lineVars == <<owes, inbuf>>
vars == <<uiVars, stop, ids, posted, loop, rdr, skip, loc, dcb, lineVars, late, quiet>>

Runs == 1..MaxRuns
Sems == {"kill", "killRead", "startRead", "startWrite"}
User == [read |-> "user", write |-> "user"]
Short == [read |-> "short", write |-> "short"]

\* A thread waiting for a semaphore is released by the post, not by its state.
PostStartWrite(q) == [t \in Runs |-> IF q[t] = "wait" THEN "woken" ELSE q[t]]
PostStartRead(q) == [t \in Runs |-> IF q[t] = "wait" THEN "woken" ELSE q[t]]

LoopAlive(t) == loop[t] \notin {"none", "done"}
ReaderAlive(t) == rdr[t] \notin {"none", "done"}
\* A thread that does not get to look at bStopThread within a second.
LoopBusy == \E t \in Runs : loop[t] \in {"send", "sleep", "reading"}
ReaderBusy == \E t \in Runs : rdr[t] = "reading"
----------------------------------------------------------------------------
(* All semaphores are created posted. *)
Init ==
  /\ cfg = [mode |-> "none", rd |-> TRUE, wr |-> TRUE, half |-> TRUE, slave |-> FALSE,
            chars |-> TRUE]
  /\ open = FALSE /\ menu = [start |-> FALSE, pause |-> FALSE]
  /\ ui = [pc |-> "idle", next |-> "idle", saved |-> User] /\ msgs = 0
  /\ stop = TRUE /\ ids = [loop |-> FALSE, read |-> FALSE] /\ posted = Sems
  /\ loop = [t \in Runs |-> "none"] /\ rdr = [t \in Runs |-> "none"]
  /\ skip = [t \in Runs |-> FALSE] /\ loc = [t \in Runs |-> User]
  /\ dcb = User /\ owes = 0 /\ inbuf = 0
  /\ late = FALSE /\ quiet = FALSE /\ commands = 0

(* A posted message comes before the next command of the user. *)
Command ==
  /\ ui.pc = "idle" /\ msgs = 0
  /\ commands < MaxCommands /\ commands' = commands + 1

CreateThread ==
  LET unborn == {t \in Runs : loop[t] = "none"}
      t == CHOOSE u \in unborn : \A v \in unborn : u <= v
  IN /\ unborn # {}
     /\ stop' = FALSE
     /\ loop' = [loop EXCEPT ![t] = "top"]
     /\ ids' = [ids EXCEPT !.loop = TRUE]
     /\ quiet' = ~late

\* Execute.  With a loop thread it posts a semaphore that nothing waits for.
Execute ==
  /\ Command /\ menu.start
  /\ menu' = [start |-> FALSE, pause |-> TRUE]
  /\ IF ids.loop THEN UNCHANGED <<stop, loop, ids, quiet>> ELSE CreateThread
  /\ UNCHANGED <<cfg, open, ui, msgs, posted, rdr, skip, loc, dcb, lineVars, late>>

\* PauseThread, first part: the port is given short time-outs.
Pausing(next) == ui' = [pc |-> "stop", next |-> next, saved |-> dcb] /\ dcb' = Short

Suspend ==
  /\ Command /\ menu.pause
  /\ menu' = [start |-> TRUE, pause |-> FALSE]
  /\ Pausing("idle")
  /\ UNCHANGED <<cfg, open, msgs, stop, ids, posted, loop, rdr, skip, loc, lineVars, late, quiet>>

\* Select... and Exit pause a session that is running first.
Leave(next) ==
  /\ Command
  /\ IF stop THEN ui' = [ui EXCEPT !.pc = next] /\ dcb' = dcb ELSE Pausing(next)
  /\ UNCHANGED <<cfg, open, menu, msgs, stop, ids, posted, loop, rdr, skip, loc, lineVars, late,
                 quiet>>
Select == Leave("select")
Exit == Leave("gone")

\* The port dialog, OK or Cancel; the port that was open is closed by OK.
SelectPort ==
  /\ ui.pc = "select" /\ msgs = 0
  /\ ui' = [ui EXCEPT !.pc = "idle"]
  /\ \/ UNCHANGED <<open, dcb, inbuf>>
     \/ open' \in BOOLEAN /\ dcb' = User /\ inbuf' = 0
  /\ menu' = [menu EXCEPT !.start = @ \/ open']
  /\ UNCHANGED <<cfg, msgs, commands, stop, ids, posted, loop, rdr, skip, loc, owes, late,
                 quiet>>

\* KillThread: a read thread is woken only when its id is known, and waited for.
RaiseStop ==
  /\ ui.pc = "stop"
  /\ stop' = TRUE
  /\ IF ids.read
     THEN /\ ui' = [ui EXCEPT !.pc = "waitRead"]
          /\ posted' = (posted \ {"kill", "killRead"}) \union {"startRead"}
          /\ rdr' = PostStartRead(rdr)
     ELSE /\ ui' = [ui EXCEPT !.pc = "wake"]
          /\ posted' = posted \ {"kill", "killRead"}
          /\ rdr' = rdr
  /\ UNCHANGED <<cfg, open, menu, msgs, commands, ids, loop, skip, loc, dcb, lineVars, late, quiet>>

ReaderWaited ==
  /\ ui.pc = "waitRead"
  /\ \/ "killRead" \in posted /\ late' = late
     \/ ReaderBusy /\ late' = TRUE
  /\ ui' = [ui EXCEPT !.pc = "wake"]
  /\ UNCHANGED <<cfg, open, menu, msgs, commands, stop, ids, posted, loop, rdr, skip, loc, dcb,
                 lineVars, quiet>>

\* Mutant: the loop thread is not woken.
WakeLoop_NoPost ==
  /\ ui.pc = "wake"
  /\ ui' = [ui EXCEPT !.pc = IF ids.loop THEN "waitLoop" ELSE "restore"]
  /\ UNCHANGED <<cfg, open, menu, msgs, commands, stop, ids, posted, loop, rdr, skip, loc, dcb,
                 lineVars, late, quiet>>

WakeLoop ==
  /\ ui.pc = "wake"
  /\ IF ids.loop
     THEN /\ ui' = [ui EXCEPT !.pc = "waitLoop"]
          /\ posted' = posted \union {"startWrite"}
          /\ loop' = PostStartWrite(loop)
     ELSE ui' = [ui EXCEPT !.pc = "restore"] /\ UNCHANGED <<posted, loop>>
  /\ UNCHANGED <<cfg, open, menu, msgs, commands, stop, ids, rdr, skip, loc, dcb, lineVars, late,
                 quiet>>

\* Mutant: the window does not wait for the loop thread.
LoopWaited_Not ==
  /\ ui.pc = "waitLoop"
  /\ ui' = [ui EXCEPT !.pc = "restore"]
  /\ UNCHANGED <<cfg, open, menu, msgs, commands, stop, ids, posted, loop, rdr, skip, loc, dcb,
                 lineVars, late, quiet>>

LoopWaited ==
  /\ ui.pc = "waitLoop"
  /\ \/ "kill" \in posted /\ late' = late
     \/ LoopBusy /\ late' = TRUE
  /\ ui' = [ui EXCEPT !.pc = "restore"]
  /\ UNCHANGED <<cfg, open, menu, msgs, commands, stop, ids, posted, loop, rdr, skip, loc, dcb,
                 lineVars, quiet>>

\* Mutant: the time-outs are given back while the threads still run.
Restore_Early ==
  /\ ui.pc \in {"waitLoop", "restore"}
  /\ msgs' = msgs + 1
  /\ ui' = [pc |-> ui.next, next |-> "idle", saved |-> User] /\ dcb' = ui.saved
  /\ UNCHANGED <<cfg, open, menu, commands, stop, ids, posted, loop, rdr, skip, loc, lineVars, late,
                 quiet>>

\* The rest of KillThread and of PauseThread.
Restore ==
  /\ ui.pc = "restore"
  /\ msgs' = msgs + 1
  /\ ui' = [pc |-> ui.next, next |-> "idle", saved |-> User] /\ dcb' = ui.saved
  /\ UNCHANGED <<cfg, open, menu, commands, stop, ids, posted, loop, rdr, skip, loc, lineVars, late,
                 quiet>>

\* UM_KILLTHREAD, also while the port dialog is open.
Killed ==
  /\ msgs > 0 /\ ui.pc \in {"idle", "select", "gone"}
  /\ msgs' = msgs - 1
  /\ ids' = [loop |-> FALSE, read |-> FALSE]
  /\ menu' = [start |-> TRUE, pause |-> FALSE]
  /\ UNCHANGED <<cfg, open, ui, commands, stop, posted, loop, rdr, skip, loc, dcb, lineVars, late,
                 quiet>>
----------------------------------------------------------------------------
(* The other commands *)

\* Terminal..., String transfer... and the two modes.  A definition without
\* half duplex takes the posts back while a session runs.
DefineTerminal ==
  /\ Command
  /\ cfg' = [cfg EXCEPT !.mode = "terminal"]
  /\ menu' = [menu EXCEPT !.start = @ \/ open]
  /\ quiet' = FALSE
  /\ UNCHANGED <<open, ui, msgs, stop, ids, posted, loop, rdr, skip, loc, dcb, lineVars, late>>

DefineString ==
  /\ Command
  /\ \E c \in Transfers :
       /\ cfg' = IF c.wr THEN c ELSE [c EXCEPT !.slave = cfg.slave]
       /\ posted' = IF stop \/ c.half THEN posted ELSE posted \ {"startRead", "startWrite"}
  /\ menu' = [menu EXCEPT !.start = @ \/ open]
  /\ quiet' = FALSE
  /\ UNCHANGED <<open, ui, msgs, stop, ids, loop, rdr, skip, loc, dcb, lineVars, late>>

\* Manage profile: another configuration, perhaps with another port, and a
\* session that starts at once.  A running session goes on.
LoadProfile ==
  /\ Command
  /\ \E c \in Transfers \union {[cfg EXCEPT !.mode = "none"], [cfg EXCEPT !.mode = "terminal"]},
        process, executing \in BOOLEAN :
       /\ cfg' = c
       /\ \/ process /\ open' \in BOOLEAN
          \/ open' = open
       /\ dcb' = IF process /\ open' THEN User ELSE dcb
       /\ IF process /\ open' /\ executing /\ c.mode # "none"
          THEN /\ menu' = [start |-> FALSE, pause |-> TRUE]
               /\ IF ids.loop THEN quiet' = FALSE /\ UNCHANGED <<stop, loop, ids>>
                  ELSE CreateThread
          ELSE /\ menu' = [start |-> FALSE, pause |-> FALSE]
               /\ quiet' = FALSE
               /\ UNCHANGED <<stop, loop, ids>>
  /\ UNCHANGED <<ui, msgs, posted, rdr, skip, loc, lineVars, late>>

\* WM_CHAR in terminal mode, whether a session runs or not.
TypeLine ==
  /\ Command /\ cfg.mode = "terminal" /\ open
  /\ owes < MaxLines /\ owes' = owes + 1
  /\ UNCHANGED <<cfg, open, menu, ui, msgs, stop, ids, posted, loop, rdr, skip, loc, dcb, inbuf, late, quiet>>
----------------------------------------------------------------------------
(* The loop thread t *)

LoopAt(t, from, to) == loop[t] = from /\ loop' = [loop EXCEPT ![t] = to]

\* LoopThread; without a mode it goes round and round.
LoopThread(t) ==
  /\ \/ stop /\ LoopAt(t, "top", "done") /\ posted' = posted \union {"kill"}
     \/ /\ ~stop /\ posted' = posted
        /\ \/ cfg.mode = "terminal" /\ LoopAt(t, "top", "getDCB")
           \/ cfg.mode = "string" /\ LoopAt(t, "top", "enter")
  /\ UNCHANGED <<uiVars, stop, ids, rdr, skip, loc, dcb, lineVars, late, quiet>>

GetDCB(t) ==
  /\ LoopAt(t, "getDCB", "sendDCB")
  /\ loc' = [loc EXCEPT ![t] = dcb]
  /\ UNCHANGED <<uiVars, stop, ids, posted, rdr, skip, dcb, lineVars, late, quiet>>

SendDCB(t) ==
  /\ LoopAt(t, "sendDCB", "terminal")
  /\ dcb' = [loc[t] EXCEPT !.read = "terminal"]
  /\ loc' = [loc EXCEPT ![t] = User]
  /\ UNCHANGED <<uiVars, stop, ids, posted, rdr, skip, lineVars, late, quiet>>

\* TerminalRead: a line, or nothing for a second; an echo goes back.
TerminalRead(t) ==
  /\ \/ stop /\ LoopAt(t, "terminal", "top") /\ UNCHANGED <<inbuf, owes>>
     \/ ~stop /\ LoopAt(t, "terminal", "reading") /\ UNCHANGED <<inbuf, owes>>
     \/ /\ LoopAt(t, "reading", "terminal")
        /\ \/ UNCHANGED <<inbuf, owes>>
           \/ /\ inbuf > 0 /\ inbuf' = inbuf - 1
              /\ owes' \in {owes} \union {n \in {owes + 1} : n <= MaxLines}
  /\ UNCHANGED <<uiVars, stop, ids, posted, rdr, skip, loc, dcb, late, quiet>>

\* DoStringTransfer: the master starts with a write.
Enter(t) ==
  /\ LoopAt(t, "enter", "outer")
  /\ IF cfg.rd
     THEN /\ posted' = IF cfg.slave THEN posted ELSE posted \union {"startWrite"}
          /\ rdr' = [rdr EXCEPT ![t] = "top"]
          /\ ids' = [ids EXCEPT !.read = TRUE]
     ELSE UNCHANGED <<posted, rdr, ids>>
  /\ UNCHANGED <<uiVars, stop, skip, loc, dcb, lineVars, late, quiet>>

\* The two loops around a write.
TransferLoop(t) ==
  /\ \/ stop /\ LoopAt(t, "outer", "top")
     \/ ~stop /\ LoopAt(t, "outer", IF cfg.wr THEN "inner" ELSE "sleep")
     \/ stop /\ LoopAt(t, "inner", "outer")
     \/ ~stop /\ ~cfg.half /\ LoopAt(t, "inner", "send")
     \/ ~stop /\ cfg.half /\ LoopAt(t, "inner", IF "startWrite" \in posted THEN "woken" ELSE "wait")
     \/ LoopAt(t, "sleep", "outer")
  /\ UNCHANGED <<uiVars, stop, ids, posted, rdr, skip, loc, dcb, lineVars, late, quiet>>

ResetStartWrite(t) ==
  /\ LoopAt(t, "woken", "send")
  /\ posted' = posted \ {"startWrite"}
  /\ UNCHANGED <<uiVars, stop, ids, rdr, skip, loc, dcb, lineVars, late, quiet>>

\* Mutant: the read is not started.
Written_NoPost(t, arrived) ==
  /\ owes' = owes + arrived
  /\ loop[t] = "send" /\ loop' = [loop EXCEPT ![t] = "inner"]
  /\ UNCHANGED <<posted, rdr>>

\* After the line, or after an attempt that stop ended, the read may start.
Written(t, arrived) ==
  /\ owes' = owes + arrived
  /\ loop[t] = "send"
  /\ \E delay \in BOOLEAN : loop' = [loop EXCEPT ![t] = IF delay /\ ~stop THEN "sleep" ELSE "inner"]
  /\ posted' = posted \union {"startRead"}
  /\ rdr' = PostStartRead(rdr)

WriteDone(t) ==
  /\ loop[t] = "send" /\ owes < MaxLines
  /\ Written(t, 1)
  /\ UNCHANGED <<uiVars, stop, ids, skip, loc, dcb, inbuf, late, quiet>>

\* A write that times out, or fails, is tried again from the start.
WriteFails(t) ==
  /\ loop[t] = "send"
  /\ IF stop THEN Written(t, 0) ELSE UNCHANGED <<posted, loop, rdr, owes>>
  /\ quiet' = FALSE
  /\ UNCHANGED <<uiVars, stop, ids, skip, loc, dcb, inbuf, late>>
----------------------------------------------------------------------------
(* The read thread of loop thread t *)

ReaderAt(t, from, to) == rdr[t] = from /\ rdr' = [rdr EXCEPT ![t] = to]

ReadLoopThread(t) ==
  /\ \/ stop /\ ReaderAt(t, "top", "done") /\ posted' = posted \union {"killRead"}
     \/ ~stop /\ ~cfg.half /\ ReaderAt(t, "top", "reading") /\ posted' = posted
     \/ ~stop /\ cfg.half /\ posted' = posted
        /\ ReaderAt(t, "top", IF "startRead" \in posted THEN "woken" ELSE "wait")
  /\ UNCHANGED <<uiVars, stop, ids, loop, skip, loc, dcb, lineVars, late, quiet>>

\* Ten seconds without a post: the wait goes on, but the next read is skipped.
StartTimesOut(t) ==
  /\ rdr[t] = "wait" /\ ~skip[t]
  /\ skip' = [skip EXCEPT ![t] = TRUE]
  /\ quiet' = FALSE
  /\ UNCHANGED <<uiVars, stop, ids, posted, loop, rdr, loc, dcb, lineVars, late>>

ResetStartRead(t) ==
  /\ ReaderAt(t, "woken", IF skip[t] THEN "top" ELSE "reading")
  /\ skip' = [skip EXCEPT ![t] = FALSE]
  /\ posted' = posted \ {"startRead"}
  /\ UNCHANGED <<uiVars, stop, ids, loop, loc, dcb, lineVars, late, quiet>>

\* Only ReadCharacters ever reports a complete read, and not to a stopped session.
ReadLine(t) ==
  /\ inbuf > 0 /\ inbuf' = inbuf - 1
  /\ ReaderAt(t, "reading", "top")
  /\ IF cfg.chars /\ ~stop
     THEN posted' = posted \union {"startWrite"} /\ loop' = PostStartWrite(loop)
     ELSE UNCHANGED <<posted, loop>>
  /\ UNCHANGED <<uiVars, stop, ids, skip, loc, dcb, owes, late, quiet>>

ReadTimesOut(t) ==
  /\ ReaderAt(t, "reading", "top")
  /\ quiet' = FALSE
  /\ UNCHANGED <<uiVars, stop, ids, posted, loop, skip, loc, dcb, lineVars, late>>
----------------------------------------------------------------------------
(* The peer answers every line with a line. *)
PeerAnswers ==
  /\ owes > 0 /\ inbuf < MaxLines
  /\ owes' = owes - 1 /\ inbuf' = inbuf + 1
  /\ UNCHANGED <<uiVars, stop, ids, posted, loop, rdr, skip, loc, dcb, late, quiet>>

Window ==
  RaiseStop \/ ReaderWaited \/ WakeLoop \/ LoopWaited \/ Restore \/ Killed \/ SelectPort
Loop(t) ==
  \/ LoopThread(t) \/ GetDCB(t) \/ SendDCB(t) \/ TerminalRead(t) \/ Enter(t) \/ TransferLoop(t)
  \/ ResetStartWrite(t) \/ WriteDone(t)
Reader(t) == ReadLoopThread(t) \/ ResetStartRead(t) \/ ReadLine(t)

Next ==
  \/ Execute \/ Suspend \/ Select \/ Exit \/ DefineTerminal \/ DefineString \/ LoadProfile
  \/ TypeLine \/ Window \/ PeerAnswers
  \/ \E t \in Runs : Loop(t) \/ WriteFails(t) \/ Reader(t) \/ StartTimesOut(t) \/ ReadTimesOut(t)

(* Every thread runs; a write ends, and a read does when the port has the
   time-outs of a stopped session. *)
Spec ==
  /\ Init /\ [][Next]_vars
  /\ WF_vars(Window) /\ WF_vars(PeerAnswers)
  /\ \A t \in Runs : /\ WF_vars(Loop(t)) /\ WF_vars(Reader(t))
                     /\ WF_vars(stop /\ ReadTimesOut(t)) /\ WF_vars(stop /\ WriteFails(t))
----------------------------------------------------------------------------
(* Two sessions never run at once: as long as no wait of a pause has timed out,
   the loop thread has ended before the window forgets its id. *)
OneLoop ==
  ~late => \A t, u \in Runs : LoopAlive(t) /\ LoopAlive(u) => t = u

(* The short time-outs of a pause do not outlive it, although the loop thread
   reads and writes the port's time-outs at the same time. *)
TimeoutsRestored ==
  (~late /\ ui.pc \in {"idle", "select", "gone"}) => dcb.read # "short" /\ dcb.write # "short"

(* A stopped loop thread ends, unless it is taken up again, whatever it was
   waiting for, also when the pause that stopped it gave up on it. *)
StopEndsLoops ==
  \A t \in Runs : (stop /\ LoopAlive(t)) ~> (~stop \/ ~LoopAlive(t))

(* A half-duplex master that reads characters keeps writing: no post of either
   semaphore is lost, as long as nothing times out and nobody changes the
   definition of the transfer. *)
Exchanging ==
  ~stop /\ quiet /\ ~late /\ cfg.half /\ cfg.chars /\ ~cfg.slave /\ cfg.mode = "string"
ExchangeGoesOn == Exchanging ~> (~Exchanging \/ \E t \in Runs : loop[t] = "send")
=============================================================================
