---------------------------- MODULE WinComProofs ----------------------------
(****************************************************************************)
(* WinCOM never runs two loop threads at once and gives the port its        *)
(* time-outs back, for any number of sessions, commands and lines and every *)
(* choice of transfers, as long as no wait for a thread times out.          *)
(****************************************************************************)
EXTENDS WinCom, TLAPS

At(pcs) == ui.pc \in pcs
Rest == {"idle", "select", "gone"}
Pauses == {"stop", "waitRead", "wake", "waitLoop", "restore"}

Shape == /\ DOMAIN loop = Runs /\ DOMAIN loc = Runs /\ DOMAIN ids = {"loop", "read"} /\ msgs \in Nat
         /\ \A t \in Runs : DOMAIN loc[t] = {"read", "write"}
         /\ DOMAIN dcb = {"read", "write"} /\ DOMAIN ui.saved = {"read", "write"}
         /\ DOMAIN ui = {"pc", "next", "saved"} /\ At(Rest \cup Pauses) /\ ui.next \in Rest

NoLoop == \A t \in Runs : ~LoopAlive(t)
OneAlive == \A t, u \in Runs : LoopAlive(t) /\ LoopAlive(u) => t = u

(* Who forgets the loop thread knows that it has ended: the window, by the  *)
(* semaphore it reset before it waited, and by the message it posted then.  *)
EndKnown ==
  /\ ids.loop \/ NoLoop
  /\ At({"waitRead", "wake", "waitLoop"}) /\ "kill" \in posted => NoLoop
  /\ At({"restore"}) => NoLoop
  /\ msgs > 0 => NoLoop

(* Short time-outs are those of a pause: neither what the window saved nor  *)
(* what a thread is about to send outlives one.                             *)
Long(to) == to.read # "short" /\ to.write # "short"
SavedLong ==
  /\ Long(ui.saved)
  /\ At(Rest) => Long(dcb) /\ \A t \in Runs : loop[t] = "sendDCB" => Long(loc[t])

Inv == Shape /\ (~late => OneAlive /\ EndKnown /\ SavedLong)

-----------------------------------------------------------------------------
(* The steps of the threads.                                                *)

(* A thread that only ends or goes on.                                      *)
LEMMA Going ==
  ASSUME Inv, UNCHANGED <<uiVars, late>>, Shape', ids'.loop = ids.loop,
         \A t \in Runs : LoopAlive(t)' => LoopAlive(t),
         "kill" \in posted' => "kill" \in posted \/ (~late => NoLoop'),
         ~late => SavedLong'
  PROVE  Inv'
<1> SUFFICES ASSUME ~late' PROVE OneAlive' /\ EndKnown' /\ SavedLong'
  BY DEF Inv
<1>1. ~late /\ OneAlive /\ EndKnown
  BY DEF Inv
<1>2. NoLoop => NoLoop'
  BY DEF NoLoop
<1>3. OneAlive'
  BY <1>1 DEF OneAlive
<1>4. ui' = ui /\ msgs' = msgs
  BY DEF uiVars
<1>5. EndKnown'
  BY <1>1, <1>2, <1>4 DEF EndKnown, At
<1>6. QED
  BY <1>1, <1>3, <1>5

LEMMA LoopStep ==
  ASSUME Inv, NEW t \in Runs, NEW from, NEW to, LoopAt(t, from, to), from \notin {"none", "done"},
         to # "sendDCB", UNCHANGED <<uiVars, dcb, loc, late>>, ids'.loop = ids.loop,
         DOMAIN ids' = DOMAIN ids, "kill" \in posted' => "kill" \in posted \/ to = "done"
  PROVE  Inv'
<1>1. DOMAIN loop' = Runs /\ loop'[t] = to /\ \A u \in Runs \ {t} : loop'[u] = loop[u]
  BY DEF LoopAt, Inv, Shape
<1>2. ui' = ui /\ msgs' = msgs
  BY DEF uiVars
<1>3. Shape'
  BY <1>1, <1>2 DEF Inv, Shape, At
<1>4. LoopAlive(t) /\ \A u \in Runs : LoopAlive(u)' => LoopAlive(u)
  BY <1>1 DEF LoopAt, LoopAlive
<1>5. to = "done" => (~late => NoLoop')
  <2>1. to = "done" => ~LoopAlive(t)'
    BY <1>1 DEF LoopAlive
  <2>2. QED
    BY <1>4, <2>1 DEF Inv, OneAlive, NoLoop
<1>6. ~late => SavedLong'
  BY <1>1, <1>2 DEF Inv, SavedLong, At, Long
<1>7. QED
  BY <1>3, <1>4, <1>5, <1>6, Going

LEMMA LoopInv ==
  ASSUME Inv, NEW t \in Runs, Loop(t) \/ WriteFails(t)
  PROVE  Inv'
<1>1. CASE LoopThread(t)
  <2>1. UNCHANGED <<uiVars, dcb, loc, late, ids>>
    BY <1>1 DEF LoopThread
  <2>2. CASE LoopAt(t, "top", "done")
    BY <2>1, <2>2, LoopStep
  <2>3. CASE posted' = posted /\ LoopAt(t, "top", "getDCB")
    BY <2>1, <2>3, LoopStep
  <2>4. CASE posted' = posted /\ LoopAt(t, "top", "enter")
    BY <2>1, <2>4, LoopStep
  <2>5. QED
    BY <1>1, <2>2, <2>3, <2>4 DEF LoopThread
<1>2. CASE GetDCB(t)
  <2>1. /\ LoopAt(t, "getDCB", "sendDCB") /\ loc' = [loc EXCEPT ![t] = dcb]
        /\ UNCHANGED <<uiVars, ids, posted, dcb, late>>
    BY <1>2 DEF GetDCB
  <2>2. /\ DOMAIN loop' = Runs /\ loop[t] = "getDCB" /\ \A u \in Runs \ {t} : loop'[u] = loop[u]
        /\ DOMAIN loc' = Runs /\ loc'[t] = dcb /\ \A u \in Runs \ {t} : loc'[u] = loc[u]
        /\ ui' = ui /\ msgs' = msgs
    BY <2>1 DEF LoopAt, Inv, Shape, uiVars
  <2>3. Shape'
    BY <2>1, <2>2 DEF Inv, Shape, At
  <2>4. \A u \in Runs : LoopAlive(u)' => LoopAlive(u)
    BY <2>2 DEF LoopAlive
  <2>5. ~late => SavedLong'
    BY <2>1, <2>2 DEF Inv, SavedLong, At, Long
  <2>6. QED
    BY <2>1, <2>3, <2>4, <2>5, Going
<1>3. CASE SendDCB(t)
  <2>1. /\ LoopAt(t, "sendDCB", "terminal") /\ dcb' = [loc[t] EXCEPT !.read = "terminal"]
        /\ loc' = [loc EXCEPT ![t] = User] /\ UNCHANGED <<uiVars, ids, posted, late>>
    BY <1>3 DEF SendDCB
  <2>2. /\ DOMAIN loop' = Runs /\ loop[t] = "sendDCB" /\ loop'[t] = "terminal"
        /\ \A u \in Runs \ {t} : loop'[u] = loop[u]
        /\ DOMAIN loc' = Runs /\ loc'[t] = User /\ \A u \in Runs \ {t} : loc'[u] = loc[u]
        /\ ui' = ui /\ msgs' = msgs
    BY <2>1 DEF LoopAt, Inv, Shape, uiVars
  <2>3. DOMAIN dcb' = {"read", "write"} /\ dcb'.read = "terminal" /\ dcb'.write = loc[t].write
    BY <2>1 DEF Inv, Shape
  <2>4. Shape'
    BY <2>1, <2>2, <2>3 DEF Inv, Shape, At, User
  <2>5. \A u \in Runs : LoopAlive(u)' => LoopAlive(u)
    BY <2>2 DEF LoopAlive
  <2>6. ~late => SavedLong'
    BY <2>1, <2>2, <2>3 DEF Inv, SavedLong, At, Long
  <2>7. QED
    BY <2>1, <2>4, <2>5, <2>6, Going
<1>4. CASE TerminalRead(t)
  <2>1. UNCHANGED <<uiVars, dcb, loc, late, ids, posted>>
    BY <1>4 DEF TerminalRead
  <2>2. \/ LoopAt(t, "terminal", "top") \/ LoopAt(t, "terminal", "reading") \/ LoopAt(t, "reading", "terminal")
    BY <1>4 DEF TerminalRead
  <2>3. QED
    BY <2>1, <2>2, LoopStep
<1>5. CASE Enter(t)
  <2>1. /\ LoopAt(t, "enter", "outer") /\ UNCHANGED <<uiVars, dcb, loc, late>>
        /\ posted' = posted \/ posted' = posted \union {"startWrite"}
        /\ ids' = ids \/ ids' = [ids EXCEPT !.read = TRUE]
    BY <1>5 DEF Enter
  <2>2. DOMAIN ids' = DOMAIN ids /\ ids'.loop = ids.loop
    BY <2>1 DEF Inv, Shape
  <2>3. QED
    BY <2>1, <2>2, LoopStep
<1>6. CASE TransferLoop(t)
  <2>1. UNCHANGED <<uiVars, dcb, loc, late, ids, posted>>
    BY <1>6 DEF TransferLoop
  <2>2. PICK from \in {"outer", "inner", "sleep"}, to \in {"top", "inner", "sleep", "outer", "send", "woken", "wait"} :
          LoopAt(t, from, to)
    BY <1>6 DEF TransferLoop
  <2>3. QED
    BY <2>1, <2>2, LoopStep
<1>7. CASE ResetStartWrite(t)
  <2>1. /\ LoopAt(t, "woken", "send") /\ UNCHANGED <<uiVars, dcb, loc, late, ids>>
        /\ posted' = posted \ {"startWrite"}
    BY <1>7 DEF ResetStartWrite
  <2>2. QED
    BY <2>1, LoopStep
<1>8. ASSUME NEW n, Written(t, n), UNCHANGED <<uiVars, dcb, loc, late, ids>> PROVE Inv'
  <2>1. LoopAt(t, "send", "sleep") \/ LoopAt(t, "send", "inner")
    BY <1>8 DEF Written, LoopAt
  <2>2. posted' = posted \union {"startRead"}
    BY <1>8 DEF Written
  <2>3. QED
    BY <1>8, <2>1, <2>2, LoopStep
<1>9. CASE WriteDone(t)
  BY <1>8, <1>9 DEF WriteDone
<1>10. CASE WriteFails(t)
  <2>1. UNCHANGED <<uiVars, dcb, loc, late, ids>>
    BY <1>10 DEF WriteFails
  <2>2. CASE Written(t, 0)
    BY <1>8, <2>1, <2>2
  <2>3. CASE UNCHANGED <<posted, loop>>
    <3>1. Shape' /\ (~late => SavedLong')
      BY <2>1, <2>3 DEF Inv, Shape, SavedLong, At, uiVars, Long
    <3>2. QED
      BY <2>1, <2>3, <3>1, Going DEF LoopAlive
  <2>4. QED
    BY <1>10, <2>2, <2>3 DEF WriteFails
<1>11. QED
  BY <1>1, <1>2, <1>3, <1>4, <1>5, <1>6, <1>7, <1>9, <1>10 DEF Loop

(* The read threads and the peer: at most a loop thread is woken.           *)
LEMMA OthersInv ==
  ASSUME Inv, UNCHANGED <<uiVars, dcb, loc, late, ids>>, loop' = loop \/ loop' = PostStartWrite(loop),
         "kill" \in posted' => "kill" \in posted
  PROVE  Inv'
<1>1. /\ DOMAIN loop' = Runs
      /\ \A t \in Runs : loop'[t] = loop[t] \/ (loop[t] = "wait" /\ loop'[t] = "woken")
  <2>1. CASE loop' = loop
    BY <2>1 DEF Inv, Shape
  <2>2. CASE loop' = PostStartWrite(loop)
    BY <2>2 DEF PostStartWrite
  <2>3. QED
    BY <2>1, <2>2
<1>2. Shape' /\ (~late => SavedLong')
  BY <1>1 DEF Inv, Shape, SavedLong, At, uiVars, Long
<1>3. \A t \in Runs : LoopAlive(t)' => LoopAlive(t)
  BY <1>1 DEF LoopAlive
<1>4. QED
  BY <1>2, <1>3, Going

LEMMA ReaderInv ==
  ASSUME Inv, NEW t \in Runs, Reader(t) \/ StartTimesOut(t) \/ ReadTimesOut(t)
  PROVE  Inv'
<1>1. UNCHANGED <<uiVars, dcb, loc, late, ids>>
  BY DEF Reader, ReadLoopThread, ResetStartRead, ReadLine, StartTimesOut, ReadTimesOut
<1>2. loop' = loop \/ loop' = PostStartWrite(loop)
  BY DEF Reader, ReadLoopThread, ResetStartRead, ReadLine, StartTimesOut, ReadTimesOut
<1>3. "kill" \in posted' => "kill" \in posted
  BY DEF Reader, ReadLoopThread, ResetStartRead, ReadLine, StartTimesOut, ReadTimesOut
<1>4. QED
  BY <1>1, <1>2, <1>3, OthersInv

-----------------------------------------------------------------------------
(* The commands of the user.                                                *)

(* A command that leaves the threads alone, or starts one where none is.    *)
LEMMA Commanded ==
  ASSUME Inv, Command, UNCHANGED <<ui, msgs, loc, late>>, dcb' = dcb \/ dcb' = User,
         "kill" \in posted' => "kill" \in posted,
         UNCHANGED <<loop, ids>> \/ (~ids.loop /\ CreateThread)
  PROVE  Inv'
<1>1. At({"idle"}) /\ msgs = 0
  BY DEF Command, At
<1>2. DOMAIN User = {"read", "write"} /\ Long(User)
  BY DEF User, Long
<1>3. Shape' /\ (~late => SavedLong /\ Long(dcb'))
  <2>1. DOMAIN loop' = Runs /\ DOMAIN ids' = {"loop", "read"}
    BY DEF CreateThread, Inv, Shape
  <2>2. DOMAIN dcb' = {"read", "write"}
    BY <1>2 DEF Inv, Shape
  <2>3. Shape'
    BY <2>1, <2>2 DEF Inv, Shape, At
  <2>4. QED
    BY <1>1, <1>2, <2>3 DEF Inv, SavedLong, At, Rest
<1>4. CASE UNCHANGED <<loop, ids>>
  BY <1>1, <1>3, <1>4 DEF Inv, OneAlive, EndKnown, NoLoop, LoopAlive, SavedLong, At, Long
<1>5. CASE ~ids.loop /\ CreateThread
  <2>1. PICK x : loop' = [loop EXCEPT ![x] = "top"]
    BY <1>5 DEF CreateThread
  <2>2. ids'.loop
    BY <1>5 DEF CreateThread, Inv, Shape
  <2>3. ~late => NoLoop
    BY <1>5 DEF Inv, EndKnown
  <2>4. \A t \in Runs : t # x => loop'[t] = loop[t]
    BY <2>1 DEF Inv, Shape
  <2>5. ~late => OneAlive'
    BY <2>3, <2>4 DEF OneAlive, NoLoop, LoopAlive
  <2>6. EndKnown'
    BY <1>1, <2>2 DEF EndKnown, At
  <2>7. \A t \in Runs : loop'[t] = "sendDCB" => loop[t] = "sendDCB"
    BY <2>1 DEF Inv, Shape
  <2>8. ~late => SavedLong'
    BY <1>3, <2>7 DEF SavedLong, At, Long
  <2>9. QED
    BY <1>3, <2>5, <2>6, <2>8 DEF Inv
<1>6. QED
  BY <1>4, <1>5

(* A pause begins, or a dialog opens.                                       *)
LEMMA Left ==
  ASSUME Inv, Command, UNCHANGED <<msgs, ids, posted, loop, loc, late>>, NEW next \in Rest,
         Pausing(next) \/ (ui' = [ui EXCEPT !.pc = next] /\ dcb' = dcb)
  PROVE  Inv'
<1>1. At({"idle"}) /\ msgs = 0
  BY DEF Command, At
<1>2. CASE Pausing(next)
  <2>1. ui' = [pc |-> "stop", next |-> next, saved |-> dcb] /\ dcb' = Short
    BY <1>2 DEF Pausing
  <2>2. ui'.pc = "stop" /\ ui'.next = next /\ ui'.saved = dcb /\ DOMAIN ui' = {"pc", "next", "saved"}
    BY <2>1
  <2>3. DOMAIN dcb' = {"read", "write"}
    BY <2>1 DEF Short
  <2>4. Shape'
    BY <2>2, <2>3 DEF Inv, Shape, At, Pauses
  <2>5. ~late => OneAlive' /\ EndKnown'
    BY <1>1, <2>2 DEF Inv, OneAlive, EndKnown, NoLoop, LoopAlive, At
  <2>6. ~late => SavedLong'
    BY <1>1, <2>2 DEF Inv, SavedLong, At, Rest, Long
  <2>7. QED
    BY <2>4, <2>5, <2>6 DEF Inv
<1>3. CASE ui' = [ui EXCEPT !.pc = next] /\ dcb' = dcb
  <2>1. ui'.pc = next /\ ui'.next = ui.next /\ ui'.saved = ui.saved /\ DOMAIN ui' = {"pc", "next", "saved"}
    BY <1>3 DEF Inv, Shape
  <2>2. Shape'
    BY <1>3, <2>1 DEF Inv, Shape, At
  <2>3. ~late => OneAlive' /\ EndKnown'
    BY <1>1, <2>1 DEF Inv, OneAlive, EndKnown, NoLoop, LoopAlive, At, Rest
  <2>4. ~late => SavedLong'
    BY <1>1, <1>3, <2>1 DEF Inv, SavedLong, At, Rest, Long
  <2>5. QED
    BY <2>2, <2>3, <2>4 DEF Inv
<1>4. QED
  BY <1>2, <1>3

LEMMA CommandInv ==
  ASSUME Inv, Execute \/ Suspend \/ Select \/ Exit \/ DefineTerminal \/ DefineString \/ LoadProfile \/ TypeLine
  PROVE  Inv'
<1>1. CASE Execute
  <2>1. Command /\ UNCHANGED <<ui, msgs, loc, late, dcb, posted>>
    BY <1>1 DEF Execute
  <2>2. UNCHANGED <<loop, ids>> \/ (~ids.loop /\ CreateThread)
    BY <1>1 DEF Execute
  <2>3. QED
    BY <2>1, <2>2, Commanded
<1>2. CASE DefineTerminal \/ TypeLine
  <2>1. Command /\ UNCHANGED <<ui, msgs, loc, late, dcb, posted, loop, ids>>
    BY <1>2 DEF DefineTerminal, TypeLine
  <2>2. QED
    BY <2>1, Commanded
<1>3. CASE DefineString
  <2>1. Command /\ UNCHANGED <<ui, msgs, loc, late, dcb, loop, ids>> /\ ("kill" \in posted' => "kill" \in posted)
    BY <1>3 DEF DefineString
  <2>2. QED
    BY <2>1, Commanded
<1>4. CASE LoadProfile
  <2>1. Command /\ UNCHANGED <<ui, msgs, loc, late, posted>> /\ (dcb' = dcb \/ dcb' = User)
    BY <1>4 DEF LoadProfile
  <2>2. UNCHANGED <<loop, ids>> \/ (~ids.loop /\ CreateThread)
    BY <1>4 DEF LoadProfile
  <2>3. QED
    BY <2>1, <2>2, Commanded
<1>5. CASE Suspend
  <2>1. Command /\ Pausing("idle") /\ UNCHANGED <<msgs, ids, posted, loop, loc, late>> /\ "idle" \in Rest
    BY <1>5 DEF Suspend, Rest
  <2>2. QED
    BY <2>1, Left
<1>6. CASE Select \/ Exit
  <2>1. PICK next \in {"select", "gone"} : Leave(next)
    BY <1>6 DEF Select, Exit
  <2>2. /\ Command /\ UNCHANGED <<msgs, ids, posted, loop, loc, late>> /\ next \in Rest
        /\ Pausing(next) \/ (ui' = [ui EXCEPT !.pc = next] /\ dcb' = dcb)
    BY <2>1 DEF Leave, Rest
  <2>3. QED
    BY <2>2, Left
<1>7. QED
  BY <1>1, <1>2, <1>3, <1>4, <1>5, <1>6

-----------------------------------------------------------------------------
(* The window's thread while it pauses a session.                           *)

(* A step of the window within a pause: it moves on, and may wake a thread. *)
LEMMA PauseStep ==
  ASSUME Inv, NEW pc \in Pauses, At(Pauses), ui' = [ui EXCEPT !.pc = pc],
         UNCHANGED <<msgs, ids, dcb, loc>>, loop' = loop \/ loop' = PostStartWrite(loop),
         ~late' => /\ ~late
                   /\ pc = "restore" => NoLoop
                   /\ pc \in {"waitRead", "wake", "waitLoop"} /\ "kill" \in posted' => NoLoop
  PROVE  Inv'
<1>1. /\ DOMAIN loop' = Runs
      /\ \A t \in Runs : loop'[t] = loop[t] \/ (loop[t] = "wait" /\ loop'[t] = "woken")
  <2>1. CASE loop' = loop
    BY <2>1 DEF Inv, Shape
  <2>2. CASE loop' = PostStartWrite(loop)
    BY <2>2 DEF PostStartWrite
  <2>3. QED
    BY <2>1, <2>2
<1>2. ui'.pc = pc /\ ui'.next = ui.next /\ ui'.saved = ui.saved /\ DOMAIN ui' = {"pc", "next", "saved"}
  BY DEF Inv, Shape
<1>3. Shape'
  BY <1>1, <1>2 DEF Inv, Shape, At
<1>4. \A t \in Runs : LoopAlive(t)' => LoopAlive(t)
  BY <1>1 DEF LoopAlive
<1>5. NoLoop => NoLoop'
  BY <1>4 DEF NoLoop
<1>6. ~late' => OneAlive'
  BY <1>4 DEF Inv, OneAlive
<1>7. ~late' => EndKnown'
  BY <1>2, <1>5 DEF Inv, EndKnown, At
<1>8. ~late' => SavedLong'
  <2>1. pc \notin Rest
    BY DEF Pauses, Rest
  <2>2. QED
    BY <1>2, <2>1 DEF Inv, SavedLong, At, Long
<1>9. QED
  BY <1>3, <1>6, <1>7, <1>8 DEF Inv

LEMMA WindowInv ==
  ASSUME Inv, Window
  PROVE  Inv'
<1>1. CASE RaiseStop
  <2>1. PICK pc \in {"waitRead", "wake"} : ui' = [ui EXCEPT !.pc = pc]
    BY <1>1 DEF RaiseStop
  <2>2. /\ At(Pauses) /\ pc \in Pauses /\ pc # "restore" /\ "kill" \notin posted'
        /\ UNCHANGED <<msgs, ids, dcb, loc, loop, late>>
    BY <1>1 DEF RaiseStop, At, Pauses
  <2>3. QED
    BY <2>1, <2>2, PauseStep
<1>2. CASE ReaderWaited
  <2>1. /\ ui' = [ui EXCEPT !.pc = "wake"] /\ ui.pc = "waitRead" /\ UNCHANGED <<msgs, ids, dcb, loc, loop, posted>>
        /\ ~late' => ~late
    BY <1>2 DEF ReaderWaited
  <2>2. At(Pauses) /\ "wake" \in Pauses /\ At({"waitRead", "wake", "waitLoop"})
    BY <2>1 DEF At, Pauses
  <2>3. ~late' => ("kill" \in posted' => NoLoop)
    BY <2>1, <2>2 DEF Inv, EndKnown
  <2>4. QED
    BY <2>1, <2>2, <2>3, PauseStep
<1>3. CASE WakeLoop
  <2>1. /\ ui.pc = "wake" /\ UNCHANGED <<msgs, ids, dcb, loc, late>>
        /\ At(Pauses) /\ "waitLoop" \in Pauses /\ "restore" \in Pauses /\ At({"waitRead", "wake", "waitLoop"})
    BY <1>3 DEF WakeLoop, At, Pauses
  <2>2. CASE ids.loop
    <3>1. ui' = [ui EXCEPT !.pc = "waitLoop"] /\ posted' = posted \union {"startWrite"} /\ loop' = PostStartWrite(loop)
      BY <1>3, <2>2 DEF WakeLoop
    <3>2. ~late' => ("kill" \in posted' => NoLoop)
      BY <2>1, <3>1 DEF Inv, EndKnown
    <3>3. QED
      BY <2>1, <3>1, <3>2, PauseStep
  <2>3. CASE ~ids.loop
    <3>1. ui' = [ui EXCEPT !.pc = "restore"] /\ UNCHANGED <<posted, loop>>
      BY <1>3, <2>3 DEF WakeLoop
    <3>2. ~late' => NoLoop
      BY <2>1, <2>3 DEF Inv, EndKnown
    <3>3. QED
      BY <2>1, <3>1, <3>2, PauseStep
  <2>4. QED
    BY <2>2, <2>3
<1>4. CASE LoopWaited
  <2>1. /\ ui' = [ui EXCEPT !.pc = "restore"] /\ ui.pc = "waitLoop" /\ UNCHANGED <<msgs, ids, dcb, loc, loop, posted>>
        /\ ~late' => ~late /\ "kill" \in posted
    BY <1>4 DEF LoopWaited
  <2>2. At(Pauses) /\ "restore" \in Pauses /\ At({"waitRead", "wake", "waitLoop"})
    BY <2>1 DEF At, Pauses
  <2>3. ~late' => NoLoop
    BY <2>1, <2>2 DEF Inv, EndKnown
  <2>4. QED
    BY <2>1, <2>2, <2>3, PauseStep
<1>5. CASE Restore
  <2>1. /\ ui.pc = "restore" /\ msgs' = msgs + 1 /\ ui' = [pc |-> ui.next, next |-> "idle", saved |-> User]
        /\ dcb' = ui.saved /\ UNCHANGED <<ids, posted, loop, loc, late>>
    BY <1>5 DEF Restore
  <2>2. ui'.pc = ui.next /\ ui'.next = "idle" /\ ui'.saved = User /\ DOMAIN ui' = {"pc", "next", "saved"}
    BY <2>1
  <2>3. DOMAIN User = {"read", "write"} /\ Long(User) /\ "idle" \in Rest
    BY DEF User, Long, Rest
  <2>4. Shape'
    BY <2>1, <2>2, <2>3 DEF Inv, Shape, At
  <2>5. ~late => NoLoop
    BY <2>1 DEF Inv, EndKnown, At
  <2>6. ~late => OneAlive' /\ EndKnown'
    BY <2>1, <2>5 DEF OneAlive, EndKnown, NoLoop, LoopAlive
  <2>7. ~late => SavedLong'
    <3>1. ~late => Long(ui.saved)
      BY DEF Inv, SavedLong
    <3>2. ~late => \A t \in Runs : loop[t] # "sendDCB"
      BY <2>5 DEF NoLoop, LoopAlive
    <3>3. QED
      BY <2>1, <2>2, <2>3, <3>1, <3>2 DEF SavedLong, Long
  <2>8. QED
    BY <2>1, <2>4, <2>6, <2>7 DEF Inv
<1>6. CASE Killed
  <2>1. /\ msgs > 0 /\ msgs' = msgs - 1 /\ ids' = [loop |-> FALSE, read |-> FALSE]
        /\ UNCHANGED <<ui, posted, loop, loc, dcb, late>>
    BY <1>6 DEF Killed
  <2>2. Shape'
    BY <2>1 DEF Inv, Shape, At
  <2>3. ~late => NoLoop
    BY <2>1 DEF Inv, EndKnown
  <2>4. ~late => OneAlive' /\ EndKnown' /\ SavedLong'
    BY <2>1, <2>3 DEF Inv, OneAlive, EndKnown, NoLoop, LoopAlive, SavedLong, At, Long
  <2>5. QED
    BY <2>1, <2>2, <2>4 DEF Inv
<1>7. CASE SelectPort
  <2>1. /\ ui.pc = "select" /\ msgs = 0 /\ ui' = [ui EXCEPT !.pc = "idle"]
        /\ dcb' = dcb \/ dcb' = User
        /\ UNCHANGED <<msgs, ids, posted, loop, loc, late>>
    BY <1>7 DEF SelectPort
  <2>2. ui'.pc = "idle" /\ ui'.next = ui.next /\ ui'.saved = ui.saved /\ DOMAIN ui' = {"pc", "next", "saved"}
    BY <2>1 DEF Inv, Shape
  <2>3. DOMAIN User = {"read", "write"} /\ Long(User)
    BY DEF User, Long
  <2>4. Shape'
    BY <2>1, <2>2, <2>3 DEF Inv, Shape, At, Rest
  <2>5. ~late => OneAlive' /\ EndKnown'
    BY <2>1, <2>2 DEF Inv, OneAlive, EndKnown, NoLoop, LoopAlive, At
  <2>6. ~late => SavedLong'
    BY <2>1, <2>2, <2>3 DEF Inv, SavedLong, At, Rest, Long
  <2>7. QED
    BY <2>1, <2>4, <2>5, <2>6 DEF Inv
<1>8. QED
  BY <1>1, <1>2, <1>3, <1>4, <1>5, <1>6, <1>7 DEF Window

-----------------------------------------------------------------------------
LEMMA InitInv == Init => Inv
<1> SUFFICES ASSUME Init PROVE Inv
  OBVIOUS
<1>1. /\ loop = [t \in Runs |-> "none"] /\ loc = [t \in Runs |-> User] /\ dcb = User /\ msgs = 0
      /\ ui = [pc |-> "idle", next |-> "idle", saved |-> User] /\ ids = [loop |-> FALSE, read |-> FALSE]
  BY DEF Init
<1>2. DOMAIN User = {"read", "write"} /\ Long(User)
  BY DEF User, Long
<1>3. Shape
  BY <1>1, <1>2 DEF Shape, At, Rest
<1>4. NoLoop
  BY <1>1 DEF NoLoop, LoopAlive
<1>5. OneAlive /\ EndKnown
  BY <1>1, <1>4 DEF OneAlive, EndKnown, NoLoop, At
<1>6. SavedLong
  BY <1>1, <1>2 DEF SavedLong, At
<1>7. QED
  BY <1>3, <1>5, <1>6 DEF Inv

LEMMA NextInv == Inv /\ [Next]_vars => Inv'
<1> SUFFICES ASSUME Inv, [Next]_vars PROVE Inv'
  OBVIOUS
<1>1. CASE UNCHANGED vars \/ PeerAnswers
  <2>1. UNCHANGED <<uiVars, dcb, loc, late, ids, loop, posted>>
    BY <1>1 DEF vars, PeerAnswers
  <2>2. QED
    BY <2>1, OthersInv
<1>2. QED
  BY <1>1, CommandInv, WindowInv, LoopInv, ReaderInv DEF Next

(* Two sessions never run at once: Execute, Suspend, a profile and the end  *)
(* of the loop thread, in whatever order (WINCOM32/wincom.c, thread.c).     *)
THEOREM OneLoopCorrect == Spec => []OneLoop
<1>1. Inv => OneLoop
  BY DEF Inv, OneAlive, OneLoop
<1>2. QED
  BY <1>1, InitInv, NextInv, PTL DEF Spec

(* The short time-outs of PauseThread do not outlive it.                    *)
THEOREM TimeoutsCorrect == Spec => []TimeoutsRestored
<1>1. Inv => TimeoutsRestored
  BY DEF Inv, SavedLong, At, Rest, Long, TimeoutsRestored
<1>2. QED
  BY <1>1, InitInv, NextInv, PTL DEF Spec
=============================================================================
