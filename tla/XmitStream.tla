----------------------------- MODULE XmitStream -----------------------------
(***************************************************************************)
(* One Write request and everything that moves its bytes to the UART or    *)
(* stops them: the Write procedure itself, the transmit interrupt          *)
(* (write_com), StartWriteStream, the Timer, modem signal changes and      *)
(* received Xon and Xoff, the immediate byte, ForceXOFF and ForceXON and   *)
(* OutputFlush.                                                            *)
(*                                                                         *)
(* A step of Write runs from one point where interrupts are enabled to the *)
(* next.  Interrupt routines and the Timer may run between any two steps;  *)
(* other requests (the kernel is not preemptive) only while Write is       *)
(* blocked, yields or has returned.                                        *)
(*                                                                         *)
(* Bytes are counted, not named: a byte leaves the write buffer by         *)
(* advancing wXmitQueueReadPointer and decrementing wXmitQueueCount        *)
(* together, so the count says which byte is next.  HDW stands for the     *)
(* modem signals that hold the transmitter (TX_WAITING_HDW_MASK).          *)
(***************************************************************************)
EXTENDS Naturals

CONSTANTS
  Sizes,      \* the lengths of the Write requests
  Buf,        \* wWrtBufferLength
  Depth,      \* wTxFIFOdepth
  Start,      \* wWriteTimerStart, in ticks
  Infinite,   \* F3_INFINITE_WRT_TIMEOUT
  ModemInts,  \* DEV_FLAG1_MDM_INT_ENABLED
  Events      \* what may happen: "xon", "cts", "hold", "imm", "force", "flush"

ASSUME XmitAssumption ==
  /\ Sizes \subseteq Nat \ {0}
  /\ Buf \in Nat \ {0}
  /\ Depth \in Nat \ {0}
  /\ Start \in Nat \ {0}
  /\ Infinite \in BOOLEAN
  /\ ModemInts \in BOOLEAN

VARIABLES
  d,       \* the device, below
  size,    \* the length of the request
  left,    \* wBytesLeft: bytes of it not yet moved to the write buffer
  result   \* IOcount of the last request that returned

vars == <<d, size, left, result>>

(* Where Write blocks, and where it gives other requests a chance to run.  *)
Waits == {"thrWait", "hdwWait", "xoffWait", "wrtBlk"}
Yields == Waits \union {"idle", "last"}

Device ==
  [ pc       : Yields \union {"load", "thrTest", "reclaim", "open", "immOut",
                              "testHs", "enable", "more"},
    back     : Waits,    \* the wait a poll interrupted
    cnt      : Nat,      \* wXmitQueueCount
    out      : Nat,      \* history: bytes of the request handed to the UART
    room     : Nat,      \* CX: what Write will put in the FIFO at once
    fifo     : 0 .. Depth, \* bytes the UART holds; 0 is LINE_ST_TX_HOLD_EMPTY
    lost     : BOOLEAN,  \* history: the UART was given more than it can hold
    ier      : BOOLEAN,  \* INT_EN_TX_HOLD_EMPTY
    thri     : BOOLEAN,  \* a transmit interrupt is pending
    imm      : BOOLEAN,  \* DEV_FLAG1_IMM_BYTE_WAITING
    hs       : SUBSET {"HDW", "XoffRx", "XoffTx"}, \* byHSstatus, TX_WAITING_MASK
    cts      : BOOLEAN,  \* the modem signal
    delta    : BOOLEAN,  \* it changed since the modem status was read
    restart  : BOOLEAN,  \* DEV_ST2_RESTARTSTREAM
    clear    : BOOLEAN,  \* dwWrtSemaphore is clear
    blocked  : BOOLEAN,  \* DEV_FLAG1_WRT_BLOCKED
    timer    : 0 .. Start, \* wWrtTimerCount
    timedOut : BOOLEAN,  \* DEV_ST1_XMIT_TIMED_OUT
    flushed  : BOOLEAN ] \* DEV_ST1_OUTPUT_FLUSHED

TypeOK ==
  /\ d \in Device
  /\ size \in Nat
  /\ left \in Nat
  /\ result \in Nat

-----------------------------------------------------------------------------
(* The UART.                                                               *)

Lesser(i, j) == IF i < j THEN i ELSE j

(* m characters written to the transmit register.                          *)
Put(m, s) == [s EXCEPT !.fifo = Lesser(@ + m, Depth),
                       !.lost = @ \/ s.fifo + m > Depth,
                       !.thri = FALSE]

(* Enabling the interrupt while the register is empty raises one.          *)
TxIntOn(s)  == [s EXCEPT !.ier = TRUE, !.thri = @ \/ (~s.ier /\ s.fifo = 0)]
TxIntOff(s) == [s EXCEPT !.ier = FALSE, !.thri = FALSE]

(* fill_loop: as many bytes of the queue as there are, k at most.          *)
Fill(k, s) ==
  LET m == Lesser(k, s.cnt)
  IN  [Put(m, s) EXCEPT !.cnt = @ - m, !.out = @ + m]

-----------------------------------------------------------------------------
(* Shared by Write, the interrupt routines and the Timer.                  *)

SemClear(s) == [s EXCEPT !.clear = TRUE]
Rearm(s) == IF Infinite THEN s ELSE [s EXCEPT !.timer = Start]

(* ProcessModemSignals, output handshaking.                                *)
ProcessModemSignals(s) ==
  [s EXCEPT !.delta = FALSE,
            !.hs = IF s.cts THEN @ \ {"HDW"} ELSE @ \union {"HDW"},
            !.restart = @ \/ s.cts]

UpdateModemHandshakeBits(s) ==
  IF s.delta /\ ~ModemInts THEN ProcessModemSignals(s) ELSE s

(* StartWriteStream that leaves the transmit interrupt as it is.           *)
StartWriteStreamNoInt(s) ==
  LET s1 == [s EXCEPT !.restart = FALSE, !.imm = FALSE]
      s2 == IF s.imm THEN Put(1, s1) ELSE s1
      room == IF s.imm THEN Depth - 1 ELSE Depth
      nothing == s.cnt = 0 \/ s.flushed \/ (~Infinite /\ s.timer = 0)
  IN  IF s.fifo > 0 \/ "HDW" \in s.hs THEN s
      ELSE IF nothing THEN IF s.blocked THEN SemClear(s2) ELSE s2
      ELSE IF s.hs # {} THEN s2
      ELSE [Fill(room, s2) EXCEPT !.timer = Start]

(* While the register is not empty the code enables the transmit interrupt *)
(* at a port four below the UART: nothing happens to this device.          *)
StartWriteStream(s) ==
  LET s1 == [s EXCEPT !.restart = FALSE]
      s2 == IF s.imm THEN Put(1, [s1 EXCEPT !.imm = FALSE]) ELSE s1
      room == IF s.imm THEN Depth - 1 ELSE Depth
      nothing == s.cnt = 0 \/ (room > 0 /\ (s.flushed \/ (~Infinite /\ s.timer = 0)))
  IN  IF s.fifo > 0 \/ "HDW" \in s.hs THEN s
      ELSE IF nothing THEN IF s.blocked THEN SemClear(s2) ELSE s2
      ELSE IF room = 0 THEN TxIntOn(s2)
      ELSE IF s.hs # {} THEN s2
      ELSE TxIntOn([Fill(room, s2) EXCEPT !.timer = Start])

(* Leaving the interrupt routine.                                          *)
IntExit(s) == IF s.restart THEN StartWriteStream(s) ELSE s

write_com(s) ==
  LET s1 == [s EXCEPT !.thri = FALSE]
      s2 == IF s.imm THEN Put(1, [s1 EXCEPT !.imm = FALSE]) ELSE s1
      room == IF s.imm THEN Depth - 1 ELSE Depth
  IN  IF "HDW" \in s.hs THEN TxIntOff(s1)
      ELSE IF s.cnt = 0 THEN SemClear(s2)
      ELSE IF room = 0 THEN Rearm(s2)
      ELSE IF s.hs # {} THEN TxIntOff(s2)
      ELSE Rearm([Fill(room, s2) EXCEPT !.restart = FALSE])

-----------------------------------------------------------------------------
(* The stretches of Write that run with interrupts off.                    *)

(* WriteBlock: claim the semaphore, whatever its state, and request it      *)
(* again.                                                                  *)
WriteBlock(at, s) == [s EXCEPT !.pc = at, !.clear = FALSE, !.blocked = TRUE]

(* disable_write_interrupt to write_exit; result' is set with it.          *)
Finish(s) == [TxIntOff(s) EXCEPT !.pc = "idle", !.cnt = 0, !.flushed = FALSE]

(* test_HDW_TX_HS_loop                                                     *)
HdwLoop(s) ==
  LET u == UpdateModemHandshakeBits(s)
  IN  IF "HDW" \in u.hs THEN WriteBlock("hdwWait", u)
                        ELSE [u EXCEPT !.pc = "open", !.room = Depth]

(* prime_write                                                             *)
Prime(s) ==
  LET s1 == Rearm([s EXCEPT !.timedOut = FALSE])
  IN  IF s.fifo > 0 THEN WriteBlock("thrWait", s1) ELSE HdwLoop(s1)

(* test_TX_HS_loop and start_stream                                        *)
StreamLoop(s) ==
  LET u == UpdateModemHandshakeBits(s)
      f == Fill(u.room, u)
  IN  IF u.hs # {} THEN WriteBlock("xoffWait", u)
      ELSE [f EXCEPT !.pc = IF f.cnt = 0 THEN "more" ELSE "enable"]

(* What Write does when WriteBlock returns and neither a flush nor a time  *)
(* out ends it.                                                            *)
Resume(s) ==
  CASE s.pc = "thrWait"  -> [s EXCEPT !.pc = "thrTest"]
    [] s.pc = "hdwWait"  -> HdwLoop(s)
    [] s.pc = "xoffWait" -> StreamLoop(s)
    [] s.pc = "wrtBlk"   -> IF s.cnt = 0 THEN [s EXCEPT !.pc = "more"] ELSE Prime(s)

-----------------------------------------------------------------------------
Init ==
  /\ d = [ pc |-> "idle", back |-> "wrtBlk", cnt |-> 0, out |-> 0, room |-> Depth,
           fifo |-> 0, lost |-> FALSE, ier |-> FALSE, thri |-> FALSE,
           imm |-> FALSE, hs |-> {}, cts |-> TRUE, delta |-> FALSE,
           restart |-> FALSE, clear |-> TRUE, blocked |-> FALSE,
           timer |-> 0, timedOut |-> FALSE, flushed |-> FALSE ]
  /\ size = 0 /\ left = 0 /\ result = 0

(* A step that leaves the request alone.                                   *)
Becomes(s) == d' = s /\ UNCHANGED <<size, left, result>>

(* Return that counts what is still in the buffer.                         *)
ReturnLoaded(s) ==
  /\ d' = Finish(s)
  /\ result' = size - left
  /\ UNCHANGED <<size, left>>

(* Write returns, reporting what it took from the request and what is no   *)
(* longer in the buffer.                                                   *)
Return(s) ==
  /\ d' = Finish(s)
  /\ result' = size - s.cnt - left
  /\ UNCHANGED <<size, left>>

Write(n) ==
  /\ d.pc = "idle"
  /\ d' = [d EXCEPT !.pc = "load", !.out = 0]
  /\ size' = n /\ left' = n
  /\ UNCHANGED result

(* define_buffer, fill_buffer and, interrupts now off, prime_write.         *)
LoadBuffer ==
  LET m == Lesser(left, Buf)
  IN  /\ d.pc = "load"
      /\ d' = Prime([d EXCEPT !.cnt = m, !.timer = 0])
      /\ left' = left - m
      /\ UNCHANGED <<size, result>>

(* WriteBlock returns.                                                     *)
Continue(s) ==
  LET t == [s EXCEPT !.clear = FALSE, !.blocked = FALSE]
  IN  IF t.flushed \/ t.timedOut THEN Return(t) ELSE Becomes(Resume(t))

Wake ==
  /\ d.pc \in Waits
  /\ d.clear
  /\ Continue(d)

(* Without modem interrupts WriteBlock wakes now and then to look at the   *)
(* modem signals; interrupts are on by then.                               *)
Poll ==
  LET u == IF d.cnt = 0 THEN d ELSE UpdateModemHandshakeBits(d)
  IN  /\ d.pc \in Waits
      /\ ~ModemInts
      /\ ~d.clear
      /\ IF d.cnt # 0 /\ "HDW" \in u.hs
           THEN Becomes([u EXCEPT !.pc = "reclaim", !.back = d.pc])
           ELSE Continue(u)

Reclaim ==
  /\ d.pc = "reclaim"
  /\ Becomes(WriteBlock(d.back, d))

(* Interrupts are on again when the holding register is tested.            *)
TestThr ==
  /\ d.pc = "thrTest"
  /\ Becomes(IF d.fifo > 0 THEN WriteBlock("thrWait", d) ELSE HdwLoop(Rearm(d)))

(* initiate_stream: interrupts are on.                                     *)
InitiateStream ==
  /\ d.pc = "open"
  /\ Becomes([d EXCEPT !.pc = IF d.imm THEN "immOut" ELSE "testHs"])

(* The byte was taken by the step before, whoever sent it since.           *)
SendImmediate ==
  /\ d.pc = "immOut"
  /\ Becomes([Put(1, d) EXCEPT !.imm = FALSE,
                               !.room = Depth - 1,
                               !.pc = IF Depth = 1 THEN "enable" ELSE "testHs"])

(* test_TX_HS                                                              *)
TestHandshake ==
  /\ d.pc = "testHs"
  /\ IF ~Infinite /\ d.timer = 0 THEN Return(d) ELSE Becomes(StreamLoop(d))

(* enable_write_interrupts, WRT_BLK                                        *)
EnableInterrupts ==
  LET s == TxIntOn([d EXCEPT !.restart = FALSE])
  IN  /\ d.pc = "enable"
      /\ IF ~Infinite /\ d.timer = 0 THEN Return(s) ELSE Becomes(WriteBlock("wrtBlk", s))

(* test_more_data                                                          *)
MoreData ==
  /\ d.pc = "more"
  /\ Becomes(IF left > 0 THEN [d EXCEPT !.pc = "load"]
                         ELSE [d EXCEPT !.pc = "last", !.timer = 0])

(* last_out_loop: yields until the holding register is empty, or a thousand *)
(* times, which a slow line outlasts.                                      *)
LastOut ==
  /\ d.pc = "last"
  /\ Return(d)

WriteStep ==
  \/ LoadBuffer \/ Wake \/ Poll \/ Reclaim \/ TestThr \/ InitiateStream
  \/ SendImmediate \/ TestHandshake \/ EnableInterrupts \/ MoreData \/ LastOut

-----------------------------------------------------------------------------
(* The UART and the interrupt routines.                                    *)

UartSends ==
  /\ d.fifo > 0
  /\ Becomes([d EXCEPT !.fifo = @ - 1, !.thri = d.ier /\ d.fifo = 1])

TransmitInt ==
  /\ d.ier /\ d.thri
  /\ Becomes(IntExit(write_com(d)))

(* Timer that flags the time-out and wakes nobody.                         *)
TimerSilent ==
  /\ d.timer > 0
  /\ Becomes([d EXCEPT !.timer = @ - 1, !.timedOut = @ \/ d.timer = 1])

Timer ==
  LET s == [d EXCEPT !.timer = @ - 1]
  IN  /\ d.timer > 0
      /\ Becomes(IF s.timer = 0 THEN SemClear([s EXCEPT !.timedOut = TRUE])
                 ELSE IF s.restart THEN StartWriteStream(s) ELSE s)

ReceiveXoff ==
  /\ "xon" \in Events
  /\ Becomes(IntExit([d EXCEPT !.hs = @ \union {"XoffRx"}]))

ReceiveXon ==
  /\ "xon" \in Events
  /\ "XoffRx" \in d.hs
  /\ Becomes(IntExit(StartWriteStream([d EXCEPT !.hs = @ \ {"XoffRx"}])))

CtsChanges ==
  /\ "cts" \in Events
  /\ Becomes([d EXCEPT !.cts = ~@, !.delta = TRUE])

ModemInt ==
  /\ ModemInts
  /\ d.delta
  /\ Becomes(IntExit(ProcessModemSignals(d)))

(* wrt_send_Xoff of the receive queue, half duplex.                        *)
SendXoff ==
  /\ "hold" \in Events
  /\ "XoffTx" \notin d.hs
  /\ Becomes(IntExit(StartWriteStream([d EXCEPT !.imm = TRUE,
                                                !.hs = @ \union {"XoffTx"}])))

Interrupt ==
  TransmitInt \/ Timer \/ ReceiveXoff \/ ReceiveXon \/ ModemInt \/ SendXoff

-----------------------------------------------------------------------------
(* Other requests.                                                         *)

(* rd_send_Xon of the receive queue, half duplex.                          *)
SendXon ==
  /\ "hold" \in Events
  /\ d.pc \in Yields
  /\ "XoffTx" \in d.hs
  /\ Becomes(StartWriteStream([d EXCEPT !.imm = TRUE, !.hs = @ \ {"XoffTx"}]))

TXbyteImmediate ==
  LET u == UpdateModemHandshakeBits(d)
  IN  /\ "imm" \in Events
      /\ d.pc \in Yields
      /\ Becomes(IF "HDW" \notin u.hs /\ u.fifo = 0
                   THEN Put(1, [u EXCEPT !.imm = FALSE])
                   ELSE [u EXCEPT !.imm = TRUE])

ForceXOFF ==
  /\ "force" \in Events
  /\ d.pc \in Yields
  /\ Becomes([d EXCEPT !.hs = @ \union {"XoffRx"}])

(* ForceXON forgets whatever signal the transmitter waits for.             *)
ForceXON ==
  LET s == [d EXCEPT !.hs = @ \ {"HDW", "XoffRx"}]
  IN  /\ "force" \in Events
      /\ d.pc \in Yields
      /\ s # d
      /\ Becomes(IF s.hs = {} THEN StartWriteStream(s) ELSE s)

(* OutputFlush that wakes nobody.                                          *)
OutputFlushSilent ==
  /\ "flush" \in Events
  /\ d.pc \in Yields \ {"idle"}
  /\ Becomes([TxIntOff(d) EXCEPT !.flushed = TRUE, !.timer = 0])

OutputFlush ==
  LET s == [TxIntOff(d) EXCEPT !.flushed = TRUE, !.timer = 0]
  IN  /\ "flush" \in Events
      /\ d.pc \in Yields \ {"idle"}
      /\ Becomes(IF d.blocked THEN SemClear(s) ELSE s)

Request ==
  \/ \E n \in Sizes : Write(n)
  \/ SendXon \/ TXbyteImmediate \/ ForceXOFF \/ ForceXON \/ OutputFlush

Next == WriteStep \/ Interrupt \/ UartSends \/ CtsChanges \/ Request

Spec == Init /\ [][Next]_vars

(* The hardware works, the Timer ticks, interrupts are taken and a runnable *)
(* thread runs; nothing is assumed of the far end or of other requests.     *)
Fairness ==
  /\ WF_vars(WriteStep)
  /\ WF_vars(UartSends)
  /\ WF_vars(TransmitInt)
  /\ WF_vars(ModemInt)
  /\ WF_vars(Timer)

FairSpec == Spec /\ Fairness

-----------------------------------------------------------------------------
(* No byte is skipped or sent twice, whoever sends it: what the UART was    *)
(* given, what is in the buffer and what is still to be loaded make up the  *)
(* request, and the count Write returns is what the UART was given.         *)
BytesConserved ==
  IF d.pc = "idle" THEN result = d.out ELSE size = d.out + d.cnt + left

(* While Write waits for its buffer to drain and nothing holds the          *)
(* transmitter, or no longer does, the transmit interrupt is on to drain it.*)
StreamHasDriver ==
  /\ d.pc \in {"hdwWait", "xoffWait", "wrtBlk"} /\ ~d.clear
  /\ d.cnt > 0 /\ d.hs = {} /\ ~d.delta
  => d.ier /\ (d.thri \/ d.fifo > 0)

(* "... will wait up to the write time-out count": every Write with a       *)
(* time-out returns.                                                        *)
WriteReturns == d.pc # "idle" ~> d.pc = "idle"

(* "Forever can be limited by sending a flush output buffer command": after *)
(* OutputFlush a Write returns, with or without a time-out.                 *)
FlushReturns == d.flushed ~> d.pc = "idle"

=============================================================================
