---------------------------- MODULE ReadRequest ----------------------------
(***************************************************************************)
(* The Read requests of a COMi device: the Read procedure and its queue of *)
(* waiting packets, the receive interrupt (read_com), ReadFIFO, the Timer  *)
(* and the input flush.  The receive queue is what RcvFifo promises, which *)
(* RcvQueue implements.                                                    *)
(*                                                                         *)
(* A step of Read runs from one point where interrupts are enabled to the  *)
(* next.  The interrupt routine takes a byte in each step, and only the    *)
(* Timer runs between two of them; other requests run only while Read is   *)
(* blocked or has returned.  Bytes are their numbers in the stream.        *)
(*                                                                         *)
(* Left out: line errors, the transmitter that a received Xon starts, and  *)
(* a request for no bytes.  The UART does not overflow; DevHlp_Block, with *)
(* which a packet waits, is not interrupted.                               *)
(***************************************************************************)
EXTENDS RcvFifo, Integers, FiniteSets

CONSTANTS
  Stripped,   \* the bytes that are null and stripped (F2_ENABLE_NULL_STRIP)
  Sizes,      \* the lengths of the requests
  Modes,      \* the time-out processing the DCB may ask for (byFlag3)
  HasFifo,    \* DEV_FLAG2_FIFO_AVAILABLE
  Depth,      \* how many bytes the UART holds
  Start,      \* wReadTimerStart, in ticks
  MaxPkt      \* byMaxReadPktCount

ASSUME ReadAssumption ==
  /\ Byte \subseteq Nat \ {0} /\ Stripped \subseteq Byte
  /\ Sizes \subseteq Nat \ {0} /\ Modes \subseteq {"norm", "something", "none"}
  /\ HasFifo \in BOOLEAN /\ Depth \in Nat \ {0}
  /\ Start \in Nat \ {0} /\ MaxPkt \in Nat

VARIABLES
  uart,       \* the bytes in the UART
  sent,       \* the number of the last byte that came in
  isr,        \* the receive interrupt is in service
  waiting,    \* dwReadReqPktQueueHead: the lengths of the packets queued
  req,        \* the request being served: its place in Read and Read's variables
  d,          \* the device
  mem,        \* the client's buffer
  h           \* history

vars == <<q, al, overrun, uart, sent, isr, waiting, req, d, mem, h>>

Idle == [ pc |-> "idle", size |-> 0,
          left  |-> 0,           \* wBytesLeft
          off   |-> 0,           \* wOffset, from the start of the buffer
          store |-> 0,           \* wStoreCount
          di    |-> 0,           \* where the next byte goes
          back  |-> "start",     \* who called ReadFIFO
          byte  |-> 0,           \* the byte ReadFIFO has taken
          some  |-> FALSE ]      \* it has stored one (CX # 0)

Init ==
  /\ FifoInit /\ al = ErrorChar
  /\ uart = <<>> /\ sent = 0 /\ isr = FALSE /\ waiting = <<>>
  /\ req = Idle
  /\ d \in [ mode     : Modes,
             count    : {0},        \* wReadByteCount
             timer    : {0},        \* wRdTimerCount
             clear    : {TRUE},     \* dwRdSemaphore is clear
             last     : {FALSE},    \* DEV_ST1_LAST_CHAR_RCVD
             event    : {FALSE},    \* DEV_FLAG1_EVENT_RCV_BYTE
             timedOut : {FALSE},    \* DEV_ST1_RCV_TIMED_OUT
             flushed  : {FALSE},    \* DEV_ST1_INPUT_FLUSHED
             busy     : {FALSE} ]   \* DEV_ST1_RX_IN_PROGRESS
  /\ mem = <<>>
  /\ h = [ turn   |-> 0,            \* changes when a Read returns
           how    |-> "none",       \* why the last one did,
           result |-> 0,            \* and the IOcount it returned
           taken  |-> 0,            \* the last byte handed out or flushed
           from   |-> 0,            \* that byte when the Read began
           quiet  |-> 0,            \* ticks of a Read with normal time-outs since a byte
                                    \* was taken from the UART
           torn   |-> FALSE,        \* the stream is: a full queue has refused a byte,
                                    \* an interrupt took some inside ReadFIFO, or
                                    \* PhysToVirt failed over bytes handed out
           missed |-> FALSE ]       \* the semaphore was claimed after it was cleared

Lesser(i, j) == IF i < j THEN i ELSE j
Quietly == UNCHANGED <<q, al, overrun>>

-----------------------------------------------------------------------------
(* A step of Read: the request and the device change, and nothing else.    *)
Goes(r, s) ==
  /\ req' = r /\ d' = s
  /\ UNCHANGED <<uart, sent, isr, waiting, mem, h>> /\ Quietly

(* calc_final_count.                                                       *)
FinalCount == req.size - req.left

(* read_exit: the next of the packets waiting is run, or the device is free *)
(* again; s is the device before it.                                       *)
ReadExit(n, how, rest, s) ==
  /\ req' = [Idle EXCEPT !.pc = IF rest = <<>> THEN "idle" ELSE "ready"]
  /\ waiting' = rest
  /\ d' = IF rest = <<>> THEN [s EXCEPT !.busy = FALSE, !.flushed = FALSE] ELSE s
  /\ h' = [h EXCEPT !.turn = 1 - @, !.how = how, !.result = n,
                    !.missed = FALSE, !.from = 0, !.quiet = 0,
                    !.taken = IF n > 0 /\ mem[n - 1] > @ THEN mem[n - 1] ELSE @,
                    !.torn = @ \/ (how = "error" /\ n < FinalCount)]
  /\ mem' = <<>>
  /\ UNCHANGED <<uart, sent, isr>> /\ Quietly

Return(how, s) == ReadExit(FinalCount, how, waiting, s)

(* ReadBlock that forgets what the loop has stored.                        *)
ReadBlockOver ==
  Goes([req EXCEPT !.pc = "blocked"],
       [d EXCEPT !.count = req.left, !.event = FALSE, !.timedOut = FALSE,
                 !.timer = Start, !.clear = FALSE])

(* read_block, entered with interrupts off: nothing comes between the start *)
(* of the timer and the claim of the semaphore.                            *)
ReadBlock ==
  Goes([req EXCEPT !.pc = "blocked", !.off = @ + req.store],
       [d EXCEPT !.count = req.left, !.event = FALSE, !.timedOut = FALSE,
                 !.timer = Start, !.clear = FALSE])

(* read_block entered with interrupts on: a byte may come, or the Timer     *)
(* tick, between any two of its steps.                                     *)
BlockSetUp ==
  /\ req.pc = "setUp"
  /\ Goes([req EXCEPT !.pc = "clear", !.off = @ + req.store], [d EXCEPT !.count = req.left])

BlockClear ==
  /\ req.pc = "clear"
  /\ Goes([req EXCEPT !.pc = "arm"], [d EXCEPT !.event = FALSE, !.timedOut = FALSE])

BlockArm ==
  /\ req.pc = "arm"
  /\ Goes([req EXCEPT !.pc = "claim"], [d EXCEPT !.timer = Start])

BlockClaim ==
  /\ req.pc = "claim"
  /\ req' = [req EXCEPT !.pc = "blocked"]
  /\ d' = [d EXCEPT !.clear = FALSE]
  /\ h' = [h EXCEPT !.missed = d.clear]
  /\ UNCHANGED <<uart, sent, isr, waiting, mem>> /\ Quietly

-----------------------------------------------------------------------------
(* ReadFIFO.                                                               *)

(* It takes a byte; the receive register of an empty UART still has the    *)
(* last one.                                                               *)
TakesByte(r) ==
  LET b == IF uart = <<>> THEN sent ELSE Head(uart)
  IN  /\ req' = [r EXCEPT !.pc = "store", !.byte = b]
      /\ uart' = IF uart = <<>> THEN uart ELSE Tail(uart)
      /\ h' = [h EXCEPT !.quiet = IF b \in Stripped THEN @ ELSE 0]
      /\ UNCHANGED <<sent, isr, waiting, d, mem>> /\ Quietly

(* Its call at the start of a Read.                                        *)
FifoFirst ==
  /\ req.pc = "fifo"
  /\ IF uart = <<>> THEN Goes([req EXCEPT !.pc = "verify"], d) ELSE TakesByte(req)

(* WrtReceiveQueue, with interrupts on.                                    *)
FifoStore ==
  /\ req.pc = "store"
  /\ IF req.byte \in Stripped
       THEN Goes([req EXCEPT !.pc = "test"], d)
       ELSE /\ Put(req.byte) \/ Refuse
            /\ req' = [req EXCEPT !.pc = "test", !.some = TRUE]
            /\ d' = [d EXCEPT !.count = IF @ > 0 THEN @ - 1 ELSE 0]
            /\ h' = [h EXCEPT !.torn = @ \/ Len(q) = Length]
            /\ UNCHANGED <<uart, sent, isr, waiting, mem>>

(* AfterTimeout that does not look for what has come in.                   *)
AfterTimeoutOver(block) == Return("timeout", d)

(* What Read does with a time-out when ReadFIFO has found nothing: it      *)
(* blocks again if anything has come in since it blocked.                  *)
AfterTimeout(block) ==
  IF d.event THEN block ELSE Return("timeout", d)

FifoTest ==
  LET s == [d EXCEPT !.event = @ \/ req.some]
  IN  /\ req.pc = "test"
      /\ IF uart # <<>> THEN Goes([req EXCEPT !.pc = "take"], d)
         ELSE IF req.back = "start" THEN Goes([req EXCEPT !.pc = "verify"], s)
         ELSE IF req.some THEN Goes([req EXCEPT !.pc = "verify", !.off = @ + req.store], s)
         ELSE AfterTimeout(Goes([req EXCEPT !.pc = "setUp"], d))

FifoTake ==
  /\ req.pc = "take"
  /\ TakesByte(req)

ReadFIFO == FifoFirst \/ FifoStore \/ FifoTest \/ FifoTake

-----------------------------------------------------------------------------
(* Read.                                                                   *)

(* do_read of a request for n bytes; s is the device.                      *)
DoRead(n, s) ==
  /\ req' = [Idle EXCEPT !.pc = IF HasFifo THEN "fifo" ELSE "verify", !.size = n, !.left = n]
  /\ d' = [s EXCEPT !.busy = TRUE, !.flushed = FALSE]
  /\ mem' = [i \in 0 .. n - 1 |-> 0]
  /\ h' = [h EXCEPT !.from = h.taken, !.quiet = 0, !.how = "none", !.result = 0]
  /\ UNCHANGED <<uart, sent, isr>> /\ Quietly

Begin(n) ==
  /\ ~d.busy
  /\ DoRead(n, d)
  /\ UNCHANGED waiting

(* queue_packet.  A Read that finds the input flushed, or too many packets, *)
(* returns at once with no bytes and changes nothing.                      *)
QueuePacket(n) ==
  /\ d.busy /\ ~d.flushed
  /\ Len(waiting) - (IF req.pc = "ready" THEN 1 ELSE 0) < MaxPkt
  /\ waiting' = Append(waiting, n)
  /\ d' = [d EXCEPT !.timer = IF @ = 0 THEN Start ELSE @]
  /\ UNCHANGED <<uart, sent, isr, req, mem, h>> /\ Quietly

(* pull_req_packet: the thread that was run goes on, or finds its request  *)
(* flushed while it waited.                                                *)
PullPacket ==
  /\ req.pc = "ready"
  /\ IF d.flushed
       THEN ReadExit(0, "flush", Tail(waiting), d)
       ELSE DoRead(Head(waiting), d) /\ waiting' = Tail(waiting)

(* verify_and_block and set_read_loop.                                     *)
Verify ==
  /\ req.pc = "verify"
  /\ \/ ReadExit(0, "error", waiting, d)
     \/ LET wait == d.mode = "norm" \/ (d.mode = "something" /\ q = <<>>)
            r == [req EXCEPT !.di = req.off]
        IN  Goes(IF wait THEN [r EXCEPT !.pc = "normal", !.store = 0]
                         ELSE [r EXCEPT !.pc = "noWait"], d)

(* ReadReceiveQueue finds a byte.                                          *)
Fetch(r) ==
  /\ Get
  /\ mem' = [mem EXCEPT ![req.di] = Head(q)]
  /\ req' = [r EXCEPT !.left = @ - 1, !.di = @ + 1, !.pc = IF req.left = 1 THEN "full" ELSE @]
  /\ UNCHANGED <<uart, sent, isr, waiting, d, h>>

NoWaitLoop ==
  /\ req.pc = "noWait"
  /\ IF q = <<>> THEN Goes([req EXCEPT !.pc = "short"], d) ELSE Fetch(req)

NormalLoop ==
  /\ req.pc = "normal"
  /\ IF q = <<>> THEN ReadBlock ELSE Fetch([req EXCEPT !.store = @ + 1])

(* read_sem_cleared and dequeue_bytes.                                     *)
Wake ==
  LET s == [d EXCEPT !.clear = FALSE, !.last = FALSE]
  IN  /\ req.pc = "blocked" /\ d.clear
      /\ IF d.flushed THEN Return("flush", s)
         ELSE \/ Return("error", s)
              \/ Goes([req EXCEPT !.pc = "reread", !.store = 0, !.di = req.off], s)

(* read_timed_out.                                                         *)
ReadTimedOut ==
  IF HasFifo /\ uart # <<>>
    THEN TakesByte([req EXCEPT !.back = "timeout", !.some = FALSE])
    ELSE AfterTimeout(ReadBlock)

(* reread_loop and test_reentry.                                           *)
RereadLoop ==
  /\ req.pc = "reread"
  /\ IF q # <<>> THEN Fetch([req EXCEPT !.store = @ + 1])
     ELSE IF d.timedOut THEN ReadTimedOut
     ELSE IF d.mode = "something" THEN Return("some", d)
     ELSE ReadBlock

(* read_return, and read_exit of a request that got all its bytes.         *)
ReadReturn ==
  /\ req.pc \in {"full", "short"}
  /\ Return(req.pc, d)

ReadStep ==
  /\ ~isr
  /\ \/ ReadFIFO \/ PullPacket \/ Verify \/ NoWaitLoop \/ NormalLoop
     \/ BlockSetUp \/ BlockClear \/ BlockArm \/ BlockClaim \/ Wake \/ RereadLoop \/ ReadReturn

(* The request for the semaphore is interrupted.                           *)
Interrupted ==
  /\ ~isr /\ req.pc = "blocked" /\ ~d.clear
  /\ Return("error", d)

-----------------------------------------------------------------------------
(* The other requests.                                                     *)

(* InputFlush that stops the timer and wakes nobody.                       *)
InputFlushSilent ==
  LET s == [d EXCEPT !.count = 0, !.last = TRUE]
  IN  /\ Flush
      /\ uart' = <<>>
      /\ d' = IF d.busy THEN [s EXCEPT !.flushed = TRUE, !.timedOut = TRUE, !.timer = 0]
                        ELSE s
      /\ h' = [h EXCEPT !.taken = sent]
      /\ UNCHANGED <<sent, isr, waiting, req, mem>>

(* FlushInputBuffers.                                                      *)
InputFlush ==
  LET s == [d EXCEPT !.count = 0, !.last = TRUE]
  IN  /\ Flush
      /\ uart' = <<>>
      /\ d' = IF d.busy THEN [s EXCEPT !.flushed = TRUE, !.timedOut = TRUE,
                                       !.timer = 0, !.clear = TRUE]
                        ELSE s
      /\ h' = [h EXCEPT !.taken = sent]
      /\ UNCHANGED <<sent, isr, waiting, req, mem>>

Request ==
  /\ ~isr /\ req.pc \in {"idle", "ready", "blocked"}
  /\ \/ \E n \in Sizes : Begin(n) \/ QueuePacket(n)
     \/ InputFlush

-----------------------------------------------------------------------------
(* The interrupt routine, the Timer and the line.                          *)

(* get_byte to queue_byte; s is the device.                                *)
GetByte(s) ==
  LET b == Head(uart)
      more == [s EXCEPT !.count = @ - 1, !.last = @ \/ s.count = 1]
  IN  /\ uart' = Tail(uart)
      /\ IF b \in Stripped
           THEN d' = s /\ Quietly
           ELSE (Put(b) \/ Refuse) /\ d' = IF s.count = 0 THEN s ELSE more
      /\ h' = [h EXCEPT !.quiet = IF b \in Stripped THEN @ ELSE 0,
                        !.torn = \/ @ \/ req.pc \in {"store", "take"}
                                 \/ b \notin Stripped /\ Len(q) = Length]
      /\ isr' = TRUE
      /\ UNCHANGED <<sent, waiting, req, mem>>

read_com ==
  /\ ~isr /\ uart # <<>>
  /\ GetByte([d EXCEPT !.event = TRUE, !.last = @ \/ d.mode = "something"])

read_loop ==
  /\ isr /\ uart # <<>>
  /\ GetByte(d)

(* The last of its bytes: a Read that has what it waits for is woken, any   *)
(* other waits from now.                                                   *)
clear_rd_sem ==
  /\ isr /\ uart = <<>>
  /\ isr' = FALSE
  /\ d' = IF d.timer = 0 THEN d
          ELSE IF d.last THEN [d EXCEPT !.timer = 0, !.clear = TRUE]
          ELSE IF d.count # 0 THEN [d EXCEPT !.timer = Start]
          ELSE d
  /\ UNCHANGED <<uart, sent, waiting, req, mem, h>> /\ Quietly

Receive == read_com \/ read_loop \/ clear_rd_sem

Timer ==
  /\ d.timer > 0
  /\ d' = IF d.timer = 1 THEN [d EXCEPT !.timer = 0, !.timedOut = TRUE, !.clear = TRUE]
                         ELSE [d EXCEPT !.timer = @ - 1]
  /\ h' = [h EXCEPT !.quiet = IF d.mode = "norm" /\ req.pc \notin {"idle", "ready"}
                                THEN Lesser(@ + 1, Start) ELSE @]
  /\ UNCHANGED <<uart, sent, isr, waiting, req, mem>> /\ Quietly

(* A byte comes in.                                                        *)
Arrive ==
  /\ sent + 1 \in Byte /\ Len(uart) < Depth
  /\ sent' = sent + 1
  /\ uart' = Append(uart, sent + 1)
  /\ UNCHANGED <<isr, waiting, req, d, mem, h>> /\ Quietly

Next == ReadStep \/ Interrupted \/ Request \/ Receive \/ Timer \/ Arrive

Spec == Init /\ [][Next]_vars

(* A runnable thread runs, interrupts are taken and the Timer ticks.       *)
FairSpec == Spec /\ WF_vars(ReadStep) /\ WF_vars(Receive) /\ WF_vars(Timer)

-----------------------------------------------------------------------------
Returned == h'.turn # h.turn

(* A Read hands out the next bytes of the stream, each once, at the start  *)
(* of the client's buffer and as many as it says, however often it blocked, *)
(* timed out or was flushed and whoever took them from the UART.           *)
HandsOutStream ==
  [][Returned /\ ~h'.torn =>
       \A i \in 0 .. h'.result - 1 :
         LET before == IF i = 0 THEN h.from ELSE mem[i - 1]
         IN  mem[i] > before /\ before + 1 .. mem[i] - 1 \subseteq Stripped]_vars

(* A Read with normal time-outs returns with less than it was asked for    *)
(* only when nothing has come in for a whole time-out ("returns only after *)
(* either the request is filled ... or until more than the time            *)
(* represented by the read time-out count passes between bytes",           *)
(* HELP/CFG_instl.ipf), unless it was flushed or failed.                   *)
ShortAfterSilence ==
  [][Returned /\ d.mode = "norm" /\ h'.how \in {"timeout", "some", "short"} => h.quiet = Start]_vars

(* Every Read returns, unless its wake-up came while it was about to claim *)
(* the semaphore.                                                          *)
ReadReturns ==
  \A t \in {0, 1} : req.pc # "idle" /\ h.turn = t ~> h.turn # t \/ h.missed
=============================================================================
