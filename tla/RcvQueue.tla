------------------------------ MODULE RcvQueue ------------------------------
(***************************************************************************)
(* The receive queue of a COMi device and the input handshaking it drives: *)
(* WrtReceiveQueue (called for every byte taken from the UART),            *)
(* ReadReceiveQueue (called by Read), Peek, InputFlush with its two halves *)
(* FlushInputBuffers and ClearInputHandshake, and the part of set_DCB that *)
(* changes input handshaking (ProcessFlag2).                               *)
(*                                                                         *)
(* Each operation is one step: the reader calls ReadReceiveQueue with      *)
(* interrupts off, and a UART without a FIFO is read by its interrupt      *)
(* routine alone.                                                          *)
(*                                                                         *)
(* RTS stands for both modem lines that can be dropped to hold the peer:   *)
(* the code treats DTR beside RTS in the same places and in the same way.  *)
(***************************************************************************)
EXTENDS Naturals, Sequences

CONSTANTS
  Byte,           \* the bytes a peer may send
  ErrorChar,      \* byErrorChar
  Length,         \* dwReadBufferLength
  XoffThreshold,  \* wXoffThreshold: hold the peer when this little room is left
  XonThreshold,   \* wXonThreshold: release it when this much room is free again
  ErrorRepl,      \* F2_ENABLE_ERROR_REPL
  Word,           \* the number of values of a 16-bit register
  Calls           \* the IOCtls a client may make: "flush", "dcb"

ASSUME LengthAssumption ==
  /\ Length \in Nat \ {0}
  /\ ErrorRepl \in BOOLEAN
  /\ Word \in Nat
  /\ Length <= Word

(* What MemorySetup and OpenProcess establish: room for the threshold, and *)
(* a release level above the hold level and reachable before the queue is  *)
(* empty.  (SetThresholds does not enforce it.)                            *)
ASSUME ThresholdAssumption ==
  /\ XoffThreshold \in Nat
  /\ XonThreshold \in Nat
  /\ XoffThreshold + 2 <= XonThreshold
  /\ XonThreshold <= Length - 1

VARIABLES
  buf,      \* the bytes from oReadBuffer (offset 0) to dwReadBufferExtent
  wp,       \* dwReceiveQueueWritePointer
  rp,       \* dwReceiveQueueReadPointer
  full,     \* DEV_ST1_RCV_QUEUE_FULL
  empty,    \* DEV_ST1_RCV_QUEUE_EMPTY
  al,       \* the byte last returned to a reader
  overrun,  \* COMERR_RCV_QUEUE_OVERRUN in wCOMerror
  fc,       \* the flow control state, below
  late      \* history: bytes received since input handshaking went in progress

ringVars == <<buf, wp, rp, full, empty>>
vars == <<buf, wp, rp, full, empty, al, overrun, fc, late>>

Cell == Byte \union {ErrorChar}
Index == 0 .. Length - 1
Extent == Length - 1

(* The input handshaking bits of wDeviceFlag1 and what they drive.  peer is *)
(* what the far end last heard: "stop" after an Xoff, "go" after an Xon.    *)
(* "LSR" is a line status value that ended up in the immediate byte.        *)
FlowControl ==
  [ enabled    : SUBSET {"XonXoff", "RTS"},   \* DEV_FLAG1_INPUT_HS_MASK
    fullDuplex : BOOLEAN,                     \* F2_ENABLE_FULL_DUPLEX
    inProgress : BOOLEAN,                     \* DEV_FLAG1_INPUT_HS_IN_PROGRESS
    xoffSent   : BOOLEAN,                     \* DEV_FLAG1_EVENT_XOFF_SENT
    txWait     : BOOLEAN,                     \* TX_WAITING_BECAUSE_XOFF_TX
    rts        : BOOLEAN,                     \* MDM_CTL_RTS_ACTIVATE
    imm        : {"none", "Xon", "Xoff", "LSR"}, \* byImmediateByte, if waiting
    thrEmpty   : BOOLEAN,                     \* LINE_ST_TX_HOLD_EMPTY
    peer       : {"go", "stop"} ]

TypeOK ==
  /\ buf \in [Index -> Cell]
  /\ wp \in Index
  /\ rp \in Index
  /\ full \in BOOLEAN
  /\ empty \in BOOLEAN
  /\ al \in Cell
  /\ overrun \in BOOLEAN
  /\ fc \in FlowControl
  /\ late \in 0 .. Length + 1

-----------------------------------------------------------------------------
(* The ring.                                                               *)

Next1(p) == IF p < Extent THEN p + 1 ELSE 0
(* Prev1 that steps back only when it wraps.                               *)
Prev1Wrong(p) == IF p = 0 THEN Extent ELSE p

Prev1(p) == IF p = 0 THEN Extent ELSE p - 1

Count == IF full THEN Length
         ELSE IF rp <= wp THEN wp - rp ELSE Length - rp + wp

Slot(k) == IF rp + k <= Extent THEN rp + k ELSE rp + k - Length

(* The queue's bytes, oldest first: the refinement mapping to RcvFifo.     *)
Contents == [i \in 1 .. Count |-> buf[Slot(i - 1)]]

(* RoomAfterStore without the spare byte.                                  *)
RoomAfterStoreExact(w) == IF rp <= w THEN Length - (w - rp) ELSE rp - w

(* Room left as WrtReceiveQueue computes it after a store at w, one less   *)
(* than the room there is (and Extent when the store filled the queue).    *)
RoomAfterStore(w) == IF rp <= w THEN Extent - (w - rp) ELSE rp - w - 1

(* RoomAfterRead as WrtReceiveQueue computes room.                         *)
RoomAfterReadShort(r) == IF wp < r THEN r - wp - 1 ELSE r - wp + Length - 1

(* Distance from the write pointer forward to the read pointer, as         *)
(* ReadReceiveQueue computes it after a read that moved the latter to r.   *)
RoomAfterRead(r) == IF wp <= r THEN r - wp ELSE r - wp + Length

GetReceiveQueueHSspan ==
  IF full THEN 0
  ELSE IF rp <= wp THEN Length - (wp - rp) ELSE rp - wp - 1

-----------------------------------------------------------------------------
(* Flow control.  Each operator maps a flow control state to the next one. *)

(* A character put in the transmit holding register reaches the peer.      *)
Transmit(c, s) ==
  [s EXCEPT !.thrEmpty = FALSE,
            !.peer = IF c = "Xoff" THEN "stop" ELSE IF c = "Xon" THEN "go" ELSE @]

(* StartWriteStream with an empty transmit queue and no output handshake:  *)
(* only a waiting immediate byte can be sent.                              *)
StartWriteStream(s) ==
  IF s.imm # "none" /\ s.thrEmpty
    THEN Transmit(s.imm, [s EXCEPT !.imm = "none"])
    ELSE s

(* HoldPeer that forgets it sent an Xoff.                                  *)
HoldPeerForgets(s) ==
  LET s1 == [s EXCEPT !.inProgress = TRUE, !.rts = @ /\ "RTS" \notin s.enabled]
  IN  IF "XonXoff" \in s.enabled
        THEN StartWriteStream([s1 EXCEPT !.txWait = @ \/ ~s.fullDuplex, !.imm = "Xoff"])
        ELSE s1

(* wrt_send_Xoff                                                           *)
HoldPeer(s) ==
  LET xoff == "XonXoff" \in s.enabled /\ ~s.xoffSent
      s1 == [s EXCEPT !.inProgress = TRUE]
      s2 == IF xoff
              THEN StartWriteStream([s1 EXCEPT !.txWait = @ \/ ~s.fullDuplex,
                                               !.xoffSent = TRUE,
                                               !.imm = "Xoff"])
              ELSE s1
  IN  IF "RTS" \in s.enabled THEN [s2 EXCEPT !.rts = FALSE] ELSE s2

(* ReleasePeer that clears the flags only.                                 *)
ReleasePeerSilent(s) ==
  [s EXCEPT !.inProgress = FALSE, !.txWait = FALSE, !.xoffSent = FALSE]

(* rd_send_Xon                                                             *)
ReleasePeer(s) ==
  LET xon == "XonXoff" \in s.enabled /\ s.xoffSent
      s1 == [s EXCEPT !.inProgress = FALSE]
      s2 == IF xon
              THEN StartWriteStream([s1 EXCEPT !.txWait = FALSE,
                                               !.xoffSent = FALSE,
                                               !.imm = "Xon"])
              ELSE s1
  IN  IF "RTS" \in s.enabled THEN [s2 EXCEPT !.rts = TRUE] ELSE s2

(* The code jumps to load_immediate_byte with the line status still in AL, *)
(* and takes the enabling bits of the modem lines away with the hold.      *)
ClearInputHandshake(s) ==
  LET s1 == [s EXCEPT !.inProgress = FALSE]
      s2 == [s1 EXCEPT !.txWait = FALSE, !.xoffSent = FALSE]
      s3 == IF "XonXoff" \notin s.enabled THEN s1
            ELSE IF s.thrEmpty THEN Transmit("Xon", s2)
            ELSE StartWriteStream([s2 EXCEPT !.imm = "LSR"])
      s4 == IF "RTS" \in s.enabled
              THEN [s3 EXCEPT !.rts = TRUE, !.enabled = @ \ {"RTS"}]
              ELSE s3
  IN  IF s.enabled # {} /\ s.inProgress THEN s4 ELSE s

-----------------------------------------------------------------------------
Init ==
  /\ buf \in [Index -> Cell]
  /\ wp = 0 /\ rp = 0
  /\ full = FALSE /\ empty = TRUE
  /\ al \in Cell
  /\ overrun = FALSE
  /\ late = 0
  /\ fc \in { s \in FlowControl :
                /\ ~s.inProgress /\ ~s.xoffSent /\ ~s.txWait
                /\ s.rts /\ s.imm = "none" /\ s.thrEmpty /\ s.peer = "go" }

(* WrtReceiveQueue, the byte refused.                                      *)
RefuseByte ==
  /\ full
  /\ overrun' = TRUE
  /\ buf' = IF ErrorRepl THEN [buf EXCEPT ![Prev1(wp)] = ErrorChar] ELSE buf
  /\ late' = IF fc.inProgress /\ late <= Length THEN late + 1 ELSE late
  /\ UNCHANGED <<wp, rp, full, empty, al, fc>>

(* WrtReceiveQueue, the byte stored, and the peer held when room gets short.*)
StoreByte(b) ==
  LET w == Next1(wp)
      hold == /\ fc.enabled # {}
              /\ ~fc.inProgress
              /\ RoomAfterStore(w) <= XoffThreshold
  IN  /\ ~full
      /\ buf' = [buf EXCEPT ![wp] = b]
      /\ wp' = w
      /\ full' = (rp = w)
      /\ empty' = FALSE
      /\ fc' = IF hold THEN HoldPeer(fc) ELSE fc
      /\ late' = IF hold THEN 0
                 ELSE IF fc.inProgress /\ late <= Length THEN late + 1
                 ELSE late
      /\ UNCHANGED <<rp, al, overrun>>

WrtReceiveQueue(b) == RefuseByte \/ StoreByte(b)

(* ReadReceiveQueue: an empty queue returns carry and changes nothing, not  *)
(* even a handshake in progress.                                            *)
ReadReceiveQueue ==
  LET r == Next1(rp)
      release == /\ fc.enabled # {}
                 /\ fc.inProgress
                 /\ RoomAfterRead(r) >= XonThreshold
  IN  /\ ~empty
      /\ al' = buf[rp]
      /\ rp' = r
      /\ empty' = (wp = r)
      /\ full' = FALSE
      /\ fc' = IF release THEN ReleasePeer(fc) ELSE fc
      /\ UNCHANGED <<buf, wp, overrun, late>>

Peek ==
  /\ ~empty
  /\ al' = buf[rp]
  /\ UNCHANGED <<buf, wp, rp, full, empty, overrun, fc, late>>

(* InputFlush = FlushInputBuffers; ClearInputHandshake.                    *)
InputFlush ==
  /\ "flush" \in Calls
  /\ wp' = 0 /\ rp' = 0
  /\ full' = FALSE /\ empty' = TRUE
  /\ fc' = ClearInputHandshake(fc)
  /\ UNCHANGED <<buf, al, overrun, late>>

(* GetComError reports wCOMerror and clears it.                            *)
GetComError ==
  /\ overrun' = FALSE
  /\ UNCHANGED <<buf, wp, rp, full, empty, al, fc, late>>
-----------------------------------------------------------------------------
(* ProcessFlag2, its steps in the code's order.                            *)

(* test_TX_waiting / test_handshake                                        *)
SetDuplex(s, duplex) ==
  [s EXCEPT !.fullDuplex = duplex,
            !.txWait = IF duplex THEN FALSE
                       ELSE @ \/ ("XonXoff" \in s.enabled /\ s.inProgress)]

(* process_RTS_SW_HS / clear_SW_RTS_HS_device_flag, reset_RTS.  The test    *)
(* that raises RTS compares ECX, the one that drops it compares CX.         *)
SetRts(s, want, level) ==
  IF "RTS" \notin want
    THEN [s EXCEPT !.enabled = @ \ {"RTS"}, !.rts = level]
    ELSE LET short == GetReceiveQueueHSspan < XoffThreshold
             short16 == GetReceiveQueueHSspan % Word < XoffThreshold
             s1 == [s EXCEPT !.enabled = @ \union {"RTS"}]
         IN  IF ~s.rts /\ ~short
               THEN [s1 EXCEPT !.rts = TRUE, !.inProgress = FALSE]
             ELSE IF s.rts /\ short16
               THEN [s1 EXCEPT !.rts = FALSE, !.inProgress = TRUE]
             ELSE s1

(* Write to the hardware if it is ready, else store for later.             *)
SendOrStore(c, s) == IF s.thrEmpty THEN Transmit(c, s) ELSE [s EXCEPT !.imm = c]

(* test_receive_Xon_Xoff; bXoffSent was latched on entry.                   *)
SetXonXoff(s, want, bXoffSent) ==
  IF "XonXoff" \notin want
    THEN LET s1 == [s EXCEPT !.enabled = @ \ {"XonXoff"}]
             s2 == IF bXoffSent THEN SendOrStore("Xon", s1) ELSE s1
         IN  [s2 EXCEPT !.txWait = FALSE,
                        !.inProgress = @ /\ "RTS" \in s2.enabled]
    ELSE LET s1 == [s EXCEPT !.enabled = @ \union {"XonXoff"}]
         IN  IF GetReceiveQueueHSspan >= XoffThreshold THEN s1
             ELSE [SendOrStore("Xoff", s1) EXCEPT
                     !.inProgress = TRUE,
                     !.txWait = @ \/ ~s.fullDuplex]

(* set_DCB asking for the handshaking in want; level is the RTS level asked *)
(* for when RTS is not a handshaking line.  A transmitter that full duplex  *)
(* lets go is restarted at the end.                                         *)
SetDCB(want, duplex, level) ==
  LET bXoffSent == fc.inProgress /\ "XonXoff" \in fc.enabled
      restart == duplex /\ fc.txWait
      s == SetXonXoff(SetRts(SetDuplex(fc, duplex), want, level), want, bXoffSent)
      s1 == IF restart THEN StartWriteStream(s) ELSE s
  IN  /\ "dcb" \in Calls
      /\ fc' = s1
      /\ late' = IF s1.inProgress /\ ~fc.inProgress THEN 0 ELSE late
      /\ UNCHANGED <<buf, wp, rp, full, empty, al, overrun>>

-----------------------------------------------------------------------------
(* The transmitter.                                                        *)

(* The UART shifts the holding register out.                               *)
ThrEmpties ==
  /\ ~fc.thrEmpty
  /\ fc' = [fc EXCEPT !.thrEmpty = TRUE]
  /\ UNCHANGED <<buf, wp, rp, full, empty, al, overrun, late>>

(* Any of the transmit paths finds the immediate byte waiting (XmitStream  *)
(* says when one does).                                                    *)
SendImmediate ==
  /\ fc.imm # "none" /\ fc.thrEmpty
  /\ fc' = StartWriteStream(fc)
  /\ UNCHANGED <<buf, wp, rp, full, empty, al, overrun, late>>

Next ==
  \/ \E b \in Byte : WrtReceiveQueue(b)
  \/ ReadReceiveQueue
  \/ Peek
  \/ InputFlush
  \/ GetComError
  \/ \E want \in SUBSET {"XonXoff", "RTS"}, duplex, level \in BOOLEAN :
        SetDCB(want, duplex, level)
  \/ ThrEmpties
  \/ SendImmediate

Spec == Init /\ [][Next]_vars

(* A UART that empties and a client that keeps reading.  Nothing says that  *)
(* a byte left in byImmediateByte is ever sent (XmitStream shows that it    *)
(* may not be).                                                             *)
FairSpec == Spec /\ WF_vars(ReadReceiveQueue) /\ WF_vars(ThrEmpties)

-----------------------------------------------------------------------------
(* The two flags tell an empty queue from a full one, the only states in   *)
(* which the pointers meet (dwReceiveQueueWritePointer = ...ReadPointer).  *)
RingInv ==
  /\ full \/ empty <=> wp = rp
  /\ ~(full /\ empty)

(* An empty queue holds nobody: only a successful ReadReceiveQueue releases *)
(* the peer, so a hold on an empty queue would last for ever.               *)
EmptyNotHeld == empty => ~fc.inProgress

(* What makes it so: the peer is held only while handshaking is on and the  *)
(* room is below wXonThreshold.                                             *)
HeldWhileShort ==
  fc.inProgress => fc.enabled # {} /\ Length - Count < XonThreshold

(* With input handshaking on, the queue fills only when the peer has sent   *)
(* more than wXoffThreshold bytes after being told to stop: until then      *)
(* WrtReceiveQueue refuses nothing.                                         *)
FullOnlyAfterSlack ==
  fc.enabled # {} /\ full => fc.inProgress /\ late > XoffThreshold

(* What makes it so: without a hold more than wXoffThreshold + 1 slots are  *)
(* free, and a hold starts with wXoffThreshold + 1, one per late byte.      *)
SlackLeft ==
  fc.enabled # {} =>
    IF fc.inProgress THEN Length - Count + late >= XoffThreshold + 1
                     ELSE Length - Count >= XoffThreshold + 2

(* "If one is in progress, then all that are enabled ARE in progress"       *)
(* (ClearInputHandshake): RTS is down exactly while a hold lasts, the       *)
(* transmitter waits for an Xoff of ours only then, and the last handshake  *)
(* character the peer was sent, or is about to be sent, is Xoff exactly     *)
(* then.                                                                    *)
InParallel(s) ==
  /\ s.xoffSent <=> s.inProgress /\ "XonXoff" \in s.enabled
  /\ s.rts <=> ~(s.inProgress /\ "RTS" \in s.enabled)
  /\ s.txWait => s.xoffSent
  /\ IF s.imm = "none" THEN s.peer = (IF s.xoffSent THEN "stop" ELSE "go")
                       ELSE s.imm = (IF s.xoffSent THEN "Xoff" ELSE "Xon")

HandshakeInParallel == InParallel(fc)

(* A flush that ends a hold sends the Xon the peer waits for, or leaves it  *)
(* as the immediate byte (the comment of ClearInputHandshake: "IF waiting   *)
(* to send Xon THEN clear flags and send Xon").                             *)
FlushSendsXon ==
  [][/\ ~empty /\ empty' /\ rp' = 0 /\ "XonXoff" \in fc.enabled
     /\ fc.inProgress /\ ~fc'.inProgress
     => fc'.peer = "go" \/ fc'.imm = "Xon"]_vars

(* A held peer that stops within the slack is released in the end, if the   *)
(* client reads: its Xon is sent or waits for the transmitter, and RTS is up *)
(* again.                                                                   *)
Overdone == late > XoffThreshold + 1
PeerReleased ==
  /\ fc.peer = "stop" ~> fc.peer = "go" \/ fc.imm = "Xon" \/ Overdone
  /\ ~fc.rts ~> fc.rts \/ Overdone

(* The queue is the bounded FIFO of RcvFifo, whatever the handshaking does. *)
Fifo == INSTANCE RcvFifo WITH q <- Contents
FifoRefined == Fifo!FifoSpec
=============================================================================
