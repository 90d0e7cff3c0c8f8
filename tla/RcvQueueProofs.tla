-------------------------- MODULE RcvQueueProofs --------------------------
(***************************************************************************)
(* What holds of RcvQueue for every length, every pair of thresholds and   *)
(* every set of bytes: its type, the ring and its flags, the hold and its  *)
(* release, and the handshakes going together; and the ring implements     *)
(* RcvFifo.                                                                *)
(***************************************************************************)
EXTENDS RcvQueue, Integers, SequenceTheorems, TLAPS

-----------------------------------------------------------------------------
(* The flow control operators stay in FlowControl.                         *)

(* A character put in the transmit holding register.                       *)
LEMMA TransmitType ==
  ASSUME NEW s \in FlowControl, NEW c \in {"none", "Xon", "Xoff", "LSR"}
  PROVE  Transmit(c, s) \in FlowControl
BY DEF Transmit, FlowControl

(* StartWriteStream sends the immediate byte or nothing.                   *)
LEMMA StartWriteStreamType ==
  ASSUME NEW s \in FlowControl
  PROVE  StartWriteStream(s) \in FlowControl
<1> DEFINE t == [s EXCEPT !.imm = "none"]
<1>1. t \in FlowControl /\ s.imm \in {"none", "Xon", "Xoff", "LSR"}
  BY DEF FlowControl
<1>2. Transmit(s.imm, t) \in FlowControl
  BY <1>1, TransmitType
<1>3. QED
  BY <1>2 DEF StartWriteStream

(* wrt_send_Xoff keeps the flow control state in its type.                 *)
LEMMA HoldPeerType ==
  ASSUME NEW s \in FlowControl
  PROVE  HoldPeer(s) \in FlowControl
<1> DEFINE s1 == [s EXCEPT !.inProgress = TRUE]
           t == [s1 EXCEPT !.txWait = @ \/ ~s.fullDuplex,
                           !.xoffSent = TRUE,
                           !.imm = "Xoff"]
<1>1. s1 \in FlowControl
  BY DEF FlowControl
<1>2. t \in FlowControl
  <2> HIDE DEF s1
  <2>1. (s1.txWait \/ ~s.fullDuplex) \in BOOLEAN
    OBVIOUS
  <2> QED
    BY <1>1, <2>1 DEF FlowControl
<1>3. StartWriteStream(t) \in FlowControl
  BY <1>2, StartWriteStreamType
<1> DEFINE u == StartWriteStream(t)
<1>4. \A v \in FlowControl : [v EXCEPT !.rts = FALSE] \in FlowControl
  BY DEF FlowControl
<1> HIDE DEF s1, t
<1>5. QED
  BY <1>1, <1>3, <1>4 DEF HoldPeer, s1, t

(* So does rd_send_Xon.                                                    *)
LEMMA ReleasePeerType ==
  ASSUME NEW s \in FlowControl
  PROVE  ReleasePeer(s) \in FlowControl
<1> DEFINE s1 == [s EXCEPT !.inProgress = FALSE]
           t == [s1 EXCEPT !.txWait = FALSE,
                           !.xoffSent = FALSE,
                           !.imm = "Xon"]
<1>1. s1 \in FlowControl /\ t \in FlowControl
  BY DEF FlowControl
<1>2. StartWriteStream(t) \in FlowControl
  BY <1>1, StartWriteStreamType
<1>3. \A v \in FlowControl : [v EXCEPT !.rts = TRUE] \in FlowControl
  BY DEF FlowControl
<1>4. QED
  BY <1>1, <1>2, <1>3 DEF ReleasePeer

(* So does ClearInputHandshake, whose Xon may be an "LSR".                 *)
LEMMA ClearInputHandshakeType ==
  ASSUME NEW s \in FlowControl
  PROVE  ClearInputHandshake(s) \in FlowControl
<1> DEFINE s1 == [s EXCEPT !.inProgress = FALSE]
           s2 == [s1 EXCEPT !.txWait = FALSE, !.xoffSent = FALSE]
           s3 == IF "XonXoff" \notin s.enabled THEN s1
                 ELSE IF s.thrEmpty THEN Transmit("Xon", s2)
                 ELSE StartWriteStream([s2 EXCEPT !.imm = "LSR"])
<1>1. s1 \in FlowControl /\ s2 \in FlowControl /\ [s2 EXCEPT !.imm = "LSR"] \in FlowControl
  BY DEF FlowControl
<1>2. Transmit("Xon", s2) \in FlowControl
  BY <1>1, TransmitType
<1>3. StartWriteStream([s2 EXCEPT !.imm = "LSR"]) \in FlowControl
  <2> HIDE DEF s2
  <2> QED
    BY <1>1, StartWriteStreamType
<1> HIDE DEF s1, s2
<1>4. s3 \in FlowControl
  BY <1>1, <1>2, <1>3
<1>5. \A v \in FlowControl : [v EXCEPT !.rts = TRUE, !.enabled = @ \ {"RTS"}] \in FlowControl
  BY DEF FlowControl
<1>6. ClearInputHandshake(s) =
        IF s.enabled # {} /\ s.inProgress
          THEN IF "RTS" \in s.enabled
                 THEN [s3 EXCEPT !.rts = TRUE, !.enabled = @ \ {"RTS"}]
                 ELSE s3
          ELSE s
  BY DEF ClearInputHandshake, s1, s2
<1> HIDE DEF s3
<1>7. QED
  BY <1>4, <1>5, <1>6

(* The duplex step of ProcessFlag2.                                        *)
LEMMA SetDuplexType ==
  ASSUME NEW s \in FlowControl, NEW duplex \in BOOLEAN
  PROVE  SetDuplex(s, duplex) \in FlowControl
<1> DEFINE w == IF duplex THEN FALSE
                ELSE s.txWait \/ ("XonXoff" \in s.enabled /\ s.inProgress)
<1>1. w \in BOOLEAN
  BY DEF FlowControl
<1>2. SetDuplex(s, duplex) = [s EXCEPT !.fullDuplex = duplex, !.txWait = w]
  BY DEF SetDuplex, FlowControl
<1> HIDE DEF w
<1>3. QED
  BY <1>1, <1>2 DEF FlowControl

(* Its modem line step.                                                    *)
LEMMA SetRtsType ==
  ASSUME NEW s \in FlowControl, NEW want \in SUBSET {"XonXoff", "RTS"},
         NEW level \in BOOLEAN
  PROVE  SetRts(s, want, level) \in FlowControl
BY DEF SetRts, FlowControl

(* Its way of sending a handshake character.                               *)
LEMMA SendOrStoreType ==
  ASSUME NEW s \in FlowControl, NEW c \in {"Xon", "Xoff"}
  PROVE  SendOrStore(c, s) \in FlowControl
BY TransmitType DEF SendOrStore, FlowControl

(* Its Xon and Xoff step.                                                  *)
LEMMA SetXonXoffType ==
  ASSUME NEW s \in FlowControl, NEW want \in SUBSET {"XonXoff", "RTS"},
         NEW bXoffSent \in BOOLEAN
  PROVE  SetXonXoff(s, want, bXoffSent) \in FlowControl
<1>1. \A v \in FlowControl : /\ [v EXCEPT !.enabled = @ \ {"XonXoff"}] \in FlowControl
                             /\ [v EXCEPT !.enabled = @ \union {"XonXoff"}] \in FlowControl
  BY DEF FlowControl
<1>2. CASE "XonXoff" \notin want
  <2> DEFINE s1 == [s EXCEPT !.enabled = @ \ {"XonXoff"}]
             s2 == IF bXoffSent THEN SendOrStore("Xon", s1) ELSE s1
  <2>1. s1 \in FlowControl
    BY <1>1
  <2> HIDE DEF s1
  <2>2. s2 \in FlowControl
    BY <2>1, SendOrStoreType
  <2> HIDE DEF s2
  <2>3. [s2 EXCEPT !.txWait = FALSE, !.inProgress = @ /\ "RTS" \in s2.enabled] \in FlowControl
    <3>1. (s2.inProgress /\ "RTS" \in s2.enabled) \in BOOLEAN
      OBVIOUS
    <3> QED
      BY <2>2, <3>1 DEF FlowControl
  <2>4. QED
    BY <1>2, <2>3 DEF SetXonXoff, s1, s2
<1>3. CASE "XonXoff" \in want
  <2> DEFINE s1 == [s EXCEPT !.enabled = @ \union {"XonXoff"}]
             s2 == SendOrStore("Xoff", s1)
  <2>1. s1 \in FlowControl
    BY <1>1
  <2> HIDE DEF s1
  <2>2. s2 \in FlowControl
    BY <2>1, SendOrStoreType
  <2> HIDE DEF s2
  <2>3. [s2 EXCEPT !.inProgress = TRUE, !.txWait = @ \/ ~s1.fullDuplex] \in FlowControl
    <3>1. (s2.txWait \/ ~s1.fullDuplex) \in BOOLEAN
      OBVIOUS
    <3> QED
      BY <2>2, <3>1 DEF FlowControl
  <2>4. QED
    BY <1>3, <2>1, <2>3 DEF SetXonXoff, s1, s2
<1>4. QED
  BY <1>2, <1>3
-----------------------------------------------------------------------------
(* Type correctness.                                                       *)

(* A queue just opened is of its type.                                     *)
LEMMA InitTypeOK == Init => TypeOK
<1> SUFFICES ASSUME Init PROVE TypeOK
  OBVIOUS
<1>1. 0 \in Index /\ late \in 0 .. Length + 1
  BY LengthAssumption DEF Index, Init
<1>2. fc \in FlowControl
  BY DEF Init
<1>3. QED
  BY <1>1, <1>2 DEF Init, TypeOK

(* Neither pointer ever leaves the buffer, whatever the order in which     *)
(* bytes arrive (WrtReceiveQueue), are read (ReadReceiveQueue) or flushed  *)
(* (InputFlush) and handshaking is set (ProcessFlag2), and the flow control *)
(* state stays in its type.                                                *)
THEOREM TypeCorrect == Spec => []TypeOK
<1> USE LengthAssumption, ThresholdAssumption
<1>0. 0 \in Index
  BY DEF Index
<1>1. Init => TypeOK
  BY InitTypeOK
<1>2. TypeOK /\ [Next]_vars => TypeOK'
  <2> SUFFICES ASSUME TypeOK, [Next]_vars PROVE TypeOK'
    OBVIOUS
  <2> USE DEF TypeOK
  <2>0. Next1(wp) \in Index /\ Next1(rp) \in Index /\ Prev1(wp) \in Index
    BY DEF Next1, Prev1, Extent, Index
  <2>1. CASE RefuseByte
    <3>1. buf' \in [Index -> Cell]
      <4>1. ErrorChar \in Cell
        BY DEF Cell
      <4> QED
        BY <2>0, <2>1, <4>1 DEF RefuseByte
    <3>2. late' \in 0 .. Length + 1
      BY <2>1 DEF RefuseByte
    <3>3. QED
      BY <2>1, <3>1, <3>2 DEF RefuseByte
  <2>2. ASSUME NEW b \in Byte, StoreByte(b) PROVE TypeOK'
    <3>1. buf' \in [Index -> Cell]
      BY <2>2 DEF StoreByte, Cell
    <3>2. wp' \in Index /\ late' \in 0 .. Length + 1
      BY <2>0, <2>2 DEF StoreByte
    <3>3. fc' \in FlowControl
      BY <2>2, HoldPeerType DEF StoreByte
    <3>4. QED
      BY <2>2, <3>1, <3>2, <3>3 DEF StoreByte
  <2>3. CASE ReadReceiveQueue
    <3>1. fc' \in FlowControl
      BY <2>3, ReleasePeerType DEF ReadReceiveQueue
    <3>2. al' \in Cell /\ rp' \in Index
      BY <2>0, <2>3 DEF ReadReceiveQueue
    <3>3. QED
      BY <2>3, <3>1, <3>2 DEF ReadReceiveQueue
  <2>4. CASE Peek
    BY <2>4 DEF Peek
  <2>5. CASE InputFlush
    BY <1>0, <2>5, ClearInputHandshakeType DEF InputFlush
  <2>6. CASE GetComError
    BY <2>6 DEF GetComError
  <2>7. ASSUME NEW want \in SUBSET {"XonXoff", "RTS"}, NEW duplex \in BOOLEAN,
               NEW level \in BOOLEAN, SetDCB(want, duplex, level)
        PROVE  TypeOK'
    <3> DEFINE bXoffSent == fc.inProgress /\ "XonXoff" \in fc.enabled
               s == SetXonXoff(SetRts(SetDuplex(fc, duplex), want, level), want, bXoffSent)
    <3>1. bXoffSent \in BOOLEAN
      OBVIOUS
    <3>2. s \in FlowControl
      <4>1. SetDuplex(fc, duplex) \in FlowControl
        BY SetDuplexType
      <4>2. SetRts(SetDuplex(fc, duplex), want, level) \in FlowControl
        BY <4>1, SetRtsType
      <4> HIDE DEF bXoffSent
      <4>3. QED
        BY <3>1, <4>2, SetXonXoffType
    <3>3. StartWriteStream(s) \in FlowControl
      BY <3>2, StartWriteStreamType
    <3>4. fc' \in FlowControl
      <4> HIDE DEF s, bXoffSent
      <4> QED BY <2>7, <3>2, <3>3 DEF SetDCB, s, bXoffSent
    <3>5. late' \in 0 .. Length + 1
      BY <2>7 DEF SetDCB
    <3>6. QED
      BY <2>7, <3>4, <3>5 DEF SetDCB
  <2>8. CASE ThrEmpties
    BY <2>8 DEF ThrEmpties, FlowControl
  <2>9. CASE SendImmediate
    BY <2>9, StartWriteStreamType DEF SendImmediate
  <2>10. CASE UNCHANGED vars
    BY <2>10 DEF vars
  <2>11. QED
    BY <2>1, <2>2, <2>3, <2>4, <2>5, <2>6, <2>7, <2>8, <2>9, <2>10
    DEF Next, WrtReceiveQueue
<1>3. QED
  BY <1>1, <1>2, PTL DEF Spec
-----------------------------------------------------------------------------
(* The ring: how each move of a pointer changes Count.                     *)

(* With the two flags the number of bytes is known from the pointers.      *)
LEMMA CountRange ==
  ASSUME TypeOK, RingInv
  PROVE  /\ Count \in 0 .. Length
         /\ full <=> Count = Length
         /\ empty <=> Count = 0
BY LengthAssumption DEF TypeOK, RingInv, Count, Index

(* WrtReceiveQueue: a store adds one byte, and the room it computes is one *)
(* less than what is left.                                                 *)
LEMMA CountStored ==
  ASSUME TypeOK, RingInv, NEW b \in Byte, StoreByte(b)
  PROVE  /\ RingInv'
         /\ Count' = Count + 1
         /\ ~full' => RoomAfterStore(wp') = Length - Count' - 1
         /\ full' => RoomAfterStore(wp') = Length - 1
<1>1. /\ Length \in Nat \ {0}
      /\ wp \in 0 .. Length - 1 /\ rp \in 0 .. Length - 1
      /\ full = FALSE
      /\ empty \in BOOLEAN /\ (empty <=> wp = rp)
  BY LengthAssumption DEF TypeOK, RingInv, Index, StoreByte
<1>2. /\ wp' = IF wp < Length - 1 THEN wp + 1 ELSE 0
      /\ rp' = rp
      /\ full' = (rp = wp')
      /\ empty' = FALSE
  BY DEF StoreByte, Next1, Extent
<1>3. RingInv'
  BY <1>2 DEF RingInv
<1>4. Count = IF rp <= wp THEN wp - rp ELSE Length - rp + wp
  BY <1>1 DEF Count
<1>5. Count' = IF rp = wp' THEN Length
               ELSE IF rp <= wp' THEN wp' - rp ELSE Length - rp + wp'
  BY <1>2 DEF Count
<1>6. Count' = Count + 1
  BY <1>1, <1>2, <1>4, <1>5
<1>7. RoomAfterStore(wp') = IF rp <= wp' THEN Length - 1 - (wp' - rp) ELSE rp - wp' - 1
  BY DEF RoomAfterStore, Extent
<1>8. rp # wp' => RoomAfterStore(wp') = Length - Count' - 1
  BY <1>1, <1>2, <1>5, <1>7
<1>9. rp = wp' => RoomAfterStore(wp') = Length - 1
  BY <1>1, <1>2, <1>7
<1>10. full' <=> rp = wp'
  BY <1>2
<1>11. QED
  BY <1>3, <1>6, <1>8, <1>9, <1>10

(* ReadReceiveQueue: a read takes one byte, and the room it computes is    *)
(* what is left.                                                           *)
LEMMA CountRead ==
  ASSUME TypeOK, RingInv, ReadReceiveQueue
  PROVE  /\ RingInv'
         /\ Count' = Count - 1
         /\ Count' > 0 => RoomAfterRead(rp') = Length - Count'
         /\ Count' = 0 => RoomAfterRead(rp') = 0
<1>1. /\ Length \in Nat \ {0}
      /\ wp \in 0 .. Length - 1 /\ rp \in 0 .. Length - 1
      /\ empty = FALSE
      /\ full \in BOOLEAN /\ (full <=> wp = rp)
  BY LengthAssumption DEF TypeOK, RingInv, Index, ReadReceiveQueue
<1>2. /\ rp' = IF rp < Length - 1 THEN rp + 1 ELSE 0
      /\ wp' = wp
      /\ empty' = (wp = rp')
      /\ full' = FALSE
  BY DEF ReadReceiveQueue, Next1, Extent
<1>3. RingInv'
  BY <1>2 DEF RingInv
<1>4. Count = IF wp = rp THEN Length
              ELSE IF rp <= wp THEN wp - rp ELSE Length - rp + wp
  BY <1>1 DEF Count
<1>5. Count' = IF rp' <= wp THEN wp - rp' ELSE Length - rp' + wp
  BY <1>2 DEF Count
<1>6. Count' = Count - 1
  BY <1>1, <1>2, <1>4, <1>5
<1>7. RoomAfterRead(rp') = IF wp <= rp' THEN rp' - wp ELSE rp' - wp + Length
  BY DEF RoomAfterRead
<1>8. QED
  BY <1>1, <1>2, <1>3, <1>5, <1>6, <1>7

(* The other actions leave the ring alone or empty it.                     *)
LEMMA RingElse ==
  ASSUME TypeOK, RingInv,
         RefuseByte \/ Peek \/ GetComError \/ ThrEmpties \/ SendImmediate
         \/ UNCHANGED vars
         \/ \E want \in SUBSET {"XonXoff", "RTS"}, duplex, level \in BOOLEAN :
               SetDCB(want, duplex, level)
  PROVE  RingInv' /\ Count' = Count
BY DEF RingInv, Count, RefuseByte, Peek, GetComError, ThrEmpties, SendImmediate,
       vars, SetDCB

(* FlushInputBuffers empties the ring.                                     *)
LEMMA RingFlushed ==
  ASSUME InputFlush
  PROVE  RingInv' /\ Count' = 0
BY DEF RingInv, Count, InputFlush

(* DEV_ST1_RCV_QUEUE_FULL and DEV_ST1_RCV_QUEUE_EMPTY are never set        *)
(* together, and one of them is set exactly when the pointers meet: after  *)
(* any sequence of stores, reads and flushes a full ring is never taken for *)
(* an empty one.                                                           *)
THEOREM RingCorrect == Spec => []RingInv
<1>1. Init => RingInv
  BY DEF Init, RingInv
<1>2. TypeOK /\ RingInv /\ [Next]_vars => RingInv'
  <2> SUFFICES ASSUME TypeOK, RingInv, [Next]_vars PROVE RingInv'
    OBVIOUS
  <2>1. ASSUME NEW b \in Byte, StoreByte(b) PROVE RingInv'
    BY <2>1, CountStored
  <2>2. CASE ReadReceiveQueue
    BY <2>2, CountRead
  <2>3. CASE InputFlush
    BY <2>3, RingFlushed
  <2>4. QED
    BY <2>1, <2>2, <2>3, RingElse DEF Next, WrtReceiveQueue
<1>3. QED
  BY <1>1, <1>2, TypeCorrect, PTL DEF Spec
-----------------------------------------------------------------------------
(* What the flow control operators do to the hold.                         *)

(* StartWriteStream changes no handshaking bit.                            *)
LEMMA StartWriteStreamKeeps ==
  ASSUME NEW s \in FlowControl
  PROVE  /\ StartWriteStream(s).inProgress = s.inProgress
         /\ StartWriteStream(s).enabled = s.enabled
         /\ StartWriteStream(s).xoffSent = s.xoffSent
         /\ StartWriteStream(s).txWait = s.txWait
         /\ StartWriteStream(s).rts = s.rts
BY DEF StartWriteStream, Transmit, FlowControl

(* Nor does sending a handshake character from ProcessFlag2.               *)
LEMMA SendOrStoreKeeps ==
  ASSUME NEW s \in FlowControl, NEW c \in {"Xon", "Xoff"}
  PROVE  /\ SendOrStore(c, s).inProgress = s.inProgress
         /\ SendOrStore(c, s).enabled = s.enabled
BY DEF SendOrStore, Transmit, FlowControl

(* wrt_send_Xoff starts a hold.                                            *)
LEMMA HoldPeerHolds ==
  ASSUME NEW s \in FlowControl
  PROVE  HoldPeer(s).inProgress = TRUE /\ HoldPeer(s).enabled = s.enabled
<1> DEFINE w == s.txWait \/ ~s.fullDuplex
           t == [s EXCEPT !.inProgress = TRUE, !.txWait = w,
                          !.xoffSent = TRUE, !.imm = "Xoff"]
<1>1. w \in BOOLEAN
  BY DEF FlowControl
<1> HIDE DEF w
<1>2. t \in FlowControl /\ t.inProgress = TRUE /\ t.enabled = s.enabled
  BY <1>1 DEF FlowControl
<1> DEFINE u == StartWriteStream(t)
<1>3. u \in FlowControl /\ u.inProgress = TRUE /\ u.enabled = s.enabled
  BY <1>2, StartWriteStreamType, StartWriteStreamKeeps
<1>4. \A v \in FlowControl : /\ [v EXCEPT !.rts = FALSE].inProgress = v.inProgress
                             /\ [v EXCEPT !.rts = FALSE].enabled = v.enabled
  BY DEF FlowControl
<1>5. LET s1 == [s EXCEPT !.inProgress = TRUE]
      IN  /\ s1 \in FlowControl /\ s1.inProgress = TRUE /\ s1.enabled = s.enabled
          /\ t = [s1 EXCEPT !.txWait = @ \/ ~s.fullDuplex,
                            !.xoffSent = TRUE, !.imm = "Xoff"]
  BY DEF FlowControl, w
<1> HIDE DEF t
<1>6. QED
  BY <1>3, <1>4, <1>5 DEF HoldPeer

(* rd_send_Xon ends it.                                                    *)
LEMMA ReleasePeerReleases ==
  ASSUME NEW s \in FlowControl
  PROVE  ReleasePeer(s).inProgress = FALSE /\ ReleasePeer(s).enabled = s.enabled
<1> DEFINE s1 == [s EXCEPT !.inProgress = FALSE]
           t == [s1 EXCEPT !.txWait = FALSE, !.xoffSent = FALSE, !.imm = "Xon"]
<1>1. /\ s1 \in FlowControl /\ s1.inProgress = FALSE /\ s1.enabled = s.enabled
      /\ t \in FlowControl /\ t.inProgress = FALSE /\ t.enabled = s.enabled
  BY DEF FlowControl
<1> DEFINE u == StartWriteStream(t)
<1>2. u \in FlowControl /\ u.inProgress = FALSE /\ u.enabled = s.enabled
  BY <1>1, StartWriteStreamType, StartWriteStreamKeeps
<1>3. \A v \in FlowControl : /\ [v EXCEPT !.rts = TRUE].inProgress = v.inProgress
                             /\ [v EXCEPT !.rts = TRUE].enabled = v.enabled
  BY DEF FlowControl
<1>4. QED
  BY <1>1, <1>2, <1>3 DEF ReleasePeer

(* ClearInputHandshake ends it too.                                        *)
LEMMA ClearInputHandshakeReleases ==
  ASSUME NEW s \in FlowControl, s.inProgress => s.enabled # {}
  PROVE  /\ ClearInputHandshake(s).inProgress = FALSE
         /\ ClearInputHandshake(s).enabled \subseteq s.enabled
<1> DEFINE s1 == [s EXCEPT !.inProgress = FALSE]
           s2 == [s1 EXCEPT !.txWait = FALSE, !.xoffSent = FALSE]
           t == [s2 EXCEPT !.imm = "LSR"]
           s3 == IF "XonXoff" \notin s.enabled THEN s1
                 ELSE IF s.thrEmpty THEN Transmit("Xon", s2)
                 ELSE StartWriteStream(t)
<1>1. /\ s1 \in FlowControl /\ s1.inProgress = FALSE /\ s1.enabled = s.enabled
      /\ s2 \in FlowControl /\ s2.inProgress = FALSE /\ s2.enabled = s.enabled
      /\ t \in FlowControl /\ t.inProgress = FALSE /\ t.enabled = s.enabled
  BY DEF FlowControl
<1> HIDE DEF s1, s2, t
<1>2. /\ Transmit("Xon", s2) \in FlowControl
      /\ Transmit("Xon", s2).inProgress = FALSE
      /\ Transmit("Xon", s2).enabled = s.enabled
  BY <1>1 DEF Transmit, FlowControl
<1>3. /\ StartWriteStream(t) \in FlowControl
      /\ StartWriteStream(t).inProgress = FALSE
      /\ StartWriteStream(t).enabled = s.enabled
  BY <1>1, StartWriteStreamType, StartWriteStreamKeeps
<1>4. s3 \in FlowControl /\ s3.inProgress = FALSE /\ s3.enabled = s.enabled
  BY <1>1, <1>2, <1>3
<1> HIDE DEF s3
<1>5. \A v \in FlowControl :
        LET x == [v EXCEPT !.rts = TRUE, !.enabled = @ \ {"RTS"}]
        IN  x.inProgress = v.inProgress /\ x.enabled = v.enabled \ {"RTS"}
  BY DEF FlowControl
<1>6. ClearInputHandshake(s) =
        IF s.enabled # {} /\ s.inProgress
          THEN IF "RTS" \in s.enabled
                 THEN [s3 EXCEPT !.rts = TRUE, !.enabled = @ \ {"RTS"}]
                 ELSE s3
          ELSE s
  BY DEF ClearInputHandshake, s1, s2, s3, t
<1>7. s.inProgress \in BOOLEAN
  BY DEF FlowControl
<1>8. QED
  BY <1>4, <1>5, <1>6, <1>7

(* A DCB may start a hold only when the room is below wXoffThreshold, or   *)
(* looks so in the 16-bit register that the RTS test uses.                 *)
LEMMA SetDCBHolds ==
  ASSUME TypeOK, NEW want \in SUBSET {"XonXoff", "RTS"}, NEW duplex \in BOOLEAN,
         NEW level \in BOOLEAN, SetDCB(want, duplex, level)
  PROVE  fc'.inProgress =>
           /\ fc'.enabled # {}
           /\ \/ fc.inProgress
              \/ GetReceiveQueueHSspan < XoffThreshold
              \/ GetReceiveQueueHSspan % Word < XoffThreshold
<1> DEFINE bXoffSent == fc.inProgress /\ "XonXoff" \in fc.enabled
           d == SetDuplex(fc, duplex)
           r == SetRts(d, want, level)
           x == SetXonXoff(r, want, bXoffSent)
           short == \/ GetReceiveQueueHSspan < XoffThreshold
                    \/ GetReceiveQueueHSspan % Word < XoffThreshold
<1>1. d \in FlowControl /\ d.inProgress = fc.inProgress
  <2>1. d \in FlowControl
    BY SetDuplexType DEF TypeOK
  <2>2. d.inProgress = fc.inProgress
    BY DEF TypeOK, SetDuplex, FlowControl
  <2>3. QED
    BY <2>1, <2>2
<1> HIDE DEF d
<1>2. /\ r \in FlowControl
      /\ r.inProgress => d.inProgress \/ short
      /\ r.inProgress /\ "RTS" \in want => "RTS" \in r.enabled
      /\ "RTS" \notin want => "RTS" \notin r.enabled
  <2>1. r \in FlowControl
    BY <1>1, SetRtsType
  <2>2. r.inProgress => d.inProgress \/ short
    BY <1>1 DEF SetRts, FlowControl
  <2>3. "RTS" \in want <=> "RTS" \in r.enabled
    BY <1>1 DEF SetRts, FlowControl
  <2>4. QED
    BY <2>1, <2>2, <2>3
<1> HIDE DEF r
<1>3. x \in FlowControl
  <2>1. bXoffSent \in BOOLEAN
    OBVIOUS
  <2> HIDE DEF bXoffSent
  <2>2. QED
    BY <1>2, <2>1, SetXonXoffType
<1>4. \A c \in {"Xon", "Xoff"}, v \in FlowControl :
        /\ SendOrStore(c, v) \in FlowControl
        /\ SendOrStore(c, v).inProgress = v.inProgress
        /\ SendOrStore(c, v).enabled = v.enabled
  BY SendOrStoreType, SendOrStoreKeeps
<1>5. x.inProgress => x.enabled # {} /\ (r.inProgress \/ short)
  <2>1. CASE "XonXoff" \notin want
    <3> DEFINE r1 == [r EXCEPT !.enabled = @ \ {"XonXoff"}]
               r2 == IF bXoffSent THEN SendOrStore("Xon", r1) ELSE r1
               y == [r2 EXCEPT !.txWait = FALSE,
                               !.inProgress = @ /\ "RTS" \in r2.enabled]
    <3>1. r1 \in FlowControl /\ r1.inProgress = r.inProgress
      BY <1>2 DEF FlowControl
    <3> HIDE DEF r1
    <3>2. r2 \in FlowControl /\ r2.inProgress = r.inProgress
      BY <1>4, <3>1
    <3> HIDE DEF r2
    <3>3. y.inProgress = (r2.inProgress /\ "RTS" \in r2.enabled) /\ y.enabled = r2.enabled
      <4> DEFINE p == r2.inProgress /\ "RTS" \in r2.enabled
      <4>1. p \in BOOLEAN
        OBVIOUS
      <4>2. y = [r2 EXCEPT !.txWait = FALSE, !.inProgress = p]
        OBVIOUS
      <4> HIDE DEF p, y
      <4>3. y.inProgress = p /\ y.enabled = r2.enabled
        BY <3>2, <4>1, <4>2 DEF FlowControl
      <4>4. QED
        BY <4>3 DEF p
    <3>4. x = y
      BY <2>1 DEF SetXonXoff, r1, r2
    <3> HIDE DEF x, y
    <3>5. QED
      BY <3>2, <3>3, <3>4
  <2>2. CASE "XonXoff" \in want
    <3> DEFINE r1 == [r EXCEPT !.enabled = @ \union {"XonXoff"}]
               r2 == SendOrStore("Xoff", r1)
               y == [r2 EXCEPT !.inProgress = TRUE, !.txWait = @ \/ ~r1.fullDuplex]
    <3>1. r1 \in FlowControl /\ r1.inProgress = r.inProgress /\ "XonXoff" \in r1.enabled
      BY <1>2 DEF FlowControl
    <3> HIDE DEF r1
    <3>2. r2 \in FlowControl /\ "XonXoff" \in r2.enabled
      BY <1>4, <3>1
    <3> HIDE DEF r2
    <3>3. y.enabled = r2.enabled
      BY <3>2 DEF FlowControl
    <3>4. x = IF GetReceiveQueueHSspan >= XoffThreshold THEN r1 ELSE y
      BY <2>2 DEF SetXonXoff, r1, r2
    <3>5. ~(GetReceiveQueueHSspan >= XoffThreshold) => GetReceiveQueueHSspan < XoffThreshold
      <4>1. GetReceiveQueueHSspan \in Int /\ XoffThreshold \in Int
        BY LengthAssumption, ThresholdAssumption DEF TypeOK, Index, GetReceiveQueueHSspan
      <4>2. QED
        BY <4>1
    <3> HIDE DEF x, y
    <3>6. QED
      BY <3>1, <3>2, <3>3, <3>4, <3>5
  <2>3. QED
    BY <2>1, <2>2
<1>6. fc' = x \/ fc' = StartWriteStream(x)
  BY DEF SetDCB, d, r
<1>7. fc'.inProgress = x.inProgress /\ fc'.enabled = x.enabled
  <2> HIDE DEF x
  <2> QED BY <1>3, <1>6, StartWriteStreamKeeps
<1> HIDE DEF x
<1>8. QED
  BY <1>1, <1>2, <1>5, <1>7

-----------------------------------------------------------------------------
(* A hold never outlives the bytes whose reading ends it, whatever the     *)
(* client calls, if the queue length fits the register it is compared in.  *)

(* Room below wXoffThreshold, as GetReceiveQueueHSspan has it, is room     *)
(* below wXonThreshold.                                                    *)
LEMMA HSspanShort ==
  ASSUME TypeOK, RingInv, GetReceiveQueueHSspan < XoffThreshold
  PROVE  Length - Count < XonThreshold
BY LengthAssumption, ThresholdAssumption
DEF TypeOK, RingInv, Index, GetReceiveQueueHSspan, Count

(* The room fits the 16-bit register ProcessFlag2 compares, if the queue is *)
(* shorter than it has values.                                             *)
LEMMA HSspanFits ==
  ASSUME TypeOK, Length < Word
  PROVE  GetReceiveQueueHSspan % Word = GetReceiveQueueHSspan
<1>1. GetReceiveQueueHSspan \in 0 .. Length
  BY LengthAssumption DEF TypeOK, Index, GetReceiveQueueHSspan
<1> HIDE DEF GetReceiveQueueHSspan
<1>2. \A a, b \in Nat : a < b => a % b = a
  OBVIOUS
<1>3. QED
  BY <1>1, <1>2, LengthAssumption

(* In a device whose queue is shorter than 64K, a hold set by              *)
(* WrtReceiveQueue or by ProcessFlag2 (set_DCB) is never left behind by    *)
(* reading or flushing: an empty queue, which ReadReceiveQueue leaves      *)
(* without looking at the handshake, holds nobody, and room above          *)
(* wXonThreshold never meets a hold.                                       *)
THEOREM NoHoldOutlivesTheQueue ==
  ASSUME Length < Word
  PROVE  Spec => [](HeldWhileShort /\ EmptyNotHeld)
<1> USE LengthAssumption, ThresholdAssumption
<1>1. Init => HeldWhileShort
  BY DEF Init, HeldWhileShort
<1>2. TypeOK /\ RingInv /\ HeldWhileShort /\ [Next]_vars => HeldWhileShort'
  <2> SUFFICES ASSUME TypeOK, RingInv, HeldWhileShort, [Next]_vars,
                      fc'.inProgress
               PROVE  (fc.enabled # {} /\ Length - Count < XonThreshold)'
    BY DEF HeldWhileShort
  <2> USE DEF HeldWhileShort
  <2>0. fc \in FlowControl /\ Count \in 0 .. Length
    BY CountRange DEF TypeOK
  <2>1. CASE RefuseByte \/ Peek \/ GetComError \/ UNCHANGED vars
    <3>1. fc' = fc /\ Count' = Count
      BY <2>1, RingElse DEF RefuseByte, Peek, GetComError, vars
    <3>2. QED
      BY <3>1
  <2>2. ASSUME NEW b \in Byte, StoreByte(b)
        PROVE  (fc.enabled # {} /\ Length - Count < XonThreshold)'
    <3>1. Count' = Count + 1 /\ (full <=> FALSE)
      BY <2>2, CountStored DEF StoreByte
    <3>2. CASE fc.inProgress
      BY <2>0, <2>2, <3>1, <3>2 DEF StoreByte
    <3>3. CASE ~fc.inProgress
      <4>1. /\ fc.enabled # {} /\ RoomAfterStore(wp') <= XoffThreshold
            /\ fc' = HoldPeer(fc)
        BY <2>2, <3>3 DEF StoreByte
      <4>2. fc'.enabled # {}
        BY <2>0, <4>1, HoldPeerHolds
      <4>3. Length - Count' - 1 <= XoffThreshold
        BY <2>0, <2>2, <3>1, <4>1, CountStored
      <4>4. QED
        BY <2>0, <3>1, <4>2, <4>3
    <3>4. QED
      BY <3>2, <3>3
  <2>3. CASE ReadReceiveQueue
    <3>1. Count' = Count - 1
      BY <2>3, CountRead
    <3>2. fc' = fc /\ fc.inProgress /\ fc.enabled # {}
      BY <2>0, <2>3, ReleasePeerReleases DEF ReadReceiveQueue
    <3>3. ~(RoomAfterRead(rp') >= XonThreshold)
      BY <2>0, <2>3, <3>2, ReleasePeerReleases DEF ReadReceiveQueue
    <3>4. Count > 0
      BY <2>0, <2>3, CountRange DEF ReadReceiveQueue
    <3>5. Count' > 0
      BY <2>0, <3>1, <3>2, <3>4
    <3>6. QED
      BY <2>0, <2>3, <3>1, <3>2, <3>3, <3>5, CountRead
  <2>4. CASE InputFlush
    BY <2>0, <2>4, ClearInputHandshakeReleases DEF InputFlush
  <2>5. ASSUME NEW want \in SUBSET {"XonXoff", "RTS"}, NEW duplex \in BOOLEAN,
               NEW level \in BOOLEAN, SetDCB(want, duplex, level)
        PROVE  (fc.enabled # {} /\ Length - Count < XonThreshold)'
    <3>1. Count' = Count
      BY <2>5, RingElse
    <3>2. /\ fc'.enabled # {}
          /\ fc.inProgress \/ GetReceiveQueueHSspan < XoffThreshold
      BY <2>5, SetDCBHolds, HSspanFits
    <3>3. QED
      BY <3>1, <3>2, HSspanShort
  <2>6. CASE ThrEmpties
    <3>1. Count' = Count
      BY <2>6, RingElse
    <3>2. fc'.inProgress = fc.inProgress /\ fc'.enabled = fc.enabled
      BY <2>0, <2>6 DEF ThrEmpties, FlowControl
    <3>3. QED
      BY <3>1, <3>2
  <2>7. CASE SendImmediate
    <3>1. Count' = Count
      BY <2>7, RingElse
    <3>2. fc'.inProgress = fc.inProgress /\ fc'.enabled = fc.enabled
      BY <2>0, <2>7, StartWriteStreamKeeps DEF SendImmediate
    <3>3. QED
      BY <3>1, <3>2
  <2>8. QED
    BY <2>1, <2>2, <2>3, <2>4, <2>5, <2>6, <2>7 DEF Next, WrtReceiveQueue
<1>3. TypeOK /\ RingInv /\ HeldWhileShort => EmptyNotHeld
  BY CountRange DEF HeldWhileShort, EmptyNotHeld
<1>4. QED
  BY <1>1, <1>2, <1>3, TypeCorrect, RingCorrect, PTL DEF Spec

-----------------------------------------------------------------------------
(* While the DCB stays as it is, a queue with handshaking loses nothing to *)
(* a peer that stops within wXoffThreshold bytes of being told to.         *)

(* What the room is when WrtReceiveQueue starts a hold.                    *)
LEMMA HoldStart ==
  ASSUME TypeOK, RingInv, NEW b \in Byte, StoreByte(b), SlackLeft,
         fc.enabled # {}, ~fc.inProgress
  PROVE  SlackLeft'
<1> USE LengthAssumption, ThresholdAssumption
<1>0. fc \in FlowControl /\ Count \in 0 .. Length
  BY CountRange DEF TypeOK
<1>1. Count' = Count + 1 /\ Length - Count >= XoffThreshold + 2
  BY CountStored DEF SlackLeft
<1>2. ~full' /\ RoomAfterStore(wp') = Length - Count' - 1
  <2>1. Count' # Length
    BY <1>0, <1>1
  <2>2. full' => Count' = Length
    BY DEF StoreByte, Count
  <2>3. QED
    BY <2>1, <2>2, CountStored
<1>3. CASE RoomAfterStore(wp') <= XoffThreshold
  <2>1. fc' = HoldPeer(fc) /\ late' = 0
    BY <1>3 DEF StoreByte
  <2>2. fc'.inProgress = TRUE
    BY <1>0, <2>1, HoldPeerHolds
  <2>3. Length - Count' >= XoffThreshold + 1
    BY <1>0, <1>1
  <2>4. QED
    BY <1>0, <1>1, <2>1, <2>2, <2>3 DEF SlackLeft
<1>4. CASE ~(RoomAfterStore(wp') <= XoffThreshold)
  <2>1. fc' = fc /\ Length - Count' >= XoffThreshold + 2
    BY <1>0, <1>1, <1>2, <1>4 DEF StoreByte
  <2>2. QED
    BY <2>1 DEF SlackLeft
<1>5. QED
  BY <1>3, <1>4

(* For every pair of thresholds OpenProcess may set, a queue with          *)
(* handshaking is full, and WrtReceiveQueue refuses a byte, only when more *)
(* than wXoffThreshold bytes came after the Xoff or the drop of RTS: with  *)
(* flushes, but as long as set_DCB leaves the handshaking alone.           *)
THEOREM FullTakesLateBytes ==
  ASSUME "dcb" \notin Calls, Length < Word
  PROVE  Spec => []FullOnlyAfterSlack
<1> USE LengthAssumption, ThresholdAssumption
<1>1. Init => SlackLeft
  BY DEF Init, SlackLeft, Count
<1>2. TypeOK /\ RingInv /\ HeldWhileShort /\ SlackLeft /\ [Next]_vars => SlackLeft'
  <2> SUFFICES ASSUME TypeOK, RingInv, HeldWhileShort, SlackLeft, [Next]_vars
               PROVE  SlackLeft'
    OBVIOUS
  <2>0. fc \in FlowControl /\ Count \in 0 .. Length /\ late \in 0 .. Length + 1
    BY CountRange DEF TypeOK
  <2>1. CASE RefuseByte
    <3>1. fc' = fc /\ Count' = Count /\ late' >= late /\ late' \in Nat
      BY <2>0, <2>1, RingElse DEF RefuseByte
    <3>2. Length - Count + late >= XoffThreshold + 1
            => Length - Count' + late' >= XoffThreshold + 1
      <4>1. \A c, l \in Nat : /\ c <= Length /\ l >= late
                             /\ Length - c + late >= XoffThreshold + 1
                             => Length - c + l >= XoffThreshold + 1
        BY <2>0
      <4>2. Count' \in Nat /\ Count' <= Length
        BY <2>0, <3>1
      <4>3. QED
        BY <3>1, <4>1, <4>2
    <3>3. QED
      BY <3>1, <3>2 DEF SlackLeft
  <2>2. ASSUME NEW b \in Byte, StoreByte(b) PROVE SlackLeft'
    <3>1. CASE fc.enabled = {}
      BY <2>2, <3>1 DEF StoreByte, SlackLeft
    <3>2. CASE fc.enabled # {} /\ ~fc.inProgress
      BY <2>2, <3>2, HoldStart
    <3>3. CASE fc.enabled # {} /\ fc.inProgress
      <4>1. /\ fc' = fc /\ Count' = Count + 1
            /\ late' = IF late <= Length THEN late + 1 ELSE late
        BY <2>2, <3>3, CountStored DEF StoreByte
      <4>2. Length - Count + late >= XoffThreshold + 1
        BY <3>3 DEF SlackLeft
      <4>3. Count' \in 0 .. Length
        <5>1. full <=> FALSE
          BY <2>2 DEF StoreByte
        <5>2. Count # Length
          BY <5>1, CountRange
        <5>3. QED
          BY <2>0, <4>1, <5>2
      <4>4. Length - Count' + late' >= XoffThreshold + 1
        BY <2>0, <4>1, <4>2, <4>3
      <4>5. QED
        BY <3>3, <4>1, <4>4 DEF SlackLeft
    <3>4. QED
      BY <3>1, <3>2, <3>3
  <2>3. CASE ReadReceiveQueue
    <3>1. Count' = Count - 1 /\ late' = late
      BY <2>3, CountRead DEF ReadReceiveQueue
    <3>2. CASE fc' = fc
      BY <2>0, <3>1, <3>2 DEF SlackLeft
    <3>3. CASE fc' # fc
      <4>1. fc' = ReleasePeer(fc) /\ RoomAfterRead(rp') >= XonThreshold
        BY <2>3, <3>3 DEF ReadReceiveQueue
      <4>2. fc'.inProgress = FALSE
        BY <2>0, <4>1, ReleasePeerReleases
      <4>3. Count > 0
        BY <2>0, <2>3, CountRange DEF ReadReceiveQueue
      <4>4. Length - Count' >= XonThreshold
        BY <2>0, <2>3, <3>1, <4>1, <4>3, CountRead
      <4>5. QED
        BY <2>0, <3>1, <4>2, <4>4 DEF SlackLeft
    <3>4. QED
      BY <3>2, <3>3
  <2>4. CASE InputFlush
    <3>1. Count' = 0
      BY <2>4, RingFlushed
    <3>2. fc'.inProgress = FALSE
      BY <2>0, <2>4, ClearInputHandshakeReleases DEF InputFlush, HeldWhileShort
    <3>3. QED
      BY <3>1, <3>2 DEF SlackLeft
  <2>5. CASE Peek \/ GetComError \/ UNCHANGED vars
    <3>1. fc' = fc /\ Count' = Count /\ late' = late
      BY <2>5, RingElse DEF Peek, GetComError, vars
    <3>2. QED
      BY <3>1 DEF SlackLeft
  <2>6. CASE ThrEmpties \/ SendImmediate
    <3>1. Count' = Count /\ late' = late
      BY <2>6, RingElse DEF ThrEmpties, SendImmediate
    <3>2. fc'.inProgress = fc.inProgress /\ fc'.enabled = fc.enabled
      <4>1. CASE ThrEmpties
        BY <2>0, <4>1 DEF ThrEmpties, FlowControl
      <4>2. CASE SendImmediate
        BY <2>0, <4>2, StartWriteStreamKeeps DEF SendImmediate
      <4>3. QED
        BY <2>6, <4>1, <4>2
    <3>3. QED
      BY <3>1, <3>2 DEF SlackLeft
  <2>7. QED
    BY <2>1, <2>2, <2>3, <2>4, <2>5, <2>6 DEF Next, WrtReceiveQueue, SetDCB
<1>3. TypeOK /\ RingInv /\ SlackLeft => FullOnlyAfterSlack
  <2> SUFFICES ASSUME TypeOK, RingInv, SlackLeft, fc.enabled # {}, full
               PROVE  fc.inProgress /\ late > XoffThreshold
    BY DEF FullOnlyAfterSlack
  <2>1. Count = Length /\ late \in 0 .. Length + 1
    BY CountRange DEF TypeOK
  <2>2. QED
    BY <2>1 DEF SlackLeft
<1>4. Spec => []HeldWhileShort
  BY NoHoldOutlivesTheQueue, PTL
<1>5. QED
  BY <1>1, <1>2, <1>3, <1>4, TypeCorrect, RingCorrect, PTL DEF Spec

-----------------------------------------------------------------------------
(* While neither a flush nor a DCB intervenes, every enabled handshake is   *)
(* in progress together and ends together.                                  *)

(* StartWriteStream hands the peer the character that was waiting.         *)
LEMMA StartWriteStreamParallel ==
  ASSUME NEW s \in FlowControl, InParallel(s)
  PROVE  InParallel(StartWriteStream(s))
BY DEF StartWriteStream, Transmit, InParallel, FlowControl

(* wrt_send_Xoff starts every handshake that is enabled.                   *)
LEMMA HoldPeerParallel ==
  ASSUME NEW s \in FlowControl, InParallel(s), ~s.inProgress
  PROVE  InParallel(HoldPeer(s))
<1> DEFINE x == "XonXoff" \in s.enabled
           w == s.txWait \/ ~s.fullDuplex
           s1 == [s EXCEPT !.inProgress = TRUE]
           t == [s1 EXCEPT !.txWait = w, !.xoffSent = TRUE, !.imm = "Xoff"]
           u == StartWriteStream(t)
           s2 == IF x THEN u ELSE s1
<1>1. s.xoffSent = FALSE /\ s.txWait = FALSE /\ s.rts = TRUE
  BY DEF InParallel, FlowControl
<1>2. w \in BOOLEAN
  OBVIOUS
<1> HIDE DEF w
<1>3. /\ t \in FlowControl /\ t.inProgress = TRUE /\ t.enabled = s.enabled
      /\ t.xoffSent = TRUE /\ t.imm = "Xoff" /\ t.rts = TRUE
  BY <1>1, <1>2 DEF FlowControl
<1>4. /\ s1 \in FlowControl /\ s1.inProgress = TRUE /\ s1.enabled = s.enabled
      /\ s1.xoffSent = FALSE /\ s1.txWait = FALSE /\ s1.rts = TRUE
      /\ s1.imm = s.imm /\ s1.peer = s.peer
  BY <1>1 DEF FlowControl
<1> HIDE DEF s1
<1>5. HoldPeer(s) = IF "RTS" \in s.enabled THEN [s2 EXCEPT !.rts = FALSE] ELSE s2
  <2>1. s1.txWait = s.txWait
    BY <1>1, <1>4
  <2>2. t = [s1 EXCEPT !.txWait = @ \/ ~s.fullDuplex, !.xoffSent = TRUE, !.imm = "Xoff"]
    BY <2>1 DEF w
  <2> HIDE DEF t
  <2>3. QED
    BY <1>1, <2>2 DEF HoldPeer, s1
<1> HIDE DEF t
<1>6. /\ u \in FlowControl /\ u.inProgress = TRUE /\ u.enabled = s.enabled
      /\ u.xoffSent = TRUE /\ u.rts = TRUE
      /\ IF u.imm = "none" THEN u.peer = "stop" ELSE u.imm = "Xoff"
  <2>1. IF u.imm = "none" THEN u.peer = "stop" ELSE u.imm = "Xoff"
    BY <1>3 DEF StartWriteStream, Transmit, FlowControl
  <2> HIDE DEF u
  <2>2. u = StartWriteStream(t)
    BY DEF u
  <2>3. QED
    BY <1>3, <2>1, <2>2, StartWriteStreamType, StartWriteStreamKeeps
<1> HIDE DEF u
<1>7. /\ s2 \in FlowControl /\ s2.inProgress = TRUE /\ s2.enabled = s.enabled
      /\ s2.xoffSent = x /\ s2.rts = TRUE
      /\ s2.txWait => s2.xoffSent
      /\ IF s2.imm = "none" THEN s2.peer = (IF x THEN "stop" ELSE "go")
                            ELSE s2.imm = (IF x THEN "Xoff" ELSE "Xon")
  <2>1. CASE x
    BY <1>6, <2>1
  <2>2. CASE ~x
    <3>1. s2 = s1 /\ x = FALSE
      BY <2>2
    <3>2. IF s.imm = "none" THEN s.peer = "go" ELSE s.imm = "Xon"
      BY <1>1 DEF InParallel
    <3> HIDE DEF s2, x
    <3>3. QED
      BY <1>4, <3>1, <3>2
  <2>3. QED
    BY <2>1, <2>2
<1> HIDE DEF s2
<1>8. CASE "RTS" \in s.enabled
  <2> DEFINE v == [s2 EXCEPT !.rts = FALSE]
  <2>1. /\ v.inProgress = TRUE /\ v.enabled = s.enabled /\ v.xoffSent = x
        /\ v.rts = FALSE /\ v.txWait = s2.txWait
        /\ v.imm = s2.imm /\ v.peer = s2.peer
    BY <1>7 DEF FlowControl
  <2>2. InParallel(v)
    <3> HIDE DEF v
    <3> QED BY <1>7, <1>8, <2>1 DEF InParallel
  <2>3. QED
    BY <1>5, <1>8, <2>2
<1>9. CASE "RTS" \notin s.enabled
  BY <1>5, <1>7, <1>9 DEF InParallel
<1>10. QED
  BY <1>8, <1>9

(* rd_send_Xon ends every handshake that is enabled.                       *)
LEMMA ReleasePeerParallel ==
  ASSUME NEW s \in FlowControl, InParallel(s), s.inProgress
  PROVE  InParallel(ReleasePeer(s))
<1> DEFINE x == "XonXoff" \in s.enabled
           s1 == [s EXCEPT !.inProgress = FALSE]
           t == [s1 EXCEPT !.txWait = FALSE, !.xoffSent = FALSE, !.imm = "Xon"]
           u == StartWriteStream(t)
           s2 == IF x THEN u ELSE s1
<1>1. s.xoffSent = x
  BY DEF InParallel, FlowControl
<1>2. /\ t \in FlowControl /\ t.inProgress = FALSE /\ t.enabled = s.enabled
      /\ t.xoffSent = FALSE /\ t.txWait = FALSE /\ t.imm = "Xon" /\ t.rts = s.rts
  BY DEF FlowControl
<1>3. /\ s1 \in FlowControl /\ s1.inProgress = FALSE /\ s1.enabled = s.enabled
      /\ s1.xoffSent = s.xoffSent /\ s1.txWait = s.txWait /\ s1.rts = s.rts
      /\ s1.imm = s.imm /\ s1.peer = s.peer
  BY DEF FlowControl
<1>4. ReleasePeer(s) = IF "RTS" \in s.enabled THEN [s2 EXCEPT !.rts = TRUE] ELSE s2
  BY <1>1 DEF ReleasePeer
<1> HIDE DEF s1, t
<1>5. /\ u \in FlowControl /\ u.inProgress = FALSE /\ u.enabled = s.enabled
      /\ u.xoffSent = FALSE /\ u.txWait = FALSE /\ u.rts = s.rts
      /\ IF u.imm = "none" THEN u.peer = "go" ELSE u.imm = "Xon"
  <2>1. IF u.imm = "none" THEN u.peer = "go" ELSE u.imm = "Xon"
    BY <1>2 DEF StartWriteStream, Transmit, FlowControl
  <2> HIDE DEF u
  <2>2. u = StartWriteStream(t)
    BY DEF u
  <2>3. QED
    BY <1>2, <2>1, <2>2, StartWriteStreamType, StartWriteStreamKeeps
<1> HIDE DEF u
<1>6. /\ s2 \in FlowControl /\ s2.inProgress = FALSE /\ s2.enabled = s.enabled
      /\ s2.xoffSent = FALSE /\ s2.txWait = FALSE /\ s2.rts = s.rts
      /\ IF s2.imm = "none" THEN s2.peer = "go" ELSE s2.imm = "Xon"
  <2>1. CASE x
    BY <1>5, <2>1
  <2>2. CASE ~x
    BY <1>1, <1>3, <2>2 DEF InParallel, FlowControl
  <2>3. QED
    BY <2>1, <2>2
<1> HIDE DEF s2
<1>7. CASE "RTS" \in s.enabled
  <2> DEFINE v == [s2 EXCEPT !.rts = TRUE]
  <2>1. /\ v.inProgress = FALSE /\ v.xoffSent = FALSE /\ v.rts = TRUE
        /\ v.txWait = FALSE /\ v.imm = s2.imm /\ v.peer = s2.peer
    BY <1>6 DEF FlowControl
  <2>2. InParallel(v)
    <3> HIDE DEF v
    <3> QED BY <1>6, <2>1 DEF InParallel
  <2>3. QED
    BY <1>4, <1>7, <2>2
<1>8. CASE "RTS" \notin s.enabled
  <2>1. s.rts = TRUE
    BY <1>8 DEF InParallel, FlowControl
  <2>2. QED
    BY <1>4, <1>6, <1>8, <2>1 DEF InParallel
<1>9. QED
  BY <1>7, <1>8

(* What the comment of ClearInputHandshake relies on: without a flush and a *)
(* new DCB all enabled handshakes start together in wrt_send_Xoff and end  *)
(* together in rd_send_Xon, and the far end never hears, nor has waiting   *)
(* for it, a handshake character that contradicts                          *)
(* DEV_FLAG1_EVENT_XOFF_SENT.                                              *)
THEOREM HandshakesGoTogether ==
  ASSUME Calls = {}
  PROVE  Spec => []HandshakeInParallel
<1>1. Init => HandshakeInParallel
  BY DEF Init, HandshakeInParallel, InParallel
<1>2. TypeOK /\ HandshakeInParallel /\ [Next]_vars => HandshakeInParallel'
  <2> SUFFICES ASSUME TypeOK, InParallel(fc), [Next]_vars PROVE InParallel(fc')
    BY DEF HandshakeInParallel
  <2>0. fc \in FlowControl
    BY DEF TypeOK
  <2>1. ASSUME NEW b \in Byte, StoreByte(b) PROVE InParallel(fc')
    BY <2>0, <2>1, HoldPeerParallel DEF StoreByte
  <2>2. CASE ReadReceiveQueue
    BY <2>0, <2>2, ReleasePeerParallel DEF ReadReceiveQueue
  <2>3. CASE ThrEmpties
    BY <2>0, <2>3 DEF ThrEmpties, InParallel, FlowControl
  <2>4. CASE SendImmediate
    BY <2>0, <2>4, StartWriteStreamParallel DEF SendImmediate
  <2>5. CASE RefuseByte \/ Peek \/ GetComError \/ UNCHANGED vars
    BY <2>5 DEF RefuseByte, Peek, GetComError, vars
  <2>6. QED
    BY <2>1, <2>2, <2>3, <2>4, <2>5 DEF Next, WrtReceiveQueue, InputFlush, SetDCB
<1>3. QED
  BY <1>1, <1>2, TypeCorrect, PTL DEF Spec

-----------------------------------------------------------------------------
(* RcvQueue implements RcvFifo: the ring with its two pointers and two      *)
(* flags is a bounded first-in first-out queue, whatever the handshaking on *)
(* top of it does.  The slots in use run from the read pointer to just      *)
(* before the write pointer.                                                *)

(* The slots in use, from the read pointer on, are distinct slots of the   *)
(* buffer, and end just before the write pointer.                          *)
LEMMA SlotsInUse ==
  ASSUME TypeOK, RingInv
  PROVE  /\ \A k \in 0 .. Count - 1 : Slot(k) \in Index
         /\ ~full => /\ Slot(Count) = wp
                     /\ \A k \in 0 .. Count - 1 : Slot(k) # wp
         /\ Count > 0 => /\ Slot(Count - 1) = Prev1(wp)
                         /\ \A k \in 0 .. Count - 2 : Slot(k) # Prev1(wp)
                         /\ Slot(0) = rp
<1>1. /\ Length \in Nat \ {0}
      /\ wp \in 0 .. Length - 1 /\ rp \in 0 .. Length - 1
      /\ full \in BOOLEAN /\ empty \in BOOLEAN
      /\ (wp = rp) <=> (full \/ empty)
      /\ ~(full /\ empty)
  BY LengthAssumption DEF TypeOK, RingInv, Index
<1>2. /\ full => Count = Length
      /\ empty => Count = 0
      /\ rp < wp => Count = wp - rp
      /\ wp < rp => Count = Length - rp + wp
  BY <1>1 DEF Count
<1>3. \A k \in 0 .. Count - 1 : Slot(k) \in Index
  BY <1>1, <1>2 DEF Slot, Extent, Index
<1>4. ASSUME ~full
      PROVE  Slot(Count) = wp /\ \A k \in 0 .. Count - 1 : Slot(k) # wp
  BY <1>1, <1>2, <1>4 DEF Slot, Extent
<1>5. ASSUME Count > 0
      PROVE  /\ Slot(Count - 1) = Prev1(wp)
             /\ \A k \in 0 .. Count - 2 : Slot(k) # Prev1(wp)
             /\ Slot(0) = rp
  BY <1>1, <1>2, <1>5 DEF Slot, Extent, Prev1
<1>6. QED
  BY <1>3, <1>4, <1>5

(* The bytes of the queue are a sequence of Count bytes.                   *)
LEMMA ContentsSeq ==
  TypeOK /\ RingInv =>
    /\ Contents \in Seq(Cell)
    /\ Len(Contents) = Count
    /\ Count \in Nat
    /\ \A i \in 1 .. Count : Contents[i] = buf[Slot(i - 1)]
<1> SUFFICES ASSUME TypeOK, RingInv
             PROVE  /\ Contents \in Seq(Cell)
                    /\ Len(Contents) = Count
                    /\ Count \in Nat
                    /\ \A i \in 1 .. Count : Contents[i] = buf[Slot(i - 1)]
  OBVIOUS
<1>1. Count \in Nat
  BY CountRange, LengthAssumption
<1>2. \A i \in 1 .. Count : buf[Slot(i - 1)] \in Cell
  BY <1>1, SlotsInUse DEF TypeOK
<1>3. Contents \in [1 .. Count -> Cell]
  BY <1>2 DEF Contents
<1>4. Contents \in Seq(Cell)
  BY <1>1, <1>3, SeqDef
<1>5. Len(Contents) = Count
  BY <1>1, <1>3, <1>4, LenProperties
<1>6. \A i \in 1 .. Count : Contents[i] = buf[Slot(i - 1)]
  BY DEF Contents
<1>7. QED
  BY <1>1, <1>4, <1>5, <1>6

(* The same of the next state.                                             *)
LEMMA ContentsNext ==
  (TypeOK /\ RingInv =>
    /\ Contents \in Seq(Cell)
    /\ Len(Contents) = Count
    /\ Count \in Nat
    /\ \A i \in 1 .. Count : Contents[i] = buf[Slot(i - 1)])'
BY ContentsSeq, PTL

-----------------------------------------------------------------------------
(* Each step of the ring is a step of the FIFO, or none.                   *)

(* WrtReceiveQueue with room appends the byte.                             *)
LEMMA StorePuts ==
  ASSUME TypeOK, RingInv, TypeOK', NEW b \in Byte, StoreByte(b)
  PROVE  Fifo!Put(b)
<1>1. Count \in 0 .. Length /\ Count # Length /\ ~full
  BY CountRange DEF StoreByte
<1>2. RingInv' /\ Count' = Count + 1
  BY CountStored
<1>3. /\ Contents' \in Seq(Cell) /\ Len(Contents') = Count + 1
      /\ \A i \in 1 .. Count + 1 : Contents'[i] = buf'[Slot(i - 1)']
  BY <1>2, ContentsNext
<1>4. /\ Contents \in Seq(Cell) /\ Len(Contents) = Count
      /\ \A i \in 1 .. Count : Contents[i] = buf[Slot(i - 1)]
  BY ContentsSeq
<1>5. /\ Append(Contents, b) \in Seq(Cell)
      /\ Len(Append(Contents, b)) = Count + 1
      /\ \A i \in 1 .. Count : Append(Contents, b)[i] = Contents[i]
      /\ Append(Contents, b)[Count + 1] = b
  BY <1>1, <1>4 DEF Cell
<1>6. \A k : Slot(k)' = Slot(k)
  BY DEF StoreByte, Slot
<1>7. \A i \in 1 .. Count + 1 : Contents'[i] = Append(Contents, b)[i]
  <2>1. buf' = [buf EXCEPT ![wp] = b] /\ wp \in Index /\ buf \in [Index -> Cell]
    BY DEF StoreByte, TypeOK
  <2>2. ASSUME NEW i \in 1 .. Count
        PROVE  Contents'[i] = Append(Contents, b)[i]
    <3>1. Slot(i - 1) \in Index /\ Slot(i - 1) # wp
      BY <1>1, <2>2, SlotsInUse
    <3>2. Contents'[i] = buf'[Slot(i - 1)]
      BY <1>1, <1>3, <1>6, <2>2
    <3>3. QED
      BY <1>4, <1>5, <2>1, <2>2, <3>1, <3>2
  <2>3. Contents'[Count + 1] = Append(Contents, b)[Count + 1]
    <3>1. Slot(Count) = wp
      BY <1>1, SlotsInUse
    <3>2. Contents'[Count + 1] = buf'[Slot(Count)]
      BY <1>1, <1>3, <1>6
    <3>3. QED
      BY <1>5, <2>1, <3>1, <3>2
  <2>4. \A i \in 1 .. Count + 1 : i \in 1 .. Count \/ i = Count + 1
    BY <1>1, LengthAssumption
  <2>5. QED
    BY <2>2, <2>3, <2>4
<1>8. Contents' = Append(Contents, b)
  BY <1>3, <1>5, <1>7, SeqEqual
<1>9. QED
  BY <1>1, <1>4, <1>8, LengthAssumption DEF Fifo!Put, StoreByte

(* ReadReceiveQueue takes the oldest byte.                                 *)
LEMMA ReadGets ==
  ASSUME TypeOK, RingInv, TypeOK', ReadReceiveQueue
  PROVE  Fifo!Get
<1>1. Count \in 0 .. Length /\ Count > 0
  BY CountRange DEF ReadReceiveQueue
<1>2. RingInv' /\ Count' = Count - 1
  BY CountRead
<1>3. /\ Contents' \in Seq(Cell) /\ Len(Contents') = Count - 1
      /\ \A i \in 1 .. Count - 1 : Contents'[i] = buf'[Slot(i - 1)']
  BY <1>2, ContentsNext
<1>4. /\ Contents \in Seq(Cell) /\ Len(Contents) = Count
      /\ \A i \in 1 .. Count : Contents[i] = buf[Slot(i - 1)]
  BY ContentsSeq
<1>5. Contents # <<>> /\ Head(Contents) = buf[rp]
  <2>1. Contents # <<>>
    BY <1>1, <1>4
  <2>2. Head(Contents) = Contents[1]
    BY <1>4, <2>1
  <2>3. Contents[1] = buf[Slot(0)]
    BY <1>1, <1>4
  <2>4. QED
    BY <1>1, <2>1, <2>2, <2>3, SlotsInUse
<1>6. /\ Tail(Contents) \in Seq(Cell) /\ Len(Tail(Contents)) = Count - 1
      /\ \A i \in 1 .. Count - 1 : Tail(Contents)[i] = Contents[i + 1]
  BY <1>4, <1>5, HeadTailProperties
<1>7. \A k \in 0 .. Count - 2 : Slot(k)' = Slot(k + 1)
  <2>1. rp' = IF rp < Length - 1 THEN rp + 1 ELSE 0
    BY DEF ReadReceiveQueue, Next1, Extent
  <2>2. rp \in 0 .. Length - 1 /\ Length \in Nat \ {0}
    BY LengthAssumption DEF TypeOK, Index
  <2>3. QED
    BY <1>1, <2>1, <2>2 DEF Slot, Extent
<1>8. \A i \in 1 .. Count - 1 : Contents'[i] = Tail(Contents)[i]
  <2> TAKE i \in 1 .. Count - 1
  <2>1. Contents'[i] = buf[Slot(i - 1)']
    BY <1>3 DEF ReadReceiveQueue
  <2>2. Slot(i - 1)' = Slot(i)
    BY <1>1, <1>7
  <2>3. Tail(Contents)[i] = buf[Slot(i)]
    BY <1>1, <1>4, <1>6
  <2>4. QED
    BY <2>1, <2>2, <2>3
<1>9. Contents' = Tail(Contents)
  BY <1>3, <1>6, <1>8, SeqEqual
<1>10. QED
  BY <1>5, <1>9 DEF Fifo!Get, ReadReceiveQueue

(* WrtReceiveQueue without room replaces the youngest byte by the error    *)
(* character, or drops the new one.                                        *)
LEMMA RefuseRefuses ==
  ASSUME TypeOK, RingInv, TypeOK', RefuseByte
  PROVE  Fifo!Refuse
<1>1. Count = Length /\ Length \in Nat \ {0}
  BY CountRange, LengthAssumption DEF RefuseByte
<1>2. RingInv' /\ Count' = Length
  BY <1>1, RingElse
<1>3. /\ Contents' \in Seq(Cell) /\ Len(Contents') = Length
      /\ \A i \in 1 .. Length : Contents'[i] = buf'[Slot(i - 1)']
  BY <1>2, ContentsNext
<1>4. /\ Contents \in Seq(Cell) /\ Len(Contents) = Length
      /\ \A i \in 1 .. Length : Contents[i] = buf[Slot(i - 1)]
  BY <1>1, ContentsSeq
<1>5. \A k : Slot(k)' = Slot(k)
  BY DEF RefuseByte, Slot
<1>6. CASE ErrorRepl
  <2> DEFINE t == [Contents EXCEPT ![Length] = ErrorChar]
  <2>1. /\ t \in Seq(Cell) /\ Len(t) = Length
        /\ \A i \in 1 .. Length : t[i] = IF i = Length THEN ErrorChar ELSE Contents[i]
    <3>1. Length \in 1 .. Len(Contents) /\ ErrorChar \in Cell
      BY <1>1, <1>4 DEF Cell
    <3>2. QED
      BY <1>4, <3>1, ExceptSeq
  <2>2. /\ buf' = [buf EXCEPT ![Prev1(wp)] = ErrorChar]
        /\ buf \in [Index -> Cell]
    BY <1>6 DEF RefuseByte, TypeOK
  <2>3. /\ Slot(Length - 1) = Prev1(wp) /\ Slot(Length - 1) \in Index
        /\ \A k \in 0 .. Length - 2 : Slot(k) # Prev1(wp) /\ Slot(k) \in Index
    BY <1>1, SlotsInUse
  <2>4. \A i \in 1 .. Length : Contents'[i] = t[i]
    <3> TAKE i \in 1 .. Length
    <3>1. Contents'[i] = buf'[Slot(i - 1)]
      BY <1>3, <1>5
    <3>2. CASE i = Length
      BY <1>1, <2>1, <2>2, <2>3, <3>1, <3>2
    <3>3. CASE i # Length
      <4>1. i - 1 \in 0 .. Length - 2
        BY <1>1, <3>3
      <4>2. buf'[Slot(i - 1)] = buf[Slot(i - 1)]
        BY <2>2, <2>3, <4>1
      <4>3. QED
        BY <1>4, <2>1, <3>1, <3>3, <4>2
    <3>4. QED
      BY <3>2, <3>3
  <2> HIDE DEF t
  <2>5. Contents' = t
    BY <1>3, <2>1, <2>4, SeqEqual
  <2>6. QED
    BY <1>4, <1>6, <2>5 DEF Fifo!Refuse, RefuseByte, t
<1>7. CASE ~ErrorRepl
  <2>1. Contents' = Contents
    BY <1>7 DEF RefuseByte, Contents, Count, Slot
  <2>2. QED
    BY <1>4, <1>7, <2>1 DEF Fifo!Refuse, RefuseByte
<1>8. QED
  BY <1>6, <1>7

(* Peek reports the oldest byte and leaves it.                             *)
LEMMA PeekLooks ==
  ASSUME TypeOK, RingInv, Peek
  PROVE  Fifo!Look
<1>1. Count \in 0 .. Length /\ Count > 0
  BY CountRange DEF Peek
<1>2. Contents \in Seq(Cell) /\ Len(Contents) = Count /\ Contents[1] = buf[Slot(0)]
  BY <1>1, ContentsSeq
<1>3. Contents # <<>> /\ Head(Contents) = Contents[1]
  BY <1>1, <1>2
<1>4. Slot(0) = rp
  BY <1>1, SlotsInUse
<1>5. Contents' = Contents
  BY DEF Peek, Contents, Count, Slot
<1>6. QED
  BY <1>2, <1>3, <1>4, <1>5 DEF Fifo!Look, Peek

(* InputFlush empties the queue.                                           *)
LEMMA FlushFlushes ==
  ASSUME TypeOK', InputFlush
  PROVE  Fifo!Flush
<1>1. RingInv' /\ Count' = 0
  BY RingFlushed
<1>2. Contents' \in Seq(Cell) /\ Len(Contents') = 0
  BY <1>1, ContentsNext
<1>3. Contents' = <<>>
  BY <1>2, EmptySeq
<1>4. QED
  BY <1>3 DEF Fifo!Flush, InputFlush

(* The ring that WrtReceiveQueue fills and ReadReceiveQueue drains is, for *)
(* every length of the read buffer, the bounded first-in first-out queue of *)
(* RcvFifo: bytes come out once, in the order they came in, and one is     *)
(* refused only when Length of them wait.                                  *)
THEOREM QueueImplementsFifo == Spec => FifoRefined
<1>1. Init => Fifo!FifoInit
  <2> SUFFICES ASSUME Init PROVE Fifo!FifoInit
    OBVIOUS
  <2>1. TypeOK /\ RingInv
    <3>1. Init => TypeOK /\ RingInv
      BY InitTypeOK DEF Init, RingInv
    <3>2. QED
      BY <3>1
  <2>2. Count = 0
    BY DEF Init, Count
  <2>3. Contents \in Seq(Cell) /\ Len(Contents) = 0
    BY <2>1, <2>2, ContentsSeq
  <2>4. Contents = <<>>
    BY <2>3, EmptySeq
  <2>5. QED
    BY <2>4 DEF Init, Fifo!FifoInit, Fifo!Cell, Cell
<1>2. TypeOK /\ RingInv /\ TypeOK' /\ [Next]_vars => [Fifo!FifoNext]_(Fifo!fifoVars)
  <2> SUFFICES ASSUME TypeOK, RingInv, TypeOK', [Next]_vars
               PROVE  Fifo!FifoNext \/ UNCHANGED Fifo!fifoVars
    OBVIOUS
  <2>1. CASE RefuseByte
    BY <2>1, RefuseRefuses DEF Fifo!FifoNext
  <2>2. ASSUME NEW b \in Byte, StoreByte(b)
        PROVE  Fifo!FifoNext
    BY <2>2, StorePuts DEF Fifo!FifoNext
  <2>3. CASE ReadReceiveQueue
    BY <2>3, ReadGets DEF Fifo!FifoNext
  <2>4. CASE Peek
    BY <2>4, PeekLooks DEF Fifo!FifoNext
  <2>5. CASE InputFlush
    BY <2>5, FlushFlushes DEF Fifo!FifoNext
  <2>6. CASE GetComError
    <3>1. Contents' = Contents
      BY <2>6 DEF GetComError, Contents, Count, Slot
    <3>2. QED
      BY <2>6, <3>1 DEF GetComError, Fifo!ReportError, Fifo!FifoNext
  <2>7. CASE \/ ThrEmpties \/ SendImmediate \/ UNCHANGED vars
             \/ \E want \in SUBSET {"XonXoff", "RTS"}, duplex, level \in BOOLEAN :
                   SetDCB(want, duplex, level)
    <3>1. UNCHANGED <<buf, wp, rp, full, empty, al, overrun>>
      BY <2>7 DEF ThrEmpties, SendImmediate, SetDCB, vars
    <3>2. Contents' = Contents
      BY <3>1 DEF Contents, Count, Slot
    <3>3. QED
      BY <3>1, <3>2 DEF Fifo!fifoVars
  <2>8. QED
    BY <2>1, <2>2, <2>3, <2>4, <2>5, <2>6, <2>7 DEF Next, WrtReceiveQueue
<1>3. QED
  BY <1>1, <1>2, TypeCorrect, RingCorrect, PTL DEF Spec, FifoRefined, Fifo!FifoSpec
=============================================================================
