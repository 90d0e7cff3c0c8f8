-------------------------- MODULE XmitStreamProofs --------------------------
(***************************************************************************)
(* What holds of XmitStream for every buffer length, FIFO depth, time-out, *)
(* request length and set of events; and, without an immediate byte, that  *)
(* somebody drives the stream of a Write that waits.                       *)
(***************************************************************************)
EXTENDS XmitStream, Integers, TLAPS

(* t follows s without losing or repeating a byte.                         *)
Keeps(s, t) ==
  /\ t \in Device
  /\ t.out + t.cnt = s.out + s.cnt
  /\ t.cnt <= s.cnt

(* No step, no byte.                                                       *)
LEMMA KeepsRefl ==
  ASSUME NEW s \in Device
  PROVE  Keeps(s, s) /\ s.cnt \in Nat /\ s.out \in Nat
BY DEF Keeps, Device

(* Two such steps make one.                                                *)
LEMMA KeepsTrans ==
  ASSUME NEW s \in Device, NEW t, NEW u, Keeps(s, t), Keeps(t, u)
  PROVE  Keeps(s, u)
<1>1. /\ s.cnt \in Nat /\ s.out \in Nat
      /\ t.cnt \in Nat /\ t.out \in Nat
      /\ u.cnt \in Nat /\ u.out \in Nat
  BY DEF Keeps, Device
<1>2. QED
  BY <1>1 DEF Keeps

(* t follows s in the same place of Write.                                 *)
Stays(s, t) == Keeps(s, t) /\ t.pc = s.pc

(* The same of steps that stay in their place.                             *)
LEMMA StaysTrans ==
  ASSUME NEW s \in Device, NEW t, NEW u, Stays(s, t), Stays(t, u)
  PROVE  Stays(s, u)
BY KeepsTrans DEF Stays

(* Changing one field, other than the counts, moves no byte.               *)
LEMMA FieldStays ==
  ASSUME NEW s \in Device
  PROVE  /\ \A b \in BOOLEAN : Stays(s, [s EXCEPT !.lost = b])
         /\ \A b \in BOOLEAN : Stays(s, [s EXCEPT !.ier = b])
         /\ \A b \in BOOLEAN : Stays(s, [s EXCEPT !.thri = b])
         /\ \A b \in BOOLEAN : Stays(s, [s EXCEPT !.imm = b])
         /\ \A b \in BOOLEAN : Stays(s, [s EXCEPT !.cts = b])
         /\ \A b \in BOOLEAN : Stays(s, [s EXCEPT !.delta = b])
         /\ \A b \in BOOLEAN : Stays(s, [s EXCEPT !.restart = b])
         /\ \A b \in BOOLEAN : Stays(s, [s EXCEPT !.clear = b])
         /\ \A b \in BOOLEAN : Stays(s, [s EXCEPT !.blocked = b])
         /\ \A b \in BOOLEAN : Stays(s, [s EXCEPT !.timedOut = b])
         /\ \A b \in BOOLEAN : Stays(s, [s EXCEPT !.flushed = b])
         /\ \A n \in 0 .. Depth : Stays(s, [s EXCEPT !.fifo = n])
         /\ \A n \in 0 .. Start : Stays(s, [s EXCEPT !.timer = n])
         /\ \A h \in SUBSET {"HDW", "XoffRx", "XoffTx"} : Stays(s, [s EXCEPT !.hs = h])
<1>1. \A b \in BOOLEAN : Stays(s, [s EXCEPT !.lost = b])
  BY DEF Stays, Keeps, Device
<1>2. \A b \in BOOLEAN : Stays(s, [s EXCEPT !.ier = b])
  BY DEF Stays, Keeps, Device
<1>3. \A b \in BOOLEAN : Stays(s, [s EXCEPT !.thri = b])
  BY DEF Stays, Keeps, Device
<1>4. \A b \in BOOLEAN : Stays(s, [s EXCEPT !.imm = b])
  BY DEF Stays, Keeps, Device
<1>5. \A b \in BOOLEAN : Stays(s, [s EXCEPT !.cts = b])
  BY DEF Stays, Keeps, Device
<1>6. \A b \in BOOLEAN : Stays(s, [s EXCEPT !.delta = b])
  BY DEF Stays, Keeps, Device
<1>7. \A b \in BOOLEAN : Stays(s, [s EXCEPT !.restart = b])
  BY DEF Stays, Keeps, Device
<1>8. \A b \in BOOLEAN : Stays(s, [s EXCEPT !.clear = b])
  BY DEF Stays, Keeps, Device
<1>9. \A b \in BOOLEAN : Stays(s, [s EXCEPT !.blocked = b])
  BY DEF Stays, Keeps, Device
<1>10. \A b \in BOOLEAN : Stays(s, [s EXCEPT !.timedOut = b])
  BY DEF Stays, Keeps, Device
<1>11. \A b \in BOOLEAN : Stays(s, [s EXCEPT !.flushed = b])
  BY DEF Stays, Keeps, Device
<1>12. \A n \in 0 .. Depth : Stays(s, [s EXCEPT !.fifo = n])
  BY DEF Stays, Keeps, Device
<1>13. \A n \in 0 .. Start : Stays(s, [s EXCEPT !.timer = n])
  BY DEF Stays, Keeps, Device
<1>14. \A h \in SUBSET {"HDW", "XoffRx", "XoffTx"} : Stays(s, [s EXCEPT !.hs = h])
  BY DEF Stays, Keeps, Device
<1>15. QED
  BY <1>1, <1>2, <1>3, <1>4, <1>5, <1>6, <1>7, <1>8, <1>9, <1>10, <1>11, <1>12, <1>13, <1>14

(* The types of the fields the lemmas below compute with.                  *)
LEMMA FieldTypes ==
  ASSUME NEW s \in Device
  PROVE  /\ s.cnt \in Nat /\ s.out \in Nat /\ s.fifo \in 0 .. Depth
         /\ s.timer \in 0 .. Start /\ s.hs \in SUBSET {"HDW", "XoffRx", "XoffTx"}
         /\ s.thri \in BOOLEAN /\ s.lost \in BOOLEAN /\ s.restart \in BOOLEAN
         /\ s.cts \in BOOLEAN /\ s.room \in Nat
BY DEF Device

(* Characters handed to the UART that are not from the queue.              *)
LEMMA PutStays ==
  ASSUME NEW s \in Device, NEW m \in Nat
  PROVE  Stays(s, Put(m, s)) /\ Put(m, s).cnt = s.cnt /\ Put(m, s).out = s.out
<1> DEFINE n == Lesser(s.fifo + m, Depth)
           b == s.lost \/ s.fifo + m > Depth
           t == [s EXCEPT !.fifo = n]
           u == [t EXCEPT !.lost = b]
<1>1. n \in 0 .. Depth /\ b \in BOOLEAN
  BY XmitAssumption, FieldTypes DEF Lesser
<1>2. Put(m, s) = [u EXCEPT !.thri = FALSE]
  BY DEF Put
<1> HIDE DEF n, b
<1>3. t \in Device /\ Stays(s, t) /\ t.cnt = s.cnt /\ t.out = s.out
  <2>1. Stays(s, t)
    BY <1>1, FieldStays
  <2>2. t.cnt = s.cnt /\ t.out = s.out
    BY DEF Device
  <2>3. QED
    BY <2>1, <2>2 DEF Stays, Keeps
<1> HIDE DEF t
<1>4. u \in Device /\ Stays(t, u) /\ u.cnt = s.cnt /\ u.out = s.out
  <2>1. Stays(t, u)
    BY <1>1, <1>3, FieldStays
  <2>2. u.cnt = t.cnt /\ u.out = t.out
    BY <1>3 DEF Device
  <2>3. QED
    BY <1>3, <2>1, <2>2 DEF Stays, Keeps
<1> HIDE DEF u
<1>5. Stays(u, Put(m, s)) /\ Put(m, s).cnt = s.cnt /\ Put(m, s).out = s.out
  <2>1. Stays(u, [u EXCEPT !.thri = FALSE])
    BY <1>4, FieldStays
  <2>2. [u EXCEPT !.thri = FALSE].cnt = u.cnt /\ [u EXCEPT !.thri = FALSE].out = u.out
    BY <1>4 DEF Device
  <2>3. QED
    BY <1>2, <1>4, <2>1, <2>2
<1>6. QED
  BY <1>3, <1>4, <1>5, StaysTrans

(* fill_loop moves bytes from the queue to the UART, one for one.          *)
LEMMA FillStays ==
  ASSUME NEW s \in Device, NEW k \in Nat
  PROVE  Stays(s, Fill(k, s))
<1> DEFINE m == Lesser(k, s.cnt)
           p == Put(m, s)
           q == [p EXCEPT !.cnt = s.cnt - m]
<1>1. m \in Nat /\ m <= s.cnt /\ s.cnt \in Nat /\ s.out \in Nat
  BY FieldTypes DEF Lesser
<1> HIDE DEF m
<1>2. p \in Device /\ p.pc = s.pc /\ p.cnt = s.cnt /\ p.out = s.out
  BY <1>1, PutStays DEF Stays, Keeps
<1>3. Fill(k, s) = [q EXCEPT !.out = s.out + m]
  BY <1>2 DEF Fill, m
<1> HIDE DEF p
<1>4. q \in Device /\ q.pc = s.pc /\ q.cnt = s.cnt - m /\ q.out = s.out
  BY <1>1, <1>2 DEF Device
<1> HIDE DEF q
<1>5. /\ [q EXCEPT !.out = s.out + m] \in Device
      /\ [q EXCEPT !.out = s.out + m].pc = s.pc
      /\ [q EXCEPT !.out = s.out + m].cnt = s.cnt - m
      /\ [q EXCEPT !.out = s.out + m].out = s.out + m
  BY <1>1, <1>4 DEF Device
<1>6. QED
  BY <1>1, <1>3, <1>5 DEF Stays, Keeps

(* The helpers that touch flags and the timer only.                        *)
LEMMA HelpersStay ==
  ASSUME NEW s \in Device
  PROVE  /\ Stays(s, s)
         /\ Stays(s, TxIntOn(s))
         /\ Stays(s, TxIntOff(s))
         /\ Stays(s, SemClear(s))
         /\ Stays(s, Rearm(s))
         /\ Stays(s, ProcessModemSignals(s))
<1>0. Stays(s, s)
  BY KeepsRefl DEF Stays
<1>1. Stays(s, TxIntOn(s))
  <2> DEFINE b == s.thri \/ (~s.ier /\ s.fifo = 0)
             t == [s EXCEPT !.ier = TRUE]
  <2>1. Stays(s, t) /\ t \in Device /\ b \in BOOLEAN
    BY FieldStays DEF Stays, Keeps
  <2>2. TxIntOn(s) = [t EXCEPT !.thri = b]
    BY DEF TxIntOn
  <2> HIDE DEF t, b
  <2>3. QED
    BY <2>1, <2>2, FieldStays, StaysTrans
<1>2. Stays(s, TxIntOff(s))
  <2> DEFINE t == [s EXCEPT !.ier = FALSE]
  <2>1. Stays(s, t) /\ t \in Device
    BY FieldStays DEF Stays, Keeps
  <2>2. TxIntOff(s) = [t EXCEPT !.thri = FALSE]
    BY DEF TxIntOff
  <2> HIDE DEF t
  <2>3. Stays(t, [t EXCEPT !.thri = FALSE])
    BY <2>1, FieldStays
  <2>4. QED
    BY <2>1, <2>2, <2>3, StaysTrans
<1>3. Stays(s, SemClear(s))
  BY FieldStays DEF SemClear
<1>4. Stays(s, Rearm(s))
  <2>1. Start \in 0 .. Start
    BY XmitAssumption
  <2>2. QED
    BY <1>0, <2>1, FieldStays DEF Rearm
<1>5. Stays(s, ProcessModemSignals(s))
  <2> DEFINE t == [s EXCEPT !.delta = FALSE]
             h == IF s.cts THEN s.hs \ {"HDW"} ELSE s.hs \union {"HDW"}
             u == [t EXCEPT !.hs = h]
             b == s.restart \/ s.cts
  <2>1. Stays(s, t) /\ t \in Device /\ b \in BOOLEAN
    BY FieldStays DEF Stays, Keeps
  <2>2. h \in SUBSET {"HDW", "XoffRx", "XoffTx"}
    BY FieldTypes
  <2>3. ProcessModemSignals(s) = [u EXCEPT !.restart = b]
    BY DEF ProcessModemSignals
  <2> HIDE DEF t, h, b
  <2>4. Stays(t, u) /\ u \in Device
    BY <2>1, <2>2, FieldStays DEF Stays, Keeps
  <2> HIDE DEF u
  <2>5. QED
    BY <2>1, <2>3, <2>4, FieldStays, StaysTrans
<1>6. QED
  BY <1>0, <1>1, <1>2, <1>3, <1>4, <1>5

(* UpdateModemHandshakeBits reads the modem signals only.                  *)
LEMMA UpdateStays ==
  ASSUME NEW s \in Device
  PROVE  Stays(s, UpdateModemHandshakeBits(s))
BY HelpersStay DEF UpdateModemHandshakeBits

(* Sending the immediate byte, if there is one.                            *)
LEMMA ImmediateStays ==
  ASSUME NEW s \in Device, NEW b \in BOOLEAN
  PROVE  Stays(s, IF b THEN Put(1, [s EXCEPT !.imm = FALSE]) ELSE s)
<1> DEFINE u == [s EXCEPT !.imm = FALSE]
<1>1. Stays(s, u) /\ u \in Device
  BY FieldStays DEF Stays, Keeps
<1> HIDE DEF u
<1>2. Stays(s, Put(1, u))
  BY <1>1, PutStays, StaysTrans
<1>3. QED
  BY <1>2, HelpersStay DEF u

(* fill_loop and what the code sets after it.                              *)
LEMMA FillThen ==
  ASSUME NEW s \in Device, NEW k \in Nat
  PROVE  /\ Stays(s, [Fill(k, s) EXCEPT !.timer = Start])
         /\ Stays(s, [Fill(k, s) EXCEPT !.restart = FALSE])
<1> DEFINE f == Fill(k, s)
<1>1. Stays(s, f) /\ f \in Device
  BY FillStays DEF Stays, Keeps
<1> HIDE DEF f
<1>2. Start \in 0 .. Start
  BY XmitAssumption
<1>3. Stays(f, [f EXCEPT !.timer = Start]) /\ Stays(f, [f EXCEPT !.restart = FALSE])
  BY <1>1, <1>2, FieldStays
<1>4. QED
  BY <1>1, <1>3, StaysTrans DEF f

(* StartWriteStream, on every path through it.                             *)
LEMMA StartWriteStreamStays ==
  ASSUME NEW s \in Device
  PROVE  Stays(s, StartWriteStream(s))
<1> DEFINE s1 == [s EXCEPT !.restart = FALSE]
           s2 == IF s.imm THEN Put(1, [s1 EXCEPT !.imm = FALSE]) ELSE s1
           room == IF s.imm THEN Depth - 1 ELSE Depth
           f == [Fill(room, s2) EXCEPT !.timer = Start]
<1>1. Stays(s, s1) /\ s1 \in Device /\ s.imm \in BOOLEAN
  <2>1. s.imm \in BOOLEAN
    BY DEF Device
  <2>2. QED
    BY <2>1, FieldStays DEF Stays, Keeps
<1>2. StartWriteStream(s) \in {s, s2, SemClear(s2), TxIntOn(s2), TxIntOn(f)}
  BY DEF StartWriteStream
<1> HIDE DEF s1
<1>3. Stays(s, s2) /\ s2 \in Device
  BY <1>1, ImmediateStays, StaysTrans DEF Stays, Keeps
<1>4. room \in Nat
  BY XmitAssumption
<1> HIDE DEF s2, room
<1>5. Stays(s, f) /\ f \in Device
  BY <1>3, <1>4, FillThen, StaysTrans DEF Stays, Keeps
<1> HIDE DEF f
<1>6. Stays(s, TxIntOn(f)) /\ Stays(s, TxIntOn(s2)) /\ Stays(s, SemClear(s2)) /\ Stays(s, s)
  BY <1>3, <1>5, HelpersStay, StaysTrans
<1>7. QED
  BY <1>2, <1>3, <1>6

(* Leaving the interrupt routine.                                          *)
LEMMA IntExitStays ==
  ASSUME NEW s \in Device
  PROVE  Stays(s, IntExit(s))
BY StartWriteStreamStays, HelpersStay DEF IntExit

(* write_com, on every path through it.                                    *)
LEMMA WriteComStays ==
  ASSUME NEW s \in Device
  PROVE  Stays(s, write_com(s))
<1> DEFINE s1 == [s EXCEPT !.thri = FALSE]
           s2 == IF s.imm THEN Put(1, [s1 EXCEPT !.imm = FALSE]) ELSE s1
           room == IF s.imm THEN Depth - 1 ELSE Depth
           f == [Fill(room, s2) EXCEPT !.restart = FALSE]
<1>1. Stays(s, s1) /\ s1 \in Device /\ s.imm \in BOOLEAN
  <2>1. s.imm \in BOOLEAN
    BY DEF Device
  <2>2. QED
    BY <2>1, FieldStays DEF Stays, Keeps
<1>2. write_com(s) \in {TxIntOff(s1), SemClear(s2), Rearm(s2), TxIntOff(s2), Rearm(f)}
  BY DEF write_com
<1> HIDE DEF s1
<1>3. Stays(s, s2) /\ s2 \in Device
  BY <1>1, ImmediateStays, StaysTrans DEF Stays, Keeps
<1>4. room \in Nat
  BY XmitAssumption
<1> HIDE DEF s2, room
<1>5. Stays(s, f) /\ f \in Device
  BY <1>3, <1>4, FillThen, StaysTrans DEF Stays, Keeps
<1> HIDE DEF f
<1>6. /\ Stays(s, TxIntOff(s1)) /\ Stays(s, TxIntOff(s2))
      /\ Stays(s, SemClear(s2)) /\ Stays(s, Rearm(s2)) /\ Stays(s, Rearm(f))
  BY <1>1, <1>3, <1>5, HelpersStay, StaysTrans
<1>7. QED
  BY <1>2, <1>6
-----------------------------------------------------------------------------
(* The stretches of Write.  Follows(s, t, P) says that t follows s at a     *)
(* place in P, and that the queue is empty at the places that need it so.  *)
Quiet == {"idle", "load", "more", "last"}

Follows(s, t, P) ==
  /\ Keeps(s, t)
  /\ t.pc \in P
  /\ t.pc \in Quiet => t.cnt = 0

(* A step in place and then a step of Write.                               *)
LEMMA FollowsTrans ==
  ASSUME NEW s \in Device, NEW t, NEW u, NEW P, Stays(s, t), Follows(t, u, P)
  PROVE  Follows(s, u, P)
BY KeepsTrans DEF Stays, Follows

Busies == Waits \union {"thrTest", "reclaim", "open", "immOut", "testHs", "enable"}

(* Going to another place, and the two fields only Write uses.             *)
LEMMA PcFollows ==
  ASSUME NEW s \in Device
  PROVE  /\ \A p \in Busies : Follows(s, [s EXCEPT !.pc = p], {p})
         /\ \A p \in {"load", "more", "last"} :
               s.cnt = 0 => Follows(s, [s EXCEPT !.pc = p], {p})
         /\ \A n \in Nat : Stays(s, [s EXCEPT !.room = n])
         /\ \A w \in Waits : Stays(s, [s EXCEPT !.back = w])
<1>1. ASSUME NEW p \in Busies \union {"load", "more", "last"}
      PROVE  /\ Keeps(s, [s EXCEPT !.pc = p])
             /\ [s EXCEPT !.pc = p].pc = p
             /\ [s EXCEPT !.pc = p].cnt = s.cnt
  BY DEF Keeps, Device, Busies, Yields, Waits
<1>2. \A p \in Busies : p \notin Quiet
  BY DEF Busies, Waits, Quiet
<1>3. \A n \in Nat : Stays(s, [s EXCEPT !.room = n])
  BY DEF Stays, Keeps, Device
<1>4. \A w \in Waits : Stays(s, [s EXCEPT !.back = w])
  BY DEF Stays, Keeps, Device
<1>5. QED
  BY <1>1, <1>2, <1>3, <1>4 DEF Follows

(* WriteBlock blocks.                                                      *)
LEMMA WriteBlockFollows ==
  ASSUME NEW s \in Device, NEW at \in Waits
  PROVE  Follows(s, WriteBlock(at, s), {at})
<1> DEFINE t == [s EXCEPT !.pc = at]
           u == [t EXCEPT !.clear = FALSE]
<1>1. Follows(s, t, {at}) /\ t \in Device
  BY PcFollows DEF Follows, Keeps, Busies
<1>2. WriteBlock(at, s) = [u EXCEPT !.blocked = TRUE]
  BY DEF WriteBlock
<1> HIDE DEF t
<1>3. Stays(t, u) /\ u \in Device
  BY <1>1, FieldStays DEF Stays, Keeps
<1> HIDE DEF u
<1>4. Stays(t, WriteBlock(at, s))
  <2>1. Stays(u, [u EXCEPT !.blocked = TRUE])
    BY <1>3, FieldStays
  <2>2. QED
    BY <1>1, <1>2, <1>3, <2>1, StaysTrans
<1>5. at \notin Quiet
  BY DEF Waits, Quiet
<1>6. QED
  BY <1>1, <1>4, <1>5, KeepsTrans DEF Follows, Stays

(* test_HDW_TX_HS_loop blocks or goes on.                                  *)
LEMMA HdwLoopFollows ==
  ASSUME NEW s \in Device
  PROVE  Follows(s, HdwLoop(s), {"hdwWait", "open"})
<1> DEFINE u == UpdateModemHandshakeBits(s)
           t == [u EXCEPT !.pc = "open"]
           v == [t EXCEPT !.room = Depth]
<1>1. Stays(s, u) /\ u \in Device
  BY UpdateStays DEF Stays, Keeps
<1>2. HdwLoop(s) \in {WriteBlock("hdwWait", u), v}
  BY DEF HdwLoop
<1> HIDE DEF u
<1>3. Follows(u, WriteBlock("hdwWait", u), {"hdwWait"})
  BY <1>1, WriteBlockFollows DEF Waits
<1>4. Follows(u, t, {"open"}) /\ t \in Device
  BY <1>1, PcFollows DEF Follows, Keeps, Busies
<1> HIDE DEF t
<1>5. Stays(t, v)
  BY <1>4, XmitAssumption, PcFollows
<1>6. Follows(u, v, {"open"})
  BY <1>1, <1>4, <1>5, KeepsTrans DEF Follows, Stays, Quiet
<1> HIDE DEF v
<1>7. Follows(u, HdwLoop(s), {"hdwWait", "open"})
  BY <1>2, <1>3, <1>6 DEF Follows
<1>8. QED
  BY <1>1, <1>7, FollowsTrans

(* prime_write.                                                            *)
LEMMA PrimeFollows ==
  ASSUME NEW s \in Device
  PROVE  Follows(s, Prime(s), {"thrWait", "hdwWait", "open"})
<1> DEFINE t == [s EXCEPT !.timedOut = FALSE]
           s1 == Rearm(t)
<1>1. Stays(s, t) /\ t \in Device
  BY FieldStays DEF Stays, Keeps
<1>2. Prime(s) = IF s.fifo > 0 THEN WriteBlock("thrWait", s1) ELSE HdwLoop(s1)
  BY DEF Prime
<1> HIDE DEF t
<1>3. Stays(s, s1) /\ s1 \in Device
  BY <1>1, HelpersStay, StaysTrans DEF Stays, Keeps
<1> HIDE DEF s1
<1>4. Follows(s1, WriteBlock("thrWait", s1), {"thrWait"})
  BY <1>3, WriteBlockFollows DEF Waits
<1>5. Follows(s1, HdwLoop(s1), {"hdwWait", "open"})
  BY <1>3, HdwLoopFollows
<1>6. Follows(s1, Prime(s), {"thrWait", "hdwWait", "open"})
  BY <1>2, <1>4, <1>5 DEF Follows
<1>7. QED
  BY <1>3, <1>6, FollowsTrans

(* test_TX_HS_loop and start_stream.                                       *)
LEMMA StreamLoopFollows ==
  ASSUME NEW s \in Device
  PROVE  Follows(s, StreamLoop(s), {"xoffWait", "more", "enable"})
<1> DEFINE u == UpdateModemHandshakeBits(s)
           f == Fill(u.room, u)
           p == IF f.cnt = 0 THEN "more" ELSE "enable"
<1>1. Stays(s, u) /\ u \in Device
  BY UpdateStays DEF Stays, Keeps
<1>2. StreamLoop(s) \in {WriteBlock("xoffWait", u), [f EXCEPT !.pc = p]}
  BY DEF StreamLoop
<1> HIDE DEF u
<1>3. Follows(u, WriteBlock("xoffWait", u), {"xoffWait"})
  BY <1>1, WriteBlockFollows DEF Waits
<1>4. Stays(u, f) /\ f \in Device
  BY <1>1, FieldTypes, FillStays DEF Stays, Keeps
<1> HIDE DEF f
<1>5. Follows(f, [f EXCEPT !.pc = p], {"more", "enable"})
  <2>1. Follows(f, [f EXCEPT !.pc = "enable"], {"enable"})
    BY <1>4, PcFollows DEF Busies
  <2>2. f.cnt = 0 => Follows(f, [f EXCEPT !.pc = "more"], {"more"})
    BY <1>4, PcFollows
  <2>3. QED
    BY <2>1, <2>2 DEF Follows
<1> HIDE DEF p
<1>6. Follows(u, [f EXCEPT !.pc = p], {"more", "enable"})
  BY <1>1, <1>4, <1>5, FollowsTrans
<1>7. Follows(u, StreamLoop(s), {"xoffWait", "more", "enable"})
  BY <1>2, <1>3, <1>6 DEF Follows
<1>8. QED
  BY <1>1, <1>7, FollowsTrans

(* What follows a wake-up.                                                 *)
LEMMA ResumeFollows ==
  ASSUME NEW s \in Device, s.pc \in Waits
  PROVE  Follows(s, Resume(s), Busies \union {"more"})
<1>1. CASE s.pc = "thrWait"
  <2>1. Resume(s) = [s EXCEPT !.pc = "thrTest"]
    BY <1>1 DEF Resume
  <2>2. Follows(s, [s EXCEPT !.pc = "thrTest"], {"thrTest"})
    BY PcFollows DEF Busies
  <2>3. QED
    BY <2>1, <2>2 DEF Follows, Busies
<1>2. CASE s.pc = "hdwWait"
  <2>1. Resume(s) = HdwLoop(s)
    BY <1>2 DEF Resume
  <2>2. QED
    BY <2>1, HdwLoopFollows DEF Follows, Busies, Waits
<1>3. CASE s.pc = "xoffWait"
  <2>1. Resume(s) = StreamLoop(s)
    BY <1>3 DEF Resume
  <2>2. QED
    BY <2>1, StreamLoopFollows DEF Follows, Busies, Waits
<1>4. CASE s.pc = "wrtBlk"
  <2>1. Resume(s) = IF s.cnt = 0 THEN [s EXCEPT !.pc = "more"] ELSE Prime(s)
    BY <1>4 DEF Resume
  <2>2. QED
    BY <2>1, PcFollows, PrimeFollows DEF Follows, Busies, Waits
<1>5. QED
  BY <1>1, <1>2, <1>3, <1>4 DEF Waits
-----------------------------------------------------------------------------
(* The invariant: besides the conservation itself, a queue is empty when    *)
(* Write has returned or is about to load it.                              *)
ConserveInv ==
  /\ TypeOK
  /\ d.pc \in Quiet => d.cnt = 0
  /\ BytesConserved

(* A step of an interrupt routine or of another request keeps the          *)
(* invariant.                                                              *)
LEMMA StaysConserves ==
  ASSUME ConserveInv, NEW t, Stays(d, t), Becomes(t)
  PROVE  ConserveInv'
<1>1. d' = t /\ t \in Device /\ t.pc = d.pc /\ t.cnt <= d.cnt /\ t.out + t.cnt = d.out + d.cnt
  BY DEF Becomes, Stays, Keeps
<1>2. /\ t.cnt \in Nat /\ t.out \in Nat /\ d.cnt \in Nat /\ d.out \in Nat
  BY <1>1, FieldTypes DEF ConserveInv, TypeOK
<1>3. /\ size' = size /\ left' = left /\ result' = result
      /\ size \in Nat /\ left \in Nat /\ result \in Nat
  BY DEF Becomes, ConserveInv, TypeOK
<1>4. TypeOK'
  BY <1>1, <1>3 DEF TypeOK
<1>5. t.pc \in Quiet => t.cnt = 0
  BY <1>1, <1>2 DEF ConserveInv
<1>6. t.pc = "idle" => result = t.out
  BY <1>1, <1>2, <1>5 DEF ConserveInv, BytesConserved, Quiet
<1>7. t.pc # "idle" => size = t.out + t.cnt + left
  BY <1>1, <1>2, <1>3 DEF ConserveInv, BytesConserved
<1>8. QED
  BY <1>1, <1>3, <1>4, <1>5, <1>6, <1>7 DEF ConserveInv, BytesConserved

(* So does a step of Write that does not return.                           *)
LEMMA FollowsConserves ==
  ASSUME ConserveInv, d.pc # "idle", NEW t, NEW P, "idle" \notin P,
         Follows(d, t, P), Becomes(t)
  PROVE  ConserveInv'
<1>1. /\ d' = t /\ t \in Device /\ t.pc # "idle" /\ t.cnt <= d.cnt
      /\ t.out + t.cnt = d.out + d.cnt
      /\ t.pc \in Quiet => t.cnt = 0
  BY DEF Becomes, Follows, Keeps
<1>2. /\ t.cnt \in Nat /\ t.out \in Nat /\ d.cnt \in Nat /\ d.out \in Nat
  BY <1>1, FieldTypes DEF ConserveInv, TypeOK
<1>3. /\ size' = size /\ left' = left /\ result' = result
      /\ size \in Nat /\ left \in Nat /\ result \in Nat
  BY DEF Becomes, ConserveInv, TypeOK
<1>4. size = t.out + t.cnt + left
  BY <1>1, <1>2, <1>3 DEF ConserveInv, BytesConserved
<1>5. QED
  BY <1>1, <1>3, <1>4 DEF ConserveInv, BytesConserved, TypeOK

(* So does its return: what it reports is what the UART was given.         *)
LEMMA ReturnConserves ==
  ASSUME ConserveInv, d.pc # "idle", NEW t, Keeps(d, t), Return(t)
  PROVE  ConserveInv'
<1> DEFINE u == TxIntOff(t)
           v == [u EXCEPT !.pc = "idle"]
           w == [v EXCEPT !.cnt = 0]
<1>1. t \in Device /\ t.cnt \in Nat /\ t.out \in Nat /\ t.out + t.cnt = d.out + d.cnt
  BY FieldTypes DEF Keeps
<1>2. u \in Device /\ u.out = t.out
  <2>1. u \in Device
    BY <1>1, HelpersStay DEF Stays, Keeps
  <2>2. u.out = t.out
    BY <1>1 DEF TxIntOff, Device
  <2>3. QED
    BY <2>1, <2>2
<1>3. d' = [w EXCEPT !.flushed = FALSE]
  BY DEF Return, Finish
<1> HIDE DEF u
<1>4. v \in Device /\ v.out = t.out /\ v.pc = "idle"
  BY <1>2 DEF Device, Yields
<1> HIDE DEF v
<1>5. w \in Device /\ w.out = t.out /\ w.pc = "idle" /\ w.cnt = 0
  BY <1>4 DEF Device
<1> HIDE DEF w
<1>6. d' \in Device /\ d'.out = t.out /\ d'.pc = "idle" /\ d'.cnt = 0
  BY <1>3, <1>5 DEF Device
<1>7. /\ size' = size /\ left' = left /\ result' = size - t.cnt - left
      /\ size \in Nat /\ left \in Nat /\ d.out \in Nat /\ d.cnt \in Nat
      /\ size = d.out + d.cnt + left
  BY FieldTypes DEF Return, ConserveInv, TypeOK, BytesConserved
<1>8. result' = t.out
  BY <1>1, <1>7
<1>9. QED
  BY <1>1, <1>6, <1>7, <1>8 DEF ConserveInv, TypeOK, BytesConserved
-----------------------------------------------------------------------------
(* The steps of Write.                                                     *)

(* A new request.                                                          *)
LEMMA WriteConserves ==
  ASSUME ConserveInv, NEW n \in Sizes, Write(n)
  PROVE  ConserveInv'
<1> DEFINE t == [d EXCEPT !.pc = "load"]
<1>1. d.pc = "idle" /\ d.cnt = 0 /\ d \in Device
  BY DEF Write, ConserveInv, TypeOK, Quiet
<1>2. t \in Device /\ t.pc = "load" /\ t.cnt = 0
  BY <1>1 DEF Device
<1>3. d' = [t EXCEPT !.out = 0]
  BY DEF Write
<1> HIDE DEF t
<1>4. d' \in Device /\ d'.pc = "load" /\ d'.cnt = 0 /\ d'.out = 0
  BY <1>2, <1>3 DEF Device
<1>5. n \in Nat /\ size' = n /\ left' = n /\ result' = result /\ result \in Nat
  BY XmitAssumption DEF Write, ConserveInv, TypeOK
<1>6. QED
  BY <1>4, <1>5 DEF ConserveInv, TypeOK, BytesConserved

(* The next part of the request, loaded into an empty write buffer.        *)
LEMMA LoadBufferConserves ==
  ASSUME ConserveInv, LoadBuffer
  PROVE  ConserveInv'
<1> DEFINE m == Lesser(left, Buf)
           t == [d EXCEPT !.cnt = m]
           u == [t EXCEPT !.timer = 0]
<1>1. /\ d \in Device /\ d.pc = "load" /\ d.cnt = 0 /\ d.out \in Nat
      /\ size = d.out + left /\ size \in Nat /\ left \in Nat /\ result \in Nat
  BY FieldTypes DEF LoadBuffer, ConserveInv, TypeOK, BytesConserved, Quiet
<1>2. m \in Nat /\ m <= left
  BY <1>1, XmitAssumption DEF Lesser
<1>3. d' = Prime(u) /\ left' = left - m /\ size' = size /\ result' = result
  BY DEF LoadBuffer
<1> HIDE DEF m
<1>4. t \in Device /\ t.cnt = m /\ t.out = d.out
  BY <1>1, <1>2 DEF Device
<1> HIDE DEF t
<1>5. u \in Device /\ u.cnt = m /\ u.out = d.out
  BY <1>4, XmitAssumption DEF Device
<1> HIDE DEF u
<1>6. /\ d' \in Device /\ d'.out + d'.cnt = d.out + m
      /\ d'.pc \in {"thrWait", "hdwWait", "open"}
  BY <1>3, <1>5, PrimeFollows DEF Follows, Keeps
<1>7. d'.out \in Nat /\ d'.cnt \in Nat
  BY <1>6, FieldTypes
<1>8. size' = d'.out + d'.cnt + left'
  BY <1>1, <1>2, <1>3, <1>6, <1>7
<1>9. left' \in Nat
  BY <1>1, <1>2, <1>3
<1>10. d'.pc \notin Quiet
  BY <1>6 DEF Quiet
<1>11. QED
  BY <1>1, <1>3, <1>6, <1>8, <1>9, <1>10 DEF ConserveInv, TypeOK, BytesConserved, Quiet

(* WriteBlock returns.                                                     *)
LEMMA ContinueConserves ==
  ASSUME ConserveInv, d.pc \in Waits, NEW s, Stays(d, s), Continue(s)
  PROVE  ConserveInv'
<1> DEFINE r == [s EXCEPT !.clear = FALSE]
           t == [r EXCEPT !.blocked = FALSE]
<1>1. d \in Device /\ s \in Device /\ d.pc # "idle"
  BY DEF ConserveInv, TypeOK, Stays, Keeps, Waits
<1>2. Stays(s, r) /\ r \in Device
  BY <1>1, FieldStays DEF Stays, Keeps
<1>3. IF t.flushed \/ t.timedOut THEN Return(t) ELSE Becomes(Resume(t))
  BY DEF Continue
<1> HIDE DEF r
<1>4. Stays(r, t)
  BY <1>2, FieldStays
<1>5. Stays(d, t) /\ t \in Device /\ t.pc \in Waits
  BY <1>1, <1>2, <1>4, StaysTrans DEF Stays, Keeps
<1> HIDE DEF t
<1>6. CASE t.flushed \/ t.timedOut
  BY <1>1, <1>3, <1>5, <1>6, ReturnConserves DEF Stays
<1>7. CASE ~(t.flushed \/ t.timedOut)
  <2>1. Follows(t, Resume(t), Busies \union {"more"})
    BY <1>5, ResumeFollows
  <2>2. Follows(d, Resume(t), Busies \union {"more"})
    BY <1>1, <1>5, <2>1, FollowsTrans
  <2>3. "idle" \notin Busies \union {"more"}
    BY DEF Busies, Waits
  <2>4. QED
    BY <1>1, <1>3, <1>7, <2>2, <2>3, FollowsConserves
<1>8. QED
  BY <1>6, <1>7

(* The three steps of a blocked Write.                                     *)
LEMMA BlockedStepsConserve ==
  ASSUME ConserveInv, Wake \/ Poll \/ Reclaim
  PROVE  ConserveInv'
<1>1. d \in Device /\ Stays(d, d)
  BY HelpersStay DEF ConserveInv, TypeOK
<1>2. CASE Wake
  BY <1>1, <1>2, ContinueConserves DEF Wake
<1>3. CASE Poll
  <2> DEFINE u == IF d.cnt = 0 THEN d ELSE UpdateModemHandshakeBits(d)
             v == [u EXCEPT !.pc = "reclaim"]
  <2>1. Stays(d, u) /\ u \in Device
    BY <1>1, UpdateStays DEF Stays, Keeps
  <2>2. d.pc \in Waits
    BY <1>3 DEF Poll
  <2>3. Becomes([v EXCEPT !.back = d.pc]) \/ Continue(u)
    BY <1>3 DEF Poll
  <2> HIDE DEF u
  <2>4. CASE Continue(u)
    BY <2>1, <2>2, <2>4, ContinueConserves
  <2>5. CASE Becomes([v EXCEPT !.back = d.pc])
    <3>1. Follows(u, v, {"reclaim"}) /\ v \in Device
      BY <2>1, PcFollows DEF Follows, Keeps, Busies
    <3> HIDE DEF v
    <3>2. Stays(v, [v EXCEPT !.back = d.pc])
      BY <2>2, <3>1, PcFollows
    <3>3. Follows(u, [v EXCEPT !.back = d.pc], {"reclaim"})
      BY <2>1, <3>1, <3>2, KeepsTrans DEF Follows, Stays, Quiet
    <3>4. Follows(d, [v EXCEPT !.back = d.pc], {"reclaim"})
      BY <1>1, <2>1, <3>3, FollowsTrans
    <3>5. d.pc # "idle"
      BY <2>2 DEF Waits
    <3>6. QED
      BY <2>5, <3>4, <3>5, FollowsConserves
  <2>6. QED
    BY <2>3, <2>4, <2>5
<1>4. CASE Reclaim
  <2>1. d.back \in Waits
    BY <1>1 DEF Device
  <2>2. Follows(d, WriteBlock(d.back, d), {d.back})
    BY <1>1, <2>1, WriteBlockFollows
  <2>3. "idle" \notin {d.back} /\ d.pc # "idle"
    BY <1>4, <2>1 DEF Waits, Reclaim
  <2>4. QED
    BY <1>4, <2>2, <2>3, FollowsConserves DEF Reclaim
<1>5. QED
  BY <1>2, <1>3, <1>4

(* The steps from the test of the holding register to fill_loop.           *)
LEMMA StreamStepsConserve ==
  ASSUME ConserveInv, TestThr \/ InitiateStream \/ SendImmediate \/ TestHandshake
  PROVE  ConserveInv'
<1>1. d \in Device /\ Stays(d, d) /\ Keeps(d, d)
  BY HelpersStay DEF ConserveInv, TypeOK, Stays
<1>2. CASE TestThr
  <2>1. Follows(d, WriteBlock("thrWait", d), {"thrWait"})
    BY <1>1, WriteBlockFollows DEF Waits
  <2>2. Stays(d, Rearm(d)) /\ Rearm(d) \in Device
    BY <1>1, HelpersStay DEF Stays, Keeps
  <2>3. Follows(d, HdwLoop(Rearm(d)), {"hdwWait", "open"})
    BY <1>1, <2>2, HdwLoopFollows, FollowsTrans
  <2>4. d.pc # "idle"
    BY <1>2 DEF TestThr
  <2>5. QED
    BY <1>2, <2>1, <2>3, <2>4, FollowsConserves DEF TestThr
<1>3. CASE InitiateStream
  <2>1. /\ Follows(d, [d EXCEPT !.pc = "immOut"], {"immOut"})
        /\ Follows(d, [d EXCEPT !.pc = "testHs"], {"testHs"})
    BY <1>1, PcFollows DEF Busies
  <2>2. /\ d.pc # "idle"
        /\ Becomes([d EXCEPT !.pc = "immOut"]) \/ Becomes([d EXCEPT !.pc = "testHs"])
    BY <1>3 DEF InitiateStream
  <2>3. QED
    BY <2>1, <2>2, FollowsConserves
<1>4. CASE SendImmediate
  <2> DEFINE p == Put(1, d)
             t == [p EXCEPT !.imm = FALSE]
             u == [t EXCEPT !.room = Depth - 1]
             q == IF Depth = 1 THEN "enable" ELSE "testHs"
  <2>1. Stays(d, p) /\ p \in Device
    BY <1>1, PutStays DEF Stays, Keeps
  <2>2. d.pc # "idle" /\ Becomes([u EXCEPT !.pc = q])
    BY <1>4 DEF SendImmediate
  <2> HIDE DEF p
  <2>3. Stays(d, t) /\ t \in Device
    <3>1. Stays(p, t)
      BY <2>1, FieldStays DEF Stays, Keeps
    <3>2. QED
      BY <1>1, <2>1, <3>1, StaysTrans DEF Stays, Keeps
  <2> HIDE DEF t
  <2>4. Depth - 1 \in Nat
    BY XmitAssumption
  <2>5. Stays(t, u)
    BY <2>3, <2>4, PcFollows
  <2>6. Stays(d, u) /\ u \in Device
    BY <1>1, <2>3, <2>5, StaysTrans DEF Stays, Keeps
  <2> HIDE DEF u
  <2>7. q \in Busies /\ q # "idle"
    BY DEF Busies
  <2> HIDE DEF q
  <2>8. Follows(d, [u EXCEPT !.pc = q], {q})
    BY <1>1, <2>6, <2>7, PcFollows, FollowsTrans
  <2>9. QED
    BY <2>2, <2>7, <2>8, FollowsConserves
<1>5. CASE TestHandshake
  <2>1. d.pc # "idle" /\ (Return(d) \/ Becomes(StreamLoop(d)))
    BY <1>5 DEF TestHandshake
  <2>2. Follows(d, StreamLoop(d), {"xoffWait", "more", "enable"})
    BY <1>1, StreamLoopFollows
  <2>3. QED
    BY <1>1, <2>1, <2>2, ReturnConserves, FollowsConserves
<1>6. QED
  BY <1>2, <1>3, <1>4, <1>5

(* The steps after it.                                                     *)
LEMMA LastStepsConserve ==
  ASSUME ConserveInv, EnableInterrupts \/ MoreData \/ LastOut
  PROVE  ConserveInv'
<1>1. d \in Device /\ Keeps(d, d)
  BY KeepsRefl DEF ConserveInv, TypeOK
<1>2. CASE EnableInterrupts
  <2> DEFINE r == [d EXCEPT !.restart = FALSE]
             s == TxIntOn(r)
  <2>1. Stays(d, r) /\ r \in Device
    BY <1>1, FieldStays DEF Stays, Keeps
  <2>2. d.pc # "idle" /\ (Return(s) \/ Becomes(WriteBlock("wrtBlk", s)))
    BY <1>2 DEF EnableInterrupts
  <2> HIDE DEF r
  <2>3. Stays(d, s) /\ s \in Device
    BY <1>1, <2>1, HelpersStay, StaysTrans DEF Stays, Keeps
  <2> HIDE DEF s
  <2>4. Follows(d, WriteBlock("wrtBlk", s), {"wrtBlk"})
    BY <1>1, <2>3, WriteBlockFollows, FollowsTrans DEF Waits
  <2>5. QED
    BY <2>2, <2>3, <2>4, ReturnConserves, FollowsConserves DEF Stays
<1>3. CASE MoreData
  <2> DEFINE r == [d EXCEPT !.pc = "last"]
             s == [r EXCEPT !.timer = 0]
  <2>1. d.pc = "more" /\ d.cnt = 0
    BY <1>3 DEF MoreData, ConserveInv, Quiet
  <2>2. /\ Follows(d, [d EXCEPT !.pc = "load"], {"load"})
        /\ Follows(d, r, {"last"})
    BY <1>1, <2>1, PcFollows
  <2>3. Becomes([d EXCEPT !.pc = "load"]) \/ Becomes(s)
    BY <1>3 DEF MoreData
  <2>4. r \in Device
    BY <2>2 DEF Follows, Keeps
  <2> HIDE DEF r
  <2>5. 0 \in 0 .. Start
    BY XmitAssumption
  <2>6. Stays(r, s)
    BY <2>4, <2>5, FieldStays
  <2>7. Follows(d, s, {"last"})
    <3>1. Keeps(d, s) /\ s.pc = "last"
      BY <1>1, <2>2, <2>6, KeepsTrans DEF Follows, Stays
    <3>2. s.cnt = 0
      <4>1. s \in Device /\ s.cnt <= d.cnt
        BY <3>1 DEF Keeps
      <4>2. s.cnt \in Nat
        BY <4>1, FieldTypes
      <4>3. QED
        BY <2>1, <4>1, <4>2
    <3>3. QED
      BY <3>1, <3>2 DEF Follows
  <2> HIDE DEF s
  <2>8. QED
    BY <2>1, <2>2, <2>3, <2>7, FollowsConserves
<1>4. CASE LastOut
  BY <1>1, <1>4, ReturnConserves DEF LastOut
<1>5. QED
  BY <1>2, <1>3, <1>4
-----------------------------------------------------------------------------
(* The interrupt routines, the hardware and the other requests move no byte *)
(* but from the queue to the UART.                                          *)

(* The interrupt routines and the Timer.                                   *)
LEMMA InterruptConserves ==
  ASSUME ConserveInv, Interrupt
  PROVE  ConserveInv'
<1>1. d \in Device /\ Stays(d, d)
  BY HelpersStay DEF ConserveInv, TypeOK
<1>2. CASE TransmitInt
  <2>1. Stays(d, write_com(d)) /\ write_com(d) \in Device
    BY <1>1, WriteComStays DEF Stays, Keeps
  <2>2. Stays(d, IntExit(write_com(d)))
    BY <1>1, <2>1, IntExitStays, StaysTrans
  <2>3. QED
    BY <1>2, <2>2, StaysConserves DEF TransmitInt
<1>3. CASE Timer
  <2> DEFINE s == [d EXCEPT !.timer = d.timer - 1]
             t == [s EXCEPT !.timedOut = TRUE]
  <2>1. d.timer - 1 \in 0 .. Start
    BY <1>1, <1>3, FieldTypes, XmitAssumption DEF Timer
  <2>2. Stays(d, s) /\ s \in Device
    BY <1>1, <2>1, FieldStays DEF Stays, Keeps
  <2>3. Becomes(SemClear(t)) \/ Becomes(StartWriteStream(s)) \/ Becomes(s)
    BY <1>3 DEF Timer
  <2> HIDE DEF s
  <2>4. Stays(d, t) /\ t \in Device
    <3>1. Stays(s, t)
      BY <2>2, FieldStays DEF Stays, Keeps
    <3>2. QED
      BY <1>1, <2>2, <3>1, StaysTrans DEF Stays, Keeps
  <2> HIDE DEF t
  <2>5. Stays(d, SemClear(t)) /\ Stays(d, StartWriteStream(s))
    BY <1>1, <2>2, <2>4, HelpersStay, StartWriteStreamStays, StaysTrans
  <2>6. QED
    BY <2>2, <2>3, <2>5, StaysConserves
<1>4. CASE ReceiveXoff
  <2> DEFINE h == d.hs \union {"XoffRx"}
             s == [d EXCEPT !.hs = h]
  <2>1. h \in SUBSET {"HDW", "XoffRx", "XoffTx"}
    BY <1>1, FieldTypes
  <2>2. Becomes(IntExit(s))
    BY <1>4 DEF ReceiveXoff
  <2> HIDE DEF h
  <2>3. Stays(d, s) /\ s \in Device
    BY <1>1, <2>1, FieldStays DEF Stays, Keeps
  <2> HIDE DEF s
  <2>4. QED
    BY <1>1, <2>2, <2>3, IntExitStays, StaysTrans, StaysConserves
<1>5. CASE ReceiveXon
  <2> DEFINE h == d.hs \ {"XoffRx"}
             s == [d EXCEPT !.hs = h]
             t == StartWriteStream(s)
  <2>1. h \in SUBSET {"HDW", "XoffRx", "XoffTx"}
    BY <1>1, FieldTypes
  <2>2. Becomes(IntExit(t))
    BY <1>5 DEF ReceiveXon
  <2> HIDE DEF h
  <2>3. Stays(d, s) /\ s \in Device
    BY <1>1, <2>1, FieldStays DEF Stays, Keeps
  <2> HIDE DEF s
  <2>4. Stays(d, t) /\ t \in Device
    BY <1>1, <2>3, StartWriteStreamStays, StaysTrans DEF Stays, Keeps
  <2> HIDE DEF t
  <2>5. QED
    BY <1>1, <2>2, <2>4, IntExitStays, StaysTrans, StaysConserves
<1>6. CASE ModemInt
  <2>1. Stays(d, ProcessModemSignals(d)) /\ ProcessModemSignals(d) \in Device
    BY <1>1, HelpersStay DEF Stays, Keeps
  <2>2. Stays(d, IntExit(ProcessModemSignals(d)))
    BY <1>1, <2>1, IntExitStays, StaysTrans
  <2>3. QED
    BY <1>6, <2>2, StaysConserves DEF ModemInt
<1>7. CASE SendXoff
  <2> DEFINE r == [d EXCEPT !.imm = TRUE]
             h == d.hs \union {"XoffTx"}
             s == [r EXCEPT !.hs = h]
             t == StartWriteStream(s)
  <2>1. Stays(d, r) /\ r \in Device /\ h \in SUBSET {"HDW", "XoffRx", "XoffTx"}
    BY <1>1, FieldStays, FieldTypes DEF Stays, Keeps
  <2>2. Becomes(IntExit(t))
    BY <1>7 DEF SendXoff
  <2> HIDE DEF r, h
  <2>3. Stays(r, s)
    BY <2>1, FieldStays
  <2>4. Stays(d, s) /\ s \in Device
    BY <1>1, <2>1, <2>3, StaysTrans DEF Stays, Keeps
  <2> HIDE DEF s
  <2>5. Stays(d, t) /\ t \in Device
    BY <1>1, <2>4, StartWriteStreamStays, StaysTrans DEF Stays, Keeps
  <2> HIDE DEF t
  <2>6. QED
    BY <1>1, <2>2, <2>5, IntExitStays, StaysTrans, StaysConserves
<1>8. QED
  BY <1>2, <1>3, <1>4, <1>5, <1>6, <1>7 DEF Interrupt

(* The UART and the modem signals.                                         *)
LEMMA HardwareConserves ==
  ASSUME ConserveInv, UartSends \/ CtsChanges
  PROVE  ConserveInv'
<1>1. d \in Device
  BY DEF ConserveInv, TypeOK
<1>2. CASE UartSends
  <2> DEFINE s == [d EXCEPT !.fifo = d.fifo - 1]
             b == d.ier /\ d.fifo = 1
  <2>1. d.fifo - 1 \in 0 .. Depth /\ b \in BOOLEAN
    BY <1>1, <1>2, FieldTypes, XmitAssumption DEF UartSends, Device
  <2>2. Stays(d, s) /\ s \in Device
    BY <1>1, <2>1, FieldStays DEF Stays, Keeps
  <2>3. Becomes([s EXCEPT !.thri = b])
    BY <1>2 DEF UartSends
  <2> HIDE DEF s, b
  <2>4. Stays(s, [s EXCEPT !.thri = b])
    BY <2>1, <2>2, FieldStays
  <2>5. QED
    BY <1>1, <2>2, <2>3, <2>4, StaysTrans, StaysConserves
<1>3. CASE CtsChanges
  <2> DEFINE b == ~d.cts
             s == [d EXCEPT !.cts = b]
  <2>1. b \in BOOLEAN
    OBVIOUS
  <2>2. Becomes([s EXCEPT !.delta = TRUE])
    BY <1>3 DEF CtsChanges
  <2> HIDE DEF b
  <2>3. Stays(d, s) /\ s \in Device
    BY <1>1, <2>1, FieldStays DEF Stays, Keeps
  <2> HIDE DEF s
  <2>4. Stays(s, [s EXCEPT !.delta = TRUE])
    BY <2>3, FieldStays
  <2>5. QED
    BY <1>1, <2>2, <2>3, <2>4, StaysTrans, StaysConserves
<1>4. QED
  BY <1>2, <1>3

(* TXbyteImmediate.                                                        *)
LEMMA ImmediateRequestConserves ==
  ASSUME ConserveInv, TXbyteImmediate
  PROVE  ConserveInv'
<1> DEFINE u == UpdateModemHandshakeBits(d)
           s == [u EXCEPT !.imm = FALSE]
<1>1. d \in Device
  BY DEF ConserveInv, TypeOK
<1>2. Stays(d, u) /\ u \in Device
  BY <1>1, UpdateStays DEF Stays, Keeps
<1>3. Becomes(Put(1, s)) \/ Becomes([u EXCEPT !.imm = TRUE])
  BY DEF TXbyteImmediate
<1> HIDE DEF u
<1>4. Stays(d, s) /\ s \in Device
  <2>1. Stays(u, s)
    BY <1>2, FieldStays DEF Stays, Keeps
  <2>2. QED
    BY <1>1, <1>2, <2>1, StaysTrans DEF Stays, Keeps
<1>5. Stays(u, [u EXCEPT !.imm = TRUE])
  BY <1>2, FieldStays
<1> HIDE DEF s
<1>6. Stays(d, Put(1, s))
  BY <1>1, <1>4, PutStays, StaysTrans
<1>7. Stays(d, [u EXCEPT !.imm = TRUE])
  BY <1>1, <1>2, <1>5, StaysTrans
<1>8. QED
  BY <1>3, <1>6, <1>7, StaysConserves

(* The other requests.                                                     *)
LEMMA OtherRequestsConserve ==
  ASSUME ConserveInv, SendXon \/ ForceXOFF \/ ForceXON \/ OutputFlush
  PROVE  ConserveInv'
<1>1. d \in Device
  BY DEF ConserveInv, TypeOK
<1>2. CASE SendXon
  <2> DEFINE r == [d EXCEPT !.imm = TRUE]
             h == d.hs \ {"XoffTx"}
             s == [r EXCEPT !.hs = h]
  <2>1. Stays(d, r) /\ r \in Device /\ h \in SUBSET {"HDW", "XoffRx", "XoffTx"}
    BY <1>1, FieldStays, FieldTypes DEF Stays, Keeps
  <2>2. Becomes(StartWriteStream(s))
    BY <1>2 DEF SendXon
  <2> HIDE DEF r, h
  <2>3. Stays(r, s)
    BY <2>1, FieldStays
  <2>4. Stays(d, s) /\ s \in Device
    BY <1>1, <2>1, <2>3, StaysTrans DEF Stays, Keeps
  <2> HIDE DEF s
  <2>5. QED
    BY <1>1, <2>2, <2>4, StartWriteStreamStays, StaysTrans, StaysConserves
<1>3. CASE ForceXOFF
  <2>1. d.hs \union {"XoffRx"} \in SUBSET {"HDW", "XoffRx", "XoffTx"}
    BY <1>1, FieldTypes
  <2>2. Stays(d, [d EXCEPT !.hs = d.hs \union {"XoffRx"}])
    BY <1>1, <2>1, FieldStays
  <2>3. QED
    BY <1>3, <2>2, StaysConserves DEF ForceXOFF
<1>4. CASE ForceXON
  <2> DEFINE h == d.hs \ {"HDW", "XoffRx"}
             s == [d EXCEPT !.hs = h]
  <2>1. h \in SUBSET {"HDW", "XoffRx", "XoffTx"}
    BY <1>1, FieldTypes
  <2>2. Becomes(StartWriteStream(s)) \/ Becomes(s)
    BY <1>4 DEF ForceXON
  <2> HIDE DEF h
  <2>3. Stays(d, s) /\ s \in Device
    BY <1>1, <2>1, FieldStays DEF Stays, Keeps
  <2> HIDE DEF s
  <2>4. QED
    BY <1>1, <2>2, <2>3, StartWriteStreamStays, StaysTrans, StaysConserves
<1>5. CASE OutputFlush
  <2> DEFINE r == TxIntOff(d)
             f == [r EXCEPT !.flushed = TRUE]
             s == [f EXCEPT !.timer = 0]
  <2>1. Stays(d, r) /\ r \in Device
    BY <1>1, HelpersStay DEF Stays, Keeps
  <2>2. Becomes(SemClear(s)) \/ Becomes(s)
    BY <1>5 DEF OutputFlush
  <2> HIDE DEF r
  <2>3. Stays(d, f) /\ f \in Device
    <3>1. Stays(r, f)
      BY <2>1, FieldStays DEF Stays, Keeps
    <3>2. QED
      BY <1>1, <2>1, <3>1, StaysTrans DEF Stays, Keeps
  <2> HIDE DEF f
  <2>4. 0 \in 0 .. Start
    BY XmitAssumption
  <2>5. Stays(f, s)
    BY <2>3, <2>4, FieldStays
  <2>6. Stays(d, s) /\ s \in Device
    BY <1>1, <2>3, <2>5, StaysTrans DEF Stays, Keeps
  <2> HIDE DEF s
  <2>7. Stays(d, SemClear(s))
    BY <1>1, <2>6, HelpersStay, StaysTrans
  <2>8. QED
    BY <2>2, <2>6, <2>7, StaysConserves
<1>6. QED
  BY <1>2, <1>3, <1>4, <1>5
-----------------------------------------------------------------------------
(* A device just opened.                                                   *)
LEMMA InitConserves ==
  ASSUME Init
  PROVE  ConserveInv
<1>1. d \in Device /\ d.pc = "idle" /\ d.cnt = 0 /\ d.out = 0
  BY XmitAssumption DEF Init, Device, Yields, Waits
<1>2. QED
  BY <1>1 DEF Init, ConserveInv, TypeOK, BytesConserved

(* Every step.                                                             *)
LEMMA NextConserves ==
  ASSUME ConserveInv, [Next]_vars
  PROVE  ConserveInv'
<1>1. CASE WriteStep
  BY <1>1, LoadBufferConserves, BlockedStepsConserve, StreamStepsConserve, LastStepsConserve
     DEF WriteStep
<1>2. CASE Interrupt
  BY <1>2, InterruptConserves
<1>3. CASE UartSends \/ CtsChanges
  BY <1>3, HardwareConserves
<1>4. CASE Request
  BY <1>4, WriteConserves, ImmediateRequestConserves, OtherRequestsConserve DEF Request
<1>5. CASE UNCHANGED vars
  BY <1>5 DEF vars, ConserveInv, TypeOK, BytesConserved
<1>6. QED
  BY <1>1, <1>2, <1>3, <1>4, <1>5 DEF Next

(* The invariant holds in every state.                                     *)
LEMMA Conserves == Spec => []ConserveInv
<1>1. Init => ConserveInv
  BY InitConserves
<1>2. ConserveInv /\ [Next]_vars => ConserveInv'
  BY NextConserves
<1>3. QED
  BY <1>1, <1>2, PTL DEF Spec

(* The counts stay natural numbers: wXmitQueueCount is never decremented    *)
(* past zero by Write, write_com or StartWriteStream, the FIFO and the      *)
(* timer keep to their sizes, and Write never reports a negative count.     *)
THEOREM XmitTypeCorrect == Spec => []TypeOK
<1>1. ConserveInv => TypeOK
  BY DEF ConserveInv
<1>2. QED
  BY <1>1, Conserves, PTL

(* Whichever of Write, the transmit interrupt, StartWriteStream and the     *)
(* Timer moves the bytes of a request, and however often they take over     *)
(* from each other, none is lost or sent twice between the request and the  *)
(* UART, and IOcount is the number the UART was given.                      *)
THEOREM EveryByteOnce == Spec => []BytesConserved
<1>1. ConserveInv => BytesConserved
  BY DEF ConserveInv
<1>2. QED
  BY <1>1, Conserves, PTL
-----------------------------------------------------------------------------
(* A stream that may go on is moved by somebody: what the primitives do to   *)
(* the line and to what holds it.                                            *)

(* Where Write is, and what it waits for.                                    *)
SamePlace(s, t) ==
  /\ t.pc = s.pc /\ t.back = s.back /\ t.room = s.room /\ t.imm = s.imm
  /\ t.blocked = s.blocked /\ t.flushed = s.flushed
SameLine(s, t) == t.cnt = s.cnt /\ t.fifo = s.fifo /\ t.ier = s.ier /\ t.thri = s.thri
SameHold(s, t) == t.hs = s.hs /\ t.clear = s.clear

(* Flags and counters that say nothing of the line.                          *)
LEMMA OtherFields ==
  ASSUME NEW s \in Device, NEW x
  PROVE  /\ LET t == [s EXCEPT !.restart = x]  IN SamePlace(s, t) /\ SameLine(s, t) /\ SameHold(s, t)
         /\ LET t == [s EXCEPT !.delta = x]    IN SamePlace(s, t) /\ SameLine(s, t) /\ SameHold(s, t)
         /\ LET t == [s EXCEPT !.timer = x]    IN SamePlace(s, t) /\ SameLine(s, t) /\ SameHold(s, t)
         /\ LET t == [s EXCEPT !.timedOut = x] IN SamePlace(s, t) /\ SameLine(s, t) /\ SameHold(s, t)
         /\ LET t == [s EXCEPT !.hs = x]       IN SamePlace(s, t) /\ SameLine(s, t) /\ t.hs = x /\ t.clear = s.clear
         /\ LET t == [s EXCEPT !.thri = x]     IN SamePlace(s, t) /\ SameHold(s, t) /\ t.cnt = s.cnt
                                                  /\ t.fifo = s.fifo /\ t.ier = s.ier /\ t.thri = x
BY DEF SamePlace, SameLine, SameHold, Device

(* What the interrupt's two switches and the semaphore do.                   *)
LEMMA Switches ==
  ASSUME NEW s \in Device
  PROVE  /\ LET t == TxIntOn(s)  IN SamePlace(s, t) /\ SameHold(s, t) /\ t.cnt = s.cnt /\ t.fifo = s.fifo /\ t.ier
                                    /\ (t.thri <=> s.thri \/ (~s.ier /\ s.fifo = 0))
         /\ LET t == TxIntOff(s) IN SamePlace(s, t) /\ SameHold(s, t) /\ t.cnt = s.cnt /\ t.fifo = s.fifo
                                    /\ ~t.ier /\ ~t.thri
         /\ LET t == SemClear(s) IN SamePlace(s, t) /\ SameLine(s, t) /\ t.hs = s.hs /\ t.clear
         /\ LET t == Rearm(s)    IN SamePlace(s, t) /\ SameLine(s, t) /\ SameHold(s, t)
<1>1. LET t == TxIntOn(s) IN SamePlace(s, t) /\ SameHold(s, t) /\ t.cnt = s.cnt /\ t.fifo = s.fifo /\ t.ier
                             /\ (t.thri <=> s.thri \/ (~s.ier /\ s.fifo = 0))
  <2> DEFINE b == s.thri \/ (~s.ier /\ s.fifo = 0)
  <2>1. TxIntOn(s) = [s EXCEPT !.ier = TRUE, !.thri = b]
    BY DEF TxIntOn
  <2>2. b \in BOOLEAN
    BY DEF Device
  <2> HIDE DEF b
  <2>3. LET t == TxIntOn(s) IN SamePlace(s, t) /\ SameHold(s, t) /\ t.cnt = s.cnt /\ t.fifo = s.fifo /\ t.ier
                               /\ t.thri = b
    BY <2>1, <2>2 DEF SamePlace, SameHold, Device
  <2> QED
    BY <2>3 DEF b
<1>2. LET t == TxIntOff(s) IN SamePlace(s, t) /\ SameHold(s, t) /\ t.cnt = s.cnt /\ t.fifo = s.fifo
                              /\ ~t.ier /\ ~t.thri
  BY DEF TxIntOff, SamePlace, SameHold, Device
<1>3. LET t == SemClear(s) IN SamePlace(s, t) /\ SameLine(s, t) /\ t.hs = s.hs /\ t.clear
  BY DEF SemClear, SamePlace, SameLine, Device
<1>4. LET t == Rearm(s) IN SamePlace(s, t) /\ SameLine(s, t) /\ SameHold(s, t)
  BY OtherFields DEF Rearm, SamePlace, SameLine, SameHold
<1> QED
  BY <1>1, <1>2, <1>3, <1>4

(* fill_loop: a byte goes to the UART if there is one and there is room.     *)
LEMMA Filled ==
  ASSUME NEW s \in Device, NEW k \in Nat
  PROVE  LET t == Fill(k, s) IN
         /\ SamePlace(s, t) /\ SameHold(s, t) /\ t.ier = s.ier /\ ~t.thri /\ t.cnt \in Nat
         /\ s.cnt = 0 => t.cnt = 0
         /\ s.cnt > 0 /\ k > 0 => t.fifo > 0
         /\ t.fifo > 0 => s.fifo > 0 \/ s.cnt > 0
<1> DEFINE m == Lesser(k, s.cnt)
           n == Lesser(s.fifo + m, Depth)
           b == s.lost \/ s.fifo + m > Depth
           c == s.cnt - m
           o == s.out + m
<1>1. /\ m \in Nat /\ s.cnt \in Nat /\ c \in Nat /\ n \in 0 .. Depth
      /\ s.cnt = 0 => c = 0
      /\ s.cnt > 0 /\ k > 0 => n > 0
      /\ n > 0 => s.fifo > 0 \/ s.cnt > 0
  BY FieldTypes, XmitAssumption DEF Lesser
<1>2. Put(m, s) = [s EXCEPT !.fifo = n, !.lost = b, !.thri = FALSE]
  BY DEF Put
<1>3. Fill(k, s) = [s EXCEPT !.fifo = n, !.lost = b, !.thri = FALSE, !.cnt = c, !.out = o]
  BY <1>2 DEF Fill, Device
<1> HIDE DEF m, n, b, c, o
<1>4. LET t == Fill(k, s) IN
      SamePlace(s, t) /\ SameHold(s, t) /\ t.ier = s.ier /\ ~t.thri /\ t.cnt = c /\ t.fifo = n
  BY <1>3 DEF SamePlace, SameHold, Device
<1> QED
  BY <1>1, <1>4

(* The modem signals hold the transmitter, or release it and restart it.     *)
LEMMA SignalsRead ==
  ASSUME NEW s \in Device
  PROVE  /\ LET t == ProcessModemSignals(s) IN SamePlace(s, t) /\ SameLine(s, t) /\ t.clear = s.clear
                                               /\ ("HDW" \in t.hs \/ t.restart)
         /\ LET t == UpdateModemHandshakeBits(s) IN SamePlace(s, t) /\ SameLine(s, t) /\ t.clear = s.clear
<1>1. LET t == ProcessModemSignals(s) IN SamePlace(s, t) /\ SameLine(s, t) /\ t.clear = s.clear
                                         /\ ("HDW" \in t.hs \/ t.restart)
  <2> DEFINE h == IF s.cts THEN s.hs \ {"HDW"} ELSE s.hs \union {"HDW"}
             b == s.restart \/ s.cts
  <2>1. ProcessModemSignals(s) = [s EXCEPT !.delta = FALSE, !.hs = h, !.restart = b]
    BY DEF ProcessModemSignals
  <2>2. "HDW" \in h \/ b
    OBVIOUS
  <2>3. b \in BOOLEAN
    BY DEF Device
  <2> HIDE DEF h, b
  <2>4. LET t == ProcessModemSignals(s) IN SamePlace(s, t) /\ SameLine(s, t) /\ t.clear = s.clear
                                           /\ t.hs = h /\ t.restart = b
    BY <2>1, <2>3 DEF SamePlace, SameLine, Device
  <2> QED
    BY <2>2, <2>4
<1> QED
  BY <1>1 DEF UpdateModemHandshakeBits, SamePlace, SameLine
-----------------------------------------------------------------------------
(* The inductive invariant of the stream, for writes without an immediate    *)
(* byte: the transmit interrupt is pending only on an empty UART; somebody   *)
(* waits for a flush; Write is blocked where it waits; where the buffer      *)
(* drains, a UART that has bytes interrupts when it has none; WriteBlock     *)
(* looks at the signals again only while they hold the transmitter; and what *)
(* Write started goes on until it enables the interrupt.                     *)
Three == {"hdwWait", "xoffWait", "wrtBlk"}
Draining(s) == s.pc \in Three \union {"open", "testHs"} \/ (s.pc = "reclaim" /\ s.back \in Three)

LineInv(s) ==
  /\ s.thri => s.ier /\ s.fifo = 0
  /\ ~s.imm /\ s.room = Depth
PlaceInv(s) ==
  /\ s.pc # "immOut"
  /\ s.flushed => (s.pc \in Waits /\ s.clear) \/ s.pc = "last"
  /\ s.pc \in Waits => s.blocked
  /\ s.pc = "reclaim" => "HDW" \in s.hs /\ ~ModemInts
Watched(s) ==
  /\ Draining(s) /\ ~s.flushed /\ s.fifo > 0 => s.ier
  /\ s.pc = "enable" /\ s.cnt > 0 /\ s.ier /\ s.fifo = 0 => s.thri
(* ... and while nothing holds the transmitter, an empty UART interrupts.    *)
Moved(s) == s.pc \in Three /\ ~s.clear /\ s.cnt > 0 /\ s.hs = {} /\ s.fifo = 0 => s.thri

Base(s) == s \in Device /\ LineInv(s) /\ PlaceInv(s) /\ Watched(s)
Driven(s) == Base(s) /\ Moved(s)

(* What leaves the line alone.                                               *)
LEMMA BaseSame ==
  ASSUME NEW s, NEW t \in Device, Base(s), SamePlace(s, t), SameLine(s, t), s.clear => t.clear,
         s.pc = "reclaim" => "HDW" \in t.hs
  PROVE  Base(t)
BY DEF Base, LineInv, PlaceInv, Watched, Draining, SamePlace, SameLine

(* StartWriteStream leaves a line that is busy, is held, or has moved.       *)
LEMMA StreamStarted ==
  ASSUME NEW s, Base(s)
  PROVE  LET t == StartWriteStream(s) IN Driven(t) /\ SamePlace(s, t) /\ t.hs = s.hs /\ (s.clear => t.clear)
<1> DEFINE s1 == [s EXCEPT !.restart = FALSE]
           f == [Fill(Depth, s1) EXCEPT !.timer = Start]
           g == Fill(Depth, s1)
           t == StartWriteStream(s)
           nothing == s.cnt = 0 \/ (Depth > 0 /\ (s.flushed \/ (~Infinite /\ s.timer = 0)))
<1> SUFFICES Driven(t) /\ SamePlace(s, t) /\ t.hs = s.hs /\ (s.clear => t.clear)
  OBVIOUS
<1>0. s \in Device /\ ~s.imm /\ s.cnt \in Nat /\ s.fifo \in Nat /\ Depth \in Nat /\ Depth > 0
  BY XmitAssumption, FieldTypes DEF Base, LineInv
<1>1. t \in Device
  BY <1>0, StartWriteStreamStays DEF Stays, Keeps
<1>2. /\ s1 \in Device /\ SamePlace(s, s1) /\ SameLine(s, s1) /\ SameHold(s, s1)
  BY <1>0, FieldStays, OtherFields DEF Stays, Keeps
<1>3. t = IF s.fifo > 0 \/ "HDW" \in s.hs THEN s
          ELSE IF nothing THEN (IF s.blocked THEN SemClear(s1) ELSE s1)
          ELSE IF s.hs # {} THEN s1
          ELSE TxIntOn(f)
  BY <1>0 DEF StartWriteStream
<1> HIDE DEF nothing, s1, t
<1>4. CASE s.fifo > 0 \/ "HDW" \in s.hs
  BY <1>0, <1>3, <1>4 DEF Driven, Moved, SamePlace
<1>5. CASE ~(s.fifo > 0 \/ "HDW" \in s.hs) /\ nothing
  <2>1. SamePlace(s1, t) /\ SameLine(s1, t) /\ t.hs = s1.hs /\ (s1.clear => t.clear) /\ (s1.blocked => t.clear)
    BY <1>2, <1>3, <1>5, Switches DEF SamePlace, SameLine, SameHold
  <2>2. SamePlace(s, t) /\ SameLine(s, t) /\ t.hs = s.hs /\ (s.clear => t.clear) /\ (s.blocked => t.clear)
    BY <1>2, <2>1 DEF SamePlace, SameLine, SameHold
  <2>3. Base(t)
    BY <1>1, <2>2, BaseSame DEF Base, PlaceInv
  <2>4. Moved(t)
    BY <2>2 DEF Moved, Base, PlaceInv, SamePlace, Three, Waits
  <2> QED
    BY <2>2, <2>3, <2>4 DEF Driven
<1>6. CASE ~(s.fifo > 0 \/ "HDW" \in s.hs) /\ ~nothing /\ s.hs # {}
  <2>1. t = s1
    BY <1>3, <1>6
  <2>2. Base(t)
    BY <1>1, <1>2, <2>1, BaseSame DEF Base, PlaceInv, SameHold
  <2>3. Moved(t)
    BY <1>2, <1>6, <2>1 DEF Moved, SameHold
  <2> QED
    BY <1>2, <2>1, <2>2, <2>3 DEF Driven, SameHold
<1>7. CASE ~(s.fifo > 0 \/ "HDW" \in s.hs) /\ ~nothing /\ s.hs = {}
  <2>1. t = TxIntOn(f) /\ s.cnt > 0
    BY <1>0, <1>3, <1>7 DEF nothing
  <2>2. /\ g \in Device /\ SamePlace(s1, g) /\ SameHold(s1, g) /\ ~g.thri /\ g.fifo > 0 /\ g.fifo \in Nat
    <3>1. s1.cnt > 0
      BY <1>2, <2>1 DEF SameLine
    <3>2. SamePlace(s1, g) /\ SameHold(s1, g) /\ ~g.thri /\ g.fifo > 0
      BY <1>0, <1>2, <3>1, Filled
    <3>3. g \in Device
      BY <1>0, <1>2, FillStays DEF Stays, Keeps
    <3>4. g.fifo \in Nat
      BY <3>3, FieldTypes
    <3> QED
      BY <3>2, <3>3, <3>4
  <2>3. f \in Device
    BY <1>0, <1>2, FillThen DEF Stays, Keeps
  <2>4. SamePlace(g, f) /\ SameLine(g, f) /\ SameHold(g, f)
    BY <2>2, OtherFields
  <2> HIDE DEF f, g
  <2>5. SamePlace(f, t) /\ SameHold(f, t) /\ t.fifo = f.fifo /\ t.ier /\ (t.thri <=> f.thri \/ (~f.ier /\ f.fifo = 0))
    BY <2>1, <2>3, Switches
  <2>6. SamePlace(s, t) /\ SameHold(s, t) /\ t.fifo > 0 /\ t.fifo # 0 /\ t.ier /\ ~t.thri
    BY <1>2, <2>2, <2>4, <2>5 DEF SamePlace, SameHold, SameLine
  <2>7. Base(t)
    BY <1>1, <2>6 DEF Base, LineInv, PlaceInv, Watched, SamePlace, SameHold
  <2> QED
    BY <2>6, <2>7 DEF Driven, Moved, SameHold
<1> QED
  BY <1>4, <1>5, <1>6, <1>7 DEF t

(* Leaving an interrupt: the stream is restarted if it may go on.            *)
LEMMA IntExited ==
  ASSUME NEW s, Base(s), Moved(s) \/ s.restart
  PROVE  Driven(IntExit(s)) /\ SamePlace(s, IntExit(s)) /\ IntExit(s).hs = s.hs
BY StreamStarted DEF IntExit, Driven, SamePlace

(* The transmit interrupt sends, or ends where there is nothing to send or   *)
(* the transmitter is held.                                                  *)
LEMMA InterruptServed ==
  ASSUME NEW s, Driven(s), s.ier, s.thri
  PROVE  Driven(write_com(s)) /\ SamePlace(s, write_com(s)) /\ write_com(s).hs = s.hs
<1> DEFINE s1 == [s EXCEPT !.thri = FALSE]
           g == Fill(Depth, s1)
           f == [g EXCEPT !.restart = FALSE]
           t == write_com(s)
<1> SUFFICES Driven(t) /\ SamePlace(s, t) /\ t.hs = s.hs
  OBVIOUS
<1>0. /\ s \in Device /\ ~s.imm /\ s.cnt \in Nat /\ s.fifo = 0 /\ Depth \in Nat /\ Depth > 0
  BY XmitAssumption, FieldTypes DEF Driven, Base, LineInv
<1>1. t \in Device
  BY <1>0, WriteComStays DEF Stays, Keeps
<1>2. s1 \in Device
  BY <1>0, FieldStays DEF Stays, Keeps
<1>3. SamePlace(s, s1) /\ SameHold(s, s1) /\ s1.cnt = s.cnt /\ s1.fifo = s.fifo /\ s1.ier = s.ier /\ ~s1.thri
  BY <1>0, OtherFields
<1>4. t = IF "HDW" \in s.hs THEN TxIntOff(s1)
          ELSE IF s.cnt = 0 THEN SemClear(s1)
          ELSE IF s.hs # {} THEN TxIntOff(s1)
          ELSE Rearm(f)
  BY <1>0 DEF write_com
<1> HIDE DEF s1, t
<1>5. CASE s.hs # {} /\ ("HDW" \in s.hs \/ s.cnt # 0)
  <2>1. SamePlace(s1, t) /\ SameHold(s1, t) /\ t.fifo = s1.fifo /\ ~t.ier /\ ~t.thri
    BY <1>2, <1>4, <1>5, Switches
  <2>2. SamePlace(s, t) /\ SameHold(s, t) /\ t.fifo = 0 /\ ~t.ier /\ ~t.thri
    BY <1>0, <1>3, <2>1 DEF SamePlace, SameHold
  <2>3. Base(t)
    BY <1>1, <2>2 DEF Driven, Base, LineInv, PlaceInv, Watched, SamePlace, SameHold
  <2> QED
    BY <1>5, <2>2, <2>3 DEF Driven, Moved, SameHold
<1>6. CASE "HDW" \notin s.hs /\ s.cnt = 0
  <2>1. SamePlace(s1, t) /\ SameLine(s1, t) /\ t.hs = s1.hs /\ t.clear
    BY <1>2, <1>4, <1>6, Switches
  <2>2. SamePlace(s, t) /\ t.hs = s.hs /\ t.clear /\ t.fifo = 0 /\ t.cnt = 0 /\ ~t.thri
    BY <1>0, <1>3, <1>6, <2>1 DEF SamePlace, SameLine, SameHold
  <2>3. Base(t)
    BY <1>1, <2>2 DEF Driven, Base, LineInv, PlaceInv, Watched, SamePlace
  <2> QED
    BY <2>2, <2>3 DEF Driven, Moved
<1>7. CASE s.hs = {} /\ s.cnt # 0
  <2>1. s1.cnt > 0
    BY <1>0, <1>3, <1>7
  <2>2. SamePlace(s1, g) /\ SameHold(s1, g) /\ g.ier = s1.ier /\ ~g.thri /\ g.fifo > 0
    BY <1>0, <1>2, <2>1, Filled
  <2>3. g \in Device /\ f \in Device
    BY <1>0, <1>2, FillStays, FillThen DEF Stays, Keeps
  <2>4. g.fifo \in Nat
    BY <2>3, FieldTypes
  <2>5. SamePlace(g, f) /\ SameLine(g, f) /\ SameHold(g, f)
    BY <2>3, OtherFields
  <2> HIDE DEF f, g
  <2>6. SamePlace(f, t) /\ SameLine(f, t) /\ SameHold(f, t)
    BY <1>4, <1>7, <2>3, Switches
  <2>7. SamePlace(s, t) /\ SameHold(s, t) /\ t.fifo # 0 /\ t.ier /\ ~t.thri
    BY <1>3, <2>2, <2>4, <2>5, <2>6 DEF SamePlace, SameLine, SameHold
  <2>8. Base(t)
    BY <1>1, <2>7 DEF Driven, Base, LineInv, PlaceInv, Watched, SamePlace, SameHold
  <2> QED
    BY <2>7, <2>8 DEF Driven, Moved, SameHold
<1> QED
  BY <1>5, <1>6, <1>7

(* The modem signals of an interrupt.                                        *)
LEMMA SignalsServed ==
  ASSUME NEW s, Driven(s), ModemInts
  PROVE  Driven(IntExit(ProcessModemSignals(s)))
<1> DEFINE t == ProcessModemSignals(s)
<1>1. s \in Device /\ s.pc # "reclaim"
  BY DEF Driven, Base, PlaceInv
<1>2. t \in Device
  BY <1>1, HelpersStay DEF Stays, Keeps
<1>3. SamePlace(s, t) /\ SameLine(s, t) /\ t.clear = s.clear /\ ("HDW" \in t.hs \/ t.restart)
  BY <1>1, SignalsRead
<1>4. Base(t)
  BY <1>1, <1>2, <1>3, BaseSame DEF Driven
<1>5. Moved(t) \/ t.restart
  BY <1>3 DEF Moved
<1> QED
  BY <1>4, <1>5, IntExited

(* An interrupt that holds the stream, or lets it go.                        *)
LEMMA HoldChanged ==
  ASSUME NEW s, Driven(s), NEW h \in SUBSET {"HDW", "XoffRx", "XoffTx"}, s.pc = "reclaim" => "HDW" \in h
  PROVE  Base([s EXCEPT !.hs = h]) /\ [s EXCEPT !.hs = h].hs = h /\ (h # {} => Moved([s EXCEPT !.hs = h]))
<1> DEFINE t == [s EXCEPT !.hs = h]
<1>1. s \in Device
  BY DEF Driven, Base
<1>2. t \in Device /\ SamePlace(s, t) /\ SameLine(s, t) /\ t.hs = h /\ t.clear = s.clear
  BY <1>1, FieldStays, OtherFields DEF Stays, Keeps
<1> HIDE DEF t
<1>3. Base(t)
  BY <1>2, BaseSame DEF Driven
<1>4. h # {} => Moved(t)
  BY <1>2 DEF Moved
<1> QED
  BY <1>2, <1>3, <1>4 DEF t

-----------------------------------------------------------------------------
(* The stretches of Write.                                                   *)

LEMMA Blocks ==
  ASSUME NEW s \in Device, LineInv(s), ~s.flushed, NEW at \in Waits,
         at # "thrWait" /\ s.fifo > 0 => s.ier,
         at # "thrWait" /\ s.cnt > 0 /\ s.hs = {} /\ s.fifo = 0 => s.thri
  PROVE  Driven(WriteBlock(at, s))
<1> DEFINE t == WriteBlock(at, s)
<1>1. t \in Device
  BY WriteBlockFollows DEF Follows, Keeps
<1>2. /\ t.pc = at /\ ~t.clear /\ t.blocked /\ SameLine(s, t) /\ t.hs = s.hs
      /\ t.imm = s.imm /\ t.room = s.room /\ t.flushed = s.flushed
  BY DEF WriteBlock, SameLine, Device
<1>3. at \in {"thrWait", "hdwWait", "xoffWait", "wrtBlk"}
  BY DEF Waits
<1> HIDE DEF t
<1>4. Base(t)
  BY <1>1, <1>2, <1>3 DEF Base, LineInv, PlaceInv, Watched, Draining, Three, SameLine
<1>5. Moved(t)
  BY <1>2, <1>3 DEF Moved, Three, SameLine
<1> QED
  BY <1>4, <1>5 DEF Driven, t

(* Going on, at a place where nothing is waited for.                         *)
LEMMA GoesOn ==
  ASSUME NEW s \in Device, LineInv(s), ~s.flushed, NEW p, p \in {"thrTest", "load", "more", "last", "open", "testHs"},
         p \in {"open", "testHs"} /\ s.fifo > 0 => s.ier, [s EXCEPT !.pc = p] \in Device
  PROVE  Driven([s EXCEPT !.pc = p])
<1> DEFINE t == [s EXCEPT !.pc = p]
<1>1. t.pc = p /\ SameLine(s, t) /\ t.hs = s.hs /\ t.imm = s.imm /\ t.room = s.room /\ t.flushed = s.flushed
  BY DEF SameLine, Device
<1> HIDE DEF t
<1>2. Base(t)
  BY <1>1 DEF Base, LineInv, PlaceInv, Watched, Draining, Three, SameLine, Waits, t
<1>3. Moved(t)
  BY <1>1 DEF Moved, Three
<1> QED
  BY <1>2, <1>3 DEF Driven, t

LEMMA HdwLooped ==
  ASSUME NEW s \in Device, LineInv(s), ~s.flushed, s.fifo > 0 => s.ier
  PROVE  Driven(HdwLoop(s))
<1> DEFINE u == UpdateModemHandshakeBits(s)
           v == [u EXCEPT !.room = Depth]
<1>1. u \in Device /\ SamePlace(s, u) /\ SameLine(s, u)
  BY UpdateStays, SignalsRead DEF Stays, Keeps
<1>2. HdwLoop(s) = IF "HDW" \in u.hs THEN WriteBlock("hdwWait", u) ELSE [u EXCEPT !.pc = "open", !.room = Depth]
  BY DEF HdwLoop
<1> HIDE DEF u
<1>3. LineInv(u) /\ ~u.flushed /\ (u.fifo > 0 => u.ier)
  BY <1>1 DEF LineInv, SamePlace, SameLine
<1>4. CASE "HDW" \in u.hs
  <2>1. "hdwWait" \in Waits /\ u.hs # {}
    BY <1>4 DEF Waits
  <2>2. Driven(WriteBlock("hdwWait", u))
    BY <1>1, <1>3, <2>1, Blocks
  <2> QED
    BY <1>2, <1>4, <2>2
<1>5. CASE "HDW" \notin u.hs
  <2>1. v = u
    BY <1>1, <1>3 DEF LineInv, Device
  <2>2. HdwLoop(s) = [u EXCEPT !.pc = "open"]
    BY <1>1, <1>2, <1>5, <2>1 DEF Device
  <2>3. [u EXCEPT !.pc = "open"] \in Device
    BY <1>1, PcFollows DEF Follows, Keeps, Busies
  <2>4. Driven([u EXCEPT !.pc = "open"])
    BY <1>1, <1>3, <2>3, GoesOn
  <2> QED
    BY <2>2, <2>4
<1> QED
  BY <1>4, <1>5

LEMMA Primed ==
  ASSUME NEW s \in Device, LineInv(s), ~s.flushed
  PROVE  Driven(Prime(s))
<1> DEFINE s1 == [s EXCEPT !.timedOut = FALSE]
           s2 == Rearm(s1)
<1>1. s1 \in Device /\ SamePlace(s, s1) /\ SameLine(s, s1)
  BY FieldStays, OtherFields DEF Stays, Keeps
<1>2. Prime(s) = IF s.fifo > 0 THEN WriteBlock("thrWait", s2) ELSE HdwLoop(s2)
  BY DEF Prime
<1> HIDE DEF s1
<1>3. s2 \in Device /\ SamePlace(s1, s2) /\ SameLine(s1, s2)
  BY <1>1, HelpersStay, Switches DEF Stays, Keeps
<1> HIDE DEF s2
<1>4. LineInv(s2) /\ ~s2.flushed /\ s2.fifo = s.fifo
  BY <1>1, <1>3 DEF LineInv, SamePlace, SameLine
<1>5. "thrWait" \in Waits
  BY DEF Waits
<1>6. Driven(WriteBlock("thrWait", s2))
  BY <1>3, <1>4, <1>5, Blocks
<1>7. ~(s.fifo > 0) => Driven(HdwLoop(s2))
  BY <1>3, <1>4, HdwLooped
<1> QED
  BY <1>2, <1>6, <1>7

LEMMA StreamLooped ==
  ASSUME NEW s \in Device, LineInv(s), ~s.flushed, s.fifo > 0 => s.ier
  PROVE  Driven(StreamLoop(s))
<1> DEFINE u == UpdateModemHandshakeBits(s)
           f == Fill(u.room, u)
           p == IF f.cnt = 0 THEN "more" ELSE "enable"
           t == [f EXCEPT !.pc = p]
<1>1. u \in Device /\ SamePlace(s, u) /\ SameLine(s, u)
  BY UpdateStays, SignalsRead DEF Stays, Keeps
<1>2. StreamLoop(s) = IF u.hs # {} THEN WriteBlock("xoffWait", u) ELSE t
  BY DEF StreamLoop
<1>3. StreamLoop(s) \in Device
  BY StreamLoopFollows DEF Follows, Keeps
<1> HIDE DEF u
<1>4. LineInv(u) /\ ~u.flushed /\ (u.fifo > 0 => u.ier) /\ u.room = Depth /\ Depth \in Nat /\ Depth > 0
  BY <1>1, XmitAssumption DEF LineInv, SamePlace, SameLine
<1>5. CASE u.hs # {}
  <2>1. "xoffWait" \in Waits
    BY DEF Waits
  <2>2. Driven(WriteBlock("xoffWait", u))
    BY <1>1, <1>4, <1>5, <2>1, Blocks
  <2> QED
    BY <1>2, <1>5, <2>2
<1>6. CASE u.hs = {}
  <2>0. u.cnt \in Nat
    BY <1>1, FieldTypes
  <2>1. /\ SamePlace(u, f) /\ ~f.thri /\ f.cnt \in Nat
        /\ u.cnt = 0 => f.cnt = 0
        /\ u.cnt > 0 => f.fifo > 0
    BY <1>1, <1>4, Filled
  <2>2. f \in Device /\ f.fifo \in Nat
    BY <1>1, <1>4, FillStays, FieldTypes DEF Stays, Keeps
  <2> HIDE DEF f
  <2>3. t.pc = p /\ SameLine(f, t) /\ t.imm = f.imm /\ t.room = f.room /\ t.flushed = f.flushed
    BY <2>2 DEF SameLine, Device
  <2>4. t \in Device /\ p \in {"more", "enable"} /\ (p = "enable" => t.fifo # 0)
    BY <1>2, <1>3, <1>6, <2>0, <2>1, <2>2, <2>3 DEF SameLine
  <2> HIDE DEF p, t
  <2>5. ~t.thri /\ ~t.imm /\ t.room = Depth /\ ~t.flushed
    BY <1>4, <2>1, <2>3 DEF LineInv, SamePlace, SameLine
  <2>6. Base(t)
    BY <2>3, <2>4, <2>5 DEF Base, LineInv, PlaceInv, Watched, Draining, Three, Waits
  <2>7. Moved(t)
    BY <2>3, <2>4 DEF Moved, Three
  <2> QED
    BY <1>2, <1>6, <2>6, <2>7 DEF Driven
<1> QED
  BY <1>5, <1>6
-----------------------------------------------------------------------------
(* Every step keeps the stream driven, as long as no byte is sent out of     *)
(* turn: without TXbyteImmediate and half-duplex input handshaking.          *)
InTurn == "imm" \notin Events /\ "hold" \notin Events

(* Write has returned.                                                       *)
LEMMA Returned ==
  ASSUME NEW s \in Device, LineInv(s), Return(s), d' \in Device
  PROVE  Driven(d')
<1> DEFINE t == TxIntOff(s)
<1>1. t \in Device /\ SamePlace(s, t) /\ ~t.thri
  BY HelpersStay, Switches DEF Stays, Keeps
<1>2. d' = [t EXCEPT !.pc = "idle", !.cnt = 0, !.flushed = FALSE]
  BY DEF Return, Finish
<1> HIDE DEF t
<1>3. d'.pc = "idle" /\ ~d'.thri /\ d'.imm = t.imm /\ d'.room = t.room /\ ~d'.flushed
  BY <1>1, <1>2 DEF Device
<1>4. Base(d')
  BY <1>1, <1>3 DEF Base, LineInv, PlaceInv, Watched, Draining, Three, Waits, SamePlace
<1>5. Moved(d')
  BY <1>3 DEF Moved, Three
<1> QED
  BY <1>4, <1>5 DEF Driven

(* Write begins, or loads its buffer.                                        *)
LEMMA LoadDriven ==
  ASSUME Driven(d), d' \in Device, left \in Nat, (\E n \in Sizes : Write(n)) \/ LoadBuffer
  PROVE  Driven(d')
<1>1. d \in Device /\ LineInv(d)
  BY DEF Driven, Base
<1>2. CASE \E n \in Sizes : Write(n)
  <2>1. d.pc = "idle" /\ d' = [d EXCEPT !.pc = "load", !.out = 0]
    BY <1>2 DEF Write
  <2>2. d'.pc = "load" /\ d'.thri = d.thri /\ d'.ier = d.ier /\ d'.fifo = d.fifo /\ d'.imm = d.imm
        /\ d'.room = d.room /\ d'.flushed = d.flushed
    BY <1>1, <2>1 DEF Device
  <2>3. ~d.flushed
    BY <2>1 DEF Driven, Base, PlaceInv, Waits
  <2>4. Base(d')
    BY <1>1, <2>2, <2>3 DEF Base, LineInv, PlaceInv, Watched, Draining, Three, Waits
  <2> QED
    BY <2>2, <2>4 DEF Driven, Moved, Three
<1>3. CASE LoadBuffer
  <2> DEFINE m == Lesser(left, Buf)
             s == [d EXCEPT !.cnt = m, !.timer = 0]
  <2>1. d.pc = "load" /\ d' = Prime(s)
    BY <1>3 DEF LoadBuffer
  <2>2. ~d.flushed
    BY <2>1 DEF Driven, Base, PlaceInv, Waits
  <2>3. s.thri = d.thri /\ s.ier = d.ier /\ s.fifo = d.fifo /\ s.imm = d.imm /\ s.room = d.room
        /\ s.flushed = d.flushed
    BY <1>1 DEF Device
  <2>4. m \in Nat /\ 0 \in 0 .. Start
    BY XmitAssumption DEF Lesser
  <2> HIDE DEF m
  <2>5. s \in Device
    BY <1>1, <2>4 DEF Device
  <2> HIDE DEF s
  <2> QED
    BY <1>1, <2>1, <2>2, <2>3, <2>5, Primed DEF LineInv
<1> QED
  BY <1>2, <1>3

(* What follows a wake-up.                                                   *)
LEMMA ContinueDriven ==
  ASSUME NEW s \in Device, LineInv(s), Watched(s), s.pc \in Waits, Continue(s), d' \in Device
  PROVE  Driven(d')
<1> DEFINE t == [s EXCEPT !.clear = FALSE, !.blocked = FALSE]
<1>1. t \in Device
  BY DEF Device
<1>2. t.pc = s.pc /\ SameLine(s, t) /\ t.imm = s.imm /\ t.room = s.room /\ t.flushed = s.flushed
  BY DEF SameLine, Device
<1>3. IF t.flushed \/ t.timedOut THEN Return(t) ELSE Becomes(Resume(t))
  BY DEF Continue
<1> HIDE DEF t
<1>4. LineInv(t)
  BY <1>2 DEF LineInv, SameLine
<1>5. CASE t.flushed \/ t.timedOut
  BY <1>1, <1>3, <1>4, <1>5, Returned
<1>6. CASE ~(t.flushed \/ t.timedOut)
  <2>1. d' = Resume(t) /\ ~t.flushed
    BY <1>3, <1>6 DEF Becomes
  <2>2. t.pc \in Three /\ t.fifo > 0 => t.ier
    BY <1>2, <2>1 DEF Watched, Draining, SameLine
  <2>3. CASE t.pc = "thrWait"
    <3>1. d' = [t EXCEPT !.pc = "thrTest"]
      BY <2>1, <2>3 DEF Resume
    <3> QED
      BY <1>1, <1>4, <2>1, <3>1, GoesOn
  <2>4. CASE t.pc = "hdwWait"
    <3>1. d' = HdwLoop(t)
      BY <2>1, <2>4 DEF Resume
    <3> QED
      BY <1>1, <1>4, <2>1, <2>2, <2>4, <3>1, HdwLooped DEF Three
  <2>5. CASE t.pc = "xoffWait"
    <3>1. d' = StreamLoop(t)
      BY <2>1, <2>5 DEF Resume
    <3> QED
      BY <1>1, <1>4, <2>1, <2>2, <2>5, <3>1, StreamLooped DEF Three
  <2>6. CASE t.pc = "wrtBlk"
    <3>1. d' = IF t.cnt = 0 THEN [t EXCEPT !.pc = "more"] ELSE Prime(t)
      BY <2>1, <2>6 DEF Resume
    <3>2. CASE t.cnt = 0
      <4>1. d' = [t EXCEPT !.pc = "more"]
        BY <3>1, <3>2
      <4> QED
        BY <1>1, <1>4, <2>1, <4>1, GoesOn
    <3> QED
      BY <1>1, <1>4, <2>1, <3>1, <3>2, Primed
  <2> QED
    BY <1>2, <2>3, <2>4, <2>5, <2>6 DEF Waits
<1> QED
  BY <1>5, <1>6

(* Where Write waits.                                                        *)
LEMMA WaitDriven ==
  ASSUME Driven(d), d' \in Device, Wake \/ Poll \/ Reclaim \/ TestThr
  PROVE  Driven(d')
<1>1. d \in Device /\ LineInv(d) /\ Watched(d) /\ PlaceInv(d)
  BY DEF Driven, Base
<1>2. CASE Wake
  BY <1>1, <1>2, ContinueDriven DEF Wake
<1>3. CASE Poll
  <2> DEFINE u == IF d.cnt = 0 THEN d ELSE UpdateModemHandshakeBits(d)
  <2>1. u \in Device /\ SamePlace(d, u) /\ SameLine(d, u)
    BY <1>1, UpdateStays, SignalsRead DEF Stays, Keeps, SamePlace, SameLine
  <2>2. /\ d.pc \in Waits /\ ~ModemInts /\ ~d.clear
        /\ IF d.cnt # 0 /\ "HDW" \in u.hs
           THEN Becomes([u EXCEPT !.pc = "reclaim", !.back = d.pc])
           ELSE Continue(u)
    BY <1>3 DEF Poll
  <2> HIDE DEF u
  <2>3. LineInv(u) /\ Watched(u) /\ u.pc \in Waits
    BY <1>1, <2>1, <2>2 DEF LineInv, Watched, Draining, SamePlace, SameLine
  <2>4. CASE d.cnt # 0 /\ "HDW" \in u.hs
    <3>1. d' = [u EXCEPT !.pc = "reclaim", !.back = d.pc]
      BY <2>2, <2>4 DEF Becomes
    <3>2. d'.pc = "reclaim" /\ d'.back = d.pc /\ SameLine(u, d') /\ d'.hs = u.hs /\ d'.imm = u.imm
          /\ d'.room = u.room /\ d'.flushed = u.flushed
      BY <2>1, <3>1 DEF SameLine, Device
    <3>3. ~d.flushed
      BY <1>1, <2>2 DEF PlaceInv, Waits
    <3>4. Base(d')
      BY <1>1, <2>1, <2>2, <2>3, <2>4, <3>2, <3>3
         DEF Base, LineInv, PlaceInv, Watched, Draining, Three, Waits, SamePlace, SameLine
    <3> QED
      BY <3>2, <3>4 DEF Driven, Moved, Three
  <2> QED
    BY <2>1, <2>2, <2>3, <2>4, ContinueDriven
<1>4. CASE Reclaim
  <2>1. d.pc = "reclaim" /\ d' = WriteBlock(d.back, d)
    BY <1>4 DEF Reclaim, Becomes
  <2>2. d.back \in Waits
    BY <1>1 DEF Device
  <2>3. ~d.flushed /\ d.hs # {}
    BY <1>1, <2>1 DEF PlaceInv, Waits
  <2>4. d.back # "thrWait" /\ d.fifo > 0 => d.ier
    BY <1>1, <2>1, <2>2, <2>3 DEF Watched, Draining, Three, Waits
  <2> QED
    BY <1>1, <2>1, <2>2, <2>3, <2>4, Blocks
<1>5. CASE TestThr
  <2> DEFINE s == Rearm(d)
  <2>1. d.pc = "thrTest" /\ d' = IF d.fifo > 0 THEN WriteBlock("thrWait", d) ELSE HdwLoop(s)
    BY <1>5 DEF TestThr, Becomes
  <2>2. s \in Device /\ SamePlace(d, s) /\ SameLine(d, s)
    BY <1>1, HelpersStay, Switches DEF Stays, Keeps
  <2> HIDE DEF s
  <2>3. ~d.flushed /\ "thrWait" \in Waits
    BY <1>1, <2>1 DEF PlaceInv, Waits
  <2>4. d.fifo > 0 => Driven(WriteBlock("thrWait", d))
    BY <1>1, <2>3, Blocks
  <2>5. LineInv(s) /\ ~s.flushed /\ s.fifo = d.fifo
    BY <1>1, <2>2, <2>3 DEF LineInv, SamePlace, SameLine
  <2>6. ~(d.fifo > 0) => Driven(HdwLoop(s))
    BY <2>2, <2>5, HdwLooped
  <2> QED
    BY <2>1, <2>4, <2>6
<1> QED
  BY <1>2, <1>3, <1>4, <1>5

(* Where Write hands bytes to the UART, and where it ends.                   *)
LEMMA StreamDriven ==
  ASSUME Driven(d), d' \in Device,
         InitiateStream \/ SendImmediate \/ TestHandshake \/ EnableInterrupts \/ MoreData \/ LastOut
  PROVE  Driven(d')
<1>1. d \in Device /\ LineInv(d) /\ Watched(d) /\ PlaceInv(d)
  BY DEF Driven, Base
<1>2. CASE InitiateStream
  <2>1. d.pc = "open" /\ d' = [d EXCEPT !.pc = "testHs"]
    BY <1>1, <1>2 DEF InitiateStream, Becomes, LineInv
  <2>2. ~d.flushed /\ (d.fifo > 0 => d.ier)
    BY <1>1, <2>1 DEF PlaceInv, Waits, Watched, Draining
  <2> QED
    BY <1>1, <2>1, <2>2, GoesOn
<1>3. CASE SendImmediate
  BY <1>1, <1>3 DEF SendImmediate, PlaceInv
<1>4. CASE TestHandshake
  <2>1. d.pc = "testHs" /\ (Return(d) \/ d' = StreamLoop(d))
    BY <1>4 DEF TestHandshake, Becomes
  <2>2. ~d.flushed /\ (d.fifo > 0 => d.ier)
    BY <1>1, <2>1 DEF PlaceInv, Waits, Watched, Draining
  <2>3. d' = StreamLoop(d) => Driven(d')
    BY <1>1, <2>2, StreamLooped
  <2> QED
    BY <1>1, <2>1, <2>3, Returned
<1>5. CASE EnableInterrupts
  <2> DEFINE r == [d EXCEPT !.restart = FALSE]
             s == TxIntOn(r)
  <2>1. d.pc = "enable" /\ (Return(s) \/ d' = WriteBlock("wrtBlk", s))
    BY <1>5 DEF EnableInterrupts, Becomes
  <2>2. r \in Device /\ SamePlace(d, r) /\ SameLine(d, r)
    BY <1>1, FieldStays, OtherFields DEF Stays, Keeps
  <2> HIDE DEF r
  <2>3. /\ s \in Device /\ SamePlace(r, s) /\ s.cnt = r.cnt /\ s.fifo = r.fifo /\ s.ier
        /\ (s.thri <=> r.thri \/ (~r.ier /\ r.fifo = 0))
    BY <2>2, HelpersStay, Switches DEF Stays, Keeps
  <2> HIDE DEF s
  <2>4. ~d.flushed
    BY <1>1, <2>1 DEF PlaceInv, Waits
  <2>5. LineInv(s) /\ ~s.flushed /\ (s.cnt > 0 /\ s.fifo = 0 => s.thri)
    BY <1>1, <2>1, <2>2, <2>3, <2>4 DEF LineInv, Watched, SamePlace, SameLine
  <2>6. "wrtBlk" \in Waits
    BY DEF Waits
  <2>7. Driven(WriteBlock("wrtBlk", s))
    BY <2>3, <2>5, <2>6, Blocks
  <2> QED
    BY <2>1, <2>3, <2>5, <2>7, Returned
<1>6. CASE MoreData
  <2>1. d.pc = "more"
    BY <1>6 DEF MoreData
  <2>2. ~d.flushed
    BY <1>1, <2>1 DEF PlaceInv, Waits
  <2>3. CASE left > 0
    <3>1. d' = [d EXCEPT !.pc = "load"]
      BY <1>6, <2>3 DEF MoreData, Becomes
    <3> QED
      BY <1>1, <2>2, <3>1, GoesOn
  <2>4. CASE ~(left > 0)
    <3>1. d' = [d EXCEPT !.pc = "last", !.timer = 0]
      BY <1>6, <2>4 DEF MoreData, Becomes
    <3>2. d'.pc = "last" /\ SameLine(d, d') /\ d'.imm = d.imm /\ d'.room = d.room
      BY <1>1, <3>1 DEF SameLine, Device
    <3>3. Base(d')
      BY <1>1, <3>2 DEF Base, LineInv, PlaceInv, Watched, Draining, Three, Waits, SameLine
    <3> QED
      BY <3>2, <3>3 DEF Driven, Moved, Three
  <2> QED
    BY <2>3, <2>4
<1>7. CASE LastOut
  BY <1>1, <1>7, Returned DEF LastOut
<1> QED
  BY <1>2, <1>3, <1>4, <1>5, <1>6, <1>7

(* The interrupt routines, the Timer and the UART.                           *)
LEMMA InterruptDriven ==
  ASSUME InTurn, Driven(d), d' \in Device, Interrupt \/ UartSends \/ CtsChanges
  PROVE  Driven(d')
<1>1. d \in Device /\ LineInv(d) /\ Watched(d) /\ PlaceInv(d) /\ d.hs \in SUBSET {"HDW", "XoffRx", "XoffTx"}
  BY FieldTypes DEF Driven, Base
<1>2. CASE TransmitInt
  <2>1. d.ier /\ d.thri /\ d' = IntExit(write_com(d))
    BY <1>2 DEF TransmitInt, Becomes
  <2>2. Driven(write_com(d))
    BY <2>1, InterruptServed
  <2> HIDE DEF write_com
  <2> QED
    BY <2>1, <2>2, IntExited DEF Driven
<1>3. CASE Timer
  <2> DEFINE s == [d EXCEPT !.timer = d.timer - 1]
             t == [s EXCEPT !.timedOut = TRUE]
  <2>1. d.timer - 1 \in 0 .. Start
    BY <1>1, <1>3, FieldTypes, XmitAssumption DEF Timer
  <2>2. s \in Device /\ SamePlace(d, s) /\ SameLine(d, s) /\ SameHold(d, s)
    BY <1>1, <2>1, FieldStays, OtherFields DEF Stays, Keeps
  <2>3. d' = SemClear(t) \/ d' = StartWriteStream(s) \/ d' = s
    BY <1>3 DEF Timer, Becomes
  <2> HIDE DEF s
  <2>4. t \in Device /\ SamePlace(s, t) /\ SameLine(s, t) /\ SameHold(s, t)
    BY <2>2, FieldStays, OtherFields DEF Stays, Keeps
  <2> HIDE DEF t
  <2>5. Base(s)
    BY <1>1, <2>2, BaseSame DEF Driven, PlaceInv, SameHold
  <2>6. CASE d' = SemClear(t)
    <3>1. SamePlace(t, d') /\ SameLine(t, d') /\ d'.hs = t.hs /\ d'.clear
      BY <2>4, <2>6, Switches
    <3>2. SamePlace(s, d') /\ SameLine(s, d') /\ d'.hs = s.hs /\ d'.clear
      BY <2>4, <3>1 DEF SamePlace, SameLine, SameHold
    <3>3. Base(d')
      BY <2>5, <3>2, BaseSame DEF Base, PlaceInv
    <3> QED
      BY <3>2, <3>3 DEF Driven, Moved
  <2>7. CASE d' = StartWriteStream(s)
    BY <2>5, <2>7, StreamStarted
  <2>8. CASE d' = s
    BY <2>2, <2>5, <2>8 DEF Driven, Moved, SamePlace, SameLine, SameHold
  <2> QED
    BY <2>3, <2>6, <2>7, <2>8
<1>4. CASE ReceiveXoff
  <2> DEFINE h == d.hs \union {"XoffRx"}
             s == [d EXCEPT !.hs = h]
  <2>1. d' = IntExit(s)
    BY <1>4 DEF ReceiveXoff, Becomes
  <2>2. h \in SUBSET {"HDW", "XoffRx", "XoffTx"} /\ h # {} /\ (d.pc = "reclaim" => "HDW" \in h)
    BY <1>1 DEF PlaceInv
  <2> HIDE DEF h
  <2>3. Base(s) /\ Moved(s)
    BY <2>2, HoldChanged
  <2> HIDE DEF s
  <2> QED
    BY <2>1, <2>3, IntExited
<1>5. CASE ReceiveXon
  <2> DEFINE h == d.hs \ {"XoffRx"}
             s == [d EXCEPT !.hs = h]
             t == StartWriteStream(s)
  <2>1. d' = IntExit(t)
    BY <1>5 DEF ReceiveXon, Becomes
  <2>2. h \in SUBSET {"HDW", "XoffRx", "XoffTx"} /\ (d.pc = "reclaim" => "HDW" \in h)
    BY <1>1 DEF PlaceInv
  <2> HIDE DEF h
  <2>3. Base(s)
    BY <2>2, HoldChanged
  <2> HIDE DEF s
  <2>4. Driven(t)
    BY <2>3, StreamStarted
  <2> HIDE DEF t
  <2> QED
    BY <2>1, <2>4, IntExited DEF Driven
<1>6. CASE ModemInt
  BY <1>6, SignalsServed DEF ModemInt, Becomes
<1>7. CASE SendXoff
  BY <1>7 DEF SendXoff, InTurn
<1>8. CASE UartSends
  <2> DEFINE i == d.ier /\ d.fifo = 1
  <2>1. d.fifo > 0 /\ d' = [d EXCEPT !.fifo = d.fifo - 1, !.thri = i]
    BY <1>8 DEF UartSends, Becomes
  <2>2. d.fifo \in Nat
    BY <1>1, FieldTypes
  <2>3. i \in BOOLEAN
    BY <1>1 DEF Device
  <2> HIDE DEF i
  <2>4. d'.fifo = d.fifo - 1 /\ d'.thri = i /\ d'.ier = d.ier /\ d'.cnt = d.cnt /\ SamePlace(d, d') /\ SameHold(d, d')
    BY <1>1, <2>1, <2>3 DEF SamePlace, SameHold, Device
  <2>5. d'.thri <=> d'.ier /\ d'.fifo = 0
    <3>1. d'.fifo = 0 <=> d.fifo = 1
      BY <2>1, <2>2, <2>4
    <3>2. i <=> d.ier /\ d.fifo = 1
      BY DEF i
    <3> QED
      BY <2>4, <3>1, <3>2
  <2>6. Base(d')
    BY <1>1, <2>1, <2>4, <2>5 DEF Base, LineInv, PlaceInv, Watched, Draining, SamePlace, SameHold
  <2>7. Moved(d')
    <3> SUFFICES ASSUME d'.pc \in Three, ~d'.clear, d'.fifo = 0 PROVE d'.thri
      BY DEF Moved
    <3>1. d.pc \in Three /\ ~d.clear /\ ~d.flushed
      BY <1>1, <2>4 DEF SamePlace, SameHold, PlaceInv, Three
    <3>2. d.ier
      BY <1>1, <2>1, <3>1 DEF Watched, Draining
    <3> QED
      BY <2>4, <2>5, <3>2
  <2> QED
    BY <2>6, <2>7 DEF Driven
<1>9. CASE CtsChanges
  <2> DEFINE c == ~d.cts
  <2>1. d' = [d EXCEPT !.cts = c, !.delta = TRUE]
    BY <1>9 DEF CtsChanges, Becomes
  <2> HIDE DEF c
  <2>2. SamePlace(d, d') /\ SameLine(d, d') /\ SameHold(d, d')
    BY <1>1, <2>1 DEF SamePlace, SameLine, SameHold, Device
  <2>3. Base(d')
    BY <1>1, <2>2, BaseSame DEF Driven, PlaceInv, SameHold
  <2> QED
    BY <2>2, <2>3 DEF Driven, Moved, SamePlace, SameLine, SameHold
<1> QED
  BY <1>2, <1>3, <1>4, <1>5, <1>6, <1>7, <1>8, <1>9 DEF Interrupt

(* The other requests, which run only where Write lets them.                 *)
LEMMA RequestDriven ==
  ASSUME InTurn, Driven(d), d' \in Device, SendXon \/ TXbyteImmediate \/ ForceXOFF \/ ForceXON \/ OutputFlush
  PROVE  Driven(d')
<1>1. d \in Device /\ LineInv(d) /\ Watched(d) /\ PlaceInv(d) /\ d.hs \in SUBSET {"HDW", "XoffRx", "XoffTx"}
  BY FieldTypes DEF Driven, Base
<1>2. d.pc \in Yields /\ d.pc # "reclaim"
  BY <1>1 DEF SendXon, TXbyteImmediate, ForceXOFF, ForceXON, OutputFlush, Yields, Waits
<1>3. CASE SendXon \/ TXbyteImmediate
  BY <1>3 DEF SendXon, TXbyteImmediate, InTurn
<1>4. CASE ForceXOFF
  <2> DEFINE h == d.hs \union {"XoffRx"}
  <2>1. d' = [d EXCEPT !.hs = h]
    BY <1>4 DEF ForceXOFF, Becomes
  <2>2. h \in SUBSET {"HDW", "XoffRx", "XoffTx"} /\ h # {}
    BY <1>1
  <2> HIDE DEF h
  <2> QED
    BY <1>2, <2>1, <2>2, HoldChanged DEF Driven
<1>5. CASE ForceXON
  <2> DEFINE h == d.hs \ {"HDW", "XoffRx"}
             s == [d EXCEPT !.hs = h]
  <2>1. d' = IF s.hs = {} THEN StartWriteStream(s) ELSE s
    BY <1>5 DEF ForceXON, Becomes
  <2>2. h \in SUBSET {"HDW", "XoffRx", "XoffTx"}
    BY <1>1
  <2> HIDE DEF h
  <2>3. Base(s) /\ (s.hs # {} => Moved(s))
    BY <1>2, <2>2, HoldChanged
  <2> HIDE DEF s
  <2>4. Driven(StartWriteStream(s))
    BY <2>3, StreamStarted
  <2> QED
    BY <2>1, <2>3, <2>4 DEF Driven
<1>6. CASE OutputFlush
  <2> DEFINE t == TxIntOff(d)
             s == [t EXCEPT !.flushed = TRUE, !.timer = 0]
  <2>1. d.pc # "idle" /\ d' = IF d.blocked THEN SemClear(s) ELSE s
    BY <1>6 DEF OutputFlush, Becomes
  <2>2. t \in Device /\ SamePlace(d, t) /\ t.cnt = d.cnt /\ t.fifo = d.fifo /\ ~t.ier /\ ~t.thri
    BY <1>1, HelpersStay, Switches DEF Stays, Keeps
  <2> HIDE DEF t
  <2>3. /\ s.pc = t.pc /\ s.blocked = t.blocked /\ s.imm = t.imm /\ s.room = t.room /\ s.flushed
        /\ ~s.ier /\ ~s.thri
    BY <2>2 DEF Device
  <2>4. s \in Device
    <3>1. 0 \in 0 .. Start
      BY XmitAssumption
    <3> QED
      BY <2>2, <3>1 DEF Device
  <2> HIDE DEF s
  <2>5. d.pc \in Waits => d.blocked
    BY <1>1 DEF PlaceInv
  <2>6. /\ d'.pc = d.pc /\ d'.blocked = d.blocked /\ ~d'.imm /\ d'.room = Depth /\ d'.flushed
        /\ ~d'.ier /\ ~d'.thri /\ (d.blocked => d'.clear)
    <3>1. CASE d.blocked
      <4>1. SamePlace(s, d') /\ SameLine(s, d') /\ d'.clear
        BY <2>1, <2>4, <3>1, Switches
      <4> QED
        BY <1>1, <2>2, <2>3, <4>1 DEF SamePlace, SameLine, LineInv
    <3>2. CASE ~d.blocked
      BY <1>1, <2>1, <2>2, <2>3, <3>2 DEF SamePlace, LineInv
    <3> QED
      BY <3>1, <3>2
  <2>7. Base(d')
    BY <1>2, <2>1, <2>5, <2>6 DEF Base, LineInv, PlaceInv, Watched, Yields, Waits
  <2>8. Moved(d')
    BY <2>5, <2>6 DEF Moved, Three, Waits
  <2> QED
    BY <2>7, <2>8 DEF Driven
<1> QED
  BY <1>3, <1>4, <1>5, <1>6

LEMMA NextDriven ==
  ASSUME InTurn, ConserveInv, Driven(d), [Next]_vars
  PROVE  Driven(d')
<1>1. d' \in Device /\ left \in Nat
  BY NextConserves DEF ConserveInv, TypeOK
<1>2. CASE UNCHANGED vars
  BY <1>2 DEF vars
<1> QED
  BY <1>1, <1>2, LoadDriven, WaitDriven, StreamDriven, InterruptDriven, RequestDriven
     DEF Next, WriteStep, Request

LEMMA InitDriven == Init => Driven(d)
<1> SUFFICES ASSUME Init PROVE Driven(d)
  OBVIOUS
<1>1. d \in Device
  BY InitConserves DEF ConserveInv, TypeOK
<1>2. ~d.thri /\ ~d.imm /\ d.room = Depth /\ d.pc = "idle" /\ ~d.flushed
  BY DEF Init
<1> QED
  BY <1>1, <1>2 DEF Driven, Base, LineInv, PlaceInv, Watched, Moved, Draining, Three, Waits

(* While Write waits for its buffer to drain and nothing holds the           *)
(* transmitter, the transmit interrupt is on and either pending or to come   *)
(* from bytes the UART has: whichever of Write, the interrupt, the Timer, a  *)
(* received Xon or a modem signal last touched the stream, for every FIFO    *)
(* depth, buffer length and time-out, as long as no byte is sent out of turn *)
(* (COMDD.ASM, WriteBlock; BASE/UTIL.lst, StartWriteStream, write_com).      *)
THEOREM StreamIsDriven == InTurn => (Spec => []StreamHasDriver)
<1> SUFFICES ASSUME InTurn PROVE Spec => []StreamHasDriver
  OBVIOUS
<1> DEFINE Inv == ConserveInv /\ Driven(d)
<1>1. Init => Inv
  BY InitConserves, InitDriven
<1>2. Inv /\ [Next]_vars => Inv'
  BY NextConserves, NextDriven
<1>3. Inv => StreamHasDriver
  <2> SUFFICES ASSUME Driven(d), d.pc \in Three, ~d.clear, d.cnt > 0, d.hs = {}
               PROVE  d.ier /\ (d.thri \/ d.fifo > 0)
    BY DEF StreamHasDriver, Three
  <2>1. d.fifo \in Nat
    BY FieldTypes DEF Driven, Base
  <2>2. ~d.flushed
    BY DEF Driven, Base, PlaceInv, Three
  <2>3. d.fifo = 0 => d.thri /\ d.ier
    BY DEF Driven, Moved, Base, LineInv
  <2>4. d.fifo > 0 => d.ier
    BY <2>2 DEF Driven, Base, Watched, Draining
  <2> QED
    BY <2>1, <2>3, <2>4
<1> HIDE DEF Inv
<1> QED
  BY <1>1, <1>2, <1>3, PTL DEF Spec
=============================================================================
