------------------------- MODULE ReadRequestProofs -------------------------
(***************************************************************************)
(* A Read that waits has something to wake it, it waits its time-out, and  *)
(* what the Reads hand out is the stream, for any bytes, lengths, queue,   *)
(* UART and time-outs.                                                     *)
(***************************************************************************)
EXTENDS ReadRequest, TLAPS

Pcs == {"idle", "ready", "fifo", "store", "test", "take", "verify", "noWait", "normal",
        "setUp", "clear", "arm", "claim", "blocked", "reread", "full", "short"}
Requests == [ pc : Pcs, size : Nat, left : Int, off : Int, store : Int, di : Int,
              back : {"start", "timeout"}, byte : Nat, some : BOOLEAN ]
Devices == [ mode : Modes, count : Int, timer : Nat, clear : BOOLEAN, last : BOOLEAN,
             event : BOOLEAN, timedOut : BOOLEAN, flushed : BOOLEAN, busy : BOOLEAN ]

Shape ==
  /\ uart \in Seq(Nat) /\ sent \in Nat /\ isr \in BOOLEAN
  /\ waiting \in Seq(Nat \ {0}) /\ (req.pc = "ready" => waiting # <<>>)
  /\ req \in Requests /\ d \in Devices
  /\ DOMAIN h = {"turn", "how", "result", "taken", "from", "quiet", "torn", "missed"}
  /\ h.torn \in BOOLEAN /\ h.missed \in BOOLEAN

(* What keeps a Read from waiting for ever: r is the request, s the device  *)
(* and m whether the wake-up was missed.                                   *)
Waker(r, s, m) ==
  /\ r.pc = "blocked" => s.clear \/ s.timer > 0 \/ m
  /\ r.pc = "claim" => s.clear \/ s.timer > 0
  /\ s.busy <=> r.pc # "idle"

WakeInv == Shape /\ Waker(req, d, h.missed)

(* A blocked Read has its semaphore cleared already or the time-out running *)
(* that will clear it, unless it claimed the semaphore too late.            *)
BlockedHasWaker == req.pc = "blocked" => d.clear \/ d.timer > 0 \/ h.missed

-----------------------------------------------------------------------------
(* A step of Read that is left to the request and the device.               *)
LEMMA GoesWakes ==
  ASSUME WakeInv, NEW r \in Requests, NEW s \in Devices, Goes(r, s),
         r.pc # "ready", Waker(r, s, h.missed)
  PROVE  WakeInv'
BY DEF WakeInv, Shape, Waker, Goes, Quietly

LEMMA ExitWakes ==
  ASSUME WakeInv, NEW n, NEW how, NEW rest \in Seq(Nat \ {0}), NEW s \in Devices,
         s.busy, ReadExit(n, how, rest, s)
  PROVE  WakeInv'
<1>1. Idle \in Requests
  BY DEF Idle, Requests, Pcs
<1>2. PICK p \in Pcs : /\ req' = [Idle EXCEPT !.pc = p]
                       /\ p = IF rest = <<>> THEN "idle" ELSE "ready"
  BY DEF ReadExit, Pcs
<1>3. req' \in Requests /\ req'.pc = IF rest = <<>> THEN "idle" ELSE "ready"
  BY <1>1, <1>2 DEF Requests
<1>4. d' \in Devices /\ (d'.busy <=> rest # <<>>)
  BY DEF ReadExit, Devices
<1>5. DOMAIN h' = DOMAIN h /\ h'.torn \in BOOLEAN /\ h'.missed = FALSE
  BY DEF ReadExit, WakeInv, Shape
<1> QED
  BY <1>3, <1>4, <1>5 DEF ReadExit, WakeInv, Shape, Waker, Quietly

LEMMA DoReadWakes ==
  ASSUME WakeInv, NEW n \in Nat, DoRead(n, d), waiting' \in Seq(Nat \ {0})
  PROVE  WakeInv'
<1>1. Idle \in Requests
  BY DEF Idle, Requests, Pcs
<1>2. PICK p \in Pcs : /\ req' = [Idle EXCEPT !.pc = p, !.size = n, !.left = n]
                       /\ p \in {"fifo", "verify"}
  BY DEF DoRead, Pcs
<1>3. n \in Int
  OBVIOUS
<1>4. req' \in Requests /\ req'.pc \in {"fifo", "verify"}
  BY <1>1, <1>2, <1>3 DEF Requests
<1> QED
  BY <1>4 DEF DoRead, WakeInv, Shape, Waker, Devices, Quietly

LEMMA FetchWakes ==
  ASSUME WakeInv, NEW r \in Requests, Fetch(r), req.pc # "idle",
         r.pc \notin {"idle", "ready", "blocked", "claim"}
  PROVE  WakeInv'
<1>1. PICK p \in Pcs : /\ req' = [r EXCEPT !.left = @ - 1, !.di = @ + 1, !.pc = p]
                       /\ p \in {"full", r.pc}
  BY DEF Fetch, Requests, Pcs
<1>2. req'.pc = p /\ DOMAIN req' = DOMAIN r
  BY <1>1 DEF Requests
<1>3. r.left - 1 \in Int /\ r.di + 1 \in Int
  BY DEF Requests
<1>4. req' \in Requests
  BY <1>1, <1>3 DEF Requests
<1> QED
  BY <1>1, <1>2, <1>4 DEF Fetch, WakeInv, Shape, Waker

LEMMA TakesByteWakes ==
  ASSUME WakeInv, NEW r \in Requests, TakesByte(r), req.pc # "idle"
  PROVE  WakeInv'
<1> DEFINE b == IF uart = <<>> THEN sent ELSE Head(uart)
<1>1. b \in Nat /\ req' = [r EXCEPT !.pc = "store", !.byte = b]
  BY DEF TakesByte, WakeInv, Shape
<1> HIDE DEF b
<1>2. req' \in Requests /\ req'.pc = "store"
  BY <1>1 DEF Requests, Pcs
<1>3. uart' \in Seq(Nat)
  BY DEF TakesByte, WakeInv, Shape
<1> QED
  BY <1>2, <1>3 DEF TakesByte, WakeInv, Shape, Waker

(* The steps of the interrupt routine and the Timer, which move no request. *)
LEMMA ServiceWakes ==
  ASSUME WakeInv, UNCHANGED <<waiting, req, sent>>, uart' \in Seq(Nat), isr' \in BOOLEAN,
         d' \in Devices, d'.busy = d.busy,
         d.clear => d'.clear, d.timer > 0 => d'.timer > 0 \/ d'.clear,
         DOMAIN h' = DOMAIN h, h'.torn \in BOOLEAN, h'.missed = h.missed
  PROVE  WakeInv'
BY DEF WakeInv, Shape, Waker, Devices

-----------------------------------------------------------------------------
(* The stream.  Bytes are their numbers: y follows x when what lies between *)
(* them is stripped, and nothing is missing up to y when all behind x is.   *)
Follows(x, y) == x < y /\ \A k \in x + 1 .. y - 1 : k \in Stripped
NothingMissing(x, y) == x <= y /\ \A k \in x + 1 .. y : k \in Stripped

(* The queue qq goes on where the client left off, at last, up to byte b.   *)
Chain(last, qq, b) ==
  /\ last <= b
  /\ \A i \in 1 .. Len(qq) :
       qq[i] <= b /\ Follows(IF i = 1 THEN last ELSE qq[i - 1], qq[i])
  /\ NothingMissing(IF qq = <<>> THEN last ELSE qq[Len(qq)], b)

LEMMA ChainPut ==
  ASSUME NEW last \in Nat, NEW qq \in Seq(Nat), NEW b \in Nat, Chain(last, qq, b)
  PROVE  Chain(last, Append(qq, b + 1), b + 1)
<1> DEFINE r == Append(qq, b + 1)
<1>1. /\ r \in Seq(Nat) /\ Len(r) = Len(qq) + 1 /\ r[Len(qq) + 1] = b + 1
      /\ \A i \in 1 .. Len(qq) : r[i] = qq[i] /\ qq[i] \in Nat
  OBVIOUS
<1>2. ASSUME NEW i \in 1 .. Len(r)
      PROVE  r[i] <= b + 1 /\ Follows(IF i = 1 THEN last ELSE r[i - 1], r[i])
  <2>1. CASE i \in 1 .. Len(qq)
    <3>1. r[i] = qq[i] /\ (i # 1 => r[i - 1] = qq[i - 1])
      BY <1>1, <2>1
    <3> QED
      BY <1>1, <2>1, <3>1 DEF Chain
  <2>2. CASE i = Len(qq) + 1
    <3>1. (IF i = 1 THEN last ELSE r[i - 1]) = IF qq = <<>> THEN last ELSE qq[Len(qq)]
      BY <1>1, <2>2
    <3>2. (IF qq = <<>> THEN last ELSE qq[Len(qq)]) \in Nat
      BY <1>1
    <3> QED
      BY <1>1, <2>2, <3>1, <3>2 DEF Chain, Follows, NothingMissing
  <2> QED
    BY <1>1, <2>1, <2>2
<1>3. r # <<>> /\ r[Len(r)] = b + 1
  BY <1>1
<1>4. NothingMissing(b + 1, b + 1)
  BY DEF NothingMissing
<1> HIDE DEF r
<1>5. Chain(last, r, b + 1)
  BY <1>2, <1>3, <1>4 DEF Chain
<1> QED
  BY <1>5 DEF r

LEMMA ChainGet ==
  ASSUME NEW last \in Nat, NEW qq \in Seq(Nat), NEW b \in Nat, Chain(last, qq, b), qq # <<>>
  PROVE  Chain(Head(qq), Tail(qq), b) /\ Follows(last, Head(qq)) /\ Head(qq) \in Nat
<1> DEFINE r == Tail(qq)
<1>1. /\ r \in Seq(Nat) /\ Len(r) = Len(qq) - 1 /\ Head(qq) = qq[1] /\ Head(qq) \in Nat
      /\ \A i \in 1 .. Len(r) : r[i] = qq[i + 1]
  OBVIOUS
<1> HIDE DEF r
<1>2. ASSUME NEW i \in 1 .. Len(r)
      PROVE  r[i] <= b /\ Follows(IF i = 1 THEN Head(qq) ELSE r[i - 1], r[i])
  <2> DEFINE j == i + 1
  <2>1. j \in 1 .. Len(qq) /\ j # 1 /\ j - 1 = i /\ (i # 1 => i - 1 \in 1 .. Len(r))
    BY <1>1
  <2>2. r[i] = qq[j]
    BY <1>1
  <2> HIDE DEF j
  <2>3. qq[j] <= b /\ Follows(qq[i], qq[j])
    BY <2>1 DEF Chain
  <2>4. (IF i = 1 THEN Head(qq) ELSE r[i - 1]) = qq[i]
    <3>1. CASE i = 1
      BY <1>1, <3>1
    <3>2. CASE i # 1
      <4>1. i - 1 \in 1 .. Len(r) /\ (i - 1) + 1 = i
        BY <2>1, <3>2
      <4>2. r[i - 1] = qq[(i - 1) + 1]
        BY <1>1, <4>1
      <4> QED
        BY <3>2, <4>1, <4>2
    <3> QED
      BY <3>1, <3>2
  <2> QED
    BY <2>2, <2>3, <2>4
<1>3. (IF r = <<>> THEN Head(qq) ELSE r[Len(r)]) = qq[Len(qq)]
  <2>1. CASE r = <<>>
    <3>1. Len(r) = 0 /\ Len(qq) \in Nat
      BY <2>1
    <3>2. Len(qq) = 1
      BY <1>1, <3>1
    <3> QED
      BY <1>1, <2>1, <3>2
  <2>2. CASE r # <<>>
    <3>1. Len(r) \in 1 .. Len(r) /\ Len(r) + 1 = Len(qq)
      BY <1>1, <2>2
    <3> QED
      BY <1>1, <2>2, <3>1
  <2> QED
    BY <2>1, <2>2
<1>4. Head(qq) <= b /\ Follows(last, Head(qq))
  BY <1>1 DEF Chain
<1>5. NothingMissing(qq[Len(qq)], b)
  BY DEF Chain
<1>6. Chain(Head(qq), r, b)
  BY <1>2, <1>3, <1>4, <1>5 DEF Chain
<1> QED
  BY <1>1, <1>4, <1>6 DEF r

LEMMA ChainStrip ==
  ASSUME NEW last \in Nat, NEW qq \in Seq(Nat), NEW b \in Nat, Chain(last, qq, b),
         b + 1 \in Stripped
  PROVE  Chain(last, qq, b + 1)
<1>1. \A i \in 1 .. Len(qq) : qq[i] \in Nat
  OBVIOUS
<1>2. (IF qq = <<>> THEN last ELSE qq[Len(qq)]) \in Nat
  BY <1>1
<1> QED
  BY <1>1, <1>2 DEF Chain, NothingMissing

LEMMA ChainEmpty ==
  ASSUME NEW b \in Nat
  PROVE  Chain(b, <<>>, b)
BY DEF Chain, NothingMissing

-----------------------------------------------------------------------------
Reading(r) == r.pc \notin {"idle", "ready"}
Filled(r) == r.size - r.left
Base == sent - Len(uart)
Behind(r, n) == IF r.pc = "store" THEN n - 1 ELSE n

(* The last byte the client has been given, or flushed.                     *)
Last(r, s, m, hh) ==
  IF ~Reading(r) \/ s.flushed THEN hh.taken
  ELSE IF Filled(r) = 0 THEN hh.from ELSE m[Filled(r) - 1]

(* Where Read's variables point, at each of its places.                     *)
Places(r) ==
  /\ 0 <= r.left /\ r.left <= r.size
  /\ Reading(r) /\ r.pc # "full" => r.left > 0
  /\ r.pc \in {"fifo", "verify", "clear", "arm", "claim", "blocked"} => r.off = Filled(r)
  /\ r.pc = "fifo" => Filled(r) = 0 /\ r.back = "start"
  /\ r.pc \in {"setUp", "normal", "reread"} => r.off + r.store = Filled(r)
  /\ r.pc \in {"normal", "reread", "noWait"} => r.di = Filled(r)
  /\ r.pc \in {"store", "test", "take"} =>
       IF r.back = "start" THEN r.off = 0 /\ Filled(r) = 0 ELSE r.off + r.store = Filled(r)

(* What the client's buffer holds.                                          *)
Client(r, s, m, hh) ==
  Reading(r) =>
    /\ m \in [0 .. r.size - 1 -> Nat] /\ hh.from \in Nat
    /\ ~s.flushed => hh.from = hh.taken
    /\ \A i \in 0 .. Filled(r) - 1 :
         /\ Follows(IF i = 0 THEN hh.from ELSE m[i - 1], m[i])
         /\ hh.from < m[i] /\ m[i] <= Last(r, s, m, hh)

Line ==
  /\ Base >= 0
  /\ \A i \in 1 .. Len(uart) : uart[i] = Base + i
  /\ req.pc = "store" => req.byte = Base /\ Base > 0
  /\ req.pc = "take" => uart # <<>>

Stream ==
  /\ Line /\ Places(req) /\ Client(req, d, mem, h)
  /\ q \in Seq(Nat) /\ h.taken \in Nat
  /\ Chain(Last(req, d, mem, h), q, Behind(req, Base))
  /\ d.flushed => req.pc \in {"ready", "blocked"}

Inv == WakeInv /\ (h.torn \/ Stream)

LEMMA LastIsNat ==
  ASSUME WakeInv, Stream
  PROVE  Last(req, d, mem, h) \in Nat /\ Base \in Nat
<1>1. Base \in Nat
  BY DEF WakeInv, Shape, Stream, Line, Base
<1>2. Last(req, d, mem, h) \in Nat
  <2>1. CASE ~Reading(req) \/ d.flushed
    BY <2>1 DEF Stream, Last
  <2>2. CASE Reading(req) /\ ~d.flushed
    <3>1. Filled(req) \in Int /\ 0 <= Filled(req) /\ Filled(req) <= req.size /\ req.size \in Nat
      BY DEF WakeInv, Shape, Requests, Stream, Places, Filled
    <3>2. Filled(req) # 0 => Filled(req) - 1 \in 0 .. req.size - 1
      BY <3>1
    <3> QED
      BY <2>2, <3>2 DEF Stream, Client, Last
  <2> QED
    BY <2>1, <2>2
<1> QED
  BY <1>1, <1>2

(* A step that is left to the request and the device.                       *)
LEMMA GoesStream ==
  ASSUME WakeInv, Stream, NEW r \in Requests, NEW s \in Devices, Goes(r, s),
         Reading(req), Reading(r), Filled(r) = Filled(req), r.size = req.size, Places(r),
         ~d.flushed, ~s.flushed, req.pc # "store", r.pc # "store",
         r.pc = "take" => uart # <<>>
  PROVE  Stream'
<1>1. Last(req, d, mem, h)' = Last(req, d, mem, h)
  BY DEF Goes, Last
<1>2. Line'
  BY DEF Goes, Stream, Line, Base
<1>3. Client(req, d, mem, h)'
  BY <1>1 DEF Goes, Stream, Client
<1>4. Behind(req, Base)' = Behind(req, Base)
  BY DEF Goes, Behind, Base
<1> QED
  BY <1>1, <1>2, <1>3, <1>4 DEF Goes, Quietly, Stream

(* What the client gets when a Read returns.                                *)
GoodResult ==
  \A i \in 0 .. h'.result - 1 :
    LET before == IF i = 0 THEN h.from ELSE mem[i - 1]
    IN  mem[i] > before /\ before + 1 .. mem[i] - 1 \subseteq Stripped

LEMMA ExitStream ==
  ASSUME WakeInv, Stream, NEW n, NEW how, NEW rest \in Seq(Nat \ {0}), NEW s \in Devices,
         s.flushed = d.flushed, ReadExit(n, how, rest, s), req.pc \notin {"idle", "store"},
         n = 0 \/ (Reading(req) /\ n = Filled(req)),
         Reading(req) /\ n # Filled(req) => how = "error", ~h.torn'
  PROVE  Stream' /\ GoodResult
<1> DEFINE last == Last(req, d, mem, h)
<1>1. last \in Nat /\ Base \in Nat /\ h.taken \in Nat
  BY LastIsNat DEF Stream
<1>2. Filled(req) \in Nat /\ Filled(req) <= req.size /\ req.size \in Nat
  BY DEF WakeInv, Shape, Requests, Stream, Places, Filled
<1>3. /\ h'.result = n /\ h'.torn = (h.torn \/ (how = "error" /\ n < FinalCount))
      /\ h'.taken = IF n > 0 /\ mem[n - 1] > h.taken THEN mem[n - 1] ELSE h.taken
  BY DEF ReadExit, WakeInv, Shape
<1>4. Reading(req) => n = Filled(req)
  <2> SUFFICES ASSUME Reading(req), n # Filled(req)
               PROVE  FALSE
    OBVIOUS
  <2>1. FinalCount = Filled(req)
    BY DEF FinalCount, Filled
  <2>2. n < FinalCount
    BY <1>2, <2>1
  <2>3. h'.torn
    BY <1>3, <2>2
  <2> QED
    BY <2>3
<1>5. h'.taken = last
  <2>1. CASE ~Reading(req)
    BY <1>3, <2>1 DEF Last
  <2>2. CASE Reading(req) /\ d.flushed
    <3>1. last = h.taken
      BY <2>2 DEF Last
    <3>2. n > 0 => mem[n - 1] \in Nat /\ mem[n - 1] <= h.taken
      <4>1. n > 0 => n - 1 \in 0 .. Filled(req) - 1 /\ n - 1 \in 0 .. req.size - 1
        BY <1>2, <1>4, <2>2
      <4> QED
        BY <2>2, <3>1, <4>1 DEF Stream, Client
    <3> QED
      BY <1>1, <1>3, <3>1, <3>2
  <2>3. CASE Reading(req) /\ ~d.flushed
    <3>1. h.from = h.taken
      BY <2>3 DEF Stream, Client
    <3>2. n > 0 => mem[n - 1] \in Nat /\ h.taken < mem[n - 1] /\ last = mem[n - 1]
      <4>1. n > 0 => n - 1 \in 0 .. Filled(req) - 1 /\ n - 1 \in 0 .. req.size - 1
        BY <1>2, <1>4, <2>3
      <4> QED
        BY <1>4, <2>3, <3>1, <4>1 DEF Stream, Client, Last
    <3>3. n = 0 => last = h.taken
      BY <1>4, <2>3, <3>1 DEF Last
    <3> QED
      BY <1>1, <1>2, <1>3, <1>4, <2>3, <3>2, <3>3
  <2> QED
    BY <2>1, <2>2, <2>3
<1>6. ~Reading(req') /\ req'.pc \in {"idle", "ready"} /\ Places(req')
  BY DEF ReadExit, Idle, Reading, Places, Filled
<1>7. Last(req, d, mem, h)' = last
  BY <1>5, <1>6 DEF Last
<1>8. Behind(req, Base)' = Behind(req, Base)
  BY <1>6 DEF ReadExit, Behind, Base
<1>9. d'.flushed => req'.pc = "ready"
  BY DEF ReadExit, Idle, Devices
<1>10. Stream'
  <2>1. Line'
    BY <1>6 DEF ReadExit, Stream, Line, Base
  <2>2. Client(req, d, mem, h)'
    BY <1>6 DEF Client
  <2>3. Chain(Last(req, d, mem, h)', q', Behind(req, Base)')
    BY <1>7, <1>8 DEF ReadExit, Quietly, Stream
  <2> QED
    BY <1>1, <1>5, <1>6, <1>9, <2>1, <2>2, <2>3 DEF ReadExit, Quietly, Stream
<1>11. GoodResult
  <2> SUFFICES ASSUME NEW i \in 0 .. h'.result - 1
               PROVE  LET before == IF i = 0 THEN h.from ELSE mem[i - 1]
                      IN  mem[i] > before /\ before + 1 .. mem[i] - 1 \subseteq Stripped
    BY DEF GoodResult
  <2>1. Reading(req) /\ i \in 0 .. Filled(req) - 1
    BY <1>2, <1>3, <1>4
  <2>2. Follows(IF i = 0 THEN h.from ELSE mem[i - 1], mem[i])
    BY <2>1 DEF Stream, Client
  <2>3. mem[i] \in Nat /\ (IF i = 0 THEN h.from ELSE mem[i - 1]) \in Nat
    <3>1. i \in 0 .. req.size - 1 /\ (i # 0 => i - 1 \in 0 .. req.size - 1)
      BY <1>2, <2>1
    <3> QED
      BY <2>1, <3>1 DEF Stream, Client
  <2> QED
    BY <2>2, <2>3 DEF Follows
<1> QED
  BY <1>10, <1>11

LEMMA DoReadStream ==
  ASSUME WakeInv, Stream, NEW n \in Nat \ {0}, DoRead(n, d), ~Reading(req)
  PROVE  Stream'
<1>1. /\ req'.pc \in {"fifo", "verify"} /\ req'.size = n /\ req'.left = n
      /\ req'.off = 0 /\ req'.back = "start"
  BY DEF DoRead, Idle
<1>2. Reading(req') /\ Filled(req') = 0 /\ Places(req')
  BY <1>1 DEF Reading, Filled, Places
<1>3. h'.taken = h.taken /\ h'.from = h.taken /\ d'.flushed = FALSE
  BY DEF DoRead, WakeInv, Shape, Devices
<1>4. Last(req, d, mem, h)' = Last(req, d, mem, h)
  BY <1>2, <1>3 DEF Last
<1>5. mem' \in [0 .. n - 1 -> Nat]
  BY DEF DoRead
<1>6. Client(req, d, mem, h)'
  BY <1>1, <1>2, <1>3, <1>5 DEF Client, Stream
<1>7. Behind(req, Base)' = Behind(req, Base)
  BY <1>1 DEF DoRead, Behind, Base, Reading
<1>8. Line'
  BY <1>1 DEF DoRead, Stream, Line, Base
<1> QED
  BY <1>2, <1>3, <1>4, <1>6, <1>7, <1>8 DEF DoRead, Quietly, Stream

LEMMA FetchStream ==
  ASSUME WakeInv, Stream, NEW r \in Requests, Fetch(r), ~d.flushed,
         req.pc \in {"normal", "reread", "noWait"},
         (r = req /\ req.pc = "noWait") \/ r = [req EXCEPT !.store = @ + 1]
  PROVE  Stream'
<1> DEFINE n == Filled(req)
           last == Last(req, d, mem, h)
<1>1. /\ n \in Nat /\ req.size \in Nat /\ n \in 0 .. req.size - 1 /\ req.di = n
      /\ req.left \in Int /\ req.left > 0 /\ req.left <= req.size /\ req.size - req.left = n
      /\ req.off \in Int /\ req.store \in Int
  <2>1. /\ req.size \in Nat /\ req.left \in Int /\ req.off \in Int /\ req.store \in Int
    BY DEF WakeInv, Shape, Requests
  <2>2. req.left > 0 /\ req.left <= req.size /\ req.di = n
    BY DEF Stream, Places, Reading
  <2>3. n = req.size - req.left
    BY DEF Filled
  <2> HIDE DEF n
  <2> QED
    BY <2>1, <2>2, <2>3
<1>2. /\ r.pc = req.pc /\ r.size = req.size /\ r.left = req.left /\ r.di = req.di
      /\ r.off = req.off /\ (req.pc # "noWait" => r.store = req.store + 1)
  BY DEF Requests, WakeInv, Shape
<1>3. /\ req'.pc = IF req.left = 1 THEN "full" ELSE req.pc
      /\ req'.size = req.size /\ req'.left = req.left - 1 /\ req'.di = n + 1
      /\ req'.off = req.off /\ (req.pc # "noWait" => req'.store = req.store + 1)
  BY <1>1, <1>2 DEF Fetch, Requests
<1>4. Filled(req') = n + 1 /\ Reading(req') /\ req'.pc \in {"full", "normal", "reread", "noWait"}
  BY <1>1, <1>3 DEF Filled, Reading
<1>5. Places(req')
  <2>1. req.pc # "noWait" => req.off + req.store = n
    BY DEF Stream, Places
  <2>2. 0 <= req'.left /\ req'.left <= req'.size /\ (req'.pc # "full" => req'.left > 0)
    BY <1>1, <1>3
  <2>3. req'.pc \in {"normal", "reread"} => req'.off + req'.store = n + 1
    BY <1>1, <1>3, <2>1
  <2> QED
    BY <1>3, <1>4, <2>2, <2>3 DEF Places
<1>6. last \in Nat /\ Base \in Nat /\ q # <<>> /\ q' = Tail(q) /\ UNCHANGED <<h, d, uart, sent>>
  BY LastIsNat DEF Fetch, Get
<1>7. Behind(req, Base) = Base /\ (Behind(req, Base))' = Base
  BY <1>4, <1>6 DEF Behind, Base
<1>8. Chain(Head(q), Tail(q), Base) /\ Follows(last, Head(q)) /\ Head(q) \in Nat
  BY <1>6, <1>7, ChainGet DEF Stream
<1>9. /\ mem \in [0 .. req.size - 1 -> Nat] /\ h.from \in Nat /\ h.from = h.taken
      /\ mem' = [mem EXCEPT ![n] = Head(q)]
  BY <1>1 DEF Fetch, Stream, Client, Reading
<1>10. /\ mem' \in [0 .. req.size - 1 -> Nat] /\ mem'[n] = Head(q)
       /\ \A i \in 0 .. n - 1 : mem'[i] = mem[i]
  BY <1>1, <1>8, <1>9
<1>11. (Last(req, d, mem, h))' = Head(q)
  BY <1>1, <1>4, <1>6, <1>10 DEF Last
<1>12. last = IF n = 0 THEN h.from ELSE mem[n - 1]
  BY DEF Last, Reading
<1>13. ASSUME NEW i \in 0 .. n
       PROVE  /\ Follows(IF i = 0 THEN h.from ELSE mem'[i - 1], mem'[i])
              /\ h.from < mem'[i] /\ mem'[i] <= Head(q)
  <2>1. CASE i \in 0 .. n - 1
    <3>1. i # 0 => mem'[i - 1] = mem[i - 1]
      <4>1. i # 0 => i - 1 \in 0 .. n - 1
        BY <1>1, <2>1
      <4>2. \A k \in 0 .. n - 1 : mem'[k] = mem[k]
        BY <1>10
      <4> HIDE DEF n
      <4> QED
        BY <4>1, <4>2
    <3>2. /\ Follows(IF i = 0 THEN h.from ELSE mem[i - 1], mem[i])
          /\ h.from < mem[i] /\ mem[i] <= last
      BY <2>1 DEF Stream, Client, Reading
    <3>3. last < Head(q) /\ mem[i] \in Nat
      BY <1>1, <1>8, <1>9, <2>1 DEF Follows
    <3>4. mem'[i] <= Head(q)
      BY <1>6, <1>8, <1>10, <2>1, <3>2, <3>3
    <3> QED
      BY <1>10, <2>1, <3>1, <3>2, <3>4
  <2>2. CASE i = n
    <3>1. (IF i = 0 THEN h.from ELSE mem'[i - 1]) = last
      <4>1. n # 0 => n - 1 \in 0 .. n - 1
        BY <1>1
      <4> QED
        BY <1>10, <1>12, <2>2, <4>1
    <3>2. h.from <= last
      <4>1. n # 0 => n - 1 \in 0 .. n - 1 /\ n - 1 \in 0 .. req.size - 1
        BY <1>1
      <4>2. n # 0 => h.from < mem[n - 1] /\ mem[n - 1] \in Nat
        BY <1>9, <4>1 DEF Stream, Client, Reading
      <4> QED
        BY <1>9, <1>12, <4>2
    <3>3. h.from < Head(q)
      BY <1>6, <1>8, <1>9, <3>2 DEF Follows
    <3> QED
      BY <1>8, <1>10, <2>2, <3>1, <3>3
  <2> QED
    BY <1>1, <2>1, <2>2
<1>14. Client(req, d, mem, h)'
  <2>1. 0 .. Filled(req') - 1 = 0 .. n
    BY <1>1, <1>4
  <2> HIDE DEF n
  <2> QED
    BY <1>3, <1>6, <1>9, <1>10, <1>11, <1>13, <2>1 DEF Client
<1>15. Line'
  BY <1>4, <1>6 DEF Stream, Line, Base
<1>16. Chain((Last(req, d, mem, h))', q', (Behind(req, Base))')
  BY <1>6, <1>7, <1>8, <1>11
<1>17. q' \in Seq(Nat)
  BY <1>6 DEF Stream
<1> QED
  BY <1>5, <1>6, <1>14, <1>15, <1>16, <1>17 DEF Stream

(* What moves neither bytes nor the request.                                *)
LEMMA FrameStream ==
  ASSUME Stream, UNCHANGED <<q, uart, sent, req, mem>>,
         h'.taken = h.taken, h'.from = h.from, d'.flushed = d.flushed
  PROVE  Stream'
<1>1. Last(req, d, mem, h)' = Last(req, d, mem, h)
  BY DEF Last
<1>2. Client(req, d, mem, h)'
  BY <1>1 DEF Stream, Client
<1>3. Line' /\ Behind(req, Base)' = Behind(req, Base)
  BY DEF Stream, Line, Base, Behind
<1> QED
  BY <1>1, <1>2, <1>3 DEF Stream

(* The next byte of the UART.                                               *)
LEMMA NextOfLine ==
  ASSUME WakeInv, Stream, uart # <<>>, uart' = Tail(uart), sent' = sent
  PROVE  /\ Base' = Base + 1 /\ Base \in Nat /\ Head(uart) = Base + 1
         /\ \A i \in 1 .. Len(uart') : uart'[i] = Base' + i
<1>1. /\ uart \in Seq(Nat) /\ sent \in Nat /\ Base \in Nat
      /\ \A i \in 1 .. Len(uart) : uart[i] = Base + i
  BY LastIsNat DEF WakeInv, Shape, Stream, Line
<1>2. /\ Len(uart') = Len(uart) - 1 /\ Head(uart) = uart[1] /\ Len(uart) > 0
      /\ \A i \in 1 .. Len(uart') : uart'[i] = uart[i + 1]
  BY <1>1
<1>3. Base' = Base + 1
  BY <1>1, <1>2 DEF Base
<1>4. Head(uart) = Base + 1
  BY <1>1, <1>2
<1>5. ASSUME NEW i \in 1 .. Len(uart')
      PROVE  uart'[i] = Base' + i
  BY <1>1, <1>2, <1>3
<1> QED
  BY <1>1, <1>3, <1>4, <1>5

LEMMA TakesByteStream ==
  ASSUME WakeInv, Stream, NEW r \in Requests, TakesByte(r), uart # <<>>,
         Reading(req), req.pc # "store", ~d.flushed,
         r.size = req.size, r.left = req.left, Places([r EXCEPT !.pc = "store"])
  PROVE  Stream'
<1>1. /\ req' = [r EXCEPT !.pc = "store", !.byte = Head(uart)] /\ uart' = Tail(uart)
      /\ h'.taken = h.taken /\ h'.from = h.from
      /\ UNCHANGED <<q, sent, d, mem>>
  BY DEF TakesByte, Quietly, WakeInv, Shape
<1>2. Base' = Base + 1 /\ Base \in Nat /\ Head(uart) = Base + 1
      /\ \A i \in 1 .. Len(uart') : uart'[i] = Base' + i
  BY <1>1, NextOfLine
<1>3. /\ req'.pc = "store" /\ req'.byte = Head(uart) /\ req'.size = req.size
      /\ req'.left = req.left
      /\ req'.off = r.off /\ req'.store = r.store /\ req'.back = r.back
  BY <1>1 DEF Requests
<1>4. Places(req') /\ Reading(req') /\ Filled(req') = Filled(req)
  BY <1>3 DEF Places, Reading, Filled, Requests
<1>5. Last(req, d, mem, h)' = Last(req, d, mem, h)
  BY <1>1, <1>4 DEF Last
<1>6. Client(req, d, mem, h)'
  BY <1>1, <1>3, <1>4, <1>5 DEF Stream, Client
<1>7. Behind(req, Base)' = Base /\ Behind(req, Base) = Base
  BY <1>2, <1>3 DEF Behind
<1>8. Line'
  BY <1>2, <1>3 DEF Line
<1> QED
  BY <1>1, <1>4, <1>5, <1>6, <1>7, <1>8 DEF Stream

LEMMA FifoStoreStream ==
  ASSUME WakeInv, Stream, FifoStore, ~h.torn'
  PROVE  Stream'
<1> DEFINE last == Last(req, d, mem, h)
<1>1. /\ req.pc = "store" /\ last \in Nat /\ Base \in Nat /\ Base - 1 \in Nat
      /\ req.byte = Base - 1 + 1 /\ Chain(last, q, Base - 1) /\ Reading(req) /\ ~d.flushed
  BY LastIsNat DEF FifoStore, Stream, Line, Behind, Reading
<1>2. /\ UNCHANGED <<uart, sent, mem>> /\ h'.taken = h.taken /\ h'.from = h.from
      /\ d'.flushed = d.flushed
  BY DEF FifoStore, Goes, WakeInv, Shape, Devices
<1>3. /\ req'.pc = "test" /\ req'.size = req.size /\ req'.left = req.left
      /\ req'.off = req.off /\ req'.store = req.store /\ req'.back = req.back
  BY DEF FifoStore, Goes, WakeInv, Shape, Requests
<1>4. Places(req') /\ Reading(req') /\ Filled(req') = Filled(req)
  BY <1>1, <1>3 DEF Stream, Places, Reading, Filled
<1>5. Last(req, d, mem, h)' = last
  BY <1>1, <1>2, <1>4 DEF Last
<1>6. Client(req, d, mem, h)'
  BY <1>1, <1>2, <1>3, <1>4, <1>5 DEF Stream, Client
<1>7. Line' /\ Behind(req, Base)' = Base
  BY <1>2, <1>3 DEF Stream, Line, Base, Behind
<1>8. Chain(last, q', Base) /\ q' \in Seq(Nat)
  <2>1. CASE req.byte \in Stripped
    <3>1. q' = q
      BY <2>1 DEF FifoStore, Goes, Quietly
    <3>2. Chain(last, q, Base - 1 + 1)
      BY <1>1, <2>1, ChainStrip DEF Stream
    <3> QED
      BY <1>1, <3>1, <3>2 DEF Stream
  <2>2. CASE req.byte \notin Stripped
    <3>1. Len(q) # Length
      BY <2>2 DEF FifoStore, WakeInv, Shape
    <3>2. q' = Append(q, req.byte)
      BY <2>2, <3>1 DEF FifoStore, Put, Refuse
    <3>3. Chain(last, Append(q, Base - 1 + 1), Base - 1 + 1)
      BY <1>1, ChainPut DEF Stream
    <3> QED
      BY <1>1, <3>2, <3>3 DEF Stream
  <2> QED
    BY <2>1, <2>2
<1> QED
  BY <1>1, <1>2, <1>4, <1>5, <1>6, <1>7, <1>8 DEF Stream

LEMMA GetByteStream ==
  ASSUME WakeInv, Stream, NEW s \in Devices, s.flushed = d.flushed, uart # <<>>,
         GetByte(s), ~h.torn'
  PROVE  Stream'
<1> DEFINE last == Last(req, d, mem, h)
           b == Head(uart)
<1>1. /\ req.pc \notin {"store", "take"} /\ (b \in Stripped \/ Len(q) # Length)
      /\ h'.taken = h.taken /\ h'.from = h.from
  BY DEF GetByte, WakeInv, Shape
<1>2. /\ uart' = Tail(uart) /\ UNCHANGED <<sent, req, mem>> /\ d'.flushed = d.flushed
  BY DEF GetByte, Devices
<1>3. Base' = Base + 1 /\ Base \in Nat /\ b = Base + 1
      /\ \A i \in 1 .. Len(uart') : uart'[i] = Base' + i
  BY <1>2, NextOfLine
<1>4. Last(req, d, mem, h)' = last /\ last \in Nat
  BY <1>1, <1>2, LastIsNat DEF Last
<1>5. Client(req, d, mem, h)'
  BY <1>1, <1>2, <1>4 DEF Stream, Client
<1>6. Line' /\ Behind(req, Base)' = Base + 1 /\ Behind(req, Base) = Base
  <2>1. req'.pc \notin {"store", "take"} /\ req' = req
    BY <1>1, <1>2
  <2>2. Line'
    BY <1>3, <2>1 DEF Line
  <2> QED
    BY <1>3, <2>1, <2>2 DEF Behind
<1>7. Chain(last, q', Base + 1) /\ q' \in Seq(Nat)
  <2>1. CASE b \in Stripped
    BY <1>3, <1>4, <1>6, <2>1, ChainStrip DEF GetByte, Quietly, Stream
  <2>2. CASE b \notin Stripped
    <3>1. q' = Append(q, b)
      BY <1>1, <2>2 DEF GetByte, Put, Refuse
    <3> QED
      BY <1>3, <1>4, <1>6, <3>1, ChainPut DEF Stream
  <2> QED
    BY <2>1, <2>2
<1> QED
  BY <1>1, <1>2, <1>4, <1>5, <1>6, <1>7 DEF Stream

LEMMA ArriveStream ==
  ASSUME WakeInv, Stream, Arrive
  PROVE  Stream'
<1>1. /\ uart \in Seq(Nat) /\ sent \in Nat /\ uart' = Append(uart, sent + 1) /\ sent' = sent + 1
      /\ UNCHANGED <<q, req, d, mem, h>>
  BY DEF Arrive, Quietly, WakeInv, Shape
<1>2. /\ Len(uart') = Len(uart) + 1 /\ uart' # <<>> /\ uart'[Len(uart) + 1] = sent + 1
      /\ \A i \in 1 .. Len(uart) : uart'[i] = uart[i]
  BY <1>1
<1>3. Base' = Base /\ Base \in Int
  BY <1>1, <1>2 DEF Base
<1>4. ASSUME NEW i \in 1 .. Len(uart')
      PROVE  uart'[i] = Base' + i
  <2>1. CASE i \in 1 .. Len(uart)
    BY <1>1, <1>2, <1>3, <2>1 DEF Stream, Line
  <2>2. CASE i = Len(uart) + 1
    <3>1. Base + i = sent + 1 /\ uart'[i] = sent + 1
      BY <1>1, <1>2, <2>2 DEF Base
    <3> QED
      BY <1>3, <3>1
  <2> QED
    BY <1>1, <1>2, <2>1, <2>2
<1>5. Line'
  BY <1>1, <1>2, <1>3, <1>4 DEF Stream, Line
<1>6. Last(req, d, mem, h)' = Last(req, d, mem, h)
  BY <1>1 DEF Last
<1>7. Client(req, d, mem, h)' /\ Behind(req, Base)' = Behind(req, Base)
  BY <1>1, <1>3, <1>6 DEF Stream, Client, Behind
<1> QED
  BY <1>1, <1>5, <1>6, <1>7 DEF Stream

LEMMA InputFlushStream ==
  ASSUME WakeInv, Stream, InputFlush, req.pc \in {"idle", "ready", "blocked"}
  PROVE  Stream'
<1>1. /\ q' = <<>> /\ uart' = <<>> /\ UNCHANGED <<sent, req, mem>>
      /\ h'.taken = sent /\ h'.from = h.from /\ sent \in Nat
      /\ (d'.flushed <=> d.busy \/ d.flushed) /\ (req.pc # "idle" <=> d.busy)
  BY DEF InputFlush, Flush, WakeInv, Shape, Devices, Waker
<1>2. Last(req, d, mem, h) <= sent
  <2>1. /\ Last(req, d, mem, h) \in Nat /\ Base \in Nat /\ Len(uart) \in Nat
        /\ Behind(req, Base) = Base
    BY LastIsNat DEF Behind, WakeInv, Shape
  <2>2. Last(req, d, mem, h) <= Base
    BY <2>1 DEF Stream, Chain
  <2> QED
    BY <1>1, <2>1, <2>2 DEF Base
<1>3. Last(req, d, mem, h)' = sent
  BY <1>1 DEF Last, Reading
<1>4. Base' = sent /\ Behind(req, Base)' = sent
  BY <1>1 DEF Base, Behind
<1>5. Line'
  BY <1>1, <1>4 DEF Line
<1>6. Client(req, d, mem, h)'
  <2> SUFFICES ASSUME Reading(req)
               PROVE  Client(req, d, mem, h)'
    BY <1>1 DEF Client
  <2>1. ASSUME NEW i \in 0 .. Filled(req) - 1
        PROVE  mem[i] <= sent
    <3>1. mem[i] <= Last(req, d, mem, h) /\ Last(req, d, mem, h) \in Nat
      BY LastIsNat DEF Stream, Client
    <3>2. i \in 0 .. req.size - 1
      BY DEF WakeInv, Shape, Requests, Stream, Places, Filled
    <3>3. mem[i] \in Nat
      BY <3>2 DEF Stream, Client
    <3> QED
      BY <1>1, <1>2, <3>1, <3>3
  <2> QED
    BY <1>1, <1>3, <2>1 DEF Stream, Client, Reading
<1>7. Chain(sent, <<>>, sent)
  BY <1>1, ChainEmpty
<1> QED
  BY <1>1, <1>3, <1>4, <1>5, <1>6, <1>7 DEF Stream, Devices, WakeInv, Shape

-----------------------------------------------------------------------------
LEMMA InitIsInv == Init => Inv
<1> SUFFICES ASSUME Init
             PROVE  Inv
  OBVIOUS
<1>1. Idle \in Requests /\ Idle.pc = "idle"
  BY DEF Idle, Requests, Pcs
<1>2. d \in Devices /\ ~d.flushed /\ ~d.busy
  <2>1. d \in [ mode : Modes, count : {0}, timer : {0}, clear : {TRUE}, last : {FALSE},
                event : {FALSE}, timedOut : {FALSE}, flushed : {FALSE}, busy : {FALSE} ]
    BY DEF Init
  <2> QED
    <3>1. /\ d.mode \in Modes /\ d.count = 0 /\ d.timer = 0 /\ d.clear = TRUE /\ d.last = FALSE
          /\ d.event = FALSE /\ d.timedOut = FALSE /\ d.flushed = FALSE /\ d.busy = FALSE
      BY <2>1
    <3>2. d = [ mode |-> d.mode, count |-> 0, timer |-> 0, clear |-> TRUE, last |-> FALSE,
                event |-> FALSE, timedOut |-> FALSE, flushed |-> FALSE, busy |-> FALSE ]
      BY <2>1
    <3>3. ASSUME NEW m \in Modes, NEW n \in Nat, NEW yes \in BOOLEAN, NEW no \in BOOLEAN
          PROVE  [ mode |-> m, count |-> n, timer |-> n, clear |-> yes, last |-> no,
                   event |-> no, timedOut |-> no, flushed |-> no, busy |-> no ] \in Devices
      BY DEF Devices
    <3>4. d \in Devices
      BY <3>1, <3>2, <3>3, Zenon
    <3> QED
      BY <3>1, <3>4
<1>3. /\ uart = <<>> /\ sent = 0 /\ isr = FALSE /\ waiting = <<>> /\ req = Idle /\ q = <<>>
      /\ DOMAIN h = {"turn", "how", "result", "taken", "from", "quiet", "torn", "missed"}
      /\ h.torn = FALSE /\ h.missed = FALSE /\ h.taken = 0
  BY DEF Init, FifoInit
<1>4. WakeInv
  <2>1. Shape
    <3>1. uart \in Seq(Nat) /\ waiting \in Seq(Nat \ {0}) /\ req.pc # "ready"
      BY <1>1, <1>3
    <3> QED
      BY <1>1, <1>2, <1>3, <3>1 DEF Shape
  <2>2. Waker(req, d, h.missed)
    BY <1>1, <1>2, <1>3 DEF Waker
  <2> QED
    BY <2>1, <2>2 DEF WakeInv
<1>5. Stream
  <2>0. Len(uart) = 0 /\ sent = 0 /\ req.pc = "idle"
    BY <1>1, <1>3
  <2>1. Base = 0 /\ Line /\ Behind(req, Base) = 0
    BY <2>0 DEF Base, Line, Behind
  <2>2. Places(req) /\ Client(req, d, mem, h) /\ Last(req, d, mem, h) = 0
    BY <1>3 DEF Idle, Places, Client, Last, Reading, Filled
  <2>3. Chain(0, <<>>, 0)
    BY ChainEmpty
  <2> QED
    BY <1>2, <1>3, <2>1, <2>2, <2>3 DEF Stream
<1> QED
  BY <1>4, <1>5 DEF Inv

-----------------------------------------------------------------------------
Kept == Inv' /\ (h'.turn # h.turn => h'.torn \/ GoodResult)

LEMMA GoesKeeps ==
  ASSUME Inv, NEW r \in Requests, NEW s \in Devices, Goes(r, s),
         Reading(req), Reading(r), Waker(r, s, h.missed), s.flushed = d.flushed,
         r.left = req.left, r.size = req.size, req.pc # "store", r.pc # "store",
         r.pc = "take" => uart # <<>>, Stream => Places(r) /\ ~d.flushed
  PROVE  Kept
<1>1. WakeInv'
  BY GoesWakes DEF Inv, Reading
<1>2. h' = h
  BY DEF Goes
<1>3. ~h.torn => Stream'
  BY GoesStream DEF Inv, Filled
<1> QED
  BY <1>1, <1>2, <1>3 DEF Kept, Inv

LEMMA ExitKeeps ==
  ASSUME Inv, NEW n, NEW how, NEW rest \in Seq(Nat \ {0}), NEW s \in Devices,
         s.busy, s.flushed = d.flushed, ReadExit(n, how, rest, s),
         req.pc \notin {"idle", "store"},
         n = 0 \/ (Reading(req) /\ n = Filled(req)),
         Reading(req) /\ n # Filled(req) => how = "error"
  PROVE  Kept
<1>1. WakeInv'
  BY ExitWakes DEF Inv
<1>2. h.torn => h'.torn
  BY DEF ReadExit, Inv, WakeInv, Shape
<1>3. ~h'.torn => Stream' /\ GoodResult
  BY <1>2, ExitStream DEF Inv
<1> QED
  BY <1>1, <1>3 DEF Kept, Inv

LEMMA FetchKeeps ==
  ASSUME Inv, NEW r \in Requests, Fetch(r),
         req.pc \in {"normal", "reread", "noWait"}, r.pc = req.pc,
         (r = req /\ req.pc = "noWait") \/ r = [req EXCEPT !.store = @ + 1]
  PROVE  Kept
<1>1. WakeInv'
  BY FetchWakes DEF Inv
<1>2. h' = h
  BY DEF Fetch
<1>3. ~h.torn => Stream'
  BY FetchStream DEF Inv, Stream
<1> QED
  BY <1>1, <1>2, <1>3 DEF Kept, Inv

LEMMA TakesByteKeeps ==
  ASSUME Inv, NEW r \in Requests, TakesByte(r), uart # <<>>,
         Reading(req), req.pc \notin {"store", "blocked"},
         r.size = req.size, r.left = req.left,
         Stream => Places([r EXCEPT !.pc = "store"])
  PROVE  Kept
<1>1. WakeInv'
  BY TakesByteWakes DEF Inv, Reading
<1>2. h'.torn = h.torn /\ h'.turn = h.turn
  BY DEF TakesByte, Inv, WakeInv, Shape
<1>3. ~h.torn => Stream'
  BY TakesByteStream DEF Inv, Stream, Reading
<1> QED
  BY <1>1, <1>2, <1>3 DEF Kept, Inv

(* The types of the fields, for the steps below.                            *)
LEMMA Fields ==
  ASSUME Inv
  PROVE  /\ req \in Requests /\ d \in Devices
         /\ req.pc \in Pcs /\ req.size \in Nat /\ req.left \in Int
         /\ req.off \in Int /\ req.store \in Int /\ req.off + req.store \in Int
         /\ req.store + 1 \in Int
         /\ d.busy \in BOOLEAN /\ (d.busy <=> req.pc # "idle")
         /\ waiting \in Seq(Nat \ {0}) /\ h.torn \in BOOLEAN
BY DEF Inv, WakeInv, Shape, Requests, Devices, Waker

LEMMA ReadBlockKeeps ==
  ASSUME Inv, ReadBlock, req.pc \in {"normal", "reread"}
  PROVE  Kept
<1> DEFINE r == [req EXCEPT !.pc = "blocked", !.off = @ + req.store]
           s == [d EXCEPT !.count = req.left, !.event = FALSE, !.timedOut = FALSE,
                          !.timer = Start, !.clear = FALSE]
<1>1. "blocked" \in Pcs
  BY DEF Pcs
<1>2. r \in Requests
  BY <1>1, Fields DEF Requests
<1>3. s \in Devices /\ s.timer > 0 /\ s.busy = d.busy /\ s.flushed = d.flushed
  <2>1. Start \in Nat /\ Start > 0 /\ req.left \in Int /\ d \in Devices
    BY Fields, ReadAssumption
  <2>2. s \in Devices
    BY <2>1 DEF Devices
  <2>3. s.timer = Start /\ s.busy = d.busy /\ s.flushed = d.flushed
    BY <2>1 DEF Devices
  <2> QED
    BY <2>1, <2>2, <2>3
<1>4. /\ r.pc = "blocked" /\ r.left = req.left /\ r.size = req.size
      /\ r.off = req.off + req.store
  BY Fields DEF Requests
<1>5. Goes(r, s)
  BY DEF ReadBlock
<1> HIDE DEF r, s
<1>6. Reading(req) /\ Reading(r) /\ Waker(r, s, h.missed)
  BY <1>3, <1>4, Fields DEF Reading, Waker
<1>7. Stream => Places(r) /\ ~d.flushed
  BY <1>4 DEF Stream, Places, Reading, Filled
<1> QED
  BY <1>2, <1>3, <1>4, <1>5, <1>6, <1>7, GoesKeeps

LEMMA ReturnKeeps ==
  ASSUME Inv, NEW how, NEW s \in Devices, s.busy = d.busy, s.flushed = d.flushed,
         Return(how, s), Reading(req), req.pc # "store"
  PROVE  Kept
<1>1. ReadExit(FinalCount, how, waiting, s) /\ FinalCount = Filled(req)
  BY DEF Return, FinalCount, Filled
<1> QED
  BY <1>1, Fields, ExitKeeps DEF Reading

LEMMA FifoKeeps ==
  ASSUME Inv, ReadFIFO
  PROVE  Kept
<1>1. CASE FifoFirst
  <2>1. CASE uart = <<>>
    <3> DEFINE r == [req EXCEPT !.pc = "verify"]
    <3>1. r \in Requests /\ r.pc = "verify" /\ r.left = req.left /\ r.size = req.size
          /\ r.off = req.off
      BY Fields DEF Requests, Pcs
    <3>2. Goes(r, d) /\ req.pc = "fifo"
      BY <1>1, <2>1 DEF FifoFirst
    <3> HIDE DEF r
    <3>3. Reading(req) /\ Reading(r) /\ Waker(r, d, h.missed)
      BY <3>1, <3>2, Fields DEF Reading, Waker
    <3>4. Stream => Places(r) /\ ~d.flushed
      BY <3>1, <3>2 DEF Stream, Places, Reading, Filled
    <3> QED
      BY <3>1, <3>2, <3>3, <3>4, Fields, GoesKeeps
  <2>2. CASE uart # <<>>
    <3> DEFINE r == [req EXCEPT !.pc = "store"]
    <3>1. TakesByte(req) /\ req.pc = "fifo"
      BY <1>1, <2>2 DEF FifoFirst
    <3>2. r.pc = "store" /\ r.left = req.left /\ r.size = req.size /\ r.off = req.off
          /\ r.back = req.back
      BY Fields DEF Requests
    <3> HIDE DEF r
    <3>3. Stream => Places(r)
      BY <3>1, <3>2 DEF Stream, Places, Reading, Filled
    <3> QED
      BY <2>2, <3>1, <3>3, Fields, TakesByteKeeps DEF Reading, r
  <2> QED
    BY <2>1, <2>2
<1>2. CASE FifoStore
  <2>1. WakeInv'
    <3>1. /\ req' \in Requests /\ req'.pc = "test" /\ d' \in Devices /\ d'.busy = d.busy
      <4>1. CASE req.byte \in Stripped
        <5>1. req' = [req EXCEPT !.pc = "test"] /\ d' = d
          BY <1>2, <4>1 DEF FifoStore, Goes
        <5> QED
          BY <5>1, Fields DEF Requests, Pcs
      <4>2. CASE req.byte \notin Stripped
        <5>1. PICK c \in Int : /\ req' = [req EXCEPT !.pc = "test", !.some = TRUE]
                               /\ d' = [d EXCEPT !.count = c]
          BY <1>2, <4>2, Fields DEF FifoStore, Devices
        <5>2. "test" \in Pcs
          BY DEF Pcs
        <5>3. req' \in Requests /\ req'.pc = "test"
          BY <5>1, <5>2, Fields DEF Requests
        <5>4. d' \in Devices /\ d'.busy = d.busy
          BY <5>1, Fields DEF Devices
        <5> QED
          BY <5>3, <5>4
      <4> QED
        BY <4>1, <4>2
    <3>2. UNCHANGED <<uart, sent, isr, waiting>> /\ req.pc = "store"
      BY <1>2 DEF FifoStore, Goes
    <3>3. DOMAIN h' = DOMAIN h /\ h'.torn \in BOOLEAN /\ h'.missed = h.missed
      BY <1>2 DEF FifoStore, Goes, Inv, WakeInv, Shape
    <3> QED
      BY <3>1, <3>2, <3>3 DEF Inv, WakeInv, Shape, Waker
  <2>2. h'.turn = h.turn /\ (h.torn => h'.torn)
    BY <1>2 DEF FifoStore, Goes, Inv, WakeInv, Shape
  <2>3. ~h'.torn => Stream'
    BY <1>2, <2>2, FifoStoreStream DEF Inv
  <2> QED
    BY <2>1, <2>2, <2>3 DEF Kept, Inv
<1>3. CASE FifoTest
  <2> DEFINE s == [d EXCEPT !.event = @ \/ req.some]
             t == [req EXCEPT !.pc = "take"]
             v == [req EXCEPT !.pc = "verify"]
             w == [req EXCEPT !.pc = "verify", !.off = @ + req.store]
             b == [req EXCEPT !.pc = "setUp"]
  <2>1. s \in Devices /\ s.busy = d.busy /\ s.flushed = d.flushed /\ req.pc = "test"
    BY <1>3, Fields DEF FifoTest, Devices, Requests
  <2>2. /\ t \in Requests /\ t.pc = "take" /\ t.left = req.left /\ t.size = req.size
        /\ t.off = req.off /\ t.store = req.store /\ t.back = req.back
    BY Fields DEF Requests, Pcs
  <2>3. v \in Requests /\ v.pc = "verify" /\ v.left = req.left /\ v.size = req.size
        /\ v.off = req.off
    BY Fields DEF Requests, Pcs
  <2>4. w \in Requests /\ w.pc = "verify" /\ w.left = req.left /\ w.size = req.size
        /\ w.off = req.off + req.store
    <3>1. "verify" \in Pcs
      BY DEF Pcs
    <3> QED
      BY <3>1, Fields DEF Requests
  <2>5. /\ b \in Requests /\ b.pc = "setUp" /\ b.left = req.left /\ b.size = req.size
        /\ b.off = req.off /\ b.store = req.store
    BY Fields DEF Requests, Pcs
  <2>6. \/ uart # <<>> /\ Goes(t, d)
        \/ req.back = "start" /\ Goes(v, s)
        \/ req.back # "start" /\ Goes(w, s)
        \/ req.back # "start" /\ Goes(b, d)
        \/ Return("timeout", d)
    BY <1>3 DEF FifoTest, AfterTimeout
  <2> HIDE DEF s, t, v, w, b
  <2>7. /\ Reading(req) /\ (Stream => ~d.flushed)
    BY <2>1 DEF Reading, Stream
  <2>8. CASE uart # <<>> /\ Goes(t, d)
    <3>1. Reading(t) /\ Waker(t, d, h.missed)
      BY <2>1, <2>2, Fields DEF Reading, Waker
    <3>2. Stream => Places(t)
      BY <2>1, <2>2 DEF Stream, Places, Reading, Filled
    <3> QED
      BY <2>1, <2>2, <2>7, <2>8, <3>1, <3>2, Fields, GoesKeeps
  <2>9. CASE req.back = "start" /\ Goes(v, s)
    <3>1. Reading(v) /\ Waker(v, s, h.missed)
      BY <2>1, <2>3, Fields DEF Reading, Waker
    <3>2. Stream => Places(v)
      BY <2>1, <2>3, <2>9 DEF Stream, Places, Reading, Filled
    <3> QED
      BY <2>1, <2>3, <2>7, <2>9, <3>1, <3>2, GoesKeeps
  <2>10. CASE req.back # "start" /\ Goes(w, s)
    <3>1. Reading(w) /\ Waker(w, s, h.missed)
      BY <2>1, <2>4, Fields DEF Reading, Waker
    <3>2. Stream => Places(w)
      BY <2>1, <2>4, <2>10 DEF Stream, Places, Reading, Filled
    <3> QED
      BY <2>1, <2>4, <2>7, <2>10, <3>1, <3>2, GoesKeeps
  <2>11. CASE req.back # "start" /\ Goes(b, d)
    <3>1. Reading(b) /\ Waker(b, d, h.missed)
      BY <2>1, <2>5, Fields DEF Reading, Waker
    <3>2. Stream => Places(b)
      BY <2>1, <2>5, <2>11 DEF Stream, Places, Reading, Filled
    <3> QED
      BY <2>1, <2>5, <2>7, <2>11, <3>1, <3>2, Fields, GoesKeeps
  <2>12. CASE Return("timeout", d)
    BY <2>1, <2>7, <2>12, Fields, ReturnKeeps
  <2> QED
    BY <2>6, <2>8, <2>9, <2>10, <2>11, <2>12
<1>4. CASE FifoTake
  <2> DEFINE r == [req EXCEPT !.pc = "store"]
  <2>1. TakesByte(req) /\ req.pc = "take"
    BY <1>4 DEF FifoTake
  <2>2. r.pc = "store" /\ r.left = req.left /\ r.size = req.size /\ r.off = req.off
        /\ r.back = req.back /\ r.store = req.store
    BY Fields DEF Requests
  <2> HIDE DEF r
  <2>3. Stream => Places(r)
    BY <2>1, <2>2 DEF Stream, Places, Reading, Filled
  <2>4. CASE uart # <<>>
    BY <2>1, <2>3, <2>4, Fields, TakesByteKeeps DEF Reading, r
  <2>5. CASE uart = <<>>
    <3>1. h.torn /\ h'.torn = h.torn /\ h'.turn = h.turn
      BY <2>1, <2>5 DEF TakesByte, Inv, WakeInv, Shape, Stream, Line
    <3>2. WakeInv'
      BY <2>1, Fields, TakesByteWakes DEF Inv
    <3> QED
      BY <3>1, <3>2 DEF Kept, Inv
  <2> QED
    BY <2>4, <2>5
<1> QED
  BY <1>1, <1>2, <1>3, <1>4 DEF ReadFIFO

LEMMA PullPacketKeeps ==
  ASSUME Inv, PullPacket
  PROVE  Kept
<1>1. req.pc = "ready" /\ waiting # <<>> /\ waiting \in Seq(Nat \ {0})
  BY DEF PullPacket, Inv, WakeInv, Shape
<1>2. Head(waiting) \in Nat \ {0} /\ Tail(waiting) \in Seq(Nat \ {0})
  BY <1>1
<1>3. CASE d.flushed
  <2>1. ReadExit(0, "flush", Tail(waiting), d)
    BY <1>3 DEF PullPacket
  <2> QED
    BY <1>1, <1>2, <2>1, Fields, ExitKeeps DEF Reading
<1>4. CASE ~d.flushed
  <2>1. DoRead(Head(waiting), d) /\ waiting' = Tail(waiting)
    BY <1>4 DEF PullPacket
  <2>2. WakeInv'
    BY <1>2, <2>1, DoReadWakes DEF Inv
  <2>3. h'.torn = h.torn /\ h'.turn = h.turn
    BY <2>1 DEF DoRead, Inv, WakeInv, Shape
  <2>4. ~h.torn => Stream'
    BY <1>1, <1>2, <2>1, DoReadStream DEF Inv, Reading
  <2> QED
    BY <2>2, <2>3, <2>4 DEF Kept, Inv
<1> QED
  BY <1>3, <1>4

LEMMA VerifyKeeps ==
  ASSUME Inv, Verify
  PROVE  Kept
<1> DEFINE r == [[req EXCEPT !.di = req.off] EXCEPT !.pc = "normal", !.store = 0]
           v == [[req EXCEPT !.di = req.off] EXCEPT !.pc = "noWait"]
<1>1. req.pc = "verify" /\ Reading(req) /\ (Stream => ~d.flushed)
  BY DEF Verify, Reading, Stream
<1>2. /\ r \in Requests /\ r.pc = "normal" /\ r.left = req.left /\ r.size = req.size
      /\ r.off = req.off /\ r.store = 0 /\ r.di = req.off
  <2>1. "normal" \in Pcs /\ req.off \in Int /\ 0 \in Int
    BY Fields DEF Pcs
  <2>2. r \in Requests
    BY <2>1, Fields DEF Requests
  <2>3. req \in Requests
    BY Fields
  <2>4. r.store = 0 /\ r.di = req.off
    BY <2>3 DEF Requests
  <2>5. r.pc = "normal" /\ r.left = req.left /\ r.size = req.size /\ r.off = req.off
    BY <2>3 DEF Requests
  <2> QED
    BY <2>2, <2>4, <2>5
<1>3. /\ v \in Requests /\ v.pc = "noWait" /\ v.left = req.left /\ v.size = req.size
      /\ v.di = req.off
  BY Fields DEF Requests, Pcs
<1>4. ReadExit(0, "error", waiting, d) \/ Goes(r, d) \/ Goes(v, d)
  BY DEF Verify
<1> HIDE DEF r, v
<1>5. CASE ReadExit(0, "error", waiting, d)
  BY <1>1, <1>5, Fields, ExitKeeps
<1>6. CASE Goes(r, d)
  <2>1. Reading(r) /\ Waker(r, d, h.missed)
    BY <1>1, <1>2, Fields DEF Reading, Waker
  <2>2. Stream => Places(r)
    <3>1. req.off \in Int
      BY Fields
    <3> QED
      BY <1>1, <1>2, <3>1 DEF Stream, Places, Reading, Filled
  <2> QED
    BY <1>1, <1>2, <1>6, <2>1, <2>2, Fields, GoesKeeps
<1>7. CASE Goes(v, d)
  <2>1. Reading(v) /\ Waker(v, d, h.missed)
    BY <1>1, <1>3, Fields DEF Reading, Waker
  <2>2. Stream => Places(v)
    BY <1>1, <1>3 DEF Stream, Places, Reading, Filled
  <2> QED
    BY <1>1, <1>3, <1>7, <2>1, <2>2, Fields, GoesKeeps
<1> QED
  BY <1>4, <1>5, <1>6, <1>7

LEMMA LoopsKeep ==
  ASSUME Inv, NoWaitLoop \/ NormalLoop \/ RereadLoop
  PROVE  Kept
<1> DEFINE r == [req EXCEPT !.store = @ + 1]
           v == [req EXCEPT !.pc = "short"]
           t == [req EXCEPT !.back = "timeout", !.some = FALSE]
<1>1. r \in Requests /\ r.pc = req.pc
  BY Fields DEF Requests
<1>2. v \in Requests /\ v.pc = "short" /\ v.left = req.left /\ v.size = req.size
  BY Fields DEF Requests, Pcs
<1>3. /\ t \in Requests /\ t.left = req.left /\ t.size = req.size
      /\ DOMAIN t = DOMAIN req /\ t.back = "timeout" /\ t.off = req.off /\ t.store = req.store
  BY Fields DEF Requests
<1>4. CASE NoWaitLoop
  <2>1. req.pc = "noWait" /\ (Goes(v, d) \/ Fetch(req))
    BY <1>4 DEF NoWaitLoop
  <2> HIDE DEF v
  <2>2. CASE Goes(v, d)
    <3>1. Reading(req) /\ Reading(v) /\ Waker(v, d, h.missed) /\ (Stream => ~d.flushed)
      BY <1>2, <2>1, Fields DEF Reading, Waker, Stream
    <3>2. Stream => Places(v)
      BY <1>2, <2>1 DEF Stream, Places, Reading, Filled
    <3> QED
      BY <1>2, <2>1, <2>2, <3>1, <3>2, Fields, GoesKeeps
  <2>3. CASE Fetch(req)
    BY <2>1, <2>3, Fields, FetchKeeps
  <2> QED
    BY <2>1, <2>2, <2>3
<1>5. CASE NormalLoop
  <2>1. req.pc = "normal" /\ (ReadBlock \/ Fetch(r))
    BY <1>5 DEF NormalLoop
  <2> QED
    BY <1>1, <2>1, FetchKeeps, ReadBlockKeeps
<1>6. CASE RereadLoop
  <2>1. /\ req.pc = "reread"
        /\ \/ Fetch(r) \/ ReadBlock \/ Return("some", d) \/ Return("timeout", d)
           \/ uart # <<>> /\ TakesByte(t)
    BY <1>6 DEF RereadLoop, ReadTimedOut, AfterTimeout
  <2>2. CASE Fetch(r) \/ ReadBlock
    BY <1>1, <2>1, <2>2, FetchKeeps, ReadBlockKeeps
  <2>3. CASE Return("some", d) \/ Return("timeout", d)
    BY <2>1, <2>3, Fields, ReturnKeeps DEF Reading
  <2>4. CASE uart # <<>> /\ TakesByte(t)
    <3> DEFINE u == [t EXCEPT !.pc = "store"]
    <3>1. /\ u.pc = "store" /\ u.left = req.left /\ u.size = req.size
          /\ u.back = "timeout" /\ u.off = req.off /\ u.store = req.store
      BY <1>3 DEF Requests
    <3> HIDE DEF u
    <3>2. Stream => Places(u)
      BY <2>1, <3>1 DEF Stream, Places, Reading, Filled
    <3> HIDE DEF t
    <3> QED
      BY <1>3, <2>1, <2>4, <3>2, TakesByteKeeps DEF Reading, u
  <2> QED
    BY <2>1, <2>2, <2>3, <2>4
<1> QED
  BY <1>4, <1>5, <1>6

LEMMA BlockKeeps ==
  ASSUME Inv, BlockSetUp \/ BlockClear \/ BlockArm
  PROVE  Kept
<1> DEFINE r1 == [req EXCEPT !.pc = "clear", !.off = @ + req.store]
           s1 == [d EXCEPT !.count = req.left]
           r2 == [req EXCEPT !.pc = "arm"]
           s2 == [d EXCEPT !.event = FALSE, !.timedOut = FALSE]
           r3 == [req EXCEPT !.pc = "claim"]
           s3 == [d EXCEPT !.timer = Start]
<1>1. req.pc \in {"setUp", "clear", "arm"} /\ Reading(req) /\ (Stream => ~d.flushed)
  BY DEF BlockSetUp, BlockClear, BlockArm, Reading, Stream
<1>2. Start \in Nat /\ Start > 0
  BY ReadAssumption
<1>3. CASE BlockSetUp
  <2>1. "clear" \in Pcs
    BY DEF Pcs
  <2>2. /\ r1 \in Requests /\ r1.pc = "clear" /\ r1.left = req.left /\ r1.size = req.size
        /\ r1.off = req.off + req.store
    BY <2>1, Fields DEF Requests
  <2>3. s1 \in Devices /\ s1.busy = d.busy /\ s1.flushed = d.flushed
    BY Fields DEF Devices
  <2>4. req.pc = "setUp" /\ Goes(r1, s1)
    BY <1>3 DEF BlockSetUp
  <2> HIDE DEF r1, s1
  <2>5. Reading(r1) /\ Waker(r1, s1, h.missed)
    BY <1>1, <2>2, <2>3, Fields DEF Reading, Waker
  <2>6. Stream => Places(r1)
    BY <2>2, <2>4 DEF Stream, Places, Reading, Filled
  <2> QED
    BY <1>1, <2>2, <2>3, <2>4, <2>5, <2>6, GoesKeeps
<1>4. CASE BlockClear
  <2>1. /\ r2 \in Requests /\ r2.pc = "arm" /\ r2.left = req.left /\ r2.size = req.size
        /\ r2.off = req.off
    BY Fields DEF Requests, Pcs
  <2>2. s2 \in Devices /\ s2.busy = d.busy /\ s2.flushed = d.flushed
    BY Fields DEF Devices
  <2>3. req.pc = "clear" /\ Goes(r2, s2)
    BY <1>4 DEF BlockClear
  <2> HIDE DEF r2, s2
  <2>4. Reading(r2) /\ Waker(r2, s2, h.missed)
    BY <1>1, <2>1, <2>2, Fields DEF Reading, Waker
  <2>5. Stream => Places(r2)
    BY <2>1, <2>3 DEF Stream, Places, Reading, Filled
  <2> QED
    BY <1>1, <2>1, <2>2, <2>3, <2>4, <2>5, GoesKeeps
<1>5. CASE BlockArm
  <2>1. /\ r3 \in Requests /\ r3.pc = "claim" /\ r3.left = req.left /\ r3.size = req.size
        /\ r3.off = req.off
    BY Fields DEF Requests, Pcs
  <2>2. s3 \in Devices /\ s3.busy = d.busy /\ s3.flushed = d.flushed /\ s3.timer = Start
    BY <1>2, Fields DEF Devices
  <2>3. req.pc = "arm" /\ Goes(r3, s3)
    BY <1>5 DEF BlockArm
  <2> HIDE DEF r3, s3
  <2>4. Reading(r3) /\ Waker(r3, s3, h.missed)
    BY <1>1, <1>2, <2>1, <2>2, Fields DEF Reading, Waker
  <2>5. Stream => Places(r3)
    BY <2>1, <2>3 DEF Stream, Places, Reading, Filled
  <2> QED
    BY <1>1, <2>1, <2>2, <2>3, <2>4, <2>5, GoesKeeps
<1> QED
  BY <1>3, <1>4, <1>5

LEMMA BlockClaimKeeps ==
  ASSUME Inv, BlockClaim
  PROVE  Kept
<1>1. /\ req.pc = "claim" /\ req' = [req EXCEPT !.pc = "blocked"]
      /\ d' = [d EXCEPT !.clear = FALSE] /\ h' = [h EXCEPT !.missed = d.clear]
      /\ UNCHANGED <<uart, sent, isr, waiting, mem, q>>
  BY DEF BlockClaim, Quietly
<1>2. /\ req' \in Requests /\ req'.pc = "blocked" /\ req'.left = req.left
      /\ req'.size = req.size /\ req'.off = req.off
  BY <1>1, Fields DEF Requests, Pcs
<1>3. d' \in Devices /\ d'.busy = d.busy /\ d'.timer = d.timer /\ d'.flushed = d.flushed
  BY <1>1, Fields DEF Devices
<1>4. /\ DOMAIN h' = DOMAIN h /\ h'.missed = d.clear /\ h'.torn = h.torn
      /\ h'.turn = h.turn /\ h'.taken = h.taken /\ h'.from = h.from
  BY <1>1 DEF Inv, WakeInv, Shape
<1>5. WakeInv'
  <2>1. d.clear \in BOOLEAN /\ (d.clear \/ d.timer > 0)
    BY <1>1 DEF Inv, WakeInv, Shape, Waker, Devices
  <2>2. Shape'
    BY <1>1, <1>2, <1>3, <1>4, <2>1 DEF Inv, WakeInv, Shape
  <2>3. Waker(req, d, h.missed)'
    BY <1>2, <1>3, <1>4, <2>1, Fields, <1>1 DEF Waker
  <2> QED
    BY <2>2, <2>3 DEF WakeInv
<1>6. ASSUME ~h.torn
      PROVE  Stream'
  <2>1. Stream /\ ~d.flushed
    BY <1>1, <1>6 DEF Inv, Stream
  <2>2. Reading(req) /\ Reading(req') /\ Filled(req') = Filled(req) /\ Places(req')
    BY <1>1, <1>2, <2>1 DEF Stream, Places, Reading, Filled
  <2>3. Last(req, d, mem, h)' = Last(req, d, mem, h)
    BY <1>1, <1>3, <1>4, <2>2 DEF Last
  <2>4. Client(req, d, mem, h)'
    BY <1>1, <1>2, <1>3, <1>4, <2>1, <2>2, <2>3 DEF Stream, Client
  <2>5. Line' /\ Behind(req, Base)' = Behind(req, Base)
    BY <1>1, <1>2, <2>1 DEF Stream, Line, Base, Behind
  <2> QED
    BY <1>1, <1>2, <1>3, <1>4, <2>1, <2>2, <2>3, <2>4, <2>5 DEF Stream
<1> QED
  BY <1>4, <1>5, <1>6 DEF Kept, Inv

LEMMA WakeKeeps ==
  ASSUME Inv, Wake
  PROVE  Kept
<1> DEFINE s == [d EXCEPT !.clear = FALSE, !.last = FALSE]
           r == [req EXCEPT !.pc = "reread", !.store = 0, !.di = req.off]
<1>1. s \in Devices /\ s.busy = d.busy /\ s.flushed = d.flushed
  BY Fields DEF Devices
<1>2. /\ r \in Requests /\ r.pc = "reread" /\ r.left = req.left /\ r.size = req.size
      /\ r.off = req.off /\ r.store = 0 /\ r.di = req.off
  <2>1. "reread" \in Pcs /\ req.off \in Int /\ 0 \in Int
    BY Fields DEF Pcs
  <2>2. r \in Requests
    BY <2>1, Fields DEF Requests
  <2>3. req \in Requests
    BY Fields
  <2>4. r.store = 0 /\ r.di = req.off
    BY <2>3 DEF Requests
  <2>5. r.pc = "reread" /\ r.left = req.left /\ r.size = req.size /\ r.off = req.off
    BY <2>3 DEF Requests
  <2> QED
    BY <2>2, <2>4, <2>5
<1>3. /\ req.pc = "blocked" /\ Reading(req)
      /\ Return("flush", s) \/ Return("error", s) \/ (~d.flushed /\ Goes(r, s))
  BY DEF Wake, Reading
<1> HIDE DEF s, r
<1>4. CASE Return("flush", s) \/ Return("error", s)
  BY <1>1, <1>3, <1>4, ReturnKeeps
<1>5. CASE ~d.flushed /\ Goes(r, s)
  <2>1. Reading(r) /\ Waker(r, s, h.missed)
    BY <1>1, <1>2, <1>3, Fields DEF Reading, Waker
  <2>2. Stream => Places(r)
    <3>1. req.off \in Int
      BY Fields
    <3> QED
      BY <1>2, <1>3, <3>1 DEF Stream, Places, Reading, Filled
  <2> QED
    BY <1>1, <1>2, <1>3, <1>5, <2>1, <2>2, GoesKeeps
<1> QED
  BY <1>3, <1>4, <1>5

LEMMA ReadStepKeeps ==
  ASSUME Inv, ReadStep \/ Interrupted
  PROVE  Kept
<1>1. CASE ReadReturn \/ Interrupted
  <2>1. PICK how : Return(how, d) /\ req.pc \in {"full", "short", "blocked"}
    BY <1>1 DEF ReadReturn, Interrupted
  <2> QED
    BY <2>1, Fields, ReturnKeeps DEF Reading
<1>2. CASE ReadStep /\ ~ReadReturn
  BY <1>2, FifoKeeps, PullPacketKeeps, VerifyKeeps, LoopsKeep, BlockKeeps, BlockClaimKeeps,
     WakeKeeps DEF ReadStep
<1> QED
  BY <1>1, <1>2

-----------------------------------------------------------------------------
LEMMA RequestKeeps ==
  ASSUME Inv, Request
  PROVE  Kept
<1>1. req.pc \in {"idle", "ready", "blocked"}
  BY DEF Request
<1>2. ASSUME NEW n \in Sizes, Begin(n)
      PROVE  Kept
  <2>1. n \in Nat \ {0} /\ DoRead(n, d) /\ waiting' = waiting /\ req.pc = "idle"
    BY <1>2, Fields, ReadAssumption DEF Begin
  <2>2. WakeInv'
    BY <2>1, Fields, DoReadWakes DEF Inv
  <2>3. h'.torn = h.torn /\ h'.turn = h.turn
    BY <2>1 DEF DoRead, Inv, WakeInv, Shape
  <2>4. ~h.torn => Stream'
    BY <2>1, DoReadStream DEF Inv, Reading
  <2> QED
    BY <2>2, <2>3, <2>4 DEF Kept, Inv
<1>3. ASSUME NEW n \in Sizes, QueuePacket(n)
      PROVE  Kept
  <2>1. n \in Nat \ {0} /\ Start \in Nat /\ Start > 0
    BY ReadAssumption
  <2>2. /\ UNCHANGED <<q, uart, sent, isr, req, mem, h>> /\ waiting' = Append(waiting, n)
        /\ d' = [d EXCEPT !.timer = IF @ = 0 THEN Start ELSE @]
    BY <1>3 DEF QueuePacket, Quietly
  <2>3. waiting' \in Seq(Nat \ {0}) /\ waiting' # <<>>
    BY <2>1, <2>2, Fields
  <2>4. /\ d' \in Devices /\ d'.busy = d.busy /\ d'.clear = d.clear /\ d'.flushed = d.flushed
        /\ (d.timer > 0 => d'.timer > 0)
    <3>1. d.timer \in Nat
      BY Fields DEF Devices
    <3>2. PICK n2 \in Nat : d' = [d EXCEPT !.timer = n2] /\ (d.timer > 0 => n2 > 0)
      BY <2>1, <2>2, <3>1
    <3> QED
      BY <3>2, Fields DEF Devices
  <2>5. WakeInv'
    BY <2>2, <2>3, <2>4 DEF Inv, WakeInv, Shape, Waker
  <2>6. ~h.torn => Stream'
    BY <2>2, <2>4, FrameStream DEF Inv
  <2> QED
    BY <2>2, <2>5, <2>6 DEF Kept, Inv
<1>4. CASE InputFlush
  <2>1. /\ UNCHANGED <<sent, isr, waiting, req, mem>> /\ uart' = <<>>
        /\ DOMAIN h' = DOMAIN h /\ h'.torn = h.torn /\ h'.turn = h.turn /\ h'.missed = h.missed
    BY <1>4 DEF InputFlush, Inv, WakeInv, Shape
  <2>2. /\ d' \in Devices /\ d'.busy = d.busy /\ (d.clear => d'.clear)
        /\ (d.timer > 0 => d'.timer > 0 \/ d'.clear)
    <3>1. CASE d.busy
      <4>1. d' = [d EXCEPT !.count = 0, !.last = TRUE, !.flushed = TRUE, !.timedOut = TRUE,
                           !.timer = 0, !.clear = TRUE]
        BY <1>4, <3>1, Fields DEF InputFlush, Devices
      <4>2. d \in Devices
        BY Fields
      <4>3. d' \in Devices
        <5>1. ASSUME NEW yes \in BOOLEAN, NEW c \in Int, NEW n \in Nat
              PROVE  [d EXCEPT !.count = c, !.last = yes, !.flushed = yes, !.timedOut = yes,
                               !.timer = n, !.clear = yes] \in Devices
          BY <4>2 DEF Devices
        <5>2. 0 \in Int /\ 0 \in Nat
          OBVIOUS
        <5>3. TRUE \in BOOLEAN
          OBVIOUS
        <5> QED
          BY <4>1, <5>1, <5>2, <5>3, Zenon
      <4>4. d'.busy = d.busy /\ d'.clear = TRUE
        BY <4>1, <4>2 DEF Devices
      <4> QED
        BY <4>3, <4>4
    <3>2. CASE ~d.busy
      <4>1. d' = [d EXCEPT !.count = 0, !.last = TRUE] /\ d \in Devices
        BY <1>4, <3>2, Fields DEF InputFlush
      <4>2. d' \in Devices
        <5>1. ASSUME NEW yes \in BOOLEAN, NEW c \in Int
              PROVE  [d EXCEPT !.count = c, !.last = yes] \in Devices
          BY <4>1 DEF Devices
        <5>2. 0 \in Int
          OBVIOUS
        <5>3. TRUE \in BOOLEAN
          OBVIOUS
        <5> QED
          BY <4>1, <5>1, <5>2, <5>3, Zenon
      <4>3. d'.busy = d.busy /\ d'.clear = d.clear /\ d'.timer = d.timer
        BY <4>1 DEF Devices
      <4> QED
        BY <4>2, <4>3
    <3> QED
      BY <3>1, <3>2
  <2>3. uart' \in Seq(Nat)
    BY <2>1
  <2>4. WakeInv'
    BY <2>1, <2>2, <2>3, ServiceWakes DEF Inv, WakeInv, Shape
  <2>5. ~h.torn => Stream'
    BY <1>1, <1>4, InputFlushStream DEF Inv
  <2> QED
    BY <2>1, <2>4, <2>5 DEF Kept, Inv
<1> QED
  BY <1>2, <1>3, <1>4 DEF Request

LEMMA GetByteKeeps ==
  ASSUME Inv, NEW s \in Devices, uart # <<>>, GetByte(s), s.flushed = d.flushed,
         s.busy = d.busy, s.clear = d.clear, s.timer = d.timer
  PROVE  Kept
<1>1. /\ uart' = Tail(uart) /\ isr' = TRUE /\ UNCHANGED <<sent, waiting, req, mem>>
      /\ DOMAIN h' = DOMAIN h /\ h'.torn \in BOOLEAN /\ h'.missed = h.missed
      /\ h'.turn = h.turn /\ (h.torn => h'.torn)
  BY DEF GetByte, Inv, WakeInv, Shape
<1>2. uart' \in Seq(Nat)
  BY <1>1 DEF Inv, WakeInv, Shape
<1>3. /\ d' \in Devices /\ d'.busy = d.busy /\ d'.clear = d.clear /\ d'.timer = d.timer
  <2>1. CASE d' = s
    BY <2>1
  <2>2. CASE d' # s
    <3>1. s.count \in Int /\ s.count - 1 \in Int
      BY DEF Devices
    <3>2. PICK c \in Int, l \in BOOLEAN : d' = [s EXCEPT !.count = c, !.last = l]
      BY <2>2, <3>1 DEF GetByte, Devices
    <3> QED
      BY <3>2 DEF Devices
  <2> QED
    BY <2>1, <2>2
<1>4. WakeInv'
  BY <1>1, <1>2, <1>3, ServiceWakes DEF Inv
<1>5. ~h'.torn => Stream'
  BY <1>1, GetByteStream DEF Inv
<1> QED
  BY <1>1, <1>4, <1>5 DEF Kept, Inv

LEMMA ServiceKeeps ==
  ASSUME Inv, Receive \/ Timer \/ Arrive
  PROVE  Kept
<1>1. CASE read_com
  <2> DEFINE s == [d EXCEPT !.event = TRUE, !.last = @ \/ d.mode = "something"]
  <2>1. s \in Devices
    BY Fields DEF Devices
  <2>2. s.flushed = d.flushed /\ s.busy = d.busy /\ s.clear = d.clear /\ s.timer = d.timer
    BY Fields DEF Devices
  <2>3. uart # <<>> /\ GetByte(s)
    BY <1>1 DEF read_com
  <2> HIDE DEF s
  <2> QED
    BY <2>1, <2>2, <2>3, GetByteKeeps
<1>2. CASE read_loop
  BY <1>2, Fields, GetByteKeeps DEF read_loop
<1>3. CASE clear_rd_sem \/ Timer
  <2>1. /\ UNCHANGED <<q, uart, sent, waiting, req, mem>> /\ isr' \in BOOLEAN
        /\ DOMAIN h' = DOMAIN h /\ h'.torn = h.torn /\ h'.missed = h.missed
        /\ h'.turn = h.turn /\ h'.taken = h.taken /\ h'.from = h.from
    BY <1>3 DEF clear_rd_sem, Timer, Quietly, Inv, WakeInv, Shape
  <2>2. /\ d' \in Devices /\ d'.busy = d.busy /\ d'.flushed = d.flushed
        /\ (d.clear => d'.clear) /\ (d.timer > 0 => d'.timer > 0 \/ d'.clear)
    <3>1. Start \in Nat /\ Start > 0 /\ d \in Devices /\ d.timer \in Nat
      BY Fields, ReadAssumption DEF Devices
    <3>2. CASE d' = d
      BY <3>1, <3>2
    <3>3. CASE d' = [d EXCEPT !.timer = 0, !.clear = TRUE]
      BY <3>1, <3>3 DEF Devices
    <3>4. CASE d' = [d EXCEPT !.timer = Start]
      BY <3>1, <3>4 DEF Devices
    <3>5. CASE d' = [d EXCEPT !.timer = 0, !.timedOut = TRUE, !.clear = TRUE]
      BY <3>1, <3>5 DEF Devices
    <3>6. CASE d.timer > 1 /\ d' = [d EXCEPT !.timer = @ - 1]
      <4>1. d.timer - 1 \in Nat /\ d.timer - 1 > 0
        BY <3>1, <3>6
      <4> QED
        BY <3>1, <3>6, <4>1 DEF Devices
    <3> QED
      BY <1>3, <3>1, <3>2, <3>3, <3>4, <3>5, <3>6 DEF clear_rd_sem, Timer
  <2>3. WakeInv'
    BY <2>1, <2>2, ServiceWakes DEF Inv, WakeInv, Shape
  <2>4. ~h.torn => Stream'
    BY <2>1, <2>2, FrameStream DEF Inv
  <2> QED
    BY <2>1, <2>3, <2>4 DEF Kept, Inv
<1>4. CASE Arrive
  <2>1. UNCHANGED <<isr, waiting, req, d, h>> /\ sent' = sent + 1 /\ uart' = Append(uart, sent + 1)
    BY <1>4 DEF Arrive
  <2>2. sent' \in Nat /\ uart' \in Seq(Nat)
    BY <2>1 DEF Inv, WakeInv, Shape
  <2>3. WakeInv'
    BY <2>1, <2>2 DEF Inv, WakeInv, Shape
  <2>4. ~h.torn => Stream'
    BY <1>4, ArriveStream DEF Inv
  <2> QED
    BY <2>1, <2>3, <2>4 DEF Kept, Inv
<1> QED
  BY <1>1, <1>2, <1>3, <1>4 DEF Receive

LEMMA StepKeeps ==
  ASSUME Inv, [Next]_vars
  PROVE  Kept
<1>1. CASE Next
  BY <1>1, ReadStepKeeps, RequestKeeps, ServiceKeeps DEF Next
<1>2. CASE UNCHANGED vars
  <2>1. Last(req, d, mem, h)' = Last(req, d, mem, h) /\ Behind(req, Base)' = Behind(req, Base)
    BY <1>2 DEF vars, Last, Behind, Base
  <2>2. WakeInv'
    BY <1>2 DEF vars, Inv, WakeInv, Shape
  <2>3. ~h.torn => Stream'
    BY <1>2, FrameStream DEF vars, Inv
  <2> QED
    BY <1>2, <2>2, <2>3 DEF vars, Kept, Inv
<1> QED
  BY <1>1, <1>2

LEMMA AlwaysInv == Spec => []Inv
<1>1. Inv /\ [Next]_vars => Inv'
  BY StepKeeps DEF Kept
<1> QED
  BY <1>1, InitIsInv, PTL DEF Spec

(* A Read that is blocked in read_block has its semaphore cleared already,  *)
(* or the time-out running whose end (Timer) clears it, unless it claimed   *)
(* the semaphore after the interrupt or the Timer had cleared it.           *)
THEOREM BlockedHasWakerAlways == Spec => []BlockedHasWaker
<1>1. Inv => BlockedHasWaker
  BY DEF Inv, WakeInv, Waker, BlockedHasWaker
<1> QED
  BY <1>1, AlwaysInv, PTL

(* The bytes Read counts in IOcount are the next of the stream, each once   *)
(* and in their order, whoever took them from the UART: the receive         *)
(* interrupt, ReadFIFO at the start of the Read or ReadFIFO at a time-out.  *)
THEOREM ReadsHandOutStream == Spec => HandsOutStream
<1> DEFINE A == Returned /\ ~h'.torn =>
                  \A i \in 0 .. h'.result - 1 :
                    LET before == IF i = 0 THEN h.from ELSE mem[i - 1]
                    IN  mem[i] > before /\ before + 1 .. mem[i] - 1 \subseteq Stripped
<1>1. Inv /\ [Next]_vars => [A]_vars
  BY StepKeeps DEF Kept, Returned, GoodResult
<1>2. Inv /\ [Next]_vars => Inv'
  BY StepKeeps DEF Kept
<1> QED
  BY <1>1, <1>2, AlwaysInv, PTL DEF Spec, HandsOutStream

-----------------------------------------------------------------------------
(* The silence.  n is the number of ticks, at most Start, since a byte was  *)
(* taken from the UART: until the read_com that ends the wait, the timer of *)
(* a Read that is about to wait or waits has not run for longer, and one    *)
(* that has run out has seen a whole time-out without a byte.               *)
Silent(r, s, n) ==
  /\ r.pc = "claim" => n = Start \/ (s.timer > 0 /\ n + s.timer >= Start)
  /\ r.pc = "blocked" => \/ s.flushed \/ n = Start
                         \/ ~s.clear /\ s.timer > 0 /\ n + s.timer >= Start
  /\ r.pc = "reread" => n = Start
  /\ /\ r.pc \in {"store", "test", "take"} /\ r.back = "timeout" /\ ~r.some
     /\ r.pc = "store" => r.byte \in Stripped
     => n = Start

(* DEV_FLAG1_EVENT_RCV_BYTE is set from the first byte of an interrupt on,  *)
(* and reset where the wait is set up.                                      *)
SilenceInv ==
  /\ h.quiet \in 0 .. Start
  /\ isr => d.event
  /\ req.pc = "fifo" => req.back = "start"
  /\ d.mode = "norm" => /\ req.pc \notin {"noWait", "short"}
                        /\ ~d.event => Silent(req, d, h.quiet)

ShortOnlyAfterSilence ==
  Returned /\ d.mode = "norm" /\ h'.how \in {"timeout", "some", "short"} => h.quiet = Start

KeepsSilence == SilenceInv' /\ ShortOnlyAfterSilence

LEMMA GoesSilent ==
  ASSUME Inv, SilenceInv, NEW r \in Requests, NEW s \in Devices, Goes(r, s),
         ~isr, s.mode = d.mode, r.pc # "fifo",
         d.mode = "norm" => /\ r.pc \notin {"noWait", "short"}
                            /\ ~s.event => Silent(r, s, h.quiet)
  PROVE  KeepsSilence
<1>1. req' = r /\ d' = s /\ h' = h /\ isr' = isr
  BY DEF Goes
<1> QED
  BY <1>1 DEF KeepsSilence, ShortOnlyAfterSilence, Returned, SilenceInv

LEMMA ExitSilent ==
  ASSUME Inv, SilenceInv, NEW n, NEW how, NEW rest, NEW s \in Devices,
         ReadExit(n, how, rest, s), ~isr, s.mode = d.mode,
         d.mode = "norm" /\ how \in {"timeout", "some", "short"} => h.quiet = Start
  PROVE  KeepsSilence
<1>1. PICK p \in {"idle", "ready"} : req' = [Idle EXCEPT !.pc = p]
  BY DEF ReadExit
<1>2. req'.pc \in {"idle", "ready"}
  BY <1>1 DEF Idle
<1>3. h'.quiet = 0 /\ h'.how = how /\ isr' = isr
  BY DEF ReadExit, Inv, WakeInv, Shape
<1>4. d'.mode = d.mode
  BY DEF ReadExit, Devices
<1>5. Silent(req, d, h.quiet)'
  BY <1>2 DEF Silent
<1>6. Start \in Nat
  BY ReadAssumption
<1> QED
  BY <1>2, <1>3, <1>4, <1>5, <1>6 DEF KeepsSilence, ShortOnlyAfterSilence, SilenceInv

LEMMA DoReadSilent ==
  ASSUME Inv, SilenceInv, NEW n, DoRead(n, d), ~isr
  PROVE  KeepsSilence
<1>1. PICK p \in {"fifo", "verify"} :
        req' = [Idle EXCEPT !.pc = p, !.size = n, !.left = n]
  BY DEF DoRead
<1>2. req'.pc \in {"fifo", "verify"} /\ req'.back = "start"
  BY <1>1 DEF Idle
<1>3. h'.quiet = 0 /\ h'.turn = h.turn /\ isr' = isr
  BY DEF DoRead, Inv, WakeInv, Shape
<1>4. Silent(req, d, h.quiet)'
  BY <1>2 DEF Silent
<1>5. Start \in Nat
  BY ReadAssumption
<1> QED
  BY <1>2, <1>3, <1>4, <1>5 DEF KeepsSilence, ShortOnlyAfterSilence, Returned, SilenceInv

LEMMA FetchSilent ==
  ASSUME Inv, SilenceInv, NEW r \in Requests, Fetch(r), ~isr, r.pc = req.pc,
         req.pc \in {"normal", "reread", "noWait"}
  PROVE  KeepsSilence
<1>1. PICK p : /\ req' = [r EXCEPT !.left = @ - 1, !.di = @ + 1, !.pc = p]
               /\ p \in {"full", r.pc}
  BY DEF Fetch, Requests
<1>2. req'.pc \in {"full", req.pc}
  BY <1>1 DEF Requests
<1>3. h' = h /\ d' = d /\ isr' = isr
  BY DEF Fetch
<1>4. Silent(req, d, h.quiet) => Silent(req, d, h.quiet)'
  BY <1>2, <1>3 DEF Silent
<1> QED
  BY <1>2, <1>3, <1>4 DEF KeepsSilence, ShortOnlyAfterSilence, Returned, SilenceInv

LEMMA TakesByteSilent ==
  ASSUME Inv, SilenceInv, NEW r \in Requests, TakesByte(r), ~isr,
         d.mode = "norm" /\ ~d.event /\ r.back = "timeout" /\ ~r.some => h.quiet = Start
  PROVE  KeepsSilence
<1> DEFINE b == IF uart = <<>> THEN sent ELSE Head(uart)
<1>1. /\ req' = [r EXCEPT !.pc = "store", !.byte = b] /\ d' = d /\ isr' = isr
      /\ h' = [h EXCEPT !.quiet = IF b \in Stripped THEN @ ELSE 0]
  BY DEF TakesByte
<1> HIDE DEF b
<1>2. req'.pc = "store" /\ req'.byte = b /\ req'.back = r.back /\ req'.some = r.some
  BY <1>1 DEF Requests
<1>3. h'.turn = h.turn /\ h'.quiet = IF b \in Stripped THEN h.quiet ELSE 0
  BY <1>1 DEF Inv, WakeInv, Shape
<1>4. Start \in Nat
  BY ReadAssumption
<1>5. d.mode = "norm" /\ ~d.event => Silent(req, d, h.quiet)'
  BY <1>2, <1>3 DEF Silent
<1> QED
  BY <1>1, <1>2, <1>3, <1>4, <1>5
  DEF KeepsSilence, ShortOnlyAfterSilence, Returned, SilenceInv

LEMMA FifoSilent ==
  ASSUME Inv, SilenceInv, ReadFIFO, ~isr
  PROVE  KeepsSilence
<1>1. CASE FifoFirst
  <2> DEFINE r == [req EXCEPT !.pc = "verify"]
  <2>1. r \in Requests /\ r.pc = "verify"
    BY Fields DEF Requests, Pcs
  <2>2. req.pc = "fifo" /\ (Goes(r, d) \/ TakesByte(req)) /\ req.back = "start"
    BY <1>1 DEF FifoFirst, SilenceInv
  <2> HIDE DEF r
  <2>3. Silent(r, d, h.quiet)
    BY <2>1 DEF Silent
  <2> QED
    BY <2>1, <2>2, <2>3, Fields, GoesSilent, TakesByteSilent
<1>2. CASE FifoStore
  <2>1. CASE req.byte \in Stripped
    <3> DEFINE r == [req EXCEPT !.pc = "test"]
    <3>1. r \in Requests /\ r.pc = "test" /\ r.back = req.back /\ r.some = req.some
      BY Fields DEF Requests, Pcs
    <3>2. Goes(r, d) /\ req.pc = "store"
      BY <1>2, <2>1 DEF FifoStore
    <3> HIDE DEF r
    <3>3. Silent(req, d, h.quiet) => Silent(r, d, h.quiet)
      BY <2>1, <3>1, <3>2 DEF Silent
    <3>4. d.mode = "norm" /\ ~d.event => Silent(req, d, h.quiet)
      BY DEF SilenceInv
    <3> QED
      BY <3>1, <3>2, <3>3, <3>4, Fields, GoesSilent
  <2>2. CASE req.byte \notin Stripped
    <3>1. PICK c : /\ req' = [req EXCEPT !.pc = "test", !.some = TRUE]
                   /\ d' = [d EXCEPT !.count = c]
      BY <1>2, <2>2 DEF FifoStore
    <3>2. req'.pc = "test" /\ req'.some = TRUE
      BY <3>1, Fields DEF Requests
    <3>3. d'.mode = d.mode /\ d'.event = d.event
      BY <3>1, Fields DEF Devices
    <3>4. h'.quiet = h.quiet /\ h'.turn = h.turn /\ isr' = isr
      BY <1>2, <2>2 DEF FifoStore, Inv, WakeInv, Shape
    <3>5. Silent(req, d, h.quiet)'
      BY <3>2 DEF Silent
    <3> QED
      BY <3>2, <3>3, <3>4, <3>5 DEF KeepsSilence, ShortOnlyAfterSilence, Returned, SilenceInv
  <2> QED
    BY <2>1, <2>2
<1>3. CASE FifoTest
  <2> DEFINE s == [d EXCEPT !.event = @ \/ req.some]
             t == [req EXCEPT !.pc = "take"]
             v == [req EXCEPT !.pc = "verify"]
             w == [req EXCEPT !.pc = "verify", !.off = @ + req.store]
             b == [req EXCEPT !.pc = "setUp"]
  <2>1. s \in Devices /\ s.mode = d.mode /\ req.pc = "test" /\ req.back \in {"start", "timeout"}
    BY <1>3, Fields DEF FifoTest, Devices, Requests
  <2>2. t \in Requests /\ t.pc = "take" /\ t.back = req.back /\ t.some = req.some
    BY Fields DEF Requests, Pcs
  <2>3. v \in Requests /\ v.pc = "verify"
    BY Fields DEF Requests, Pcs
  <2>4. w \in Requests /\ w.pc = "verify"
    <3>1. "verify" \in Pcs
      BY DEF Pcs
    <3> QED
      BY <3>1, Fields DEF Requests
  <2>5. b \in Requests /\ b.pc = "setUp"
    BY Fields DEF Requests, Pcs
  <2>6. \/ Goes(t, d) \/ Goes(v, s) \/ Goes(w, s) \/ Goes(b, d)
        \/ /\ Return("timeout", d) /\ ~d.event /\ req.back # "start" /\ ~req.some
    BY <1>3 DEF FifoTest, AfterTimeout
  <2> HIDE DEF s, t, v, w, b
  <2>7. d.mode = "norm" /\ ~d.event => Silent(req, d, h.quiet)
    BY DEF SilenceInv
  <2>8. CASE Goes(t, d)
    <3>1. Silent(req, d, h.quiet) => Silent(t, d, h.quiet)
      BY <2>1, <2>2 DEF Silent
    <3> QED
      BY <2>2, <2>7, <2>8, <3>1, Fields, GoesSilent
  <2>9. CASE Goes(v, s)
    <3>1. Silent(v, s, h.quiet)
      BY <2>3 DEF Silent
    <3> QED
      BY <2>1, <2>3, <2>9, <3>1, GoesSilent
  <2>10. CASE Goes(w, s)
    <3>1. Silent(w, s, h.quiet)
      BY <2>4 DEF Silent
    <3> QED
      BY <2>1, <2>4, <2>10, <3>1, GoesSilent
  <2>11. CASE Goes(b, d)
    <3>1. Silent(b, d, h.quiet)
      BY <2>5 DEF Silent
    <3> QED
      BY <2>5, <2>11, <3>1, Fields, GoesSilent
  <2>12. CASE Return("timeout", d) /\ ~d.event /\ req.back # "start" /\ ~req.some
    <3>1. d.mode = "norm" => h.quiet = Start
      BY <2>1, <2>7, <2>12 DEF Silent
    <3> QED
      BY <2>12, <3>1, Fields, ExitSilent DEF Return
  <2> QED
    BY <2>6, <2>8, <2>9, <2>10, <2>11, <2>12
<1>4. CASE FifoTake
  <2>1. TakesByte(req) /\ req.pc = "take"
    BY <1>4 DEF FifoTake
  <2>2. d.mode = "norm" /\ ~d.event /\ req.back = "timeout" /\ ~req.some => h.quiet = Start
    BY <2>1 DEF SilenceInv, Silent
  <2> QED
    BY <2>1, <2>2, Fields, TakesByteSilent
<1> QED
  BY <1>1, <1>2, <1>3, <1>4 DEF ReadFIFO

LEMMA ReadBlockSilent ==
  ASSUME Inv, SilenceInv, ReadBlock, ~isr
  PROVE  KeepsSilence
<1> DEFINE r == [req EXCEPT !.pc = "blocked", !.off = @ + req.store]
           s == [d EXCEPT !.count = req.left, !.event = FALSE, !.timedOut = FALSE,
                          !.timer = Start, !.clear = FALSE]
<1>1. "blocked" \in Pcs /\ Start \in Nat /\ Start > 0
  BY ReadAssumption DEF Pcs
<1>2. r \in Requests /\ r.pc = "blocked"
  BY <1>1, Fields DEF Requests
<1>3. s \in Devices
  BY <1>1, Fields DEF Devices
<1>4. s.mode = d.mode /\ s.timer = Start /\ s.clear = FALSE
  BY Fields DEF Devices
<1>5. Goes(r, s)
  BY DEF ReadBlock
<1> HIDE DEF r, s
<1>6. Silent(r, s, h.quiet)
  <2>1. h.quiet \in 0 .. Start
    BY DEF SilenceInv
  <2> QED
    BY <1>1, <1>2, <1>4, <2>1 DEF Silent
<1> QED
  BY <1>2, <1>3, <1>4, <1>5, <1>6, GoesSilent

LEMMA VerifySilent ==
  ASSUME Inv, SilenceInv, Verify, ~isr
  PROVE  KeepsSilence
<1> DEFINE r == [[req EXCEPT !.di = req.off] EXCEPT !.pc = "normal", !.store = 0]
           v == [[req EXCEPT !.di = req.off] EXCEPT !.pc = "noWait"]
<1>1. r \in Requests /\ r.pc = "normal"
  <2>1. "normal" \in Pcs /\ req.off \in Int /\ 0 \in Int
    BY Fields DEF Pcs
  <2> QED
    BY <2>1, Fields DEF Requests
<1>2. v \in Requests /\ v.pc = "noWait"
  BY Fields DEF Requests, Pcs
<1>3. ReadExit(0, "error", waiting, d) \/ Goes(r, d) \/ (d.mode # "norm" /\ Goes(v, d))
  BY DEF Verify
<1> HIDE DEF r, v
<1>4. Silent(r, d, h.quiet)
  BY <1>1 DEF Silent
<1> QED
  BY <1>1, <1>2, <1>3, <1>4, Fields, ExitSilent, GoesSilent

LEMMA LoopsSilent ==
  ASSUME Inv, SilenceInv, NoWaitLoop \/ NormalLoop \/ RereadLoop, ~isr
  PROVE  KeepsSilence
<1> DEFINE r == [req EXCEPT !.store = @ + 1]
           v == [req EXCEPT !.pc = "short"]
           t == [req EXCEPT !.back = "timeout", !.some = FALSE]
<1>1. r \in Requests /\ r.pc = req.pc
  BY Fields DEF Requests
<1>2. v \in Requests /\ v.pc = "short"
  BY Fields DEF Requests, Pcs
<1>3. t \in Requests
  BY Fields DEF Requests
<1>4. CASE NoWaitLoop
  <2>1. req.pc = "noWait" /\ (Goes(v, d) \/ Fetch(req)) /\ d.mode # "norm"
    BY <1>4 DEF NoWaitLoop, SilenceInv
  <2> HIDE DEF v
  <2> QED
    BY <1>2, <2>1, Fields, GoesSilent, FetchSilent
<1>5. CASE NormalLoop
  <2>1. req.pc = "normal" /\ (ReadBlock \/ Fetch(r))
    BY <1>5 DEF NormalLoop
  <2> HIDE DEF r
  <2> QED
    BY <1>1, <2>1, FetchSilent, ReadBlockSilent
<1>6. CASE RereadLoop
  <2>1. /\ req.pc = "reread"
        /\ \/ Fetch(r) \/ ReadBlock \/ TakesByte(t)
           \/ d.mode = "something" /\ Return("some", d)
           \/ ~d.event /\ Return("timeout", d)
    BY <1>6 DEF RereadLoop, ReadTimedOut, AfterTimeout
  <2>2. d.mode = "norm" /\ ~d.event => h.quiet = Start
    BY <2>1 DEF SilenceInv, Silent
  <2>3. CASE Return("some", d) /\ d.mode = "something"
    BY <2>3, Fields, ExitSilent DEF Return
  <2>4. CASE ~d.event /\ Return("timeout", d)
    BY <2>2, <2>4, Fields, ExitSilent DEF Return
  <2> HIDE DEF r, t
  <2> QED
    BY <1>1, <1>3, <2>1, <2>2, <2>3, <2>4, FetchSilent, ReadBlockSilent, TakesByteSilent
<1> QED
  BY <1>4, <1>5, <1>6

LEMMA BlockSilent ==
  ASSUME Inv, SilenceInv, BlockSetUp \/ BlockClear \/ BlockArm \/ BlockClaim, ~isr
  PROVE  KeepsSilence
<1>1. Start \in Nat /\ Start > 0 /\ h.quiet \in 0 .. Start
  BY ReadAssumption DEF SilenceInv
<1>2. CASE BlockSetUp
  <2> DEFINE r == [req EXCEPT !.pc = "clear", !.off = @ + req.store]
             s == [d EXCEPT !.count = req.left]
  <2>1. "clear" \in Pcs
    BY DEF Pcs
  <2>2. r \in Requests /\ r.pc = "clear"
    BY <2>1, Fields DEF Requests
  <2>3. s \in Devices /\ s.mode = d.mode
    BY Fields DEF Devices
  <2>4. Goes(r, s)
    BY <1>2 DEF BlockSetUp
  <2> HIDE DEF r, s
  <2>5. Silent(r, s, h.quiet)
    BY <2>2 DEF Silent
  <2> QED
    BY <2>2, <2>3, <2>4, <2>5, GoesSilent
<1>3. CASE BlockClear
  <2> DEFINE r == [req EXCEPT !.pc = "arm"]
             s == [d EXCEPT !.event = FALSE, !.timedOut = FALSE]
  <2>1. r \in Requests /\ r.pc = "arm"
    BY Fields DEF Requests, Pcs
  <2>2. s \in Devices /\ s.mode = d.mode
    BY Fields DEF Devices
  <2>3. Goes(r, s)
    BY <1>3 DEF BlockClear
  <2> HIDE DEF r, s
  <2>4. Silent(r, s, h.quiet)
    BY <2>1 DEF Silent
  <2> QED
    BY <2>1, <2>2, <2>3, <2>4, GoesSilent
<1>4. CASE BlockArm
  <2> DEFINE r == [req EXCEPT !.pc = "claim"]
             s == [d EXCEPT !.timer = Start]
  <2>1. r \in Requests /\ r.pc = "claim"
    BY Fields DEF Requests, Pcs
  <2>2. s \in Devices /\ s.mode = d.mode /\ s.timer = Start
    BY <1>1, Fields DEF Devices
  <2>3. Goes(r, s)
    BY <1>4 DEF BlockArm
  <2> HIDE DEF r, s
  <2>4. Silent(r, s, h.quiet)
    BY <1>1, <2>1, <2>2 DEF Silent
  <2> QED
    BY <2>1, <2>2, <2>3, <2>4, GoesSilent
<1>5. CASE BlockClaim
  <2>1. /\ req.pc = "claim" /\ req' = [req EXCEPT !.pc = "blocked"]
        /\ d' = [d EXCEPT !.clear = FALSE] /\ h' = [h EXCEPT !.missed = d.clear]
        /\ isr' = isr
    BY <1>5 DEF BlockClaim
  <2>2. req'.pc = "blocked"
    BY <2>1, Fields DEF Requests
  <2>3. d'.mode = d.mode /\ d'.event = d.event /\ d'.timer = d.timer /\ d'.clear = FALSE
    BY <2>1, Fields DEF Devices
  <2>4. h'.quiet = h.quiet /\ h'.turn = h.turn
    BY <2>1 DEF Inv, WakeInv, Shape
  <2>5. Silent(req, d, h.quiet) => Silent(req, d, h.quiet)'
    BY <2>1, <2>2, <2>3, <2>4 DEF Silent
  <2> QED
    BY <2>1, <2>2, <2>3, <2>4, <2>5
    DEF KeepsSilence, ShortOnlyAfterSilence, Returned, SilenceInv
<1> QED
  BY <1>2, <1>3, <1>4, <1>5

LEMMA WakeSilent ==
  ASSUME Inv, SilenceInv, Wake, ~isr
  PROVE  KeepsSilence
<1> DEFINE s == [d EXCEPT !.clear = FALSE, !.last = FALSE]
           r == [req EXCEPT !.pc = "reread", !.store = 0, !.di = req.off]
<1>1. s \in Devices /\ s.mode = d.mode /\ s.event = d.event
  BY Fields DEF Devices
<1>2. r \in Requests /\ r.pc = "reread"
  <2>1. "reread" \in Pcs /\ req.off \in Int /\ 0 \in Int
    BY Fields DEF Pcs
  <2> QED
    BY <2>1, Fields DEF Requests
<1>3. /\ req.pc = "blocked" /\ d.clear
      /\ Return("flush", s) \/ Return("error", s) \/ (~d.flushed /\ Goes(r, s))
  BY DEF Wake
<1> HIDE DEF s, r
<1>4. CASE Return("flush", s) \/ Return("error", s)
  BY <1>1, <1>4, ExitSilent DEF Return
<1>5. CASE ~d.flushed /\ Goes(r, s)
  <2>1. d.mode = "norm" /\ ~s.event => h.quiet = Start
    BY <1>1, <1>3, <1>5 DEF SilenceInv, Silent
  <2>2. d.mode = "norm" /\ ~s.event => Silent(r, s, h.quiet)
    BY <1>2, <2>1 DEF Silent
  <2> QED
    BY <1>1, <1>2, <1>5, <2>2, GoesSilent
<1> QED
  BY <1>3, <1>4, <1>5

LEMMA ReadStepSilent ==
  ASSUME Inv, SilenceInv, ReadStep \/ Interrupted
  PROVE  KeepsSilence
<1>0. ~isr
  BY DEF ReadStep, Interrupted
<1>1. CASE ReadReturn
  <2>1. Return(req.pc, d) /\ (req.pc = "full" \/ (req.pc = "short" /\ d.mode # "norm"))
    BY <1>1 DEF ReadReturn, SilenceInv
  <2> QED
    BY <1>0, <2>1, Fields, ExitSilent DEF Return
<1>2. CASE Interrupted
  BY <1>0, <1>2, Fields, ExitSilent DEF Interrupted, Return
<1>3. CASE PullPacket
  BY <1>0, <1>3, Fields, ExitSilent, DoReadSilent DEF PullPacket
<1> QED
  BY <1>0, <1>1, <1>2, <1>3, FifoSilent, VerifySilent, LoopsSilent, BlockSilent, WakeSilent
  DEF ReadStep

LEMMA RequestSilent ==
  ASSUME Inv, SilenceInv, Request
  PROVE  KeepsSilence
<1>0. ~isr /\ req.pc \in {"idle", "ready", "blocked"}
  BY DEF Request
<1>1. CASE \E n \in Sizes : Begin(n)
  BY <1>0, <1>1, DoReadSilent DEF Begin
<1>2. CASE (\E n \in Sizes : QueuePacket(n)) \/ InputFlush
  <2>1. UNCHANGED <<isr, req>> /\ h'.quiet = h.quiet /\ h'.turn = h.turn
    BY <1>2 DEF QueuePacket, InputFlush, Inv, WakeInv, Shape
  <2>2. /\ d'.mode = d.mode /\ d'.event = d.event
        /\ \/ /\ d'.flushed = d.flushed /\ d'.clear = d.clear
              /\ d'.timer = d.timer \/ d.timer = 0
           \/ d'.flushed = TRUE
           \/ ~d.busy
    <3>1. CASE \E n \in Sizes : QueuePacket(n)
      <4>1. PICK n \in Sizes : QueuePacket(n)
        BY <3>1
      <4>2. d' = [d EXCEPT !.timer = IF d.timer = 0 THEN Start ELSE d.timer]
        BY <4>1, Fields DEF QueuePacket, Devices
      <4> QED
        BY <4>2, Fields DEF Devices
    <3>2. CASE InputFlush
      <4>1. \/ d' = [[d EXCEPT !.count = 0, !.last = TRUE]
                       EXCEPT !.flushed = TRUE, !.timedOut = TRUE, !.timer = 0, !.clear = TRUE]
            \/ ~d.busy /\ d' = [d EXCEPT !.count = 0, !.last = TRUE]
        BY <3>2 DEF InputFlush
      <4> QED
        BY <4>1, Fields DEF Devices
    <3> QED
      BY <1>2, <3>1, <3>2
  <2>3. Silent(req, d, h.quiet) => Silent(req, d, h.quiet)'
    BY <1>0, <2>1, <2>2, Fields DEF Silent
  <2> QED
    BY <2>1, <2>2, <2>3 DEF KeepsSilence, ShortOnlyAfterSilence, Returned, SilenceInv
<1> QED
  BY <1>1, <1>2 DEF Request

LEMMA GetByteSilent ==
  ASSUME Inv, SilenceInv, NEW s \in Devices, GetByte(s), s.mode = d.mode, s.event = TRUE
  PROVE  KeepsSilence
<1>1. isr' = TRUE /\ req' = req /\ h'.turn = h.turn /\ h'.quiet \in {h.quiet, 0}
  BY DEF GetByte, Inv, WakeInv, Shape
<1>2. d'.mode = d.mode /\ d'.event = TRUE
  <2>1. CASE d' = s
    BY <2>1
  <2>2. CASE d' # s
    <3>1. PICK c, l : d' = [s EXCEPT !.count = c, !.last = l]
      BY <2>2 DEF GetByte
    <3> QED
      BY <3>1 DEF Devices
  <2> QED
    BY <2>1, <2>2
<1>3. Start \in Nat
  BY ReadAssumption
<1> QED
  BY <1>1, <1>2, <1>3 DEF KeepsSilence, ShortOnlyAfterSilence, Returned, SilenceInv

LEMMA TimerSilent ==
  ASSUME Inv, SilenceInv, Timer
  PROVE  KeepsSilence
<1>1. Start \in Nat /\ Start > 0 /\ h.quiet \in 0 .. Start /\ d.timer \in Nat /\ d.timer > 0
  BY ReadAssumption, Fields DEF Devices, SilenceInv, Timer
<1>2. /\ UNCHANGED <<req, isr>> /\ h'.turn = h.turn
      /\ h'.quiet = IF d.mode = "norm" /\ req.pc \notin {"idle", "ready"}
                      THEN Lesser(h.quiet + 1, Start) ELSE h.quiet
  BY DEF Timer, Inv, WakeInv, Shape
<1>3. h'.quiet \in 0 .. Start /\ h'.quiet >= h.quiet
  BY <1>1, <1>2 DEF Lesser
<1>4. /\ d'.mode = d.mode /\ d'.event = d.event /\ d'.flushed = d.flushed
      /\ \/ d.timer = 1
         \/ d'.clear = d.clear /\ d'.timer = d.timer - 1 /\ d'.timer > 0
  <2>1. CASE d.timer = 1
    <3>1. d' = [d EXCEPT !.timer = 0, !.timedOut = TRUE, !.clear = TRUE]
      BY <2>1 DEF Timer
    <3> QED
      BY <2>1, <3>1, Fields DEF Devices
  <2>2. CASE d.timer # 1
    <3>1. d' = [d EXCEPT !.timer = d.timer - 1] /\ d.timer - 1 > 0
      BY <1>1, <2>2, Fields DEF Timer, Devices
    <3>2. d'.clear = d.clear /\ d'.timer = d.timer - 1
      BY <3>1, Fields DEF Devices
    <3>3. d'.mode = d.mode /\ d'.event = d.event /\ d'.flushed = d.flushed
      BY <3>1, Fields DEF Devices
    <3> QED
      BY <3>1, <3>2, <3>3
  <2> QED
    BY <2>1, <2>2
<1>5. ASSUME d.mode = "norm", Silent(req, d, h.quiet)
      PROVE  Silent(req, d, h.quiet)'
  <2>1. ASSUME req.pc \in {"claim", "blocked"}, h.quiet + d.timer >= Start
        PROVE  \/ h'.quiet = Start
               \/ d'.clear = d.clear /\ d'.timer > 0 /\ h'.quiet + d'.timer >= Start
    <3>1. h'.quiet = Lesser(h.quiet + 1, Start)
      BY <1>2, <1>5, <2>1
    <3>2. h'.quiet = Start \/ h'.quiet = h.quiet + 1
      BY <3>1 DEF Lesser
    <3>3. d.timer = 1 => h'.quiet = Start
      BY <1>1, <2>1, <3>1 DEF Lesser
    <3> QED
      BY <1>1, <1>4, <2>1, <3>2, <3>3
  <2>2. h.quiet = Start => h'.quiet = Start
    BY <1>1, <1>3
  <2>3. req' = req
    BY <1>2
  <2> HIDE <1>2
  <2> QED
    BY <1>4, <1>5, <2>1, <2>2, <2>3 DEF Silent
<1> QED
  BY <1>2, <1>3, <1>4, <1>5 DEF KeepsSilence, ShortOnlyAfterSilence, Returned, SilenceInv

LEMMA StepSilent ==
  ASSUME Inv, SilenceInv, [Next]_vars
  PROVE  SilenceInv' /\ (ShortOnlyAfterSilence \/ UNCHANGED vars)
<1>1. CASE read_com
  <2> DEFINE s == [d EXCEPT !.event = TRUE, !.last = @ \/ d.mode = "something"]
  <2>1. s \in Devices /\ s.mode = d.mode /\ s.event = TRUE
    BY Fields DEF Devices
  <2>2. GetByte(s)
    BY <1>1 DEF read_com
  <2> HIDE DEF s
  <2> QED
    BY <2>1, <2>2, GetByteSilent DEF KeepsSilence
<1>2. CASE read_loop
  <2>1. GetByte(d) /\ d.event = TRUE
    BY <1>2, Fields DEF read_loop, SilenceInv, Devices
  <2> QED
    BY <2>1, Fields, GetByteSilent DEF KeepsSilence
<1>3. CASE clear_rd_sem
  <2>1. d.event /\ isr' = FALSE /\ UNCHANGED <<req, h>>
    BY <1>3 DEF clear_rd_sem, SilenceInv
  <2>2. \/ d' = d \/ d' = [d EXCEPT !.timer = 0, !.clear = TRUE]
        \/ d' = [d EXCEPT !.timer = Start]
    BY <1>3 DEF clear_rd_sem
  <2>3. d'.mode = d.mode /\ d'.event = d.event
    BY <2>2, Fields DEF Devices
  <2> QED
    BY <2>1, <2>3 DEF ShortOnlyAfterSilence, Returned, SilenceInv
<1>4. CASE Arrive
  BY <1>4 DEF Arrive, ShortOnlyAfterSilence, Returned, SilenceInv, Silent
<1>5. CASE UNCHANGED vars
  BY <1>5 DEF vars, SilenceInv, Silent
<1> QED
  BY <1>1, <1>2, <1>3, <1>4, <1>5, ReadStepSilent, RequestSilent, TimerSilent
  DEF Next, Receive, KeepsSilence

(* However a Read with normal time-outs came to wait (from the queue, from  *)
(* a time-out that found bytes, from one the interrupt had overtaken), it   *)
(* returns with less than it was asked for, and unharmed by a flush or an   *)
(* error, only when a whole time-out has gone by without a byte: none of    *)
(* its timers was left from an earlier wait or another request.             *)
THEOREM ReadsWaitTheirTime == Spec => ShortAfterSilence
<1>1. Init => SilenceInv
  <2>1. Start \in Nat
    BY ReadAssumption
  <2> QED
    BY <2>1 DEF Init, Idle, SilenceInv, Silent
<1>2. Inv /\ SilenceInv /\ [Next]_vars => SilenceInv' /\ [ShortOnlyAfterSilence]_vars
  BY StepSilent
<1>3. ShortAfterSilence <=> [][ShortOnlyAfterSilence]_vars
  BY DEF ShortAfterSilence, ShortOnlyAfterSilence
<1> QED
  BY <1>1, <1>2, <1>3, AlwaysInv, PTL DEF Spec
=============================================================================
