--------------------------- MODULE ConnectProofs ---------------------------
(***************************************************************************)
(* What holds of the paging connection for every list of the server, every *)
(* set of active numbers and any number of messages under way.             *)
(***************************************************************************)
EXTENDS Connect, TLAPS

(* What a message holds beyond its kind and number is of no matter here, so *)
(* a queue is a sequence over whatever set.                                 *)
IsSeq(s) == \E S : s \in Seq(S)

Requests == {"LOGON", "NOTIFY", "QUERY_SUBSCRIBER", "QUERY_GROUP", "QUERY_SERVER"}

Asks(m) == [num |-> m.num, kind |-> m.kind]

(* A queue that grows at its end.                                           *)
LEMMA Appended ==
  ASSUME NEW s, IsSeq(s), NEW e
  PROVE  /\ IsSeq(Append(s, e))
         /\ ToSet(Append(s, e)) = ToSet(s) \cup {e}
<1>1. PICK S : s \in Seq(S)
  BY DEF IsSeq
<1>2. s \in Seq(S \cup {e}) /\ e \in S \cup {e}
  BY <1>1
<1>3. Append(s, e) \in Seq(S \cup {e})
  BY <1>2
<1>4. /\ DOMAIN Append(s, e) = 1 .. Len(s) + 1 /\ Len(s) \in Nat /\ DOMAIN s = 1 .. Len(s)
      /\ \A i \in 1 .. Len(s) + 1 : Append(s, e)[i] = IF i <= Len(s) THEN s[i] ELSE e
  BY <1>2
<1>5. ToSet(Append(s, e)) \subseteq ToSet(s) \cup {e}
  BY <1>4 DEF ToSet
<1>6. ToSet(s) \subseteq ToSet(Append(s, e))
  BY <1>4 DEF ToSet
<1>7. e \in ToSet(Append(s, e))
  <2>1. Len(s) + 1 \in 1 .. Len(s) + 1 /\ ~(Len(s) + 1 <= Len(s))
    BY <1>4
  <2>2. QED
    BY <1>4, <2>1 DEF ToSet
<1>8. QED
  BY <1>3, <1>5, <1>6, <1>7 DEF IsSeq

(* A queue that is served at its head.                                      *)
LEMMA Served ==
  ASSUME NEW s, IsSeq(s), s # <<>>
  PROVE  /\ IsSeq(Tail(s))
         /\ ToSet(Tail(s)) \subseteq ToSet(s)
         /\ Head(s) \in ToSet(s)
<1>1. PICK S : s \in Seq(S)
  BY DEF IsSeq
<1>2. Tail(s) \in Seq(S)
  BY <1>1
<1>3. /\ Len(s) \in Nat /\ Len(s) >= 1 /\ DOMAIN s = 1 .. Len(s) /\ Head(s) = s[1]
      /\ DOMAIN Tail(s) = 1 .. Len(s) - 1
      /\ \A i \in 1 .. Len(s) - 1 : Tail(s)[i] = s[i + 1]
  BY <1>1
<1>4. QED
  BY <1>2, <1>3 DEF IsSeq, ToSet

(* A queue that grows by several.                                           *)
LEMMA Joined ==
  ASSUME NEW s, IsSeq(s), NEW t, IsSeq(t)
  PROVE  /\ IsSeq(s \o t)
         /\ ToSet(s \o t) = ToSet(s) \cup ToSet(t)
<1>1. PICK S : s \in Seq(S)
  BY DEF IsSeq
<1>2. PICK T : t \in Seq(T)
  BY DEF IsSeq
<1>3. s \in Seq(S \cup T) /\ t \in Seq(S \cup T)
  BY <1>1, <1>2
<1>4. s \o t \in Seq(S \cup T)
  BY <1>3
<1>5. /\ Len(s) \in Nat /\ DOMAIN s = 1 .. Len(s) /\ Len(t) \in Nat /\ DOMAIN t = 1 .. Len(t)
      /\ DOMAIN (s \o t) = 1 .. Len(s) + Len(t)
      /\ \A i \in 1 .. Len(s) + Len(t) : (s \o t)[i] = IF i <= Len(s) THEN s[i] ELSE t[i - Len(s)]
  BY <1>3
<1>6. ToSet(s \o t) \subseteq ToSet(s) \cup ToSet(t)
  BY <1>5 DEF ToSet
<1>7. ToSet(s) \subseteq ToSet(s \o t)
  BY <1>5 DEF ToSet
<1>8. ToSet(t) \subseteq ToSet(s \o t)
  <2> SUFFICES ASSUME NEW i \in 1 .. Len(t) PROVE t[i] \in ToSet(s \o t)
    BY <1>5 DEF ToSet
  <2>1. Len(s) + i \in 1 .. Len(s) + Len(t) /\ ~(Len(s) + i <= Len(s)) /\ (Len(s) + i) - Len(s) = i
    BY <1>5
  <2>2. (s \o t)[Len(s) + i] = t[i]
    BY <1>5, <2>1
  <2>3. QED
    BY <1>5, <2>1, <2>2 DEF ToSet
<1>9. QED
  BY <1>4, <1>6, <1>7, <1>8 DEF IsSeq

-----------------------------------------------------------------------------
(* The inductive invariant: the shape of the state, ListenerHasThread, and  *)
(* of every message that it belongs to something the client asked.          *)

Library == [thread : {"none", "born", "accepts", "strays"}, listens : BOOLEAN, held : BOOLEAN,
            stop : BOOLEAN, ready : BOOLEAN]
LibShape == lib \in [Sides -> Library]
Queues(q) == DOMAIN q = Sides /\ \A side \in Sides : IsSeq(q[side])
SentShape == DOMAIN sent = {"asked", "over"}
Shape == LibShape /\ Queues(net) /\ Queues(posted) /\ SentShape

Carried == ToSet(net["server"]) \cup ToSet(posted["server"])

(* Something the client asked.                                              *)
GoodRequest(m) ==
  /\ m.kind \in Requests
  /\ Asks(m) \in sent.asked
  /\ m.kind = "LOGON" => m.num = 0

(* An answer as AnswersMatch has it.                                        *)
GoodAnswer(m) ==
  \/ m.kind \in {"ACK_NOTIFY", "NAK_NOTIFY"} /\ m.num = 0
  \/ [num |-> m.num, kind |-> Question(m.kind)] \in sent.asked

RequestsAsked == \A m \in Carried : GoodRequest(m)

Inv == Shape /\ ListenerHasThread /\ RequestsAsked /\ AnswersMatch /\ saved.num = 0

(* A step that only adds good messages, and forgets nothing that was asked. *)
LEMMA Added ==
  ASSUME Inv, sent.asked \subseteq sent'.asked,
         Carried' \subseteq Carried \cup {m \in Carried' : GoodRequest(m)'},
         Answers' \subseteq Answers \cup {m \in Answers' : GoodAnswer(m)'}
  PROVE  RequestsAsked' /\ AnswersMatch'
<1>1. \A m \in Carried : GoodRequest(m)'
  BY DEF Inv, RequestsAsked, GoodRequest
<1>2. \A m \in Answers : GoodAnswer(m)'
  BY DEF Inv, AnswersMatch, GoodAnswer
<1>3. RequestsAsked'
  BY <1>1 DEF RequestsAsked
<1>4. AnswersMatch'
  BY <1>2 DEF AnswersMatch, GoodAnswer
<1>5. QED
  BY <1>3, <1>4

(* What Send does to the net, and what it keeps of the listeners.           *)
LEMMA Sending ==
  ASSUME Inv, NEW side \in Sides, NEW m, Send(side, m), UNCHANGED lib
  PROVE  /\ Queues(net') /\ LibShape' /\ ListenerHasThread'
         /\ \A s \in Sides : ToSet(net'[s]) \subseteq ToSet(net[s]) \cup {m}
         /\ \A s \in Sides : s # Other(side) => net'[s] = net[s]
<1>1. Other(side) \in Sides
  BY DEF Sides, Other
<1>2. CASE UNCHANGED net
  BY <1>2 DEF Inv, Shape, LibShape, Library, Queues, ListenerHasThread, Deserted
<1>3. CASE net' = [net EXCEPT ![Other(side)] = Append(@, m)] /\ lib[Other(side)].listens
  <2>1. Queues(net')
    BY <1>1, <1>3, Appended DEF Inv, Shape, Queues
  <2>2. ListenerHasThread'
    BY <1>1, <1>3 DEF Inv, Shape, Queues, ListenerHasThread, Deserted
  <2>3. \A s \in Sides : ToSet(net'[s]) \subseteq ToSet(net[s]) \cup {m}
    BY <1>1, <1>3, Appended DEF Inv, Shape, Queues
  <2>4. \A s \in Sides : s # Other(side) => net'[s] = net[s]
    BY <1>3 DEF Inv, Shape, Queues
  <2>5. QED
    BY <2>1, <2>2, <2>3, <2>4 DEF Inv, Shape, LibShape, Library
<1>4. QED
  BY <1>2, <1>3 DEF Send

(* A window that takes the next message its thread posted.                  *)
LEMMA Taking ==
  ASSUME Inv, NEW side \in Sides, posted[side] # <<>>, Taken(side)
  PROVE  /\ Queues(posted')
         /\ Head(posted[side]) \in ToSet(posted[side])
         /\ \A s \in Sides : ToSet(posted'[s]) \subseteq ToSet(posted[s])
<1>1. IsSeq(posted[side])
  BY DEF Inv, Shape, Queues
<1>2. IsSeq(Tail(posted[side])) /\ ToSet(Tail(posted[side])) \subseteq ToSet(posted[side])
      /\ Head(posted[side]) \in ToSet(posted[side])
  BY <1>1, Served
<1>3. QED
  BY <1>2 DEF Inv, Shape, Queues, Taken

-----------------------------------------------------------------------------
(* The server's window answers a request of the client, or takes it and     *)
(* sends nothing.                                                           *)
LEMMA ServerAnswers ==
  ASSUME Inv, NEW m, posted["server"] # <<>>, Taken("server"),
         Send("server", m) \/ UNCHANGED net, GoodAnswer(m),
         UNCHANGED <<lib, sent>>, saved'.num = 0
  PROVE  Inv'
<1>0. "server" \in Sides /\ "client" \in Sides /\ Other("server") = "client"
  BY DEF Sides, Other
<1>1. Queues(posted') /\ \A s \in Sides : ToSet(posted'[s]) \subseteq ToSet(posted[s])
  BY <1>0, Taking
<1>2. /\ Queues(net') /\ LibShape' /\ ListenerHasThread'
      /\ ToSet(net'["server"]) \subseteq ToSet(net["server"])
      /\ ToSet(net'["client"]) \subseteq ToSet(net["client"]) \cup {m}
  <2>1. CASE Send("server", m)
    BY <1>0, <2>1, Sending
  <2>2. CASE UNCHANGED net
    BY <1>0, <2>2 DEF Inv, Shape, LibShape, Library, Queues, ListenerHasThread, Deserted
  <2>3. QED
    BY <2>1, <2>2
<1>3. Carried' \subseteq Carried
  BY <1>0, <1>1, <1>2 DEF Carried
<1>4. Answers' \subseteq Answers \cup {m}
  BY <1>0, <1>1, <1>2 DEF Answers
<1>5. GoodAnswer(m)'
  BY DEF GoodAnswer
<1>6. RequestsAsked' /\ AnswersMatch'
  <2>1. Answers' \subseteq Answers \cup {x \in Answers' : GoodAnswer(x)'}
    BY <1>4, <1>5
  <2>2. QED
    BY <1>3, <2>1, Added
<1>7. QED
  BY <1>1, <1>2, <1>6 DEF Inv, Shape, SentShape

(* The request at the head of the server's queue.                           *)
LEMMA HeadAsked ==
  ASSUME Inv, posted["server"] # <<>>
  PROVE  GoodRequest(Req)
<1>1. "server" \in Sides /\ IsSeq(posted["server"])
  BY DEF Sides, Inv, Shape, Queues
<1>2. QED
  BY <1>1, Served DEF Inv, RequestsAsked, Carried, Req

(* The answers of the server are to what they answer.                       *)
LEMMA ProcessRequestInv ==
  ASSUME Inv, ProcessRequest
  PROVE  Inv'
<1>1. CASE ProcessNotify
  <2>1. posted["server"] # <<>> /\ Req.kind = "NOTIFY" /\ Taken("server")
    BY <1>1 DEF ProcessNotify, Opens, Req
  <2>2. /\ NotifyAnswer(Req).kind \in {"ACK_NOTIFY", "NAK_NOTIFY"}
        /\ NotifyAnswer(Req).num = Req.num
    BY DEF NotifyAnswer, Msg
  <2>3. GoodAnswer(NotifyAnswer(Req))
    BY <2>1, <2>2, HeadAsked DEF GoodAnswer, GoodRequest, Asks, Question
  <2>4. QED
    BY <1>1, <2>1, <2>3, ServerAnswers DEF ProcessNotify, Inv
<1>2. CASE ProcessLogon
  <2>1. posted["server"] # <<>> /\ Req.kind = "LOGON" /\ Taken("server") /\ Req.num = 0
    BY <1>2, HeadAsked DEF ProcessLogon, Opens, Req, GoodRequest
  <2>2. ASSUME NEW kind \in {"ACK_LOGON", "NAK_LOGON"}
        PROVE  GoodAnswer(Msg(kind, Req.num, <<>>, 0))
    BY <2>1, HeadAsked DEF GoodAnswer, GoodRequest, Asks, Question, Msg
  <2>3. saved'.num = 0
    BY <1>2, <2>1 DEF ProcessLogon, Inv
  <2>4. QED
    BY <1>2, <2>1, <2>2, <2>3, ServerAnswers DEF ProcessLogon
<1>3. ASSUME NEW l \in Lists, Req.kind = IF l = "sub" THEN "QUERY_SUBSCRIBER" ELSE "QUERY_GROUP",
             posted["server"] # <<>>
      PROVE  GoodAnswer(QueryAnswer(l, Req))
  <2>1. /\ QueryAnswer(l, Req).num = Req.num
        /\ QueryAnswer(l, Req).kind \in
             IF l = "sub" THEN {"NAK_SUBSCRIBER", "ACK_SUBSCRIBER"} ELSE {"NAK_GROUP", "ACK_GROUP"}
    BY DEF QueryAnswer, Msg
  <2>2. Question(QueryAnswer(l, Req).kind) = Req.kind
    BY <1>3, <2>1 DEF Question
  <2>3. QED
    BY <1>3, <2>1, <2>2, HeadAsked DEF GoodAnswer, GoodRequest, Asks
<1>4. CASE ProcessSubscriber
  BY <1>3, <1>4, ServerAnswers DEF ProcessSubscriber, Opens, Req, Lists, Inv
<1>5. CASE ProcessGroup
  BY <1>3, <1>5, ServerAnswers DEF ProcessGroup, Opens, Req, Lists, Inv
<1>6. CASE ProcessServerQuery
  <2> DEFINE a == [Msg("SERVER", Req.num, Activated("sub"), Len(Activated("sub")) + Len(Activated("group")))
                     EXCEPT !.list = @ \o Activated("group")]
  <2>1. posted["server"] # <<>> /\ Req.kind = "QUERY_SERVER" /\ Taken("server") /\ Send("server", a)
    BY <1>6 DEF ProcessServerQuery, Opens, Req
  <2>2. a.kind = "SERVER" /\ a.num = Req.num
    BY DEF Msg
  <2>3. Question("SERVER") = "QUERY_SERVER"
    BY DEF Question
  <2>4. GoodAnswer(a)
    BY <2>1, <2>2, <2>3, HeadAsked DEF GoodAnswer, GoodRequest, Asks
  <2>5. UNCHANGED <<lib, sent>> /\ saved'.num = 0
    BY <1>6 DEF ProcessServerQuery, Inv
  <2> HIDE DEF a
  <2>6. QED
    BY <2>1, <2>4, <2>5, ServerAnswers
<1>7. QED
  BY <1>1, <1>2, <1>4, <1>5, <1>6 DEF ProcessRequest

-----------------------------------------------------------------------------
(* The client sends what it has put among what it asked.                    *)
LEMMA ClientAsks ==
  ASSUME Inv, NEW m, Send("client", m), m.kind \in Requests, m.kind # "LOGON",
         sent'.asked = sent.asked \cup Asked({m}), SentShape',
         UNCHANGED <<lib, posted, saved>>
  PROVE  Inv'
<1>0. "server" \in Sides /\ "client" \in Sides /\ Other("client") = "server"
  BY DEF Sides, Other
<1>1. /\ Queues(net') /\ LibShape' /\ ListenerHasThread'
      /\ ToSet(net'["client"]) \subseteq ToSet(net["client"])
      /\ ToSet(net'["server"]) \subseteq ToSet(net["server"]) \cup {m}
  BY <1>0, Sending
<1>2. Carried' \subseteq Carried \cup {x \in Carried' : GoodRequest(x)'}
  <2>1. CASE UNCHANGED net
    BY <2>1 DEF Carried
  <2>2. CASE lib["server"].listens /\ lib["client"].ready
    <3>1. GoodRequest(m)'
      BY <2>2 DEF GoodRequest, Asked, Asks
    <3>2. QED
      BY <1>1, <3>1 DEF Carried
  <2>3. QED
    BY <1>0, <2>1, <2>2 DEF Send
<1>3. Answers' \subseteq Answers
  BY <1>1 DEF Answers
<1>4. RequestsAsked' /\ AnswersMatch'
  BY <1>2, <1>3, Added
<1>5. QED
  BY <1>1, <1>4 DEF Inv, Shape, Queues

(* Nothing of the invariant is in what the loop's thread does between two   *)
(* messages.                                                                *)
LEMMA Untouched ==
  ASSUME Inv, UNCHANGED <<lib, net, posted, saved>>, SentShape', sent.asked \subseteq sent'.asked
  PROVE  Inv'
<1>1. Carried' = Carried /\ Answers' = Answers
  BY DEF Carried, Answers
<1>2. RequestsAsked' /\ AnswersMatch'
  BY <1>1, Added
<1>3. QED
  BY <1>2 DEF Inv, Shape, LibShape, Library, Queues, ListenerHasThread, Deserted

LEMMA NumberedInv ==
  ASSUME Inv, NEW kind \in Requests \ {"LOGON"}, NEW list, Numbered(kind, list),
         UNCHANGED <<lib, posted, saved>>
  PROVE  Inv'
<1> DEFINE m == Msg(kind, next, list, Len(list))
<1>1. Send("client", m) /\ sent' = [sent EXCEPT !.asked = @ \cup Asked({m})]
  BY DEF Numbered
<1>2. m.kind = kind
  BY DEF Msg
<1> HIDE DEF m
<1>3. sent'.asked = sent.asked \cup Asked({m}) /\ SentShape'
  BY <1>1 DEF Inv, Shape, SentShape
<1>4. QED
  BY <1>1, <1>2, <1>3, ClientAsks

(* What the menus of both programs and the loop's thread do.                *)
LEMMA CommandsInv ==
  ASSUME Inv, AnswerByHand \/ Ask \/ LoopOpens \/ LoopSends \/ LoopTimesOut \/ LoopIsPosted \/ LoopCloses
  PROVE  Inv'
<1>1. CASE AnswerByHand
  <2>1. PICK m : /\ Send("server", m)
                 /\ m.kind \in {"ACK_NOTIFY", "NAK_NOTIFY"} /\ m.num = 0
    BY <1>1 DEF AnswerByHand, Msg, Inv
  <2>2. GoodAnswer(m)'
    BY <2>1 DEF GoodAnswer
  <2>3. UNCHANGED <<lib, posted, saved, sent>>
    BY <1>1 DEF AnswerByHand
  <2>4. "server" \in Sides /\ "client" \in Sides /\ Other("server") = "client"
    BY DEF Sides, Other
  <2>5. /\ Queues(net') /\ LibShape' /\ ListenerHasThread'
        /\ net'["server"] = net["server"]
        /\ ToSet(net'["client"]) \subseteq ToSet(net["client"]) \cup {m}
    BY <2>1, <2>3, <2>4, Sending
  <2>6. Carried' = Carried /\ Answers' \subseteq Answers \cup {x \in Answers' : GoodAnswer(x)'}
    BY <2>2, <2>3, <2>5 DEF Carried, Answers
  <2>7. RequestsAsked' /\ AnswersMatch'
    BY <2>3, <2>6, Added
  <2>8. QED
    BY <2>3, <2>5, <2>7 DEF Inv, Shape, Queues, SentShape
<1>2. CASE Ask
  BY <1>2, NumberedInv DEF Ask, Requests
<1>3. CASE LoopSends
  BY <1>3, NumberedInv DEF LoopSends, Requests
<1>4. CASE LoopOpens \/ LoopTimesOut \/ LoopIsPosted \/ LoopCloses
  BY <1>4, Untouched DEF LoopOpens, LoopTimesOut, LoopIsPosted, LoopCloses, Inv, Shape, SentShape
<1>5. QED
  BY <1>1, <1>2, <1>3, <1>4

-----------------------------------------------------------------------------
(* What is heard of an answer is no longer open; what was asked stays.      *)
LEMMA HeardKeeps ==
  ASSUME Inv
  PROVE  Heard.asked = sent.asked /\ DOMAIN Heard = {"asked", "over"}
BY DEF Heard, Inv, Shape, SentShape

(* The two queries that follow a list of the server.                        *)
LEMMA FollowUpsAsk ==
  ASSUME NEW m
  PROVE  /\ IsSeq(FollowUps(m))
         /\ \A x \in ToSet(FollowUps(m)) : x.kind \in Requests /\ x.kind # "LOGON"
<1> DEFINE subs == SubSeq(m.list, 1, Len(Activated("sub")))
           groups == SubSeq(m.list, Len(Activated("sub")) + 1, m.size)
           first == Msg("QUERY_SUBSCRIBER", m.num, subs, Len(subs))
           second == Msg("QUERY_GROUP", m.num, groups, Len(groups))
           s == IF subs = <<>> THEN <<>> ELSE <<first>>
           t == IF groups = <<>> THEN <<>> ELSE <<second>>
<1>1. FollowUps(m) = s \o t
  BY DEF FollowUps
<1>2. first.kind = "QUERY_SUBSCRIBER" /\ second.kind = "QUERY_GROUP"
  BY DEF Msg
<1> HIDE DEF subs, groups, first, second
<1>3. IsSeq(<<>>) /\ ToSet(<<>>) = {}
  <2>1. <<>> \in Seq({})
    OBVIOUS
  <2>2. QED
    BY <2>1 DEF IsSeq, ToSet
<1>4. \A x : IsSeq(<<x>>) /\ ToSet(<<x>>) = {x}
  <2> TAKE x
  <2>1. <<x>> \in Seq({x})
    OBVIOUS
  <2>2. DOMAIN <<x>> = {1} /\ <<x>>[1] = x
    OBVIOUS
  <2>3. QED
    BY <2>1, <2>2 DEF IsSeq, ToSet
<1>5. IsSeq(s) /\ ToSet(s) \subseteq {first} /\ IsSeq(t) /\ ToSet(t) \subseteq {second}
  BY <1>3, <1>4
<1> HIDE DEF s, t
<1>6. IsSeq(s \o t) /\ ToSet(s \o t) \subseteq {first, second}
  BY <1>5, Joined
<1>7. QED
  BY <1>1, <1>2, <1>6 DEF Requests

(* The client's window: an answer is told, or asks for more.                *)
LEMMA ProcessResponseInv ==
  ASSUME Inv, ProcessResponse
  PROVE  Inv'
<1>0. "server" \in Sides /\ "client" \in Sides
  BY DEF Sides
<1>1. /\ posted["client"] # <<>> /\ Taken("client") /\ UNCHANGED <<lib, saved>>
  BY DEF ProcessResponse, ProcessAnswer, ProcessServerAnswer, Opens
<1>2. /\ Queues(posted')
      /\ ToSet(posted'["client"]) \subseteq ToSet(posted["client"])
      /\ ToSet(posted'["server"]) \subseteq ToSet(posted["server"])
  BY <1>0, <1>1, Taking
<1>3. CASE ProcessAnswer
  <2>1. net' = net /\ sent' = Heard
    BY <1>3 DEF ProcessAnswer
  <2>2. Carried' \subseteq Carried /\ Answers' \subseteq Answers
    BY <1>2, <2>1 DEF Carried, Answers
  <2>3. SentShape' /\ sent'.asked = sent.asked
    BY <2>1, HeardKeeps DEF SentShape
  <2>4. RequestsAsked' /\ AnswersMatch'
    BY <2>2, <2>3, Added
  <2>5. QED
    BY <1>1, <1>2, <2>1, <2>3, <2>4 DEF Inv, Shape, LibShape, Library, Queues, ListenerHasThread, Deserted
<1>4. CASE ProcessServerAnswer
  <2>1. PICK f : f = FollowUps(Rsp)
    OBVIOUS
  <2>2. /\ net' = IF lib["server"].listens /\ lib["client"].ready
                  THEN [net EXCEPT !["server"] = @ \o f] ELSE net
        /\ sent' = [Heard EXCEPT !.asked = @ \cup Asked(ToSet(f))]
    BY <1>4, <2>1 DEF ProcessServerAnswer
  <2>3. IsSeq(f) /\ \A x \in ToSet(f) : x.kind \in Requests /\ x.kind # "LOGON"
    BY <2>1, FollowUpsAsk
  <2>4. SentShape' /\ sent'.asked = sent.asked \cup Asked(ToSet(f))
    BY <2>2, HeardKeeps DEF SentShape
  <2>5. CASE ~(lib["server"].listens /\ lib["client"].ready)
    <3>1. net' = net
      BY <2>2, <2>5
    <3>2. Carried' \subseteq Carried /\ Answers' \subseteq Answers
      BY <1>2, <3>1 DEF Carried, Answers
    <3>3. RequestsAsked' /\ AnswersMatch'
      BY <2>4, <3>2, Added
    <3>4. QED
      BY <1>1, <1>2, <2>4, <3>1, <3>3 DEF Inv, Shape, LibShape, Library, Queues, ListenerHasThread, Deserted
  <2>6. CASE lib["server"].listens /\ lib["client"].ready
    <3>1. net' = [net EXCEPT !["server"] = @ \o f]
      BY <2>2, <2>6
    <3>2. IsSeq(net["server"]) /\ DOMAIN net = Sides
      BY <1>0 DEF Inv, Shape, Queues
    <3>3. IsSeq(net["server"] \o f) /\ ToSet(net["server"] \o f) = ToSet(net["server"]) \cup ToSet(f)
      BY <2>3, <3>2, Joined
    <3>4. /\ Queues(net') /\ net'["client"] = net["client"]
          /\ ToSet(net'["server"]) = ToSet(net["server"]) \cup ToSet(f)
      BY <1>0, <3>1, <3>2, <3>3 DEF Inv, Shape, Queues
    <3>5. ASSUME NEW x \in ToSet(f) PROVE GoodRequest(x)'
      <4>1. Asks(x) \in Asked(ToSet(f))
        BY <2>6 DEF Asked, Asks
      <4>2. QED
        BY <2>3, <2>4, <4>1 DEF GoodRequest, Asks
    <3>6. Carried' \subseteq Carried \cup {x \in Carried' : GoodRequest(x)'}
      BY <1>2, <3>4, <3>5 DEF Carried
    <3>7. Answers' \subseteq Answers
      BY <1>2, <3>4 DEF Answers
    <3>8. RequestsAsked' /\ AnswersMatch'
      BY <2>4, <3>6, <3>7, Added
    <3>9. ListenerHasThread'
      BY <1>0, <1>1, <2>6, <3>1, <3>2 DEF Inv, ListenerHasThread, Deserted
    <3>10. QED
      BY <1>1, <1>2, <2>4, <3>4, <3>8, <3>9 DEF Inv, Shape, LibShape, Library
  <2>7. QED
    BY <2>5, <2>6
<1>5. QED
  BY <1>3, <1>4 DEF ProcessResponse

-----------------------------------------------------------------------------
(* Starting, ending and failing of a library: a connection goes with its    *)
(* listener, or is passed to the window.                                    *)
LEMMA Kept ==
  ASSUME Inv, LibShape', Queues(net'), Queues(posted'), SentShape', ListenerHasThread',
         sent'.asked = sent.asked, saved' = saved,
         \A side \in Sides : ToSet(net'[side]) \cup ToSet(posted'[side])
                                \subseteq ToSet(net[side]) \cup ToSet(posted[side])
  PROVE  Inv'
<1>1. Carried' \subseteq Carried /\ Answers' \subseteq Answers
  BY DEF Carried, Answers, Sides
<1>2. RequestsAsked' /\ AnswersMatch'
  BY <1>1, Added
<1>3. QED
  BY <1>2 DEF Inv, Shape

LEMMA EmptyQueue == IsSeq(<<>>) /\ ToSet(<<>>) = {}
<1>1. <<>> \in Seq({})
  OBVIOUS
<1>2. QED
  BY <1>1 DEF IsSeq, ToSet

(* A library as ListenerHasThread has it.                                   *)
Sound(r) ==
  /\ r.held => r.listens /\ r.thread \in {"born", "accepts"}
  /\ r.thread # "none" => r.listens
  /\ r.ready => r.thread \in {"accepts", "strays"}

LEMMA LibrarySound ==
  ASSUME Inv, NEW side \in Sides
  PROVE  lib[side] \in Library /\ Sound(lib[side])
BY DEF Inv, Shape, LibShape, Library, ListenerHasThread, Deserted, Sound

(* One library changes, and no connection waits for what listens no longer. *)
LEMMA LibraryChanged ==
  ASSUME Inv, NEW side \in Sides, NEW r \in Library, Sound(r),
         lib' = [lib EXCEPT ![side] = r],
         \A s \in Sides : net'[s] # <<>> => lib'[s].listens
  PROVE  LibShape' /\ ListenerHasThread'
<1>1. LibShape'
  BY DEF Inv, Shape, LibShape
<1>2. \A s \in Sides : Sound(lib'[s]) /\ lib'[s] \in Library
  BY <1>1, LibrarySound DEF Inv, Shape, LibShape
<1>3. ListenerHasThread'
  BY <1>2 DEF ListenerHasThread, Deserted, Sound, Library
<1> QED
  BY <1>1, <1>3

LEMMA LibraryInv ==
  ASSUME Inv, NEW side \in Sides, Load(side) \/ Stop(side) \/ Thread(side) \/ ThreadFails(side)
  PROVE  Inv'
<1>0. /\ IsSeq(net[side]) /\ IsSeq(posted[side]) /\ DOMAIN net = Sides /\ DOMAIN posted = Sides
      /\ "server" \in Sides /\ "client" \in Sides
      /\ lib \in [Sides -> Library] /\ lib[side] \in Library /\ Sound(lib[side])
      /\ \A s \in Sides : net[s] # <<>> => lib[s].listens
  BY LibrarySound DEF Inv, Shape, Queues, Sides, LibShape, ListenerHasThread
<1>1. CASE Load(side)
  <2>1. PICK h : h = (lib[side].held /\ lib[side].ready)
    OBVIOUS
  <2>2. PICK r \in Library :
          /\ lib' = [lib EXCEPT ![side] = r] /\ Sound(r) /\ (lib[side].listens => r.listens)
    <3>1. h \in BOOLEAN
      BY <1>0, <2>1 DEF Library
    <3>2. CASE ~lib[side].listens /\ ~lib[side].ready
      <4>1. PICK q \in Library : q = [lib[side] EXCEPT !.thread = "born", !.listens = TRUE, !.held = TRUE]
        BY <1>0 DEF Library
      <4>2. lib' = [lib EXCEPT ![side] = q]
        BY <1>0, <1>1, <3>2, <4>1 DEF Load
      <4>3. Sound(q)
        BY <1>0, <3>2, <4>1 DEF Sound, Library
      <4> QED
        BY <3>2, <4>2, <4>3
    <3>3. CASE lib[side].listens \/ lib[side].ready
      <4>1. PICK q \in Library : q = [lib[side] EXCEPT !.held = h]
        BY <1>0, <3>1 DEF Library
      <4>2. lib' = [lib EXCEPT ![side] = q]
        <5>1. lib' = [lib EXCEPT ![side].held = (lib[side].held /\ lib[side].ready)]
          BY <1>0, <1>1, <3>3 DEF Load
        <5>2. lib' = [lib EXCEPT ![side].held = h]
          BY <2>1, <5>1
        <5> QED
          BY <1>0, <4>1, <5>2
      <4>3. Sound(q) /\ q.listens = lib[side].listens
        BY <1>0, <2>1, <4>1 DEF Sound, Library
      <4> QED
        BY <4>2, <4>3
    <3> QED
      BY <3>2, <3>3
  <2>3. /\ UNCHANGED <<posted, saved>>
        /\ \A s \in Sides : lib[s].listens => lib'[s].listens
    BY <1>0, <1>1, <2>2 DEF Load
  <2>4. PICK m : m = Msg("LOGON", 0, <<>>, 0)
    OBVIOUS
  <2>5. m.kind = "LOGON" /\ m.num = 0
    BY <2>4 DEF Msg
  <2>6. CASE net' = net /\ sent' = sent
    <3>1. LibShape' /\ ListenerHasThread'
      BY <1>0, <2>2, <2>3, <2>6, LibraryChanged
    <3>2. QED
      BY <2>3, <2>6, <3>1, Kept DEF Inv, Shape, Queues, SentShape
  <2>7. CASE /\ lib["server"].listens
             /\ net' = [net EXCEPT !["server"] = Append(@, m)]
             /\ sent' = [sent EXCEPT !.asked = @ \cup {[num |-> 0, kind |-> "LOGON"]}]
    <3>1. IsSeq(net["server"])
      BY <1>0 DEF Inv, Shape, Queues
    <3>2. IsSeq(Append(net["server"], m)) /\ ToSet(Append(net["server"], m)) = ToSet(net["server"]) \cup {m}
      BY <3>1, Appended
    <3>3. /\ Queues(net') /\ net'["client"] = net["client"]
          /\ ToSet(net'["server"]) = ToSet(net["server"]) \cup {m}
          /\ \A s \in Sides : s # "server" => net'[s] = net[s]
      BY <1>0, <2>7, <3>2 DEF Inv, Shape, Queues
    <3>4. SentShape' /\ sent'.asked = sent.asked \cup {[num |-> 0, kind |-> "LOGON"]}
      BY <2>7 DEF Inv, Shape, SentShape
    <3>5. GoodRequest(m)'
      BY <2>5, <3>4 DEF GoodRequest, Asks, Requests
    <3>6. Carried' \subseteq Carried \cup {x \in Carried' : GoodRequest(x)'}
      BY <2>3, <3>3, <3>5 DEF Carried
    <3>7. Answers' \subseteq Answers
      BY <2>3, <3>3 DEF Answers
    <3>8. RequestsAsked' /\ AnswersMatch'
      BY <3>4, <3>6, <3>7, Added
    <3>9. \A s \in Sides : net'[s] # <<>> => lib'[s].listens
      BY <1>0, <2>3, <2>7, <3>3
    <3>10. LibShape' /\ ListenerHasThread'
      BY <2>2, <3>9, LibraryChanged
    <3>11. QED
      BY <2>3, <3>3, <3>4, <3>8, <3>10 DEF Inv, Shape, Queues
  <2>8. QED
    BY <1>1, <2>4, <2>6, <2>7 DEF Load
<1>2. CASE Stop(side) \/ ThreadFails(side)
  <2>1. /\ posted' = posted /\ saved' = saved
        /\ sent' = [sent EXCEPT !.over = sent.asked]
        /\ \/ lib' = lib /\ net' = net
           \/ /\ net' = Backlog(side)
              /\ \/ lib' = [lib EXCEPT ![side] = Closed(side)]
                 \/ lib' = [lib EXCEPT ![side] = [Closed(side) EXCEPT !.stop = TRUE]]
    BY <1>2 DEF Stop, ThreadFails
  <2>2. /\ DOMAIN net' = Sides
        /\ \A s \in Sides : s # side => net'[s] = net[s]
        /\ net'[side] = net[side] \/ net'[side] = <<>>
    BY <1>0, <2>1 DEF Backlog
  <2>3. Queues(net') /\ Queues(posted') /\ \A s \in Sides : ToSet(net'[s]) \subseteq ToSet(net[s])
    BY <1>0, <2>1, <2>2, EmptyQueue DEF Inv, Shape, Queues
  <2>4. SentShape' /\ sent'.asked = sent.asked
    BY <2>1 DEF Inv, Shape, SentShape
  <2>5. LibShape' /\ ListenerHasThread'
    <3>1. CASE lib' = lib /\ net' = net
      BY <3>1 DEF Inv, Shape, LibShape, ListenerHasThread, Deserted
    <3>2. CASE /\ net' = Backlog(side)
               /\ \/ lib' = [lib EXCEPT ![side] = Closed(side)]
                  \/ lib' = [lib EXCEPT ![side] = [Closed(side) EXCEPT !.stop = TRUE]]
      <4>1. PICK h : h = (lib[side].listens /\ ~lib[side].held)
        OBVIOUS
      <4>2. h \in BOOLEAN
        BY <1>0, <4>1 DEF Library
      <4>3. PICK c \in Library : c = [lib[side] EXCEPT !.thread = "none", !.ready = FALSE, !.held = FALSE, !.listens = h]
        BY <1>0, <4>2 DEF Library
      <4>4. Closed(side) = c
        BY <4>1, <4>3 DEF Closed
      <4>5. PICK r \in Library : lib' = [lib EXCEPT ![side] = r] /\ r.thread = "none" /\ r.held = FALSE
                                  /\ r.ready = FALSE /\ r.listens = h
        <5>1. PICK d \in Library : d = [c EXCEPT !.stop = TRUE]
          BY <4>3 DEF Library
        <5> QED
          BY <1>0, <3>2, <4>3, <4>4, <5>1 DEF Library
      <4>6. Sound(r)
        BY <4>5 DEF Sound
      <4>7. net'[side] # <<>> => ~lib[side].held /\ lib[side].listens
        BY <1>0, <3>2 DEF Backlog
      <4>8. \A s \in Sides : net'[s] # <<>> => lib'[s].listens
        BY <1>0, <2>2, <4>1, <4>5, <4>7
      <4> QED
        BY <4>5, <4>6, <4>8, LibraryChanged
    <3> QED
      BY <2>1, <3>1, <3>2
  <2>6. QED
    BY <2>1, <2>3, <2>4, <2>5, Kept
<1>3. CASE ThreadStarts(side)
  <2>1. PICK client \in BOOLEAN : client = (side = "client")
    OBVIOUS
  <2>2. PICK at \in {"accepts", "strays"} : at = Accepts(side)
    BY DEF Accepts
  <2>3. PICK r \in Library : r = [lib[side] EXCEPT !.thread = at, !.stop = FALSE, !.ready = client]
    BY <1>0 DEF Library
  <2>4. /\ lib[side].thread = "born" /\ net' = net /\ posted' = posted /\ sent' = sent /\ saved' = saved
        /\ lib' = [lib EXCEPT ![side] = r]
    BY <1>0, <1>3, <2>1, <2>2, <2>3 DEF ThreadStarts
  <2>5. Sound(r) /\ r.listens = lib[side].listens
    BY <1>0, <2>2, <2>3, <2>4 DEF Sound, Library, Accepts
  <2>6. \A s \in Sides : net'[s] # <<>> => lib'[s].listens
    BY <1>0, <2>4, <2>5
  <2>7. LibShape' /\ ListenerHasThread'
    BY <2>4, <2>5, <2>6, LibraryChanged
  <2>8. QED
    BY <2>4, <2>7, Kept DEF Inv, Shape, Queues, SentShape
<1>4. CASE ThreadAccepts(side)
  <2>1. PICK m : m = Head(net[side])
    OBVIOUS
  <2>2. PICK at \in {"accepts", "strays"} : at = Accepts(side)
    BY DEF Accepts
  <2>3. PICK r \in Library : r = [lib[side] EXCEPT !.thread = at]
    BY <1>0 DEF Library
  <2>4. /\ net[side] # <<>> /\ lib[side].thread = "accepts" /\ UNCHANGED <<saved, sent>>
        /\ posted' = [posted EXCEPT ![side] = Append(@, m)]
        /\ net' = [net EXCEPT ![side] = Tail(@)]
        /\ lib' = [lib EXCEPT ![side] = r]
    BY <1>0, <1>4, <2>1, <2>2, <2>3 DEF ThreadAccepts
  <2>5. m \in ToSet(net[side]) /\ IsSeq(Tail(net[side])) /\ ToSet(Tail(net[side])) \subseteq ToSet(net[side])
    BY <1>0, <2>1, <2>4, Served
  <2>6. IsSeq(Append(posted[side], m)) /\ ToSet(Append(posted[side], m)) = ToSet(posted[side]) \cup {m}
    BY <1>0, Appended
  <2>7. Queues(net') /\ Queues(posted')
    BY <1>0, <2>4, <2>5, <2>6 DEF Inv, Shape, Queues
  <2>8. \A s \in Sides : ToSet(net'[s]) \cup ToSet(posted'[s]) \subseteq ToSet(net[s]) \cup ToSet(posted[s])
    BY <1>0, <2>4, <2>5, <2>6
  <2>9. Sound(r) /\ r.listens = lib[side].listens
    BY <1>0, <2>2, <2>3, <2>4 DEF Sound, Library, Accepts
  <2>10. \A s \in Sides : net'[s] # <<>> => lib'[s].listens
    BY <1>0, <2>4, <2>9
  <2>11. LibShape' /\ ListenerHasThread'
    BY <2>4, <2>9, <2>10, LibraryChanged
  <2>12. QED
    BY <2>4, <2>7, <2>8, <2>11, Kept DEF Inv, Shape, SentShape
<1>5. QED
  BY <1>1, <1>2, <1>3, <1>4 DEF Thread

-----------------------------------------------------------------------------
(* The sizes of the answers.  What the client asks in a query is one number *)
(* or the active ones the server told it of, so that the answer to a query  *)
(* has all of it or nothing.                                                *)

ListOf(kind) == IF kind = "QUERY_SUBSCRIBER" THEN "sub" ELSE "group"

(* A list that is answered whole or not at all.                             *)
AllOrNothing(l, q) ==
  /\ q \in Seq(Nat)
  /\ Len(q) = 1 \/ \A i \in 1 .. Len(q) : q[i] \in ToSet(Active[l])

Answerable(m) ==
  m.kind \in {"QUERY_SUBSCRIBER", "QUERY_GROUP"} => AllOrNothing(ListOf(m.kind), m.list)

WellTold(m) ==
  /\ m.size = Len(m.list)
  /\ m.kind = "SERVER" => m.list = Active["sub"] \o Active["group"]

Sized == /\ \A m \in Carried : Answerable(m)
         /\ \A m \in Answers : WellTold(m)

(* A sequence all of whose prefixes are shared is the longest of them.      *)
LEMMA LongestIsWhole ==
  ASSUME NEW q \in Seq(Nat), NEW C, q \in C, \A p \in C : p \in Prefixes(q)
  PROVE  (CHOOSE x \in C : \A y \in C : Len(y) <= Len(x)) = q
<1> DEFINE Longest(x) == x \in C /\ \A y \in C : Len(y) <= Len(x)
<1>1. \A p \in C : Len(p) \in 0 .. Len(q) /\ (Len(p) = Len(q) => p = q)
  <2> SUFFICES ASSUME NEW k \in 0 .. Len(q)
               PROVE  Len(SubSeq(q, 1, k)) = k /\ SubSeq(q, 1, Len(q)) = q
    BY DEF Prefixes
  <2> QED
    OBVIOUS
<1>2. Longest(q)
  BY <1>1
<1>3. \A x : Longest(x) => x = q
  BY <1>1
<1> QED
  BY <1>2, <1>3

(* A query is answered with all it asks or with nothing.                    *)
LEMMA AnsweredWhole ==
  ASSUME NEW l \in Lists, NEW q, AllOrNothing(l, q)
  PROVE  Answered(l, q) \in {<<>>, q}
<1> DEFINE r == [i \in DOMAIN q |-> IF q[i] \in ToSet(Active[l]) THEN q[i] ELSE -1]
           C == CommonPrefixes({q, r})
<1>1. /\ q \in Seq(Nat) /\ DOMAIN q = 1 .. Len(q) /\ Len(q) \in Nat
      /\ q = [i \in 1 .. Len(q) |-> q[i]]
  BY DEF AllOrNothing
<1>2. r \in Seq(Int) /\ Len(r) = Len(q)
  <2>1. \A i \in 1 .. Len(q) : q[i] \in Int
    BY <1>1
  <2>2. r = [i \in 1 .. Len(q) |-> IF q[i] \in ToSet(Active[l]) THEN q[i] ELSE -1]
    BY <1>1
  <2>3. r \in [1 .. Len(q) -> Int]
    BY <2>1, <2>2
  <2> HIDE DEF r
  <2> QED
    BY <1>1, <2>3
<1>3. Answered(l, q) = CHOOSE x \in C : \A y \in C : Len(y) <= Len(x)
  BY DEF Answered, LongestCommonPrefix
<1>4. (\A i \in 1 .. Len(q) : q[i] \in ToSet(Active[l])) => r = q
  BY <1>1
<1> HIDE DEF r
<1>5. \A p \in C : p \in Prefixes(q)
  <2> SUFFICES ASSUME NEW s \in {q, r}, NEW k \in 0 .. Len(s), NEW p, p = SubSeq(s, 1, k),
                      IsPrefix(p, q)
               PROVE  p \in Prefixes(q)
    BY DEF CommonPrefixes, Prefixes
  <2>1. s \in Seq(Int) /\ q \in Seq(Int) /\ Len(s) = Len(q)
    <3>1. \A i \in 1 .. Len(q) : q[i] \in Int
      BY <1>1
    <3>2. q \in Seq(Int)
      BY <1>1, <3>1
    <3> QED
      BY <1>2, <3>2
  <2>2. Len(p) = k /\ k \in 0 .. Len(q) /\ SubSeq(p, 1, k) = p
    <3>1. Len(p) = k /\ p \in Seq(Int)
      BY <2>1
    <3> QED
      BY <2>1, <3>1
  <2> QED
    BY <2>2 DEF IsPrefix, Prefixes
<1>6. CASE r = q
  <2>1. SubSeq(q, 1, Len(q)) = q
    BY <1>1
  <2>2. q \in Prefixes(q) /\ IsPrefix(q, q)
    BY <1>1, <2>1 DEF Prefixes, IsPrefix
  <2>3. q \in C
    BY <1>6, <2>2 DEF CommonPrefixes
  <2> HIDE DEF C
  <2> QED
    BY <1>1, <1>3, <1>5, <2>3, LongestIsWhole
<1>7. CASE r # q
  <2>1. Len(q) = 1 /\ r # q
    BY <1>4, <1>7 DEF AllOrNothing
  <2>2. \A p \in C : p \in {<<>>, q}
    <3>1. \A k \in 0 .. Len(q) : SubSeq(q, 1, k) \in {<<>>, q}
      <4>1. SubSeq(q, 1, 1) = q /\ SubSeq(q, 1, 0) = <<>>
        BY <1>1, <2>1
      <4> QED
        BY <2>1, <4>1
    <3> QED
      BY <1>5, <3>1 DEF Prefixes
  <2>3. q \notin C
    <3> SUFFICES ASSUME IsPrefix(q, r) PROVE FALSE
      BY DEF CommonPrefixes
    <3>1. SubSeq(q, 1, Len(q)) = q /\ SubSeq(r, 1, Len(q)) = r
      BY <1>1, <1>2
    <3> QED
      BY <1>7, <3>1 DEF IsPrefix
  <2>4. <<>> \in C
    <3>1. <<>> = SubSeq(q, 1, 0) /\ 0 \in 0 .. Len(q)
      BY <1>1
    <3>2. <<>> \in Prefixes(q)
      BY <3>1 DEF Prefixes
    <3>3. IsPrefix(<<>>, q) /\ IsPrefix(<<>>, r)
      BY <1>1, <1>2 DEF IsPrefix
    <3> QED
      BY <3>2, <3>3 DEF CommonPrefixes
  <2>5. C = {<<>>}
    BY <2>2, <2>3, <2>4
  <2>6. Answered(l, q) \in C
    <3>1. \A y \in C : Len(y) <= Len(<<>>)
      BY <2>5
    <3> HIDE DEF C
    <3> QED
      BY <1>3, <2>4, <3>1
  <2> QED
    BY <2>5, <2>6
<1> QED
  BY <1>6, <1>7

(* A step keeps the sizes if the messages it adds are sized.                *)
LEMMA SizedAdded ==
  ASSUME Sized,
         \A m \in Carried' : m \in Carried \/ Answerable(m),
         \A m \in Answers' : m \in Answers \/ WellTold(m)
  PROVE  Sized'
BY DEF Sized, Answerable, WellTold

(* The server's answers to a query of l.                                    *)
LEMMA QuerySized ==
  ASSUME NEW l \in Lists, NEW m, AllOrNothing(l, m.list)
  PROVE  WellTold(QueryAnswer(l, m))
<1>1. Answered(l, m.list) = <<>> \/ Answered(l, m.list) = m.list
  BY AnsweredWhole
<1>2. CASE Answered(l, m.list) = <<>>
  BY <1>2 DEF QueryAnswer, Msg, WellTold
<1>3. CASE Answered(l, m.list) # <<>> /\ Answered(l, m.list) = m.list
  BY <1>3 DEF QueryAnswer, Msg, WellTold
<1> QED
  BY <1>1, <1>2, <1>3

LEMMA ProcessRequestSized ==
  ASSUME Inv, Sized, ProcessRequest
  PROVE  Sized'
<1>0. "server" \in Sides /\ "client" \in Sides /\ Other("server") = "client"
  BY DEF Sides, Other
<1>1. posted["server"] # <<>> /\ Taken("server") /\ lib' = lib
  BY DEF ProcessRequest, ProcessNotify, ProcessLogon, ProcessSubscriber, ProcessGroup,
         ProcessServerQuery, Opens
<1>2. /\ \A s \in Sides : ToSet(posted'[s]) \subseteq ToSet(posted[s])
      /\ Answerable(Req)
  BY <1>0, <1>1, Taking DEF Sized, Carried, Req
<1>3. ASSUME NEW m, Send("server", m) \/ UNCHANGED net, WellTold(m)
      PROVE  Sized'
  <2>1. /\ ToSet(net'["server"]) \subseteq ToSet(net["server"])
        /\ ToSet(net'["client"]) \subseteq ToSet(net["client"]) \cup {m}
    BY <1>0, <1>1, <1>3, Sending
  <2> QED
    BY <1>0, <1>2, <1>3, <2>1, SizedAdded DEF Carried, Answers
<1>4. CASE ProcessNotify
  <2>1. WellTold(NotifyAnswer(Req))
    BY DEF NotifyAnswer, Msg, WellTold
  <2> QED
    BY <1>3, <1>4, <2>1 DEF ProcessNotify
<1>5. CASE ProcessLogon
  <2>1. \A kind \in {"ACK_LOGON", "NAK_LOGON"} : WellTold(Msg(kind, Req.num, <<>>, 0))
    BY DEF Msg, WellTold
  <2> QED
    BY <1>3, <1>5, <2>1 DEF ProcessLogon
<1>6. CASE ProcessSubscriber
  <2>1. WellTold(QueryAnswer("sub", Req))
    BY <1>2, <1>6, QuerySized DEF ProcessSubscriber, Opens, Req, Answerable, ListOf, Lists
  <2> QED
    BY <1>3, <1>6, <2>1 DEF ProcessSubscriber
<1>7. CASE ProcessGroup
  <2>1. WellTold(QueryAnswer("group", Req))
    BY <1>2, <1>7, QuerySized DEF ProcessGroup, Opens, Req, Answerable, ListOf, Lists
  <2> QED
    BY <1>3, <1>7, <2>1 DEF ProcessGroup
<1>8. CASE ProcessServerQuery
  <2> DEFINE a == [Msg("SERVER", Req.num, Activated("sub"), Len(Activated("sub")) + Len(Activated("group")))
                     EXCEPT !.list = @ \o Activated("group")]
  <2>1. Active["sub"] \in Seq(Nat) /\ Active["group"] \in Seq(Nat)
    BY ConnectAssumption DEF Lists
  <2>2. /\ a.kind = "SERVER" /\ a.list = Active["sub"] \o Active["group"]
        /\ a.size = Len(Active["sub"]) + Len(Active["group"])
    BY DEF Msg, Activated
  <2>3. Send("server", a)
    BY <1>8 DEF ProcessServerQuery
  <2> HIDE DEF a
  <2>4. Len(Active["sub"] \o Active["group"]) = Len(Active["sub"]) + Len(Active["group"])
    BY <2>1
  <2>5. WellTold(a)
    BY <2>2, <2>4 DEF WellTold
  <2> QED
    BY <1>3, <2>3, <2>5
<1> QED
  BY <1>4, <1>5, <1>6, <1>7, <1>8 DEF ProcessRequest

(* The lists of the two queries that follow a list of the server: the       *)
(* client cuts it where its own table says the subscribers end.             *)
LEMMA FollowUpsSized ==
  ASSUME NEW m, WellTold(m), m.kind = "SERVER"
  PROVE  \A x \in ToSet(FollowUps(m)) : Answerable(x)
<1> DEFINE A == Active["sub"]
           B == Active["group"]
           subs == SubSeq(m.list, 1, Len(Activated("sub")))
           groups == SubSeq(m.list, Len(Activated("sub")) + 1, m.size)
           first == Msg("QUERY_SUBSCRIBER", m.num, subs, Len(subs))
           second == Msg("QUERY_GROUP", m.num, groups, Len(groups))
           s == IF subs = <<>> THEN <<>> ELSE <<first>>
           t == IF groups = <<>> THEN <<>> ELSE <<second>>
<1>1. /\ A \in Seq(Nat) /\ B \in Seq(Nat) /\ m.list = A \o B /\ m.size = Len(A) + Len(B)
      /\ Activated("sub") = A
  <2>1. A \in Seq(Nat) /\ B \in Seq(Nat)
    BY ConnectAssumption DEF Lists
  <2>2. m.list = A \o B /\ Activated("sub") = A /\ m.size = Len(A \o B)
    BY DEF WellTold, Activated
  <2> HIDE DEF A, B
  <2>3. Len(A \o B) = Len(A) + Len(B)
    BY <2>1
  <2> QED
    BY <2>1, <2>2, <2>3
<1> HIDE DEF A, B
<1>2. subs = A
  <2>1. SubSeq(A \o B, 1, Len(A)) = A
    BY <1>1
  <2> QED
    BY <1>1, <2>1
<1>3. groups = B
  <2>1. SubSeq(A \o B, Len(A) + 1, Len(A) + Len(B)) = B
    BY <1>1
  <2> QED
    BY <1>1, <2>1
<1>4. AllOrNothing("sub", A) /\ AllOrNothing("group", B)
  <2>1. \A i \in 1 .. Len(A) : A[i] \in ToSet(A)
    BY <1>1 DEF ToSet
  <2>2. \A i \in 1 .. Len(B) : B[i] \in ToSet(B)
    BY <1>1 DEF ToSet
  <2> QED
    BY <1>1, <2>1, <2>2 DEF AllOrNothing, A, B
<1>5. Answerable(first) /\ Answerable(second)
  BY <1>2, <1>3, <1>4 DEF Answerable, Msg, ListOf
<1>6. FollowUps(m) = s \o t
  BY DEF FollowUps
<1> HIDE DEF subs, groups, first, second
<1>7. IsSeq(s) /\ ToSet(s) \subseteq {first} /\ IsSeq(t) /\ ToSet(t) \subseteq {second}
  <2>1. \A x : IsSeq(<<x>>) /\ ToSet(<<x>>) = {x}
    <3> TAKE x
    <3>1. <<x>> \in Seq({x}) /\ DOMAIN <<x>> = {1} /\ <<x>>[1] = x
      OBVIOUS
    <3> QED
      BY <3>1 DEF IsSeq, ToSet
  <2> QED
    BY <2>1, EmptyQueue
<1> HIDE DEF s, t
<1>8. ToSet(s \o t) \subseteq {first, second}
  BY <1>7, Joined
<1> QED
  BY <1>5, <1>6, <1>8

LEMMA ProcessResponseSized ==
  ASSUME Inv, Sized, ProcessResponse
  PROVE  Sized'
<1>0. "server" \in Sides /\ "client" \in Sides
  BY DEF Sides
<1>1. posted["client"] # <<>> /\ Taken("client")
  BY DEF ProcessResponse, ProcessAnswer, ProcessServerAnswer, Opens
<1>2. /\ \A s \in Sides : ToSet(posted'[s]) \subseteq ToSet(posted[s])
      /\ WellTold(Rsp)
  BY <1>0, <1>1, Taking DEF Sized, Answers, Rsp
<1>3. CASE UNCHANGED net
  BY <1>0, <1>2, <1>3, SizedAdded DEF Carried, Answers
<1>4. CASE ProcessServerAnswer /\ ~UNCHANGED net
  <2>1. net' = [net EXCEPT !["server"] = @ \o FollowUps(Rsp)] /\ Rsp.kind = "SERVER"
    BY <1>4 DEF ProcessServerAnswer, Opens, Rsp
  <2>2. \A x \in ToSet(FollowUps(Rsp)) : Answerable(x)
    BY <1>2, <2>1, FollowUpsSized
  <2>3. /\ net'["client"] = net["client"]
        /\ ToSet(net'["server"]) = ToSet(net["server"]) \cup ToSet(FollowUps(Rsp))
    BY <1>0, <2>1, FollowUpsAsk, Joined DEF Inv, Shape, Queues
  <2> QED
    BY <1>0, <1>2, <2>2, <2>3, SizedAdded DEF Carried, Answers
<1> QED
  BY <1>3, <1>4 DEF ProcessResponse, ProcessAnswer

(* A command asks for one number at most.                                   *)
LEMMA NumberedSized ==
  ASSUME Inv, Sized, NEW kind \in Requests \ {"LOGON"}, NEW list, Numbered(kind, list),
         UNCHANGED <<lib, posted>>,
         kind \in {"QUERY_SUBSCRIBER", "QUERY_GROUP"} => list = << 0 >>
  PROVE  Sized'
<1> DEFINE m == Msg(kind, next, list, Len(list))
<1>0. "server" \in Sides /\ "client" \in Sides /\ Other("client") = "server"
  BY DEF Sides, Other
<1>1. Send("client", m)
  BY DEF Numbered
<1>2. Answerable(m)
  <2>1. <<0>> \in Seq(Nat) /\ Len(<<0>>) = 1
    OBVIOUS
  <2> QED
    BY <2>1 DEF Answerable, Msg, AllOrNothing
<1> HIDE DEF m
<1>3. /\ ToSet(net'["client"]) \subseteq ToSet(net["client"])
      /\ ToSet(net'["server"]) \subseteq ToSet(net["server"]) \cup {m}
  BY <1>0, <1>1, Sending
<1> QED
  BY <1>0, <1>2, <1>3, SizedAdded DEF Carried, Answers

LEMMA CommandsSized ==
  ASSUME Inv, Sized,
         AnswerByHand \/ Ask \/ LoopOpens \/ LoopSends \/ LoopTimesOut \/ LoopIsPosted \/ LoopCloses
  PROVE  Sized'
<1>1. CASE AnswerByHand
  <2>1. PICK m : Send("server", m) /\ WellTold(m)
    <3>1. \A kind \in {"ACK_NOTIFY", "NAK_NOTIFY"} : WellTold(Msg(kind, saved.num, <<>>, 0))
      BY DEF Msg, WellTold
    <3> QED
      BY <1>1, <3>1 DEF AnswerByHand
  <2>2. "server" \in Sides /\ "client" \in Sides /\ Other("server") = "client"
    BY DEF Sides, Other
  <2>3. UNCHANGED <<lib, posted>>
    BY <1>1 DEF AnswerByHand
  <2>4. /\ net'["server"] = net["server"]
        /\ ToSet(net'["client"]) \subseteq ToSet(net["client"]) \cup {m}
    BY <2>1, <2>2, <2>3, Sending
  <2> QED
    BY <2>1, <2>3, <2>4, SizedAdded DEF Carried, Answers
<1>2. CASE Ask
  BY <1>2, NumberedSized DEF Ask, Requests
<1>3. CASE LoopSends
  BY <1>3, NumberedSized DEF LoopSends, Requests
<1>4. CASE LoopOpens \/ LoopTimesOut \/ LoopIsPosted \/ LoopCloses
  BY <1>4, SizedAdded DEF LoopOpens, LoopTimesOut, LoopIsPosted, LoopCloses, Carried, Answers
<1> QED
  BY <1>1, <1>2, <1>3, <1>4

(* The libraries pass messages on, lose them, or send a logon.              *)
LEMMA LibrarySized ==
  ASSUME Inv, Sized, NEW side \in Sides,
         Load(side) \/ Stop(side) \/ Thread(side) \/ ThreadFails(side)
  PROVE  Sized'
<1>0. /\ IsSeq(net[side]) /\ IsSeq(posted[side]) /\ DOMAIN net = Sides /\ DOMAIN posted = Sides
      /\ "server" \in Sides /\ "client" \in Sides /\ IsSeq(net["server"])
  BY DEF Inv, Shape, Queues, Sides
<1>1. CASE Load(side)
  <2>1. PICK m : m = Msg("LOGON", 0, <<>>, 0)
    OBVIOUS
  <2>2. Answerable(m)
    BY <2>1 DEF Msg, Answerable
  <2>3. posted' = posted /\ (net' = net \/ net' = [net EXCEPT !["server"] = Append(@, m)])
    BY <1>1, <2>1 DEF Load
  <2>4. ToSet(Append(net["server"], m)) = ToSet(net["server"]) \cup {m}
    BY <1>0, Appended
  <2>5. net'["client"] = net["client"] /\ ToSet(net'["server"]) \subseteq ToSet(net["server"]) \cup {m}
    BY <1>0, <2>3, <2>4
  <2> QED
    BY <2>2, <2>3, <2>5, SizedAdded DEF Carried, Answers
<1>2. CASE ~Load(side)
  <2>1. \A s \in Sides : ToSet(net'[s]) \cup ToSet(posted'[s]) \subseteq ToSet(net[s]) \cup ToSet(posted[s])
    <3>1. CASE Stop(side) \/ ThreadFails(side)
      BY <1>0, <3>1, EmptyQueue DEF Stop, ThreadFails, Backlog
    <3>2. CASE ThreadStarts(side)
      BY <3>2 DEF ThreadStarts
    <3>3. CASE ThreadAccepts(side)
      <4>1. PICK m : m = Head(net[side])
        OBVIOUS
      <4>2. /\ net[side] # <<>>
            /\ posted' = [posted EXCEPT ![side] = Append(@, m)]
            /\ net' = [net EXCEPT ![side] = Tail(@)]
        BY <3>3, <4>1 DEF ThreadAccepts
      <4>3. m \in ToSet(net[side]) /\ ToSet(Tail(net[side])) \subseteq ToSet(net[side])
        BY <1>0, <4>1, <4>2, Served
      <4>4. ToSet(Append(posted[side], m)) = ToSet(posted[side]) \cup {m}
        BY <1>0, Appended
      <4> QED
        BY <1>0, <4>2, <4>3, <4>4
    <3> QED
      BY <1>2, <3>1, <3>2, <3>3 DEF Thread
  <2>2. Carried' \subseteq Carried /\ Answers' \subseteq Answers
    BY <1>0, <2>1 DEF Carried, Answers
  <2> QED
    BY <2>2, SizedAdded
<1> QED
  BY <1>1, <1>2

LEMMA NextSized == Inv /\ Sized /\ [Next]_vars => Sized'
<1> SUFFICES ASSUME Inv, Sized, [Next]_vars PROVE Sized'
  OBVIOUS
<1>1. CASE UNCHANGED vars
  BY <1>1, SizedAdded DEF vars, Carried, Answers
<1> QED
  BY <1>1, LibrarySized, ProcessRequestSized, ProcessResponseSized, CommandsSized DEF Next

-----------------------------------------------------------------------------
LEMMA InitInv == Init => Inv
<1> SUFFICES ASSUME Init PROVE Inv
  OBVIOUS
<1>1. Shape
  BY EmptyQueue DEF Init, Down, Shape, LibShape, Library, Queues, SentShape
<1>2. ListenerHasThread
  BY DEF Init, Down, ListenerHasThread, Deserted
<1>3. Carried = {} /\ Answers = {}
  BY EmptyQueue DEF Init, Carried, Answers, Sides
<1>4. saved.num = 0
  BY DEF Init, NoMsg, Msg
<1>5. QED
  BY <1>1, <1>2, <1>3, <1>4 DEF Inv, RequestsAsked, AnswersMatch

LEMMA NextInv == Inv /\ [Next]_vars => Inv'
<1> SUFFICES ASSUME Inv, [Next]_vars PROVE Inv'
  OBVIOUS
<1>1. CASE UNCHANGED vars
  BY <1>1, Untouched DEF vars, Inv, Shape, SentShape
<1>2. ASSUME NEW side \in Sides, Load(side) \/ Stop(side) \/ Thread(side) \/ ThreadFails(side)
      PROVE  Inv'
  BY <1>2, LibraryInv
<1>3. CASE ProcessRequest
  BY <1>3, ProcessRequestInv
<1>4. CASE ProcessResponse
  BY <1>4, ProcessResponseInv
<1>5. CASE AnswerByHand \/ Ask \/ LoopOpens \/ LoopSends \/ LoopTimesOut \/ LoopIsPosted \/ LoopCloses
  BY <1>5, CommandsInv
<1>6. QED
  BY <1>1, <1>2, <1>3, <1>4, <1>5 DEF Next

(* A library that listens has its one thread, and a connection waits only   *)
(* where somebody listens: InitServer, InitCOM, StopServer, StopCOM and the *)
(* threads, in whatever order they come (connect.c).                        *)
THEOREM ListenerCorrect == Spec => []ListenerHasThread
<1>1. Inv => ListenerHasThread
  BY DEF Inv
<1>2. QED
  BY <1>1, InitInv, NextInv, PTL DEF Spec

(* Every answer under way to the client is, by number and kind, to          *)
(* something it asked (ProcessRequest and ProcessResponse), or is the       *)
(* operator's with the number of the logon.                                 *)
THEOREM AnswersCorrect == Spec => []AnswersMatch
<1>1. Inv => AnswersMatch
  BY DEF Inv
<1>2. QED
  BY <1>1, InitInv, NextInv, PTL DEF Spec

(* Every answer has as many entries as its size tells (request.c: the size  *)
(* of an answer is that of the request it is written over).                 *)
THEOREM SizesCorrect == Spec => []SizesTrue
<1>1. Init => Sized
  <2>1. Init => Carried = {} /\ Answers = {}
    BY EmptyQueue DEF Init, Carried, Answers, Sides
  <2> QED
    BY <2>1 DEF Sized
<1>2. Sized => SizesTrue
  BY DEF Sized, SizesTrue, WellTold
<1> QED
  BY <1>1, <1>2, InitInv, NextInv, NextSized, PTL DEF Spec
=============================================================================
