------------------------------ MODULE Connect ------------------------------
(***************************************************************************)
(* The paging connection: a client program and a server program, each with *)
(* a window and a library whose thread accepts connections (CONNECT:       *)
(* connect.c, request.c, response.c, conn_dlg.c, client.c, server.c).      *)
(*                                                                         *)
(* Every message is a connection of its own.  A connection that was made   *)
(* waits in the listener's backlog, in order; it is lost when the listener *)
(* is closed.  The client asks the server it was configured for, so that   *)
(* the address its thread compares agrees.  A window takes the messages    *)
(* its thread posts before the thread runs out of retries.                 *)
(***************************************************************************)
EXTENDS Integers, Sequences, FiniteSets, SequencesExt

CONSTANTS
    Items,          \* "sub" and "group": the length of each list of the server
    Active,         \* and its numbers that have SUB_FLG_ACTIVATED, in order
    MaxNumber,      \* bound: requests the client numbers
    MaxFlight       \* bound: messages under way when a user acts

Lists == {"sub", "group"}
Sides == {"client", "server"}

ASSUME ConnectAssumption ==
    /\ Items \in [Lists -> Nat \ {0}]
    /\ Active \in [Lists -> Seq(Nat)]
    /\ \A l \in Lists : \A i \in DOMAIN Active[l] :
          Active[l][i] < Items[l] /\ (i > 1 => Active[l][i - 1] < Active[l][i])
    /\ MaxNumber \in Nat /\ MaxFlight \in Nat

VARIABLES
    lib,        \* the library of each side: its thread, whether a socket listens and
                \* whether it is the one the library holds (iRequestSocket,
                \* iResponseSocket), bStop...Thread and bCOMinitialized
    net,        \* the connections made to each side and not yet accepted
    posted,     \* the messages posted to each side's window
    next,       \* ulMessageNumber, counted from 1; 0 is the logon's
    menu,       \* which commands are enabled, and whether the client has logged on
    loop,       \* the notify dialog, its thread and hevNotifyLoopSem
    saved,      \* stTestAddressee: the message of the last logon
    sent        \* history: the numbers and kinds asked, and those of them answered
                \* or asked before a listener was last closed

vars == <<lib, net, posted, next, menu, loop, saved, sent>>

\* A message: what it asks or answers, its number, the numbers of a list in it, and
\* how many the size of the message tells.
Msg(kind, num, list, size) == [kind |-> kind, num |-> num, list |-> list, size |-> size]
NoMsg == Msg("none", 0, <<>>, 0)
Other(side) == IF side = "client" THEN "server" ELSE "client"

Down == [thread |-> "none", listens |-> FALSE, held |-> FALSE, stop |-> FALSE, ready |-> FALSE]

Init ==
    /\ lib = [side \in Sides |-> Down]
    /\ net = [side \in Sides |-> <<>>]
    /\ posted = [side \in Sides |-> <<>>]
    /\ next = 1
    /\ menu = [load |-> Sides, used |-> {}, ask |-> FALSE]
    /\ loop = [at |-> "closed", post |-> FALSE, num |-> 0]
    /\ saved = NoMsg
    /\ sent = [asked |-> {}, over |-> {}]

Flight == Len(net["client"]) + Len(net["server"]) + Len(posted["client"]) + Len(posted["server"])
Room == Flight < MaxFlight
-----------------------------------------------------------------------------
(***************************************************************************)
(* The libraries: a listening socket and the thread that accepts from it.  *)
(***************************************************************************)

\* SendRequest and SendResponse: a connection is made if the other side listens.
\* The client's library must have been initialized.
Send(side, m) ==
    IF lib[Other(side)].listens /\ (side = "client" => lib["client"].ready)
    THEN net' = [net EXCEPT ![Other(side)] = Append(@, m)]
    ELSE UNCHANGED net

\* Nothing is asked if the message was not sent.
Asked(ms) == {[num |-> m.num, kind |-> m.kind] : m \in {x \in ms : lib["server"].listens /\ lib["client"].ready}}

\* InitServer, and InitCOM up to its logon.  A client that cannot make the connection
\* for its logon fails as well, and leaves its thread behind.  What is in use is
\* refused: by the client's flag, or else by bind, when the library already holds the
\* new socket in place of the one that listens.
Load(side) ==
    /\ side \in menu.load /\ Room
    /\ LET started == ~lib[side].listens /\ ~lib[side].ready
           loggedOn == side = "client" /\ started /\ lib["server"].listens
       IN  /\ lib' = IF started
                     THEN [lib EXCEPT ![side].thread = "born", ![side].listens = TRUE, ![side].held = TRUE]
                     ELSE [lib EXCEPT ![side].held = @ /\ lib[side].ready]
           /\ net' = IF loggedOn
                     THEN [net EXCEPT !["server"] = Append(@, Msg("LOGON", 0, <<>>, 0))]
                     ELSE net
           /\ sent' = IF loggedOn THEN [sent EXCEPT !.asked = @ \cup {[num |-> 0, kind |-> "LOGON"]}] ELSE sent
           /\ menu' = [menu EXCEPT !.used = @ \cup {side},
                                   !.load = IF side = "server" \/ loggedOn THEN @ \ {side} ELSE @]
    /\ UNCHANGED <<posted, next, loop, saved>>

\* soclose of the socket the library holds: what waits in its backlog is lost.
Closed(side) == [lib[side] EXCEPT !.thread = "none", !.ready = FALSE, !.held = FALSE,
                                  !.listens = @ /\ ~lib[side].held]
Backlog(side) == [net EXCEPT ![side] = IF lib[side].held THEN <<>> ELSE @]

\* (mutant) the thread is left alive.
StopForgotten(side) ==
    /\ side \in menu.used
    /\ menu' = [menu EXCEPT !.load = @ \cup {side}]
    /\ lib' = IF lib[side].stop THEN lib ELSE [lib EXCEPT ![side] = [Closed(side) EXCEPT !.thread = lib[side].thread]]
    /\ net' = IF lib[side].stop THEN net ELSE Backlog(side)
    /\ sent' = [sent EXCEPT !.over = sent.asked]
    /\ UNCHANGED <<posted, next, loop, saved>>

\* StopCOM and StopServer: unless the thread is ending by itself it is killed.
Stop(side) ==
    /\ side \in menu.used
    /\ menu' = [menu EXCEPT !.load = @ \cup {side}]
    /\ lib' = IF lib[side].stop THEN lib ELSE [lib EXCEPT ![side] = Closed(side)]
    /\ net' = IF lib[side].stop THEN net ELSE Backlog(side)
    /\ sent' = [sent EXCEPT !.over = sent.asked]
    /\ UNCHANGED <<posted, next, loop, saved>>

\* The thread calls accept with the socket the library holds by then: with one that
\* was never bound it fails.
Accepts(side) == IF lib[side].held THEN "accepts" ELSE "strays"

ThreadStarts(side) ==
    /\ lib[side].thread = "born"
    /\ lib' = [lib EXCEPT ![side].thread = Accepts(side), ![side].stop = FALSE, ![side].ready = (side = "client")]
    /\ UNCHANGED <<net, posted, next, menu, loop, saved, sent>>

ThreadAccepts(side) ==
    /\ lib[side].thread = "accepts"
    /\ net[side] # <<>>
    /\ posted' = [posted EXCEPT ![side] = Append(@, Head(net[side]))]
    /\ net' = [net EXCEPT ![side] = Tail(@)]
    /\ lib' = [lib EXCEPT ![side].thread = Accepts(side)]
    /\ UNCHANGED <<next, menu, loop, saved, sent>>

\* accept, recv or DosAllocMem fails: the thread tells the window and ends.
ThreadFails(side) ==
    /\ lib[side].thread \in {"accepts", "strays"}
    /\ lib' = [lib EXCEPT ![side] = [Closed(side) EXCEPT !.stop = TRUE]]
    /\ net' = Backlog(side)
    /\ sent' = [sent EXCEPT !.over = sent.asked]
    /\ UNCHANGED <<posted, next, menu, loop, saved>>
-----------------------------------------------------------------------------
(***************************************************************************)
(* The server's window: ProcessRequest writes the answer over the request. *)
(***************************************************************************)

Opens(side, kind) == posted[side] # <<>> /\ Head(posted[side]).kind = kind
Taken(side) == posted' = [posted EXCEPT ![side] = Tail(@)]
Req == Head(posted["server"])
Rsp == Head(posted["client"])

\* Which subscribers are notified is not looked at beyond the length of the list:
\* "!fFlags & SUB_FLG_ACTIVATED" is never true of a flag word that is not zero.
NotifyAnswer(m) ==
    IF m.list # <<>> /\ Head(m.list) >= Items["sub"]
    THEN Msg("NAK_NOTIFY", m.num, <<>>, 0) ELSE Msg("ACK_NOTIFY", m.num, <<>>, 0)

ProcessNotify ==
    /\ Opens("server", "NOTIFY") /\ Taken("server")
    /\ Send("server", NotifyAnswer(Req))
    /\ UNCHANGED <<lib, next, menu, loop, saved, sent>>

\* The user and the password agree or not.
ProcessLogon ==
    /\ Opens("server", "LOGON") /\ Taken("server")
    /\ \/ /\ saved' = Req
          /\ Send("server", Msg("ACK_LOGON", Req.num, <<>>, 0))
       \/ /\ Send("server", Msg("NAK_LOGON", Req.num, <<>>, 0))
          /\ UNCHANGED saved
    /\ UNCHANGED <<lib, next, menu, loop, sent>>

\* The loop runs once for each number asked but looks at the first it has not yet
\* answered: a number that is not active hides those after it.
Answered(l, asked) == LongestCommonPrefix({asked, [i \in DOMAIN asked |-> IF asked[i] \in ToSet(Active[l]) THEN asked[i] ELSE -1]})

\* (mutant) the answer carries the number of the logon it belongs to.
QueryAnswerSaved(l, m) ==
    LET found == Answered(l, m.list) IN
    IF found = <<>> THEN Msg(IF l = "sub" THEN "NAK_SUBSCRIBER" ELSE "NAK_GROUP", saved.num, <<>>, 0)
    ELSE Msg(IF l = "sub" THEN "ACK_SUBSCRIBER" ELSE "ACK_GROUP", saved.num, found, Len(m.list))

\* The size of the answer is that of the numbers asked.
QueryAnswer(l, m) ==
    LET found == Answered(l, m.list) IN
    IF found = <<>> THEN Msg(IF l = "sub" THEN "NAK_SUBSCRIBER" ELSE "NAK_GROUP", m.num, <<>>, 0)
    ELSE Msg(IF l = "sub" THEN "ACK_SUBSCRIBER" ELSE "ACK_GROUP", m.num, found, Len(m.list))

\* (mutant) a query of which nothing is found is not answered.
ProcessSubscriberSilent ==
    /\ Opens("server", "QUERY_SUBSCRIBER") /\ Taken("server")
    /\ IF Answered("sub", Req.list) = <<>> THEN UNCHANGED net ELSE Send("server", QueryAnswer("sub", Req))
    /\ UNCHANGED <<lib, next, menu, loop, saved, sent>>

ProcessSubscriber ==
    /\ Opens("server", "QUERY_SUBSCRIBER") /\ Taken("server")
    /\ Send("server", QueryAnswer("sub", Req))
    /\ UNCHANGED <<lib, next, menu, loop, saved, sent>>

\* malloc is given a size nobody has set: it may fail, and then nothing is answered.
ProcessGroup ==
    /\ Opens("server", "QUERY_GROUP") /\ Taken("server")
    /\ Send("server", QueryAnswer("group", Req)) \/ UNCHANGED net
    /\ UNCHANGED <<lib, next, menu, loop, saved, sent>>

\* (mutant) the whole list, whatever the flags.
ActivatedAll(l) == [i \in 1 .. Items[l] |-> i - 1]

\* The numbers of a list that are activated, in its order.
Activated(l) == Active[l]

ProcessServerQuery ==
    /\ Opens("server", "QUERY_SERVER") /\ Taken("server")
    /\ Send("server", [Msg("SERVER", Req.num, Activated("sub"), Len(Activated("sub")) + Len(Activated("group")))
                          EXCEPT !.list = @ \o Activated("group")])
    /\ UNCHANGED <<lib, next, menu, loop, saved, sent>>

ProcessRequest == ProcessNotify \/ ProcessLogon \/ ProcessSubscriber \/ ProcessGroup \/ ProcessServerQuery

\* IDM_ACK_NOTIFY and IDM_NAK_NOTIFY: to whoever logged on last, with that number.
AnswerByHand ==
    /\ "server" \in menu.used /\ saved # NoMsg /\ Room
    /\ \E kind \in {"ACK_NOTIFY", "NAK_NOTIFY"} : Send("server", Msg(kind, saved.num, <<>>, 0))
    /\ UNCHANGED <<lib, posted, next, menu, loop, saved, sent>>
-----------------------------------------------------------------------------
(***************************************************************************)
(* The client's window and its notify loop.                                *)
(***************************************************************************)

\* What an answer answers.
Question(kind) ==
    CASE kind = "ACK_LOGON"      -> "LOGON"
      [] kind = "NAK_LOGON"      -> "LOGON"
      [] kind = "ACK_NOTIFY"     -> "NOTIFY"
      [] kind = "NAK_NOTIFY"     -> "NOTIFY"
      [] kind = "ACK_SUBSCRIBER" -> "QUERY_SUBSCRIBER"
      [] kind = "NAK_SUBSCRIBER" -> "QUERY_SUBSCRIBER"
      [] kind = "ACK_GROUP"      -> "QUERY_GROUP"
      [] kind = "NAK_GROUP"      -> "QUERY_GROUP"
      [] OTHER                   -> "QUERY_SERVER"
Heard == [sent EXCEPT !.over = @ \cup {[num |-> Rsp.num, kind |-> Question(Rsp.kind)]}]

\* Most answers are only told to the user.
ProcessAnswer ==
    /\ posted["client"] # <<>> /\ Rsp.kind # "SERVER" /\ Taken("client")
    /\ menu' = [menu EXCEPT !.ask = @ \/ Rsp.kind = "ACK_LOGON"]
    /\ loop' = IF Rsp.kind = "ACK_NOTIFY"
               THEN [loop EXCEPT !.post = TRUE] ELSE loop
    /\ sent' = Heard
    /\ UNCHANGED <<lib, net, next, saved>>

\* The list of the server is asked for in two more messages, with the same number.
\* The first Len(Activated("sub")) numbers are the subscribers'.
FollowUps(m) ==
    LET subs == SubSeq(m.list, 1, Len(Activated("sub")))
        groups == SubSeq(m.list, Len(Activated("sub")) + 1, m.size)
    IN  (IF subs = <<>> THEN <<>> ELSE <<Msg("QUERY_SUBSCRIBER", m.num, subs, Len(subs))>>)
        \o (IF groups = <<>> THEN <<>> ELSE <<Msg("QUERY_GROUP", m.num, groups, Len(groups))>>)

ProcessServerAnswer ==
    /\ Opens("client", "SERVER") /\ Taken("client")
    /\ net' = IF lib["server"].listens /\ lib["client"].ready
              THEN [net EXCEPT !["server"] = @ \o FollowUps(Rsp)] ELSE net
    /\ sent' = [Heard EXCEPT !.asked = @ \cup Asked(ToSet(FollowUps(Rsp)))]
    /\ UNCHANGED <<lib, next, menu, loop, saved>>

Numbered(kind, list) ==
    LET m == Msg(kind, next, list, Len(list)) IN
    /\ next <= MaxNumber
    /\ next' = next + 1
    /\ Send("client", m)
    /\ sent' = [sent EXCEPT !.asked = @ \cup Asked({m})]

\* The commands of the client menu.  The dialog of the queries offers one entry, and
\* that of the notification the numbers from 1 for which a message length is known.
Notifiable == 1 .. Items["sub"] - 1

Ask ==
    /\ menu.ask /\ loop.at = "closed" /\ Room
    /\ \/ \E s \in Notifiable : Numbered("NOTIFY", <<s>>)
       \/ Numbered("QUERY_SUBSCRIBER", <<0>>)
       \/ Numbered("QUERY_GROUP", <<0>>)
       \/ Numbered("QUERY_SERVER", <<>>)
    /\ UNCHANGED <<lib, posted, menu, loop, saved>>

\* The notification, continuously: a thread sends until the dialog is cancelled.
LoopOpens ==
    /\ menu.ask /\ loop.at = "closed" /\ Notifiable # {}
    /\ loop' = [loop EXCEPT !.at = "send", !.post = FALSE]
    /\ UNCHANGED <<lib, net, posted, next, menu, saved, sent>>

LoopSends ==
    /\ loop.at = "send" /\ Room
    /\ \E s \in Notifiable : Numbered("NOTIFY", <<s>>)
    /\ loop' = [loop EXCEPT !.at = "wait", !.num = next]
    /\ UNCHANGED <<lib, posted, menu, saved>>

\* Five seconds, or the semaphore; which is reset either way.
LoopTimesOut ==
    /\ loop.at = "wait"
    /\ loop' = [loop EXCEPT !.at = "send", !.post = FALSE]
    /\ UNCHANGED <<lib, net, posted, next, menu, saved, sent>>

LoopIsPosted ==
    /\ loop.at = "wait" /\ loop.post
    /\ loop' = [loop EXCEPT !.at = "send", !.post = FALSE]
    /\ UNCHANGED <<lib, net, posted, next, menu, saved, sent>>

LoopCloses ==
    /\ loop.at # "closed"
    /\ loop' = [loop EXCEPT !.at = "closed"]
    /\ UNCHANGED <<lib, net, posted, next, menu, saved, sent>>

ProcessResponse == ProcessAnswer \/ ProcessServerAnswer
Thread(side) == ThreadStarts(side) \/ ThreadAccepts(side)

Next ==
    \/ \E side \in Sides : Load(side) \/ Stop(side) \/ Thread(side) \/ ThreadFails(side)
    \/ ProcessRequest \/ ProcessResponse
    \/ AnswerByHand \/ Ask \/ LoopOpens \/ LoopSends \/ LoopTimesOut \/ LoopIsPosted \/ LoopCloses

Spec == Init /\ [][Next]_vars

\* The threads run and the windows take their messages; the users do as they like.
FairSpec == Spec /\ WF_vars(ProcessRequest) /\ WF_vars(ProcessResponse)
                 /\ \A side \in Sides : WF_vars(Thread(side))
-----------------------------------------------------------------------------
(***************************************************************************)
(* Properties.                                                             *)
(***************************************************************************)

\* The socket that a library holds, if it listens, has the one thread that accepts
\* from it, a thread has a socket to accept from, and no connection waits where nobody
\* listens, whichever of starting, failing and stopping came last.  The listener that
\* a refused start took from its library (Deserted) is all that can be left behind.
Deserted(side) == lib[side].listens /\ ~lib[side].held
ListenerHasThread ==
    \A side \in Sides :
        /\ lib[side].held => lib[side].listens /\ lib[side].thread \in {"born", "accepts"}
        /\ lib[side].thread # "none" => lib[side].held \/ Deserted(side)
        /\ lib[side].ready => lib[side].thread \in {"accepts", "strays"}
        /\ net[side] # <<>> => lib[side].listens

\* A client is answered under the number of something it asked, and with what it
\* asked for, also after restarts of either side; the operator's own answers carry
\* the logon's number.
Answers == ToSet(net["client"]) \cup ToSet(posted["client"])
AnswersMatch ==
    \A m \in Answers :
        \/ m.kind \in {"ACK_NOTIFY", "NAK_NOTIFY"} /\ m.num = 0
        \/ [num |-> m.num, kind |-> Question(m.kind)] \in sent.asked

\* An answer has as many entries as its size tells, so that the client reads no
\* remains of the request.
SizesTrue == \A m \in Answers : m.size = Len(m.list)

\* What the client asked for is answered in the end, unless a side is stopped or
\* fails, a refused start has taken the listener of one from its thread, or the group
\* query runs out of memory: nothing stays asked.
EachAnswered == []<>(\/ {x \in sent.asked : x.kind # "QUERY_GROUP"} \subseteq sent.over
                     \/ \E side \in Sides : Deserted(side))
=============================================================================
