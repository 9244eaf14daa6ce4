---------------------------- MODULE ServerWorker ----------------------------
(***************************************************************************)
(* zserver's tcp_share_worker (include/zrp/server.hpp): one connection a   *)
(* client keeps open so that a visitor of its share can be carried over    *)
(* it.  Until it is visited the worker answers pings; visit() then takes   *)
(* the connection over and hands the socket to the forwarder.              *)
(*                                                                         *)
(* Four coroutines touch the worker: recv_msgs (R), send_msgs (S),         *)
(* ddl_actor (D) and, once a visitor came, the body of visit() (V).  They  *)
(* run on ioc_, which one thread runs: a coroutine goes from one co_await  *)
(* to the next without interruption, and what it has posted runs in the    *)
(* order it was posted.  So the state has a run queue, and an action is    *)
(* one handler at the head of it.  to_send_ is a waitqueue whose only      *)
(* consumer is S; its three lambdas are handlers here (module WaitQueue    *)
(* checks the queue by itself).                                            *)
(*                                                                         *)
(* A message crosses the stream as two chunks, the length and the body,    *)
(* because recv_msg awaits two composed reads.  Such a read may get a part *)
(* of its chunk and go back to the socket for the rest: if it is cancelled *)
(* then, or another read comes first, that part is lost to everyone.  A    *)
(* control message fits the socket's buffer, so sending one is a single    *)
(* step.                                                                   *)
(***************************************************************************)
EXTENDS Naturals, SequencesExt

VARIABLES
  w,         \* the worker, its run queue and its pending reads
  up,        \* every chunk the client has sent on this connection
  upRead,    \* how many of them the server has read
  down,      \* every chunk the server has sent
  gone       \* the peer has closed, or the connection is broken

vars == <<w, up, upRead, down>>

Coroutines == {"R", "S", "D"}

(* What a handler resumes with: a message and the part of it, or the fact  *)
(* that the operation went well or threw.                                  *)
Ok == <<"ok", "none">>
Error == <<"error", "none">>
Part == <<"part", "none">>    \* some of the bytes, to be read on from there
Torn == <<"torn", "none">>    \* bytes that belong to no whole chunk
Handler(a, got) == [to |-> a, got |-> got]
Chunks(m) == <<<<m, "length">>, <<m, "body">>>>

Init ==
  w = [ready      |-> <<Handler("R", Ok), Handler("S", Ok), Handler("D", Ok)>>,
       pc         |-> [R |-> "start", S |-> "start", D |-> "start", V |-> "none"],
       length     |-> [R |-> "none", V |-> "none"], \* read so far: a length without its body
       torn       |-> "none",    \* who has some bytes of the next chunk, or "lost"
       reads      |-> <<>>,      \* pending reads of s_, in the reactor's order
       waiting    |-> FALSE,     \* to_send_.q_ holds S
       backlog    |-> <<>>,      \* to_send_.vq_: <<provider, message>>
       sendClosed |-> FALSE,     \* to_send_.closed_
       visited    |-> FALSE,     \* visited_
       confirmed  |-> FALSE,     \* visited_confirmed_
       stopping   |-> FALSE,     \* stopping_
       sock       |-> "open",    \* s_: open, closed, or moved to the forwarder
       ddl        |-> "max"]     \* ddl_: max, armed or expired

-----------------------------------------------------------------------------
(* The pieces handlers are made of: each maps a state of the worker to the *)
(* state after that statement.                                             *)

Post(x, a, got) == [x EXCEPT !.ready = Append(@, Handler(a, got))]
GoTo(x, a, l) == [x EXCEPT !.pc[a] = l]

(* Setting or cancelling ddl_ aborts a pending async_wait on it.           *)
WakeDdl(x) == IF x.pc.D = "waiting" THEN Post(GoTo(x, "D", "woken"), "D", Ok) ELSE x
SetDdl(x) == WakeDdl([x EXCEPT !.ddl = "armed"])
CancelDdl(x) == WakeDdl([x EXCEPT !.ddl = "max"])
AwaitDdl(x) == IF x.ddl = "expired" THEN Post(GoTo(x, "D", "woken"), "D", Ok)
                                    ELSE GoTo(x, "D", "waiting")

CancelReads(x) ==
  [x EXCEPT !.ready = @ \o [i \in DOMAIN x.reads |-> Handler(x.reads[i], Error)],
            !.reads = <<>>]

StartRead(x, a, l) ==
  IF x.sock = "open" THEN [GoTo(x, a, l) EXCEPT !.reads = Append(@, a)]
                     ELSE Post(GoTo(x, a, l), a, Error)

Provide(x, a, m) == Post(GoTo(x, a, "providing"), "provide", <<a, m>>)
Wait(x) == Post(GoTo(x, "S", "getting"), "wait", Ok)
CloseSend(x) == Post([x EXCEPT !.sendClosed = TRUE], "drain", Ok)

(* Mutant: try_stop() leaves to_send_ open.                                *)
TryStopLeavesQueueOpen(x) ==
  IF x.visited THEN [x EXCEPT !.stopping = TRUE]
  ELSE CancelDdl([CancelReads(x) EXCEPT !.stopping = TRUE, !.sock = "closed"])

TryStop(x) ==
  LET y == [x EXCEPT !.stopping = TRUE] IN
    IF x.visited THEN y
    ELSE CancelDdl([CancelReads(CloseSend(y)) EXCEPT !.sock = "closed"])

(* A coroutine that ends with an exception.                                *)
Throw(x, a) ==
  LET y == GoTo(x, a, "done") IN
    IF x.visited \/ x.stopping THEN y ELSE TryStop(y)

(* Mutant: the deadline of the next message is not set.                    *)
RecvMsgWithoutDdl(x) == StartRead(x, "R", "length")
RecvMsg(x) == StartRead(SetDdl(x), "R", "length")

-----------------------------------------------------------------------------
(* Handlers, run from the head of the queue.                               *)

Resumes(a, l) == w.ready # <<>> /\ Head(w.ready).to = a /\ w.pc[a] = l
Got == Head(w.ready).got
Rest == [w EXCEPT !.ready = Tail(@)]

(* The composed read goes on; so does one that has got bytes of nothing    *)
(* whole, unless it takes them for a length that is too big or for a body  *)
(* that does not parse.                                                    *)
ReadOn(a, l) == Got \in {Part, Torn} /\ w' = StartRead(Rest, a, l)

(* recv_msgs                                                               *)
RecvStart == Resumes("R", "start") /\ w' = RecvMsg(Rest)

RecvLength ==
  /\ Resumes("R", "length")
  /\ \/ /\ Got[2] = "length"
        /\ w' = StartRead([Rest EXCEPT !.length.R = Got[1]], "R", "body")
     \/ ReadOn("R", "length")
     \/ Got[2] # "length" /\ Got # Part /\ w' = Throw(Rest, "R")

(* Mutant: a ping is answered with the message that was received.          *)
RecvBodyEchoes ==
  /\ Resumes("R", "body") /\ Got[2] = "body" /\ Got[1] = w.length.R
  /\ w' = Provide([Rest EXCEPT !.length.R = "none"], "R", Got[1])

RecvBody ==
  /\ Resumes("R", "body")
  /\ \/ /\ Got = <<"ping", "body">> /\ w.length.R = "ping"
        /\ w' = Provide([Rest EXCEPT !.length.R = "none"], "R", "pong")
     \/ ReadOn("R", "body")
     \/ /\ ~(Got = <<"ping", "body">> /\ w.length.R = "ping") /\ Got # Part
        /\ w' = Throw(Rest, "R")

RecvAnswered ==
  /\ Resumes("R", "providing")
  /\ \/ Got = Ok /\ w' = RecvMsg(Rest)
     \/ Got # Ok /\ w' = Throw(Rest, "R")

(* send_msgs                                                               *)
SendStart == Resumes("S", "start") /\ w' = Wait(Rest)

SendMsg ==
  /\ Resumes("S", "getting") /\ Got # Error
  /\ \/ /\ w.sock = "open"
        /\ down' = down \o Chunks(Got[1])
        /\ w' = Post(GoTo(Rest, "S", "sending"), "S", Ok)
     \/ /\ w.sock # "open" \/ gone
        /\ w' = Post(GoTo(Rest, "S", "sending"), "S", Error)
        /\ UNCHANGED down

SendAborted == Resumes("S", "getting") /\ Got = Error /\ w' = Throw(Rest, "S")

SendDone ==
  /\ Resumes("S", "sending")
  /\ \/ Got = Ok /\ w' = Wait(Rest)
     \/ Got # Ok /\ w' = Throw(Rest, "S")

(* ddl_actor                                                               *)
DdlStart == Resumes("D", "start") /\ w' = AwaitDdl(Rest)

DdlWake ==
  /\ Resumes("D", "woken")
  /\ \/ /\ w.stopping \/ w.confirmed
        /\ w' = GoTo(Rest, "D", "done")
     \/ /\ ~w.stopping /\ ~w.confirmed /\ w.ddl = "expired"
        /\ w' = TryStop(GoTo(Rest, "D", "done"))
     \/ /\ ~w.stopping /\ ~w.confirmed /\ w.ddl # "expired"
        /\ w' = AwaitDdl(Rest)

(* visit(): its body, co_spawned on ioc_ by the visitor's coroutine.       *)
VisitStart ==
  /\ Resumes("V", "start")
  /\ \/ /\ w.sock = "open"
        /\ w' = Provide(SetDdl(CancelReads([Rest EXCEPT !.visited = TRUE])), "V", "visit")
     \/ /\ w.sock # "open"    \* s_.cancel() throws on a closed socket
        /\ w' = GoTo([Rest EXCEPT !.visited = TRUE], "V", "failed")

(* Mutants: to_send_ stays open after the visit was sent; visited_-         *)
(* confirmed_ is set when the visit was sent.                              *)
VisitSentKeepsQueueOpen ==
  Resumes("V", "providing") /\ w' = StartRead(Rest, "V", "length")
VisitSentConfirms ==
  /\ Resumes("V", "providing")
  /\ w' = [StartRead(CloseSend(Rest), "V", "length") EXCEPT !.confirmed = TRUE]

VisitSent ==
  /\ Resumes("V", "providing")
  /\ \/ Got = Ok /\ w' = StartRead(CloseSend(Rest), "V", "length")
     \/ Got # Ok /\ w' = GoTo(Rest, "V", "failed")

VisitLength ==
  /\ Resumes("V", "length")
  /\ \/ /\ Got[2] = "length"
        /\ w' = StartRead([Rest EXCEPT !.length.V = Got[1]], "V", "body")
     \/ ReadOn("V", "length")
     \/ Got[2] # "length" /\ Got # Part /\ w' = GoTo(Rest, "V", "failed")

(* Mutants: any message confirms the visit; a ping on its way fails it.    *)
VisitBodyConfirmsAlways ==
  /\ Resumes("V", "body")
  /\ w' = CancelDdl(GoTo([Rest EXCEPT !.confirmed = TRUE], "V", "confirmed"))
VisitBodyRejectsPing ==
  /\ Resumes("V", "body")
  /\ IF Got = <<"confirmed", "body">> /\ w.length.V = "confirmed"
     THEN w' = CancelDdl(GoTo([Rest EXCEPT !.confirmed = TRUE], "V", "confirmed"))
     ELSE w' = GoTo(Rest, "V", "failed")

VisitBody ==
  /\ Resumes("V", "body")
  /\ \/ /\ Got = <<"ping", "body">> /\ w.length.V = "ping"
        /\ w' = StartRead([Rest EXCEPT !.length.V = "none"], "V", "length")
     \/ /\ Got = <<"confirmed", "body">> /\ w.length.V = "confirmed"
        /\ w' = CancelDdl(GoTo([Rest EXCEPT !.confirmed = TRUE], "V", "confirmed"))
     \/ ReadOn("V", "body")
     \/ /\ ~(Got[2] = "body" /\ Got[1] \in {"ping", "confirmed"} /\ Got[1] = w.length.V)
        /\ Got # Part
        /\ w' = GoTo(Rest, "V", "failed")

(* The lambdas of to_send_.                                                *)
RunWait ==
  /\ w.ready # <<>> /\ Head(w.ready).to = "wait"
  /\ \/ /\ w.sendClosed
        /\ w' = Post(Rest, "S", Error)
     \/ /\ ~w.sendClosed /\ w.backlog # <<>>
        /\ LET r == Head(w.backlog) IN
             w' = Post(Post([Rest EXCEPT !.backlog = Tail(@)],
                            "S", <<r[2], "message">>), r[1], Ok)
     \/ /\ ~w.sendClosed /\ w.backlog = <<>>
        /\ w' = [Rest EXCEPT !.waiting = TRUE]

RunProvide ==
  /\ w.ready # <<>> /\ Head(w.ready).to = "provide"
  /\ \/ /\ w.sendClosed
        /\ w' = Post(Rest, Got[1], Error)
     \/ /\ ~w.sendClosed /\ w.waiting
        /\ w' = Post(Post([Rest EXCEPT !.waiting = FALSE],
                          "S", <<Got[2], "message">>), Got[1], Ok)
     \/ /\ ~w.sendClosed /\ ~w.waiting
        /\ w' = [Rest EXCEPT !.backlog = Append(@, Got)]

RunDrain ==
  /\ w.ready # <<>> /\ Head(w.ready).to = "drain"
  /\ w' = [Rest EXCEPT
             !.ready = @ \o (IF w.waiting THEN <<Handler("S", Error)>> ELSE <<>>)
                         \o [i \in DOMAIN w.backlog |-> Handler(w.backlog[i][1], Error)],
             !.waiting = FALSE, !.backlog = <<>>]

RunHandler ==
  \/ SendMsg /\ UNCHANGED <<up, upRead>>
  \/ /\ \/ RecvStart \/ RecvLength \/ RecvBody \/ RecvAnswered
        \/ SendStart \/ SendAborted \/ SendDone
        \/ DdlStart \/ DdlWake
        \/ VisitStart \/ VisitSent \/ VisitLength \/ VisitBody
        \/ RunWait \/ RunProvide \/ RunDrain
     /\ UNCHANGED <<up, upRead, down>>

-----------------------------------------------------------------------------
(* What completes or starts from outside.                                  *)

(* The oldest pending read gets what is left of the next chunk, and has    *)
(* the chunk unless the other one has taken a part of it: then both have   *)
(* bytes that are nothing, and neither will read a whole chunk any more.   *)
Whole(a) == w.torn \in {"none", a}

ReadCompletes ==
  /\ w.reads # <<>> /\ upRead < Len(up)
  /\ LET a == Head(w.reads) IN
       \/ /\ Whole(a)
          /\ w' = Post([w EXCEPT !.reads = Tail(@), !.torn = "none"], a, up[upRead + 1])
       \/ /\ ~Whole(a)
          /\ w' = Post([w EXCEPT !.reads = Tail(@), !.torn = "lost"], a, Torn)
  /\ upRead' = upRead + 1
  /\ UNCHANGED <<up, down>>

(* Or it gets the first bytes of the chunk, and the rest is yet to come.   *)
(* Two parts are enough to lose one.                                       *)
ReadPart ==
  /\ w.reads # <<>> /\ upRead < Len(up) /\ w.torn = "none"
  /\ LET a == Head(w.reads) IN
       w' = Post([w EXCEPT !.reads = Tail(@), !.torn = a], a, Part)
  /\ UNCHANGED <<up, upRead, down>>

ReadFails ==
  /\ w.reads # <<>> /\ gone
  /\ w' = Post([w EXCEPT !.reads = Tail(@)], Head(w.reads), Error)
  /\ UNCHANGED <<up, upRead, down>>

DdlExpires ==
  /\ w.ddl = "armed"
  /\ w' = WakeDdl([w EXCEPT !.ddl = "expired"])
  /\ UNCHANGED <<up, upRead, down>>

(* Somebody holds a reference: a coroutine that has not ended.             *)
Alive == \/ \E a \in Coroutines : w.pc[a] # "done"
         \/ w.pc.V \notin {"none", "failed", "handed"}

(* got_worker, spawned after the three coroutines, has put the worker into *)
(* the share's map and its queue.                                          *)
Registered == Alive /\ \A a \in Coroutines : w.pc[a] # "start"

(* A visitor took the worker from the queue and could lock it.             *)
VisitorComes ==
  /\ w.pc.V = "none" /\ Registered
  /\ w' = Post(GoTo(w, "V", "start"), "V", Ok)
  /\ UNCHANGED <<up, upRead, down>>

(* The forwarder's thread resumes in visit() and moves s_ out.             *)
HandOver ==
  /\ w.pc.V = "confirmed"
  /\ w' = [GoTo(w, "V", "handed") EXCEPT !.sock = "moved"]
  /\ UNCHANGED <<up, upRead, down>>

(* The share or its controller stops its workers; a worker that has        *)
(* stopped by itself is not stopped again (it would only post one more     *)
(* empty drain).                                                           *)
StopWorker ==
  /\ ~w.stopping /\ Registered
  /\ w' = TryStop(w)
  /\ UNCHANGED <<up, upRead, down>>

(* The last reference went: the socket's destructor closes it.             *)
Destroyed ==
  /\ ~Alive /\ w.sock = "open"
  /\ w' = [w EXCEPT !.sock = "closed"]
  /\ UNCHANGED <<up, upRead, down>>

Next == \/ RunHandler
        \/ ReadCompletes \/ ReadPart \/ ReadFails \/ DdlExpires
        \/ VisitorComes \/ HandOver \/ StopWorker \/ Destroyed
=============================================================================
