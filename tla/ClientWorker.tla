---------------------------- MODULE ClientWorker ----------------------------
(***************************************************************************)
(* zclient's tcp_share_worker (include/zrp/client.hpp): the other end of a *)
(* worker connection.  It pings when nothing was received for a while and  *)
(* waits to be visited; then it confirms and gives its socket to the       *)
(* share's queue, where the forwarder takes it.                            *)
(*                                                                         *)
(* Two coroutines, send_and_recv_msgs (C) and ping_actor (P), on an        *)
(* io_context that one thread runs: handlers, run queue and chunks are as  *)
(* in module ServerWorker.  Only C reads, and when its read is cancelled   *)
(* nobody reads on, so that a chunk may come in parts changes nothing at   *)
(* this end.  The hello that opens the connection is read before the       *)
(* server has a worker, so it is not among the chunks here.                *)
(***************************************************************************)
EXTENDS Naturals, SequencesExt

CONSTANT MaxPings    \* bound: how often the ping timer may expire

VARIABLES
  c,         \* the worker, its run queue and its pending read
  up,        \* every chunk the client has sent on this connection
  down,      \* every chunk the server has sent
  downRead,  \* how many of them the client has read
  gone       \* the peer has closed, or the connection is broken

vars == <<c, up, down, downRead>>

Ok == <<"ok", "none">>
Error == <<"error", "none">>
Handler(a, got) == [to |-> a, got |-> got]
Chunks(m) == <<<<m, "length">>, <<m, "body">>>>

Init ==
  c = [ready    |-> <<Handler("C", Ok), Handler("P", Ok)>>,
       pc       |-> [C |-> "start", P |-> "start"],
       greeted  |-> FALSE,     \* the hello has been written
       length   |-> "none",    \* the message whose length was read last
       reading  |-> FALSE,     \* C has a read pending on s_
       timer    |-> "max",     \* ping_timer_: max, armed or expired
       pings    |-> 0,         \* how often it has expired
       visited  |-> FALSE,     \* visited_
       stopping |-> FALSE,     \* stopping_
       sock     |-> "open"]    \* s_: open, closed, or moved to the share's queue

-----------------------------------------------------------------------------
Post(x, a, got) == [x EXCEPT !.ready = Append(@, Handler(a, got))]
GoTo(x, a, l) == [x EXCEPT !.pc[a] = l]

(* Setting or cancelling ping_timer_ aborts a pending async_wait on it.    *)
WakePing(x) == IF x.pc.P = "waiting" THEN Post(GoTo(x, "P", "woken"), "P", Ok) ELSE x
SetPingTimer(x) == WakePing([x EXCEPT !.timer = "armed"])
AwaitTimer(x) == IF x.timer = "expired" THEN Post(GoTo(x, "P", "woken"), "P", Ok)
                                        ELSE GoTo(x, "P", "waiting")

StartRead(x, l) == IF x.sock = "open" THEN [GoTo(x, "C", l) EXCEPT !.reading = TRUE]
                                      ELSE Post(GoTo(x, "C", l), "C", Error)

CloseSocket(x) ==
  LET y == IF x.sock = "open" THEN [x EXCEPT !.sock = "closed"] ELSE x IN
    IF x.reading THEN Post([y EXCEPT !.reading = FALSE], "C", Error) ELSE y

TryStop(x) == WakePing(CloseSocket([x EXCEPT !.stopping = TRUE]))

(* A coroutine that ends with an exception.                                *)
Throw(x, a) ==
  LET y == GoTo(x, a, "done") IN IF x.stopping THEN y ELSE TryStop(y)

(* One turn of the receiving loop.                                         *)
Receive(x) == StartRead(SetPingTimer(x), "length")

-----------------------------------------------------------------------------
(* Handlers, run from the head of the queue.                               *)

Resumes(a, l) == c.ready # <<>> /\ Head(c.ready).to = a /\ c.pc[a] = l
Got == Head(c.ready).got
Rest == [c EXCEPT !.ready = Tail(@)]

(* send_msg: the whole message is written, or the write fails.             *)
SendMsg(x, a, m) ==
  \/ /\ c.sock = "open"
     /\ up' = up \o Chunks(m)
     /\ c' = Post(GoTo(x, a, "sending"), a, Ok)
  \/ /\ c.sock # "open" \/ gone
     /\ c' = Post(GoTo(x, a, "sending"), a, Error)
     /\ UNCHANGED up

(* send_and_recv_msgs                                                      *)
SendHello ==
  /\ Resumes("C", "start")
  /\ \/ /\ c.sock = "open"
        /\ c' = Post(GoTo([Rest EXCEPT !.greeted = TRUE], "C", "greeting"), "C", Ok)
     \/ /\ c.sock # "open" \/ gone
        /\ c' = Post(GoTo(Rest, "C", "greeting"), "C", Error)
  /\ UNCHANGED up

HelloSent ==
  /\ Resumes("C", "greeting")
  /\ \/ Got = Ok /\ c' = Receive(Rest)
     \/ Got # Ok /\ c' = Throw(Rest, "C")
  /\ UNCHANGED up

RecvLength ==
  /\ Resumes("C", "length")
  /\ \/ /\ Got[2] = "length"
        /\ c' = StartRead([Rest EXCEPT !.length = Got[1]], "body")
     \/ Got[2] # "length" /\ c' = Throw(Rest, "C")
  /\ UNCHANGED up

HandlePong ==
  /\ Resumes("C", "body") /\ Got = <<"pong", "body">> /\ c.length = "pong"
  /\ c' = Receive(Rest)
  /\ UNCHANGED up

HandleVisit ==
  /\ Resumes("C", "body") /\ Got = <<"visit", "body">> /\ c.length = "visit"
  /\ SendMsg(WakePing([Rest EXCEPT !.visited = TRUE, !.timer = "max"]), "C", "confirmed")

RecvUnexpected ==
  /\ Resumes("C", "body")
  /\ ~(Got[2] = "body" /\ Got[1] \in {"pong", "visit"} /\ Got[1] = c.length)
  /\ c' = Throw(Rest, "C")
  /\ UNCHANGED up

(* The confirmation is out: wq_.provide(move(s_)).                         *)
ConfirmSent ==
  /\ Resumes("C", "sending")
  /\ \/ /\ Got = Ok
        /\ c' = [GoTo(Rest, "C", "giving") EXCEPT
                   !.sock = IF @ = "open" THEN "moved" ELSE @]
     \/ Got # Ok /\ c' = Throw(Rest, "C")
  /\ UNCHANGED up

Given ==
  /\ Resumes("C", "given")
  /\ \/ Got = Ok /\ c' = GoTo(Rest, "C", "done")    \* while (!visited_) ends
     \/ Got # Ok /\ c' = Throw(Rest, "C")
  /\ UNCHANGED up

(* ping_actor                                                              *)
PingStart == Resumes("P", "start") /\ c' = AwaitTimer(Rest) /\ UNCHANGED up

PingEnds ==
  /\ Resumes("P", "woken") /\ (c.stopping \/ c.visited)
  /\ c' = GoTo(Rest, "P", "done")
  /\ UNCHANGED up

SendPing ==
  /\ Resumes("P", "woken") /\ ~c.stopping /\ ~c.visited /\ c.timer = "expired"
  /\ SendMsg([Rest EXCEPT !.timer = "max"], "P", "ping")

TimerWasReset ==
  /\ Resumes("P", "woken") /\ ~c.stopping /\ ~c.visited /\ c.timer # "expired"
  /\ c' = AwaitTimer(Rest)
  /\ UNCHANGED up

(* The loop goes back to async_wait without looking at the flags.          *)
PingSent ==
  /\ Resumes("P", "sending")
  /\ \/ Got = Ok /\ c' = AwaitTimer(Rest)
     \/ Got # Ok /\ c' = Throw(Rest, "P")
  /\ UNCHANGED up

RunHandler ==
  /\ \/ SendHello \/ HelloSent \/ RecvLength \/ HandlePong \/ HandleVisit \/ RecvUnexpected
     \/ ConfirmSent \/ Given
     \/ PingStart \/ PingEnds \/ SendPing \/ TimerWasReset \/ PingSent
  /\ UNCHANGED <<down, downRead>>

-----------------------------------------------------------------------------
(* What completes or starts from outside.                                  *)

ReadCompletes ==
  /\ c.reading /\ downRead < Len(down)
  /\ c' = Post([c EXCEPT !.reading = FALSE], "C", down[downRead + 1])
  /\ downRead' = downRead + 1
  /\ UNCHANGED <<up, down>>

ReadFails ==
  /\ c.reading /\ gone
  /\ c' = Post([c EXCEPT !.reading = FALSE], "C", Error)
  /\ UNCHANGED <<up, down, downRead>>

TimerExpires ==
  /\ c.timer = "armed" /\ c.pings < MaxPings
  /\ c' = WakePing([c EXCEPT !.timer = "expired", !.pings = @ + 1])
  /\ UNCHANGED <<up, down, downRead>>

(* The share's queue answers: the forwarder took the socket, or the queue  *)
(* was closed and the socket dropped.                                      *)
ForwarderTakes ==
  /\ c.pc.C = "giving"
  /\ c' = Post(GoTo(c, "C", "given"), "C", Ok)
  /\ UNCHANGED <<up, down, downRead>>

QueueAborts ==
  /\ c.pc.C = "giving"
  /\ c' = Post([GoTo(c, "C", "given") EXCEPT !.sock = "closed"], "C", Error)
  /\ UNCHANGED <<up, down, downRead>>

Alive == \E a \in {"C", "P"} : c.pc[a] # "done"

(* The share stops its workers; again, once is enough.                     *)
StopWorker ==
  /\ ~c.stopping /\ Alive
  /\ c' = TryStop(c)
  /\ UNCHANGED <<up, down, downRead>>

Next == \/ RunHandler
        \/ ReadCompletes \/ ReadFails \/ TimerExpires
        \/ ForwarderTakes \/ QueueAborts \/ StopWorker
=============================================================================
