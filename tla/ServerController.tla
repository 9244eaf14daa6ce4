--------------------------- MODULE ServerController ---------------------------
(***************************************************************************)
(* zserver's controller_socket (include/zrp/server.hpp), from run() on:    *)
(* recv_msgs reads pings and leaves a pong for each in to_send_, send_msgs *)
(* sends the hello and then what it finds there.  Whom the controller's    *)
(* shares belong to is ServerRegistry.                                     *)
(*                                                                         *)
(* Both coroutines and the queue's lambdas run on ioc_, each action up to  *)
(* the next co_await; in whichever order, which the queue allows too.      *)
(* try_stop is one step on that thread and three when a share's error      *)
(* calls it on a forwarder thread.  Messages are counted: pings one way,   *)
(* one hello and then pongs the other way.                                 *)
(***************************************************************************)
EXTENDS Naturals

VARIABLES
  recv,      \* the coroutine recv_msgs, or its value in to_send_
  send,      \* the coroutine send_msgs, or its wait on to_send_
  closed,    \* to_send_.closed_
  drain,     \* a drain of to_send_ is posted
  open,      \* s_ is open
  stopping,  \* stopping_
  teller,    \* how far try_stop on a forwarder thread is
  ddl,       \* ddl_
  up,        \* messages the client has sent
  upRead,    \* how many of them were read
  down,      \* messages sent to the client
  gone       \* the peer has closed, or the connection is lost

stop == <<closed, drain, open, stopping, ddl>>
vars == <<recv, send, stop, teller, upRead, down>>

Init ==
  /\ recv = "start" /\ send = "hello" /\ closed = FALSE /\ drain = FALSE
  /\ open = TRUE /\ stopping = FALSE /\ teller = "none" /\ ddl = "max"
  /\ upRead = 0 /\ down = 0

(* Mutant: to_send_ stays open.                                            *)
TryStopLeavesQueueOpen ==
  stopping' = TRUE /\ open' = FALSE /\ ddl' = "max" /\ UNCHANGED <<closed, drain>>

TryStop ==
  stopping' = TRUE /\ closed' = TRUE /\ drain' = TRUE /\ open' = FALSE /\ ddl' = "max"

(* handle_error.                                                           *)
Throw == IF stopping THEN UNCHANGED stop ELSE TryStop

Unreachable == ~open \/ gone

-----------------------------------------------------------------------------
(* recv_msgs.  A read that has completed is handled even after a stop.     *)

Receive ==
  /\ recv \in {"start", "answered"} /\ recv' = "reading" /\ ddl' = "armed"
  /\ UNCHANGED <<send, closed, drain, open, stopping, teller, upRead, down>>

(* Mutant: a message is handled before all of it has come.                 *)
ReadCompletesEarly ==
  /\ recv = "reading" /\ open /\ upRead <= up
  /\ recv' = "read" /\ upRead' = upRead + 1
  /\ UNCHANGED <<send, stop, teller, down>>

ReadCompletes ==
  /\ recv = "reading" /\ open /\ upRead < up
  /\ recv' = "read" /\ upRead' = upRead + 1
  /\ UNCHANGED <<send, stop, teller, down>>

HandlePing ==
  /\ recv = "read" /\ recv' = "providing"
  /\ UNCHANGED <<send, stop, teller, upRead, down>>

ReadFails ==
  /\ recv = "reading" /\ Unreachable
  /\ recv' = "ended" /\ Throw
  /\ UNCHANGED <<send, teller, upRead, down>>

RecvAborted ==
  /\ recv = "aborted"
  /\ recv' = "ended" /\ Throw
  /\ UNCHANGED <<send, teller, upRead, down>>

-----------------------------------------------------------------------------
(* send_msgs.  An error of the hello is not caught, and stops nothing.     *)

SendHello ==
  /\ send = "hello"
  /\ \/ open /\ send' = "waiting" /\ down' = down + 1
     \/ Unreachable /\ send' = "ended" /\ UNCHANGED down
  /\ UNCHANGED <<recv, stop, teller, upRead>>

SendPong ==
  /\ send = "got"
  /\ \/ open /\ send' = "waiting" /\ down' = down + 1 /\ UNCHANGED stop
     \/ Unreachable /\ send' = "ended" /\ Throw /\ UNCHANGED down
  /\ UNCHANGED <<recv, teller, upRead>>

SendAborted ==
  /\ send = "aborted"
  /\ send' = "ended" /\ Throw
  /\ UNCHANGED <<recv, teller, upRead, down>>

-----------------------------------------------------------------------------
(* to_send_: the lambdas of wait(), provide() and close().                 *)

RunProvide ==
  /\ recv = "providing"
  /\ \/ closed /\ recv' = "aborted" /\ UNCHANGED send
     \/ ~closed /\ send = "queued" /\ recv' = "answered" /\ send' = "got"
     \/ ~closed /\ send # "queued" /\ recv' = "queued" /\ UNCHANGED send
  /\ UNCHANGED <<stop, teller, upRead, down>>

(* Mutant: a waiter queues up behind a message that is there already.      *)
RunWaitOvertaken ==
  /\ send = "waiting"
  /\ send' = IF closed THEN "aborted" ELSE "queued"
  /\ UNCHANGED <<recv, stop, teller, upRead, down>>

RunWait ==
  /\ send = "waiting"
  /\ \/ closed /\ send' = "aborted" /\ UNCHANGED recv
     \/ ~closed /\ recv = "queued" /\ send' = "got" /\ recv' = "answered"
     \/ ~closed /\ recv # "queued" /\ send' = "queued" /\ UNCHANGED recv
  /\ UNCHANGED <<stop, teller, upRead, down>>

RunDrain ==
  /\ drain /\ drain' = FALSE
  /\ recv' = IF recv = "queued" THEN "aborted" ELSE recv
  /\ send' = IF send = "queued" THEN "aborted" ELSE send
  /\ UNCHANGED <<closed, open, stopping, ddl, teller, upRead, down>>

-----------------------------------------------------------------------------
(* Stops from outside, and time.                                           *)

(* server::try_stop, which asks nobody whether a stop is under way.        *)
Stop == open /\ TryStop /\ UNCHANGED <<recv, send, teller, upRead, down>>

(* A share's error, on a forwarder thread: the flag, the queue, the socket.*)
ShareFails ==
  /\ teller = "none" /\ teller' = "flag" /\ stopping' = TRUE
  /\ UNCHANGED <<recv, send, closed, drain, open, ddl, upRead, down>>

StopGoesOn ==
  /\ \/ /\ teller = "flag" /\ teller' = "queue"
        /\ closed' = TRUE /\ drain' = TRUE /\ UNCHANGED <<open, ddl>>
     \/ /\ teller = "queue" /\ teller' = "socket"
        /\ open' = FALSE /\ ddl' = "max" /\ UNCHANGED <<closed, drain>>
  /\ UNCHANGED <<recv, send, stopping, upRead, down>>

(* 60 s without a message.  run() spawns no ddl_actor: nobody waits for it.*)
DdlExpires ==
  /\ ddl = "armed" /\ ddl' = "expired"
  /\ UNCHANGED <<recv, send, closed, drain, open, stopping, teller, upRead, down>>

Recv == Receive \/ HandlePing \/ RunProvide \/ RecvAborted \/ (~open /\ ReadFails)
Send == SendHello \/ SendPong \/ SendAborted \/ RunWait
Next == \/ Recv \/ Send \/ RunDrain \/ ReadCompletes \/ ReadFails
        \/ Stop \/ ShareFails \/ StopGoesOn \/ DdlExpires
=============================================================================
