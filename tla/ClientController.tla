--------------------------- MODULE ClientController ---------------------------
(***************************************************************************)
(* zclient's controller (include/zrp/client.hpp) on its connection, once   *)
(* it has sent its hello: controller_socket_send_recv_msgs reads the       *)
(* server's hello, adds the workers and then reads pongs; ping_actor sends *)
(* a ping when ping_timer_ expires.  The workers are ClientPool.           *)
(*                                                                         *)
(* An action goes up to the next co_await.  try_stop is one step on ioc_   *)
(* and three when a share's error calls it on a forwarder thread.          *)
(***************************************************************************)
EXTENDS Naturals

CONSTANT MaxPings    \* bound: how many pings the client sends

VARIABLES
  ctl,        \* the coroutine controller_socket_send_recv_msgs
  ping,       \* the coroutine ping_actor
  armed,      \* ping_timer_ is set to an earlier time than time_point::max()
  copen,      \* s_ is open
  cstopping,  \* stopping_
  cteller,    \* how far try_stop on a forwarder thread is
  up,         \* messages the client has sent
  down,       \* messages the server has sent
  downRead,   \* how many of them were read
  gone        \* the peer has closed, or the connection is lost

stop == <<copen, cstopping>>
vars == <<ctl, ping, armed, stop, cteller, up, downRead>>

Init ==
  /\ ctl = "hello" /\ ping = "waiting" /\ armed = FALSE
  /\ copen = TRUE /\ cstopping = FALSE /\ cteller = "none"
  /\ up = 0 /\ downRead = 0

Unreachable == ~copen \/ gone

(* Cancelling the timer wakes a ping_actor that waits, and a stop ends it. *)
Cancelled == IF ping = "waiting" THEN "ended" ELSE ping

TryStop == cstopping' = TRUE /\ copen' = FALSE /\ ping' = Cancelled

(* handle_error, of the other coroutine.                                   *)
Throw == IF cstopping THEN UNCHANGED <<stop, ping>> ELSE TryStop

-----------------------------------------------------------------------------
(* controller_socket_send_recv_msgs.                                       *)

HelloRead ==
  /\ ctl = "hello" /\ copen /\ downRead < down
  /\ ctl' = "filling" /\ downRead' = downRead + 1
  /\ UNCHANGED <<ping, armed, stop, cteller, up>>

(* set_ping_timer wakes a ping_actor that waits: it ends after a stop, and *)
(* otherwise waits again.                                                  *)
SetPingTimer ==
  armed' = TRUE /\ ping' = IF cstopping THEN Cancelled ELSE ping

(* add_workers has gone through every share.                               *)
Filled ==
  /\ ctl = "filling" /\ ctl' = "serving"
  /\ SetPingTimer
  /\ UNCHANGED <<stop, cteller, up, downRead>>

ReadCompletes ==
  /\ ctl = "serving" /\ copen /\ downRead < down
  /\ ctl' = "read" /\ downRead' = downRead + 1
  /\ UNCHANGED <<ping, armed, stop, cteller, up>>

HandlePong ==
  /\ ctl = "read" /\ ctl' = "serving"
  /\ SetPingTimer
  /\ UNCHANGED <<stop, cteller, up, downRead>>

(* The read fails, or a connect of add_workers.                            *)
CtlFails ==
  /\ ctl = "filling" \/ (ctl \in {"hello", "serving"} /\ Unreachable)
  /\ ctl' = "ended" /\ Throw
  /\ UNCHANGED <<armed, cteller, up, downRead>>

-----------------------------------------------------------------------------
(* ping_actor.                                                             *)

(* Mutant: the timer is not put off while the ping is unanswered.          *)
PingDueAgain ==
  /\ ping = "waiting" /\ armed /\ ~cstopping /\ up < MaxPings /\ copen
  /\ ping' = "writing" /\ up' = up + 1
  /\ UNCHANGED <<armed, ctl, stop, cteller, downRead>>

(* The timer expires; it is at the maximum while the ping is written.      *)
PingDue ==
  /\ ping = "waiting" /\ armed
  /\ \/ cstopping /\ ping' = "ended" /\ UNCHANGED <<armed, up>>
     \/ /\ ~cstopping /\ up < MaxPings /\ armed' = FALSE
        /\ \/ copen /\ ping' = "writing" /\ up' = up + 1
           \/ Unreachable /\ ping' = "failing" /\ UNCHANGED up
  /\ UNCHANGED <<ctl, stop, cteller, downRead>>

(* Whether or not there was a stop meanwhile, ping_actor waits again.      *)
PingSent ==
  /\ ping = "writing" /\ ping' = "waiting"
  /\ UNCHANGED <<ctl, armed, stop, cteller, up, downRead>>

PingFails ==
  /\ ping = "failing" \/ (ping = "writing" /\ Unreachable)
  /\ ping' = "ended" /\ cstopping' = TRUE
  /\ copen' = IF cstopping THEN copen ELSE FALSE
  /\ UNCHANGED <<ctl, armed, cteller, up, downRead>>

-----------------------------------------------------------------------------
(* Stops from outside.                                                     *)

(* try_grace_exit, on ioc_.                                                *)
Sigint ==
  /\ copen /\ TryStop
  /\ UNCHANGED <<ctl, armed, cteller, up, downRead>>

(* A share's error, on a forwarder thread: the flag, the socket, the timer.*)
ShareFails ==
  /\ cteller = "none" /\ cteller' = "flag" /\ cstopping' = TRUE
  /\ UNCHANGED <<ctl, ping, armed, copen, up, downRead>>

StopGoesOn ==
  /\ \/ cteller = "flag" /\ cteller' = "socket" /\ copen' = FALSE /\ UNCHANGED ping
     \/ cteller = "socket" /\ cteller' = "timer" /\ ping' = Cancelled /\ UNCHANGED copen
  /\ UNCHANGED <<ctl, armed, cstopping, up, downRead>>

Ctl == Filled \/ HandlePong \/ (~copen /\ CtlFails)
Ping == PingDue \/ PingSent \/ PingFails
Next == \/ Ctl \/ Ping \/ HelloRead \/ ReadCompletes \/ CtlFails
        \/ Sigint \/ ShareFails \/ StopGoesOn
=============================================================================
