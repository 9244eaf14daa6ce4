------------------------- MODULE ControllerLinkProofs -------------------------
(* Proofs that pings and pongs take turns, for any number of pings, errors *)
(* and stops at any moment, and a connection that may be lost.             *)
EXTENDS ControllerLink, TLAPS

(* Pongs sent, and pings that were read and whose pong is on its way:      *)
(* through recv_msgs and to_send_, or with send_msgs.                      *)
Given == IF down = 0 THEN 0 ELSE down - 1
InHand == (IF recv \in {"read", "providing", "queued"} THEN 1 ELSE 0)
          + (IF send = "got" THEN 1 ELSE 0)

(* The server never has more pongs than pings, and the client arms its     *)
(* timer only when no ping is unanswered.                                  *)
ServerInv == (send = "hello" => down = 0) /\ Given + InHand <= upRead
ClientInv ==
  /\ up \in {Pongs, Pongs + 1}
  /\ armed => up = Pongs
  /\ ctl \in {"hello", "filling"} => up = 0 /\ ~armed
  /\ ctl = "hello" => downRead = 0
  /\ ctl = "filling" => downRead = 1
  /\ ctl \in {"serving", "read"} => downRead > 0
  /\ ctl = "read" => up = Pongs /\ ~armed
TurnInv == TypeOK /\ ServerInv /\ ClientInv

LEMMA InitInv == Init => TurnInv
<1> SUFFICES ASSUME Init PROVE TurnInv
  OBVIOUS
<1>1. ServerTypes /\ ClientTypes
  BY DEF Init, S!Init, C!Init, ServerTypes, ClientTypes
<1>2. StreamTypes /\ ServerInv
  <2>1. recv = "start" /\ send = "hello" /\ lost = FALSE
    BY DEF Init, S!Init
  <2>2. up = 0 /\ upRead = 0 /\ down = 0 /\ downRead = 0
    BY DEF Init, S!Init, C!Init
  <2>3. StreamTypes
    <3>1. /\ up \in 0..MaxPings /\ upRead \in 0..up /\ down \in Nat
          /\ downRead \in 0..down
      BY <2>2, MaxPingsAssumption DEF MaxPingsAssumption
    <3> QED BY <2>1, <3>1 DEF StreamTypes
  <2>4. ServerInv
    BY <2>1, <2>2 DEF ServerInv, Given, InHand
  <2> QED BY <2>3, <2>4
<1>3. ClientInv
  BY DEF Init, S!Init, C!Init, ClientInv, Pongs
<1> QED BY <1>1, <1>2, <1>3 DEF TurnInv, TypeOK

-----------------------------------------------------------------------------
(* Each process keeps the types of its own variables.                      *)

LEMMA ServerTyped == ServerTypes /\ S!Next => ServerTypes'
<1> SUFFICES ASSUME ServerTypes, S!Next PROVE ServerTypes'
  OBVIOUS
<1> USE DEF ServerTypes
<1>1. CASE S!Receive
  BY <1>1 DEF S!Receive
<1>2. CASE S!ReadCompletes
  BY <1>2 DEF S!ReadCompletes, S!stop
<1>3. CASE S!HandlePing
  BY <1>3 DEF S!HandlePing, S!stop
<1>4. CASE S!ReadFails
  BY <1>4 DEF S!ReadFails, S!Throw, S!TryStop, S!stop
<1>5. CASE S!RecvAborted
  BY <1>5 DEF S!RecvAborted, S!Throw, S!TryStop, S!stop
<1>6. CASE S!SendHello
  BY <1>6 DEF S!SendHello, S!stop
<1>7. CASE S!SendPong
  BY <1>7 DEF S!SendPong, S!Throw, S!TryStop, S!stop
<1>8. CASE S!SendAborted
  BY <1>8 DEF S!SendAborted, S!Throw, S!TryStop, S!stop
<1>9. CASE S!RunProvide
  BY <1>9 DEF S!RunProvide, S!stop
<1>10. CASE S!RunWait
  BY <1>10 DEF S!RunWait, S!stop
<1>11. CASE S!RunDrain
  BY <1>11 DEF S!RunDrain
<1>12. CASE S!Stop
  BY <1>12 DEF S!Stop, S!TryStop
<1>13. CASE S!ShareFails
  BY <1>13 DEF S!ShareFails
<1>14. CASE S!StopGoesOn
  BY <1>14 DEF S!StopGoesOn
<1>15. CASE S!DdlExpires
  BY <1>15 DEF S!DdlExpires
<1> QED BY <1>1, <1>2, <1>3, <1>4, <1>5, <1>6, <1>7, <1>8, <1>9, <1>10, <1>11, <1>12, <1>13, <1>14, <1>15 DEF S!Next, S!Recv, S!Send

LEMMA ClientTyped == ClientTypes /\ C!Next => ClientTypes'
<1> SUFFICES ASSUME ClientTypes, C!Next PROVE ClientTypes'
  OBVIOUS
<1> USE DEF ClientTypes
<1>1. CASE C!HelloRead
  BY <1>1 DEF C!HelloRead, C!stop
<1>2. CASE C!Filled
  BY <1>2 DEF C!Filled, C!SetPingTimer, C!Cancelled, C!stop
<1>3. CASE C!ReadCompletes
  BY <1>3 DEF C!ReadCompletes, C!stop
<1>4. CASE C!HandlePong
  BY <1>4 DEF C!HandlePong, C!SetPingTimer, C!Cancelled, C!stop
<1>5. CASE C!CtlFails
  BY <1>5 DEF C!CtlFails, C!Throw, C!TryStop, C!Cancelled, C!stop
<1>6. CASE C!PingDue
  BY <1>6 DEF C!PingDue, C!stop
<1>7. CASE C!PingSent
  BY <1>7 DEF C!PingSent, C!stop
<1>8. CASE C!PingFails
  BY <1>8 DEF C!PingFails
<1>9. CASE C!Sigint
  BY <1>9 DEF C!Sigint, C!TryStop, C!Cancelled
<1>10. CASE C!ShareFails
  BY <1>10 DEF C!ShareFails
<1>11. CASE C!StopGoesOn
  BY <1>11 DEF C!StopGoesOn, C!Cancelled
<1> QED BY <1>1, <1>2, <1>3, <1>4, <1>5, <1>6, <1>7, <1>8, <1>9, <1>10, <1>11 DEF C!Next, C!Ctl, C!Ping

-----------------------------------------------------------------------------
(* Each process keeps the count, its own part and the other one's.         *)

Counts == StreamTypes /\ ServerInv /\ ClientInv

(* A ping is taken in hand when it is read.                                *)
LEMMA RecvCounts ==
  ASSUME Counts, S!Receive \/ S!ReadCompletes \/ S!HandlePing \/ S!ReadFails \/ S!RecvAborted,
         UNCHANGED <<client, up, downRead, lost>>
  PROVE  Counts'
<1> USE DEF Counts, StreamTypes, ServerInv, ClientInv, Given, InHand, Pongs, client
<1>1. CASE S!Receive
  BY <1>1 DEF S!Receive
<1>2. CASE S!ReadCompletes
  BY <1>2 DEF S!ReadCompletes
<1>3. CASE S!HandlePing
  BY <1>3 DEF S!HandlePing
<1>4. CASE S!ReadFails
  BY <1>4 DEF S!ReadFails
<1>5. CASE S!RecvAborted
  BY <1>5 DEF S!RecvAborted
<1> QED BY <1>1, <1>2, <1>3, <1>4, <1>5

(* A pong that is sent leaves the hands of send_msgs.                      *)
LEMMA SendCounts ==
  ASSUME Counts, S!SendHello \/ S!SendPong \/ S!SendAborted,
         UNCHANGED <<client, up, downRead, lost>>
  PROVE  Counts'
<1> USE DEF Counts, StreamTypes, ServerInv, ClientInv, Given, InHand, Pongs, client
<1>1. CASE S!SendHello
  BY <1>1 DEF S!SendHello
<1>2. CASE S!SendPong
  BY <1>2 DEF S!SendPong
<1>3. CASE S!SendAborted
  BY <1>3 DEF S!SendAborted
<1> QED BY <1>1, <1>2, <1>3

(* A match takes the ping out of the hands of one and gives it to another. *)
LEMMA QueueCounts ==
  ASSUME Counts, S!RunProvide \/ S!RunWait \/ S!RunDrain,
         UNCHANGED <<client, up, downRead, lost>>
  PROVE  Counts'
<1> USE DEF Counts, StreamTypes, ServerInv, ClientInv, Given, InHand, Pongs, client
<1>1. CASE S!RunProvide
  BY <1>1 DEF S!RunProvide
<1>2. CASE S!RunWait
  BY <1>2 DEF S!RunWait
<1>3. CASE S!RunDrain
  BY <1>3 DEF S!RunDrain
<1> QED BY <1>1, <1>2, <1>3

(* A stop or a deadline moves nothing.                                     *)
LEMMA ServerStopCounts ==
  ASSUME Counts, S!Stop \/ S!ShareFails \/ S!StopGoesOn \/ S!DdlExpires,
         UNCHANGED <<client, up, downRead, lost>>
  PROVE  Counts'
<1> USE DEF Counts, StreamTypes, ServerInv, ClientInv, Given, InHand, Pongs, client
<1>1. CASE S!Stop
  BY <1>1 DEF S!Stop
<1>2. CASE S!ShareFails
  BY <1>2 DEF S!ShareFails
<1>3. CASE S!StopGoesOn
  BY <1>3 DEF S!StopGoesOn
<1>4. CASE S!DdlExpires
  BY <1>4 DEF S!DdlExpires
<1> QED BY <1>1, <1>2, <1>3, <1>4

(* A pong that can be read answers the ping that is out: the server has    *)
(* sent no more pongs than it has read pings.                              *)
LEMMA CtlCounts ==
  ASSUME Counts, C!HelloRead \/ C!Filled \/ C!ReadCompletes \/ C!HandlePong \/ C!CtlFails,
         UNCHANGED <<server, upRead, down, lost>>
  PROVE  Counts'
<1> USE DEF Counts, StreamTypes, ServerInv, ClientInv, Given, InHand, Pongs, server
<1>1. CASE C!HelloRead
  BY <1>1 DEF C!HelloRead
<1>2. CASE C!Filled
  BY <1>2 DEF C!Filled, C!SetPingTimer
<1>3. CASE C!ReadCompletes
  <2>1. downRead <= Given /\ Given <= upRead /\ upRead <= up
    BY <1>3 DEF C!ReadCompletes
  <2> QED BY <1>3, <2>1 DEF C!ReadCompletes
<1>4. CASE C!HandlePong
  BY <1>4 DEF C!HandlePong, C!SetPingTimer
<1>5. CASE C!CtlFails
  BY <1>5 DEF C!CtlFails
<1> QED BY <1>1, <1>2, <1>3, <1>4, <1>5

(* The timer is armed only when every ping was answered.                   *)
LEMMA PingCounts ==
  ASSUME Counts, C!PingDue \/ C!PingSent \/ C!PingFails,
         UNCHANGED <<server, upRead, down, lost>>
  PROVE  Counts'
<1> USE DEF Counts, StreamTypes, ServerInv, ClientInv, Given, InHand, Pongs, server
<1>1. CASE C!PingDue
  <2>1. up' = up \/ (up < MaxPings /\ up' = up + 1 /\ armed /\ armed' = FALSE)
    BY <1>1 DEF C!PingDue
  <2>2. armed' = armed \/ armed' = FALSE
    BY <1>1 DEF C!PingDue
  <2>3. UNCHANGED <<ctl, downRead>>
    BY <1>1 DEF C!PingDue
  <2>4. StreamTypes'
    BY <2>1, <2>3, MaxPingsAssumption DEF MaxPingsAssumption
  <2>5. ServerInv' /\ ClientInv'
    BY <2>1, <2>2, <2>3
  <2> QED BY <2>4, <2>5
<1>2. CASE C!PingSent
  BY <1>2 DEF C!PingSent
<1>3. CASE C!PingFails
  BY <1>3 DEF C!PingFails
<1> QED BY <1>1, <1>2, <1>3

(* A stop moves nothing.                                                   *)
LEMMA ClientStopCounts ==
  ASSUME Counts, C!Sigint \/ C!ShareFails \/ C!StopGoesOn,
         UNCHANGED <<server, upRead, down, lost>>
  PROVE  Counts'
<1> USE DEF Counts, StreamTypes, ServerInv, ClientInv, Given, InHand, Pongs, server
<1>1. CASE C!Sigint
  BY <1>1 DEF C!Sigint
<1>2. CASE C!ShareFails
  BY <1>2 DEF C!ShareFails
<1>3. CASE C!StopGoesOn
  BY <1>3 DEF C!StopGoesOn
<1> QED BY <1>1, <1>2, <1>3

LEMMA StepInv == TurnInv /\ [Next]_vars => TurnInv'
<1> SUFFICES ASSUME TurnInv, [Next]_vars PROVE TurnInv'
  OBVIOUS
<1>0. ServerTypes /\ ClientTypes /\ Counts
  BY DEF TurnInv, TypeOK, Counts
<1>1. CASE Server
  <2>1. ServerTypes' /\ Counts'
    BY <1>0, <1>1, ServerTyped, RecvCounts, SendCounts, QueueCounts, ServerStopCounts
       DEF Server, S!Next, S!Recv, S!Send
  <2>2. ClientTypes'
    BY <1>0, <1>1 DEF Server, client, ClientTypes
  <2> QED BY <2>1, <2>2 DEF TurnInv, TypeOK, Counts
<1>2. CASE Client
  <2>1. ClientTypes' /\ Counts'
    BY <1>0, <1>2, ClientTyped, CtlCounts, PingCounts, ClientStopCounts
       DEF Client, C!Next, C!Ctl, C!Ping
  <2>2. ServerTypes'
    BY <1>0, <1>2 DEF Client, server, ServerTypes
  <2> QED BY <2>1, <2>2 DEF TurnInv, TypeOK, Counts
<1>3. CASE Lose \/ UNCHANGED vars
  <2>1. UNCHANGED <<server, client, streams>>
    BY <1>3 DEF Lose, vars
  <2>2. lost' \in BOOLEAN
    BY <1>0, <1>3 DEF Lose, vars, Counts, StreamTypes
  <2>3. ServerTypes' /\ ClientTypes'
    BY <1>0, <2>1 DEF server, client, ServerTypes, ClientTypes
  <2>4. Counts'
    BY <1>0, <2>1, <2>2 DEF server, client, streams, Counts, StreamTypes, ServerInv,
                            ClientInv, Given, InHand, Pongs
  <2> QED BY <2>3, <2>4 DEF TurnInv, TypeOK, Counts
<1> QED BY <1>1, <1>2, <1>3 DEF Next

(* For any number of pings the types are respected.                        *)
THEOREM TypeCorrect == Spec => []TypeOK
<1>1. TurnInv => TypeOK
  BY DEF TurnInv
<1> QED BY <1>1, InitInv, StepInv, PTL DEF Spec

(* For any number of pings, whatever stops or fails meanwhile: a ping is   *)
(* sent only when all before it were answered, a pong only for a ping.     *)
THEOREM PingsTakeTurns == Spec => []PingsInTurn
<1>1. TurnInv => PingsInTurn
  BY DEF TurnInv, TypeOK, StreamTypes, ServerInv, ClientInv, Given, InHand, PingsInTurn
<1> QED BY <1>1, InitInv, StepInv, PTL DEF Spec
=============================================================================
