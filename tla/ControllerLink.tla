---------------------------- MODULE ControllerLink ----------------------------
(***************************************************************************)
(* The connection between a client's controller and the server's, end to   *)
(* end, from the moment the client's hello was accepted: pings, pongs, and *)
(* how the end of either one, or of the connection, reaches the other.     *)
(***************************************************************************)
EXTENDS Naturals

CONSTANT MaxPings    \* bound: how many pings the client sends

ASSUME MaxPingsAssumption == MaxPings \in Nat

VARIABLES
  recv, send, closed, drain, open, stopping, teller, ddl,  \* ServerController
  ctl, ping, armed, copen, cstopping, cteller,             \* ClientController
  up, upRead, down, downRead,                              \* the two streams
  lost    \* the connection is lost: it may never deliver or report anything

server == <<recv, send, closed, drain, open, stopping, teller, ddl>>
client == <<ctl, ping, armed, copen, cstopping, cteller>>
streams == <<up, upRead, down, downRead>>
vars == <<server, client, streams, lost>>

S == INSTANCE ServerController WITH gone <- lost \/ ~copen
C == INSTANCE ClientController WITH gone <- lost \/ ~open

Init == S!Init /\ C!Init /\ lost = FALSE

Server == S!Next /\ UNCHANGED <<client, up, downRead, lost>>
Client == C!Next /\ UNCHANGED <<server, upRead, down, lost>>
Lose == ~lost /\ lost' = TRUE /\ UNCHANGED <<server, client, streams>>

Next == Server \/ Client \/ Lose

(* Both processes run what is ready and finish what they have begun; time  *)
(* passes; a connection that is up delivers and reports that the peer has  *)
(* closed.  Nobody has to stop.                                            *)
ServerStep(A) == A /\ UNCHANGED <<client, up, downRead, lost>>
ClientStep(A) == A /\ UNCHANGED <<server, upRead, down, lost>>
Fairness ==
  /\ WF_vars(ServerStep(S!Recv)) /\ WF_vars(ServerStep(S!Send))
  /\ WF_vars(ServerStep(S!RunDrain)) /\ WF_vars(ServerStep(S!StopGoesOn))
  /\ WF_vars(ServerStep(S!DdlExpires))
  /\ WF_vars(~lost /\ ServerStep(S!ReadCompletes \/ (upRead = up /\ S!ReadFails)))
  /\ WF_vars(ClientStep(C!Ctl)) /\ WF_vars(ClientStep(C!Ping))
  /\ WF_vars(ClientStep(C!StopGoesOn))
  /\ WF_vars(~lost /\ ClientStep(C!HelloRead \/ C!ReadCompletes \/ (downRead = down /\ C!CtlFails)))

Spec == Init /\ [][Next]_vars /\ Fairness

-----------------------------------------------------------------------------
ServerTypes ==
  /\ recv \in {"start", "reading", "read", "providing", "queued", "answered", "aborted", "ended"}
  /\ send \in {"hello", "waiting", "queued", "got", "aborted", "ended"}
  /\ teller \in {"none", "flag", "queue", "socket"} /\ ddl \in {"max", "armed", "expired"}
  /\ closed \in BOOLEAN /\ drain \in BOOLEAN /\ open \in BOOLEAN /\ stopping \in BOOLEAN

ClientTypes ==
  /\ ctl \in {"hello", "filling", "serving", "read", "ended"}
  /\ ping \in {"waiting", "writing", "failing", "ended"}
  /\ cteller \in {"none", "flag", "socket", "timer"}
  /\ armed \in BOOLEAN /\ copen \in BOOLEAN /\ cstopping \in BOOLEAN

StreamTypes ==
  /\ up \in 0..MaxPings /\ upRead \in 0..up /\ down \in Nat /\ downRead \in 0..down
  /\ lost \in BOOLEAN

(* The types of both controllers' state and of the streams.                *)
TypeOK == ServerTypes /\ ClientTypes /\ StreamTypes

(* A ping is sent only when every earlier one was answered, and a pong     *)
(* only for a ping: whatever the order of timer, reads and stops, at most  *)
(* one message is under way, and to_send_ never holds a second one.        *)
Pongs == IF downRead = 0 THEN 0 ELSE downRead - 1
PingsInTurn == up \in {Pongs, Pongs + 1} /\ down <= upRead + 1

(* Every ping is answered, unless one of the ends stops or the connection  *)
(* is lost: no ping gets stuck between the server's two coroutines.        *)
EveryPingAnswered ==
  \A n \in 1..MaxPings : up = n ~> (Pongs >= n \/ stopping \/ cstopping \/ lost)

(* Whoever stops, and from whichever thread, both controllers come to an   *)
(* end, every coroutine of them, if the connection is not lost.  But       *)
(* the client's ping_actor may be left waiting for a timer at its maximum. *)
PingLeaked == ping = "waiting" /\ ~armed
StopEndsBoth ==
  (stopping \/ cstopping) ~> \/ lost
                             \/ /\ recv = "ended" /\ send = "ended"
                                /\ ctl = "ended" /\ (ping = "ended" \/ PingLeaked)
=============================================================================
