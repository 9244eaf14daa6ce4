----------------------------- MODULE WorkerLink -----------------------------
(***************************************************************************)
(* One worker connection, end to end: the server's worker and the          *)
(* client's, and the two byte streams between them.  Each end runs on its  *)
(* own io_context; the network delivers in order, late, or, once the       *)
(* connection is lost, perhaps never.  When an end has handed its socket   *)
(* on, the forwarder there writes user data to the same stream.            *)
(***************************************************************************)
EXTENDS Naturals, SequencesExt

CONSTANT MaxPings    \* bound: how often the client's ping timer may expire

ASSUME MaxPingsAssumption == MaxPings \in Nat

VARIABLES w, c, up, upRead, down, downRead, lost

vars == <<w, c, up, upRead, down, downRead, lost>>

S == INSTANCE ServerWorker WITH gone <- lost \/ c.sock = "closed"
C == INSTANCE ClientWorker WITH gone <- lost \/ w.sock = "closed"

Data == <<"data", "data">>

Init == /\ S!Init /\ C!Init
        /\ up = <<>> /\ upRead = 0
        /\ down = <<>> /\ downRead = 0
        /\ lost = FALSE

(* The server has a worker once it has read the hello.                     *)
ServerMay(A) == c.greeted /\ A /\ UNCHANGED <<c, downRead, lost>>
Server == ServerMay(S!Next)
Client == C!Next /\ UNCHANGED <<w, upRead, lost>>

(* The forwarder writes what the upstream or the visitor sent; one chunk   *)
(* each way is enough to see who reads it.                                 *)
ClientForwards ==
  /\ c.sock = "moved" /\ Data \notin ToSet(up)
  /\ up' = Append(up, Data)
  /\ UNCHANGED <<w, c, upRead, down, downRead, lost>>

ServerForwards ==
  /\ w.sock = "moved" /\ Data \notin ToSet(down)
  /\ down' = Append(down, Data)
  /\ UNCHANGED <<w, c, up, upRead, downRead, lost>>

Lose == /\ ~lost /\ lost' = TRUE
        /\ UNCHANGED <<w, c, up, upRead, down, downRead>>

Next == Server \/ Client \/ ClientForwards \/ ServerForwards \/ Lose

(* Both io_contexts keep running what is ready, the forwarder's thread     *)
(* too; time passes, so an armed timer expires; while the connection is up *)
(* it delivers, and it reports that the peer has closed.  Nobody has to    *)
(* visit, to stop anything or to lose the connection.                      *)
ServerRuns == ServerMay(S!RunHandler)
ClientRuns == C!RunHandler /\ UNCHANGED <<w, upRead, lost>>
ServerReads ==
  ServerMay(~lost /\ (S!ReadCompletes \/ (upRead = Len(up) /\ S!ReadFails)))
ClientReads == /\ ~lost
               /\ C!ReadCompletes \/ (downRead = Len(down) /\ C!ReadFails)
               /\ UNCHANGED <<w, upRead, lost>>
ServerFairness ==
  /\ WF_vars(ServerRuns) /\ WF_vars(ServerReads)
  /\ WF_vars(ServerMay(S!DdlExpires))
Fairness ==
  /\ ServerFairness
  /\ WF_vars(ClientRuns) /\ WF_vars(ClientReads)
  /\ WF_vars(C!TimerExpires /\ UNCHANGED <<w, upRead, lost>>)
  /\ WF_vars(ServerMay(S!HandOver))

Spec == Init /\ [][Next]_vars /\ Fairness

(* What the server owes to nobody but itself: the client may do nothing.   *)
ServerSpec == Init /\ [][Next]_vars /\ ServerFairness

-----------------------------------------------------------------------------
Gots == {"ok", "error", "part", "torn", "ping", "pong", "visit", "confirmed", "data"}
        \X {"none", "length", "body", "message", "data"}
Chunk == {"ping", "pong", "visit", "confirmed", "data"} \X {"length", "body", "data"}

(* The types of both workers' state and of the streams.                    *)
TypeOK ==
  /\ w.ready \in Seq([to : {"R", "S", "D", "V", "wait", "provide", "drain"},
                      got : Gots \cup ({"R", "V"} \X {"pong", "visit"})])
  /\ w.reads \in Seq({"R", "V"}) /\ w.backlog \in Seq({"R", "V"} \X {"pong", "visit"})
  /\ w.torn \in {"none", "R", "V", "lost"}
  /\ w.sock \in {"open", "closed", "moved"} /\ w.ddl \in {"max", "armed", "expired"}
  /\ {w.waiting, w.sendClosed, w.visited, w.confirmed, w.stopping} \subseteq BOOLEAN
  /\ c.ready \in Seq([to : {"C", "P"}, got : Gots])
  /\ c.sock \in {"open", "closed", "moved"} /\ c.timer \in {"max", "armed", "expired"}
  /\ {c.greeted, c.reading, c.visited, c.stopping, lost} \subseteq BOOLEAN
  /\ c.pings \in 0..MaxPings
  /\ up \in Seq(Chunk) /\ upRead \in 0..Len(up)
  /\ down \in Seq(Chunk) /\ downRead \in 0..Len(down)

(* The visit is the server's last control message and the confirmation the *)
(* client's: no pong and no ping gets into the visitor's bytes, although   *)
(* other coroutines send on the same sockets.                              *)
LastBefore(m, stream) ==
  \A i \in DOMAIN stream : stream[i] = <<m, "body">> =>
    \A j \in (i + 1)..Len(stream) : stream[j] = Data
TakeoverIsLast == LastBefore("visit", down) /\ LastBefore("confirmed", up)

(* Whoever gets a socket finds nothing but user data in front of it.       *)
CleanHandover ==
  /\ w.sock = "moved" => \A i \in (upRead + 1)..Len(up) : up[i] = Data
  /\ c.sock = "moved" => \A i \in (downRead + 1)..Len(down) : down[i] = Data

(* Once the visit is confirmed the forwarder's thread may take the socket  *)
(* at any moment: recv_msgs starts no read any more and send_msgs no write.*)
HandoverExclusive ==
  [][w.confirmed => /\ w'.reads = <<>>
                    /\ w'.pc.R \in {w.pc.R, "done"}
                    /\ w'.pc.S \in {w.pc.S, "getting", "done"}]_vars

(* On a sound connection, between two live workers, a visit fails only     *)
(* when recv_msgs has begun a message and not got all of it: it holds a    *)
(* length without the body, or the bytes of one chunk went to it and to    *)
(* visit().  visit() came meanwhile, or while a ping was being answered.   *)
Sound == ~lost /\ ~w.stopping /\ c.sock # "closed"
HalfRead == w.torn = "lost" \/ w.length.R # "none"
VisitFailsOnlyByRace == (w.pc.V = "failed" /\ Sound) => HalfRead

(* A worker that has stopped, or whose client is gone, and that no visitor *)
(* has taken, is destroyed: an error or its deadline stops it, and none of *)
(* its coroutines stays suspended.  Only a visitor may still come first,   *)
(* and take it before it has stopped.                                      *)
DesertedWorkerEnds ==
  c.greeted /\ (lost \/ c.sock = "closed" \/ w.stopping) /\ ~w.visited
     ~> ~S!Alive \/ (w.visited /\ ~w.stopping)

(* Claims of the repository that this connection does not keep.            *)

(* server.hpp:239: a worker that died before the visit is skipped.         *)
VisitSkipsDead == [][~w.visited /\ w'.visited => ~w.stopping]_vars

(* README.md:87: a request to the public port is passed to the client.     *)
VisitReachesClient == w.pc.V = "failed" => ~Sound

=============================================================================
