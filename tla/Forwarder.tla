------------------------------ MODULE Forwarder ------------------------------
(***************************************************************************)
(* forwarder (include/zrp/forwarder.hpp) and its pipes (include/zrp/       *)
(* pipe.hpp): forward() takes sockets from downstream, handle_socket finds *)
(* each an upstream socket, and a pipe copies between the two, one         *)
(* coroutine per direction, until the forwarder is stopped.                *)
(*                                                                         *)
(* fwd_ioc_ is run by several threads, so every coroutine is at any time   *)
(* as far as it likes; what runs on the strand str_pipes_ is one action.   *)
(* The parties of a visit are outside: a party sends, finishes (a FIN), or *)
(* breaks (a reset, a timeout); it always reads what it is given.  Bytes   *)
(* are counted.  try_stop of a pipe closes its two sockets in one step.    *)
(***************************************************************************)
EXTENDS Naturals

CONSTANTS
  Visits,    \* sockets that downstream hands out
  Load,      \* bound: how many bytes a party sends; with 0 it does nothing
  Buffer     \* pipe_buffer_size

Sides == {"lhs", "rhs"}   \* lhs_s_ comes from downstream, rhs_s_ from upstream
Dirs == Visits \X Sides   \* <<v, s>> is also half_pipe(s, the other)
Back(d) == <<d[1], IF d[2] = "lhs" THEN "rhs" ELSE "lhs">>

ASSUME ForwarderAssumption == Load \in [Dirs -> Nat] /\ Buffer \in Nat \ {0}

VARIABLES
  stopping,  \* stopping_ of the forwarder
  loop,      \* the coroutine forward()
  sweep,     \* try_stop of handle_error and of post_try_stop
  phase,     \* handle_socket and the pipe of each visit
  late,      \* visits whose pipe was made when a sweep was over already
  halt,      \* stopping_ of each pipe, and who has set it
  on,        \* the halves that run
  taken,     \* bytes each half has read
  given,     \* bytes each half has written
  shut,      \* halves that have shut down what they write to
  sent,      \* bytes each party has sent
  party      \* each party: "open", "fin" or "broken"

forward == <<stopping, loop, sweep>>
pipes == <<phase, late, halt, on, taken, given, shut>>
parties == <<sent, party>>
vars == <<forward, pipes, parties>>

Init ==
  /\ stopping = FALSE /\ loop = "accepting"
  /\ sweep = [w \in {"error", "told"} |-> "none"]
  /\ phase = [v \in Visits |-> "none"] /\ late = {}
  /\ halt = [v \in Visits |-> "no"]
  /\ on = {} /\ shut = {}
  /\ taken = [d \in Dirs |-> 0] /\ given = [d \in Dirs |-> 0]
  /\ sent = [d \in Dirs |-> 0] /\ party = [d \in Dirs |-> "open"]

-----------------------------------------------------------------------------
(* forward() and handle_socket().                                          *)

(* A socket that was there before a stop may still be handed out after it. *)
Accept(v) ==
  /\ loop = "accepting" /\ phase[v] = "none"
  /\ phase' = [phase EXCEPT ![v] = "upstream"]
  /\ UNCHANGED <<forward, late, halt, on, taken, given, shut, parties>>

(* get_socket or rebind_ioc throws: handle_error stops, unless stopped.    *)
AcceptFails ==
  /\ loop = "accepting"
  /\ IF stopping
     THEN loop' = "ended" /\ UNCHANGED <<stopping, sweep>>
     ELSE /\ loop' = "stopping" /\ stopping' = TRUE
          /\ sweep' = [sweep EXCEPT !["error"] = "posted"]
  /\ UNCHANGED <<pipes, parties>>

UpstreamGot(v) ==
  /\ phase[v] = "upstream"
  /\ phase' = [phase EXCEPT ![v] = "strand"]
  /\ UNCHANGED <<forward, late, halt, on, taken, given, shut, parties>>

(* The downstream socket is closed with the coroutine that held it.        *)
UpstreamFails(v) ==
  /\ phase[v] = "upstream"
  /\ phase' = [phase EXCEPT ![v] = "dropped"]
  /\ UNCHANGED <<forward, late, halt, on, taken, given, shut, parties>>

(* On the strand: the pipe is made, and nobody looks at stopping_.         *)
Create(v) ==
  /\ phase[v] = "strand"
  /\ phase' = [phase EXCEPT ![v] = "created"]
  /\ late' = IF \E w \in DOMAIN sweep : sweep[w] = "done" THEN late \cup {v} ELSE late
  /\ UNCHANGED <<forward, halt, on, taken, given, shut, parties>>

(* pipe::run.                                                              *)
Run(v) ==
  /\ phase[v] = "created"
  /\ phase' = [phase EXCEPT ![v] = "running"]
  /\ on' = on \cup {<<v, s>> : s \in Sides}
  /\ UNCHANGED <<forward, late, halt, taken, given, shut, parties>>

-----------------------------------------------------------------------------
(* Stopping the forwarder.                                                 *)

(* post_try_stop: the share stops.                                         *)
Told ==
  /\ sweep["told"] = "none"
  /\ stopping' = TRUE
  /\ sweep' = [sweep EXCEPT !["told"] = "posted"]
  /\ UNCHANGED <<loop, pipes, parties>>

InMap == {v \in Visits : phase[v] \in {"created", "running"}}

(* Mutant: a pipe that does not run yet is forgotten.                      *)
StopPipesRunning ==
  halt' = [v \in Visits |-> IF phase[v] = "running" /\ halt[v] = "no" THEN "swept" ELSE halt[v]]

(* The pipes in pipes_ that are still alive are stopped.                   *)
StopPipes ==
  halt' = [v \in Visits |-> IF v \in InMap /\ halt[v] = "no" THEN "swept" ELSE halt[v]]

(* On the strand.  What handle_error waited for ends forward().            *)
Sweep(w) ==
  /\ sweep[w] = "posted" /\ sweep' = [sweep EXCEPT ![w] = "done"]
  /\ StopPipes
  /\ loop' = IF w = "error" THEN "ended" ELSE loop
  /\ UNCHANGED <<stopping, phase, late, on, taken, given, shut, parties>>

-----------------------------------------------------------------------------
(* half_pipe: it reads when all it has read is written, and writes before  *)
(* it reads again.                                                         *)

Open(v) == phase[v] \notin {"none", "dropped", "gone"} /\ halt[v] = "no"
Held(d) == taken[d] - given[d]

ReadSome(d) ==
  /\ d \in on /\ Open(d[1]) /\ Held(d) = 0
  /\ \E n \in 1..Buffer :
       /\ taken[d] + n <= sent[d]
       /\ taken' = [taken EXCEPT ![d] = @ + n]
  /\ UNCHANGED <<forward, phase, late, halt, on, given, shut, parties>>

(* Mutant: the whole buffer is written, not the n bytes in it.             *)
WriteBuffer(d) ==
  /\ d \in on /\ Open(d[1]) /\ Held(d) > 0 /\ party[Back(d)] # "broken"
  /\ given' = [given EXCEPT ![d] = @ + Buffer]
  /\ UNCHANGED <<forward, phase, late, halt, on, taken, shut, parties>>

WriteSome(d) ==
  /\ d \in on /\ Open(d[1]) /\ party[Back(d)] # "broken"
  /\ \E n \in 1..Held(d) : given' = [given EXCEPT ![d] = @ + n]
  /\ UNCHANGED <<forward, phase, late, halt, on, taken, shut, parties>>

(* The coroutine of a half ends; the last one takes the pipe with it.      *)
HalfEnds(d) ==
  /\ on' = on \ {d}
  /\ phase' = IF Back(d) \in on THEN phase ELSE [phase EXCEPT ![d[1]] = "gone"]

(* What a read or write of this half can end with.                         *)
ReadEof(d) == Held(d) = 0 /\ party[d] = "fin" /\ taken[d] = sent[d]
PartyBroke(d) == party[IF Held(d) = 0 THEN d ELSE Back(d)] = "broken"

(* Mutant: both directions of the socket are shut down.                    *)
EndsCleanBothWays(d) ==
  /\ d \in on /\ Open(d[1]) /\ (ReadEof(d) \/ PartyBroke(d))
  /\ on' = on \ {d, Back(d)} /\ phase' = [phase EXCEPT ![d[1]] = "gone"]
  /\ shut' = shut \cup {d, Back(d)}
  /\ UNCHANGED <<forward, late, halt, taken, given, parties>>

(* eof, connection_reset or not_connected.                                 *)
EndsClean(d) ==
  /\ d \in on /\ Open(d[1]) /\ (ReadEof(d) \/ PartyBroke(d))
  /\ HalfEnds(d)
  /\ shut' = shut \cup {d}
  /\ UNCHANGED <<forward, late, halt, taken, given, parties>>

(* Mutant: the other half is left alone.                                   *)
ThrowsAlone(d) ==
  /\ d \in on /\ (~Open(d[1]) \/ PartyBroke(d))
  /\ HalfEnds(d)
  /\ UNCHANGED <<forward, late, halt, taken, given, shut, parties>>

(* Any other error, or the sockets are closed: handle_error.               *)
Throws(d) ==
  /\ d \in on /\ (~Open(d[1]) \/ PartyBroke(d))
  /\ HalfEnds(d)
  /\ halt' = [halt EXCEPT ![d[1]] = IF @ = "no" THEN "error" ELSE @]
  /\ UNCHANGED <<forward, late, taken, given, shut, parties>>

-----------------------------------------------------------------------------
(* The parties, as long as a socket connects them.                         *)

Connected(d) == Open(d[1]) /\ (d[2] = "rhs" => phase[d[1]] # "upstream")

Send(d) ==
  /\ Connected(d) /\ party[d] = "open" /\ sent[d] < Load[d]
  /\ sent' = [sent EXCEPT ![d] = @ + 1]
  /\ UNCHANGED <<forward, pipes, party>>

Leave(d) ==
  /\ Connected(d) /\ Load[d] > 0
  /\ \/ party[d] = "open" /\ party' = [party EXCEPT ![d] = "fin"]
     \/ party[d] # "broken" /\ party' = [party EXCEPT ![d] = "broken"]
  /\ UNCHANGED <<forward, pipes, sent>>

-----------------------------------------------------------------------------
HandleSocket(v) == UpstreamGot(v) \/ UpstreamFails(v) \/ Create(v) \/ Run(v)
Half(d) == ReadSome(d) \/ WriteSome(d) \/ EndsClean(d) \/ Throws(d)

Next ==
  \/ AcceptFails \/ Told \/ \E w \in DOMAIN sweep : Sweep(w)
  \/ \E v \in Visits : Accept(v) \/ HandleSocket(v)
  \/ \E d \in Dirs : Half(d) \/ Send(d) \/ Leave(d)

(* The threads run what is ready, sockets deliver, and once downstream is  *)
(* stopped its get_socket fails.  Upstream may keep a visit waiting.       *)
Fairness ==
  /\ WF_vars(stopping /\ AcceptFails)
  /\ \A w \in {"error", "told"} : WF_vars(Sweep(w))
  /\ \A v \in Visits : WF_vars(Create(v) \/ Run(v))
  /\ \A d \in Dirs : WF_vars(Half(d))

Spec == Init /\ [][Next]_vars /\ Fairness

-----------------------------------------------------------------------------
(* The types; a half writes what it has read, and holds a buffer at most.  *)
TypeOK ==
  /\ stopping \in BOOLEAN /\ loop \in {"accepting", "stopping", "ended"}
  /\ sweep \in [{"error", "told"} -> {"none", "posted", "done"}]
  /\ phase \in [Visits -> {"none", "upstream", "strand", "created", "running", "gone", "dropped"}]
  /\ late \subseteq Visits /\ halt \in [Visits -> {"no", "error", "swept"}]
  /\ on \subseteq Dirs /\ shut \subseteq Dirs
  /\ party \in [Dirs -> {"open", "fin", "broken"}]
  /\ {sent, taken, given} \subseteq [Dirs -> Nat]
  /\ \A d \in Dirs : /\ given[d] <= taken[d] /\ taken[d] <= sent[d] /\ sent[d] <= Load[d]
                     /\ Held(d) <= Buffer

(* The two streams of each visit, as the parties see them.                 *)
Broke(v) == \E s \in Sides : party[<<v, s>>] = "broken"
Fin == {d \in Dirs : party[d] # "open"}
Paired == {v \in Visits : phase[v] \in {"running", "gone"}}
Failed == {v \in Visits : Broke(v) \/ halt[v] = "swept" \/ phase[v] = "dropped"}
Over == {d \in Dirs : d \in shut \/ halt[d[1]] # "no" \/ phase[d[1]] \in {"gone", "dropped"}}
Rel == INSTANCE Relay WITH fin <- Fin, paired <- Paired, failed <- Failed, over <- Over

(* Every visit is relayed: what a party sends arrives, in full and with    *)
(* its end, as long as neither party breaks and the forwarder stops no     *)
(* pipe; the end of one direction leaves the other alone; and a party      *)
(* whose counterpart breaks is told, whichever error the pipe got.         *)
Relays == Rel!Spec

(* A stop ends the loop and every pipe: those in the map and those on      *)
(* their way to it.  Left are visits that upstream keeps waiting, and the  *)
(* pipes made after the sweep, which nobody stops.                         *)
StopDrains ==
  stopping ~> /\ loop = "ended"
              /\ \A v \in Visits : phase[v] \in {"none", "upstream", "gone", "dropped"} \/ v \in late
=============================================================================
