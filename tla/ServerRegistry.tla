--------------------------- MODULE ServerRegistry ---------------------------
(***************************************************************************)
(* zserver's server, socket_type, controller_socket and tcp_share          *)
(* (include/zrp/server.hpp): who owns a share id, and who keeps whom alive.*)
(*                                                                         *)
(* A connection to the control port says hello, as a client (it becomes a  *)
(* controller with the shares it lists) or as a worker of a share.  The    *)
(* server knows controllers by uuid and shares by id through weak          *)
(* pointers, so a name is taken for as long as the object it names lives.  *)
(* A share lives while its forwarder or a worker of it does, a controller  *)
(* while one of its coroutines or shares does.                             *)
(*                                                                         *)
(* ioc_ is run by the main thread, one handler at a time; run_forwarder    *)
(* runs on the forwarder threads, beside it, and may stop the controller   *)
(* from there: an unsynchronised access to shares_ and workers_, modelled  *)
(* as if it found them as they are.  The share that client k lists under   *)
(* id is <<k, id>>.                                                        *)
(***************************************************************************)
EXTENDS Naturals, SequencesExt

CONSTANTS
  Conns,       \* connections to the control port; each is made once
  ClientHellos,\* what a client says: [uuid |-> ..., ids |-> <<...>>]
  WorkerHellos,\* what a worker says: the id of its share
  None,
  QuietStops   \* TRUE assumes that a controller is stopped in a quiet moment

Ids == WorkerHellos \cup UNION {ToSet(h.ids) : h \in ClientHellos}
Uuids == {h.uuid : h \in ClientHellos}
Shares == Conns \X Ids
NoShare == <<None, None>>

ASSUME RegistryAssumption ==
  /\ QuietStops \in BOOLEAN
  /\ None \notin Conns \cup Ids \cup Uuids /\ None \notin ClientHellos
  /\ \A h \in ClientHellos : h.ids \in Seq(ToSet(h.ids))
  /\ \A h \in ClientHellos : IsInjective(h.ids)  \* a client's share ids differ

VARIABLES
  sock,      \* socket_type of each connection
  hello,     \* what a client's connection said
  todo,      \* the ids of its hello that are still to be added
  ctrls,     \* ctrls_: the controller last registered for a uuid
  shares,    \* tcp_shares_: whose share was last registered for an id
  runs,      \* the coroutines of each controller
  stopping,  \* the controllers that are stopping_
  added,     \* shares_ of the controllers
  closing,   \* the shares that are closing_
  fwd,       \* run_forwarder of each share
  told,      \* the shares whose forwarder was told to stop
  worker,    \* the worker of each connection: its state
  of,        \* and its share
  late,      \* the workers whose share was closing_ when they said hello
  shut,      \* the connections closed before their hello was handled
  serving    \* the coroutine serve(): "accepting", "stopping", "ended"

vars == <<sock, hello, todo, ctrls, shares, runs, stopping, added, closing, fwd, told,
          worker, of, late, shut, serving>>
ctrlVars == <<stopping, closing, told, worker>>   \* what stopping a controller changes

Init ==
  /\ sock = [k \in Conns |-> "none"] /\ hello = [k \in Conns |-> None]
  /\ todo = [k \in Conns |-> <<>>]
  /\ ctrls = [u \in Uuids |-> None] /\ shares = [i \in Ids |-> None]
  /\ runs = [k \in Conns |-> {}]
  /\ stopping = {} /\ added = {} /\ closing = {} /\ told = {}
  /\ fwd = [s \in Shares |-> "none"]
  /\ worker = [k \in Conns |-> "none"] /\ of = [k \in Conns |-> NoShare]
  /\ late = {} /\ shut = {} /\ serving = "accepting"

-----------------------------------------------------------------------------
(* Lifetimes.  A worker holds its share; when its visit has been confirmed *)
(* its socket is in a pipe, which holds the forwarder, which holds the     *)
(* share.  A share holds its controller.                                   *)

Holds(k) == worker[k] \in {"new", "idle", "visited", "stopped", "piped"}
LiveShare(s) == \/ fwd[s] \in {"spawned", "bound", "listening"}
                \/ \E k \in Conns : Holds(k) /\ of[k] = s
LiveCtrl(k) == \/ runs[k] # {} \/ sock[k] = "adding"
               \/ \E i \in Ids : LiveShare(<<k, i>>)

(* A name is taken while the object last registered under it lives.        *)
(* Mutants: expired() is asked of the forwarder only, or of nobody.        *)
TakenByForwarder(i) == shares[i] # None /\ fwd[<<shares[i], i>>] \notin {"none", "ended"}
TakenUnchecked(i) == TRUE
Taken(i) == shares[i] # None /\ LiveShare(<<shares[i], i>>)
Connected(u) == ctrls[u] # None /\ LiveCtrl(ctrls[u])

(* The main thread is in the middle of no hello.                           *)
MainFree == \A k \in Conns : sock[k] # "adding"

(* Mutant: it is told before it listens, and not when it does.             *)
TellBound(swept) == told' = told \cup {s \in swept : fwd[s] = "bound"}

(* The forwarder is told if fwd_ has been assigned and still lives.        *)
Tell(swept) == told' = told \cup {s \in swept : fwd[s] = "listening"}

(* controller_socket::try_stop and tcp_share::try_stop of its shares.  A   *)
(* worker is stopped only if it is in workers_ and was not visited.  The   *)
(* forwarders of the failed shares have stopped their pipes before.        *)
StopCtrls(K, failed) ==
  LET swept == {s \in added : s[1] \in K /\ LiveShare(s)} IN
    /\ stopping' = stopping \cup K
    /\ closing' = closing \cup swept
    /\ Tell(swept)
    /\ worker' = [k \in Conns |->
                    CASE worker[k] = "idle" /\ of[k] \in swept -> "stopped"
                      [] worker[k] = "piped" /\ of[k] \in failed -> "dead"
                      [] OTHER -> worker[k]]

(* A quiet moment to stop controller k: its hello is done, the forwarders  *)
(* of its shares are published but for the one that fails (but), its       *)
(* workers are in workers_ and no visit to them is on its way.             *)
Quiet(k, but) ==
  /\ sock[k] # "adding"
  /\ \A i \in Ids : <<k, i>> # but => fwd[<<k, i>>] \notin {"spawned", "bound"}
  /\ \A x \in Conns : worker[x] \in {"new", "visited"} => of[x][1] # k
MayStop(k, but) == QuietStops => Quiet(k, but)

-----------------------------------------------------------------------------
(* Main thread: connections and hellos.                                    *)

(* A connection that was accepted before a stop may be handled after it.   *)
Accept(k) ==
  /\ MainFree /\ sock[k] = "none"
  /\ \/ serving = "accepting" /\ UNCHANGED serving
     \/ serving = "stopping" /\ ~QuietStops /\ serving' = "ended"
  /\ sock' = [sock EXCEPT ![k] = "open"]
  /\ UNCHANGED <<hello, todo, ctrls, shares, runs, added, fwd, of, late, shut, ctrlVars>>

(* The acceptor is closed: async_accept throws.                            *)
ServeEnds ==
  /\ MainFree /\ serving = "stopping" /\ serving' = "ended"
  /\ UNCHANGED <<sock, hello, todo, ctrls, shares, runs, added, fwd, of, late, shut, ctrlVars>>

(* recv_hello fails, or the 30 seconds are over.                           *)
NoHello(k) ==
  /\ MainFree /\ sock[k] = "open"
  /\ sock' = [sock EXCEPT ![k] = "closed"]
  /\ UNCHANGED <<hello, todo, ctrls, shares, runs, added, fwd, of, late, shut, serving, ctrlVars>>

(* The hello has been read; its handler is ready to run.                   *)
HelloRead(k) ==
  /\ sock[k] = "open"
  /\ sock' = [sock EXCEPT ![k] = "read"]
  /\ UNCHANGED <<hello, todo, ctrls, shares, runs, added, fwd, of, late, shut, serving, ctrlVars>>

(* The 30 seconds are over by then: ddl_actor closes the socket, and the   *)
(* handler of the hello runs all the same.                                 *)
HelloLate(k) ==
  /\ MainFree /\ sock[k] = "read" /\ k \notin shut
  /\ shut' = shut \cup {k}
  /\ UNCHANGED <<sock, hello, todo, ctrls, shares, runs, added, fwd, of, late, serving, ctrlVars>>

(* handle_hello_msg(client_hello): the controller is registered, unless    *)
(* one with that uuid lives.                                               *)
ClientHello(k, h) ==
  /\ MainFree /\ sock[k] = "read"
  /\ \/ /\ Connected(h.uuid)
        /\ sock' = [sock EXCEPT ![k] = "closed"]
        /\ UNCHANGED <<hello, todo, ctrls>>
     \/ /\ ~Connected(h.uuid)
        /\ ctrls' = [ctrls EXCEPT ![h.uuid] = k]
        /\ sock' = [sock EXCEPT ![k] = "adding"]
        /\ hello' = [hello EXCEPT ![k] = h]
        /\ todo' = [todo EXCEPT ![k] = h.ids]
  /\ UNCHANGED <<shares, runs, added, fwd, of, late, shut, serving, ctrlVars>>

(* tcp_shares_ gets the share.                                             *)
Register(i, k) == shares' = [shares EXCEPT ![i] = k]

(* Its loop over the shares: an id that a live share has ends the hello,   *)
(* with the controller and the shares added so far left as they are.       *)
AddShare(k) ==
  /\ sock[k] = "adding" /\ todo[k] # <<>>
  /\ LET i == Head(todo[k]) IN
       \/ /\ Taken(i)
          /\ sock' = [sock EXCEPT ![k] = "rejected"]
          /\ todo' = [todo EXCEPT ![k] = <<>>]
          /\ UNCHANGED <<shares, added, fwd>>
       \/ /\ ~Taken(i)
          /\ Register(i, k)
          /\ added' = added \cup {<<k, i>>}
          /\ fwd' = [fwd EXCEPT ![<<k, i>>] = "spawned"]
          /\ todo' = [todo EXCEPT ![k] = Tail(@)]
          /\ UNCHANGED sock
  /\ UNCHANGED <<hello, ctrls, runs, of, late, shut, serving, ctrlVars>>

(* ctrl->run()                                                             *)
RunCtrl(k) ==
  /\ sock[k] = "adding" /\ todo[k] = <<>>
  /\ runs' = [runs EXCEPT ![k] = {"recv", "hello"}]
  /\ sock' = [sock EXCEPT ![k] = "ctrl"]
  /\ UNCHANGED <<hello, todo, ctrls, shares, added, fwd, of, late, shut, serving, ctrlVars>>

(* handle_hello_msg(tcp_share_worker_hello): a share that lives gets the   *)
(* worker, even one that is closing.                                       *)
WorkerHello(k, i) ==
  /\ MainFree /\ sock[k] = "read"
  /\ \/ /\ ~Taken(i)
        /\ sock' = [sock EXCEPT ![k] = "closed"]
        /\ UNCHANGED <<worker, of, late>>
     \/ /\ Taken(i)
        /\ sock' = [sock EXCEPT ![k] = "worker"]
        /\ worker' = [worker EXCEPT ![k] = "new"]
        /\ of' = [of EXCEPT ![k] = <<shares[i], i>>]
        /\ late' = late \cup {x \in {k} : <<shares[i], i>> \in closing}
  /\ UNCHANGED <<hello, todo, ctrls, shares, runs, added, fwd, shut, serving,
                 stopping, closing, told>>

(* got_worker: into workers_ and wq_; if wq_ is closed only the latter     *)
(* fails, in a coroutine nobody waits for.                                 *)
GotWorker(k) ==
  /\ MainFree /\ worker[k] = "new"
  /\ worker' = [worker EXCEPT ![k] = "idle"]
  /\ UNCHANGED <<sock, hello, todo, ctrls, shares, runs, added, fwd, of, late, shut, serving,
                 stopping, closing, told>>

(* A visitor takes the worker from an open wq_ (module ServerWorker).      *)
VisitWorker(k) ==
  /\ MainFree /\ worker[k] = "idle" /\ of[k] \notin closing
  /\ worker' = [worker EXCEPT ![k] = "visited"]
  /\ UNCHANGED <<sock, hello, todo, ctrls, shares, runs, added, fwd, of, late, shut, serving,
                 stopping, closing, told>>

(* The visit was confirmed, and the forwarder put the socket in a pipe.    *)
PipeCreated(k) ==
  /\ worker[k] = "visited"
  /\ worker' = [worker EXCEPT ![k] = "piped"]
  /\ UNCHANGED <<sock, hello, todo, ctrls, shares, runs, added, fwd, of, late, shut, serving,
                 stopping, closing, told>>

(* Its coroutines have ended: it was stopped, its peer left, it timed out  *)
(* or its visit or pipe is over.                                           *)
WorkerEnds(k) ==
  /\ MainFree /\ Holds(k)
  /\ worker' = [worker EXCEPT ![k] = "dead"]
  /\ UNCHANGED <<sock, hello, todo, ctrls, shares, runs, added, fwd, of, late, shut, serving,
                 stopping, closing, told>>

-----------------------------------------------------------------------------
(* Main thread: the coroutines of a running controller.                    *)

(* send_msgs sends the hello outside its try block.                        *)
HelloSent(k) ==
  /\ MainFree /\ "hello" \in runs[k] /\ k \notin stopping \cup shut
  /\ runs' = [runs EXCEPT ![k] = (@ \ {"hello"}) \cup {"send"}]
  /\ UNCHANGED <<sock, hello, todo, ctrls, shares, added, fwd, of, late, shut, serving, ctrlVars>>

HelloNotSent(k) ==
  /\ MainFree /\ "hello" \in runs[k]
  /\ runs' = [runs EXCEPT ![k] = @ \ {"hello"}]
  /\ UNCHANGED <<sock, hello, todo, ctrls, shares, added, fwd, of, late, shut, serving, ctrlVars>>

(* recv_msgs or send_msgs throws: the client left, or try_stop closed the  *)
(* socket and the queue they wait on.                                      *)
CtrlFails(k) ==
  /\ MainFree
  /\ \E a \in runs[k] \ {"hello"} : runs' = [runs EXCEPT ![k] = @ \ {a}]
  /\ \/ k \in stopping /\ UNCHANGED ctrlVars
     \/ k \notin stopping /\ MayStop(k, NoShare) /\ StopCtrls({k}, {})
  /\ UNCHANGED <<sock, hello, todo, ctrls, shares, added, fwd, of, late, shut, serving>>

(* Mutant: the server forgets its controllers.                             *)
StopNobody == UNCHANGED ctrlVars

(* The controllers in ctrls_ that live are stopped.                        *)
StopEveryone == StopCtrls({k \in Conns : \E u \in Uuids : ctrls[u] = k /\ LiveCtrl(k)}, {})

(* server::try_stop, on SIGINT or when accepting fails.                    *)
StopServer ==
  /\ MainFree /\ serving = "accepting"
  /\ \A k \in Conns : (LiveCtrl(k) => MayStop(k, NoShare)) /\ (QuietStops => sock[k] # "read")
  /\ serving' = "stopping"
  /\ StopEveryone
  /\ sock' = [k \in Conns |-> IF sock[k] = "open" THEN "closed" ELSE sock[k]]
  /\ shut' = shut \cup {k \in Conns : sock[k] = "read"}
  /\ UNCHANGED <<hello, todo, ctrls, shares, runs, added, fwd, of, late>>

-----------------------------------------------------------------------------
(* Forwarder threads: run_forwarder of a share.                            *)

FwdBind(s) ==
  /\ fwd[s] = "spawned"
  /\ fwd' = [fwd EXCEPT ![s] = "bound"]
  /\ UNCHANGED <<sock, hello, todo, ctrls, shares, runs, added, of, late, shut, serving, ctrlVars>>

(* fwd_ = fwd, and the forwarder accepts visitors.                         *)
FwdPublish(s) ==
  /\ fwd[s] = "bound"
  /\ fwd' = [fwd EXCEPT ![s] = "listening"]
  /\ UNCHANGED <<sock, hello, todo, ctrls, shares, runs, added, of, late, shut, serving, ctrlVars>>

(* forwarder::try_stop stops the pipes it has by then.                     *)
DropPipes(s) ==
  worker' = [k \in Conns |-> IF worker[k] = "piped" /\ of[k] = s THEN "dead" ELSE worker[k]]

(* The port is taken, or accepting fails; handle_error runs on this thread.*)
FwdFails(s) ==
  /\ fwd[s] \in {"spawned", "listening"}
  /\ fwd' = [fwd EXCEPT ![s] = "ended"]
  /\ \/ s \in closing /\ DropPipes(s) /\ UNCHANGED <<stopping, closing, told>>
     \/ s \notin closing /\ MayStop(s[1], s) /\ StopCtrls({s[1]}, {s})
  /\ UNCHANGED <<sock, hello, todo, ctrls, shares, runs, added, of, late, shut, serving>>

(* A forwarder that was told closes its acceptor and the pipes it has.     *)
FwdStopped(s) ==
  /\ fwd[s] = "listening" /\ s \in told
  /\ fwd' = [fwd EXCEPT ![s] = "ended"]
  /\ DropPipes(s)
  /\ UNCHANGED <<sock, hello, todo, ctrls, shares, runs, added, of, late, shut, serving,
                 stopping, closing, told>>

Main(k) ==
  \/ Accept(k) \/ NoHello(k) \/ HelloRead(k) \/ HelloLate(k) \/ AddShare(k) \/ RunCtrl(k)
  \/ \E h \in ClientHellos : ClientHello(k, h)
  \/ \E i \in WorkerHellos : WorkerHello(k, i)
  \/ GotWorker(k) \/ VisitWorker(k) \/ PipeCreated(k) \/ WorkerEnds(k)
  \/ HelloSent(k) \/ HelloNotSent(k) \/ CtrlFails(k)
Forwarders(s) == FwdBind(s) \/ FwdPublish(s) \/ FwdFails(s) \/ FwdStopped(s)

Next == \/ \E k \in Conns : Main(k)
        \/ StopServer \/ ServeEnds
        \/ \E s \in Shares : Forwarders(s)

(* Both io_contexts run what is ready: a hello's loop, a spawned coroutine,*)
(* a forwarder's start and its stop.  What waits on a closed socket or     *)
(* queue gets its error.  Nobody has to connect, visit, leave or fail.     *)
Fairness ==
  /\ WF_vars(ServeEnds)
  /\ \A k \in Conns :
       /\ WF_vars(AddShare(k) \/ RunCtrl(k) \/ GotWorker(k))
       /\ WF_vars(HelloSent(k) \/ HelloNotSent(k))
       /\ WF_vars(CtrlFails(k) /\ k \in stopping \cup shut)
       /\ WF_vars(WorkerEnds(k) /\ (worker[k] = "stopped" \/ k \in shut))
  /\ \A s \in Shares : WF_vars(FwdBind(s) \/ FwdPublish(s) \/ FwdStopped(s))

Spec == Init /\ [][Next]_vars /\ Fairness

-----------------------------------------------------------------------------
TypeOK ==
  /\ sock \in [Conns -> {"none", "open", "read", "closed", "adding", "rejected", "ctrl", "worker"}]
  /\ hello \in [Conns -> ClientHellos \cup {None}]
  /\ todo \in [Conns -> Seq(Ids)]
  /\ ctrls \in [Uuids -> Conns \cup {None}] /\ shares \in [Ids -> Conns \cup {None}]
  /\ runs \in [Conns -> SUBSET {"recv", "hello", "send"}]
  /\ {stopping, shut} \subseteq SUBSET Conns
  /\ {added, closing, told} \subseteq SUBSET Shares
  /\ fwd \in [Shares -> {"none", "spawned", "bound", "listening", "ended"}]
  /\ worker \in [Conns -> {"none", "new", "idle", "visited", "stopped", "piped", "dead"}]
  /\ of \in [Conns -> Shares \cup {NoShare}] /\ late \subseteq Conns
  /\ serving \in {"accepting", "stopping", "ended"}

(* The weak pointers in ctrls_ and tcp_shares_ name every controller and   *)
(* share that lives, so no two living ones share a uuid or an id: not even *)
(* one whose hello was rejected half-way, or that is being stopped while   *)
(* its client has connected again.                                         *)
LiveIsRegistered ==
  /\ \A k \in Conns : LiveCtrl(k) => hello[k] # None /\ ctrls[hello[k].uuid] = k
  /\ \A s \in Shares : LiveShare(s) => shares[s[2]] = s[1]

(* What is left of controller k, the workers that came too late aside.     *)
Remains(k) ==
  \/ runs[k] # {} \/ sock[k] = "adding"
  \/ \E i \in Ids : fwd[<<k, i>>] \in {"spawned", "bound", "listening"}
  \/ \E x \in Conns \ late : Holds(x) /\ of[x][1] = k

(* server.hpp:283: an error stops the whole controller.  Of the ones that  *)
(* were stopped (stopping only grows) nothing remains in the end, whatever *)
(* comes later, but workers that a share accepted while it was closing.    *)
StopIsComplete == <>[](\A k \in stopping : ~Remains(k))

(* zserver.cpp:75: ioc.run() returns once the server was told to stop: it  *)
(* accepts nobody, no hello is waited for and no controller is left.       *)
ServerEnds ==
  serving # "accepting" ~>
    /\ serving = "ended"
    /\ \A k \in Conns : sock[k] \notin {"open", "read", "adding"} /\ ~LiveCtrl(k)
=============================================================================
